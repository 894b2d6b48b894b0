------------------------------ MODULE CaptureMode ------------------------------
(* Spw: Toggle Capture Mode in the VS Code extension (capture/capture-mode.ts, *)
(* capture-plan.ts): hides lenses and hints by writing user settings, one      *)
(* after the other, and puts the prior values back.  The priors are kept in    *)
(* globalState, which a reload of the window survives; a reload may come       *)
(* between any two steps, and any write may fail.  One window toggles.         *)
EXTENDS Naturals, Sequences

CONSTANTS
  Settings,       \* CAPTURE_SETTINGS, in order
  Values,         \* what a user sets one to
  Off,            \* captureValue
  Unset,          \* the key is not in the user's settings
  MaxChanges      \* bound of the model: changes by the user

ASSUME CaptureAssumption == Off \in Values /\ Unset \notin Values
ASSUME SettingsAssumption ==
  DOMAIN Settings = 1 .. Len(Settings) /\ Len(Settings) \in Nat \ {0}

Keys == {Settings[i] : i \in DOMAIN Settings}

VARIABLES
  settings,       \* the [spw] settings of the user
  saved,          \* globalState: the priors, or none
  busy,           \* what the toggle awaits: "no", "save", "write" or "clear"
  writes,         \* writes it has yet to make
  closing,        \* it is turning the mode off
  own,            \* the settings as the user left them when the mode was off
  changes

captureVars == <<settings, saved, busy, writes, closing, own, changes>>

None == [k \in {} |-> Unset]
Captured == saved # None

CaptureInit ==
  /\ settings \in [Keys -> Values \cup {Unset}]
  /\ saved = None /\ busy = "no" /\ writes = <<>> /\ closing = FALSE
  /\ own = settings
  /\ changes = 0

(* planCaptureOff, or planCaptureOn, of which the priors are saved first. *)
PlanCaptureOff == [i \in DOMAIN Settings |-> [key |-> Settings[i], value |-> saved[Settings[i]]]]
PlanCaptureOn == [i \in DOMAIN Settings |-> [key |-> Settings[i], value |-> Off]]

(* Mutant: the priors are saved once the settings are written. *)
ToggleSavesLast ==
  /\ busy = "no"
  /\ closing' = Captured
  /\ writes' = IF Captured THEN PlanCaptureOff ELSE PlanCaptureOn
  /\ busy' = "write"
  /\ UNCHANGED <<settings, saved, own, changes>>

Toggle ==
  /\ busy = "no"
  /\ closing' = Captured
  /\ writes' = IF Captured THEN PlanCaptureOff ELSE PlanCaptureOn
  /\ busy' = IF Captured THEN "write" ELSE "save"
  /\ UNCHANGED <<settings, saved, own, changes>>

Ends == busy' = "no" /\ writes' = <<>> /\ closing' = FALSE

PriorsSaved ==
  /\ busy = "save"
  /\ saved' = settings
  /\ busy' = "write"
  /\ UNCHANGED <<settings, writes, closing, own, changes>>

WriteSetting ==
  /\ busy = "write" /\ writes # <<>>
  /\ settings' = [settings EXCEPT ![Head(writes).key] = Head(writes).value]
  /\ writes' = Tail(writes)
  /\ UNCHANGED <<saved, busy, closing, own, changes>>

WritesDone ==
  /\ busy = "write" /\ writes = <<>>
  /\ IF closing THEN busy' = "clear" /\ UNCHANGED <<writes, closing>> ELSE Ends
  /\ UNCHANGED <<settings, saved, own, changes>>

PriorsCleared ==
  /\ busy = "clear"
  /\ saved' = None
  /\ Ends
  /\ UNCHANGED <<settings, own, changes>>

(* An await rejects, or the window is reloaded. *)
ToggleIsCutShort ==
  /\ busy # "no"
  /\ Ends
  /\ UNCHANGED <<settings, saved, own, changes>>

(* The user edits the settings between two toggles; while the mode is on this  *)
(* is not what is put back.                                                    *)
UserSets(k, v) ==
  /\ busy = "no" /\ changes < MaxChanges
  /\ settings' = [settings EXCEPT ![k] = v]
  /\ own' = IF Captured THEN own ELSE settings'
  /\ changes' = changes + 1
  /\ UNCHANGED <<saved, busy, writes, closing>>

CaptureNext ==
  \/ Toggle \/ PriorsSaved \/ WriteSetting \/ WritesDone \/ PriorsCleared
  \/ ToggleIsCutShort
  \/ \E k \in Keys, v \in Values \cup {Unset} : UserSets(k, v)

CaptureSpec == CaptureInit /\ [][CaptureNext]_captureVars

-----------------------------------------------------------------------------
CaptureTypeOK ==
  /\ settings \in [Keys -> Values \cup {Unset}]
  /\ own \in [Keys -> Values \cup {Unset}]
  /\ saved \in [Keys -> Values \cup {Unset}] \cup {None}
  /\ busy \in {"no", "save", "write", "clear"}
  /\ writes \in Seq([key : Keys, value : Values \cup {Unset}])
  /\ closing \in BOOLEAN

(* Whatever fails and whenever the window is reloaded, when the mode is off    *)
(* and no toggle under way, the settings are as the user left them, those the  *)
(* user never set among them; and while it is on they can be put back.         *)
CaptureRestores ==
  /\ busy = "no" /\ ~Captured => settings = own
  /\ Captured => saved = own
=============================================================================
