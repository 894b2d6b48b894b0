---------------------------- MODULE Diagnostics -----------------------------
(***************************************************************************)
(* Publishing diagnostics (stdio-server.ts, handlers/analysis.ts).  An     *)
(* open, a change or a save restarts the document's debounce timer; the    *)
(* timer starts a publication, which nobody awaits and nothing cancels.    *)
(* A publication reads parse errors and references at its start, awaits    *)
(* the file system and git, and then, in the one step that sends, reads    *)
(* the document again for brace physics and the runtime trial.  A close    *)
(* sends an empty list and leaves timer and publications as they are.      *)
(*                                                                         *)
(* Versions stand for texts.  What a client shows is the pair of versions  *)
(* that the two halves of the last list it was sent were read from.        *)
(***************************************************************************)
EXTENDS Naturals

CONSTANTS
  Documents,  \* documents
  Slots,      \* publications that may be in flight together
  NoUri,      \* of a slot with no publication
  MaxEdits    \* bound on what the editor does

ASSUME DiagnosticsConstants == NoUri \notin Documents /\ MaxEdits \in Nat

VARIABLES
  opened,     \* documents open in the editor
  version,    \* text of each document; 0 before it is first opened
  timer,      \* documents whose debounce timer is running
  run,        \* publications in flight: document, version read at the start
  shown,      \* what the client shows of each document; 0 for an empty list
  calm,       \* documents never closed with something pending, whose
              \* publications ended in the order they began
  edits

diagVars == <<opened, version, timer, run, shown, calm, edits>>

Runs == [uri : Documents \cup {NoUri}, early : Nat]
NoRun == [uri |-> NoUri, early |-> 0]
Nothing == [early |-> 0, late |-> 0]

DiagTypeOK ==
  /\ opened \subseteq Documents
  /\ version \in [Documents -> Nat]
  /\ timer \subseteq Documents
  /\ run \in [Slots -> Runs]
  /\ shown \in [Documents -> [early : Nat, late : Nat]]
  /\ calm \subseteq Documents
  /\ edits \in Nat

DiagInit ==
  /\ opened = {} /\ timer = {}
  /\ version = [u \in Documents |-> 0]
  /\ run = [s \in Slots |-> NoRun]
  /\ shown = [u \in Documents |-> Nothing]
  /\ calm = Documents
  /\ edits = 0

Settled(u) == u \notin timer /\ \A s \in Slots : run[s].uri # u

OldestOfItsDocument(s) ==
  \A r \in Slots : run[r].uri = run[s].uri => run[s].early <= run[r].early

-----------------------------------------------------------------------------
Edit ==
  /\ edits < MaxEdits
  /\ edits' = edits + 1

NewText(u) == version' = [version EXCEPT ![u] = @ + 1]

(* Mutant: a change that finds a timer running lets it run out first. *)
DebounceOnce(u) == timer' = IF u \in timer THEN timer \ {u} ELSE timer \cup {u}

(* debounceDiagnostics: the timer starts again from the beginning.         *)
DebounceDiagnostics(u) == timer' = timer \cup {u}

DidOpen(u) ==
  /\ u \notin opened
  /\ Edit
  /\ opened' = opened \cup {u}
  /\ NewText(u)
  /\ DebounceDiagnostics(u)
  /\ UNCHANGED <<run, shown, calm>>

DidChange(u) ==
  /\ u \in opened
  /\ Edit
  /\ NewText(u)
  /\ DebounceDiagnostics(u)
  /\ UNCHANGED <<opened, run, shown, calm>>

DidSave(u) ==
  /\ u \in opened
  /\ Edit
  /\ DebounceDiagnostics(u)
  /\ UNCHANGED <<opened, version, run, shown, calm>>

DidClose(u) ==
  /\ u \in opened
  /\ Edit
  /\ opened' = opened \ {u}
  /\ calm' = IF Settled(u) THEN calm ELSE calm \ {u}
  /\ shown' = [shown EXCEPT ![u] = Nothing]
  /\ UNCHANGED <<version, timer, run>>

-----------------------------------------------------------------------------
(* The timer does not ask whether the document is still open: a closed one *)
(* is held by the store, and published.                                    *)
TimerFires(u, s) ==
  /\ u \in timer
  /\ run[s] = NoRun
  /\ timer' = timer \ {u}
  /\ run' = [run EXCEPT ![s] = [uri |-> u, early |-> version[u]]]
  /\ UNCHANGED <<opened, version, shown, calm, edits>>

(* Mutant: the whole publication reads the text it began with. *)
PublicationSendsWhatItBeganWith(s) ==
  /\ run[s].uri # NoUri
  /\ run' = [run EXCEPT ![s] = NoRun]
  /\ calm' = IF OldestOfItsDocument(s) THEN calm ELSE calm \ {run[s].uri}
  /\ shown' = [shown EXCEPT ![run[s].uri] = [early |-> run[s].early, late |-> run[s].early]]
  /\ UNCHANGED <<opened, version, timer, edits>>

(* The last await is over: the rest of the checks, and the send.           *)
PublicationSends(s) ==
  LET u == run[s].uri
  IN /\ run[s].uri # NoUri
     /\ run' = [run EXCEPT ![s] = NoRun]
     /\ calm' = IF OldestOfItsDocument(s) THEN calm ELSE calm \ {u}
     /\ shown' = [shown EXCEPT ![u] = [early |-> run[s].early, late |-> version[u]]]
     /\ UNCHANGED <<opened, version, timer, edits>>

-----------------------------------------------------------------------------
Editor == \E u \in Documents : DidOpen(u) \/ DidChange(u) \/ DidSave(u) \/ DidClose(u)

DiagNext ==
  \/ Editor
  \/ \E u \in Documents, s \in Slots : TimerFires(u, s)
  \/ \E s \in Slots : PublicationSends(s)

DiagSpec == DiagInit /\ [][DiagNext]_diagVars

(* Timers run out, and publications come to their end.                     *)
DiagFairness ==
  /\ \A u \in Documents : WF_diagVars(\E s \in Slots : TimerFires(u, s))
  /\ \A s \in Slots : WF_diagVars(PublicationSends(s))

DiagFairSpec == DiagSpec /\ DiagFairness

-----------------------------------------------------------------------------
(* However publications overlap, when nothing is pending the checks read   *)
(* at the send (brace physics, runtime trial) are those of the text the    *)
(* editor has: an overtaken publication reads the document again.          *)
QuietPhysicsIsCurrent ==
  \A u \in opened : Settled(u) => shown[u].late = version[u]

(* While a document's publications end in the order they began, so are its *)
(* checks read at the start (parse errors, broken references), whatever    *)
(* the publications of others do.                                          *)
QuietParseErrorsAreCurrent ==
  \A u \in opened \cap calm : Settled(u) => shown[u].early = version[u]

(* A document closed when nothing was pending shows no diagnostics.        *)
ClosedShowsNothing == \A u \in calm \ opened : shown[u] = Nothing

(* When nothing is pending, what is shown is what the editor has. *)
QuietListsAreRight ==
  QuietPhysicsIsCurrent /\ QuietParseErrorsAreCurrent /\ ClosedShowsNothing

(* What was typed is looked at: a publication that began at that text or a *)
(* later one is sent, unless the document is closed.  (Restarting a timer  *)
(* delays this for as long as somebody types.)                             *)
EditIsDiagnosed ==
  \A u \in Documents, v \in 1..MaxEdits :
    (u \in opened \cap timer /\ version[u] = v) ~> (u \notin opened \/ shown[u].early >= v)
=============================================================================
