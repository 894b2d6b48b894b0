---------------------------- MODULE ExtensionProofs ----------------------------
(* What the VS Code extension keeps beside the server: the user's settings     *)
(* survive capture mode, for any settings and values, wherever a toggle is cut *)
(* short; and the status bar comes to say where the cursor is, for any lines,  *)
(* in whatever order answers come.  Last, what is proved of the server's parts *)
(* and of these holds where MCServer puts them side by side.                   *)
EXTENDS MCServer, ServerProofs, TLAPS

USE CaptureAssumption, SettingsAssumption

(* What a toggle that turns the mode off has yet to write is what the user had. *)
RestIsOwn ==
  /\ \A i \in DOMAIN writes : writes[i].value = own[writes[i].key]
  /\ \A k \in Keys : settings[k] = own[k] \/ \E i \in DOMAIN writes : writes[i].key = k

(* Where a toggle stands: the priors are there before the first setting is     *)
(* written and until the last is written back.                                 *)
CaptureInv ==
  /\ CaptureTypeOK
  /\ Captured => saved = own
  /\ ~Captured => settings = own /\ busy \in {"no", "save"}
  /\ busy = "save" => ~Captured /\ ~closing
  /\ busy = "clear" => closing /\ writes = <<>>
  /\ closing => busy \in {"write", "clear"} /\ Captured /\ RestIsOwn

LEMMA PlansAreWrites ==
  ASSUME CaptureTypeOK
  PROVE  /\ PlanCaptureOn \in Seq([key : Keys, value : Values \cup {Unset}])
         /\ Captured => PlanCaptureOff \in Seq([key : Keys, value : Values \cup {Unset}])
<1>1. \A i \in DOMAIN Settings : Settings[i] \in Keys
  BY DEF Keys
<1>2. PlanCaptureOn \in Seq([key : Keys, value : Values \cup {Unset}])
  BY <1>1 DEF PlanCaptureOn
<1>3. ASSUME Captured
      PROVE  PlanCaptureOff \in Seq([key : Keys, value : Values \cup {Unset}])
  <2>1. saved \in [Keys -> Values \cup {Unset}]
    BY <1>3 DEF CaptureTypeOK, Captured
  <2>. QED
    BY <1>1, <2>1 DEF PlanCaptureOff
<1>. QED
  BY <1>2, <1>3

LEMMA SettingsAreNotNone ==
  ASSUME CaptureTypeOK
  PROVE  settings # None
<1>1. Settings[1] \in Keys
  BY DEF Keys
<1>. QED
  BY <1>1 DEF CaptureTypeOK, None

LEMMA HeadIsAWrite ==
  ASSUME NEW S, NEW s \in Seq(S), s # <<>>
  PROVE  Head(s) = s[1] /\ 1 \in DOMAIN s /\ s[1] \in S
<1>1. Len(s) \in Nat \ {0} /\ DOMAIN s = 1 .. Len(s)
  OBVIOUS
<1>. QED
  BY <1>1

LEMMA CaptureStep == CaptureInv /\ [CaptureNext]_captureVars => CaptureInv'
<1>. SUFFICES ASSUME CaptureInv, [CaptureNext]_captureVars
              PROVE  CaptureInv'
  OBVIOUS
<1>. USE DEF CaptureInv, CaptureTypeOK
<1>1. CASE Toggle
  <2>1. CASE Captured
    <3>1. writes' = PlanCaptureOff /\ closing' /\ busy' = "write"
      BY <1>1, <2>1 DEF Toggle
    <3>2. writes' \in Seq([key : Keys, value : Values \cup {Unset}])
      BY <2>1, <3>1, PlansAreWrites
    <3>3. DOMAIN writes' = DOMAIN Settings
           /\ \A i \in DOMAIN Settings :
                writes'[i].key = Settings[i] /\ writes'[i].value = saved[Settings[i]]
      BY <3>1 DEF PlanCaptureOff
    <3>4. RestIsOwn'
      <4>1. saved = own /\ own' = own /\ settings' = settings
        BY <1>1, <2>1 DEF Toggle
      <4>2. \A i \in DOMAIN writes' : writes'[i].value = own'[writes'[i].key]
        BY <3>3, <4>1
      <4>3. \A k \in Keys : \E i \in DOMAIN writes' : writes'[i].key = k
        BY SMTT(30), <3>3 DEF Keys
      <4>. QED
        BY <4>2, <4>3 DEF RestIsOwn
    <3>. QED
      BY <1>1, <2>1, <3>1, <3>2, <3>4 DEF Toggle, Captured
  <2>2. CASE ~Captured
    BY <1>1, <2>2, PlansAreWrites DEF Toggle, Captured
  <2>. QED
    BY <2>1, <2>2
<1>2. CASE PriorsSaved
  BY <1>2, SettingsAreNotNone DEF PriorsSaved, Captured
<1>3. CASE WriteSetting
  <2>1. writes # <<>> /\ Head(writes) = writes[1] /\ 1 \in DOMAIN writes
         /\ writes[1] \in [key : Keys, value : Values \cup {Unset}]
    BY <1>3, HeadIsAWrite DEF WriteSetting
  <2>2. writes' \in Seq([key : Keys, value : Values \cup {Unset}])
    BY <1>3, <2>1 DEF WriteSetting
  <2>3. settings' \in [Keys -> Values \cup {Unset}]
    BY <1>3, <2>1 DEF WriteSetting
  <2>4. closing => RestIsOwn'
    <3>. SUFFICES ASSUME closing PROVE RestIsOwn'
      OBVIOUS
    <3>1. DOMAIN writes' = 1 .. Len(writes) - 1
           /\ \A i \in DOMAIN writes' : writes'[i] = writes[i + 1] /\ i + 1 \in DOMAIN writes
      BY <1>3, <2>1 DEF WriteSetting
    <3>2. \A i \in DOMAIN writes' : writes'[i].value = own'[writes'[i].key]
      BY <1>3, <3>1 DEF RestIsOwn, WriteSetting
    <3>3. ASSUME NEW k \in Keys
          PROVE  settings'[k] = own'[k] \/ \E i \in DOMAIN writes' : writes'[i].key = k
      <4>1. CASE k = Head(writes).key
        <5>1. settings'[k] = writes[1].value /\ k = writes[1].key /\ 1 \in DOMAIN writes
          BY <1>3, <2>1, <4>1 DEF WriteSetting
        <5>. QED
          BY <1>3, <5>1 DEF RestIsOwn, WriteSetting
      <4>2. CASE k # Head(writes).key
        <5>1. settings'[k] = settings[k] /\ own' = own
          BY <1>3, <4>2 DEF WriteSetting
        <5>2. CASE settings[k] # own[k]
          <6>1. PICK i \in DOMAIN writes : writes[i].key = k
            BY <5>2 DEF RestIsOwn
          <6>2. i # 1 /\ i \in 2 .. Len(writes)
            BY <2>1, <4>2, <6>1
          <6>3. i - 1 \in DOMAIN writes' /\ writes'[i - 1] = writes[i]
            BY <2>1, <3>1, <6>2
          <6>. QED
            BY <6>1, <6>3
        <5>. QED
          BY <5>1, <5>2
      <4>. QED
        BY <4>1, <4>2
    <3>. QED
      BY <3>2, <3>3 DEF RestIsOwn
  <2>. QED
    BY <1>3, <2>2, <2>3, <2>4 DEF WriteSetting, Captured
<1>4. CASE WritesDone
  <2>1. CASE closing
    BY <1>4, <2>1 DEF WritesDone, Captured, RestIsOwn
  <2>2. CASE ~closing
    BY <1>4, <2>2 DEF WritesDone, Ends, Captured
  <2>. QED
    BY <2>1, <2>2
<1>5. CASE PriorsCleared
  <2>1. settings = own
    BY <1>5 DEF PriorsCleared, RestIsOwn
  <2>. QED
    BY <1>5, <2>1 DEF PriorsCleared, Ends, Captured
<1>6. CASE ToggleIsCutShort
  <2>1. writes' \in Seq([key : Keys, value : Values \cup {Unset}])
    BY <1>6 DEF ToggleIsCutShort, Ends
  <2>. QED
    BY <1>6, <2>1 DEF ToggleIsCutShort, Ends, Captured
<1>7. ASSUME NEW k \in Keys, NEW v \in Values \cup {Unset}, UserSets(k, v)
      PROVE  CaptureInv'
  BY <1>7 DEF UserSets, Captured
<1>8. CASE UNCHANGED captureVars
  BY <1>8 DEF captureVars, Captured, RestIsOwn
<1>. QED
  BY <1>1, <1>2, <1>3, <1>4, <1>5, <1>6, <1>7, <1>8 DEF CaptureNext

LEMMA CaptureStarts == CaptureInit => CaptureInv
<1>1. <<>> \in Seq([key : Keys, value : Values \cup {Unset}])
  OBVIOUS
<1>. QED
  BY <1>1 DEF CaptureInit, CaptureInv, CaptureTypeOK, Captured, RestIsOwn

(* Settings, saved priors and what is left to write are settings and values.   *)
THEOREM CaptureTypesHold == CaptureSpec => []CaptureTypeOK
<1>1. CaptureInv => CaptureTypeOK
  BY DEF CaptureInv
<1>. QED
  BY <1>1, CaptureStarts, CaptureStep, PTL DEF CaptureSpec

(* Whatever fails and whenever the window is reloaded, the settings are the    *)
(* user's when the mode is off, and can be put back while it is on.            *)
THEOREM SettingsSurvive == CaptureSpec => []CaptureRestores
<1>1. CaptureInv => CaptureRestores
  BY DEF CaptureInv, CaptureRestores
<1>. QED
  BY <1>1, CaptureStarts, CaptureStep, PTL DEF CaptureSpec

-----------------------------------------------------------------------------
(* The status bar                                                              *)

Said == [text : Nat, pos : Positions]

Asked == [who : {"strip", "atlas"}, request : Nat, edition : Nat, pos : Positions, value : Said]

(* What the server says of a line is said of the edition and line asked about, *)
(* as long as a version has meant one text.                                    *)
Faithful(a) == a.value.text = a.edition /\ a.value.pos = a.pos

(* The request of the strip that was made last. *)
Newest(a) == a.who = "strip" /\ a.request = requestVersion

(* Where the strip's timer does not run, the strip says where the cursor is,   *)
(* or the newest of its requests, to be answered so or refused, is under way,  *)
(* or it was refused.                                                          *)
StripIsOnItsWay ==
  /\ \A i \in DOMAIN awaited : Newest(awaited[i]) => awaited[i].value = Here
  /\ \/ strip = Here
     \/ \E i \in DOMAIN awaited : Newest(awaited[i])
     \/ refused = requestVersion

StripIsOff ==
  /\ strip = Hidden
  /\ \A i \in DOMAIN awaited : awaited[i].who # "strip"

CursorTypes ==
  /\ active \in BOOLEAN /\ marked \in BOOLEAN
  /\ pos \in Positions
  /\ text \in Nat /\ edition \in 1 .. text
  /\ stripTimer \in BOOLEAN /\ atlasTimer \in BOOLEAN
  /\ requestVersion \in Nat /\ refused \in 0 .. requestVersion
  /\ awaited \in Seq(Asked)
  /\ snapshot \in [edition : Nat, pos : Positions, value : Said] \cup {NoSnapshot}
  /\ orderly \in BOOLEAN

(* Requests are numbered upwards, versions are texts while the order of events *)
(* was one the extension can follow, and what it remembers was said of them.   *)
CursorInv ==
  /\ CursorTypes
  /\ \A i \in DOMAIN awaited : awaited[i].request <= requestVersion
  /\ orderly =>
       /\ edition = text
       /\ Faithful(snapshot)
       /\ \A i \in DOMAIN awaited : Faithful(awaited[i])
       /\ ~stripTimer => IF active /\ ~marked THEN StripIsOnItsWay ELSE StripIsOff

LEMMA RememberedIsHere ==
  ASSUME CursorInv, orderly, Fresh
  PROVE  snapshot.value = Here
<1>1. snapshot.edition = edition /\ snapshot.pos = pos /\ edition # 0
  BY DEF Fresh, CursorInv, CursorTypes
<1>2. snapshot # NoSnapshot
  BY <1>1 DEF NoSnapshot
<1>3. snapshot.value \in Said
  BY <1>2 DEF CursorInv, CursorTypes
<1>4. snapshot.value = [text |-> snapshot.value.text, pos |-> snapshot.value.pos]
  BY <1>3 DEF Said
<1>. QED
  BY <1>1, <1>4 DEF CursorInv, Faithful, Here

LEMMA AskedIsAsked ==
  ASSUME CursorInv, NEW who \in {"strip", "atlas"}, NEW v \in Nat, Ask(who, v)
  PROVE  /\ awaited' \in Seq(Asked)
         /\ DOMAIN awaited' = 1 .. Len(awaited) + 1
         /\ \A i \in DOMAIN awaited : i \in DOMAIN awaited' /\ awaited'[i] = awaited[i]
         /\ \A i \in DOMAIN awaited' : i \in DOMAIN awaited \/ i = Len(awaited) + 1
         /\ awaited'[Len(awaited) + 1] =
              [who |-> who, request |-> v, edition |-> edition, pos |-> pos, value |-> Here]
<1>. DEFINE a == [who |-> who, request |-> v, edition |-> edition, pos |-> pos, value |-> Here]
<1>1. awaited \in Seq(Asked) /\ awaited' = Append(awaited, a)
  BY DEF CursorInv, CursorTypes, Ask
<1>2. a \in Asked
  BY DEF CursorInv, CursorTypes, Asked, Said, Here
<1>. HIDE DEF a
<1>3. QED
  BY <1>1, <1>2 DEF a

LEMMA RestOfAwaited ==
  ASSUME awaited \in Seq(Asked), awaited # <<>>
  PROVE  /\ Tail(awaited) \in Seq(Asked)
         /\ Head(awaited) = awaited[1] /\ 1 \in DOMAIN awaited /\ awaited[1] \in Asked
         /\ \A i \in DOMAIN Tail(awaited) : i + 1 \in DOMAIN awaited
                                            /\ Tail(awaited)[i] = awaited[i + 1]
         /\ \A i \in DOMAIN awaited : i # 1 => i - 1 \in DOMAIN Tail(awaited)
                                               /\ Tail(awaited)[i - 1] = awaited[i]
<1>1. Len(awaited) \in Nat \ {0} /\ DOMAIN awaited = 1 .. Len(awaited)
  OBVIOUS
<1>. QED
  BY <1>1

LEMMA CursorTypesStep == CursorInv /\ [CursorNext]_cursorVars => CursorTypes'
<1>. SUFFICES ASSUME CursorInv, [CursorNext]_cursorVars
              PROVE  CursorTypes'
  OBVIOUS
<1>. USE DEF CursorTypes
<1>. CursorTypes
  BY DEF CursorInv
<1>1. ASSUME NEW p \in Positions, NEW m \in BOOLEAN, MoveCursor(p, m)
      PROVE  CursorTypes'
  BY <1>1 DEF MoveCursor, Did
<1>2. CASE Type
  BY <1>2 DEF Type, Did
<1>3. CASE SwitchEditor
  BY <1>3 DEF SwitchEditor, Did
<1>4. CASE Reopen
  <2>1. text' \in Nat /\ edition' \in 1 .. text'
    BY <1>4 DEF Reopen
  <2>. QED
    BY <1>4, <2>1 DEF Reopen, Did
<1>5. CASE RefreshContext
  <2>1. requestVersion' \in Nat /\ refused' \in 0 .. requestVersion'
    BY <1>5 DEF RefreshContext
  <2>2. awaited' \in Seq(Asked)
    <3>1. awaited' = awaited \/ Ask("strip", requestVersion')
      BY <1>5 DEF RefreshContext
    <3>. QED
      BY <2>1, <3>1, AskedIsAsked
  <2>3. orderly' \in BOOLEAN
    BY <1>5 DEF RefreshContext
  <2>4. stripTimer' = FALSE /\ UNCHANGED <<active, marked, pos, text, edition, atlasTimer, snapshot>>
    BY <1>5 DEF RefreshContext
  <2>. QED
    BY <2>1, <2>2, <2>3, <2>4
<1>6. CASE RefreshAtlas
  <2>1. awaited' \in Seq(Asked)
    BY <1>6, AskedIsAsked DEF RefreshAtlas
  <2>. QED
    BY <1>6, <2>1 DEF RefreshAtlas
<1>7. CASE Answered
  <2>1. awaited' \in Seq(Asked) /\ awaited[1] \in Asked /\ snapshot' = Remember(awaited[1])
    BY <1>7, RestOfAwaited DEF Answered
  <2>2. snapshot' \in [edition : Nat, pos : Positions, value : Said]
    BY <2>1 DEF Remember, Asked
  <2>. QED
    BY <1>7, <2>1, <2>2 DEF Answered
<1>8. CASE Refused
  <2>1. awaited' \in Seq(Asked)
    BY <1>8, RestOfAwaited DEF Refused
  <2>2. refused' \in 0 .. requestVersion
    BY <1>8 DEF Refused
  <2>. QED
    BY <1>8, <2>1, <2>2 DEF Refused
<1>9. CASE UNCHANGED cursorVars
  BY <1>9 DEF cursorVars
<1>. QED
  BY <1>1, <1>2, <1>3, <1>4, <1>5, <1>6, <1>7, <1>8, <1>9 DEF CursorNext

LEMMA CursorStep == CursorInv /\ [CursorNext]_cursorVars => CursorInv'
<1>. SUFFICES ASSUME CursorInv, [CursorNext]_cursorVars
              PROVE  CursorInv'
  OBVIOUS
<1>0. CursorTypes'
  BY CursorTypesStep
<1>. CursorTypes
  BY DEF CursorInv
<1>1. ASSUME NEW p \in Positions, NEW m \in BOOLEAN, MoveCursor(p, m)
      PROVE  CursorInv'
  BY <1>0, <1>1 DEF MoveCursor, Did, CursorInv, Faithful
<1>2. CASE Type
  BY <1>0, <1>2 DEF Type, Did, CursorInv, Faithful
<1>3. CASE SwitchEditor
  BY <1>0, <1>3 DEF SwitchEditor, Did, CursorInv, Faithful
<1>4. CASE Reopen
  BY <1>0, <1>4 DEF Reopen, Did, CursorInv
<1>5. CASE RefreshContext
  <2>. /\ ~stripTimer' /\ Here' = Here
       /\ UNCHANGED <<active, marked, pos, text, edition, snapshot>>
    BY <1>5 DEF RefreshContext, Here
  <2>1. CASE ~active \/ marked
    <3>1. /\ UNCHANGED <<requestVersion, awaited>>
          /\ strip' = Hidden
          /\ orderly' = (orderly /\ \A i \in DOMAIN awaited : awaited[i].who # "strip")
      BY <1>5, <2>1 DEF RefreshContext
    <3>2. orderly' => StripIsOff' /\ orderly
      BY <3>1 DEF StripIsOff, Hidden
    <3>. QED
      BY <1>0, <2>1, <3>1, <3>2 DEF CursorInv, Faithful
  <2>2. CASE active /\ ~marked /\ Fresh
    <3>1. requestVersion' = requestVersion + 1 /\ UNCHANGED <<awaited, orderly>>
      BY <1>5, <2>2 DEF RefreshContext
    <3>2. strip' = snapshot.value
      BY <1>5, <2>2 DEF RefreshContext, StripShows
    <3>3. \A i \in DOMAIN awaited : awaited[i] \in Asked
      BY DEF CursorTypes
    <3>4. \A i \in DOMAIN awaited : awaited[i].request < requestVersion'
      BY <3>1, <3>3 DEF CursorInv, CursorTypes, Asked
    <3>5. \A i \in DOMAIN awaited' : awaited'[i].request <= requestVersion'
      BY <3>1, <3>3, <3>4 DEF CursorTypes, Asked
    <3>6. \A i \in DOMAIN awaited : ~(awaited[i].request = requestVersion')
      BY <3>1, <3>3, <3>4 DEF CursorTypes, Asked
    <3>7. orderly => StripIsOnItsWay'
      BY <3>1, <3>2, <3>6, <2>2, RememberedIsHere DEF StripIsOnItsWay, Newest
    <3>. QED
      BY <1>0, <2>2, <3>1, <3>5, <3>7 DEF CursorInv, Faithful
  <2>3. CASE active /\ ~marked /\ ~Fresh
    <3>1. requestVersion' = requestVersion + 1 /\ UNCHANGED <<strip, orderly>>
      BY <1>5, <2>3 DEF RefreshContext
    <3>2. requestVersion' \in Nat /\ Ask("strip", requestVersion')
      BY <1>5, <2>3 DEF RefreshContext, CursorTypes
    <3>. DEFINE n == Len(awaited) + 1
    <3>3. /\ \A i \in DOMAIN awaited : i \in DOMAIN awaited' /\ awaited'[i] = awaited[i]
          /\ \A i \in DOMAIN awaited' : i \in DOMAIN awaited \/ i = n
          /\ DOMAIN awaited' = 1 .. n
      BY <3>2, AskedIsAsked
    <3>4. awaited'[n] = [who |-> "strip", request |-> requestVersion', edition |-> edition,
                         pos |-> pos, value |-> Here]
      BY <3>2, AskedIsAsked
    <3>5. n \in DOMAIN awaited'
      BY <3>3
    <3>. HIDE DEF n
    <3>6. \A i \in DOMAIN awaited : awaited[i] \in Asked
      BY DEF CursorTypes
    <3>7. \A i \in DOMAIN awaited : awaited[i].request < requestVersion'
      BY <3>1, <3>6 DEF CursorInv, CursorTypes, Asked
    <3>8. \A i \in DOMAIN awaited' : awaited'[i].request <= requestVersion'
      <4>1. \A i \in DOMAIN awaited : awaited[i].request <= requestVersion'
        BY <3>1, <3>6, <3>7 DEF CursorTypes, Asked
      <4>2. awaited'[n].request = requestVersion' /\ requestVersion' <= requestVersion'
        BY <3>2, <3>4
      <4>. QED
        BY <3>3, <4>1, <4>2
    <3>9. \A i \in DOMAIN awaited : ~(awaited[i].request = requestVersion')
      BY <3>1, <3>6, <3>7 DEF CursorTypes, Asked
    <3>10. StripIsOnItsWay'
      <4>2. ASSUME NEW i \in DOMAIN awaited', awaited'[i].who = "strip",
                   awaited'[i].request = requestVersion'
            PROVE  awaited'[i].value = Here
        BY <3>3, <3>4, <3>9, <4>2
      <4>3. \E i \in DOMAIN awaited' : awaited'[i].who = "strip"
                                       /\ awaited'[i].request = requestVersion'
        BY <3>4, <3>5
      <4>. QED
        BY <4>2, <4>3 DEF StripIsOnItsWay, Newest
    <3>11. ASSUME orderly
           PROVE  \A i \in DOMAIN awaited' : Faithful(awaited'[i])
      <4>1. \A i \in DOMAIN awaited : Faithful(awaited[i])
        BY <3>11 DEF CursorInv
      <4>2. Faithful(awaited'[n])
        BY <3>4, <3>11 DEF Faithful, Here, CursorInv
      <4>. QED
        BY <3>3, <4>1, <4>2
    <3>. QED
      BY <1>0, <2>3, <3>1, <3>8, <3>10, <3>11 DEF CursorInv, Faithful
  <2>. QED
    BY <2>1, <2>2, <2>3 DEF CursorTypes
<1>6. CASE RefreshAtlas
  <2>1. UNCHANGED <<active, marked, pos, text, edition, stripTimer, requestVersion, refused,
                    snapshot, strip, orderly>> /\ Here' = Here
    BY <1>6 DEF RefreshAtlas, Here
  <2>2. CASE UNCHANGED awaited
    BY <1>0, <2>1, <2>2
       DEF CursorInv, Faithful, StripIsOff, StripIsOnItsWay, Newest
  <2>3. CASE Ask("atlas", 0)
    <3>. DEFINE n == Len(awaited) + 1
    <3>1. /\ \A i \in DOMAIN awaited : i \in DOMAIN awaited' /\ awaited'[i] = awaited[i]
          /\ \A i \in DOMAIN awaited' : i \in DOMAIN awaited \/ i = n
      BY <2>3, AskedIsAsked
    <3>2. awaited'[n] = [who |-> "atlas", request |-> 0, edition |-> edition,
                         pos |-> pos, value |-> Here]
      BY <2>3, AskedIsAsked
    <3>. HIDE DEF n
    <3>3. \A i \in DOMAIN awaited' : awaited'[i].request <= requestVersion'
      <4>1. 0 <= requestVersion
        BY DEF CursorTypes
      <4>. QED
        BY <2>1, <3>1, <3>2, <4>1 DEF CursorInv
    <3>4. ASSUME orderly
           PROVE  \A i \in DOMAIN awaited' : Faithful(awaited'[i])
      <4>1. \A i \in DOMAIN awaited : Faithful(awaited[i])
        BY <3>4 DEF CursorInv
      <4>2. Faithful(awaited'[n])
        BY <3>2, <3>4 DEF Faithful, Here, CursorInv
      <4>. QED
        BY <3>1, <4>1, <4>2
    <3>5. StripIsOnItsWay => StripIsOnItsWay'
      BY <2>1, <3>1, <3>2 DEF StripIsOnItsWay, Newest
    <3>6. StripIsOff => StripIsOff'
      BY <2>1, <3>1, <3>2 DEF StripIsOff
    <3>. QED
      BY <1>0, <2>1, <3>3, <3>4, <3>5, <3>6 DEF CursorInv, Faithful
  <2>. QED
    BY <1>6, <2>2, <2>3 DEF RefreshAtlas
<1>7. CASE Answered
  <2>1. /\ UNCHANGED <<active, marked, pos, text, edition, stripTimer, requestVersion, refused,
                       orderly>>
        /\ Here' = Here
    BY <1>7 DEF Answered, Here
  <2>2. /\ awaited[1] \in Asked /\ 1 \in DOMAIN awaited
        /\ \A i \in DOMAIN awaited' : i + 1 \in DOMAIN awaited /\ awaited'[i] = awaited[i + 1]
        /\ \A i \in DOMAIN awaited : i # 1 => i - 1 \in DOMAIN awaited'
                                              /\ awaited'[i - 1] = awaited[i]
    BY <1>7, RestOfAwaited DEF Answered, CursorTypes
  <2>3. snapshot' = Remember(awaited[1])
    BY <1>7, RestOfAwaited DEF Answered, CursorTypes
  <2>4. strip' = IF awaited[1].who = "strip" /\ awaited[1].request = requestVersion
                   THEN awaited[1].value ELSE strip
    BY <1>7, RestOfAwaited, <2>1 DEF Answered, CursorTypes, StripShows
  <2>5. \A i \in DOMAIN awaited' : awaited'[i].request <= requestVersion'
    BY <2>1, <2>2 DEF CursorInv
  <2>6. ASSUME orderly
        PROVE  Faithful(snapshot') /\ \A i \in DOMAIN awaited' : Faithful(awaited'[i])
    <3>1. Faithful(awaited[1]) /\ \A i \in DOMAIN awaited : Faithful(awaited[i])
      BY <2>2, <2>6 DEF CursorInv
    <3>2. Faithful(snapshot')
      BY <2>3, <3>1 DEF Remember, Faithful
    <3>. QED
      BY <2>2, <3>1, <3>2
  <2>7. ASSUME StripIsOnItsWay
        PROVE  StripIsOnItsWay'
    <3>1. \A i \in DOMAIN awaited' : Newest(awaited[i])' => awaited'[i].value = Here
      BY <2>1, <2>2, <2>7 DEF StripIsOnItsWay, Newest
    <3>2. CASE Newest(awaited[1])
      BY <2>1, <2>2, <2>4, <2>7, <3>1, <3>2 DEF StripIsOnItsWay, Newest
    <3>3. CASE ~Newest(awaited[1])
      <4>1. strip' = strip
        BY <2>4, <3>3 DEF Newest
      <4>2. ASSUME NEW i \in DOMAIN awaited, Newest(awaited[i])
            PROVE  i - 1 \in DOMAIN awaited' /\ Newest(awaited[i - 1])'
        BY <2>1, <2>2, <3>3, <4>2 DEF Newest
      <4>. QED
        BY <2>1, <2>7, <3>1, <4>1, <4>2 DEF StripIsOnItsWay
    <3>. QED
      BY <3>2, <3>3
  <2>8. StripIsOff => StripIsOff'
    BY <2>2, <2>4 DEF StripIsOff
  <2>. QED
    BY <1>0, <2>1, <2>5, <2>6, <2>7, <2>8 DEF CursorInv, Faithful
<1>8. CASE Refused
  <2>1. /\ UNCHANGED <<active, marked, pos, text, edition, stripTimer, requestVersion, snapshot,
                       strip, orderly>>
        /\ Here' = Here
    BY <1>8 DEF Refused, Here
  <2>2. /\ awaited[1] = Head(awaited) /\ 1 \in DOMAIN awaited
        /\ \A i \in DOMAIN awaited' : i + 1 \in DOMAIN awaited /\ awaited'[i] = awaited[i + 1]
        /\ \A i \in DOMAIN awaited : i # 1 => i - 1 \in DOMAIN awaited'
                                              /\ awaited'[i - 1] = awaited[i]
    BY <1>8, RestOfAwaited DEF Refused, CursorTypes
  <2>3. \A i \in DOMAIN awaited' : awaited'[i].request <= requestVersion'
    BY <2>1, <2>2 DEF CursorInv
  <2>4. orderly => \A i \in DOMAIN awaited' : Faithful(awaited'[i])
    BY <2>2 DEF CursorInv
  <2>5. ASSUME StripIsOnItsWay
        PROVE  StripIsOnItsWay'
    <3>1. \A i \in DOMAIN awaited' : Newest(awaited[i])' => awaited'[i].value = Here
      BY <2>1, <2>2, <2>5 DEF StripIsOnItsWay, Newest
    <3>2. CASE Newest(awaited[1])
      BY <1>8, <2>1, <2>2, <3>1, <3>2 DEF Refused, StripIsOnItsWay, Newest
    <3>3. CASE ~Newest(awaited[1])
      <4>1. refused = requestVersion => refused' = requestVersion'
        BY <1>8, <2>1, <2>2, <3>3 DEF Refused, Newest
      <4>2. ASSUME NEW i \in DOMAIN awaited, Newest(awaited[i])
            PROVE  i - 1 \in DOMAIN awaited' /\ Newest(awaited[i - 1])'
        BY <2>1, <2>2, <3>3, <4>2 DEF Newest
      <4>. QED
        BY <2>1, <2>5, <3>1, <4>1, <4>2 DEF StripIsOnItsWay
    <3>. QED
      BY <3>2, <3>3
  <2>6. StripIsOff => StripIsOff'
    BY <2>1, <2>2 DEF StripIsOff
  <2>. QED
    BY <1>0, <2>1, <2>3, <2>4, <2>5, <2>6 DEF CursorInv, Faithful
<1>9. CASE UNCHANGED cursorVars
  BY <1>0, <1>9
     DEF cursorVars, CursorInv, Faithful, StripIsOnItsWay, StripIsOff, Newest, Here
<1>. QED
  BY <1>1, <1>2, <1>3, <1>4, <1>5, <1>6, <1>7, <1>8, <1>9 DEF CursorNext

LEMMA CursorStarts == CursorInit => CursorInv
<1>1. <<>> \in Seq(Asked) /\ DOMAIN <<>> = {}
  OBVIOUS
<1>. SUFFICES ASSUME CursorInit PROVE CursorInv
  OBVIOUS
<1>2. CursorTypes
  <2>1. /\ text \in Nat /\ edition \in 1 .. text
        /\ requestVersion \in Nat /\ refused \in 0 .. requestVersion
    BY DEF CursorInit
  <2>2. active \in BOOLEAN /\ marked \in BOOLEAN /\ pos \in Positions
         /\ stripTimer \in BOOLEAN /\ atlasTimer \in BOOLEAN /\ orderly \in BOOLEAN
    BY DEF CursorInit
  <2>3. awaited \in Seq(Asked) /\ snapshot = NoSnapshot
    BY <1>1 DEF CursorInit
  <2>. QED
    BY <2>1, <2>2, <2>3 DEF CursorTypes
<1>3. Faithful(snapshot)
  BY DEF CursorInit, NoSnapshot, Hidden, Faithful
<1>. QED
  BY <1>1, <1>2, <1>3 DEF CursorInit, CursorInv

(* Positions, requests and what is remembered keep their types, and a version  *)
(* an editor reports is never one that is still to come.                       *)
THEOREM CursorTypesHold == CursorSpec => []CursorTypeOK
<1>1. CursorInv => CursorTypeOK
  <2>. SUFFICES ASSUME CursorInv PROVE CursorTypeOK
    OBVIOUS
  <2>1. \A i \in DOMAIN awaited : awaited[i] \in Asked
    BY DEF CursorInv, CursorTypes
  <2>2. \A a \in Asked : a.who \in {"strip", "atlas"}
    BY DEF Asked
  <2>. QED
    BY <2>1, <2>2 DEF CursorInv, CursorTypes, CursorTypeOK
<1>. QED
  BY <1>1, CursorStarts, CursorStep, PTL DEF CursorSpec

(* Whatever the user does and in whatever order answers, memory and requests   *)
(* of the atlas come, once nothing is pending the status bar says where the    *)
(* cursor is, or nothing where there is nothing to say, unless the last answer *)
(* it asked for was refused.                                                   *)
THEOREM StripComesRight == CursorSpec => []StripIsCurrent
<1>1. CursorInv => StripIsCurrent
  <2>. SUFFICES ASSUME CursorInv, orderly, ~stripTimer, awaited = <<>>
                PROVE  IF active /\ ~marked THEN strip = Here \/ refused = requestVersion
                       ELSE strip = Hidden
    BY DEF StripIsCurrent
  <2>1. DOMAIN awaited = {}
    OBVIOUS
  <2>. QED
    BY <2>1 DEF CursorInv, CursorTypes, StripIsOnItsWay, StripIsOff
<1>. QED
  BY <1>1, CursorStarts, CursorStep, PTL DEF CursorSpec

-----------------------------------------------------------------------------
(* The parts that MCServer puts side by side. *)

(* A behaviour of MCServer is one of each part, those that do not run           *)
(* stuttering: what is proved of a part holds in the run.                       *)
THEOREM ServerPartsRun ==
  MCSpec => Spec /\ DiagSpec /\ LifeSpec /\ CaptureSpec /\ CursorSpec
<1>1. MCInit => Init /\ DiagInit /\ LifeInit /\ CaptureInit /\ CursorInit
  BY DEF MCInit
<1>2. [MCNext]_mcVars => /\ [Next]_vars /\ [DiagNext]_diagVars /\ [LifeNext]_lifeVars
                         /\ [CaptureNext]_captureVars /\ [CursorNext]_cursorVars
  <2>1. CASE MCNext
    BY <2>1 DEF MCNext
  <2>2. CASE UNCHANGED mcVars
    BY <2>2 DEF mcVars
  <2>. QED
    BY <2>1, <2>2
<1>. QED
  BY <1>1, <1>2, PTL DEF MCSpec, Spec, DiagSpec, LifeSpec, CaptureSpec, CursorSpec

(* Documents, publications, the server's life, the user's settings and the     *)
(* cursor's context keep their types side by side.                              *)
THEOREM ServerTypesHold == MCSpec => []ServerTypeOK
<1>1. TypeOK /\ DiagTypeOK /\ LifeTypeOK /\ CaptureTypeOK /\ CursorTypeOK => ServerTypeOK
  BY DEF ServerTypeOK
<1>. QED
  BY <1>1, ServerPartsRun, StoreTypeCorrect, DiagnosticsTypeCorrect, LifeTypesHold,
     CaptureTypesHold, CursorTypesHold, PTL
=============================================================================
