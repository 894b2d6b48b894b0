---------------------------- MODULE ServerProofs -----------------------------
(* Proofs about the language server's parts: DocumentStore, Diagnostics    *)
(* and ServerLifecycle, for any number of documents, requests,             *)
(* publications, edits and messages. The parts share no state, and neither *)
(* do the three sections.                                                  *)
EXTENDS DocumentStore, Diagnostics, ServerLifecycle, Integers, TLAPS

-----------------------------------------------------------------------------
(* Documents. An open document is hot and held across any number of        *)
(* requests, the store implements HeldDocuments, and a closed document     *)
(* nobody uses is gone in time.                                            *)

(* A sweep leaves a hot document as it is, and any other document as it    *)
(* is, cold, or dropped: it makes none hot and changes no text.            *)
LEMMA SweepSparesHot ==
  ASSUME TypeOK, NEW u \in Uris, NEW now \in Nat
  PROVE  /\ Retired(u, now) \in Docs \cup {NoDoc}
         /\ u \in Held /\ doc[u].tier = "hot" => Retired(u, now) = doc[u]
         /\ \/ Retired(u, now) = doc[u]
            \/ Retired(u, now) = NoDoc
            \/ /\ u \in Held
               /\ Retired(u, now) \in Docs
               /\ Retired(u, now).tier = "cold"
               /\ Retired(u, now).text = doc[u].text
<1>1. CASE doc[u] = NoDoc
  BY <1>1 DEF Retired, Colder, Held
<1>2. CASE doc[u] # NoDoc
  <2>1. doc[u] \in Docs
    BY <1>2 DEF TypeOK
  <2>2. CASE doc[u].tier = "warm" /\ now - doc[u].access > WarmTtl
    BY <1>2, <2>1, <2>2 DEF Retired, Colder, Docs, Tiers, Held
  <2>3. CASE doc[u].tier = "cold" /\ now - doc[u].access > ColdTtl
    BY <1>2, <2>1, <2>3 DEF Retired, Colder, Docs, Tiers, Held
  <2>4. CASE /\ ~(doc[u].tier = "warm" /\ now - doc[u].access > WarmTtl)
             /\ ~(doc[u].tier = "cold" /\ now - doc[u].access > ColdTtl)
    BY <1>2, <2>1, <2>4 DEF Retired, Colder, Docs, Tiers, Held
  <2> QED
    BY <2>1, <2>2, <2>3, <2>4 DEF Docs
<1> QED
  BY <1>1, <1>2

(* Every variable of the store keeps its type.                             *)
LEMMA StoreTypes == Spec => []TypeOK
<1>1. Init => TypeOK
  BY DEF Init, TypeOK
<1>2. TypeOK /\ [Next]_vars => TypeOK'
  <2> SUFFICES ASSUME TypeOK, [Next]_vars PROVE TypeOK'
    OBVIOUS
  <2>1. ASSUME NEW u \in Uris, NEW t \in Texts, OpenDocument(u, t) PROVE TypeOK'
    BY <2>1 DEF OpenDocument, TypeOK, Docs, Tiers
  <2>2. ASSUME NEW u \in Uris, NEW t \in Texts, UpdateDocument(u, t) PROVE TypeOK'
    BY <2>2 DEF UpdateDocument, TypeOK, Docs, Tiers, Held
  <2>3. ASSUME NEW u \in Uris, CloseDocument(u) PROVE TypeOK'
    BY <2>3 DEF CloseDocument, TypeOK, Docs, Tiers, Held
  <2>4. ASSUME NEW u \in Uris, GetDocument(u) PROVE TypeOK'
    BY <2>4 DEF GetDocument, TypeOK, Docs, Tiers, Held
  <2>5. CASE Tick
    <3>1. epoch' \in Nat /\ open' = open
      BY <2>5 DEF Tick, TypeOK
    <3>2. \A u \in Uris : Retired(u, epoch') \in Docs \cup {NoDoc}
      BY <3>1, SweepSparesHot
    <3> QED
      BY <2>5, <3>1, <3>2 DEF Tick, TypeOK
  <2>6. CASE UNCHANGED vars
    BY <2>6 DEF vars, TypeOK
  <2> QED
    BY <2>1, <2>2, <2>3, <2>4, <2>5, <2>6 DEF Next
<1> QED
  BY <1>1, <1>2, PTL DEF Spec

(* Type correctness of the document store.                                 *)
THEOREM StoreTypeCorrect == Spec => []TypeOK
BY StoreTypes

(* One step keeps hot and open the same.                                   *)
LEMMA StepKeepsHot ==
  ASSUME TypeOK, OpenIsHot, [Next]_vars
  PROVE  OpenIsHot'
<1>1. ASSUME NEW v \in Uris, NEW t \in Texts, OpenDocument(v, t) PROVE OpenIsHot'
  BY <1>1, NoDocIsNoDocument DEF OpenDocument, OpenIsHot, TypeOK, Docs, Tiers, Held
<1>2. ASSUME NEW v \in Uris, NEW t \in Texts, UpdateDocument(v, t) PROVE OpenIsHot'
  BY <1>2, NoDocIsNoDocument DEF UpdateDocument, OpenIsHot, TypeOK, Docs, Tiers, Held
<1>3. ASSUME NEW v \in Uris, CloseDocument(v) PROVE OpenIsHot'
  BY <1>3, NoDocIsNoDocument DEF CloseDocument, OpenIsHot, TypeOK, Docs, Tiers, Held
<1>4. ASSUME NEW v \in Uris, GetDocument(v) PROVE OpenIsHot'
  BY <1>4, NoDocIsNoDocument DEF GetDocument, OpenIsHot, TypeOK, Docs, Tiers, Held
<1>5. CASE Tick
  <2>1. epoch' \in Nat /\ open' = open
    BY <1>5 DEF Tick, TypeOK
  <2>2. CASE doc' = doc
    BY <2>1, <2>2 DEF OpenIsHot, Held
  <2>3. CASE doc' = [u \in Uris |-> Retired(u, epoch')]
    <3> SUFFICES ASSUME NEW u \in Uris
                 PROVE  u \in open' <=> doc'[u] # NoDoc /\ doc'[u].tier = "hot"
      BY DEF OpenIsHot, Held
    <3>1. doc'[u] = Retired(u, epoch')
      BY <2>3
    <3> QED
      BY <2>1, <3>1, SweepSparesHot DEF OpenIsHot, Held
  <2> QED
    BY <1>5, <2>2, <2>3 DEF Tick
<1>6. CASE UNCHANGED vars
  BY <1>6 DEF vars, OpenIsHot, Held
<1> QED
  BY <1>1, <1>2, <1>3, <1>4, <1>5, <1>6 DEF Next

(* However many requests pass, a document is hot exactly while it is open. *)
THEOREM OpenStaysHot == Spec => []OpenIsHot
<1>1. Init => OpenIsHot
  BY DEF Init, OpenIsHot, Held
<1>2. TypeOK /\ OpenIsHot /\ [Next]_vars => OpenIsHot'
  BY StepKeepsHot
<1> QED
  BY <1>1, <1>2, StoreTypes, PTL DEF Spec

-----------------------------------------------------------------------------
(* Each step of the store is a step of HeldDocuments or changes nothing    *)
(* that HeldDocuments speaks of.                                           *)
LEMMA StepKeepsPromise ==
  ASSUME TypeOK, OpenIsHot, [Next]_vars
  PROVE  [Promise!Next]_(Promise!vars)
<1> DEFINE text == [u \in Uris |-> IF doc[u] = NoDoc THEN NoDoc ELSE doc[u].text]
<1>1. ASSUME NEW u \in Uris, NEW t \in Texts, OpenDocument(u, t)
      PROVE  Promise!Open(u, t)
  <2>1. text' = [text EXCEPT ![u] = t]
    <3> DEFINE new == [tier |-> "hot", access |-> epoch, text |-> t]
    <3>1. new \in Docs /\ new # NoDoc /\ new.text = t
      BY NoDocIsNoDocument DEF TypeOK, Docs, Tiers
    <3>2. doc' = [doc EXCEPT ![u] = new] /\ doc \in [Uris -> Docs \cup {NoDoc}]
      BY <1>1 DEF OpenDocument, TypeOK
    <3> QED
      BY <3>1, <3>2
  <2> QED
    BY <1>1, <2>1 DEF OpenDocument, Promise!Open
<1>2. ASSUME NEW u \in Uris, NEW t \in Texts, UpdateDocument(u, t)
      PROVE  Promise!Change(u, t)
  <2>1. u \in Held /\ doc[u] \in Docs
    BY <1>2 DEF UpdateDocument, OpenIsHot, TypeOK, Held
  <2>2. text' = [text EXCEPT ![u] = t]
    BY <1>2, <2>1, NoDocIsNoDocument DEF UpdateDocument, TypeOK, Docs
  <2> QED
    BY <1>2, <2>2 DEF UpdateDocument, Promise!Change
<1>3. ASSUME NEW u \in Uris, CloseDocument(u)
      PROVE  Promise!Close(u)
  <2>1. text' = text
    BY <1>3, NoDocIsNoDocument DEF CloseDocument, TypeOK, Docs, Tiers, Held
  <2> QED
    BY <1>3, <2>1 DEF CloseDocument, Promise!Close
<1>4. ASSUME NEW u \in Uris, GetDocument(u)
      PROVE  UNCHANGED Promise!vars
  <2>1. text' = text
    BY <1>4, NoDocIsNoDocument DEF GetDocument, TypeOK, Docs, Tiers, Held
  <2> QED
    BY <1>4, <2>1 DEF GetDocument, Promise!vars
<1>5. ASSUME Tick
      PROVE  Promise!Next \/ UNCHANGED Promise!vars
  <2>1. epoch' \in Nat /\ open' = open
    BY <1>5 DEF Tick, TypeOK
  <2>2. CASE doc' = doc
    BY <2>1, <2>2 DEF Promise!vars
  <2>3. CASE doc' = [u \in Uris |-> Retired(u, epoch')]
    <3> DEFINE S == {u \in Uris : doc[u] # NoDoc /\ doc'[u] = NoDoc}
    <3>1. \A u \in Uris : /\ u \in Held /\ doc[u].tier = "hot" => doc'[u] = doc[u]
                          /\ \/ doc'[u] = doc[u]
                             \/ doc'[u] = NoDoc
                             \/ /\ doc'[u] \in Docs
                                /\ doc[u] # NoDoc
                                /\ doc'[u].text = doc[u].text
      BY <2>1, <2>3, SweepSparesHot DEF Held
    <3>2. S \cap open = {}
      BY <3>1 DEF OpenIsHot, Held
    <3>3. \A u \in Uris : text'[u] = IF u \in S THEN NoDoc ELSE text[u]
      BY <3>1, NoDocIsNoDocument
    <3>4. text' = [u \in Uris |-> IF u \in S THEN NoDoc ELSE text[u]]
      BY <3>3
    <3>5. \E T \in SUBSET Uris :
            /\ T \cap open = {}
            /\ text' = [u \in Uris |-> IF u \in T THEN NoDoc ELSE text[u]]
            /\ UNCHANGED open
      BY <2>1, <3>2, <3>4, S \in SUBSET Uris
    <3> QED
      BY <3>5 DEF Promise!Next, Promise!Drop
  <2> QED
    BY <1>5, <2>2, <2>3 DEF Tick
<1>6. CASE UNCHANGED vars
  BY <1>6 DEF vars, Promise!vars
<1> QED
  BY <1>1, <1>2, <1>3, <1>4, <1>5, <1>6 DEF Next, Promise!Next

(* The store implements HeldDocuments: retiring by age, in two steps and   *)
(* at sweeps, never takes a document from an open editor and never changes *)
(* the text of one it keeps.                                               *)
THEOREM StoreKeepsPromise == Spec => KeepsPromise
<1>1. Init => Promise!Init
  BY DEF Init, Promise!Init
<1>2. TypeOK /\ OpenIsHot /\ [Next]_vars => [Promise!Next]_(Promise!vars)
  BY StepKeepsPromise
<1> QED
  BY <1>1, <1>2, StoreTypes, OpenStaysHot, PTL DEF Spec, KeepsPromise, Promise!Spec

-----------------------------------------------------------------------------
(* Retention.                                                              *)

(* Requests since the last sweep.                                          *)
Since == epoch % WarmTtl

(* What was closed and not used was no older at the last sweep than its    *)
(* tier allows; a document used since counts as younger than none.         *)
SweptInTime ==
  \A u \in Held \ open :
    /\ doc[u].tier = "warm" => Age(u) <= WarmTtl + Since
    /\ doc[u].tier = "cold" => Age(u) <= ColdTtl + Since

(* Division with remainder.                                                *)
LEMMA Division ==
  ASSUME NEW n \in Nat, NEW w \in Nat \ {0}
  PROVE  n % w \in 0..(w - 1) /\ n \div w \in Int /\ n = w * (n \div w) + (n % w)
<1>1. n % w \in 0..(w - 1)
  OBVIOUS
<1>2. n \div w \in Int
  OBVIOUS
<1>3. n = w * (n \div w) + (n % w)
  OBVIOUS
<1> QED BY <1>1, <1>2, <1>3

(* Counting on by one wraps the remainder or adds one to it.               *)
LEMMA CountOn ==
  ASSUME NEW w \in Nat \ {0}, NEW q \in Int, NEW p \in Int,
         NEW r \in 0..(w - 1), NEW s \in 0..(w - 1), w * q + r + 1 = w * p + s
  PROVE  \/ s = 0 /\ r = w - 1
         \/ s = r + 1
<1>1. w * (p - q) = r + 1 - s
  OBVIOUS
<1>2. CASE p - q >= 2
  <2>1. w * (p - q) >= w * 2
    BY <1>2, SMTT(30)
  <2> QED BY <2>1, <1>1
<1>3. CASE p - q <= -1
  <2>1. w * (p - q) <= -w
    BY <1>3, SMTT(30)
  <2> QED BY <2>1, <1>1
<1>4. CASE p - q = 0
  <2>1. w * (p - q) = 0
    BY <1>4
  <2> QED BY <2>1, <1>1
<1>5. CASE p - q = 1
  <2>1. w * (p - q) = w
    BY <1>5
  <2> QED BY <2>1, <1>1
<1> QED BY <1>2, <1>3, <1>4, <1>5

(* So a sweep comes every WarmTtl requests.                                *)
LEMMA SweepsComeInTime ==
  ASSUME NEW n \in Nat, NEW w \in Nat \ {0}
  PROVE  \/ (n + 1) % w = 0 /\ n % w = w - 1
         \/ (n + 1) % w = (n % w) + 1
<1>1. PICK q \in Int, r \in 0..(w - 1) : r = n % w /\ n = w * q + r
  BY Division
<1>2. n + 1 \in Nat
  OBVIOUS
<1>3. PICK p \in Int, s \in 0..(w - 1) : s = (n + 1) % w /\ n + 1 = w * p + s
  BY <1>2, Division
<1>4. w * q + r + 1 = w * p + s
  BY <1>1, <1>3
<1>5. (s = 0 /\ r = w - 1) \/ s = r + 1
  BY <1>4, CountOn
<1> QED BY <1>1, <1>3, <1>5

(* One request, seen from a closed document.                               *)
LEMMA TickSweepsInTime ==
  ASSUME TypeOK, OpenIsHot, SweptInTime, Tick
  PROVE  SweptInTime'
<1>1. /\ epoch \in Nat /\ epoch' = epoch + 1 /\ open' = open
      /\ WarmTtl \in Nat \ {0} /\ ColdTtl \in Nat /\ ColdTtl >= 2 * WarmTtl
  BY StoreConstants DEF Tick, TypeOK
<1>2. Since \in 0..(WarmTtl - 1)
  BY <1>1, Division DEF Since
<1>3. \/ Since' = 0 /\ Since = WarmTtl - 1
      \/ Since' = Since + 1
  BY <1>1, SweepsComeInTime DEF Since
<1> SUFFICES ASSUME NEW u \in Uris, u \notin open, doc'[u] # NoDoc
             PROVE  /\ doc'[u].tier = "warm" => epoch' - doc'[u].access <= WarmTtl + Since'
                    /\ doc'[u].tier = "cold" => epoch' - doc'[u].access <= ColdTtl + Since'
  BY <1>1 DEF SweptInTime, Held, Age
<1>4. ASSUME u \in Held
      PROVE  /\ doc[u].tier \in {"warm", "cold"} /\ doc[u].access \in Nat
             /\ doc[u].tier = "warm" => epoch - doc[u].access <= WarmTtl + Since
             /\ doc[u].tier = "cold" => epoch - doc[u].access <= ColdTtl + Since
  BY <1>4 DEF SweptInTime, OpenIsHot, TypeOK, Docs, Tiers, Held, Age
<1>5. CASE epoch' % WarmTtl # 0
  <2>1. doc' = doc /\ Since' = Since + 1
    BY <1>3, <1>5 DEF Tick, Since
  <2> QED BY <1>1, <1>2, <1>4, <2>1 DEF Held
<1>6. CASE epoch' % WarmTtl = 0
  <2>1. doc'[u] = Retired(u, epoch') /\ Since' = 0
    BY <1>6 DEF Tick, Since
  <2>2. Since <= WarmTtl - 1
    BY <1>1, <1>2
  <2>3. u \in Held
    BY <2>1, SweepSparesHot, <1>1 DEF Held
  <2>4. Since = WarmTtl - 1
    BY <1>1, <1>2, <1>3, <2>1
  <2>5. CASE doc[u].tier = "warm" /\ epoch' - doc[u].access > WarmTtl
    <3>1. doc'[u].tier = "cold" /\ doc'[u].access = doc[u].access
      BY <2>1, <2>3, <2>5 DEF Retired, Colder
    <3>2. epoch' - doc[u].access <= 2 * WarmTtl
      BY <1>1, <1>4, <2>3, <2>4, <2>5
    <3> QED BY <1>1, <1>4, <2>1, <2>3, <3>1, <3>2
  <2>6. CASE doc[u].tier = "cold" /\ epoch' - doc[u].access > ColdTtl
    BY <2>1, <2>3, <2>6 DEF Retired
  <2>7. CASE /\ ~(doc[u].tier = "warm" /\ epoch' - doc[u].access > WarmTtl)
             /\ ~(doc[u].tier = "cold" /\ epoch' - doc[u].access > ColdTtl)
    <3>1. doc'[u] = doc[u]
      BY <2>1, <2>3, <2>7 DEF Retired
    <3> QED BY <1>1, <1>4, <2>1, <2>3, <2>7, <3>1
  <2> QED BY <2>5, <2>6, <2>7
<1> QED BY <1>5, <1>6

(* So does every step.                                                     *)
LEMMA StepSweepsInTime ==
  ASSUME TypeOK, OpenIsHot, SweptInTime, [Next]_vars
  PROVE  SweptInTime'
<1>1. Since \in Nat /\ WarmTtl \in Nat /\ ColdTtl \in Nat /\ epoch \in Nat
  BY Division, StoreConstants DEF Since, TypeOK
<1>2. ASSUME epoch' = epoch, open \subseteq open', NEW u,
             \A v \in Uris \ {u} : doc'[v] = doc[v],
             u \in Held' \ open' => doc'[u].access = epoch
      PROVE  SweptInTime'
  <2>1. Since' = Since
    BY <1>2 DEF Since
  <2>2. ASSUME NEW v \in Held' \ open'
        PROVE  /\ doc'[v].tier = "warm" => epoch' - doc'[v].access <= WarmTtl + Since'
               /\ doc'[v].tier = "cold" => epoch' - doc'[v].access <= ColdTtl + Since'
    <3>1. CASE v = u
      BY <1>1, <1>2, <2>1, <3>1
    <3>2. CASE v # u
      BY <1>2, <2>1, <3>2 DEF SweptInTime, Held, Age
    <3> QED BY <3>1, <3>2
  <2> QED BY <2>2 DEF SweptInTime, Age
<1>3. ASSUME NEW u \in Uris, NEW t \in Texts, OpenDocument(u, t) \/ UpdateDocument(u, t)
      PROVE  SweptInTime'
  <2>1. /\ epoch' = epoch /\ open \subseteq open' /\ u \in open'
        /\ \A v \in Uris \ {u} : doc'[v] = doc[v]
    BY <1>3 DEF OpenDocument, UpdateDocument, TypeOK
  <2> QED BY <1>2, <2>1
<1>4. ASSUME NEW u \in Uris, CloseDocument(u) PROVE SweptInTime'
  <2>1. /\ epoch' = epoch /\ open' = open \ {u}
        /\ \A v \in Uris \ {u} : doc'[v] = doc[v]
    BY <1>4 DEF CloseDocument, TypeOK
  <2>2. u \in Held' => doc'[u].access = epoch
    BY <1>4 DEF CloseDocument, TypeOK, Docs, Held
  <2>3. Since' = Since
    BY <2>1 DEF Since
  <2>4. ASSUME NEW v \in Held' \ open'
        PROVE  /\ doc'[v].tier = "warm" => epoch' - doc'[v].access <= WarmTtl + Since'
               /\ doc'[v].tier = "cold" => epoch' - doc'[v].access <= ColdTtl + Since'
    <3>1. CASE v = u
      BY <1>1, <2>1, <2>2, <2>3, <3>1
    <3>2. CASE v # u
      BY <2>1, <2>3, <3>2 DEF SweptInTime, Held, Age
    <3> QED BY <3>1, <3>2
  <2> QED BY <2>4 DEF SweptInTime, Age
<1>5. ASSUME NEW u \in Uris, GetDocument(u) PROVE SweptInTime'
  <2>1. /\ epoch' = epoch /\ open' = open /\ doc'[u].access = epoch
        /\ \A v \in Uris \ {u} : doc'[v] = doc[v]
    BY <1>5 DEF GetDocument, TypeOK, Docs, Held
  <2> QED BY <1>2, <2>1
<1>6. CASE Tick
  BY <1>6, TickSweepsInTime
<1>7. CASE UNCHANGED vars
  BY <1>7 DEF vars, SweptInTime, Held, Age, Since
<1> QED BY <1>3, <1>4, <1>5, <1>6, <1>7 DEF Next

(* A closed document nobody asks about is gone before ColdTtl + WarmTtl    *)
(* requests have passed since its last use, however uses and sweeps fall.  *)
THEOREM RetentionBounded == Spec => []RetentionIsBounded
<1>1. Init => SweptInTime
  BY DEF Init, SweptInTime, Held
<1>2. TypeOK /\ OpenIsHot /\ SweptInTime /\ [Next]_vars => SweptInTime'
  BY StepSweepsInTime
<1>3. TypeOK /\ OpenIsHot /\ SweptInTime => RetentionIsBounded
  <2> SUFFICES ASSUME TypeOK, OpenIsHot, SweptInTime, NEW u \in Held \ open
               PROVE  Age(u) < ColdTtl + WarmTtl
    BY DEF RetentionIsBounded
  <2>1. /\ Since \in 0..(WarmTtl - 1) /\ WarmTtl \in Nat /\ ColdTtl \in Nat
        /\ ColdTtl >= 2 * WarmTtl
    BY Division, StoreConstants DEF Since, TypeOK
  <2>2. doc[u].tier \in {"warm", "cold"} /\ Age(u) \in Int
    BY DEF OpenIsHot, TypeOK, Docs, Tiers, Held, Age
  <2>3. Age(u) <= WarmTtl + Since \/ Age(u) <= ColdTtl + Since
    BY <2>2 DEF SweptInTime
  <2> QED BY <2>1, <2>2, <2>3
<1> QED
  BY <1>1, <1>2, <1>3, StoreTypes, OpenStaysHot, PTL DEF Spec

-----------------------------------------------------------------------------
(* Diagnostics.                                                            *)

(* Every step keeps every type.                                            *)
LEMMA StepTypes ==
  ASSUME DiagTypeOK, [DiagNext]_diagVars
  PROVE  DiagTypeOK'
<1> USE DEF DiagTypeOK, Runs, NoRun, Nothing
<1>1. ASSUME NEW u \in Documents, DidOpen(u) PROVE DiagTypeOK'
  BY <1>1 DEF DidOpen, Edit, NewText, DebounceDiagnostics
<1>2. ASSUME NEW u \in Documents, DidChange(u) PROVE DiagTypeOK'
  BY <1>2 DEF DidChange, Edit, NewText, DebounceDiagnostics
<1>3. ASSUME NEW u \in Documents, DidSave(u) PROVE DiagTypeOK'
  BY <1>3 DEF DidSave, Edit, DebounceDiagnostics
<1>4. ASSUME NEW u \in Documents, DidClose(u) PROVE DiagTypeOK'
  BY <1>4 DEF DidClose, Edit
<1>5. ASSUME NEW u \in Documents, NEW s \in Slots, TimerFires(u, s) PROVE DiagTypeOK'
  BY <1>5 DEF TimerFires
<1>6. ASSUME NEW s \in Slots, PublicationSends(s) PROVE DiagTypeOK'
  BY <1>6, DiagnosticsConstants DEF PublicationSends
<1>7. CASE UNCHANGED diagVars
  BY <1>7 DEF diagVars
<1> QED
  BY <1>1, <1>2, <1>3, <1>4, <1>5, <1>6, <1>7 DEF DiagNext, Editor

(* The initial state is typed.                                             *)
LEMMA InitTypes == DiagInit => DiagTypeOK
BY DEF DiagInit, DiagTypeOK, Runs, NoRun, Nothing

(* Type correctness of the diagnostics pipeline.                           *)
THEOREM DiagnosticsTypeCorrect == DiagSpec => []DiagTypeOK
BY InitTypes, StepTypes, PTL DEF DiagSpec

-----------------------------------------------------------------------------
(* However publications overlap and in whatever order they end, once       *)
(* nothing is pending the checks read at the send are current.  The        *)
(* invariant is inductive as it stands: a text that is not shown yet has a *)
(* timer or a publication, and every publication sends the current text.   *)
THEOREM PhysicsFollowsTheEditor == DiagSpec => []QuietPhysicsIsCurrent
<1>1. DiagInit => QuietPhysicsIsCurrent
  BY DEF DiagInit, QuietPhysicsIsCurrent
<1>2. DiagTypeOK /\ QuietPhysicsIsCurrent /\ [DiagNext]_diagVars => QuietPhysicsIsCurrent'
  <2> SUFFICES ASSUME DiagTypeOK, QuietPhysicsIsCurrent, [DiagNext]_diagVars,
                      NEW w \in opened', Settled(w)'
               PROVE  shown'[w].late = version'[w]
    BY DEF QuietPhysicsIsCurrent
  <2> w \in Documents
    BY StepTypes DEF DiagTypeOK
  <2> USE DiagnosticsConstants DEF DiagTypeOK, Runs, NoRun, Settled
  <2>1. ASSUME NEW u \in Documents, DidOpen(u) PROVE shown'[w].late = version'[w]
    BY <2>1 DEF DidOpen, NewText, DebounceDiagnostics, QuietPhysicsIsCurrent
  <2>2. ASSUME NEW u \in Documents, DidChange(u) PROVE shown'[w].late = version'[w]
    BY <2>2 DEF DidChange, NewText, DebounceDiagnostics, QuietPhysicsIsCurrent
  <2>3. ASSUME NEW u \in Documents, DidSave(u) PROVE shown'[w].late = version'[w]
    BY <2>3 DEF DidSave, DebounceDiagnostics, QuietPhysicsIsCurrent
  <2>4. ASSUME NEW u \in Documents, DidClose(u) PROVE shown'[w].late = version'[w]
    BY <2>4 DEF DidClose, QuietPhysicsIsCurrent
  <2>5. ASSUME NEW u \in Documents, NEW s \in Slots, TimerFires(u, s)
        PROVE  shown'[w].late = version'[w]
    <3>1. run'[s].uri = u
      BY <2>5 DEF TimerFires
    <3>2. w # u
      BY <3>1
    <3>3. w \notin timer /\ w \in opened
      BY <2>5, <3>2 DEF TimerFires
    <3>4. \A r \in Slots : run[r].uri # w
      BY <2>5 DEF TimerFires
    <3> QED
      BY <2>5, <3>3, <3>4 DEF TimerFires, QuietPhysicsIsCurrent
  <2>6. ASSUME NEW s \in Slots, PublicationSends(s)
        PROVE  shown'[w].late = version'[w]
    <3>1. CASE run[s].uri = w
      BY <2>6, <3>1 DEF PublicationSends
    <3>2. CASE run[s].uri # w
      <4>1. \A r \in Slots : run[r].uri # w
        BY <2>6, <3>2 DEF PublicationSends
      <4> QED
        BY <2>6, <3>2, <4>1 DEF PublicationSends, QuietPhysicsIsCurrent
    <3> QED
      BY <3>1, <3>2
  <2>7. CASE UNCHANGED diagVars
    BY <2>7 DEF diagVars, QuietPhysicsIsCurrent
  <2> QED
    BY <2>1, <2>2, <2>3, <2>4, <2>5, <2>6, <2>7 DEF DiagNext, Editor
<1> QED
  BY <1>1, <1>2, DiagnosticsTypeCorrect, PTL DEF DiagSpec

-----------------------------------------------------------------------------
(* Calm publications.  A closed document has nothing pending; the versions *)
(* shown of an open one, read by those in flight, and in the editor come   *)
(* in that order; and the editor's version is shown, being read, or awaits *)
(* the timer.                                                              *)
ClosedIsSettled == \A u \in calm \ opened : Settled(u)

InOrder ==
  \A u \in calm :
    /\ shown[u].early <= version[u]
    /\ \A s \in Slots : run[s].uri = u =>
         shown[u].early <= run[s].early /\ run[s].early <= version[u]

LatestIsOnItsWay ==
  \A u \in opened \cap calm :
    \/ u \in timer
    \/ \E s \in Slots : run[s].uri = u /\ run[s].early = version[u]
    \/ shown[u].early = version[u]

CalmInv == ClosedIsSettled /\ ClosedShowsNothing /\ InOrder /\ LatestIsOnItsWay

(* A step keeps the invariant of the documents it leaves calm.             *)
LEMMA StepKeepsCalm ==
  ASSUME DiagTypeOK, CalmInv, [DiagNext]_diagVars
  PROVE  CalmInv'
<1> USE DiagnosticsConstants DEF DiagTypeOK, Runs, NoRun, Nothing, Settled, CalmInv,
        ClosedIsSettled, ClosedShowsNothing, InOrder, LatestIsOnItsWay
<1>1. ASSUME NEW u \in Documents, DidOpen(u) PROVE CalmInv'
  BY <1>1 DEF DidOpen, NewText, DebounceDiagnostics
<1>2. ASSUME NEW u \in Documents, DidChange(u) PROVE CalmInv'
  BY <1>2 DEF DidChange, NewText, DebounceDiagnostics
<1>3. ASSUME NEW u \in Documents, DidSave(u) PROVE CalmInv'
  BY <1>3 DEF DidSave, DebounceDiagnostics
<1>4. ASSUME NEW u \in Documents, DidClose(u) PROVE CalmInv'
  BY <1>4 DEF DidClose
<1>5. ASSUME NEW u \in Documents, NEW s \in Slots, TimerFires(u, s) PROVE CalmInv'
  <2>1. run'[s] = [uri |-> u, early |-> version[u]] /\ \A r \in Slots \ {s} : run'[r] = run[r]
    BY <1>5 DEF TimerFires
  <2>2. UNCHANGED <<opened, version, shown, calm>> /\ timer' = timer \ {u} /\ run[s].uri = NoUri
    BY <1>5 DEF TimerFires
  <2>3. u \in calm => u \in opened
    BY <1>5 DEF TimerFires
  <2>4. ClosedIsSettled' /\ ClosedShowsNothing'
    <3>1. ClosedShowsNothing'
      BY <2>2
    <3>2. ASSUME NEW w \in calm \ opened, NEW r \in Slots PROVE w \notin timer' /\ run'[r].uri # w
      <4>1. w # u /\ w \notin timer /\ run[r].uri # w
        BY <2>3, <3>2
      <4>2. run'[s].uri = u
        BY <2>1
      <4> QED
        BY <2>1, <2>2, <4>1, <4>2
    <3> QED
      BY <2>2, <3>1, <3>2
  <2>5. InOrder'
    BY <2>1, <2>2
  <2>6. LatestIsOnItsWay'
    <3> SUFFICES ASSUME NEW w \in opened, w \in calm
                 PROVE  \/ w \in timer'
                        \/ \E r \in Slots : run'[r].uri = w /\ run'[r].early = version[w]
                        \/ shown[w].early = version[w]
      BY <2>2
    <3>1. CASE w = u
      BY <2>1, <3>1
    <3>2. CASE w # u
      <4>1. CASE \E r \in Slots : run[r].uri = w /\ run[r].early = version[w]
        BY <2>1, <2>2, <4>1
      <4> QED
        BY <2>2, <3>2, <4>1
    <3> QED
      BY <3>1, <3>2
  <2> QED
    BY <2>4, <2>5, <2>6
<1>6. ASSUME NEW s \in Slots, PublicationSends(s) PROVE CalmInv'
  <2> DEFINE u == run[s].uri
  <2>1. u \in Documents /\ (u \in calm => u \in opened)
    BY <1>6 DEF PublicationSends
  <2>2. run'[s].uri = NoUri /\ \A r \in Slots \ {s} : run'[r] = run[r]
    BY <1>6 DEF PublicationSends
  <2>3. shown' = [shown EXCEPT ![u] = [early |-> run[s].early, late |-> version[u]]]
    BY <1>6 DEF PublicationSends
  <2>4. UNCHANGED <<opened, version, timer>> /\ calm' \subseteq calm
    BY <1>6 DEF PublicationSends
  <2>5. u \in calm' => \A r \in Slots : run[r].uri = u => run[s].early <= run[r].early
    BY <1>6 DEF PublicationSends, OldestOfItsDocument
  <2>6. ClosedIsSettled' /\ ClosedShowsNothing'
    BY <2>1, <2>2, <2>3, <2>4
  <2>7. InOrder'
    <3> SUFFICES ASSUME NEW w \in calm'
                 PROVE  /\ shown'[w].early <= version[w]
                        /\ \A r \in Slots : run'[r].uri = w =>
                             shown'[w].early <= run'[r].early /\ run'[r].early <= version[w]
      BY <2>4
    <3>1. CASE w # u
      BY <2>1, <2>2, <2>3, <2>4, <3>1
    <3>2. CASE w = u
      <4>1. shown'[w].early = run[s].early /\ w \in calm
        BY <2>1, <2>3, <2>4, <3>2
      <4> QED
        BY <2>1, <2>2, <2>5, <3>2, <4>1
    <3> QED
      BY <3>1, <3>2
  <2>8. LatestIsOnItsWay'
    <3> SUFFICES ASSUME NEW w \in opened, w \in calm'
                 PROVE  \/ w \in timer
                        \/ \E r \in Slots : run'[r].uri = w /\ run'[r].early = version[w]
                        \/ shown'[w].early = version[w]
      BY <2>4
    <3> w \in calm
      BY <2>4
    <3>1. CASE w # u
      BY <2>1, <2>2, <2>3, <3>1
    <3>2. CASE w = u
      <4>1. shown'[w].early = run[s].early
        BY <2>1, <2>3, <3>2
      <4>2. CASE shown[w].early = version[w]
        <5>1. shown[w].early <= run[s].early /\ run[s].early <= version[w]
          BY <2>1, <3>2
        <5>2. run[s].early \in Nat /\ version[w] \in Nat
          BY <2>1, <3>2
        <5>3. run[s].early = version[w]
          BY ONLY <4>2, <5>1, <5>2
        <5> QED
          BY <4>1, <5>3
      <4>3. CASE \E r \in Slots : run[r].uri = w /\ run[r].early = version[w]
        <5>1. PICK r \in Slots : run[r].uri = w /\ run[r].early = version[w]
          BY <4>3
        <5>2. CASE r = s
          BY <4>1, <5>1, <5>2
        <5>3. CASE r # s
          BY <2>2, <5>1, <5>3
        <5> QED
          BY <5>2, <5>3
      <4> QED
        BY <4>2, <4>3
    <3> QED
      BY <3>1, <3>2
  <2> QED
    BY <2>6, <2>7, <2>8
<1>7. CASE UNCHANGED diagVars
  BY <1>7 DEF diagVars
<1> QED
  BY <1>1, <1>2, <1>3, <1>4, <1>5, <1>6, <1>7 DEF DiagNext, Editor

(* The invariant holds of every behaviour.                                 *)
LEMMA CalmInvHolds == DiagSpec => [](DiagTypeOK /\ CalmInv)
<1>1. DiagInit => DiagTypeOK /\ CalmInv
  BY InitTypes, DiagnosticsConstants
     DEF DiagInit, CalmInv, ClosedIsSettled, ClosedShowsNothing, InOrder,
         LatestIsOnItsWay, Settled, NoRun, Nothing
<1>2. DiagTypeOK /\ CalmInv /\ [DiagNext]_diagVars => (DiagTypeOK /\ CalmInv)'
  BY StepKeepsCalm, StepTypes
<1> QED
  BY <1>1, <1>2, PTL DEF DiagSpec

(* When publications end in order and documents are closed only when       *)
(* nothing is pending, parse errors follow the editor too.                 *)
THEOREM ParseErrorsFollowTheEditor == DiagSpec => []QuietParseErrorsAreCurrent
<1>1. DiagTypeOK /\ CalmInv => QuietParseErrorsAreCurrent
  BY DEF CalmInv, LatestIsOnItsWay, QuietParseErrorsAreCurrent, Settled
<1> QED
  BY <1>1, CalmInvHolds, PTL

(* Under the same conditions a closed document shows no diagnostics.       *)
THEOREM CalmCloseClears == DiagSpec => []ClosedShowsNothing
<1>1. DiagTypeOK /\ CalmInv => ClosedShowsNothing
  BY DEF CalmInv
<1> QED
  BY <1>1, CalmInvHolds, PTL

(* The three together: when nothing is pending, what is shown is right.    *)
THEOREM QuietListsStayRight == DiagSpec => []QuietListsAreRight
<1>1. QuietPhysicsIsCurrent /\ QuietParseErrorsAreCurrent /\ ClosedShowsNothing
        => QuietListsAreRight
  BY DEF QuietListsAreRight
<1> QED
  BY <1>1, PhysicsFollowsTheEditor, ParseErrorsFollowTheEditor, CalmCloseClears, PTL

-----------------------------------------------------------------------------
(* The life of the server.  LifeInv says of each byte that arrives which   *)
(* message it is of and that the reader stands at the beginning of one;    *)
(* that is what keeps messages whole, in order and single.  From there on  *)
(* every id is in one place: still to be said, in the stream, read and not *)
(* answered, or answered.                                                  *)

(* The life of the server: what the client says                                *)

Kinds ==
  {"initialize", "initialized", "request", "open", "reply", "garbled", "shutdown", "exit"}

What == {"result", "-32603", "-32601", "-32700"}

Full(m) == 2 + Size(m.kind)

Piece == [msg : Nat, at : Nat]

LEMMA WhatTheClientSays ==
  ASSUME NEW m \in ClientMessages
  PROVE  /\ m.kind \in Kinds /\ m.id \in Ids
         /\ m.kind = "initialize" => m.id = "init"
         /\ m.kind = "shutdown" => m.id = "stop"
         /\ m.kind = "request" => m.id \in Requests \cup Strange
         /\ m.kind \notin {"initialize", "shutdown", "request"} => m.id = NoId
         /\ m.kind = "open" => m.doc \in Opened
<1>1. CASE m \in {Message("initialize", "init", NoId), Message("shutdown", "stop", NoId)}
  BY <1>1 DEF Message, Kinds, Ids
<1>2. CASE m \in {Message(k, NoId, NoId) : k \in {"initialized", "reply", "garbled", "exit"}}
  BY <1>2 DEF Message, Kinds, Ids
<1>3. CASE m \in {Message("request", r, NoId) : r \in Requests \cup Strange}
  BY <1>3 DEF Message, Kinds, Ids
<1>4. CASE m \in {Message("open", NoId, d) : d \in Opened}
  BY <1>4 DEF Message, Kinds, Ids
<1>. QED
  BY <1>1, <1>2, <1>3, <1>4 DEF ClientMessages

LEMMA IdsAreApart == "init" \in Ids \ {NoId} /\ Requests \subseteq Ids \ {NoId, "init"}
BY IdsAssumption DEF Ids

(* An id says which request it is. *)
LEMMA OneRequestEach ==
  ASSUME NEW m \in ClientMessages, NEW o \in ClientMessages, m.id = o.id, m.id # NoId
  PROVE  m = o
<1>. DEFINE said == {Message("initialize", "init", NoId), Message("shutdown", "stop", NoId)}
                      \cup {Message("request", r, NoId) : r \in Requests \cup Strange}
<1>1. \A a \in ClientMessages : a.id # NoId => a \in said
  BY DEF ClientMessages, Message
<1>2. \A a \in said : \/ a = Message("initialize", "init", NoId) /\ a.id = "init"
                      \/ a = Message("shutdown", "stop", NoId) /\ a.id = "stop"
                      \/ a.id \in Requests \cup Strange /\ a = Message("request", a.id, NoId)
  BY DEF Message
<1>. HIDE DEF said
<1>3. "init" # "stop" /\ "init" \notin Requests \cup Strange /\ "stop" \notin Requests \cup Strange
  BY IdsAssumption
<1>. QED
  BY <1>1, <1>2, <1>3

LEMMA MessagesHaveSizes == \A m \in ClientMessages : Full(m) \in Nat /\ Full(m) >= 2
<1>. SUFFICES ASSUME NEW m \in ClientMessages PROVE Full(m) \in Nat /\ Full(m) >= 2
  OBVIOUS
<1>1. m.kind \in Kinds
  BY WhatTheClientSays
<1>2. Size(m.kind) \in Nat
  BY <1>1, SizeAssumption DEF Kinds
<1>. QED
  BY <1>2 DEF Full

-----------------------------------------------------------------------------
(* The stream                                                                  *)

LifeTypes ==
  /\ sent \in Seq(ClientMessages)
  /\ wire \in Seq(Piece) /\ incoming \in Seq(Piece)
  /\ reading \in BOOLEAN /\ cut \in BOOLEAN
  /\ answers \in [Ids -> Seq(What)]
  /\ LifeTypeOK

Done == Len(dispatched)

(* e says where in the stream, counted from its first piece, each message of s *)
(* ends.                                                                       *)
Measures(s, e) ==
  /\ e \in [0 .. Len(s) -> Nat]
  /\ \A n \in 1 .. Len(s) : e[n] = e[n - 1] + Full(s[n])
  /\ \A m \in 0 .. Len(s), n \in 0 .. Len(s) : m < n => e[m] < e[n]

(* The piece at place p of the stream is the one that belongs there. *)
Lies(s, e, b, p) ==
  /\ b.msg \in 1 .. Len(s)
  /\ b.at \in 1 .. Full(s[b.msg])
  /\ p = e[b.msg - 1] + b.at

(* What is received and not dispatched, and then what is under way, are the    *)
(* rest of the stream, from the message after the last one dispatched.         *)
StreamFits(e) ==
  /\ Measures(sent, e)
  /\ e[Done] + Len(incoming) + Len(wire) = e[Len(sent)]
  /\ \A i \in 1 .. Len(incoming) : Lies(sent, e, incoming[i], e[Done] + i)
  /\ \A i \in 1 .. Len(wire) : Lies(sent, e, wire[i], e[Done] + Len(incoming) + i)

(* The next message is all there. *)
Whole == Done < Len(sent) /\ Len(incoming) >= Full(sent[Done + 1])

StreamInv ==
  /\ Done \in 0 .. Len(sent)
  /\ dispatched = [i \in 1 .. Done |-> i]
  /\ \E e \in [0 .. Len(sent) -> Nat] : StreamFits(e)
  /\ ~reading /\ ~cut => ~Whole

(* A piece between the ends of two messages is of the second, at its place. *)
LEMMA PieceIsOf ==
  ASSUME NEW s \in Seq(ClientMessages), NEW e, Measures(s, e),
         NEW b \in Piece, NEW p \in Nat, Lies(s, e, b, p),
         NEW n \in 1 .. Len(s), e[n - 1] < p, p <= e[n]
  PROVE  b.msg = n /\ p = e[n - 1] + b.at
<1>. DEFINE k == b.msg
<1>1. k \in 1 .. Len(s) /\ b.at \in 1 .. Full(s[k]) /\ p = e[k - 1] + b.at /\ Len(s) \in Nat
  BY DEF Lies
<1>2. e[k] = e[k - 1] + Full(s[k]) /\ s[k] \in ClientMessages
  BY SMTT(30), <1>1 DEF Measures
<1>3. Full(s[k]) \in Nat
  BY <1>2, MessagesHaveSizes
<1>4. k - 1 \in 0 .. Len(s) /\ n - 1 \in 0 .. Len(s) /\ k \in 0 .. Len(s) /\ n \in 0 .. Len(s)
  BY <1>1
<1>5. e[k] \in Nat /\ e[k - 1] \in Nat /\ e[n] \in Nat /\ e[n - 1] \in Nat
  BY <1>4 DEF Measures
<1>6. e[k - 1] < p /\ p <= e[k]
  BY SMTT(30), <1>1, <1>2, <1>3, <1>5
<1>7. CASE k < n
  <2>1. k <= n - 1
    BY <1>1, <1>7
  <2>2. e[k] <= e[n - 1]
    <3>1. k < n - 1 => e[k] < e[n - 1]
      BY <1>4 DEF Measures
    <3>. QED
      BY SMTT(30), <1>1, <1>5, <2>1, <3>1
  <2>. QED
    BY <1>5, <1>6, <2>2
<1>8. CASE n < k
  <2>1. n <= k - 1
    BY <1>1, <1>8
  <2>2. e[n] <= e[k - 1]
    <3>1. n < k - 1 => e[n] < e[k - 1]
      BY <1>4 DEF Measures
    <3>. QED
      BY <1>1, <1>5, <2>1, <3>1
  <2>. QED
    BY <1>5, <1>6, <2>2
<1>9. k = n
  BY <1>1, <1>7, <1>8
<1>. QED
  BY <1>1, <1>9

(* What has been received begins with the message after the last dispatched. *)
LEMMA FrontOfStream ==
  ASSUME LifeTypes, StreamInv, NEW e, StreamFits(e), Len(incoming) > 0
  PROVE  /\ Done < Len(sent)
         /\ sent[Done + 1] \in ClientMessages
         /\ \A i \in 1 .. Len(incoming) : i <= Full(sent[Done + 1]) =>
              incoming[i].msg = Done + 1 /\ incoming[i].at = i
<1>1. Len(incoming) \in Nat /\ Len(wire) \in Nat /\ Len(sent) \in Nat /\ sent \in Seq(ClientMessages)
  BY DEF LifeTypes
<1>2. Done \in 0 .. Len(sent) /\ Measures(sent, e)
  BY DEF StreamInv, StreamFits
<1>3. e[Done] \in Nat /\ e[Len(sent)] \in Nat
  BY <1>1, <1>2 DEF Measures
<1>4. e[Done] < e[Len(sent)]
  BY <1>1, <1>3 DEF StreamFits
<1>5. Done < Len(sent)
  BY <1>1, <1>2, <1>3, <1>4
<1>6. Done + 1 \in 1 .. Len(sent) /\ Done = (Done + 1) - 1
  BY <1>1, <1>2, <1>5
<1>7. e[Done + 1] = e[Done] + Full(sent[Done + 1]) /\ sent[Done + 1] \in ClientMessages
  BY <1>1, <1>2, <1>6 DEF Measures
<1>8. Full(sent[Done + 1]) \in Nat
  BY <1>7, MessagesHaveSizes
<1>9. ASSUME NEW i \in 1 .. Len(incoming), i <= Full(sent[Done + 1])
      PROVE  incoming[i].msg = Done + 1 /\ incoming[i].at = i
  <2>1. incoming[i] \in Piece /\ incoming[i].at \in Nat
    <3>1. incoming \in Seq(Piece) /\ i \in 1 .. Len(incoming)
      BY DEF LifeTypes
    <3>2. incoming[i] \in Piece
      BY <3>1
    <3>. QED
      BY <3>2 DEF Piece
  <2>2. Lies(sent, e, incoming[i], e[Done] + i)
    BY DEF StreamFits
  <2>3. e[Done] + i \in Nat /\ e[Done] < e[Done] + i /\ e[Done] + i <= e[Done + 1]
    BY <1>1, <1>3, <1>7, <1>8, <1>9
  <2>4. incoming[i].msg = Done + 1 /\ e[Done] + i = e[Done] + incoming[i].at
    BY <1>1, <1>2, <1>6, <2>1, <2>2, <2>3, PieceIsOf
  <2>5. \A a, x, y \in Nat : a + x = a + y => x = y
    OBVIOUS
  <2>. QED
    BY <1>1, <1>3, <2>1, <2>4, <2>5
<1>. QED
  BY <1>5, <1>7, <1>9

(* The reader finds a message whole exactly when one is, and finds its end. *)
LEMMA ReaderFindsMessages ==
  ASSUME LifeTypes, StreamInv
  PROVE  /\ Complete <=> Whole
         /\ Whole => /\ incoming[HeaderEnd].msg = Done + 1
                     /\ MessageEnd = Full(sent[Done + 1])
<1>. DEFINE heads == {i \in 1 .. Len(incoming) : incoming[i].at = 2}
<1>1. HeaderEnd = IF heads # {} THEN Min(heads) ELSE 0
  BY DEF HeaderEnd, SelectInSeq
<1>2. PICK e \in [0 .. Len(sent) -> Nat] : StreamFits(e)
  BY DEF StreamInv
<1>3. Len(incoming) \in Nat /\ Done \in Nat /\ Len(sent) \in Nat
  BY DEF LifeTypes, StreamInv
<1>4. CASE Len(incoming) < 2
  <2>1. heads = {}
    <3>. SUFFICES ASSUME NEW i \in heads PROVE FALSE
      OBVIOUS
    <3>1. i = 1 /\ i \in 1 .. Len(incoming) /\ Len(incoming) > 0
      BY <1>3, <1>4
    <3>2. sent[Done + 1] \in ClientMessages /\ (i <= Full(sent[Done + 1]) => incoming[i].at = i)
      BY <1>2, <3>1, FrontOfStream
    <3>3. Full(sent[Done + 1]) \in Nat /\ Full(sent[Done + 1]) >= 2
      BY <3>2, MessagesHaveSizes
    <3>. QED
      BY <3>1, <3>2, <3>3
  <2>2. ~Complete
    BY <1>1, <2>1 DEF Complete
  <2>3. ~Whole
    <3>. SUFFICES ASSUME Whole PROVE FALSE
      OBVIOUS
    <3>1. Done + 1 \in 1 .. Len(sent)
      BY <1>3 DEF Whole
    <3>2. sent[Done + 1] \in ClientMessages
      BY <3>1 DEF LifeTypes
    <3>. QED
      BY <1>3, <1>4, <3>2, MessagesHaveSizes DEF Whole
  <2>. QED
    BY <2>2, <2>3
<1>5. CASE Len(incoming) >= 2
  <2>1. Done < Len(sent) /\ sent[Done + 1] \in ClientMessages
    BY <1>2, <1>3, <1>5, FrontOfStream
  <2>2. Full(sent[Done + 1]) \in Nat /\ Full(sent[Done + 1]) >= 2
    BY <2>1, MessagesHaveSizes
  <2>3. 1 \in 1 .. Len(incoming) /\ 2 \in 1 .. Len(incoming)
    BY <1>3, <1>5
  <2>4. incoming[1].at = 1 /\ incoming[2].at = 2 /\ incoming[2].msg = Done + 1
    BY <1>2, <1>3, <1>5, <2>2, <2>3, FrontOfStream
  <2>5. 2 \in heads /\ \A i \in heads : 2 <= i
    BY <1>3, <2>3, <2>4
  <2>6. Min(heads) = 2
    <3>1. \A i \in heads : i \in Nat
      OBVIOUS
    <3>. HIDE DEF heads
    <3>2. \E i \in heads : \A j \in heads : i =< j
      BY <2>5
    <3>3. Min(heads) \in heads /\ \A j \in heads : Min(heads) =< j
      BY <3>2 DEF Min
    <3>. QED
      BY <2>5, <3>1, <3>3
  <2>7. HeaderEnd = 2
    BY <1>1, <2>5, <2>6
  <2>8. MessageEnd = Full(sent[Done + 1])
    BY <2>4, <2>7 DEF MessageEnd, Full
  <2>. QED
    BY <2>1, <2>4, <2>7, <2>8 DEF Complete, Whole
<1>. QED
  BY <1>3, <1>4, <1>5


-----------------------------------------------------------------------------
(* Every step keeps the types                                                  *)

LEMMA AnswerOnce ==
  ASSUME LifeTypes, NEW id \in Ids, NEW what \in What, Answer(id, what)
  PROVE  /\ answers' \in [Ids -> Seq(What)]
         /\ answers[id] = <<>> => Len(answers'[id]) = 1 /\ ToSet(answers'[id]) = {what}
         /\ answers'[id] # <<>>
         /\ \A o \in Ids : o # id => answers'[o] = answers[o]
<1>1. answers \in [Ids -> Seq(What)] /\ answers[id] \in Seq(What)
  BY DEF LifeTypes
<1>2. answers' = [answers EXCEPT ![id] = Append(answers[id], what)]
  BY DEF Answer
<1>3. Append(answers[id], what) \in Seq(What)
  BY <1>1
<1>4. answers'[id] = Append(answers[id], what) /\ answers' \in [Ids -> Seq(What)]
  BY <1>1, <1>2, <1>3
<1>5. \A o \in Ids : o # id => answers'[o] = answers[o]
  BY <1>1, <1>2
<1>6. Len(answers'[id]) = Len(answers[id]) + 1 /\ Len(answers[id]) \in Nat
  BY <1>1, <1>4
<1>7. answers'[id] # <<>>
  BY <1>6
<1>8. ASSUME answers[id] = <<>>
      PROVE  Len(answers'[id]) = 1 /\ ToSet(answers'[id]) = {what}
  <2>1. answers'[id] = <<what>>
    BY <1>4, <1>8
  <2>. QED
    BY <2>1 DEF ToSet
<1>. QED
  BY <1>4, <1>5, <1>7, <1>8

(* What dispatching a message does to what the server keeps. *)
LEMMA WhatIsDispatched ==
  ASSUME LifeTypes, StreamInv, Dispatch
  PROVE  /\ Done + 1 \in 1 .. Len(sent)
         /\ sent[Done + 1] \in ClientMessages
         /\ Full(sent[Done + 1]) \in 0 .. Len(incoming)
         /\ incoming' = SubSeq(incoming, Full(sent[Done + 1]) + 1, Len(incoming))
         /\ dispatched' = Append(dispatched, Done + 1)
         /\ Taken(sent[Done + 1])
<1>1. Whole /\ incoming[HeaderEnd].msg = Done + 1 /\ MessageEnd = Full(sent[Done + 1])
  BY ReaderFindsMessages DEF Dispatch
<1>2. Done \in Nat /\ Len(sent) \in Nat /\ Len(incoming) \in Nat
  BY DEF LifeTypes, StreamInv
<1>3. Done + 1 \in 1 .. Len(sent)
  BY <1>1, <1>2 DEF Whole
<1>4. sent[Done + 1] \in ClientMessages
  BY <1>3 DEF LifeTypes
<1>5. Full(sent[Done + 1]) \in Nat
  BY <1>4, MessagesHaveSizes
<1>6. Full(sent[Done + 1]) \in 0 .. Len(incoming)
  BY <1>1, <1>2, <1>5 DEF Whole
<1>. QED
  BY <1>1, <1>3, <1>4, <1>6 DEF Dispatch

LEMMA TakenTypes ==
  ASSUME LifeTypes, NEW m \in ClientMessages, Taken(m)
  PROVE  /\ answers' \in [Ids -> Seq(What)]
         /\ stage' \in {"idle", "root", "config"}
         /\ working' \subseteq Requests
         /\ serving' \subseteq Opened
         /\ asked' \in Nat
<1>1. /\ m.id \in Ids
      /\ m.kind = "request" => m.id \in Requests \cup Strange
      /\ m.kind = "open" => m.doc \in Opened
  BY WhatTheClientSays
<1>2. NoId \in Ids
  BY DEF Ids
<1>3. answers \in [Ids -> Seq(What)] /\ LifeTypeOK
  BY DEF LifeTypes
<1>4. \A id \in Ids, what \in What : Answer(id, what) => answers' \in [Ids -> Seq(What)]
  BY AnswerOnce
<1>5. CASE m.id # NoId
  <2>1. HandleRequest(m) /\ UNCHANGED <<asked, serving>>
    BY <1>5 DEF Taken
  <2>2. answers' \in [Ids -> Seq(What)]
    BY <1>1, <1>3, <1>4, <2>1 DEF HandleRequest, Begins, What
  <2>3. stage' \in {"idle", "root", "config"} /\ working' \subseteq Requests
    BY <1>1, <1>3, <2>1 DEF HandleRequest, Begins, LifeTypeOK
  <2>. QED
    BY <1>3, <2>1, <2>2, <2>3 DEF LifeTypeOK
<1>6. CASE m.id = NoId
  <2>1. HandleNotification(m) /\ UNCHANGED <<stage, working>>
    BY <1>6 DEF Taken
  <2>2. answers' \in [Ids -> Seq(What)]
    BY <1>2, <1>3, <1>4, <1>6 DEF Taken, What
  <2>3. serving' \subseteq Opened /\ asked' \in Nat
    BY <1>1, <1>3, <2>1 DEF HandleNotification, LifeTypeOK
  <2>. QED
    BY <1>3, <2>1, <2>2, <2>3 DEF LifeTypeOK
<1>. QED
  BY <1>5, <1>6

LEMMA LifeTypesStep ==
  ASSUME LifeTypes, StreamInv, [LifeNext]_lifeVars
  PROVE  LifeTypes'
<1>. USE DEF LifeTypes
<1>0. LifeTypeOK
  OBVIOUS
<1>1. ASSUME NEW m \in ClientMessages, ClientSends(m)
      PROVE  LifeTypes'
  <2>1. sent' = Append(sent, m) /\ Len(sent') <= MaxSent
    BY <1>1, MaxSentAssumption DEF ClientSends
  <2>2. Pieces(Len(sent) + 1, m) \in Seq(Piece)
    <3>1. Full(m) \in Nat /\ Full(m) = 2 + Size(m.kind)
      BY MessagesHaveSizes DEF Full
    <3>2. Len(sent) + 1 \in Nat
      OBVIOUS
    <3>. DEFINE n == Len(sent) + 1
    <3>. HIDE DEF n
    <3>3. Pieces(n, m) = [i \in 1 .. Full(m) |-> [msg |-> n, at |-> i]]
      BY <3>1 DEF Pieces
    <3>4. n \in Nat
      BY <3>2 DEF n
    <3>5. \A i \in 1 .. Full(m) : [msg |-> n, at |-> i] \in Piece
      BY <3>1, <3>4 DEF Piece
    <3>6. Pieces(n, m) \in Seq(Piece)
      BY <3>1, <3>3, <3>5
    <3>. QED
      BY <3>6 DEF n
  <2>3. wire' \in Seq(Piece)
    BY <1>1, <2>2 DEF ClientSends
  <2>4. sent' \in Seq(ClientMessages)
    BY <2>1
  <2>5. UNCHANGED <<incoming, reading, cut, stage, working, answers, asked, serving, exited>>
    BY <1>1 DEF ClientSends
  <2>. QED
    BY <1>0, <2>1, <2>3, <2>4, <2>5 DEF LifeTypeOK
<1>2. ASSUME NEW n \in 1 .. Len(wire), DataArrives(n)
      PROVE  LifeTypes'
  <2>1. SubSeq(wire, 1, n) \in Seq(Piece) /\ SubSeq(wire, n + 1, Len(wire)) \in Seq(Piece)
    OBVIOUS
  <2>2. incoming' \in Seq(Piece) /\ wire' \in Seq(Piece)
    BY <1>2, <2>1 DEF DataArrives
  <2>3. /\ reading' = TRUE /\ cut' = FALSE
        /\ UNCHANGED <<sent, stage, working, answers, asked, serving, exited>>
    BY <1>2 DEF DataArrives
  <2>. QED
    BY <1>0, <2>2, <2>3 DEF LifeTypeOK
<1>3. CASE Dispatch
  <2>. DEFINE m == sent[Done + 1]
  <2>1. /\ m \in ClientMessages /\ Taken(m) /\ Full(m) \in Nat
        /\ incoming' = SubSeq(incoming, Full(m) + 1, Len(incoming))
    BY <1>3, WhatIsDispatched
  <2>. HIDE DEF m
  <2>2. incoming' \in Seq(Piece)
    BY <2>1
  <2>3. UNCHANGED <<sent, wire>> /\ reading' \in BOOLEAN /\ cut' \in BOOLEAN
    BY <1>3 DEF Dispatch
  <2>4. exited' \in {"running", "0", "1"}
    BY <1>0, <2>1 DEF Taken, HandleNotification, LifeTypeOK
  <2>5. /\ answers' \in [Ids -> Seq(What)]
        /\ stage' \in {"idle", "root", "config"}
        /\ working' \subseteq Requests
        /\ serving' \subseteq Opened
        /\ asked' \in Nat
    BY <2>1, TakenTypes
  <2>. QED
    BY <1>0, <2>2, <2>3, <2>4, <2>5 DEF LifeTypeOK
<1>4. CASE NothingComplete
  BY <1>0, <1>4 DEF NothingComplete, LifeTypeOK
<1>5. ASSUME NEW id \in Ids, NEW what \in What, Answer(id, what),
             stage' \in {"idle", "root", "config"}, working' \subseteq working,
             serving' \subseteq serving,
             UNCHANGED <<sent, wire, incoming, reading, cut, asked, exited>>
      PROVE  LifeTypes'
  <2>1. answers' \in [Ids -> Seq(What)]
    BY <1>5, AnswerOnce
  <2>. QED
    BY <1>0, <1>5, <2>1 DEF LifeTypeOK
<1>6. "init" \in Ids /\ Requests \subseteq Ids /\ {"result", "-32603"} \subseteq What
  BY DEF Ids, What
<1>7. CASE RootFound
  <2>1. CASE UNCHANGED answers
    BY <1>0, <1>7, <2>1 DEF RootFound, LifeTypeOK, Answer
  <2>2. CASE stage' = "idle" /\ Answer("init", "-32603")
    BY <1>5, <1>6, <1>7, <2>2 DEF RootFound
  <2>. QED
    BY <1>7, <2>1, <2>2 DEF RootFound
<1>8. CASE ConfigLoaded
  BY <1>5, <1>6, <1>8 DEF ConfigLoaded
<1>9. ASSUME NEW r \in Requests, HandlerEnds(r)
      PROVE  LifeTypes'
  <2>1. PICK what \in {"result", "-32603"} : Answer(r, what)
    BY <1>9 DEF HandlerEnds
  <2>. QED
    BY <1>0, <1>5, <1>6, <1>9, <2>1 DEF HandlerEnds, LifeTypeOK
<1>10. CASE UNCHANGED lifeVars
  BY <1>0, <1>10 DEF lifeVars, LifeTypeOK
<1>. QED
  BY <1>1, <1>2, <1>3, <1>4, <1>7, <1>8, <1>9, <1>10 DEF LifeNext, LifeServer


-----------------------------------------------------------------------------
(* Every step keeps the stream in order                                        *)

LEMMA Counted ==
  ASSUME LifeTypes, StreamInv, NEW e, StreamFits(e)
  PROVE  /\ Len(sent) \in Nat /\ Len(incoming) \in Nat /\ Len(wire) \in Nat /\ Done \in Nat
         /\ Done <= Len(sent)
         /\ e \in [0 .. Len(sent) -> Nat]
         /\ e[Done] \in Nat /\ e[Len(sent)] \in Nat
<1>1. Len(sent) \in Nat /\ Len(incoming) \in Nat /\ Len(wire) \in Nat
  BY DEF LifeTypes
<1>2. Done \in Nat /\ Done <= Len(sent)
  BY <1>1 DEF StreamInv
<1>3. e \in [0 .. Len(sent) -> Nat]
  BY DEF StreamFits, Measures
<1>. QED
  BY <1>1, <1>2, <1>3

LEMMA JoinedAt ==
  ASSUME NEW s \in Seq(Piece), NEW t \in Seq(Piece)
  PROVE  /\ Len(s \o t) = Len(s) + Len(t)
         /\ \A i \in 1 .. Len(s) : (s \o t)[i] = s[i]
         /\ \A i \in 1 .. Len(t) : (s \o t)[Len(s) + i] = t[i]
OBVIOUS

LEMMA SendingKeepsTheStream ==
  ASSUME LifeTypes, StreamInv, NEW m \in ClientMessages, ClientSends(m)
  PROVE  StreamInv'
<1>1. PICK e \in [0 .. Len(sent) -> Nat] : StreamFits(e)
  BY DEF StreamInv
<1>2. /\ Len(sent) \in Nat /\ Len(incoming) \in Nat /\ Len(wire) \in Nat /\ Done \in Nat
      /\ Done <= Len(sent) /\ e[Done] \in Nat /\ e[Len(sent)] \in Nat
  BY <1>1, Counted
<1>3. PICK l : l = Len(sent)
  OBVIOUS
<1>4. PICK f : f = [n \in 0 .. l + 1 |-> IF n = l + 1 THEN e[l] + Full(m) ELSE e[n]]
  OBVIOUS
<1>5. l \in Nat /\ Full(m) \in Nat /\ Full(m) >= 2 /\ e[l] \in Nat
  BY <1>2, <1>3, MessagesHaveSizes
<1>6. e \in [0 .. l -> Nat]
  BY <1>3
<1>7. f \in [0 .. l + 1 -> Nat] /\ f[l + 1] = e[l] + Full(m) /\ \A n \in 0 .. l : f[n] = e[n]
  BY <1>4, <1>5, <1>6
<1>8. /\ sent' = Append(sent, m) /\ sent \in Seq(ClientMessages) /\ Len(sent') = l + 1
      /\ sent'[l + 1] = m /\ \A n \in 1 .. l : sent'[n] = sent[n]
  BY <1>3 DEF ClientSends, LifeTypes
<1>9. UNCHANGED <<incoming, reading, cut, dispatched>> /\ Done' = Done
  BY DEF ClientSends, Done
<1>10. Measures(sent', f)
  <2>1. /\ \A n \in 1 .. l : e[n] = e[n - 1] + Full(sent[n])
        /\ \A i \in 0 .. l, n \in 0 .. l : i < n => e[i] < e[n]
    BY <1>1, <1>3 DEF StreamFits, Measures
  <2>2. ASSUME NEW n \in 1 .. l + 1
        PROVE  f[n] = f[n - 1] + Full(sent'[n])
    <3>1. CASE n = l + 1
      BY <1>5, <1>7, <1>8, <3>1
    <3>2. CASE n \in 1 .. l
      <4>1. n \in 0 .. l /\ n - 1 \in 0 .. l
        BY <1>5, <3>2
      <4>. QED
        BY <1>7, <1>8, <2>1, <3>2, <4>1
    <3>. QED
      BY <1>5, <3>1, <3>2
  <2>3. ASSUME NEW i \in 0 .. l + 1, NEW n \in 0 .. l + 1, i < n
        PROVE  f[i] < f[n]
    <3>1. CASE n \in 0 .. l
      <4>1. i \in 0 .. l
        BY <1>5, <2>3, <3>1
      <4>. QED
        BY <1>7, <2>1, <2>3, <3>1, <4>1
    <3>2. CASE n = l + 1
      <4>1. i \in 0 .. l /\ l \in 0 .. l
        BY <1>5, <2>3, <3>2
      <4>2. e[i] \in Nat /\ (i < l => e[i] < e[l])
        BY <1>6, <2>1, <4>1
      <4>3. e[i] <= e[l]
        BY <1>5, <4>1, <4>2
      <4>. QED
        BY <1>5, <1>7, <3>2, <4>1, <4>2, <4>3
    <3>. QED
      BY <1>5, <3>1, <3>2
  <2>. QED
    BY <1>7, <1>8, <2>2, <2>3 DEF Measures
<1>11. ASSUME NEW b, NEW p, Lies(sent, e, b, p)
       PROVE  Lies(sent', f, b, p)
  <2>1. b.msg \in 1 .. l /\ b.at \in 1 .. Full(sent[b.msg]) /\ p = e[b.msg - 1] + b.at
    BY <1>3, <1>11 DEF Lies
  <2>2. b.msg \in 1 .. l + 1 /\ b.msg - 1 \in 0 .. l
    BY <1>5, <2>1
  <2>. QED
    BY <1>7, <1>8, <2>1, <2>2 DEF Lies
<1>12. PICK w : w = Len(wire)
  OBVIOUS
<1>13. wire' = wire \o Pieces(l + 1, m) /\ wire \in Seq(Piece)
  BY <1>3 DEF ClientSends, LifeTypes
<1>14. Pieces(l + 1, m) = [i \in 1 .. Full(m) |-> [msg |-> l + 1, at |-> i]]
  BY DEF Pieces, Full
<1>15. Pieces(l + 1, m) \in Seq(Piece) /\ Len(Pieces(l + 1, m)) = Full(m)
  <2>1. \A i \in 1 .. Full(m) : [msg |-> l + 1, at |-> i] \in Piece
    BY <1>5 DEF Piece
  <2>. QED
    BY <1>5, <1>14, <2>1
<1>16. /\ Len(wire') = w + Full(m) /\ w \in Nat
       /\ \A i \in 1 .. w : wire'[i] = wire[i]
       /\ \A i \in 1 .. Full(m) : wire'[w + i] = [msg |-> l + 1, at |-> i]
  <2>1. \A i \in 1 .. w : wire'[i] = wire[i]
    BY <1>12, <1>13, <1>15, JoinedAt
  <2>2. \A i \in 1 .. Full(m) : wire'[w + i] = Pieces(l + 1, m)[i]
    BY <1>12, <1>13, <1>15, JoinedAt
  <2>3. Len(wire') = w + Full(m)
    BY <1>12, <1>13, <1>15, JoinedAt
  <2>. QED
    BY <1>2, <1>12, <1>14, <2>1, <2>2, <2>3
<1>17. PICK c : c = e[Done] + Len(incoming)
  OBVIOUS
<1>18. c \in Nat /\ c + w = e[l] /\ f[Done] = e[Done]
  BY <1>1, <1>2, <1>3, <1>7, <1>12, <1>17 DEF StreamFits
<1>19. \A i \in 1 .. Len(wire') : Lies(sent', f, wire'[i], c + i)
  <2>. SUFFICES ASSUME NEW i \in 1 .. w + Full(m) PROVE Lies(sent', f, wire'[i], c + i)
    BY <1>16
  <2>1. CASE i \in 1 .. w
    <3>1. Lies(sent, e, wire[i], c + i)
      BY <1>1, <1>12, <1>17, <2>1 DEF StreamFits
    <3>. QED
      BY <1>11, <1>16, <2>1, <3>1
  <2>2. CASE i \notin 1 .. w
    <3>1. PICK j : j = i - w
      OBVIOUS
    <3>2. j \in 1 .. Full(m) /\ i = w + j
      BY <1>5, <1>16, <2>2, <3>1
    <3>3. wire'[i] = [msg |-> l + 1, at |-> j]
      BY <1>16, <3>2
    <3>4. c + i = e[l] + j
      BY <1>5, <1>16, <1>18, <3>2
    <3>5. l + 1 \in 1 .. Len(sent') /\ (l + 1) - 1 = l /\ f[l] = e[l]
      BY <1>5, <1>7, <1>8
    <3>. QED
      BY <1>8, <3>2, <3>3, <3>4, <3>5 DEF Lies
  <2>. QED
    BY <2>1, <2>2
<1>20. \A i \in 1 .. Len(incoming') : Lies(sent', f, incoming'[i], f[Done] + i)
  BY <1>1, <1>9, <1>11, <1>18 DEF StreamFits
<1>21. f[Done] + Len(incoming') + Len(wire') = f[l + 1]
  <2>1. c + (w + Full(m)) = e[l] + Full(m)
    BY <1>5, <1>16, <1>18
  <2>. QED
    BY <1>7, <1>9, <1>16, <1>17, <1>18, <2>1
<1>22. StreamFits(f)'
  BY <1>8, <1>9, <1>10, <1>17, <1>18, <1>19, <1>20, <1>21 DEF StreamFits
<1>23. \E g \in [0 .. Len(sent') -> Nat] : StreamFits(g)'
  BY <1>7, <1>8, <1>22
<1>24. ~reading /\ ~cut => ~Whole'
  <2>. SUFFICES ASSUME ~reading, ~cut, Whole' PROVE FALSE
    OBVIOUS
  <2>1. ~Whole
    BY DEF StreamInv
  <2>2. CASE Done < Len(sent)
    BY <1>2, <1>3, <1>8, <1>9, <2>1, <2>2 DEF Whole
  <2>3. CASE Done = Len(sent)
    <3>1. sent'[Done + 1] = m /\ Len(incoming) >= Full(m)
      BY <1>3, <1>8, <1>9, <2>3 DEF Whole
    <3>2. Len(incoming) > 0
      BY <1>2, <1>5, <3>1
    <3>. QED
      BY <1>1, <1>2, <2>3, <3>2, FrontOfStream
  <2>. QED
    BY <1>2, <2>2, <2>3
<1>. QED
  BY <1>2, <1>3, <1>8, <1>9, <1>23, <1>24 DEF StreamInv

LEMMA ArrivalKeepsTheStream ==
  ASSUME LifeTypes, StreamInv, NEW n \in 1 .. Len(wire), DataArrives(n)
  PROVE  StreamInv'
<1>1. PICK e \in [0 .. Len(sent) -> Nat] : StreamFits(e)
  BY DEF StreamInv
<1>2. /\ Len(sent) \in Nat /\ Len(incoming) \in Nat /\ Len(wire) \in Nat /\ Done \in Nat
      /\ Done <= Len(sent) /\ e[Done] \in Nat /\ e[Len(sent)] \in Nat
  BY <1>1, Counted
<1>3. UNCHANGED <<sent, dispatched>> /\ Done' = Done /\ reading' = TRUE
  BY DEF DataArrives, Done
<1>4. PICK c : c = Len(incoming)
  OBVIOUS
<1>5. SubSeq(wire, 1, n) \in Seq(Piece) /\ Len(SubSeq(wire, 1, n)) = n
       /\ \A i \in 1 .. n : SubSeq(wire, 1, n)[i] = wire[i]
  BY DEF LifeTypes
<1>6. incoming' = incoming \o SubSeq(wire, 1, n) /\ incoming \in Seq(Piece)
  BY DEF DataArrives, LifeTypes
<1>7. /\ Len(incoming') = c + n /\ c \in Nat
      /\ \A i \in 1 .. c : incoming'[i] = incoming[i]
      /\ \A i \in 1 .. n : incoming'[c + i] = wire[i]
  <2>1. \A i \in 1 .. c : incoming'[i] = incoming[i]
    BY <1>2, <1>4, <1>5, <1>6
  <2>2. \A i \in 1 .. n : incoming'[c + i] = SubSeq(wire, 1, n)[i]
    BY SMTT(30), <1>2, <1>4, <1>5, <1>6
  <2>3. Len(incoming') = Len(incoming) + Len(SubSeq(wire, 1, n))
    BY <1>5, <1>6, JoinedAt
  <2>4. Len(incoming') = c + n /\ c \in Nat
    BY <1>2, <1>4, <1>5, <2>3
  <2>. QED
    BY <1>5, <2>1, <2>2, <2>4
<1>8. /\ Len(wire') = Len(wire) - n
      /\ \A i \in 1 .. Len(wire) - n : wire'[i] = wire[n + i]
  BY <1>2 DEF DataArrives, LifeTypes
<1>9. \A i \in 1 .. Len(incoming') : Lies(sent, e, incoming'[i], e[Done] + i)
  <2>. SUFFICES ASSUME NEW i \in 1 .. c + n PROVE Lies(sent, e, incoming'[i], e[Done] + i)
    BY <1>7
  <2>1. CASE i \in 1 .. c
    BY <1>1, <1>4, <1>7, <2>1 DEF StreamFits
  <2>2. CASE i \notin 1 .. c
    <3>1. PICK j : j = i - c
      OBVIOUS
    <3>2. j \in 1 .. n /\ i = c + j /\ j \in 1 .. Len(wire)
      BY <1>2, <1>7, <2>2, <3>1
    <3>3. Lies(sent, e, wire[j], e[Done] + c + j)
      BY <1>1, <1>4, <3>2 DEF StreamFits
    <3>4. e[Done] + c + j = e[Done] + i
      BY <1>2, <1>7, <3>2
    <3>. QED
      BY <1>7, <3>2, <3>3, <3>4
  <2>. QED
    BY <2>1, <2>2
<1>10. \A i \in 1 .. Len(wire') : Lies(sent, e, wire'[i], e[Done] + Len(incoming') + i)
  <2>. SUFFICES ASSUME NEW i \in 1 .. Len(wire) - n
                PROVE  Lies(sent, e, wire[n + i], e[Done] + Len(incoming') + i)
    BY <1>8
  <2>1. n + i \in 1 .. Len(wire)
    BY <1>2
  <2>2. Lies(sent, e, wire[n + i], e[Done] + c + (n + i))
    BY <1>1, <1>4, <2>1 DEF StreamFits
  <2>3. e[Done] + c + (n + i) = e[Done] + Len(incoming') + i
    BY SMTT(30), <1>2, <1>7
  <2>. QED
    BY <2>2, <2>3
<1>11. e[Done] + Len(incoming') + Len(wire') = e[Len(sent)]
  <2>1. e[Done] + c + Len(wire) = e[Len(sent)]
    BY <1>1, <1>4 DEF StreamFits
  <2>. QED
    BY <1>2, <1>7, <1>8, <2>1
<1>12. StreamFits(e)'
  BY <1>1, <1>3, <1>9, <1>10, <1>11 DEF StreamFits
<1>. QED
  BY <1>3, <1>12 DEF StreamInv

LEMMA DispatchKeepsTheStream ==
  ASSUME LifeTypes, StreamInv, Dispatch
  PROVE  StreamInv'
<1>1. PICK e \in [0 .. Len(sent) -> Nat] : StreamFits(e)
  BY DEF StreamInv
<1>2. /\ Len(sent) \in Nat /\ Len(incoming) \in Nat /\ Len(wire) \in Nat /\ Done \in Nat
      /\ Done <= Len(sent) /\ e[Done] \in Nat /\ e[Len(sent)] \in Nat
  BY <1>1, Counted
<1>3. PICK k : k = Full(sent[Done + 1])
  OBVIOUS
<1>4. /\ Done + 1 \in 1 .. Len(sent)
      /\ k \in 0 .. Len(incoming)
      /\ incoming' = SubSeq(incoming, k + 1, Len(incoming))
      /\ dispatched' = Append(dispatched, Done + 1)
  BY <1>3, WhatIsDispatched
<1>5. UNCHANGED <<sent, wire>> /\ (reading' \/ cut')
  BY DEF Dispatch
<1>6. Done' = Done + 1 /\ dispatched' = [i \in 1 .. Done + 1 |-> i]
  <2>1. dispatched = [i \in 1 .. Done |-> i]
    BY DEF StreamInv
  <2>2. PICK d : d = Done
    OBVIOUS
  <2>3. d \in Nat /\ dispatched = [i \in 1 .. d |-> i] /\ dispatched' = Append(dispatched, d + 1)
    BY <1>2, <1>4, <2>1, <2>2
  <2>4. Len(dispatched') = d + 1 /\ dispatched' = [i \in 1 .. d + 1 |-> i]
    BY <2>3
  <2>. QED
    BY <2>2, <2>4 DEF Done
<1>7. e[Done + 1] = e[Done] + k
  BY <1>1, <1>2, <1>3, <1>4 DEF StreamFits, Measures
<1>8. /\ Len(incoming') = Len(incoming) - k
      /\ \A i \in 1 .. Len(incoming) - k : incoming'[i] = incoming[k + i]
  BY <1>2, <1>4 DEF LifeTypes
<1>9. \A i \in 1 .. Len(incoming') : Lies(sent, e, incoming'[i], e[Done + 1] + i)
  <2>. SUFFICES ASSUME NEW i \in 1 .. Len(incoming) - k
                PROVE  Lies(sent, e, incoming[k + i], e[Done + 1] + i)
    BY <1>8
  <2>1. k + i \in 1 .. Len(incoming)
    BY <1>2, <1>4
  <2>2. Lies(sent, e, incoming[k + i], e[Done] + (k + i))
    BY <1>1, <2>1 DEF StreamFits
  <2>3. e[Done] + (k + i) = e[Done + 1] + i
    BY <1>2, <1>4, <1>7
  <2>. QED
    BY <2>2, <2>3
<1>10. \A i \in 1 .. Len(wire) : Lies(sent, e, wire[i], e[Done + 1] + Len(incoming') + i)
  <2>. SUFFICES ASSUME NEW i \in 1 .. Len(wire)
                PROVE  Lies(sent, e, wire[i], e[Done + 1] + Len(incoming') + i)
    OBVIOUS
  <2>1. Lies(sent, e, wire[i], e[Done] + Len(incoming) + i)
    BY <1>1 DEF StreamFits
  <2>2. \A a \in Nat, b \in Nat, c \in Nat, j \in Nat : a + b + j = (a + c) + (b - c) + j
    OBVIOUS
  <2>3. e[Done] + Len(incoming) + i = (e[Done] + k) + (Len(incoming) - k) + i
    BY <1>2, <1>4, <2>2
  <2>4. e[Done] + Len(incoming) + i = e[Done + 1] + Len(incoming') + i
    BY <1>7, <1>8, <2>3
  <2>. QED
    BY <2>1, <2>4
<1>11. e[Done + 1] + Len(incoming') + Len(wire) = e[Len(sent)]
  <2>1. e[Done] + Len(incoming) + Len(wire) = e[Len(sent)]
    BY <1>1 DEF StreamFits
  <2>. QED
    BY <1>2, <1>4, <1>7, <1>8, <2>1
<1>12. StreamFits(e)'
  BY <1>1, <1>5, <1>6, <1>9, <1>10, <1>11 DEF StreamFits
<1>. QED
  BY <1>2, <1>4, <1>5, <1>6, <1>12 DEF StreamInv

LEMMA StreamRests ==
  ASSUME StreamInv, UNCHANGED <<sent, wire, incoming, cut, dispatched>>,
         reading' = reading \/ ~Whole
  PROVE  StreamInv'
<1>1. Done' = Done /\ Whole' = Whole
  BY DEF Done, Whole
<1>2. \A e : StreamFits(e)' <=> StreamFits(e)
  BY <1>1 DEF StreamFits
<1>3. (~reading /\ ~cut => ~Whole)'
  BY <1>1 DEF StreamInv
<1>. QED
  BY <1>1, <1>2, <1>3 DEF StreamInv

LEMMA StreamStep ==
  ASSUME LifeTypes, StreamInv, [LifeNext]_lifeVars
  PROVE  StreamInv'
<1>1. CASE \E m \in ClientMessages : ClientSends(m)
  BY <1>1, SendingKeepsTheStream
<1>2. CASE \E n \in 1 .. Len(wire) : DataArrives(n)
  BY <1>2, ArrivalKeepsTheStream
<1>3. CASE Dispatch
  BY <1>3, DispatchKeepsTheStream
<1>4. CASE NothingComplete
  <2>1. ~Whole
    BY <1>4, ReaderFindsMessages DEF NothingComplete
  <2>. QED
    BY <1>4, <2>1, StreamRests DEF NothingComplete
<1>5. CASE RootFound
  BY <1>5, StreamRests DEF RootFound
<1>6. CASE ConfigLoaded
  BY <1>6, StreamRests DEF ConfigLoaded
<1>7. CASE \E r \in Requests : HandlerEnds(r)
  BY <1>7, StreamRests DEF HandlerEnds
<1>8. CASE UNCHANGED lifeVars
  BY <1>8, StreamRests DEF lifeVars
<1>. QED
  BY <1>1, <1>2, <1>3, <1>4, <1>5, <1>6, <1>7, <1>8 DEF LifeNext, LifeServer


LEMMA StreamIsInOrder ==
  ASSUME LifeTypes, StreamInv
  PROVE  MessagesOnceInOrder
<1>1. PICK e \in [0 .. Len(sent) -> Nat] : StreamFits(e)
  BY DEF StreamInv
<1>2. /\ Len(sent) \in Nat /\ Len(incoming) \in Nat /\ Len(wire) \in Nat /\ Done \in Nat
      /\ Done <= Len(sent) /\ e[Done] \in Nat /\ e[Len(sent)] \in Nat
  BY <1>1, Counted
<1>3. sent \in Seq(ClientMessages) /\ wire \in Seq(Piece) /\ Measures(sent, e)
  BY <1>1 DEF LifeTypes, StreamFits
<1>4. /\ e[Done] + Len(incoming) + Len(wire) = e[Len(sent)]
      /\ \A i \in 1 .. Len(wire) : Lies(sent, e, wire[i], e[Done] + Len(incoming) + i)
  BY <1>1 DEF StreamFits
<1>5. /\ \A n \in 1 .. Len(sent) : e[n] = e[n - 1] + Full(sent[n])
      /\ \A m \in 0 .. Len(sent), n \in 0 .. Len(sent) : m < n => e[m] < e[n]
      /\ e \in [0 .. Len(sent) -> Nat]
  BY <1>3 DEF Measures
<1>6. \A n \in 1 .. Len(sent) : Full(sent[n]) \in Nat /\ Full(sent[n]) >= 2
  BY <1>3, MessagesHaveSizes
<1>. DEFINE Upto == 0 .. Len(sent)
<1>a. \A n \in 1 .. Len(sent) : n \in Upto /\ n - 1 \in Upto /\ n - 1 < n
  BY <1>2
<1>b. \A n \in Upto : e[n] \in Nat
  BY <1>5
<1>c. Done \in Upto /\ Len(sent) \in Upto
  BY <1>2
<1>d. \A m \in Upto, n \in Upto : m <= n => e[m] <= e[n]
  <2>. SUFFICES ASSUME NEW m \in Upto, NEW n \in Upto, m <= n PROVE e[m] <= e[n]
    OBVIOUS
  <2>1. m < n \/ m = n
    BY <1>2
  <2>2. e[m] \in Nat /\ e[n] \in Nat /\ (m < n => e[m] < e[n])
    BY <1>5
  <2>. QED
    BY <2>1, <2>2
<1>7. ASSUME NEW n \in 1 .. Len(sent), n <= Done, NEW i \in 1 .. Len(wire), wire[i].msg = n
      PROVE  FALSE
  <2>1. wire[i].at \in 1 .. Full(sent[n]) /\ e[Done] + Len(incoming) + i = e[n - 1] + wire[i].at
    BY <1>4, <1>7 DEF Lies
  <2>2. e[n] = e[n - 1] + Full(sent[n])
    BY <1>5
  <2>3. e[n] \in Nat /\ e[n - 1] \in Nat /\ e[n] <= e[Done]
    BY <1>7, <1>a, <1>b, <1>c, <1>d
  <2>4. e[n - 1] + wire[i].at <= e[n]
    BY <1>6, <2>1, <2>2, <2>3
  <2>5. e[Done] + Len(incoming) + i > e[Done]
    BY <1>2
  <2>6. e[Done] + Len(incoming) + i <= e[n]
    BY <2>1, <2>4
  <2>. QED
    BY <1>2, <2>3, <2>5, <2>6
<1>8. ASSUME ~reading, ~cut, NEW n \in 1 .. Len(sent), Done < n
      PROVE  \E i \in 1 .. Len(wire) : wire[i].msg = n
  <2>1. Done + 1 \in 1 .. Len(sent) /\ Done + 1 <= n
    BY <1>2, <1>8
  <2>2. e[Done + 1] = e[Done] + Full(sent[Done + 1])
    BY <1>2, <1>5, <2>1
  <2>3. Len(incoming) < Full(sent[Done + 1])
    BY <1>2, <1>6, <1>8, <2>1 DEF StreamInv, Whole
  <2>4. e[Done + 1] \in Nat /\ e[n] \in Nat /\ e[n - 1] \in Nat
    BY <1>a, <1>b, <2>1
  <2>5. e[Done + 1] <= e[n]
    BY <1>a, <1>d, <2>1
  <2>6. e[n] <= e[Len(sent)]
    BY <1>2, <1>a, <1>c, <1>d
  <2>7. PICK i : i = e[n] - (e[Done] + Len(incoming))
    OBVIOUS
  <2>8. e[Done] + Len(incoming) < e[n]
    BY <1>2, <1>6, <2>1, <2>2, <2>3, <2>4, <2>5
  <2>9. i \in 1 .. Len(wire) /\ e[Done] + Len(incoming) + i = e[n]
    <3>1. PICK a : a = e[Done] + Len(incoming)
      OBVIOUS
    <3>2. a \in Nat /\ a < e[n] /\ i = e[n] - a /\ a + Len(wire) = e[Len(sent)]
      BY <1>2, <1>4, <2>7, <2>8, <3>1
    <3>3. i \in 1 .. Len(wire) /\ a + i = e[n]
      <4>1. \A b \in Nat, f \in Nat, g \in Nat, w \in Nat :
              b < f /\ f <= g /\ b + w = g => f - b \in 1 .. w /\ b + (f - b) = f
        OBVIOUS
      <4>. QED
        BY <1>2, <2>4, <2>6, <3>2, <4>1
    <3>. QED
      BY <3>1, <3>3
  <2>10. wire[i] \in Piece /\ Lies(sent, e, wire[i], e[n])
    BY <1>3, <1>4, <2>9
  <2>11. e[n - 1] < e[n]
    BY <1>5, <1>a
  <2>12. wire[i].msg = n
    <3>1. PICK b \in Piece : b = wire[i]
      BY <2>10
    <3>2. Lies(sent, e, b, e[n]) /\ e[n - 1] < e[n] /\ e[n] <= e[n]
      BY <2>4, <2>10, <2>11, <3>1
    <3>3. b.msg = n
      BY <1>3, <1>8, <2>4, <3>2, PieceIsOf
    <3>. QED
      BY <3>1, <3>3
  <2>. QED
    BY <2>9, <2>12
<1>9. DOMAIN sent = 1 .. Len(sent) /\ DOMAIN wire = 1 .. Len(wire)
  BY <1>3
<1>10. dispatched = [i \in 1 .. Done |-> i] /\ Done \in 0 .. Len(sent)
  BY DEF StreamInv
<1>11. ~reading /\ ~cut =>
          \A n \in DOMAIN sent : (\A i \in DOMAIN wire : wire[i].msg # n) <=> n <= Done
  BY <1>2, <1>7, <1>8, <1>9
<1>. QED
  BY <1>10, <1>11 DEF MessagesOnceInOrder

-----------------------------------------------------------------------------
(* Every step keeps the answers single, and what initialize replaces empty     *)

Reached(id) == \E n \in 1 .. Done : sent[n].id = id

(* A request that is dispatched is answered or worked at, not both. *)
AnswersInv ==
  /\ \A i \in 1 .. Len(sent), j \in 1 .. Len(sent) :
       sent[i].id = sent[j].id /\ sent[i].id # NoId => i = j
  /\ \A id \in Ids \ {NoId} :
       /\ Len(answers[id]) <= 1
       /\ answers[id] # <<>> => Reached(id)
       /\ id \in Strange => ToSet(answers[id]) \subseteq {"-32601"}
  /\ \A r \in working : Reached(r) /\ answers[r] = <<>>
  /\ stage # "idle" => Reached("init") /\ answers["init"] = <<>>

(* Nothing is opened before initialize is answered. *)
OpensInv ==
  /\ Sent("initialized") \/ Sent("open") => answers["init"] # <<>>
  /\ exited = "running" =>
       \A n \in 1 .. Done : sent[n].kind = "open" => sent[n].doc \in serving

LifeInv == LifeTypes /\ StreamInv /\ AnswersInv /\ OpensInv

(* Nothing is said of id but by the one who works at it or takes it up now. *)
LEMMA AnswersMove ==
  ASSUME LifeTypes, StreamInv, AnswersInv, UNCHANGED <<sent>>,
         Done' \in Nat, Done <= Done', Done' <= Len(sent),
         NEW id \in Ids, NEW what \in What, Answer(id, what),
         id # NoId => answers[id] = <<>> /\ Reached(id)' /\ id \notin working',
         id \in Strange => what = "-32601",
         id = "init" => stage' = "idle",
         working' \subseteq working, stage' = stage \/ stage' = "idle"
  PROVE  AnswersInv'
<1>1. /\ answers[id] = <<>> => Len(answers'[id]) = 1 /\ ToSet(answers'[id]) = {what}
      /\ \A o \in Ids : o # id => answers'[o] = answers[o]
  BY AnswerOnce
<1>2. \A o : Reached(o) => Reached(o)'
  <2>1. 1 .. Done \subseteq 1 .. Done'
    BY DEF StreamInv
  <2>. QED
    BY <2>1 DEF Reached
<1>3. Requests \subseteq Ids \ {NoId} /\ "init" \in Ids \ {NoId} /\ working \subseteq Requests
  BY IdsAreApart DEF LifeTypes, LifeTypeOK
<1>4. ASSUME NEW o \in Ids \ {NoId}
      PROVE  /\ Len(answers'[o]) <= 1
             /\ answers'[o] # <<>> => Reached(o)'
             /\ o \in Strange => ToSet(answers'[o]) \subseteq {"-32601"}
  <2>1. CASE o = id
    <3>1. answers[id] = <<>> /\ Reached(id)'
      BY <2>1
    <3>2. Len(answers'[id]) = 1 /\ ToSet(answers'[id]) = {what}
      BY <1>1, <3>1
    <3>3. Reached(o)'
      BY <2>1, <3>1 DEF Reached
    <3>. QED
      BY <2>1, <3>2, <3>3
  <2>2. CASE o # id
    BY <1>1, <1>2, <2>2 DEF AnswersInv
  <2>. QED
    BY <2>1, <2>2
<1>5. ASSUME NEW r \in working'
      PROVE  Reached(r)' /\ answers'[r] = <<>>
  <2>1. r \in working /\ r \in Ids \ {NoId} /\ r # id
    BY <1>3, <1>5
  <2>. QED
    BY <1>1, <1>2, <2>1 DEF AnswersInv
<1>6. ASSUME stage' # "idle"
      PROVE  Reached("init")' /\ answers'["init"] = <<>>
  BY <1>1, <1>2, <1>3, <1>6 DEF AnswersInv
<1>7. \A i \in 1 .. Len(sent), j \in 1 .. Len(sent) :
        sent[i].id = sent[j].id /\ sent[i].id # NoId => i = j
  BY DEF AnswersInv
<1>. QED
  BY <1>4, <1>5, <1>6, <1>7 DEF AnswersInv


LEMMA AnswersRest ==
  ASSUME AnswersInv, UNCHANGED <<sent, answers, working>>, Done' = Done,
         stage' = stage \/ (stage' = "config" /\ stage = "root")
  PROVE  AnswersInv'
<1>1. \A id : Reached(id)' <=> Reached(id)
  BY DEF Reached
<1>2. (stage # "idle" => Reached("init") /\ answers["init"] = <<>>)'
  BY <1>1 DEF AnswersInv
<1>. QED
  BY <1>1, <1>2 DEF AnswersInv

(* What is sent is new, unless it is a reply, which has no id. *)
LEMMA SendingKeepsAnswers ==
  ASSUME LifeTypes, StreamInv, AnswersInv, NEW m \in ClientMessages, ClientSends(m)
  PROVE  AnswersInv'
<1>1. UNCHANGED <<answers, working, stage, dispatched>> /\ Done' = Done
  BY DEF ClientSends, Done
<1>2. PICK l : l = Len(sent)
  OBVIOUS
<1>3. /\ sent \in Seq(ClientMessages) /\ l \in Nat /\ Len(sent') = l + 1
      /\ sent'[l + 1] = m /\ \A n \in 1 .. l : sent'[n] = sent[n]
  BY <1>2 DEF ClientSends, LifeTypes
<1>4. ASSUME m.id # NoId, NEW i \in 1 .. l, sent[i].id = m.id
      PROVE  FALSE
  <2>1. sent[i] \in ClientMessages
    BY <1>2, <1>3
  <2>2. sent[i] = m
    BY <1>4, <2>1, OneRequestEach
  <2>3. m.kind # "reply"
    BY <1>4, WhatTheClientSays
  <2>4. m \notin ToSet(sent)
    BY <2>3 DEF ClientSends, MaySay
  <2>5. i \in DOMAIN sent
    BY <1>2, <1>3
  <2>. QED
    BY <2>2, <2>4, <2>5 DEF ToSet
<1>5. ASSUME NEW i \in 1 .. l + 1, NEW j \in 1 .. l + 1,
             sent'[i].id = sent'[j].id, sent'[i].id # NoId
      PROVE  i = j
  <2>1. CASE i \in 1 .. l /\ j \in 1 .. l
    BY <1>2, <1>3, <1>5, <2>1 DEF AnswersInv
  <2>2. CASE i = l + 1 /\ j \in 1 .. l
    BY <1>3, <1>4, <1>5, <2>2
  <2>3. CASE i \in 1 .. l /\ j = l + 1
    BY <1>3, <1>4, <1>5, <2>3
  <2>. QED
    BY <1>3, <2>1, <2>2, <2>3
<1>6. \A id : Reached(id) => Reached(id)'
  <2>1. 1 .. Done \subseteq 1 .. l
    BY <1>2, <1>3 DEF StreamInv
  <2>. QED
    BY <1>1, <1>3, <2>1 DEF Reached
<1>. QED
  BY <1>1, <1>3, <1>5, <1>6 DEF AnswersInv

LEMMA DispatchKeepsAnswers ==
  ASSUME LifeTypes, StreamInv, AnswersInv, Dispatch
  PROVE  AnswersInv'
<1>. PICK n : n = Done + 1
  OBVIOUS
<1>. PICK m : m = sent[n]
  OBVIOUS
<1>1. n \in 1 .. Len(sent) /\ m \in ClientMessages /\ Taken(m) /\ dispatched' = Append(dispatched, n)
  BY WhatIsDispatched
<1>2. Done \in Nat /\ Len(sent) \in Nat /\ UNCHANGED sent
  BY DEF LifeTypes, StreamInv, Dispatch
<1>3. Done' = n
  <2>1. dispatched = [i \in 1 .. Done |-> i]
    BY DEF StreamInv
  <2>2. PICK d : d = Done
    OBVIOUS
  <2>3. d \in Nat /\ dispatched = [i \in 1 .. d |-> i] /\ dispatched' = Append(dispatched, d + 1)
    BY <1>1, <1>2, <2>1, <2>2
  <2>4. Len(dispatched') = d + 1
    BY <2>3
  <2>. QED
    BY <2>2, <2>4 DEF Done
<1>4. Done' \in Nat /\ Done <= Done' /\ Done' <= Len(sent)
  BY <1>1, <1>2, <1>3
<1>5. \A id : Reached(id)' <=> Reached(id) \/ m.id = id
  BY <1>2, <1>3 DEF Reached
<1>6. ASSUME m.id # NoId
      PROVE  ~Reached(m.id)
  <2>. SUFFICES ASSUME NEW i \in 1 .. Done, sent[i].id = m.id PROVE FALSE
    BY DEF Reached
  <2>1. i \in 1 .. Len(sent) /\ i # n
    BY <1>1, <1>2
  <2>. QED
    BY <1>1, <1>6, <2>1 DEF AnswersInv
<1>7. m.id \in Ids /\ NoId \in Ids
  BY <1>1, WhatTheClientSays DEF Ids
<1>8. ASSUME m.id # NoId
      PROVE  /\ answers[m.id] = <<>> /\ Reached(m.id)' /\ m.id \notin working
             /\ m.id = "init" => stage = "idle"
  BY <1>5, <1>6, <1>7, <1>8 DEF AnswersInv
<1>9. ASSUME m.id # NoId, NEW what \in What, Answer(m.id, what),
              m.id \in Strange => what = "-32601", m.id # "init",
              UNCHANGED <<stage, working>>
       PROVE  AnswersInv'
  <2>1. m.id \notin working' /\ working' \subseteq working /\ stage' = stage
    BY <1>8, <1>9
  <2>2. answers[m.id] = <<>> /\ Reached(m.id)'
    BY <1>8, <1>9
  <2>. QED
    BY <1>2, <1>4, <1>7, <1>9, <2>1, <2>2, AnswersMove
<1>10. CASE m.id # NoId
  <2>. HandleRequest(m)
    BY <1>1, <1>10 DEF Taken
  <2>1. CASE m.kind = "initialize" /\ Begins /\ UNCHANGED working
    <3>1. UNCHANGED <<sent, answers, working>> /\ m.id = "init"
      BY <1>1, <1>2, <2>1, WhatTheClientSays DEF Begins
    <3>2. \A id : Reached(id) => Reached(id)'
      BY <1>5
    <3>3. (stage # "idle" => Reached("init") /\ answers["init"] = <<>>)'
      BY <1>8, <1>10, <3>1
    <3>. QED
      BY <3>1, <3>2, <3>3 DEF AnswersInv
  <2>2. CASE m.kind = "request" /\ m.id \in Strange /\ Answer(m.id, "-32601")
             /\ UNCHANGED <<stage, working>>
    <3>1. m.id # "init" /\ "-32601" \in What
      BY <2>2, IdsAssumption DEF What
    <3>. QED
      BY <1>9, <1>10, <2>2, <3>1
  <2>3. ASSUME m.kind = "request", m.id \in Requests,
               NEW what \in {"result", "-32603"}, Answer(m.id, what), UNCHANGED <<stage, working>>
        PROVE  AnswersInv'
    <3>1. m.id \notin Strange /\ m.id # "init" /\ what \in What
      BY <2>3, IdsAssumption DEF What
    <3>. QED
      BY <1>9, <1>10, <2>3, <3>1
  <2>4. CASE m.kind = "request" /\ m.id \in Requests
             /\ working' = working \cup {m.id} /\ UNCHANGED <<answers, stage>>
    <3>1. \A id : Reached(id) => Reached(id)'
      BY <1>5
    <3>2. \A r \in working' : Reached(r)' /\ answers'[r] = <<>>
      BY <1>8, <1>10, <2>4, <3>1 DEF AnswersInv
    <3>3. (stage # "idle" => Reached("init") /\ answers["init"] = <<>>)'
      BY <2>4, <3>1 DEF AnswersInv
    <3>. QED
      BY <1>2, <2>4, <3>1, <3>2, <3>3 DEF AnswersInv
  <2>5. CASE m.kind = "shutdown" /\ Answer(m.id, "result") /\ UNCHANGED <<stage, working>>
    <3>1. m.id = "stop"
      BY <1>1, <2>5, WhatTheClientSays
    <3>2. m.id \notin Strange /\ m.id # "init"
      BY <3>1, IdsAssumption
    <3>. QED
      BY <1>9, <1>10, <2>5, <3>2 DEF What
  <2>. QED
    BY <2>1, <2>2, <2>3, <2>4, <2>5 DEF HandleRequest
<1>11. CASE m.id = NoId
  <2>1. UNCHANGED <<stage, working>> /\ (UNCHANGED answers \/ Answer(NoId, "-32700"))
    BY <1>1, <1>11 DEF Taken
  <2>2. CASE Answer(NoId, "-32700")
    <3>1. NoId \notin Strange /\ NoId # "init" /\ "-32700" \in What
      BY IdsAssumption DEF What
    <3>2. working' \subseteq working /\ stage' = stage
      BY <2>1
    <3>. QED
      BY <1>2, <1>4, <1>7, <2>2, <3>1, <3>2, AnswersMove
  <2>3. CASE UNCHANGED answers
    <3>1. \A id : Reached(id) => Reached(id)'
      BY <1>5
    <3>. QED
      BY <1>2, <2>1, <2>3, <3>1 DEF AnswersInv
  <2>. QED
    BY <2>1, <2>2, <2>3
<1>. QED
  BY <1>10, <1>11

LEMMA AnswersStep ==
  ASSUME LifeTypes, StreamInv, AnswersInv, [LifeNext]_lifeVars
  PROVE  AnswersInv'
<1>1. CASE \E m \in ClientMessages : ClientSends(m)
  BY <1>1, SendingKeepsAnswers
<1>2. CASE \E n \in 1 .. Len(wire) : DataArrives(n)
  <2>1. UNCHANGED <<sent, answers, working, stage>> /\ Done' = Done
    BY <1>2 DEF DataArrives, Done
  <2>. QED
    BY <2>1, AnswersRest
<1>3. CASE Dispatch
  BY <1>3, DispatchKeepsAnswers
<1>4. CASE NothingComplete
  <2>1. UNCHANGED <<sent, answers, working, stage>> /\ Done' = Done
    BY <1>4 DEF NothingComplete, Done
  <2>. QED
    BY <2>1, AnswersRest
<1>5. Done \in Nat /\ Done <= Len(sent) /\ Done <= Done
  BY DEF LifeTypes, StreamInv
<1>6. /\ "init" \in Ids /\ "init" # NoId /\ "init" \notin Strange /\ "init" \notin Requests
      /\ Requests \subseteq Ids /\ NoId \notin Requests
      /\ {"result", "-32603"} \subseteq What
  BY IdsAssumption DEF Ids, What
<1>7. working \subseteq Requests
  BY DEF LifeTypes, LifeTypeOK
<1>8. CASE RootFound
  <2>1. UNCHANGED <<sent, working>> /\ Done' = Done /\ stage = "root"
    BY <1>8 DEF RootFound, Done
  <2>2. CASE stage' = "config" /\ UNCHANGED answers
    BY <2>1, <2>2, AnswersRest
  <2>3. CASE stage' = "idle" /\ Answer("init", "-32603")
    <3>1. answers["init"] = <<>> /\ Reached("init") /\ Reached("init")'
      BY <2>1 DEF AnswersInv, Reached
    <3>2. "init" \notin working'
      BY <1>6, <1>7, <2>1
    <3>. QED
      BY <1>5, <1>6, <2>1, <2>3, <3>1, <3>2, AnswersMove
  <2>. QED
    BY <1>8, <2>2, <2>3 DEF RootFound
<1>9. CASE ConfigLoaded
  <2>1. UNCHANGED <<sent, working>> /\ Done' = Done /\ stage = "config" /\ stage' = "idle"
    BY <1>9 DEF ConfigLoaded, Done
  <2>2. PICK what \in {"result", "-32603"} : Answer("init", what)
    BY <1>9 DEF ConfigLoaded
  <2>3. answers["init"] = <<>> /\ Reached("init") /\ Reached("init")'
    BY <2>1 DEF AnswersInv, Reached
  <2>4. "init" \notin working'
    BY <1>6, <1>7, <2>1
  <2>. QED
    BY <1>5, <1>6, <2>1, <2>2, <2>3, <2>4, AnswersMove
<1>10. ASSUME NEW r \in Requests, HandlerEnds(r)
       PROVE  AnswersInv'
  <2>1. UNCHANGED <<sent, stage>> /\ Done' = Done /\ r \in working /\ working' = working \ {r}
    BY <1>10 DEF HandlerEnds, Done
  <2>2. PICK what \in {"result", "-32603"} : Answer(r, what)
    BY <1>10 DEF HandlerEnds
  <2>3. answers[r] = <<>> /\ Reached(r)'
    BY <2>1 DEF AnswersInv, Reached
  <2>4. r \notin Strange /\ r \in Ids /\ r # "init"
    BY <1>6, IdsAssumption
  <2>. QED
    BY <1>5, <1>6, <2>1, <2>2, <2>3, <2>4, AnswersMove
<1>11. CASE UNCHANGED lifeVars
  <2>1. sent' = sent /\ answers' = answers /\ working' = working /\ stage' = stage /\ Done' = Done
    BY <1>11 DEF lifeVars, Done
  <2>2. stage' = stage \/ (stage' = "config" /\ stage = "root")
    BY <2>1
  <2>3. UNCHANGED <<sent, answers, working>>
    BY <2>1
  <2>. QED
    BY <2>1, <2>2, <2>3, AnswersRest
<1>. QED
  BY <1>1, <1>2, <1>3, <1>4, <1>8, <1>9, <1>10, <1>11 DEF LifeNext, LifeServer


LEMMA OpensRest ==
  ASSUME OpensInv, UNCHANGED <<sent, serving, exited>>, Done' = Done,
         answers["init"] # <<>> => answers'["init"] # <<>>
  PROVE  OpensInv'
<1>1. \A kind : Sent(kind)' <=> Sent(kind)
  BY DEF Sent
<1>2. (Sent("initialized") \/ Sent("open") => answers["init"] # <<>>)'
  BY <1>1 DEF OpensInv
<1>. QED
  BY <1>2 DEF OpensInv

LEMMA SendingKeepsOpens ==
  ASSUME LifeTypes, StreamInv, OpensInv, NEW m \in ClientMessages, ClientSends(m)
  PROVE  OpensInv'
<1>1. UNCHANGED <<answers, serving, exited, dispatched>> /\ Done' = Done
  BY DEF ClientSends, Done
<1>2. sent' = Append(sent, m) /\ sent \in Seq(ClientMessages) /\ Len(sent) \in Nat
  BY DEF ClientSends, LifeTypes
<1>3. ASSUME NEW kind, Sent(kind)'
      PROVE  Sent(kind) \/ m.kind = kind
  <2>1. PICK i \in DOMAIN sent' : sent'[i].kind = kind
    BY <1>3 DEF Sent
  <2>2. CASE i \in DOMAIN sent
    BY <1>2, <2>1, <2>2 DEF Sent
  <2>3. CASE i \notin DOMAIN sent
    <3>1. sent'[i] = m
      BY <1>2, <2>1, <2>3
    <3>. QED
      BY <2>1, <3>1
  <2>. QED
    BY <2>2, <2>3
<1>4. MaySay(m)
  BY DEF ClientSends
<1>5. m.kind = "initialized" => answers["init"] # <<>>
  <2>1. m.kind = "initialized" => answers["init"] = <<"result">>
    BY <1>4 DEF MaySay
  <2>2. <<"result">> # <<>>
    OBVIOUS
  <2>. QED
    BY <2>1, <2>2
<1>6. m.kind = "open" => Sent("initialized")
  BY <1>4 DEF MaySay
<1>7. (Sent("initialized") \/ Sent("open") => answers["init"] # <<>>)'
  BY <1>1, <1>3, <1>5, <1>6 DEF OpensInv
<1>8. \A n \in 1 .. Done : sent'[n] = sent[n]
  BY <1>2 DEF StreamInv
<1>. QED
  BY <1>1, <1>7, <1>8 DEF OpensInv

LEMMA DispatchKeepsOpens ==
  ASSUME LifeTypes, StreamInv, OpensInv, Dispatch
  PROVE  OpensInv'
<1>. PICK n : n = Done + 1
  OBVIOUS
<1>. PICK m : m = sent[n]
  OBVIOUS
<1>1. n \in 1 .. Len(sent) /\ m \in ClientMessages /\ Taken(m) /\ dispatched' = Append(dispatched, n)
  BY WhatIsDispatched
<1>2. Done \in Nat /\ Len(sent) \in Nat /\ UNCHANGED sent /\ exited = "running"
  BY DEF LifeTypes, StreamInv, Dispatch
<1>3. Done' = n
  <2>1. PICK d : d = Done
    OBVIOUS
  <2>2. d \in Nat /\ dispatched = [i \in 1 .. d |-> i] /\ dispatched' = Append(dispatched, d + 1)
    BY <1>1, <1>2, <2>1 DEF StreamInv
  <2>3. Len(dispatched') = d + 1
    BY <2>2
  <2>. QED
    BY <2>1, <2>3 DEF Done
<1>4. answers["init"] # <<>> => answers'["init"] # <<>>
  <2>1. UNCHANGED answers \/ \E id \in Ids, what \in What : Answer(id, what)
    <3>1. CASE m.id # NoId
      <4>1. m.id \in Ids /\ HandleRequest(m)
        BY <1>1, <3>1, WhatTheClientSays DEF Taken
      <4>2. {"result", "-32603", "-32601"} \subseteq What
        BY DEF What
      <4>. QED
        BY <4>1, <4>2 DEF HandleRequest, Begins
    <3>2. CASE m.id = NoId
      BY <1>1, <3>2 DEF Taken, Ids, What
    <3>. QED
      BY <3>1, <3>2
  <2>2. "init" \in Ids
    BY DEF Ids
  <2>. QED
    BY <2>1, <2>2, AnswerOnce
<1>5. serving \subseteq serving' /\ (m.kind = "open" => m.doc \in serving')
  <2>1. m.kind = "open" => m.id = NoId
    BY <1>1, WhatTheClientSays
  <2>. QED
    BY <1>1, <2>1 DEF Taken, HandleNotification
<1>6. (Sent("initialized") \/ Sent("open") => answers["init"] # <<>>)'
  <2>1. \A kind : Sent(kind)' <=> Sent(kind)
    BY <1>2 DEF Sent
  <2>. QED
    BY <1>4, <2>1 DEF OpensInv
<1>7. \A i \in 1 .. n : i \in 1 .. Done \/ i = n
  BY <1>2
<1>8. \A i \in 1 .. n : sent[i].kind = "open" => sent[i].doc \in serving'
  BY <1>2, <1>5, <1>7 DEF OpensInv
<1>. QED
  BY <1>2, <1>3, <1>6, <1>8 DEF OpensInv

LEMMA OpensStep ==
  ASSUME LifeTypes, StreamInv, AnswersInv, OpensInv, [LifeNext]_lifeVars
  PROVE  OpensInv'
<1>1. CASE \E m \in ClientMessages : ClientSends(m)
  BY <1>1, SendingKeepsOpens
<1>2. CASE \E n \in 1 .. Len(wire) : DataArrives(n)
  <2>1. UNCHANGED <<sent, serving, exited, answers>> /\ Done' = Done
    BY <1>2 DEF DataArrives, Done
  <2>. QED
    BY <2>1, OpensRest
<1>3. CASE Dispatch
  BY <1>3, DispatchKeepsOpens
<1>4. CASE NothingComplete
  <2>1. UNCHANGED <<sent, serving, exited, answers>> /\ Done' = Done
    BY <1>4 DEF NothingComplete, Done
  <2>. QED
    BY <2>1, OpensRest
<1>5. /\ "init" \in Ids /\ Requests \subseteq Ids /\ {"result", "-32603"} \subseteq What
  BY DEF Ids, What
<1>6. CASE RootFound
  <2>1. UNCHANGED <<sent, serving, exited>> /\ Done' = Done
    BY <1>6 DEF RootFound, Done
  <2>2. UNCHANGED answers \/ \E what \in What : Answer("init", what)
    BY <1>5, <1>6 DEF RootFound
  <2>3. answers["init"] # <<>> => answers'["init"] # <<>>
    BY <1>5, <2>2, AnswerOnce
  <2>. QED
    BY <2>1, <2>3, OpensRest
<1>7. CASE ConfigLoaded
  <2>1. UNCHANGED <<sent, exited>> /\ Done' = Done /\ stage = "config"
    BY <1>7 DEF ConfigLoaded, Done
  <2>2. answers["init"] = <<>>
    BY <2>1 DEF AnswersInv
  <2>3. ~Sent("initialized") /\ ~Sent("open")
    BY <2>2 DEF OpensInv
  <2>4. \A kind : Sent(kind)' <=> Sent(kind)
    BY <2>1 DEF Sent
  <2>5. \A n \in 1 .. Done : sent[n].kind # "open"
    <3>1. 1 .. Done \subseteq DOMAIN sent
      BY DEF StreamInv, LifeTypes
    <3>. QED
      BY <2>3, <3>1 DEF Sent
  <2>6. (Sent("initialized") \/ Sent("open") => answers["init"] # <<>>)'
    BY <2>3, <2>4
  <2>. QED
    BY <2>1, <2>5, <2>6 DEF OpensInv
<1>8. ASSUME NEW r \in Requests, HandlerEnds(r)
      PROVE  OpensInv'
  <2>1. UNCHANGED <<sent, serving, exited>> /\ Done' = Done
    BY <1>8 DEF HandlerEnds, Done
  <2>2. \E what \in What : Answer(r, what)
    BY <1>5, <1>8 DEF HandlerEnds
  <2>3. answers["init"] # <<>> => answers'["init"] # <<>>
    BY <1>5, <2>2, AnswerOnce
  <2>. QED
    BY <2>1, <2>3, OpensRest
<1>9. CASE UNCHANGED lifeVars
  <2>1. UNCHANGED <<sent, serving, exited, answers>> /\ Done' = Done
    BY <1>9 DEF lifeVars, Done
  <2>. QED
    BY <2>1, OpensRest
<1>. QED
  BY <1>1, <1>2, <1>3, <1>4, <1>6, <1>7, <1>8, <1>9 DEF LifeNext, LifeServer

LEMMA LifeStarts == LifeInit => LifeInv
<1>. SUFFICES ASSUME LifeInit PROVE LifeInv
  OBVIOUS
<1>1. /\ sent = <<>> /\ wire = <<>> /\ incoming = <<>> /\ dispatched = <<>>
      /\ Len(sent) = 0 /\ Len(wire) = 0 /\ Len(incoming) = 0 /\ Done = 0
  BY DEF LifeInit, Done
<1>2. LifeTypes
  <2>1. sent \in Seq(ClientMessages) /\ wire \in Seq(Piece) /\ incoming \in Seq(Piece)
    BY <1>1
  <2>2. answers \in [Ids -> Seq(What)]
    <3>1. <<>> \in Seq(What)
      OBVIOUS
    <3>. QED
      BY <3>1 DEF LifeInit
  <2>3. LifeTypeOK
    BY <1>1, MaxSentAssumption DEF LifeInit, LifeTypeOK
  <2>. QED
    BY <2>1, <2>2, <2>3 DEF LifeInit, LifeTypes
<1>3. StreamInv
  <2>1. PICK e : e = [n \in 0 .. 0 |-> 0]
    OBVIOUS
  <2>2. e \in [0 .. 0 -> Nat] /\ e[0] = 0
    BY <2>1
  <2>3. StreamFits(e)
    BY <1>1, <2>2 DEF StreamFits, Measures
  <2>4. dispatched = [i \in 1 .. 0 |-> i]
    BY <1>1
  <2>. QED
    BY <1>1, <2>2, <2>3, <2>4 DEF StreamInv, Whole
<1>4. AnswersInv
  <2>1. \A id \in Ids : answers[id] = <<>>
    BY DEF LifeInit
  <2>2. Len(<<>>) = 0 /\ ToSet(<<>>) = {}
    BY DEF ToSet
  <2>3. working = {} /\ stage = "idle"
    BY DEF LifeInit
  <2>. QED
    BY <1>1, <2>1, <2>2, <2>3 DEF AnswersInv
<1>5. OpensInv
  <2>1. \A kind : ~Sent(kind)
    BY <1>1 DEF Sent
  <2>2. 1 .. Done = {}
    BY <1>1
  <2>. QED
    BY <2>1, <2>2 DEF OpensInv
<1>. QED
  BY <1>2, <1>3, <1>4, <1>5 DEF LifeInv

LEMMA LifeInvHolds == LifeSpec => []LifeInv
<1>1. LifeInv /\ [LifeNext]_lifeVars => LifeInv'
  BY LifeTypesStep, StreamStep, AnswersStep, OpensStep DEF LifeInv
<1>. QED
  BY <1>1, LifeStarts, PTL DEF LifeSpec

-----------------------------------------------------------------------------
(* Works under way are of requests, documents served were opened, and the      *)
(* client says no more than it may.                                            *)
THEOREM LifeTypesHold == LifeSpec => []LifeTypeOK
<1>1. LifeInv => LifeTypeOK
  BY DEF LifeInv, LifeTypes
<1>. QED
  BY <1>1, LifeInvHolds, PTL

(* However the stream is cut, the server dispatches each message that has      *)
(* arrived whole, once and in order, and no part of another.                   *)
THEOREM StreamIsRead == LifeSpec => []MessagesOnceInOrder
<1>1. LifeInv => MessagesOnceInOrder
  BY StreamIsInOrder DEF LifeInv
<1>. QED
  BY <1>1, LifeInvHolds, PTL

(* No request is answered twice or before it was dispatched, whichever way its *)
(* handler ends, and one the server does not know is refused.                  *)
THEOREM RequestsAnsweredOnce == LifeSpec => []OneAnswerEach
<1>1. LifeInv => OneAnswerEach
  <2>. SUFFICES ASSUME LifeInv, NEW id \in Ids \ {NoId}
                PROVE  /\ Len(answers[id]) <= 1
                       /\ answers[id] # <<>> => \E n \in ToSet(dispatched) : sent[n].id = id
                       /\ id \in Strange => ToSet(answers[id]) \subseteq {"-32601"}
    BY DEF OneAnswerEach
  <2>1. 1 .. Done \subseteq ToSet(dispatched)
    BY DEF LifeInv, StreamInv, ToSet
  <2>. QED
    BY <2>1 DEF LifeInv, AnswersInv, Reached
<1>. QED
  BY <1>1, LifeInvHolds, PTL

(* Replacing the index when initialize ends loses no document that was opened. *)
THEOREM OpenedStaysHeld == LifeSpec => []OpenedIsHeld
<1>1. LifeInv => OpenedIsHeld
  <2>1. LifeInv => ToSet(dispatched) = 1 .. Done
    BY DEF LifeInv, StreamInv, ToSet
  <2>. QED
    BY <2>1 DEF LifeInv, OpensInv, OpenedIsHeld
<1>. QED
  BY <1>1, LifeInvHolds, PTL
=============================================================================
