------------------------ MODULE WorkspaceIndexProofs ------------------------
(***************************************************************************)
(* What WorkspaceIndex keeps whatever the order of scan, saves, events and *)
(* passes, for every set of files and any number of refreshes in flight.   *)
(***************************************************************************)
EXTENDS WorkspaceIndex, TLAPS

(* A read the scan or a pass awaits in one step has come back with a text  *)
(* or found no file; only a refresh waits with its read still out.         *)
ReadsComplete ==
  /\ corpus # Free => corpus.text # NotRead
  /\ scan.read # Free => scan.read.text # NotRead

(* The scan and the refreshes only ever hold files in scope.               *)
ReadsStayInScope ==
  /\ scan.todo \subseteq Scope
  /\ scan.read.file \in Scope \cup {Nobody}
  /\ \A s \in Slots : refresh[s].file \in Scope \cup {Nobody}

InScope == ReadsStayInScope /\ IndexStaysInScope

(* A scan that is not walking awaits no read, so that it adds nothing.     *)
OnlyWalksRead == scan.phase # "walk" => scan.read = Free

-----------------------------------------------------------------------------
(* Type correctness.                                                       *)

(* A slot that holds no read, and a selector that is not defined.          *)
LEMMA EmptyValues ==
  /\ Free \in Reads
  /\ NoSelector \in [file : Files \cup {Nobody}, text : DiskText]
  /\ NoEntries \in [Texts -> Nat]
BY DEF Free, NoSelector, NoEntries, Reads, DiskText

(* Forgetting files keeps the index typed.                                 *)
LEMMA ForgetTypes ==
  ASSUME TypeOK, NEW S, Forget(S)
  PROVE  /\ entries' \in [Files -> [Texts -> Nat]]
         /\ memo' \in [Files -> DiskText]
         /\ selector' \in [file : Files \cup {Nobody}, text : DiskText]
BY EmptyValues DEF TypeOK, Forget, DiskText

(* So does replacing a file's entries.                                     *)
LEMMA ReplacedTypes ==
  ASSUME TypeOK, NEW f, NEW t
  PROVE  Replaced(f, t) \in [Files -> [Texts -> Nat]]
<1>1. [NoEntries EXCEPT ![t] = 1] \in [Texts -> Nat]
  BY EmptyValues
<1> QED BY <1>1 DEF Replaced, TypeOK

(* And extracting selectors.                                               *)
LEMMA ExtractTypes ==
  ASSUME TypeOK, NEW f \in Files \cup {Nobody}, NEW t \in Texts,
         ExtractSelectors(f, t)
  PROVE  selector' \in [file : Files \cup {Nobody}, text : DiskText]
BY DEF TypeOK, ExtractSelectors, DiskText

(* The initial state is typed.                                             *)
LEMMA InitTypes == Init => TypeOK
<1> SUFFICES ASSUME Init PROVE TypeOK
  OBVIOUS
<1>1. memo \in [Files -> DiskText] /\ edits \in 0..MaxEdits
  BY IndexConstants DEF Init, DiskText
<1> QED BY <1>1, EmptyValues DEF Init, TypeOK

(* One step keeps the types.                                               *)
LEMMA StepTypes == TypeOK /\ ReadsComplete /\ [Next]_vars => TypeOK'
<1> SUFFICES ASSUME TypeOK, ReadsComplete, [Next]_vars PROVE TypeOK'
  OBVIOUS
<1>1. CASE Environment
  <2>1. Edit
    BY <1>1 DEF Environment, TypeIn, EditorWrites, DiskChanges, FolderDeleted
  <2>2. edits' \in 0..MaxEdits
    BY <2>1, IndexConstants DEF Edit, TypeOK
  <2>3. ASSUME NEW f \in Files, NEW t \in Texts, TypeIn(f, t) PROVE TypeOK'
    BY <2>1, <2>2, <2>3 DEF TypeIn, Edit, TypeOK, indexVars
  <2>4. ASSUME NEW f \in Files, EditorWrites(f) PROVE TypeOK'
    BY <2>1, <2>2, <2>4 DEF EditorWrites, Edit, TypeOK, indexVars, DiskText
  <2>5. ASSUME NEW f \in Files, NEW t \in DiskText, DiskChanges(f, t) PROVE TypeOK'
    BY <2>1, <2>2, <2>5 DEF DiskChanges, Edit, TypeOK, indexVars
  <2>6. CASE FolderDeleted
    <3>1. disk' \in [Files -> DiskText]
      BY <2>6 DEF FolderDeleted, TypeOK, DiskText
    <3> QED BY <2>1, <2>2, <2>6, <3>1 DEF FolderDeleted, Edit, TypeOK, indexVars
  <2> QED BY <1>1, <2>3, <2>4, <2>5, <2>6 DEF Environment
<1>2. ASSUME NEW f \in Files, DidSave(f) PROVE TypeOK'
  <2>1. CASE f \in Scope
    <3>1. Replaced(f, buffer[f]) \in [Files -> [Texts -> Nat]]
      BY ReplacedTypes
    <3>2. /\ entries' = Replaced(f, buffer[f]) /\ saving' = saving \ {f}
          /\ UNCHANGED <<memo, selector, disk, buffer, edits, watched, folderGone,
                         scan, refresh, corpus>>
      BY <1>2, <2>1 DEF DidSave, envVars
    <3> QED BY <3>1, <3>2 DEF TypeOK
  <2>2. CASE f \notin Scope
    <3>1. Forget({f})
      BY <1>2, <2>2 DEF DidSave
    <3> QED BY <1>2, <3>1, ForgetTypes DEF DidSave, TypeOK, envVars
  <2> QED BY <2>1, <2>2
<1>3. ASSUME NEW f \in Files, NEW s \in Slots, StartRefresh(f, s) PROVE TypeOK'
  <2>1. CASE f \in Scope
    <3>1. refresh' \in [Slots -> Reads]
      BY SMTT(30), <1>3, <2>1 DEF StartRefresh, TypeOK, Reads
    <3> QED BY <1>3, <2>1, <3>1 DEF StartRefresh, TypeOK, envVars, indexVars
  <2>2. CASE f \notin Scope
    <3>1. Forget({f}) /\ UNCHANGED refresh
      BY <1>3, <2>2 DEF StartRefresh
    <3> QED BY <1>3, <3>1, ForgetTypes DEF StartRefresh, TypeOK, envVars
  <2> QED BY <2>1, <2>2
<1>4. CASE ForgetFilesUnder
  <2>1. PICK S : Forget(S)
    BY <1>4 DEF ForgetFilesUnder
  <2> QED BY <1>4, <2>1, ForgetTypes DEF ForgetFilesUnder, TypeOK, envVars
<1>5. ASSUME NEW s \in Slots, RefreshReads(s) PROVE TypeOK'
  <2>1. disk[refresh[s].file] \in DiskText
    BY <1>5 DEF RefreshReads, TypeOK, Reads
  <2>2. refresh' = [refresh EXCEPT ![s] =
          [file |-> refresh[s].file, text |-> disk[refresh[s].file]]]
    <3>1. refresh[s] \in Reads
      BY DEF TypeOK
    <3>2. [refresh[s] EXCEPT !.text = disk[refresh[s].file]]
            = [file |-> refresh[s].file, text |-> disk[refresh[s].file]]
      BY <3>1 DEF Reads
    <3>3. refresh' = [refresh EXCEPT ![s] =
            [refresh[s] EXCEPT !.text = disk[refresh[s].file]]]
      BY <1>5 DEF RefreshReads
    <3> QED BY <3>2, <3>3
  <2>3. refresh' \in [Slots -> Reads]
    BY <2>1, <2>2 DEF TypeOK, Reads
  <2> QED BY <1>5, <2>3 DEF RefreshReads, TypeOK, envVars, indexVars
<1>6. ASSUME NEW s \in Slots, RefreshApplies(s) PROVE TypeOK'
  <2> DEFINE f == refresh[s].file
             t == refresh[s].text
  <2>1. f \in Files \cup {Nobody} /\ t \in DiskText
    BY <1>6 DEF RefreshApplies, TypeOK, Reads
  <2>2. refresh' \in [Slots -> Reads] /\ memo' \in [Files -> DiskText]
    BY <1>6, <2>1, EmptyValues DEF RefreshApplies, TypeOK
  <2>3. CASE t = Absent
    BY <1>6, <2>2, <2>3, EmptyValues DEF RefreshApplies, TypeOK, envVars
  <2>4. CASE t # Absent
    <3>1. t \in Texts
      BY <2>1, <2>4 DEF DiskText
    <3>2. entries' = Replaced(f, t) /\ ExtractSelectors(f, t)
      BY <1>6, <2>4 DEF RefreshApplies
    <3> HIDE DEF f, t
    <3>3. /\ entries' \in [Files -> [Texts -> Nat]]
          /\ selector' \in [file : Files \cup {Nobody}, text : DiskText]
      BY <2>1, <3>1, <3>2, ReplacedTypes, ExtractTypes
    <3> QED BY <1>6, <2>2, <3>3 DEF RefreshApplies, TypeOK, envVars
  <2> QED BY <2>3, <2>4
<1>7. ASSUME NEW f \in Files, CorpusReads(f) PROVE TypeOK'
  BY <1>7 DEF CorpusReads, TypeOK, Reads, envVars, indexVars
<1>8. CASE CitationsFor
  <2>1. corpus.text \in DiskText
    BY <1>8 DEF CitationsFor, TypeOK, Reads, ReadsComplete
  <2>2. memo' \in [Files -> DiskText]
    BY <1>8, <2>1 DEF CitationsFor, TypeOK
  <2> QED BY <1>8, <2>2, EmptyValues DEF CitationsFor, TypeOK, envVars
<1>9. CASE ScanLists \/ ScanEnds
  <2>1. scan' \in [phase : {"config", "walk", "done"}, todo : SUBSET Files, read : Reads]
    <3>1. {f \in Scope : disk[f] # Absent} \in SUBSET Files
      BY IndexConstants
    <3> QED BY <1>9, <3>1 DEF ScanLists, ScanEnds, TypeOK
  <2> QED BY <1>9, <2>1 DEF ScanLists, ScanEnds, TypeOK, envVars, indexVars
<1>10. ASSUME NEW f \in Files, ScanReads(f) PROVE TypeOK'
  <2>1. [file |-> f, text |-> disk[f]] \in Reads
    BY DEF TypeOK, Reads
  <2>2. scan' \in [phase : {"config", "walk", "done"}, todo : SUBSET Files, read : Reads]
    BY <1>10, <2>1 DEF ScanReads, TypeOK
  <2> QED BY <1>10, <2>2 DEF ScanReads, TypeOK, envVars, indexVars
<1>11. CASE ScanAdds
  <2> DEFINE f == scan.read.file
             t == scan.read.text
  <2>1. f \in Files \cup {Nobody} /\ t \in DiskText
    BY <1>11 DEF ScanAdds, TypeOK, Reads, ReadsComplete
  <2>2. scan' \in [phase : {"config", "walk", "done"}, todo : SUBSET Files, read : Reads]
    BY <1>11, EmptyValues DEF ScanAdds, TypeOK
  <2>3. CASE t = Absent
    BY <1>11, <2>2, <2>3 DEF ScanAdds, TypeOK, envVars, indexVars
  <2>4. CASE t # Absent
    <3>1. t \in Texts
      BY <2>1, <2>4 DEF DiskText
    <3>2. /\ entries' = [entries EXCEPT ![f] = [entries[f] EXCEPT ![t] = entries[f][t] + 1]]
          /\ memo' = [memo EXCEPT ![f] = t]
          /\ ExtractSelectors(f, t)
      BY <1>11, <2>4 DEF ScanAdds
    <3> HIDE DEF f, t
    <3>3. entries' \in [Files -> [Texts -> Nat]]
      <4>1. CASE f \in Files
        <5>1. entries[f] \in [Texts -> Nat]
          BY <4>1 DEF TypeOK
        <5>2. [entries[f] EXCEPT ![t] = entries[f][t] + 1] \in [Texts -> Nat]
          BY <3>1, <5>1
        <5> QED BY <3>2, <5>2 DEF TypeOK
      <4>2. CASE f \notin Files
        BY <3>2, <4>2 DEF TypeOK
      <4> QED BY <4>1, <4>2
    <3>4. /\ memo' \in [Files -> DiskText]
          /\ selector' \in [file : Files \cup {Nobody}, text : DiskText]
      BY <2>1, <3>1, <3>2, ExtractTypes DEF TypeOK
    <3> QED BY <1>11, <2>2, <3>3, <3>4 DEF ScanAdds, TypeOK, envVars
  <2> QED BY <2>3, <2>4
<1>12. CASE UNCHANGED vars
  BY <1>12 DEF vars, TypeOK
<1> QED BY <1>1, <1>2, <1>3, <1>4, <1>5, <1>6, <1>7, <1>8, <1>9, <1>10, <1>11, <1>12
        DEF Next, Announce, ServerStep

(* Reads that are awaited in one step stay complete.                       *)
LEMMA StepReadsComplete == TypeOK /\ ReadsComplete /\ [Next]_vars => ReadsComplete'
<1> SUFFICES ASSUME TypeOK, ReadsComplete, [Next]_vars PROVE ReadsComplete'
  OBVIOUS
<1> USE DEF ReadsComplete
<1>1. CASE UNCHANGED <<scan, corpus>>
  BY <1>1
<1>2. Environment \/ Announce \/ UNCHANGED vars => UNCHANGED <<scan, corpus>>
  BY DEF Environment, TypeIn, EditorWrites, DiskChanges, FolderDeleted, Edit,
     Announce, DidSave, StartRefresh, ForgetFilesUnder, vars
<1>3. (\E s \in Slots : RefreshReads(s) \/ RefreshApplies(s)) => UNCHANGED <<scan, corpus>>
  BY DEF RefreshReads, RefreshApplies
<1>4. \A f \in Files : disk[f] # NotRead
  BY IndexConstants DEF TypeOK, DiskText
<1>5. ASSUME NEW f \in Files, CorpusReads(f) PROVE ReadsComplete'
  BY <1>4, <1>5 DEF CorpusReads
<1>6. CASE CitationsFor
  BY <1>6 DEF CitationsFor
<1>7. CASE ScanLists \/ ScanEnds
  <2>1. scan'.read = scan.read /\ UNCHANGED corpus
    BY <1>7 DEF ScanLists, ScanEnds, TypeOK
  <2> QED BY <2>1
<1>8. ASSUME NEW f \in Files, ScanReads(f) PROVE ReadsComplete'
  <2>1. scan'.read = [file |-> f, text |-> disk[f]] /\ UNCHANGED corpus
    BY <1>8 DEF ScanReads, TypeOK
  <2> QED BY <1>4, <2>1
<1>9. CASE ScanAdds
  <2>1. scan'.read = Free /\ UNCHANGED corpus
    BY <1>9 DEF ScanAdds, TypeOK
  <2> QED BY <2>1
<1> QED BY <1>1, <1>2, <1>3, <1>5, <1>6, <1>7, <1>8, <1>9 DEF Next, ServerStep

(* The index, the reads in flight and what the editor and the disk hold    *)
(* keep their types.                                                       *)
THEOREM IndexTypeCorrect == Spec => []TypeOK
<1>1. Init => TypeOK /\ ReadsComplete
  BY InitTypes DEF Init, ReadsComplete
<1> QED BY <1>1, StepTypes, StepReadsComplete, PTL DEF Spec

-----------------------------------------------------------------------------
(* Scope.                                                                  *)

(* What a handler does to a file in scope leaves the others alone.         *)
LEMMA ReplacedElsewhere ==
  ASSUME TypeOK, NEW f, NEW t, NEW g \in Files, g # f
  PROVE  Replaced(f, t)[g] = entries[g]
BY DEF Replaced, TypeOK

(* Forgetting adds nothing.                                                *)
LEMMA ForgetKeepsScope ==
  ASSUME TypeOK, IndexStaysInScope, NEW S, Forget(S)
  PROVE  IndexStaysInScope'
<1>1. ASSUME NEW f \in Files \ Scope PROVE Copies(f)' = {} /\ selector'.file # f
  <2>1. entries'[f] = NoEntries \/ entries'[f] = entries[f]
    BY DEF Forget
  <2>2. Copies(f)' = {}
    BY <2>1 DEF Copies, NoEntries, IndexStaysInScope
  <2>3. selector' = NoSelector \/ selector' = selector
    BY DEF Forget
  <2>4. selector'.file # f
    BY <2>3, IndexConstants DEF NoSelector, IndexStaysInScope
  <2> QED BY <2>2, <2>4
<1> QED BY <1>1 DEF IndexStaysInScope

(* Changing the entries of a file in scope, or of no file, and extracting  *)
(* its selectors, keeps the index in scope.                                *)
LEMMA ChangeInScope ==
  ASSUME TypeOK, IndexStaysInScope, NEW f \in Scope \cup {Nobody}, NEW t,
         \A g \in Files : g # f => entries'[g] = entries[g],
         UNCHANGED selector \/ ExtractSelectors(f, t)
  PROVE  IndexStaysInScope'
<1>1. ASSUME NEW g \in Files \ Scope PROVE Copies(g)' = {} /\ selector'.file # g
  <2>1. g # f
    BY IndexConstants
  <2>2. Copies(g)' = {}
    BY <2>1 DEF Copies, IndexStaysInScope
  <2>3. selector'.file = f \/ selector' = selector
    BY DEF ExtractSelectors
  <2> QED BY <2>1, <2>2, <2>3 DEF IndexStaysInScope
<1> QED BY <1>1 DEF IndexStaysInScope

(* Steps that leave the index alone.                                       *)
LEMMA IndexStandsStill ==
  ASSUME IndexStaysInScope, UNCHANGED <<entries, selector>>
  PROVE  IndexStaysInScope'
BY DEF IndexStaysInScope, Copies

(* One step keeps the index, and the reads in flight, in scope.            *)
LEMMA StepScope == TypeOK /\ InScope /\ [Next]_vars => InScope'
<1> SUFFICES ASSUME TypeOK, InScope, [Next]_vars PROVE InScope'
  OBVIOUS
<1> USE DEF InScope
<1>1. CASE UNCHANGED <<entries, selector, scan, refresh>>
  BY <1>1, IndexStandsStill DEF ReadsStayInScope
<1>2. Environment \/ CitationsFor \/ (\E f \in Files : CorpusReads(f)) \/ UNCHANGED vars
        => UNCHANGED <<entries, selector, scan, refresh>>
  BY DEF Environment, TypeIn, EditorWrites, DiskChanges, FolderDeleted, Edit,
     CitationsFor, CorpusReads, indexVars, vars
<1>3. ASSUME NEW f \in Files, DidSave(f) PROVE InScope'
  <2>1. CASE f \in Scope
    <3>1. entries' = Replaced(f, buffer[f]) /\ UNCHANGED <<selector, scan, refresh>>
      BY <1>3, <2>1 DEF DidSave
    <3>2. \A g \in Files : g # f => entries'[g] = entries[g]
      BY <3>1, ReplacedElsewhere
    <3> QED BY <2>1, <3>1, <3>2, ChangeInScope DEF ReadsStayInScope
  <2>2. CASE f \notin Scope
    <3>1. Forget({f}) /\ UNCHANGED <<scan, refresh>>
      BY <1>3, <2>2 DEF DidSave
    <3> QED BY <3>1, ForgetKeepsScope DEF ReadsStayInScope
  <2> QED BY <2>1, <2>2
<1>4. ASSUME NEW f \in Files, NEW s \in Slots, StartRefresh(f, s) PROVE InScope'
  <2>1. CASE f \in Scope
    <3>1. /\ refresh' = [refresh EXCEPT ![s] = [file |-> f, text |-> NotRead]]
          /\ UNCHANGED <<entries, selector, scan>>
      BY <1>4, <2>1 DEF StartRefresh, indexVars
    <3>2. \A r \in Slots : refresh'[r].file \in Scope \cup {Nobody}
      BY <2>1, <3>1 DEF ReadsStayInScope, TypeOK
    <3> QED BY <3>1, <3>2, IndexStandsStill DEF ReadsStayInScope
  <2>2. CASE f \notin Scope
    <3>1. Forget({f}) /\ UNCHANGED <<scan, refresh>>
      BY <1>4, <2>2 DEF StartRefresh
    <3> QED BY <3>1, ForgetKeepsScope DEF ReadsStayInScope
  <2> QED BY <2>1, <2>2
<1>5. CASE ForgetFilesUnder
  <2>1. /\ Forget({f \in Folder : Copies(f) # {} \/ memo[f] # Absent})
        /\ UNCHANGED <<scan, refresh>>
    BY <1>5 DEF ForgetFilesUnder
  <2> QED BY <2>1, ForgetKeepsScope DEF ReadsStayInScope
<1>6. ASSUME NEW s \in Slots, RefreshReads(s) PROVE InScope'
  <2>1. /\ refresh' = [refresh EXCEPT ![s] =
             [refresh[s] EXCEPT !.text = disk[refresh[s].file]]]
        /\ UNCHANGED <<entries, selector, scan>>
    BY <1>6 DEF RefreshReads, indexVars
  <2>2. [refresh[s] EXCEPT !.text = disk[refresh[s].file]].file = refresh[s].file
    BY DEF TypeOK, Reads
  <2>3. \A r \in Slots : refresh'[r].file = refresh[r].file
    BY <2>1, <2>2 DEF TypeOK
  <2> QED BY <2>1, <2>3, IndexStandsStill DEF ReadsStayInScope
<1>7. ASSUME NEW s \in Slots, RefreshApplies(s) PROVE InScope'
  <2> DEFINE f == refresh[s].file
             t == refresh[s].text
  <2>1. f \in Scope \cup {Nobody}
    BY DEF ReadsStayInScope
  <2>2. \/ entries' = [entries EXCEPT ![f] = NoEntries] /\ UNCHANGED selector
        \/ entries' = Replaced(f, t) /\ ExtractSelectors(f, t)
    BY <1>7 DEF RefreshApplies
  <2>3. \A g \in Files : g # f => entries'[g] = entries[g]
    BY <2>2, ReplacedElsewhere DEF TypeOK
  <2>4. IndexStaysInScope'
    <3> HIDE DEF f, t
    <3> QED BY <2>1, <2>2, <2>3, ChangeInScope
  <2>5. refresh' = [refresh EXCEPT ![s] = Free] /\ UNCHANGED scan
    BY <1>7 DEF RefreshApplies
  <2>6. \A r \in Slots : refresh'[r].file \in Scope \cup {Nobody}
    BY <2>5 DEF ReadsStayInScope, TypeOK, Free
  <2> QED BY <2>4, <2>5, <2>6 DEF ReadsStayInScope
<1>8. CASE ScanLists
  <2>1. /\ scan'.todo \subseteq Scope /\ scan'.read = scan.read
        /\ UNCHANGED <<entries, selector, refresh>>
    BY <1>8 DEF ScanLists, TypeOK, indexVars
  <2> QED BY <2>1, IndexStandsStill DEF ReadsStayInScope
<1>9. CASE ScanEnds
  <2>1. /\ scan'.todo = scan.todo /\ scan'.read = scan.read
        /\ UNCHANGED <<entries, selector, refresh>>
    BY <1>9 DEF ScanEnds, TypeOK, indexVars
  <2> QED BY <2>1, IndexStandsStill DEF ReadsStayInScope
<1>10. ASSUME NEW f \in Files, ScanReads(f) PROVE InScope'
  <2>1. /\ scan'.todo \subseteq scan.todo /\ scan'.read.file = f /\ f \in scan.todo
        /\ UNCHANGED <<entries, selector, refresh>>
    BY <1>10 DEF ScanReads, TypeOK, indexVars
  <2> QED BY <2>1, IndexStandsStill DEF ReadsStayInScope
<1>11. CASE ScanAdds
  <2> DEFINE f == scan.read.file
             t == scan.read.text
  <2>1. f \in Scope \cup {Nobody}
    BY DEF ReadsStayInScope
  <2>2. \/ UNCHANGED <<entries, selector>>
        \/ entries' = [entries EXCEPT ![f][t] = @ + 1] /\ ExtractSelectors(f, t)
    BY <1>11 DEF ScanAdds, indexVars
  <2>3. \A g \in Files : g # f => entries'[g] = entries[g]
    BY <2>2 DEF TypeOK
  <2>4. IndexStaysInScope'
    <3> HIDE DEF f, t
    <3> QED BY <2>1, <2>2, <2>3, ChangeInScope
  <2>5. scan'.todo = scan.todo /\ scan'.read = Free /\ UNCHANGED refresh
    BY <1>11 DEF ScanAdds, TypeOK
  <2> QED BY <2>4, <2>5 DEF ReadsStayInScope, Free
<1> QED BY <1>1, <1>2, <1>3, <1>4, <1>5, <1>6, <1>7, <1>8, <1>9, <1>10, <1>11
        DEF Next, Announce, ServerStep

(* No annotation, frame or selector of a file the workspace walk would     *)
(* skip enters the index, by the scan, a save or an event.                 *)
THEOREM IndexKeepsScope == Spec => []IndexStaysInScope
<1>1. Init => InScope
  BY IndexConstants DEF Init, InScope, ReadsStayInScope, IndexStaysInScope, Copies,
     NoEntries, NoSelector, Free
<1>2. InScope => IndexStaysInScope
  BY DEF InScope
<1>3. Init => TypeOK /\ ReadsComplete
  BY InitTypes DEF Init, ReadsComplete
<1> QED BY <1>1, <1>2, <1>3, StepTypes, StepReadsComplete, StepScope, PTL DEF Spec

-----------------------------------------------------------------------------
(* Copies.                                                                 *)

(* A scan leaves its walk with no read in hand.                            *)
LEMMA StepWalk == TypeOK /\ OnlyWalksRead /\ [Next]_vars => OnlyWalksRead'
<1> SUFFICES ASSUME TypeOK, OnlyWalksRead, [Next]_vars PROVE OnlyWalksRead'
  OBVIOUS
<1> USE DEF OnlyWalksRead
<1>1. CASE UNCHANGED scan
  BY <1>1
<1>2. Environment \/ Announce \/ UNCHANGED vars => UNCHANGED scan
  BY DEF Environment, TypeIn, EditorWrites, DiskChanges, FolderDeleted, Edit,
     Announce, DidSave, StartRefresh, ForgetFilesUnder, vars
<1>3. (\E s \in Slots : RefreshReads(s) \/ RefreshApplies(s)) \/ CitationsFor
        \/ (\E f \in Files : CorpusReads(f)) => UNCHANGED scan
  BY DEF RefreshReads, RefreshApplies, CitationsFor, CorpusReads
<1>4. ScanLists \/ ScanEnds \/ ScanAdds \/ (\E f \in Files : ScanReads(f)) => OnlyWalksRead'
  BY DEF ScanLists, ScanEnds, ScanAdds, ScanReads, TypeOK
<1> QED BY <1>1, <1>2, <1>3, <1>4 DEF Next, ServerStep

(* A step that does not add to what is there makes no second copy.         *)
LEMMA StepCopies ==
  ASSUME TypeOK, OnlyWalksRead, [Next]_vars, scan.phase = "done",
         NEW g \in Files, NEW u \in Texts, entries'[g][u] > 1
  PROVE  entries'[g][u] <= entries[g][u]
<1>1. entries[g][u] \in Nat
  BY DEF TypeOK
<1>2. CASE UNCHANGED entries
  BY <1>1, <1>2
<1>3. NoEntries[u] = 0
  BY DEF NoEntries
<1>4. ASSUME NEW f, NEW t, entries' = Replaced(f, t)
      PROVE  entries'[g] = entries[g] \/ entries'[g][u] \in {0, 1}
  BY <1>3, <1>4 DEF Replaced, TypeOK, NoEntries
<1>5. ASSUME NEW S, Forget(S) PROVE entries'[g] = entries[g] \/ entries'[g][u] = 0
  BY <1>3, <1>5 DEF Forget
<1>6. Announce => entries'[g] = entries[g] \/ entries'[g][u] \in {0, 1}
  BY <1>4, <1>5 DEF Announce, DidSave, StartRefresh, ForgetFilesUnder, indexVars
<1>7. ASSUME NEW s \in Slots, RefreshApplies(s)
      PROVE  entries'[g] = entries[g] \/ entries'[g][u] \in {0, 1}
  BY <1>3, <1>4, <1>7 DEF RefreshApplies, TypeOK
<1>8. ~ScanAdds
  BY DEF ScanAdds, OnlyWalksRead
<1>9. Environment \/ (\E s \in Slots : RefreshReads(s)) \/ CitationsFor
        \/ (\E f \in Files : CorpusReads(f)) \/ ScanLists \/ ScanEnds
        \/ (\E f \in Files : ScanReads(f)) \/ UNCHANGED vars => UNCHANGED entries
  BY DEF Environment, TypeIn, EditorWrites, DiskChanges, FolderDeleted, Edit,
     RefreshReads, CitationsFor, CorpusReads, ScanLists, ScanEnds, ScanReads,
     indexVars, vars
<1> QED BY <1>1, <1>2, <1>6, <1>7, <1>8, <1>9 DEF Next, ServerStep

(* Once the scan is over, no step leaves a file with more copies of its    *)
(* entries than it had, unless it is the first.                            *)
THEOREM CopiesNeverGrow == Spec => NoCopiesAfterScan
<1>1. Init => TypeOK /\ ReadsComplete /\ OnlyWalksRead
  BY InitTypes DEF Init, ReadsComplete, OnlyWalksRead
<1>2. TypeOK /\ OnlyWalksRead /\ [Next]_vars
        => [scan.phase = "done" =>
              \A f \in Files, t \in Texts :
                entries'[f][t] > 1 => entries'[f][t] <= entries[f][t]]_vars
  BY StepCopies
<1> QED BY <1>1, <1>2, StepTypes, StepReadsComplete, StepWalk, PTL
        DEF Spec, NoCopiesAfterScan

-----------------------------------------------------------------------------
(* Calm deliveries.                                                        *)

(* Something announced will have the file read again, or forgotten.        *)
Pending(f) == f \in watched \/ (folderGone /\ f \in Folder)

EntriesOf(t) == IF t = Absent THEN NoEntries ELSE [NoEntries EXCEPT ![t] = 1]

Right(f) == entries[f] = EntriesOf(disk[f])

(* Until the scan adds a file it has no entries; from then on they are     *)
(* those of the disk, or a delivery or a refresh in flight will see to it. *)
Accounted(f) ==
  /\ scan.phase = "config" => entries[f] = NoEntries
  /\ scan.phase = "walk" =>
       IF f \in scan.todo \/ scan.read.file = f
       THEN entries[f] = NoEntries
       ELSE Right(f) \/ Pending(f)
  /\ scan.phase = "walk" /\ scan.read.file = f =>
       f \notin scan.todo /\ (scan.read.text = disk[f] \/ Pending(f))
  /\ scan.phase = "done" =>
       Right(f) \/ Pending(f) \/ \E s \in Slots : refresh[s].file = f
  /\ \A s \in Slots : refresh[s].file = f =>
       refresh[s].text \in {NotRead, disk[f]} \/ Pending(f)

CalmInv ==
  /\ saving \subseteq watched
  /\ folderGone => \A f \in Folder : disk[f] = Absent \/ f \in watched
  /\ scan.phase # "done" => \A s \in Slots : refresh[s] = Free
  /\ \A f \in Scope : Accounted(f)

CalmNext == Environment \/ CalmAnnounce \/ ServerStep

LEMMA CalmStepsAreSteps == [CalmNext]_vars => [Next]_vars
BY DEF CalmNext, CalmAnnounce, Announce, Next

(* The disk only changes with an announcement. *)
LEMMA EnvironmentAnnounces ==
  ASSUME TypeOK, CalmInv, Environment
  PROVE  /\ saving' \subseteq watched'
         /\ folderGone' => \A f \in Folder : disk'[f] = Absent \/ f \in watched'
         /\ \A f \in Files : Pending(f) => Pending(f)'
         /\ \A f \in Files : disk'[f] = disk[f] \/ Pending(f)'
         /\ UNCHANGED <<entries, scan, refresh>>
<1>1. Edit => UNCHANGED <<entries, scan, refresh>>
  BY DEF Edit, indexVars
<1>2. Edit
  BY DEF Environment, TypeIn, EditorWrites, DiskChanges, FolderDeleted
<1>3. Folder \subseteq Files
  BY IndexConstants
<1>4. ASSUME NEW f \in Files, NEW t \in Texts, TypeIn(f, t)
      PROVE  UNCHANGED <<disk, saving, watched, folderGone>>
  BY <1>4 DEF TypeIn
<1>5. ASSUME NEW g \in Files, NEW t,
             disk' = [disk EXCEPT ![g] = t], watched' = watched \cup {g}, UNCHANGED folderGone,
             saving' \subseteq saving \cup {g}
      PROVE  /\ saving' \subseteq watched'
             /\ folderGone' => \A f \in Folder : disk'[f] = Absent \/ f \in watched'
             /\ \A f \in Files : Pending(f) => Pending(f)'
             /\ \A f \in Files : disk'[f] = disk[f] \/ Pending(f)'
  BY <1>3, <1>5 DEF TypeOK, CalmInv, Pending
<1>6. ASSUME NEW f \in Files, EditorWrites(f)
      PROVE  /\ disk' = [disk EXCEPT ![f] = buffer[f]] /\ watched' = watched \cup {f}
             /\ UNCHANGED folderGone /\ saving' \subseteq saving \cup {f}
  BY <1>6 DEF EditorWrites
<1>7. ASSUME NEW f \in Files, NEW t \in DiskText, DiskChanges(f, t)
      PROVE  /\ disk' = [disk EXCEPT ![f] = t] /\ watched' = watched \cup {f}
             /\ UNCHANGED folderGone /\ saving' \subseteq saving \cup {f}
  BY <1>7 DEF DiskChanges
<1>8. CASE FolderDeleted
  <2>1. /\ disk' = [f \in Files |-> IF f \in Folder THEN Absent ELSE disk[f]]
        /\ folderGone' = TRUE /\ UNCHANGED <<saving, watched>>
    BY <1>8 DEF FolderDeleted
  <2> QED BY <1>1, <1>2, <1>3, <2>1 DEF CalmInv, Pending
<1>9. CASE UNCHANGED <<disk, saving, watched, folderGone>>
  BY <1>1, <1>2, <1>9 DEF CalmInv, Pending
<1> QED BY <1>1, <1>2, <1>4, <1>5, <1>6, <1>7, <1>8, <1>9 DEF Environment

(* What is announced later leaves a file accounted for. *)
LEMMA AccountedWhileNothingMoves ==
  ASSUME NEW f \in Scope, Accounted(f), UNCHANGED <<entries, scan, refresh>>,
         Pending(f) => Pending(f)', disk'[f] = disk[f] \/ Pending(f)'
  PROVE  Accounted(f)'
BY DEF Accounted, Right, EntriesOf, NoEntries

LEMMA StepCalm ==
  TypeOK /\ ReadsComplete /\ OnlyWalksRead /\ CalmInv /\ [CalmNext]_vars => CalmInv'
<1> SUFFICES ASSUME TypeOK, ReadsComplete, OnlyWalksRead, CalmInv, [CalmNext]_vars
             PROVE  CalmInv'
  OBVIOUS
<1>a. Scope \subseteq Files /\ Nobody \notin Scope /\ Folder \subseteq Files
  BY IndexConstants
<1>b. \A f \in Scope : Accounted(f)
  BY DEF CalmInv
<1>c. ASSUME UNCHANGED <<saving, watched, folderGone, disk>>,
             scan'.phase # "done" => \A s \in Slots : refresh'[s] = Free,
             \A f \in Scope : Accounted(f)'
      PROVE  CalmInv'
  BY <1>c DEF CalmInv
<1>d. ASSUME UNCHANGED <<watched, folderGone>>
      PROVE  \A f \in Scope : Pending(f)' <=> Pending(f)
  BY <1>d DEF Pending
<1>1. CASE Environment
  <2>1. /\ saving' \subseteq watched'
        /\ folderGone' => \A f \in Folder : disk'[f] = Absent \/ f \in watched'
        /\ \A f \in Files : Pending(f) => Pending(f)'
        /\ \A f \in Files : disk'[f] = disk[f] \/ Pending(f)'
        /\ UNCHANGED <<entries, scan, refresh>>
    BY <1>1, EnvironmentAnnounces
  <2>2. \A f \in Scope : Accounted(f)'
    BY <1>a, <1>b, <2>1, AccountedWhileNothingMoves
  <2> QED BY <2>1, <2>2 DEF CalmInv
<1>2. ASSUME NEW g \in Files, DidSave(g), Settled PROVE CalmInv'
  <2>1. /\ g \in saving /\ g \in watched /\ saving' = saving \ {g}
        /\ UNCHANGED <<disk, watched, folderGone, scan, refresh>>
    BY <1>2 DEF DidSave, CalmInv, envVars
  <2>2. \A f \in Scope : f # g => entries'[f] = entries[f]
    BY <1>2, <1>a DEF DidSave, Replaced, Forget, TypeOK
  <2>3. \A f \in Scope : Pending(f)' <=> Pending(f)
    BY <2>1 DEF Pending
  <2>4. ASSUME NEW f \in Scope PROVE Accounted(f)'
    <3>1. CASE f = g
      <4>1. Pending(f)' /\ scan'.phase = "done"
        BY <1>2, <2>1, <3>1 DEF Pending, Settled
      <4> QED BY <4>1 DEF Accounted
    <3>2. CASE f # g
      BY <1>b, <2>1, <2>2, <2>3, <3>2 DEF Accounted, Right, EntriesOf, NoEntries
    <3> QED BY <3>1, <3>2
  <2> QED BY <2>1, <2>4 DEF CalmInv
<1>3. ASSUME NEW g \in Files \ saving, NEW s \in Slots, g \in Folder => ~folderGone,
             StartRefresh(g, s), Settled
      PROVE  CalmInv'
  <2>1. /\ watched' = watched \ {g} /\ scan.phase = "done"
        /\ UNCHANGED <<disk, saving, folderGone, scan>>
    BY <1>3 DEF StartRefresh, envVars, Settled
  <2>2. \A f \in Scope : entries'[f] = entries[f]
    BY <1>3, <1>a DEF StartRefresh, Forget, indexVars
  <2>3. \A f \in Scope : f # g => (Pending(f)' <=> Pending(f))
    BY <2>1 DEF Pending
  <2>4. /\ \A r \in Slots : refresh[r] = Free
        /\ g \in Scope => refresh' = [refresh EXCEPT ![s] = [file |-> g, text |-> NotRead]]
        /\ g \notin Scope => UNCHANGED refresh
    BY <1>3 DEF StartRefresh, Settled
  <2>5. ASSUME NEW f \in Scope PROVE Accounted(f)'
    <3>1. CASE f = g
      <4>1. /\ refresh'[s].file = f
            /\ \A r \in Slots : refresh'[r].text = NotRead
        BY SMTT(30), <2>4, <3>1 DEF Free, TypeOK
      <4> QED BY <2>1, <4>1 DEF Accounted
    <3>2. CASE f # g
      <4>1. \A r \in Slots : refresh'[r].file # f
        BY SMTT(30), <1>a, <2>4, <3>2 DEF Free, TypeOK
      <4>2. Right(f) \/ Pending(f)
        BY <1>a, <1>b, <2>1, <2>4 DEF Accounted, Free
      <4>3. Right(f)' \/ Pending(f)'
        BY <2>1, <2>2, <2>3, <3>2, <4>2 DEF Right, EntriesOf, NoEntries
      <4> QED BY <2>1, <4>1, <4>3 DEF Accounted
    <3> QED BY <3>1, <3>2
  <2>6. saving' \subseteq watched'
    BY <2>1 DEF CalmInv
  <2>7. folderGone' => \A f \in Folder : disk'[f] = Absent \/ f \in watched'
    BY <1>3, <2>1 DEF CalmInv
  <2> QED BY <2>1, <2>5, <2>6, <2>7 DEF CalmInv
<1>4. CASE ForgetFilesUnder /\ Settled
  <2> DEFINE S == {f \in Folder : Copies(f) # {} \/ memo[f] # Absent}
  <2>1. /\ folderGone /\ ~folderGone' /\ scan.phase = "done" /\ Forget(S)
        /\ UNCHANGED <<disk, saving, watched, scan, refresh>>
    BY <1>4 DEF ForgetFilesUnder, Settled, envVars
  <2>2. \A r \in Slots : refresh[r] = Free
    BY <1>4 DEF Settled
  <2>3. ASSUME NEW f \in Scope PROVE Right(f)' \/ Pending(f)'
    <3>1. Right(f) \/ Pending(f)
      BY <1>a, <1>b, <2>1, <2>2 DEF Accounted, Free
    <3>2. CASE f \in watched
      BY <2>1, <3>2 DEF Pending
    <3>3. CASE f \notin watched /\ f \in Folder
      <4>1. disk'[f] = Absent
        BY <2>1, <3>3 DEF CalmInv
      <4>2. entries'[f] = NoEntries
        <5>1. CASE f \in S
          BY <1>a, <2>1, <5>1 DEF Forget
        <5>2. CASE f \notin S
          <6>1. Copies(f) = {} /\ entries'[f] = entries[f]
            BY <1>a, <2>1, <3>3, <5>2 DEF Forget
          <6>2. entries[f] \in [Texts -> Nat]
            BY <1>a DEF TypeOK
          <6>3. \A t \in Texts : entries[f][t] = 0
            BY <6>1, <6>2 DEF Copies
          <6> QED BY <6>1, <6>2, <6>3 DEF NoEntries
        <5> QED BY <5>1, <5>2
      <4>3. Right(f)' <=> entries'[f] = IF disk'[f] = Absent THEN NoEntries
                                       ELSE [NoEntries EXCEPT ![disk'[f]] = 1]
        BY DEF Right, EntriesOf, NoEntries
      <4> QED BY <4>1, <4>2, <4>3
    <3>4. CASE f \notin watched /\ f \notin Folder
      <4>1. entries'[f] = entries[f]
        BY <1>a, <2>1, <3>4 DEF Forget
      <4>2. Right(f)
        BY <3>1, <3>4 DEF Pending
      <4> QED BY <2>1, <4>1, <4>2 DEF Right, EntriesOf, NoEntries
    <3> QED BY <3>2, <3>3, <3>4
  <2>4. ASSUME NEW f \in Scope PROVE Accounted(f)'
    <3>1. \A r \in Slots : refresh'[r].file # f
      BY <1>a, <2>1, <2>2 DEF Free
    <3> QED BY <2>1, <2>3, <3>1 DEF Accounted
  <2> QED BY <2>1, <2>4 DEF CalmInv
<1>5. ASSUME NEW s \in Slots, RefreshReads(s) PROVE CalmInv'
  <2>1. /\ UNCHANGED <<disk, entries, saving, watched, folderGone, scan>>
        /\ refresh' = [refresh EXCEPT ![s].text = disk[refresh[s].file]]
        /\ refresh[s].file # Nobody
    BY <1>5 DEF RefreshReads, envVars, indexVars
  <2>2. scan.phase = "done"
    BY <2>1 DEF CalmInv, Free
  <2>3. \A r \in Slots : /\ refresh'[r].file = refresh[r].file
                         /\ r # s => refresh'[r].text = refresh[r].text
                         /\ r = s => refresh'[r].text = disk[refresh[r].file]
    <3>1. refresh[s] \in Reads /\ refresh \in [Slots -> Reads]
      BY DEF TypeOK
    <3>2. refresh' = [refresh EXCEPT ![s] =
            [refresh[s] EXCEPT !.text = disk[refresh[s].file]]]
      BY <2>1
    <3>3. [refresh[s] EXCEPT !.text = disk[refresh[s].file]]
            = [file |-> refresh[s].file, text |-> disk[refresh[s].file]]
      BY <3>1 DEF Reads
    <3> QED BY <3>1, <3>2, <3>3
  <2>4. ASSUME NEW f \in Scope PROVE Accounted(f)'
    <3>1. /\ scan'.phase = "done" /\ (Right(f)' <=> Right(f)) /\ (Pending(f)' <=> Pending(f))
      BY <1>d, <2>1, <2>2 DEF Right, EntriesOf, NoEntries
    <3>2. Right(f)' \/ Pending(f)' \/ \E r \in Slots : refresh'[r].file = f
      BY <1>b, <2>2, <2>3, <3>1 DEF Accounted
    <3>3. ASSUME NEW r \in Slots, refresh'[r].file = f
          PROVE  refresh'[r].text \in {NotRead, disk'[f]} \/ Pending(f)'
      <4>1. refresh[r].file = f
        BY <2>3, <3>3
      <4>2. refresh[r].text \in {NotRead, disk[f]} \/ Pending(f)
        BY <1>b, <4>1 DEF Accounted
      <4> QED BY <2>1, <2>3, <3>1, <4>1, <4>2
    <3> QED BY <3>1, <3>2, <3>3 DEF Accounted
  <2> QED BY <1>c, <2>1, <2>2, <2>4
<1>6. ASSUME NEW s \in Slots, RefreshApplies(s) PROVE CalmInv'
  <2> DEFINE g == refresh[s].file
             t == refresh[s].text
  <2>1. /\ UNCHANGED <<disk, saving, watched, folderGone, scan>>
        /\ refresh' = [refresh EXCEPT ![s] = Free] /\ t # NotRead
        /\ entries' = [entries EXCEPT ![g] = EntriesOf(t)]
    BY <1>6 DEF RefreshApplies, envVars, EntriesOf, Replaced
  <2>2. scan.phase = "done"
    BY <2>1 DEF CalmInv, Free
  <2>3. \A r \in Slots : refresh'[r] = IF r = s THEN Free ELSE refresh[r]
    BY <2>1 DEF TypeOK
  <2>4. ASSUME NEW f \in Scope PROVE Accounted(f)'
    <3>1. scan'.phase = "done" /\ (Pending(f)' <=> Pending(f))
      BY <1>d, <2>1, <2>2
    <3>2. Right(f)' \/ Pending(f)' \/ \E r \in Slots : refresh'[r].file = f
      <4>1. CASE f = g
        <5>1. t = disk[f] \/ Pending(f)
          BY <1>b, <2>1, <4>1 DEF Accounted
        <5>2. entries'[f] = EntriesOf(t)
          BY <1>a, <2>1, <4>1 DEF TypeOK
        <5>3. t = disk[f] => Right(f)'
          BY <2>1, <5>2 DEF Right, EntriesOf, NoEntries
        <5> QED BY <3>1, <5>1, <5>3
      <4>2. CASE f # g
        <5>1. entries'[f] = entries[f]
          BY <1>a, <2>1, <4>2 DEF TypeOK
        <5>2. Right(f) => Right(f)'
          BY <2>1, <5>1 DEF Right, EntriesOf, NoEntries
        <5>3. \A r \in Slots : refresh[r].file = f => r # s
          BY <4>2
        <5> QED BY <1>b, <2>2, <2>3, <3>1, <5>2, <5>3 DEF Accounted
      <4> QED BY <4>1, <4>2
    <3>3. ASSUME NEW r \in Slots, refresh'[r].file = f
          PROVE  refresh'[r].text \in {NotRead, disk'[f]} \/ Pending(f)'
      <4>1. r # s /\ refresh'[r] = refresh[r]
        BY <1>a, <2>3, <3>3 DEF Free
      <4>2. refresh[r].text \in {NotRead, disk[f]} \/ Pending(f)
        BY <1>b, <3>3, <4>1 DEF Accounted
      <4> QED BY <2>1, <3>1, <4>1, <4>2
    <3> QED BY <3>1, <3>2, <3>3 DEF Accounted
  <2> QED BY <1>c, <2>1, <2>2, <2>4
<1>7. CASE (\E f \in Files : CorpusReads(f)) \/ CitationsFor \/ UNCHANGED vars
  <2>1. UNCHANGED <<disk, entries, saving, watched, folderGone, scan, refresh>>
    BY <1>7 DEF CorpusReads, CitationsFor, envVars, indexVars, vars
  <2>2. \A f \in Scope : Accounted(f)'
    BY <1>b, <1>d, <2>1, AccountedWhileNothingMoves
  <2> QED BY <1>c, <2>1, <2>2 DEF CalmInv
<1>8. CASE ScanLists
  <2>1. /\ scan.phase = "config" /\ scan.read = Free
        /\ scan'.phase = "walk" /\ scan'.read = scan.read
        /\ scan'.todo = {f \in Scope : disk[f] # Absent}
        /\ UNCHANGED <<disk, entries, saving, watched, folderGone, refresh>>
    BY <1>8 DEF ScanLists, OnlyWalksRead, TypeOK, envVars, indexVars
  <2>2. \A r \in Slots : refresh[r] = Free
    BY <2>1 DEF CalmInv
  <2>3. ASSUME NEW f \in Scope PROVE Accounted(f)'
    <3>1. entries'[f] = NoEntries
      BY <1>b, <2>1 DEF Accounted
    <3>2. scan'.read.file # f /\ \A r \in Slots : refresh'[r].file # f
      BY <1>a, <2>1, <2>2 DEF Free
    <3>3. f \notin scan'.todo => disk'[f] = Absent
      BY <2>1
    <3>4. Right(f)' <=> entries'[f] = IF disk'[f] = Absent THEN NoEntries
                                     ELSE [NoEntries EXCEPT ![disk'[f]] = 1]
      BY DEF Right, EntriesOf, NoEntries
    <3>5. NoEntries' = NoEntries
      BY DEF NoEntries
    <3> QED BY <2>1, <3>1, <3>2, <3>3, <3>4, <3>5 DEF Accounted
  <2> QED BY <1>c, <2>1, <2>2, <2>3
<1>9. ASSUME NEW g \in Files, ScanReads(g) PROVE CalmInv'
  <2>1. /\ scan.phase = "walk" /\ scan.read = Free /\ g \in scan.todo
        /\ scan'.phase = "walk" /\ scan'.todo = scan.todo \ {g}
        /\ scan'.read = [file |-> g, text |-> disk[g]]
        /\ UNCHANGED <<disk, entries, saving, watched, folderGone, refresh>>
    BY <1>9 DEF ScanReads, TypeOK, envVars, indexVars
  <2>2. \A r \in Slots : refresh[r] = Free
    BY <2>1 DEF CalmInv
  <2>3. ASSUME NEW f \in Scope PROVE Accounted(f)'
    <3>1. (Right(f)' <=> Right(f)) /\ (Pending(f)' <=> Pending(f)) /\ NoEntries' = NoEntries
      BY <1>d, <2>1 DEF Right, EntriesOf, NoEntries
    <3>2. scan.read.file # f /\ \A r \in Slots : refresh'[r].file # f
      BY <1>a, <2>1, <2>2 DEF Free
    <3>3. IF f \in scan.todo THEN entries[f] = NoEntries ELSE Right(f) \/ Pending(f)
      BY <1>b, <2>1, <3>2 DEF Accounted
    <3>4. scan'.read.file = g /\ scan'.read.text = disk[g]
      BY <2>1
    <3> QED BY <2>1, <3>1, <3>2, <3>3, <3>4 DEF Accounted
  <2> QED BY <1>c, <2>1, <2>2, <2>3
<1>10. CASE ScanAdds
  <2> DEFINE g == scan.read.file
             t == scan.read.text
  <2>1. /\ scan.read # Free /\ scan.phase = "walk"
        /\ scan'.phase = "walk" /\ scan'.todo = scan.todo /\ scan'.read = Free
        /\ UNCHANGED <<disk, saving, watched, folderGone, refresh>>
    BY <1>10 DEF ScanAdds, OnlyWalksRead, TypeOK, envVars
  <2>2. \A r \in Slots : refresh[r] = Free
    BY <2>1 DEF CalmInv
  <2>3. /\ t = Absent => entries' = entries
        /\ t # Absent => entries' = [entries EXCEPT ![g] = [entries[g] EXCEPT ![t] = @ + 1]]
    BY <1>10 DEF ScanAdds, indexVars
  <2>4. ASSUME NEW f \in Scope PROVE Accounted(f)'
    <3>1. (Pending(f)' <=> Pending(f)) /\ NoEntries' = NoEntries
      BY <1>d, <2>1 DEF NoEntries
    <3>2. scan'.read.file # f /\ \A r \in Slots : refresh'[r].file # f
      BY <1>a, <2>1, <2>2 DEF Free
    <3>3. CASE f = g
      <4>1. f \notin scan.todo /\ entries[f] = NoEntries /\ (t = disk[f] \/ Pending(f))
        BY <1>b, <2>1, <3>3 DEF Accounted
      <4>2. t \in DiskText
        BY <2>1 DEF ReadsComplete, TypeOK, Reads
      <4>3. entries'[f] = EntriesOf(t)
        <5>1. CASE t = Absent
          BY <2>3, <4>1, <5>1 DEF EntriesOf
        <5>2. CASE t # Absent
          <6>1. t \in Texts
            BY <4>2, <5>2 DEF DiskText
          <6>2. entries'[f] = [entries[f] EXCEPT ![t] = @ + 1]
            BY <1>a, <2>3, <3>3, <5>2 DEF TypeOK
          <6>3. NoEntries[t] + 1 = 1
            BY <6>1 DEF NoEntries
          <6> QED BY <4>1, <5>2, <6>2, <6>3 DEF EntriesOf
        <5> QED BY <5>1, <5>2
      <4>4. t = disk[f] => Right(f)'
        BY <2>1, <4>3 DEF Right, EntriesOf, NoEntries
      <4> QED BY <2>1, <3>1, <3>2, <4>1, <4>4 DEF Accounted
    <3>4. CASE f # g
      <4>1. entries'[f] = entries[f]
        BY <1>a, <2>3, <3>4 DEF TypeOK
      <4>2. IF f \in scan.todo THEN entries[f] = NoEntries ELSE Right(f) \/ Pending(f)
        BY <1>b, <2>1, <3>4 DEF Accounted
      <4>3. Right(f)' <=> Right(f)
        BY <2>1, <4>1 DEF Right, EntriesOf, NoEntries
      <4> QED BY <2>1, <3>1, <3>2, <4>1, <4>2, <4>3 DEF Accounted
    <3> QED BY <3>3, <3>4
  <2> QED BY <1>c, <2>1, <2>2, <2>4
<1>11. CASE ScanEnds
  <2>1. /\ scan.phase = "walk" /\ scan.todo = {} /\ scan.read = Free
        /\ scan'.phase = "done" /\ scan'.todo = scan.todo /\ scan'.read = Free
        /\ UNCHANGED <<disk, entries, saving, watched, folderGone, refresh>>
    BY <1>11 DEF ScanEnds, TypeOK, envVars, indexVars
  <2>2. \A r \in Slots : refresh[r] = Free
    BY <2>1 DEF CalmInv
  <2>3. ASSUME NEW f \in Scope PROVE Accounted(f)'
    <3>1. (Right(f)' <=> Right(f)) /\ (Pending(f)' <=> Pending(f))
      BY <1>d, <2>1 DEF Right, EntriesOf, NoEntries
    <3>2. scan.read.file # f /\ \A r \in Slots : refresh'[r].file # f
      BY <1>a, <2>1, <2>2 DEF Free
    <3>3. Right(f) \/ Pending(f)
      BY <1>b, <2>1, <3>2 DEF Accounted
    <3> QED BY <2>1, <3>1, <3>2, <3>3 DEF Accounted
  <2> QED BY <1>c, <2>1, <2>3
<1> QED BY <1>1, <1>2, <1>3, <1>4, <1>5, <1>6, <1>7, <1>8, <1>9, <1>10, <1>11
        DEF CalmNext, CalmAnnounce, ServerStep

LEMMA CalmStarts == Init => CalmInv
<1> SUFFICES ASSUME Init PROVE CalmInv
  OBVIOUS
<1>1. Scope \subseteq Files /\ Nobody \notin Scope
  BY IndexConstants
<1>2. \A f \in Scope : Accounted(f)
  BY <1>1 DEF Init, Accounted, Free
<1> QED BY <1>2 DEF Init, CalmInv

(* When everything announced has been handled, the index is one copy of    *)
(* what is on disk, whatever the disk did during the scan or between a     *)
(* read and its use: for any files, folder, texts and slots.               *)
THEOREM QuietIndex == CalmSpec => []QuietIndexIsDisk
<1>1. Init => TypeOK /\ ReadsComplete /\ OnlyWalksRead /\ CalmInv
  BY InitTypes, CalmStarts DEF Init, ReadsComplete, OnlyWalksRead
<1>2. CalmInv => QuietIndexIsDisk
  <2> SUFFICES ASSUME CalmInv, Quiet, NEW f \in Scope PROVE Right(f)
    BY DEF QuietIndexIsDisk, Right, EntriesOf
  <2>1. /\ scan.phase = "done" /\ \A s \in Slots : refresh[s].file # f
        /\ ~Pending(f)
    BY IndexConstants DEF Quiet, Settled, Free, Pending
  <2> QED BY <2>1 DEF CalmInv, Accounted
<1>3. /\ TypeOK /\ ReadsComplete /\ [CalmNext]_vars => TypeOK' /\ ReadsComplete'
      /\ TypeOK /\ OnlyWalksRead /\ [CalmNext]_vars => OnlyWalksRead'
  BY CalmStepsAreSteps, StepTypes, StepReadsComplete, StepWalk
<1>4. CalmSpec => Init /\ [][CalmNext]_vars
  BY DEF CalmSpec, CalmNext
<1> QED BY <1>1, <1>2, <1>3, <1>4, StepCalm, PTL
=============================================================================
