--------------------------- MODULE WorkspaceIndex ---------------------------
(***************************************************************************)
(* The language server's workspace index (server-index.ts): annotations,   *)
(* frames, citations and selector definitions of every .spw file in scope. *)
(* It is filled by one scan at initialize, and kept up by didSave, by file *)
(* events (each re-reads its file, unawaited), and by folder deletes.      *)
(* JavaScript runs one handler at a time; what interleaves is a handler's  *)
(* await: a read that was asked for, one that came back, and its use.      *)
(*                                                                         *)
(* The entries a file contributes are abstracted to the text they were     *)
(* extracted from, and counted: adding them twice leaves two copies in the *)
(* name, file and workspace lists.  One selector name stands for the       *)
(* selector definitions, whose map keeps the last definition of a name.    *)
(***************************************************************************)
EXTENDS Naturals, FiniteSets

CONSTANTS
  Files,     \* paths of .spw files
  Scope,     \* the files inIndexScope accepts
  Folder,    \* the files of one folder that may be deleted whole
  Texts,     \* what a file may say
  Defining,  \* the texts that define the selector
  Absent,    \* a file that is not on disk
  NoBuffer,  \* a file that is not open in the editor
  NotRead,   \* a read that has not come back
  Nobody,    \* no file
  Slots,     \* refreshes that may be in flight together
  MaxEdits   \* bound on what the editor and the disk do

ASSUME IndexConstants ==
  /\ Scope \subseteq Files /\ Folder \subseteq Files
  /\ Defining \subseteq Texts
  /\ Absent \notin Texts
  /\ NoBuffer \notin Texts \cup {Absent, NotRead}
  /\ NotRead \notin Texts \cup {Absent}
  /\ Nobody \notin Files
  /\ MaxEdits \in Nat

VARIABLES
  disk,       \* text of each file on disk
  buffer,     \* text of each open document
  saving,     \* files written by the editor whose didSave is on its way
  watched,    \* files whose event is on its way
  folderGone, \* the folder's delete event is on its way
  entries,    \* entries[f][t]: copies of the entries extracted from text t of f
  memo,       \* citationsByFile: the text a file's citations were read from
  selector,   \* selectorDefs: file and text of the last definition
  scan,       \* the scan: its phase, the files left, the read it awaits
  refresh,    \* refreshFileAnnotations calls in flight
  corpus,     \* the read a pass over the corpus awaits
  edits

envVars == <<disk, buffer, edits>>
indexVars == <<entries, memo, selector>>
vars == <<disk, buffer, saving, watched, folderGone, entries, memo, selector,
          scan, refresh, corpus, edits>>

DiskText == Texts \cup {Absent}
Free == [file |-> Nobody, text |-> NotRead]
NoSelector == [file |-> Nobody, text |-> Absent]
Reads == [file : Files \cup {Nobody}, text : DiskText \cup {NotRead}]

TypeOK ==
  /\ disk \in [Files -> DiskText]
  /\ buffer \in [Files -> Texts \cup {NoBuffer}]
  /\ saving \subseteq Files /\ watched \subseteq Files
  /\ folderGone \in BOOLEAN
  /\ entries \in [Files -> [Texts -> Nat]]
  /\ memo \in [Files -> DiskText]
  /\ selector \in [file : Files \cup {Nobody}, text : DiskText]
  /\ scan \in [phase : {"config", "walk", "done"}, todo : SUBSET Files, read : Reads]
  /\ refresh \in [Slots -> Reads] /\ corpus \in Reads
  /\ edits \in 0..MaxEdits

NoEntries == [t \in Texts |-> 0]

(* scanWorkspace has cleared every map and awaits the configuration files. *)
Init ==
  /\ disk \in [Files -> DiskText]
  /\ buffer = [f \in Files |-> NoBuffer]
  /\ saving = {} /\ watched = {} /\ folderGone = FALSE
  /\ entries = [f \in Files |-> NoEntries]
  /\ memo = [f \in Files |-> Absent]
  /\ selector = NoSelector
  /\ scan = [phase |-> "config", todo |-> {}, read |-> Free]
  /\ refresh = [s \in Slots |-> Free] /\ corpus = Free
  /\ edits = 0

-----------------------------------------------------------------------------
(* The editor and the disk.                                                *)

Edit ==
  /\ edits < MaxEdits
  /\ edits' = edits + 1
  /\ UNCHANGED <<indexVars, scan, refresh, corpus>>

(* didOpen and didChange touch documents only, never the index.            *)
TypeIn(f, t) ==
  /\ f \notin saving
  /\ buffer' = [buffer EXCEPT ![f] = t]
  /\ UNCHANGED <<disk, saving, watched, folderGone>>
  /\ Edit

EditorWrites(f) ==
  /\ buffer[f] # NoBuffer
  /\ f \notin saving
  /\ disk' = [disk EXCEPT ![f] = buffer[f]]
  /\ saving' = saving \cup {f}
  /\ watched' = watched \cup {f}
  /\ UNCHANGED <<buffer, folderGone>>
  /\ Edit

DiskChanges(f, t) ==
  /\ t # disk[f]
  /\ disk' = [disk EXCEPT ![f] = t]
  /\ watched' = watched \cup {f}
  /\ UNCHANGED <<buffer, saving, folderGone>>
  /\ Edit

(* A deleted folder raises one event for the folder, none for its files.   *)
FolderDeleted ==
  /\ \E f \in Folder : disk[f] # Absent
  /\ disk' = [f \in Files |-> IF f \in Folder THEN Absent ELSE disk[f]]
  /\ folderGone' = TRUE
  /\ UNCHANGED <<buffer, saving, watched>>
  /\ Edit

-----------------------------------------------------------------------------
(* What the handlers do to one file's part of the index.                   *)

Copies(f) == {t \in Texts : entries[f][t] > 0}

(* removeAnnotationsForFile and removeFramesForFile, then the adds.        *)
Replaced(f, t) == [entries EXCEPT ![f] = [NoEntries EXCEPT ![t] = 1]]

(* extractSelectorDefs sets what it finds and removes nothing.             *)
ExtractSelectors(f, t) ==
  selector' = IF t \in Defining THEN [file |-> f, text |-> t] ELSE selector

(* forgetFile, for every file of a set.                                    *)
Forget(S) ==
  /\ entries' = [f \in Files |-> IF f \in S THEN NoEntries ELSE entries[f]]
  /\ memo' = [f \in Files |-> IF f \in S THEN Absent ELSE memo[f]]
  /\ selector' = IF selector.file \in S THEN NoSelector ELSE selector

-----------------------------------------------------------------------------
(* saveDocument indexes the document, not the disk.                        *)
DidSave(f) ==
  /\ f \in saving
  /\ saving' = saving \ {f}
  /\ IF f \in Scope
     THEN /\ entries' = Replaced(f, buffer[f])
          /\ UNCHANGED <<memo, selector>>
     ELSE Forget({f})
  /\ UNCHANGED <<envVars, watched, folderGone, scan, refresh, corpus>>

(* Mutant: a refresh does not ask whether the file is in scope. *)
StartRefreshAnywhere(f, s) ==
  /\ f \in watched
  /\ refresh[s] = Free
  /\ watched' = watched \ {f}
  /\ refresh' = [refresh EXCEPT ![s] = [file |-> f, text |-> NotRead]]
  /\ UNCHANGED <<envVars, indexVars, saving, folderGone, scan, corpus>>

(* didChangeWatchedFiles starts a refresh and does not wait for it.        *)
StartRefresh(f, s) ==
  /\ f \in watched
  /\ refresh[s] = Free
  /\ watched' = watched \ {f}
  /\ IF f \in Scope
     THEN /\ refresh' = [refresh EXCEPT ![s] = [file |-> f, text |-> NotRead]]
          /\ UNCHANGED indexVars
     ELSE /\ Forget({f})
          /\ UNCHANGED refresh
  /\ UNCHANGED <<envVars, saving, folderGone, scan, corpus>>

(* Mutant: the refresh takes the text of the document instead. *)
RefreshReadsBuffer(s) ==
  /\ refresh[s].file # Nobody
  /\ refresh[s].text = NotRead
  /\ refresh' = [refresh EXCEPT ![s].text = buffer[refresh[s].file]]
  /\ UNCHANGED <<envVars, indexVars, saving, watched, folderGone, scan, corpus>>

RefreshReads(s) ==
  /\ refresh[s].file # Nobody
  /\ refresh[s].text = NotRead
  /\ refresh' = [refresh EXCEPT ![s].text = disk[refresh[s].file]]
  /\ UNCHANGED <<envVars, indexVars, saving, watched, folderGone, scan, corpus>>

(* Mutant: a failed read leaves the old entries. *)
RefreshIgnoresFailure(s) ==
  LET f == refresh[s].file
      t == refresh[s].text
  IN /\ t # NotRead
     /\ refresh' = [refresh EXCEPT ![s] = Free]
     /\ memo' = [memo EXCEPT ![f] = t]
     /\ IF t = Absent
        THEN UNCHANGED <<entries, selector>>
        ELSE /\ entries' = Replaced(f, t)
             /\ ExtractSelectors(f, t)
     /\ UNCHANGED <<envVars, saving, watched, folderGone, scan, corpus>>

(* The read came back: replace the file's entries, or clear them when it   *)
(* failed.  The failing path leaves selector definitions alone.            *)
RefreshApplies(s) ==
  LET f == refresh[s].file
      t == refresh[s].text
  IN /\ t # NotRead
     /\ refresh' = [refresh EXCEPT ![s] = Free]
     /\ memo' = [memo EXCEPT ![f] = t]
     /\ IF t = Absent
        THEN /\ entries' = [entries EXCEPT ![f] = NoEntries]
             /\ UNCHANGED selector
        ELSE /\ entries' = Replaced(f, t)
             /\ ExtractSelectors(f, t)
     /\ UNCHANGED <<envVars, saving, watched, folderGone, scan, corpus>>

(* forgetFilesUnder drops the files the annotation, frame and citation     *)
(* maps know under the folder.                                             *)
ForgetFilesUnder ==
  /\ folderGone
  /\ folderGone' = FALSE
  /\ Forget({f \in Folder : Copies(f) # {} \/ memo[f] # Absent})
  /\ UNCHANGED <<envVars, saving, watched, scan, refresh, corpus>>

(* citationsFor: a pass over the workspace listing reads a file that no    *)
(* document overrides, and memoizes the citations of what it read.  Find   *)
(* references passes over files outside the scope too.                     *)
CorpusReads(f) ==
  /\ corpus = Free
  /\ buffer[f] = NoBuffer
  /\ disk[f] # Absent
  /\ corpus' = [file |-> f, text |-> disk[f]]
  /\ UNCHANGED <<envVars, indexVars, saving, watched, folderGone, scan, refresh>>

CitationsFor ==
  /\ corpus # Free
  /\ corpus' = Free
  /\ memo' = [memo EXCEPT ![corpus.file] = corpus.text]
  /\ UNCHANGED <<envVars, entries, selector, saving, watched, folderGone,
                 scan, refresh>>

-----------------------------------------------------------------------------
(* The scan walks the workspace, then reads one file after the other.      *)

ScanLists ==
  /\ scan.phase = "config"
  /\ scan' = [scan EXCEPT !.phase = "walk",
                          !.todo = {f \in Scope : disk[f] # Absent}]
  /\ UNCHANGED <<envVars, indexVars, saving, watched, folderGone, refresh, corpus>>

ScanReads(f) ==
  /\ scan.phase = "walk"
  /\ scan.read = Free
  /\ f \in scan.todo
  /\ scan' = [scan EXCEPT !.todo = @ \ {f}, !.read = [file |-> f, text |-> disk[f]]]
  /\ UNCHANGED <<envVars, indexVars, saving, watched, folderGone, refresh, corpus>>

(* Entries are added to whatever is there; an unreadable file is skipped.  *)
ScanAdds ==
  LET f == scan.read.file
      t == scan.read.text
  IN /\ scan.read # Free
     /\ scan' = [scan EXCEPT !.read = Free]
     /\ IF t = Absent
        THEN UNCHANGED indexVars
        ELSE /\ entries' = [entries EXCEPT ![f][t] = @ + 1]
             /\ memo' = [memo EXCEPT ![f] = t]
             /\ ExtractSelectors(f, t)
     /\ UNCHANGED <<envVars, saving, watched, folderGone, refresh, corpus>>

ScanEnds ==
  /\ scan.phase = "walk"
  /\ scan.todo = {}
  /\ scan.read = Free
  /\ scan' = [scan EXCEPT !.phase = "done"]
  /\ UNCHANGED <<envVars, indexVars, saving, watched, folderGone, refresh, corpus>>

-----------------------------------------------------------------------------
Environment ==
  \/ \E f \in Files, t \in Texts : TypeIn(f, t)
  \/ \E f \in Files : EditorWrites(f)
  \/ \E f \in Files, t \in DiskText : DiskChanges(f, t)
  \/ FolderDeleted

Announce ==
  \/ \E f \in Files : DidSave(f)
  \/ \E f \in Files, s \in Slots : StartRefresh(f, s)
  \/ ForgetFilesUnder

ServerStep ==
  \/ \E s \in Slots : RefreshReads(s) \/ RefreshApplies(s)
  \/ \E f \in Files : CorpusReads(f)
  \/ CitationsFor
  \/ ScanLists \/ ScanAdds \/ ScanEnds
  \/ \E f \in Files : ScanReads(f)

Next == Environment \/ Announce \/ ServerStep

Spec == Init /\ [][Next]_vars

(* Calm deliveries: what a file event or a save announces arrives when no  *)
(* scan runs and no refresh is in flight, a file's didSave before its      *)
(* event, and a folder's delete before events of files put back there.     *)
Settled ==
  /\ scan.phase = "done"
  /\ \A s \in Slots : refresh[s] = Free

CalmAnnounce ==
  /\ Settled
  /\ \/ \E f \in Files : DidSave(f)
     \/ \E f \in Files \ saving, s \in Slots :
          (f \in Folder => ~folderGone) /\ StartRefresh(f, s)
     \/ ForgetFilesUnder

CalmSpec == Init /\ [][Environment \/ CalmAnnounce \/ ServerStep]_vars

-----------------------------------------------------------------------------
Quiet == Settled /\ saving = {} /\ watched = {} /\ ~folderGone

(* No annotation, frame or selector of a file the workspace walk would     *)
(* skip enters the index, whichever way the file is met: scan, save, event.*)
IndexStaysInScope ==
  \A f \in Files \ Scope : Copies(f) = {} /\ selector.file # f

(* Once the scan is over, no step leaves a file with more copies of its    *)
(* entries than it had, unless it is the first.                            *)
NoCopiesAfterScan ==
  [][scan.phase = "done" =>
       \A f \in Files, t \in Texts :
         entries'[f][t] > 1 => entries'[f][t] <= entries[f][t]]_vars

(* When everything announced has been handled, calm deliveries leave the   *)
(* index with one copy of exactly what is on disk.                         *)
QuietIndexIsDisk ==
  Quiet => \A f \in Scope :
    entries[f] = IF disk[f] = Absent THEN NoEntries
                 ELSE [NoEntries EXCEPT ![disk[f]] = 1]

-----------------------------------------------------------------------------
(* What comments and tests of the repository say of the index.             *)

(* "so it reuses the scan's parses instead of racing it"                   *)
(* (server-index.ts:577): no file's entries are held twice.                *)
EntriesAreHeldOnce ==
  \A f \in Files, t \in Texts : entries[f][t] <= 1
=============================================================================
