----------------------------- MODULE CorpusMemo ------------------------------
(* The memo of corpus scans (corpus-memo.ts, scanCorpus in corpus-scan.ts): a  *)
(* process holds its last scans in memory and keeps their products on disk,    *)
(* under a key made of the options and of the mtime and size of every file     *)
(* scanned, taken before the files are read.                                   *)
(*                                                                             *)
(* The options and the roots are fixed here; keys differ in the stats alone.   *)
(* Of a product the model keeps the texts it was computed from and the cited   *)
(* targets reported broken.  Targets lie outside the files scanned: a citation *)
(* of a scanned file is settled by the texts.  The .spw twin of a product and  *)
(* the counters are for readers only.                                          *)
EXTENDS Integers, Sequences, SequencesExt

CONSTANTS
  Scanners,       \* processes that scan
  ScanFiles,      \* .spw files under the roots
  ScanTexts,      \* their texts
  Targets,        \* paths outside the roots
  TargetsOf,      \* text -> the targets it cites
  NoSource,       \* of a file that is not there, or not read
  NoMemo,         \* of a key without a file on disk
  TornMemo,       \* a file cut short, or that two wrote at once: unparsable
  MaxRemembered,  \* scans a process holds; 16 in the code
  MaxEdits,       \* bounds of the model: edits of files and targets,
  MaxScans        \* and scans

ASSUME TargetsOfAssumption == TargetsOf \in [ScanTexts -> SUBSET Targets]
ASSUME RememberedAssumption == MaxRemembered \in Nat \ {0}
ASSUME CorpusBoundsAssumption == MaxEdits \in Nat /\ MaxScans \in Nat

VARIABLES
  source,         \* file -> its text
  stamp,          \* file -> its mtime and size, a number no two edits share
  present,        \* the targets that exist
  edits,          \* edits so far
  begun,          \* scans so far
  remembered,     \* process -> <<[key, answer], ...>>, the oldest first
  memo,           \* key -> the product on disk
  scan            \* process -> the state of its scan

corpusVars == <<source, stamp, present, edits, begun, remembered, memo, scan>>

(* What a key says of a file, besides its stamp. *)
Unlisted == 0
Vanished == -1
NotStated == -2
Stamps == 1..MaxEdits + 1
Keys == [ScanFiles -> Stamps \cup {Unlisted, Vanished}]

Unread == [f \in ScanFiles |-> NoSource]
Nothing == [texts |-> Unread, from |-> Unread, broken |-> {}, plane |-> "none"]

(* at      what the process does next                                          *)
(* key     file -> what the scan's key says of it                              *)
(* unread  files still to read                                                 *)
(* answer  texts handed out, texts the product was computed from, targets      *)
(*         reported broken, and where they came from                           *)
(* named   the memo it has open is still the one of that key                   *)
(* quiet   no file has been edited since the scan began                        *)
(* still   no target has come or gone since then                               *)
Unstarted == [at |-> "idle", key |-> [f \in ScanFiles |-> Unlisted], unread |-> {},
              answer |-> Nothing, named |-> FALSE, quiet |-> FALSE, still |-> FALSE]

CorpusInit ==
  /\ source \in [ScanFiles -> ScanTexts]
  /\ stamp = [f \in ScanFiles |-> 1]
  /\ present \in SUBSET Targets
  /\ edits = 0 /\ begun = 0
  /\ remembered = [p \in Scanners |-> <<>>]
  /\ memo = [k \in Keys |-> NoMemo]
  /\ scan = [p \in Scanners |-> Unstarted]

Scanning(p, at) == scan[p].at = at

-----------------------------------------------------------------------------
(* Authors: the files under the roots, and the targets outside. *)

EditSource(f, text) ==
  /\ edits < MaxEdits
  /\ source[f] # NoSource \/ text # NoSource
  /\ edits' = edits + 1
  /\ source' = [source EXCEPT ![f] = text]
  /\ stamp' = [stamp EXCEPT ![f] = edits + 2]
  /\ scan' = [p \in Scanners |-> [scan[p] EXCEPT !.quiet = FALSE]]
  /\ UNCHANGED <<present, begun, remembered, memo>>

ToggleTarget(t) ==
  /\ edits < MaxEdits
  /\ edits' = edits + 1
  /\ present' = IF t \in present THEN present \ {t} ELSE present \cup {t}
  /\ scan' = [p \in Scanners |-> [scan[p] EXCEPT !.still = FALSE]]
  /\ UNCHANGED <<source, stamp, begun, remembered, memo>>

-----------------------------------------------------------------------------
(* scanCorpus, from the listing to the key. *)

ListFiles(p) ==
  /\ scan[p].at \in {"idle", "answered"}
  /\ begun < MaxScans
  /\ begun' = begun + 1
  /\ scan' = [scan EXCEPT ![p] =
       [Unstarted EXCEPT !.at = "stat", !.quiet = TRUE, !.still = TRUE,
          !.key = [f \in ScanFiles |-> IF source[f] = NoSource THEN Unlisted ELSE NotStated]]]
  /\ UNCHANGED <<source, stamp, present, edits, remembered, memo>>

(* In any order: the stats are asked for all at once. *)
StatFile(p, f) ==
  /\ Scanning(p, "stat") /\ scan[p].key[f] = NotStated
  /\ scan' = [scan EXCEPT ![p].key[f] = IF source[f] = NoSource THEN Vanished ELSE stamp[f]]
  /\ UNCHANGED <<source, stamp, present, edits, begun, remembered, memo>>

(* Mutant: the files are stated again when their scan is kept. *)
MemoKeyNow(p) ==
  IF scan[p].at = "stat" THEN scan[p].key
  ELSE [f \in ScanFiles |-> IF source[f] = NoSource THEN Unlisted ELSE stamp[f]]

(* The key is made once, of the stats taken before the files are read. *)
MemoKey(p) == scan[p].key

Recalled(p) == {i \in DOMAIN remembered[p] : remembered[p][i].key = MemoKey(p)}

(* getMemoryCorpusMemo, then getDiskCorpusProduct; a hit on disk has the files *)
(* read for their texts, a miss has them read for everything.                  *)
LookUp(p) ==
  LET known == {f \in ScanFiles : scan[p].key[f] # Unlisted}
      hit == memo[MemoKey(p)]
  IN
  /\ Scanning(p, "stat")
  /\ \A f \in ScanFiles : scan[p].key[f] # NotStated
  /\ \/ \E i \in Recalled(p) :
          scan' = [scan EXCEPT ![p].at = "answered",
                               ![p].answer = [remembered[p][i].answer EXCEPT !.plane = "memory"]]
     \/ /\ Recalled(p) = {} /\ hit \notin {NoMemo, TornMemo}
        /\ scan' = [scan EXCEPT ![p].at = "reread",
             ![p].unread = {f \in ScanFiles : hit.from[f] # NoSource},
             ![p].answer = [Nothing EXCEPT !.from = hit.from, !.broken = hit.broken,
                                           !.plane = "disk"]]
     \/ /\ Recalled(p) = {} /\ hit \in {NoMemo, TornMemo}
        /\ scan' = [scan EXCEPT ![p].at = "read", ![p].unread = known,
                                ![p].answer.plane = "fresh"]
  /\ UNCHANGED <<source, stamp, present, edits, begun, remembered, memo>>

-----------------------------------------------------------------------------
(* Reading, and keeping what was computed. *)

(* A file that is gone by now is left out. *)
ReadSource(p, f) ==
  /\ scan[p].at \in {"read", "reread"} /\ f \in scan[p].unread
  /\ scan' = [scan EXCEPT ![p].unread = @ \ {f}, ![p].answer.texts[f] = source[f]]
  /\ UNCHANGED <<source, stamp, present, edits, begun, remembered, memo>>

Cites(texts) == UNION {TargetsOf[texts[f]] : f \in {g \in ScanFiles : texts[g] # NoSource}}

(* setMemoryCorpusMemo: beyond the cap, the oldest goes. *)
RememberedAfter(p, answer) ==
  LET next == Append(remembered[p], [key |-> MemoKey(p), answer |-> answer])
  IN  IF Len(next) > MaxRemembered THEN Tail(next) ELSE next

DiskHitEnds(p) ==
  /\ Scanning(p, "reread") /\ scan[p].unread = {}
  /\ remembered' = [remembered EXCEPT ![p] = RememberedAfter(p, scan[p].answer)]
  /\ scan' = [scan EXCEPT ![p].at = "answered"]
  /\ UNCHANGED <<source, stamp, present, edits, begun, memo>>

(* Every cited path is looked for, those not found a second time; what is      *)
(* missing then is broken.  The result goes to memory and the memo is opened,  *)
(* which empties it.                                                           *)
ScanEnds(p) ==
  LET answer == [scan[p].answer EXCEPT !.from = scan[p].answer.texts,
                                       !.broken = Cites(scan[p].answer.texts) \ present]
  IN
  /\ Scanning(p, "read") /\ scan[p].unread = {}
  /\ remembered' = [remembered EXCEPT ![p] = RememberedAfter(p, answer)]
  /\ memo' = [memo EXCEPT ![MemoKey(p)] = TornMemo]
  /\ scan' = [scan EXCEPT ![p].at = "write", ![p].answer = answer, ![p].named = TRUE]
  /\ UNCHANGED <<source, stamp, present, edits, begun>>

(* Over what another process has written since, a longer text shows its tail;  *)
(* a file removed meanwhile is written for nobody.                             *)
WriteMemo(p) ==
  LET written == [from |-> scan[p].answer.from, broken |-> scan[p].answer.broken] IN
  /\ Scanning(p, "write")
  /\ \E found \in IF ~scan[p].named THEN {memo[scan[p].key]}
                  ELSE IF memo[scan[p].key] = TornMemo THEN {written} ELSE {written, TornMemo} :
       memo' = [memo EXCEPT ![scan[p].key] = found]
  /\ scan' = [scan EXCEPT ![p].at = "answered", ![p].named = FALSE]
  /\ UNCHANGED <<source, stamp, present, edits, begun, remembered>>

-----------------------------------------------------------------------------
(* inspect corpus --recompute, before its scans: the process forgets and every *)
(* memo is removed.  A scan looks up one key, so it cannot tell the removals   *)
(* apart; whoever has a memo open writes a file without a name.                *)
ResetCorpusMemo(p) ==
  /\ Scanning(p, "idle")
  /\ remembered' = [remembered EXCEPT ![p] = <<>>]
  /\ memo' = [k \in Keys |-> NoMemo]
  /\ scan' = [q \in Scanners |-> [scan[q] EXCEPT !.named = FALSE]]
  /\ UNCHANGED <<source, stamp, present, edits, begun>>

(* A process ends or is killed, and another takes its place. *)
ProcessEnds(p) ==
  /\ ~Scanning(p, "idle")
  /\ remembered' = [remembered EXCEPT ![p] = <<>>]
  /\ scan' = [scan EXCEPT ![p] = Unstarted]
  /\ UNCHANGED <<source, stamp, present, edits, begun, memo>>

CorpusNext ==
  \/ \E f \in ScanFiles, text \in ScanTexts \cup {NoSource} : EditSource(f, text)
  \/ \E t \in Targets : ToggleTarget(t)
  \/ \E p \in Scanners :
       \/ ListFiles(p) \/ LookUp(p) \/ DiskHitEnds(p) \/ ScanEnds(p) \/ WriteMemo(p)
       \/ ResetCorpusMemo(p) \/ ProcessEnds(p)
       \/ \E f \in ScanFiles : StatFile(p, f) \/ ReadSource(p, f)

CorpusSpec == CorpusInit /\ [][CorpusNext]_corpusVars

-----------------------------------------------------------------------------
(* Properties. *)

Readings == [ScanFiles -> ScanTexts \cup {NoSource}]
Products == [from : Readings, broken : SUBSET Targets]
Answers == [texts : Readings, from : Readings, broken : SUBSET Targets,
            plane : {"none", "memory", "disk", "fresh"}]
Entries == [key : Keys, answer : Answers]
Scans == [at : {"idle", "stat", "read", "reread", "write", "answered"},
          key : [ScanFiles -> Stamps \cup {Unlisted, Vanished, NotStated}],
          unread : SUBSET ScanFiles, answer : Answers,
          named : BOOLEAN, quiet : BOOLEAN, still : BOOLEAN]

(* Keys, memos and scans are ones the program has. *)
CorpusTypeOK ==
  /\ source \in Readings
  /\ stamp \in [ScanFiles -> Stamps]
  /\ present \subseteq Targets
  /\ edits \in 0..MaxEdits /\ begun \in 0..MaxScans
  /\ memo \in [Keys -> Products \cup {NoMemo, TornMemo}]
  /\ remembered \in [Scanners -> Seq(Entries)]
  /\ scan \in [Scanners -> Scans]
  /\ \A p \in Scanners :
       /\ Len(remembered[p]) <= MaxRemembered
       /\ ~Scanning(p, "stat") => scan[p].key \in Keys

(* A scan during which no file was edited answers with the texts on disk and   *)
(* with a product computed from them, whichever plane it came from and         *)
(* whatever overlapping scans, edits, removals and crashes went before; a      *)
(* fresh scan during which no target came or went reports the broken ones.     *)
QuietScanAnswersTheDisk ==
  \A p \in Scanners :
    Scanning(p, "answered") /\ scan[p].quiet =>
      /\ scan[p].answer.texts = source
      /\ scan[p].answer.from = source
      /\ scan[p].answer.plane = "fresh" /\ scan[p].still =>
           scan[p].answer.broken = Cites(source) \ present

(* docs/theory/spw/cache-field.spw:30: a hit returns the same answer as a cold *)
(* recompute.                                                                  *)
HitIsColdScan ==
  \A p \in Scanners :
    Scanning(p, "answered") /\ scan[p].quiet /\ scan[p].still =>
      scan[p].answer.broken = Cites(source) \ present
=============================================================================
