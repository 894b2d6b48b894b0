----------------------------- MODULE PulseWrite ------------------------------
(* spw pulse --write (pulse.ts, pulse-write.ts): the files are read and        *)
(* planned, the batch is gated, and one changed file at most is replaced by a  *)
(* staged copy, after a last comparison with what was read.  Several pulses    *)
(* and an editor work on the same files; a pulse may crash between any steps.  *)
(*                                                                             *)
(* A file's identity stands for its device, inode and mode.  What the parser   *)
(* and the evidence say of a plan is chosen freely, as is every I/O error.     *)
EXTENDS Integers, FiniteSets

CONSTANTS
  Pulses,         \* running commands
  Files,
  Texts,
  NoText,         \* not read yet
  Rewritten,      \* text -> the text the rules plan for it
  MaxIds          \* bound of the model: identities files take on

ASSUME RewrittenAssumption == Rewritten \in [Texts -> Texts]
ASSUME NoTextAssumption == NoText \notin Texts
ASSUME FilesAssumption == IsFiniteSet(Files)
ASSUME MaxIdsAssumption == MaxIds \in Nat \ {0}

Statuses == {"none", "unchanged", "ready", "blocked", "blocked_batch",
             "written", "blocked_stale_source", "blocked_io"}

VARIABLES
  disk,           \* file -> its text and its identity
  lastId,         \* the identity given out last
  pulses          \* pulse -> its state

pulseVars == <<disk, lastId, pulses>>

NoId == 0

(* phase    where the pulse is: it plans, stages, checks, and is done or dead  *)
(* text, id what planning read of each file                                    *)
(* status   the write status of each file's report                             *)
(* checked  what the last comparison has read of the target: its text, its id  *)
(* moved    which of those the target has changed since                        *)
Planning == [phase |-> "plan", text |-> [f \in Files |-> NoText],
             id |-> [f \in Files |-> NoId], status |-> [f \in Files |-> "none"],
             checkedText |-> NoText, checkedId |-> NoId, moved |-> {}]

PulseInit ==
  /\ disk \in [Files -> [text : Texts, id : {1}]]
  /\ lastId = 1
  /\ pulses = [p \in Pulses |-> Planning]

-----------------------------------------------------------------------------
(* The batch gate. *)

Changed(s, f) == Rewritten[s.text[f]] # s.text[f]

(* decidePulseWriteStatus, healthy: whether nothing of the plan blocks it. *)
Decided(s, f, healthy) ==
  IF ~healthy THEN "blocked" ELSE IF Changed(s, f) THEN "ready" ELSE "unchanged"

(* Mutant: a batch with several changes is written as far as it is ready. *)
GatedUncounted(s, healthy) ==
  LET first == [f \in Files |-> Decided(s, f, f \in healthy)]
  IN  IF \E f \in Files : first[f] = "blocked"
      THEN [f \in Files |-> IF first[f] = "ready" THEN "blocked_batch" ELSE first[f]]
      ELSE first

(* One blocked plan, or more than one change, blocks every write of the batch. *)
Gated(s, healthy) ==
  LET first   == [f \in Files |-> Decided(s, f, f \in healthy)]
      changed == {f \in Files : Changed(s, f)}
  IN  IF (\E f \in Files : first[f] = "blocked") \/ Cardinality(changed) > 1
      THEN [f \in Files |-> IF first[f] = "ready" THEN "blocked_batch" ELSE first[f]]
      ELSE first

(* All that is left of a pulse that has ended is what it reports. *)
Reported(status) == [Planning EXCEPT !.phase = "done", !.status = status]

Target(s) == CHOOSE f \in Files : s.status[f] = "ready"

-----------------------------------------------------------------------------
(* The pulse. *)

(* Files are planned one after the other; the bytes and the identity of each   *)
(* are read side by side.                                                      *)
Whole(s, f) == (s.text[f] = NoText) = (s.id[f] = NoId)

PlanReadsText(p, f) ==
  LET s == pulses[p] IN
  /\ s.phase = "plan" /\ \A g \in Files \ {f} : Whole(s, g)
  /\ s.text[f] = NoText
  /\ pulses' = [pulses EXCEPT ![p].text[f] = disk[f].text]
  /\ UNCHANGED <<disk, lastId>>

PlanReadsId(p, f) ==
  LET s == pulses[p] IN
  /\ s.phase = "plan" /\ \A g \in Files \ {f} : Whole(s, g)
  /\ s.id[f] = NoId
  /\ pulses' = [pulses EXCEPT ![p].id[f] = disk[f].id]
  /\ UNCHANGED <<disk, lastId>>

Gate(p, healthy) ==
  LET s      == pulses[p]
      status == Gated(s, healthy)
  IN  /\ s.phase = "plan"
      /\ \A f \in Files : s.text[f] # NoText /\ s.id[f] # NoId
      /\ pulses' = [pulses EXCEPT ![p] =
                      IF \E f \in Files : status[f] = "ready"
                      THEN [s EXCEPT !.status = status, !.phase = "stage"]
                      ELSE Reported(status)]
      /\ UNCHANGED <<disk, lastId>>

(* The staged copy is written, synced and read back beside the target. *)
Stage(p) ==
  /\ pulses[p].phase = "stage"
  /\ pulses' = [pulses EXCEPT ![p].phase = "check"]
  /\ UNCHANGED <<disk, lastId>>

(* assertWritePrecondition reads identity and bytes side by side, again. *)
CheckReadsText(p) ==
  LET s == pulses[p] IN
  /\ s.phase = "check"
  /\ s.checkedText = NoText
  /\ pulses' = [pulses EXCEPT ![p].checkedText = disk[Target(s)].text]
  /\ UNCHANGED <<disk, lastId>>

CheckReadsId(p) ==
  LET s == pulses[p] IN
  /\ s.phase = "check"
  /\ s.checkedId = NoId
  /\ pulses' = [pulses EXCEPT ![p].checkedId = disk[Target(s)].id]
  /\ UNCHANGED <<disk, lastId>>

Checked(s) == s.phase = "check" /\ s.checkedText # NoText /\ s.checkedId # NoId

(* Mutant: the last comparison looks at the identity only. *)
SameIdentity(s) == s.checkedId = s.id[Target(s)]

Matches(s) == s.checkedText = s.text[Target(s)] /\ s.checkedId = s.id[Target(s)]

(* What every pulse that is checking file f has read and finds changed later. *)
Moved(f, what) ==
  [p \in Pulses |->
     LET s == pulses[p] IN
     IF s.phase = "check" /\ Target(s) = f
     THEN [s EXCEPT !.moved = @ \cup
             {w \in what : \/ w = "text" /\ s.checkedText # NoText
                           \/ w = "id" /\ s.checkedId # NoId}]
     ELSE s]

(* The comparison is the last thing awaited before the rename, which puts the  *)
(* staged copy, with an inode of its own, in the file's place.                 *)
Rename(p) ==
  LET s == pulses[p]
      f == Target(s)
  IN  /\ Checked(s) /\ Matches(s)
      /\ lastId < MaxIds
      /\ disk' = [disk EXCEPT ![f] = [text |-> Rewritten[s.text[f]], id |-> lastId + 1]]
      /\ lastId' = lastId + 1
      /\ pulses' = [Moved(f, {"text", "id"}) EXCEPT
                      ![p] = Reported([s.status EXCEPT ![f] = "written"])]

Refuse(p) ==
  LET s == pulses[p] IN
  /\ Checked(s) /\ ~Matches(s)
  /\ pulses' = [pulses EXCEPT ![p] =
                   Reported([s.status EXCEPT ![Target(s)] = "blocked_stale_source"])]
  /\ UNCHANGED <<disk, lastId>>

(* Staging, a read of the check, the authority check or the rename fails. *)
IoFails(p) ==
  LET s == pulses[p] IN
  /\ s.phase \in {"stage", "check"}
  /\ pulses' = [pulses EXCEPT ![p] =
                   Reported([s.status EXCEPT ![Target(s)] = "blocked_io"])]
  /\ UNCHANGED <<disk, lastId>>

(* The process dies; a file that cannot be read while planning ends it too.    *)
CrashPulse(p) ==
  /\ pulses[p].phase \in {"plan", "stage", "check"}
  /\ pulses' = [pulses EXCEPT ![p] = [Planning EXCEPT !.phase = "dead"]]
  /\ UNCHANGED <<disk, lastId>>

(* The editor writes a file in place, or puts another one in its place. *)
EditInPlace(f, t) ==
  /\ disk[f].text # t
  /\ disk' = [disk EXCEPT ![f].text = t]
  /\ pulses' = Moved(f, {"text"})
  /\ UNCHANGED lastId

EditReplaces(f, t) ==
  /\ lastId < MaxIds
  /\ disk' = [disk EXCEPT ![f] = [text |-> t, id |-> lastId + 1]]
  /\ lastId' = lastId + 1
  /\ pulses' = Moved(f, {"text", "id"})

PulseNext ==
  \/ \E p \in Pulses, f \in Files : PlanReadsText(p, f) \/ PlanReadsId(p, f)
  \/ \E p \in Pulses, healthy \in SUBSET Files : Gate(p, healthy)
  \/ \E p \in Pulses : \/ Stage(p) \/ CheckReadsText(p) \/ CheckReadsId(p)
                       \/ Rename(p) \/ Refuse(p) \/ IoFails(p) \/ CrashPulse(p)
  \/ \E f \in Files, t \in Texts : EditInPlace(f, t) \/ EditReplaces(f, t)

PulseSpec == PulseInit /\ [][PulseNext]_pulseVars

-----------------------------------------------------------------------------
(* Properties. *)

(* Texts, identities and statuses are ones the program has. *)
PulseTypeOK ==
  /\ disk \in [Files -> [text : Texts, id : 1 .. MaxIds]]
  /\ lastId \in 1 .. MaxIds
  /\ pulses \in [Pulses ->
       [phase : {"plan", "stage", "check", "done", "dead"},
        text : [Files -> Texts \cup {NoText}], id : [Files -> 0 .. MaxIds],
        status : [Files -> Statuses], checkedText : Texts \cup {NoText},
        checkedId : 0 .. MaxIds, moved : SUBSET {"text", "id"}]]

(* The guard is a best-effort compare-and-swap, and this is the effort: a text *)
(* or a file the pulse did not plan from is replaced only if it came after the *)
(* check had read that very part.  Whatever was there when the check began,    *)
(* another pulse's output included, is not lost.                               *)
OnlyPlannedIsReplaced ==
  [][\A p \in Pulses :
       LET s == pulses[p]
           f == Target(s)
       IN  s.phase = "check" /\ pulses'[p].phase = "done" /\ pulses'[p].status[f] = "written" =>
             /\ disk[f].text = s.text[f] \/ "text" \in s.moved
             /\ disk[f].id = s.id[f] \/ "id" \in s.moved]_pulseVars

(* A batch changes one file at most, and only if every other plan of it is     *)
(* healthy and changes nothing: no pulse leaves a batch half applied.          *)
BatchIsAllOrNothing ==
  \A p \in Pulses, f \in Files :
    pulses[p].status[f] \in {"ready", "written"} =>
      \A g \in Files \ {f} : pulses[p].status[g] = "unchanged"
=============================================================================
