---------------------------- MODULE EditSequence -----------------------------
(* Edits of a source and how they are rebased, merged and composed            *)
(* (spw-seed canonical/differential.ts, canonical/operational-transform.ts):  *)
(* spw pulse --sequence runs a parallel sequence, whose steps each plan on    *)
(* the same base.                                                             *)
(*                                                                            *)
(* A source is a sequence of lines, all of them terminated, and an offset     *)
(* counts lines: the planner cuts at line ends only, and the algebra of       *)
(* offsets does not look at what lies between.  Rule names, strata, hashes    *)
(* and vectors are reports.                                                   *)
EXTENDS Integers, SequencesExt

CONSTANTS
  Lines,          \* contents of lines
  Thrown,         \* instead of a source: an exception
  Sources,        \* sources a sequence starts from
  Rewrites,       \* sources a step may plan
  Insertions,     \* replacement texts of edits planned by hand
  MaxSteps,       \* bound of the model: steps of a sequence
  MaxFirst,       \* bounds of the model: edits of the two lists composed
  MaxSecond

ASSUME ThrownAssumption == Thrown \notin Seq(Lines)
ASSUME StepsAssumption == MaxSteps \in Nat
ASSUME SourcesAssumption ==
  /\ Sources \subseteq Seq(Lines) /\ Rewrites \subseteq Seq(Lines)
  /\ Insertions \subseteq Seq(Lines)

Edits == [start : Nat, end : Nat, newText : Seq(Lines)]

VARIABLES
  base,           \* the source every step plans on
  current,        \* the source after the steps that ran
  applied,        \* what the runner takes the steps to have done to the base
  kept,           \* the edits of the steps that were not dropped
  conflicts,      \* edits dropped because they overlap
  steps,          \* steps that ran
  first,          \* two lists of edits of the base, to be composed
  second

editVars == <<base, current, applied, kept, conflicts, steps, first, second>>

-----------------------------------------------------------------------------
(* Applying edits. *)

EditLengthDelta(e) == Len(e.newText) - (e.end - e.start)

Sorts(d, e) == d.start < e.start \/ (d.start = e.start /\ d.end < e.end)

(* The edits by start, then by end, and as they were given where both agree. *)
Ordered(edits) ==
  LET before(i, j) == \/ Sorts(edits[i], edits[j])
                      \/ ~Sorts(edits[j], edits[i]) /\ i < j
      place(i) == Cardinality({j \in DOMAIN edits : before(j, i)}) + 1
  IN  [n \in DOMAIN edits |-> edits[CHOOSE i \in DOMAIN edits : place(i) = n]]

Overlapping(ordered) ==
  \E i \in 2 .. Len(ordered) : ordered[i].start < ordered[i - 1].end

Spliced(text, e) ==
  SubSeq(text, 1, e.start) \o e.newText \o SubSeq(text, e.end + 1, Len(text))

InRange(text, e) == 0 <= e.start /\ e.end <= Len(text) /\ e.start <= e.end

(* applyEdits: from the last edit to the first, so that offsets stay valid. *)
ApplyEdits(text, edits) ==
  LET ordered == Ordered(edits)
      apply(e, out) == IF out # Thrown /\ InRange(out, e) THEN Spliced(out, e) ELSE Thrown
  IN  IF Overlapping(ordered) THEN Thrown ELSE FoldRight(apply, ordered, text)

-----------------------------------------------------------------------------
(* Differentials. *)

(* Lines two sources share at their beginnings, and at their ends. *)
Agree(before, after, n) == SubSeq(before, 1, n) = SubSeq(after, 1, n)
AgreeAtEnd(before, after, n) ==
  SubSeq(before, Len(before) - n + 1, Len(before)) = SubSeq(after, Len(after) - n + 1, Len(after))

Shorter(before, after) == IF Len(before) < Len(after) THEN Len(before) ELSE Len(after)

Prefix(before, after) ==
  Max({n \in 0 .. Shorter(before, after) : Agree(before, after, n)})

(* Mutant: lines counted for the prefix are counted for the suffix again. *)
SuffixOverPrefix(before, after) ==
  Max({n \in 0 .. Shorter(before, after) : AgreeAtEnd(before, after, n)})

Suffix(before, after) ==
  Max({n \in 0 .. Shorter(before, after) - Prefix(before, after) :
         AgreeAtEnd(before, after, n)})

(* differentialFromSources: nothing, or one edit of all lines that differ. *)
DifferentialEdits(before, after) ==
  LET prefix == Prefix(before, after)
      suffix == Suffix(before, after)
  IN  IF before = after THEN <<>>
      ELSE <<[start |-> prefix, end |-> Len(before) - suffix,
              newText |-> SubSeq(after, prefix + 1, Len(after) - suffix)]>>

-----------------------------------------------------------------------------
(* Transformation: what becomes of op when against has been applied.          *)

Shifted(op, delta) == [op EXCEPT !.start = @ + delta, !.end = @ + delta]

Before(d, e) == d.end <= e.start

(* Mutant: an edit that begins where the other one ends is not shifted. *)
TransformAbutting(op, against) ==
  CASE against.end < op.start                              -> <<Shifted(op, EditLengthDelta(against))>>
    [] against.end >= op.start /\ against.start >= op.end -> <<op>>
    [] OTHER                                               -> <<>>

(* The edits that are left of op: itself, shifted or not, or none. *)
TransformEdit(op, against) ==
  CASE Before(against, op)                         -> <<Shifted(op, EditLengthDelta(against))>>
    [] ~Before(against, op) /\ Before(op, against) -> <<op>>
    [] OTHER                                       -> <<>>

(* An identical edit is dropped as well, but is no conflict. *)
Conflict(op, against) == TransformEdit(op, against) = <<>> /\ op # against

(* transformEditList: every op against every edit of the list, in its order. *)
TransformEditList(ops, againsts) ==
  LET rebase(all, against) ==
        [edits     |-> FlattenSeq([i \in DOMAIN all.edits |->
                                     TransformEdit(all.edits[i], against)]),
         conflicts |-> all.conflicts
           + Cardinality({i \in DOMAIN all.edits : Conflict(all.edits[i], against)})]
  IN  FoldLeft(rebase, [edits |-> ops, conflicts |-> 0], againsts)

(* composeEditLists: the source after both lists, planned on the same text. *)
Compose(text, a, b) ==
  LET mid     == ApplyEdits(text, Ordered(a))
      rebased == TransformEditList(b, Ordered(a))
  IN  [source    |-> IF mid = Thrown THEN Thrown ELSE ApplyEdits(mid, Ordered(rebased.edits)),
       conflicts |-> rebased.conflicts]

-----------------------------------------------------------------------------
(* A parallel sequence, and lists of edits planned by hand.                   *)

EditInit ==
  /\ base \in Sources
  /\ current = base
  /\ applied = <<>> /\ kept = <<>>
  /\ conflicts = 0 /\ steps = 0
  /\ first = <<>> /\ second = <<>>

(* A step of runOperationalSequence in the mode parallel_plan plans on the     *)
(* base, is rebased over what was done to the base, and is applied; what was   *)
(* done is then read off the sources again.                                    *)
SequenceStep(planned) ==
  LET edits   == DifferentialEdits(base, planned)
      rebased == TransformEditList(edits, applied)
      mid     == ApplyEdits(current, rebased.edits)
  IN  /\ steps < MaxSteps
      /\ current # Thrown
      /\ steps' = steps + 1
      /\ current' = mid
      /\ applied' = IF mid \in {Thrown, current} THEN applied
                    ELSE DifferentialEdits(base, mid)
      /\ conflicts' = conflicts + rebased.conflicts
      /\ kept' = IF rebased.edits = <<>> THEN kept ELSE kept \o edits
      /\ UNCHANGED <<base, first, second>>

(* Lists of edits are planned in order and do not overlap (differential.ts:195). *)
Fits(e, edits) ==
  LET longer == Append(edits, e) IN
  InRange(base, e) /\ Ordered(longer) = longer /\ ~Overlapping(longer)

PlanFirst(e) ==
  /\ steps = 0 /\ second = <<>>
  /\ Len(first) < MaxFirst
  /\ Fits(e, first)
  /\ first' = Append(first, e)
  /\ UNCHANGED <<base, current, applied, kept, conflicts, steps, second>>

PlanSecond(e) ==
  /\ steps = 0
  /\ Len(second) < MaxSecond
  /\ Fits(e, second)
  /\ second' = Append(second, e)
  /\ UNCHANGED <<base, current, applied, kept, conflicts, steps, first>>

EditNext ==
  \/ first = <<>> /\ second = <<>> /\ \E planned \in Rewrites : SequenceStep(planned)
  \/ \E s, e \in 0 .. Len(base), new \in Insertions :
       LET edit == [start |-> s, end |-> e, newText |-> new] IN
       PlanFirst(edit) \/ PlanSecond(edit)

EditSpec == EditInit /\ [][EditNext]_editVars

-----------------------------------------------------------------------------
(* Properties. *)

(* Sources and edits are ones the program has. *)
EditTypeOK ==
  /\ base \in Seq(Lines)
  /\ current \in Seq(Lines) \cup {Thrown}
  /\ applied \in Seq(Edits) /\ kept \in Seq(Edits)
  /\ conflicts \in Nat /\ steps \in 0 .. MaxSteps
  /\ first \in Seq(Edits) /\ second \in Seq(Edits)

(* The edit computed from two sources leads from the one to the other, however *)
(* the lines repeat: those of prefix and suffix are not taken twice.           *)
DifferentialLeadsThere ==
  current # Thrown => ApplyEdits(base, DifferentialEdits(base, current)) = current

(* A sequence of two steps throws nothing and leaves the base with the edits   *)
(* it did not drop applied at once, though the second was planned without the  *)
(* first and shifted over it.  The same holds of one edit composed with a list *)
(* when there is no conflict.                                                  *)
RebasedIsMerged ==
  /\ steps <= 2 => current # Thrown /\ current = ApplyEdits(base, kept)
  /\ Len(first) = 1 =>
       LET both == Compose(base, first, second) IN
       both.conflicts = 0 /\ ~(\E i \in DOMAIN second : second[i] = first[1]) =>
         both.source = ApplyEdits(base, first \o second)

(* operational-transform.ts:210 composes two edit lists planned on the same    *)
(* base; without conflicts the result is the base with both applied.           *)
ComposeIsMerge ==
  LET both == Compose(base, first, second) IN
  both.conflicts = 0 /\ ToSet(first) \cap ToSet(second) = {} =>
    both.source = ApplyEdits(base, first \o second)
=============================================================================
