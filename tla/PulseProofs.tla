----------------------------- MODULE PulseProofs -----------------------------
(* Proofs about spw pulse: the edits that are computed from two sources    *)
(* (EditSequence), and what --write promises of a batch, for any number of *)
(* pulses, files, texts and edits (PulseWrite).                            *)
EXTENDS EditSequence, PulseWrite, FiniteSetTheorems, WellFoundedInduction, TLAPS

-----------------------------------------------------------------------------
(* Edits.  The runner applies and rebases lists of at most one edit, which *)
(* is what the edit read off two sources comes as (Few): over such lists   *)
(* the folds of EditSequence are a single step.  Of lists of any length    *)
(* (MergeInv) it is shown that an edit applied before the edits behind it, *)
(* which are shifted, gives what applying all of them in order gives.      *)

(* Edits of a source: the one edit that leads from a source to another         *)

LEMMA LargestIsThere ==
  ASSUME NEW m \in Nat, NEW S \in SUBSET (0 .. m), S # {}
  PROVE  Max(S) \in S /\ \A y \in S : y <= Max(S)
<1>. DEFINE short == {m - n : n \in S}
<1>0. \A n \in S : n \in Nat /\ m - n \in Nat
  OBVIOUS
<1>1. short \subseteq Nat /\ short # {}
  BY <1>0
<1>2. \A t \in short : m - t \in S
  OBVIOUS
<1>3. \A n \in S : m - n \in short
  OBVIOUS
<1>. HIDE DEF short
<1>4. PICK t \in short : \A k \in short : ~(<<k, t>> \in OpToRel(<, Nat))
  BY <1>1, WFMin, NatLessThanWellFounded
<1>5. \A k \in short : <<k, t>> \in OpToRel(<, Nat) <=> k < t
  BY <1>1 DEF OpToRel
<1>6. \A k \in short : t <= k
  <2>1. \A k \in short : ~(k < t) /\ k \in Nat /\ t \in Nat
    BY <1>1, <1>4, <1>5
  <2>. QED
    BY <2>1
<1>7. \A n \in S : t <= m - n /\ n \in Nat /\ t \in Nat
  BY <1>1, <1>3, <1>6
<1>8. \A n \in S : n <= m - t
  BY <1>7
<1>9. \E x \in S : \A y \in S : x >= y
  BY <1>2, <1>7, <1>8
<1>10. Max(S) \in S /\ \A y \in S : Max(S) >= y
  BY <1>9 DEF Max
<1>. QED
  BY <1>7, <1>10

LEMMA ShorterFits ==
  ASSUME NEW b \in Seq(Lines), NEW a \in Seq(Lines)
  PROVE  Shorter(b, a) \in Nat /\ Shorter(b, a) <= Len(b) /\ Shorter(b, a) <= Len(a)
BY DEF Shorter

LEMMA PrefixAgrees ==
  ASSUME NEW b \in Seq(Lines), NEW a \in Seq(Lines)
  PROVE  Prefix(b, a) \in 0 .. Shorter(b, a) /\ Agree(b, a, Prefix(b, a))
<1>. DEFINE S == {n \in 0 .. Shorter(b, a) : Agree(b, a, n)}
<1>1. Shorter(b, a) \in Nat
  BY ShorterFits
<1>2. SubSeq(b, 1, 0) = <<>> /\ SubSeq(a, 1, 0) = <<>>
  OBVIOUS
<1>3. 0 \in S
  BY <1>1, <1>2 DEF Agree
<1>4. S \in SUBSET (0 .. Shorter(b, a)) /\ S # {}
  BY <1>3
<1>5. Prefix(b, a) = Max(S)
  BY DEF Prefix
<1>6. Max(S) \in S
  <2>. HIDE DEF S
  <2>. QED
    BY <1>1, <1>4, LargestIsThere
<1>. QED
  BY <1>5, <1>6

LEMMA SuffixAgrees ==
  ASSUME NEW b \in Seq(Lines), NEW a \in Seq(Lines)
  PROVE  /\ Suffix(b, a) \in 0 .. Shorter(b, a) - Prefix(b, a)
         /\ AgreeAtEnd(b, a, Suffix(b, a))
<1>. DEFINE m == Shorter(b, a) - Prefix(b, a)
            S == {n \in 0 .. m : AgreeAtEnd(b, a, n)}
<1>1. m \in Nat
  BY ShorterFits, PrefixAgrees
<1>2. \A s \in Seq(Lines) : SubSeq(s, Len(s) - 0 + 1, Len(s)) = <<>>
  OBVIOUS
<1>3. 0 \in S
  BY <1>1, <1>2 DEF AgreeAtEnd
<1>4. S \in SUBSET (0 .. m) /\ S # {}
  BY <1>3
<1>5. Suffix(b, a) = Max(S)
  BY DEF Suffix
<1>6. Max(S) \in S
  <2>. HIDE DEF S, m
  <2>. QED
    BY <1>1, <1>4, LargestIsThere
<1>. QED
  BY <1>5, <1>6

LEMMA JoinedLines ==
  ASSUME NEW s \in Seq(Lines), NEW t \in Seq(Lines)
  PROVE  /\ s \o t \in Seq(Lines) /\ Len(s \o t) = Len(s) + Len(t)
         /\ Len(s) \in Nat /\ Len(t) \in Nat
         /\ \A i \in 1 .. Len(s) : (s \o t)[i] = s[i]
         /\ \A i \in 1 .. Len(t) : (s \o t)[Len(s) + i] = t[i]
OBVIOUS

LEMMA SameLines ==
  ASSUME NEW s \in Seq(Lines), NEW t \in Seq(Lines), Len(s) = Len(t),
         \A i \in 1 .. Len(t) : s[i] = t[i]
  PROVE  s = t
OBVIOUS

(* Two pieces that follow each other in a sequence are the piece they make up. *)
LEMMA PiecesJoin ==
  ASSUME NEW s \in Seq(Lines), NEW p \in Nat, NEW q \in Nat, p <= q, q <= Len(s)
  PROVE  SubSeq(s, 1, p) \o SubSeq(s, p + 1, q) = SubSeq(s, 1, q)
<1>. DEFINE x == SubSeq(s, 1, p)
            y == SubSeq(s, p + 1, q)
            z == SubSeq(s, 1, q)
<1>1. x \in Seq(Lines) /\ Len(x) = p /\ \A i \in 1 .. p : x[i] = s[i]
  OBVIOUS
<1>2. y \in Seq(Lines) /\ Len(y) = q - p /\ \A i \in 1 .. q - p : y[i] = s[p + i]
  OBVIOUS
<1>3. z \in Seq(Lines) /\ Len(z) = q /\ \A i \in 1 .. q : z[i] = s[i]
  OBVIOUS
<1>. HIDE DEF x, y, z
<1>4. /\ x \o y \in Seq(Lines) /\ Len(x \o y) = p + (q - p)
      /\ \A i \in 1 .. p : (x \o y)[i] = x[i]
      /\ \A i \in 1 .. q - p : (x \o y)[p + i] = y[i]
  <2>1. x \in Seq(Lines) /\ y \in Seq(Lines) /\ Len(x) = p /\ Len(y) = q - p
    BY <1>1, <1>2
  <2>2. /\ x \o y \in Seq(Lines) /\ Len(x \o y) = Len(x) + Len(y)
        /\ \A i \in 1 .. Len(x) : (x \o y)[i] = x[i]
        /\ \A i \in 1 .. Len(y) : (x \o y)[Len(x) + i] = y[i]
    BY <2>1, JoinedLines
  <2>. QED
    BY <2>1, <2>2
<1>5. ASSUME NEW i \in 1 .. q
      PROVE  (x \o y)[i] = z[i]
  <2>1. CASE i \in 1 .. p
    BY <1>1, <1>3, <1>4, <2>1
  <2>2. CASE i \notin 1 .. p
    <3>1. PICK j : j = i - p
      OBVIOUS
    <3>2. j \in 1 .. q - p /\ i = p + j
      BY <2>2, <3>1
    <3>3. (x \o y)[p + j] = s[p + j]
      BY <1>2, <1>4, <3>2
    <3>. QED
      BY <1>3, <3>2, <3>3
  <2>. QED
    BY <2>1, <2>2
<1>6. x \o y = z
  <2>1. x \o y \in Seq(Lines) /\ z \in Seq(Lines) /\ Len(x \o y) = Len(z)
    BY <1>3, <1>4
  <2>2. \A i \in 1 .. Len(z) : (x \o y)[i] = z[i]
    BY <1>3, <1>5
  <2>. QED
    BY <2>1, <2>2, SameLines
<1>. QED
  BY <1>6 DEF x, y, z

(* A sequence is what comes up to a place, up to the next, and after it. *)
LEMMA CutInThree ==
  ASSUME NEW s \in Seq(Lines), NEW p \in Nat, NEW q \in Nat, p <= q, q <= Len(s)
  PROVE  SubSeq(s, 1, p) \o SubSeq(s, p + 1, q) \o SubSeq(s, q + 1, Len(s)) = s
<1>1. SubSeq(s, 1, p) \o SubSeq(s, p + 1, q) = SubSeq(s, 1, q)
  BY PiecesJoin
<1>2. SubSeq(s, 1, q) \o SubSeq(s, q + 1, Len(s)) = SubSeq(s, 1, Len(s))
  <2>1. Len(s) \in Nat /\ Len(s) <= Len(s)
    OBVIOUS
  <2>. QED
    BY <2>1, PiecesJoin
<1>3. SubSeq(s, 1, Len(s)) = s
  OBVIOUS
<1>. QED
  BY <1>1, <1>2, <1>3

(* The edit read off two sources. *)
DifferenceOf(before, after) ==
  [start |-> Prefix(before, after), end |-> Len(before) - Suffix(before, after),
   newText |-> SubSeq(after, Prefix(before, after) + 1, Len(after) - Suffix(before, after))]

(* The edit that differentialFromSources computes is an edit of the one source *)
(* and makes the other of it, for any two sources, however their lines repeat. *)
THEOREM DifferenceLeadsOver ==
  ASSUME NEW b \in Seq(Lines), NEW a \in Seq(Lines)
  PROVE  /\ DifferentialEdits(b, a) = IF b = a THEN <<>> ELSE <<DifferenceOf(b, a)>>
         /\ DifferenceOf(b, a) \in Edits
         /\ InRange(b, DifferenceOf(b, a))
         /\ Spliced(b, DifferenceOf(b, a)) = a
<1>. DEFINE p == Prefix(b, a)
            s == Suffix(b, a)
            e == DifferenceOf(b, a)
<1>1. DifferentialEdits(b, a) = IF b = a THEN <<>> ELSE <<e>>
  BY DEF DifferentialEdits, DifferenceOf
<1>2. /\ p \in Nat /\ s \in Nat /\ Len(a) \in Nat /\ Len(b) \in Nat
      /\ p <= Len(b) - s /\ p <= Len(a) - s
  <2>1. Shorter(b, a) \in Nat /\ Shorter(b, a) <= Len(b) /\ Shorter(b, a) <= Len(a)
    BY ShorterFits
  <2>2. p \in 0 .. Shorter(b, a) /\ s \in 0 .. Shorter(b, a) - p
    BY PrefixAgrees, SuffixAgrees
  <2>. HIDE DEF p, s
  <2>. QED
    BY <2>1, <2>2
<1>3. Agree(b, a, p) /\ AgreeAtEnd(b, a, s)
  BY PrefixAgrees, SuffixAgrees
<1>4. e = [start |-> p, end |-> Len(b) - s, newText |-> SubSeq(a, p + 1, Len(a) - s)]
  BY DEF DifferenceOf
<1>. HIDE DEF p, s, e
<1>5. Len(b) - s \in Nat /\ Len(a) - s \in Nat /\ Len(b) - s <= Len(b) /\ Len(a) - s <= Len(a)
  BY <1>2
<1>6. e \in Edits
  <2>1. SubSeq(a, p + 1, Len(a) - s) \in Seq(Lines)
    BY <1>2, <1>5
  <2>. QED
    BY <1>2, <1>4, <1>5, <2>1 DEF Edits
<1>7. InRange(b, e)
  BY <1>2, <1>4, <1>5 DEF InRange
<1>8. Spliced(b, e) = a
  <2>1. Spliced(b, e) = SubSeq(b, 1, p) \o SubSeq(a, p + 1, Len(a) - s)
                         \o SubSeq(b, (Len(b) - s) + 1, Len(b))
    BY <1>4 DEF Spliced
  <2>2. SubSeq(b, 1, p) = SubSeq(a, 1, p)
    BY <1>3 DEF Agree
  <2>3. SubSeq(b, (Len(b) - s) + 1, Len(b)) = SubSeq(a, (Len(a) - s) + 1, Len(a))
    BY <1>3 DEF AgreeAtEnd
  <2>4. SubSeq(a, 1, p) \o SubSeq(a, p + 1, Len(a) - s) \o SubSeq(a, (Len(a) - s) + 1, Len(a)) = a
    BY <1>2, <1>5, CutInThree
  <2>. QED
    BY <2>1, <2>2, <2>3, <2>4
<1>. QED
  BY <1>1, <1>6, <1>7, <1>8 DEF e

-----------------------------------------------------------------------------
(* Lists of one edit                                                           *)

IntEdits == [start : Int, end : Int, newText : Seq(Lines)]

LEMMA OneIsOrdered ==
  ASSUME NEW e \in IntEdits
  PROVE  Ordered(<<e>>) = <<e>> /\ ~Overlapping(<<e>>)
<1>1. DOMAIN <<e>> = {1} /\ <<e>>[1] = e /\ Len(<<e>>) = 1
  OBVIOUS
<1>2. ~Sorts(e, e)
  BY DEF Sorts, IntEdits
<1>. DEFINE before(i, j) == \/ Sorts(<<e>>[i], <<e>>[j])
                            \/ ~Sorts(<<e>>[j], <<e>>[i]) /\ i < j
            place(i) == Cardinality({j \in DOMAIN <<e>> : before(j, i)}) + 1
<1>3. place(1) = 1
  <2>1. {j \in DOMAIN <<e>> : before(j, 1)} = {}
    BY <1>1, <1>2
  <2>. QED
    BY <2>1, FS_EmptySet
<1>4. Ordered(<<e>>) = [n \in DOMAIN <<e>> |-> <<e>>[CHOOSE i \in DOMAIN <<e>> : place(i) = n]]
  BY DEF Ordered
<1>5. (CHOOSE i \in DOMAIN <<e>> : place(i) = 1) = 1
  <2>. HIDE DEF place
  <2>. QED
    BY <1>1, <1>3
<1>6. Ordered(<<e>>) = [n \in {1} |-> e]
  <2>. HIDE DEF place
  <2>1. \A n \in DOMAIN <<e>> : <<e>>[CHOOSE i \in DOMAIN <<e>> : place(i) = n] = e
    BY <1>1, <1>5
  <2>. QED
    BY <1>1, <1>4, <2>1
<1>7. [n \in {1} |-> e] = <<e>>
  BY <1>1
<1>8. ~Overlapping(<<e>>)
  BY <1>1 DEF Overlapping
<1>. QED
  BY <1>6, <1>7, <1>8


LEMMA NothingIsOrdered == Ordered(<<>>) = <<>> /\ ~Overlapping(<<>>)
<1>1. DOMAIN <<>> = {} /\ Len(<<>>) = 0
  OBVIOUS
<1>2. Ordered(<<>>) = <<>>
  BY <1>1 DEF Ordered
<1>3. ~Overlapping(<<>>)
  BY <1>1 DEF Overlapping
<1>. QED
  BY <1>2, <1>3

(* Applying an edit is splicing it, where it fits. *)
LEMMA OneIsApplied ==
  ASSUME NEW e \in IntEdits, NEW text
  PROVE  ApplyEdits(text, <<e>>) =
           IF text # Thrown /\ InRange(text, e) THEN Spliced(text, e) ELSE Thrown
<1>. DEFINE list == <<e>>
            apply(d, out) == IF out # Thrown /\ InRange(out, d) THEN Spliced(out, d) ELSE Thrown
            Folding(it) == [s \in SUBSET (DOMAIN list) |->
                              IF s = {} THEN text
                              ELSE LET x == Min(s) IN apply(list[x], it[s \ {x}])]
<1>1. DOMAIN list = {1} /\ list[1] = e
  OBVIOUS
<1>2. Ordered(list) = list /\ ~Overlapping(list)
  BY OneIsOrdered
<1>3. ApplyEdits(text, list) = (CHOOSE it : it = Folding(it))[DOMAIN list]
  <2>1. ApplyEdits(text, list) =
          LET iter[s \in SUBSET (DOMAIN list)] ==
                IF s = {} THEN text
                ELSE LET x == Min(s) IN apply(list[x], iter[s \ {x}])
          IN  iter[DOMAIN list]
    <3>. HIDE DEF list
    <3>. QED
      BY <1>2 DEF ApplyEdits, FoldRight, MapThenFoldSet
  <2>. HIDE DEF list, apply
  <2>. QED
    BY <2>1
<1>4. Min({1}) = 1
  <2>1. \E x \in {1} : \A y \in {1} : x =< y
    OBVIOUS
  <2>2. Min({1}) \in {1}
    BY <2>1 DEF Min
  <2>. QED
    BY <2>2
<1>. DEFINE told == [s \in SUBSET (DOMAIN list) |-> IF s = {} THEN text ELSE apply(e, text)]
<1>5. \A s \in SUBSET (DOMAIN list) : s = {} \/ s = {1}
  BY <1>1
<1>. HIDE DEF list, apply
<1>6. told = Folding(told)
  <2>1. told[{}] = text
    OBVIOUS
  <2>2. {1} \ {1} = {}
    OBVIOUS
  <2>3. ASSUME NEW s \in SUBSET (DOMAIN list)
        PROVE  (IF s = {} THEN text ELSE apply(e, text)) =
               (IF s = {} THEN text ELSE LET x == Min(s) IN apply(list[x], told[s \ {x}]))
    <3>1. CASE s = {}
      BY <3>1
    <3>2. CASE s = {1}
      <4>. HIDE DEF told
      <4>1. told[s \ {Min(s)}] = text /\ list[Min(s)] = e /\ s # {}
        BY <1>1, <1>4, <2>1, <2>2, <3>2
      <4>. QED
        BY <4>1
    <3>. QED
      BY <1>5, <3>1, <3>2
  <2>. QED
    BY <2>3
<1>7. PICK it : it = (CHOOSE f : f = Folding(f))
  OBVIOUS
<1>8. it = Folding(it)
  <2>. HIDE DEF Folding, told
  <2>. QED
    BY <1>6, <1>7
<1>9. it[{}] = text
  <2>1. {} \in SUBSET (DOMAIN list)
    OBVIOUS
  <2>. QED
    BY <1>8, <2>1
<1>10. it[{1}] = apply(list[1], it[{1} \ {1}])
  <2>1. {1} \in SUBSET (DOMAIN list) /\ {1} # {}
    BY <1>1
  <2>2. it[{1}] = LET x == Min({1}) IN apply(list[x], it[{1} \ {x}])
    BY <1>8, <2>1
  <2>. QED
    BY <1>4, <2>2
<1>11. {1} \ {1} = {}
  OBVIOUS
<1>12. ApplyEdits(text, list) = apply(e, text)
  BY <1>1, <1>3, <1>7, <1>9, <1>10, <1>11
<1>. QED
  BY <1>12 DEF apply, list


LEMMA NothingIsApplied ==
  ASSUME NEW text
  PROVE  ApplyEdits(text, <<>>) = text
<1>. DEFINE list == <<>>
            apply(d, out) == IF out # Thrown /\ InRange(out, d) THEN Spliced(out, d) ELSE Thrown
            Folding(it) == [s \in SUBSET (DOMAIN list) |->
                              IF s = {} THEN text
                              ELSE LET x == Min(s) IN apply(list[x], it[s \ {x}])]
            told == [s \in SUBSET (DOMAIN list) |-> text]
<1>1. DOMAIN list = {}
  OBVIOUS
<1>2. Ordered(list) = list /\ ~Overlapping(list)
  BY NothingIsOrdered
<1>3. ApplyEdits(text, list) = (CHOOSE it : it = Folding(it))[DOMAIN list]
  <2>1. ApplyEdits(text, list) =
          LET iter[s \in SUBSET (DOMAIN list)] ==
                IF s = {} THEN text
                ELSE LET x == Min(s) IN apply(list[x], iter[s \ {x}])
          IN  iter[DOMAIN list]
    <3>. HIDE DEF list
    <3>. QED
      BY <1>2 DEF ApplyEdits, FoldRight, MapThenFoldSet
  <2>. HIDE DEF list, apply
  <2>. QED
    BY <2>1
<1>. HIDE DEF list, apply
<1>4. \A s \in SUBSET (DOMAIN list) : s = {}
  BY <1>1
<1>5. told = Folding(told)
  BY <1>4
<1>6. PICK it : it = (CHOOSE f : f = Folding(f))
  OBVIOUS
<1>7. it = Folding(it)
  <2>. HIDE DEF Folding, told
  <2>. QED
    BY <1>5, <1>6
<1>8. it[{}] = text
  <2>1. {} \in SUBSET (DOMAIN list)
    OBVIOUS
  <2>. QED
    BY <1>7, <2>1
<1>9. ApplyEdits(text, list) = text
  BY <1>1, <1>3, <1>6, <1>8
<1>. QED
  BY <1>9 DEF list

LEMMA FlattenedOne ==
  ASSUME NEW t
  PROVE  FlattenSeq([i \in {1} |-> t]) = t
<1>. DEFINE seqs == [i \in {1} |-> t]
            Flat(f) == [i \in 1 .. Len(seqs) |-> IF i = 1 THEN seqs[i] ELSE f[i - 1] \o seqs[i]]
            told == [i \in 1 .. Len(seqs) |-> t]
<1>1. seqs = <<t>>
  OBVIOUS
<1>2. Len(seqs) = 1 /\ seqs[1] = t
  BY <1>1
<1>3. FlattenSeq(seqs) = (CHOOSE f : f = Flat(f))[Len(seqs)]
  <2>. HIDE DEF seqs
  <2>. QED
    BY <1>2 DEF FlattenSeq
<1>. HIDE DEF seqs
<1>4. told = Flat(told)
  BY <1>2
<1>5. PICK f : f = (CHOOSE g : g = Flat(g))
  OBVIOUS
<1>6. f = Flat(f)
  <2>. HIDE DEF Flat, told
  <2>. QED
    BY <1>4, <1>5
<1>7. f[1] = t
  BY <1>2, <1>6
<1>8. FlattenSeq(seqs) = t
  BY <1>2, <1>3, <1>5, <1>7
<1>. QED
  BY <1>8 DEF seqs

(* Rebasing a list over one edit is rebasing each of its edits. *)
LEMMA OneIsRebased ==
  ASSUME NEW ops, NEW a
  PROVE  /\ TransformEditList(ops, <<a>>).edits =
              FlattenSeq([i \in DOMAIN ops |-> TransformEdit(ops[i], a)])
         /\ TransformEditList(ops, <<a>>).conflicts =
              0 + Cardinality({i \in DOMAIN ops : Conflict(ops[i], a)})
<1>. DEFINE list == <<a>>
            start == [edits |-> ops, conflicts |-> 0]
            rebase(all, against) ==
              [edits     |-> FlattenSeq([i \in DOMAIN all.edits |->
                                           TransformEdit(all.edits[i], against)]),
               conflicts |-> all.conflicts
                 + Cardinality({i \in DOMAIN all.edits : Conflict(all.edits[i], against)})]
            Folding(it) == [s \in SUBSET (DOMAIN list) |->
                              IF s = {} THEN start
                              ELSE LET x == Max(s) IN rebase(it[s \ {x}], list[x])]
            told == [s \in SUBSET (DOMAIN list) |-> IF s = {} THEN start ELSE rebase(start, a)]
<1>1. DOMAIN list = {1} /\ list[1] = a
  OBVIOUS
<1>2. /\ rebase(start, a).edits = FlattenSeq([i \in DOMAIN ops |-> TransformEdit(ops[i], a)])
      /\ rebase(start, a).conflicts = 0 + Cardinality({i \in DOMAIN ops : Conflict(ops[i], a)})
  OBVIOUS
<1>3. TransformEditList(ops, list) = (CHOOSE it : it = Folding(it))[DOMAIN list]
  <2>1. TransformEditList(ops, list) =
          LET iter[s \in SUBSET (DOMAIN list)] ==
                IF s = {} THEN start
                ELSE LET x == Max(s) IN rebase(iter[s \ {x}], list[x])
          IN  iter[DOMAIN list]
    <3>. HIDE DEF list
    <3>. QED
      BY DEF TransformEditList, FoldLeft, MapThenFoldSet
  <2>. HIDE DEF list, rebase, start
  <2>. QED
    BY <2>1
<1>4. Max({1}) = 1
  <2>1. \E x \in {1} : \A y \in {1} : x >= y
    OBVIOUS
  <2>2. Max({1}) \in {1}
    BY <2>1 DEF Max
  <2>. QED
    BY <2>2
<1>5. \A s \in SUBSET (DOMAIN list) : s = {} \/ s = {1}
  BY <1>1
<1>. HIDE DEF list, rebase, start
<1>6. told = Folding(told)
  <2>1. told[{}] = start
    OBVIOUS
  <2>2. {1} \ {1} = {}
    OBVIOUS
  <2>3. ASSUME NEW s \in SUBSET (DOMAIN list)
        PROVE  (IF s = {} THEN start ELSE rebase(start, a)) =
               (IF s = {} THEN start ELSE LET x == Max(s) IN rebase(told[s \ {x}], list[x]))
    <3>1. CASE s = {}
      BY <3>1
    <3>2. CASE s = {1}
      <4>. HIDE DEF told
      <4>1. told[s \ {Max(s)}] = start /\ list[Max(s)] = a /\ s # {}
        BY <1>1, <1>4, <2>1, <2>2, <3>2
      <4>. QED
        BY <4>1
    <3>. QED
      BY <1>5, <3>1, <3>2
  <2>. QED
    BY <2>3
<1>7. PICK it : it = (CHOOSE f : f = Folding(f))
  OBVIOUS
<1>8. it = Folding(it)
  <2>. HIDE DEF Folding, told
  <2>. QED
    BY <1>6, <1>7
<1>9. it[{}] = start
  <2>1. {} \in SUBSET (DOMAIN list)
    OBVIOUS
  <2>. QED
    BY <1>8, <2>1
<1>10. it[{1}] = rebase(it[{1} \ {1}], list[1])
  <2>1. {1} \in SUBSET (DOMAIN list) /\ {1} # {}
    BY <1>1
  <2>2. it[{1}] = LET x == Max({1}) IN rebase(it[{1} \ {x}], list[x])
    BY <1>8, <2>1
  <2>. QED
    BY <1>4, <2>2
<1>11. {1} \ {1} = {}
  OBVIOUS
<1>12. TransformEditList(ops, list) = rebase(start, a)
  BY <1>1, <1>3, <1>7, <1>9, <1>10, <1>11
<1>. QED
  BY <1>2, <1>12 DEF list


LEMMA NothingIsRebasedOver ==
  ASSUME NEW ops
  PROVE  TransformEditList(ops, <<>>).edits = ops /\ TransformEditList(ops, <<>>).conflicts = 0
<1>. DEFINE list == <<>>
            start == [edits |-> ops, conflicts |-> 0]
            rebase(all, against) ==
              [edits     |-> FlattenSeq([i \in DOMAIN all.edits |->
                                           TransformEdit(all.edits[i], against)]),
               conflicts |-> all.conflicts
                 + Cardinality({i \in DOMAIN all.edits : Conflict(all.edits[i], against)})]
            Folding(it) == [s \in SUBSET (DOMAIN list) |->
                              IF s = {} THEN start
                              ELSE LET x == Max(s) IN rebase(it[s \ {x}], list[x])]
            told == [s \in SUBSET (DOMAIN list) |-> start]
<1>1. DOMAIN list = {}
  OBVIOUS
<1>2. start.edits = ops /\ start.conflicts = 0
  OBVIOUS
<1>3. TransformEditList(ops, list) = (CHOOSE it : it = Folding(it))[DOMAIN list]
  <2>1. TransformEditList(ops, list) =
          LET iter[s \in SUBSET (DOMAIN list)] ==
                IF s = {} THEN start
                ELSE LET x == Max(s) IN rebase(iter[s \ {x}], list[x])
          IN  iter[DOMAIN list]
    <3>. HIDE DEF list
    <3>. QED
      BY DEF TransformEditList, FoldLeft, MapThenFoldSet
  <2>. HIDE DEF list, rebase, start
  <2>. QED
    BY <2>1
<1>. HIDE DEF list, rebase, start
<1>4. \A s \in SUBSET (DOMAIN list) : s = {}
  BY <1>1
<1>5. told = Folding(told)
  BY <1>4
<1>6. PICK it : it = (CHOOSE f : f = Folding(f))
  OBVIOUS
<1>7. it = Folding(it)
  <2>. HIDE DEF Folding, told
  <2>. QED
    BY <1>5, <1>6
<1>8. it[{}] = start
  <2>1. {} \in SUBSET (DOMAIN list)
    OBVIOUS
  <2>. QED
    BY <1>7, <2>1
<1>. QED
  BY <1>1, <1>2, <1>3, <1>6, <1>8 DEF list

Few(edits) == edits = <<>> \/ \E e \in IntEdits : edits = <<e>>

LEMMA ShiftedEdit ==
  ASSUME NEW e \in IntEdits, NEW d \in Int
  PROVE  /\ Shifted(e, d) \in IntEdits
         /\ Shifted(e, d).start = e.start + d /\ Shifted(e, d).end = e.end + d
         /\ Shifted(e, d).newText = e.newText
<1>1. e = [start |-> e.start, end |-> e.end, newText |-> e.newText]
      /\ e.start \in Int /\ e.end \in Int /\ e.newText \in Seq(Lines)
  BY DEF IntEdits
<1>2. DOMAIN e = {"start", "end", "newText"}
  BY <1>1
<1>3. PICK once : once = [e EXCEPT !.start = @ + d]
  OBVIOUS
<1>4. PICK twice : twice = [once EXCEPT !.end = @ + d]
  OBVIOUS
<1>5. /\ DOMAIN once = {"start", "end", "newText"}
      /\ once.start = e.start + d /\ once.end = e.end /\ once.newText = e.newText
      /\ once = [k \in DOMAIN once |-> once[k]]
  BY <1>2, <1>3
<1>6. /\ DOMAIN twice = {"start", "end", "newText"}
      /\ twice.start = e.start + d /\ twice.end = e.end + d /\ twice.newText = e.newText
      /\ twice = [k \in DOMAIN twice |-> twice[k]]
  BY <1>4, <1>5
<1>7. twice = [start |-> e.start + d, end |-> e.end + d, newText |-> e.newText]
  BY <1>6
<1>8. twice \in IntEdits
  BY <1>1, <1>7 DEF IntEdits
<1>9. Shifted(e, d) = twice
  BY <1>3, <1>4 DEF Shifted
<1>. QED
  BY <1>6, <1>8, <1>9

LEMMA FewStayFew ==
  ASSUME NEW ops, Few(ops), NEW againsts, Few(againsts)
  PROVE  Few(TransformEditList(ops, againsts).edits)
<1>1. CASE againsts = <<>>
  BY <1>1, NothingIsRebasedOver
<1>2. ASSUME NEW a \in IntEdits, againsts = <<a>>, ops = <<>>
      PROVE  Few(TransformEditList(ops, againsts).edits)
  <2>1. [i \in DOMAIN ops |-> TransformEdit(ops[i], a)] = <<>>
    BY <1>2
  <2>2. Len(<<>>) = 0
    OBVIOUS
  <2>3. FlattenSeq(<<>>) = <<>>
    BY <2>2 DEF FlattenSeq
  <2>4. TransformEditList(ops, <<a>>).edits
        = FlattenSeq([i \in DOMAIN ops |-> TransformEdit(ops[i], a)])
    BY OneIsRebased
  <2>5. TransformEditList(ops, againsts).edits = <<>>
    BY <1>2, <2>1, <2>3, <2>4
  <2>. QED
    BY <2>5 DEF Few
<1>3. ASSUME NEW a \in IntEdits, againsts = <<a>>, NEW e \in IntEdits, ops = <<e>>
      PROVE  Few(TransformEditList(ops, againsts).edits)
  <2>1. [i \in DOMAIN ops |-> TransformEdit(ops[i], a)] = [i \in {1} |-> TransformEdit(e, a)]
    BY <1>3
  <2>2. TransformEditList(ops, againsts).edits = TransformEdit(e, a)
    BY <1>3, <2>1, OneIsRebased, FlattenedOne
  <2>3. EditLengthDelta(a) \in Int
    BY DEF EditLengthDelta, IntEdits
  <2>4. \A d \in Int : Shifted(e, d) \in IntEdits
    BY ShiftedEdit
  <2>5. TransformEdit(e, a) \in {<<Shifted(e, EditLengthDelta(a))>>, <<e>>, <<>>}
    BY DEF TransformEdit
  <2>. QED
    BY <2>2, <2>3, <2>4, <2>5 DEF Few
<1>. QED
  BY <1>1, <1>2, <1>3 DEF Few

LEMMA FewConflicts ==
  ASSUME NEW ops, Few(ops), NEW againsts, Few(againsts)
  PROVE  TransformEditList(ops, againsts).conflicts \in Nat
<1>1. CASE againsts = <<>>
  BY <1>1, NothingIsRebasedOver
<1>2. ASSUME NEW a \in IntEdits, againsts = <<a>>
      PROVE  TransformEditList(ops, againsts).conflicts \in Nat
  <2>. DEFINE met == {i \in DOMAIN ops : Conflict(ops[i], a)}
  <2>1. DOMAIN ops \subseteq {1}
    BY DEF Few
  <2>2. met \subseteq {1}
    BY <2>1
  <2>3. TransformEditList(ops, againsts).conflicts = 0 + Cardinality(met)
    BY <1>2, OneIsRebased
  <2>. HIDE DEF met
  <2>4. IsFiniteSet({1})
    BY FS_Singleton
  <2>5. IsFiniteSet(met)
    BY <2>2, <2>4, FS_Subset
  <2>6. Cardinality(met) \in Nat
    BY <2>5, FS_CardinalityType
  <2>. QED
    BY <2>3, <2>6
<1>. QED
  BY <1>1, <1>2 DEF Few

LEMMA AppliedIsASource ==
  ASSUME NEW text \in Seq(Lines), NEW edits, Few(edits)
  PROVE  ApplyEdits(text, edits) \in Seq(Lines) \cup {Thrown}
<1>1. CASE edits = <<>>
  BY <1>1, NothingIsApplied
<1>2. ASSUME NEW e \in IntEdits, edits = <<e>>
      PROVE  ApplyEdits(text, edits) \in Seq(Lines) \cup {Thrown}
  <2>1. CASE InRange(text, e)
    <3>1. /\ e.start \in Int /\ e.end \in Int /\ e.newText \in Seq(Lines)
          /\ 0 <= e.start /\ e.end <= Len(text) /\ e.start <= e.end
      BY <2>1 DEF InRange, IntEdits
    <3>2. /\ SubSeq(text, 1, e.start) \in Seq(Lines)
          /\ SubSeq(text, e.end + 1, Len(text)) \in Seq(Lines)
      BY <3>1
    <3>3. Spliced(text, e) \in Seq(Lines)
      BY <3>1, <3>2 DEF Spliced
    <3>. QED
      BY <1>2, <2>1, <3>3, OneIsApplied
  <2>2. CASE ~InRange(text, e)
    BY <1>2, <2>2, OneIsApplied
  <2>. QED
    BY <2>1, <2>2
<1>. QED
  BY <1>1, <1>2 DEF Few

LEMMA DifferencesAreFew ==
  ASSUME NEW b \in Seq(Lines), NEW a \in Seq(Lines)
  PROVE  Few(DifferentialEdits(b, a)) /\ DifferentialEdits(b, a) \in Seq(Edits)
<1>1. Edits \subseteq IntEdits
  BY DEF Edits, IntEdits
<1>2. <<>> \in Seq(Edits) /\ \A e \in Edits : <<e>> \in Seq(Edits)
  OBVIOUS
<1>3. /\ DifferentialEdits(b, a) = IF b = a THEN <<>> ELSE <<DifferenceOf(b, a)>>
      /\ DifferenceOf(b, a) \in Edits
  BY DifferenceLeadsOver
<1>4. DifferentialEdits(b, a) = <<>> \/ DifferentialEdits(b, a) = <<DifferenceOf(b, a)>>
  BY <1>3
<1>5. Few(DifferentialEdits(b, a))
  BY <1>1, <1>3, <1>4 DEF Few
<1>6. DifferentialEdits(b, a) \in Seq(Edits)
  BY <1>2, <1>3, <1>4
<1>. QED
  BY <1>5, <1>6

LEMMA OneEditIsApplied ==
  ASSUME NEW t \in Seq(Lines), NEW a \in IntEdits, InRange(t, a)
  PROVE  ApplyEdits(t, <<a>>) = Spliced(t, a)
BY OneIsApplied, ThrownAssumption

(* Applying the edit read off two sources to the one gives the other.          *)
LEMMA DifferenceIsApplied ==
  ASSUME NEW b \in Seq(Lines), NEW a \in Seq(Lines)
  PROVE  ApplyEdits(b, DifferentialEdits(b, a)) = a
<1>1. CASE b = a
  BY <1>1, DifferenceLeadsOver, NothingIsApplied
<1>2. CASE b # a
  <2>1. /\ DifferentialEdits(b, a) = <<DifferenceOf(b, a)>>
        /\ DifferenceOf(b, a) \in Edits
        /\ InRange(b, DifferenceOf(b, a))
        /\ Spliced(b, DifferenceOf(b, a)) = a
    BY <1>2, DifferenceLeadsOver
  <2>2. DifferenceOf(b, a) \in IntEdits
    BY <2>1 DEF Edits, IntEdits
  <2>. QED
    BY <2>1, <2>2, OneEditIsApplied
<1>. QED
  BY <1>1, <1>2

LEMMA EditsJoin ==
  \A s \in Seq(Edits), t \in Seq(Edits), e \in Edits :
    s \o t \in Seq(Edits) /\ Append(s, e) \in Seq(Edits)
OBVIOUS

(* Types; and at most one edit is read off the sources. *)
EditInv == EditTypeOK /\ Few(applied)

LEMMA EditStep ==
  ASSUME EditInv, [EditNext]_editVars
  PROVE  EditInv'
<1>1. ASSUME NEW planned \in Rewrites, SequenceStep(planned)
      PROVE  EditInv'
  <2>. DEFINE edits == DifferentialEdits(base, planned)
              rebased == TransformEditList(edits, applied)
              mid == ApplyEdits(current, rebased.edits)
  <2>1. /\ current # Thrown /\ current' = mid /\ base' = base
        /\ applied' = IF mid \in {Thrown, current} THEN applied ELSE DifferentialEdits(base, mid)
        /\ conflicts' = conflicts + rebased.conflicts
        /\ kept' = IF rebased.edits = <<>> THEN kept ELSE kept \o edits
        /\ steps < MaxSteps /\ steps' = steps + 1
        /\ first' = first /\ second' = second
    BY <1>1 DEF SequenceStep
  <2>2. base \in Seq(Lines) /\ planned \in Seq(Lines) /\ current \in Seq(Lines) /\ Few(applied)
    BY <2>1, SourcesAssumption DEF EditInv, EditTypeOK
  <2>3. Few(edits) /\ edits \in Seq(Edits)
    BY <2>2, DifferencesAreFew
  <2>. HIDE DEF edits
  <2>4. Few(rebased.edits) /\ rebased.conflicts \in Nat
    BY <2>2, <2>3, FewStayFew, FewConflicts
  <2>. HIDE DEF rebased
  <2>5. mid \in Seq(Lines) \cup {Thrown}
    BY <2>2, <2>4, AppliedIsASource
  <2>. HIDE DEF mid
  <2>6. Few(applied') /\ applied' \in Seq(Edits)
    BY <2>1, <2>2, <2>5, DifferencesAreFew DEF EditInv, EditTypeOK
  <2>7. Few(applied)'
    BY <2>6 DEF Few
  <2>8. kept' \in Seq(Edits)
    BY <2>1, <2>3, EditsJoin DEF EditInv, EditTypeOK
  <2>9. conflicts' \in Nat /\ steps' \in 0 .. MaxSteps
    BY <2>1, <2>4, StepsAssumption DEF EditInv, EditTypeOK
  <2>. QED
    BY <2>1, <2>2, <2>5, <2>6, <2>7, <2>8, <2>9 DEF EditInv, EditTypeOK
<1>2. ASSUME NEW s \in 0 .. Len(base), NEW e \in 0 .. Len(base), NEW new \in Insertions,
             PlanFirst([start |-> s, end |-> e, newText |-> new])
               \/ PlanSecond([start |-> s, end |-> e, newText |-> new])
      PROVE  EditInv'
  <2>. DEFINE edit == [start |-> s, end |-> e, newText |-> new]
  <2>1. edit \in Edits
    BY SourcesAssumption DEF Edits
  <2>. HIDE DEF edit
  <2>2. /\ UNCHANGED <<base, current, applied, kept, conflicts, steps>>
        /\ first' \in {first, Append(first, edit)} /\ second' \in {second, Append(second, edit)}
    BY <1>2 DEF PlanFirst, PlanSecond, edit
  <2>3. first' \in Seq(Edits) /\ second' \in Seq(Edits)
    BY <2>1, <2>2, EditsJoin DEF EditInv, EditTypeOK
  <2>. QED
    BY <2>2, <2>3 DEF EditInv, EditTypeOK, Few
<1>3. CASE UNCHANGED editVars
  BY <1>3 DEF EditInv, EditTypeOK, Few, editVars
<1>. QED
  BY <1>1, <1>2, <1>3 DEF EditNext

LEMMA EditStarts == EditInit => EditInv
<1>1. <<>> \in Seq(Edits)
  OBVIOUS
<1>. QED
  BY <1>1, SourcesAssumption, StepsAssumption DEF EditInit, EditInv, EditTypeOK, Few

(* Sources stay sources or an exception, and edits are edits of them.          *)
THEOREM EditTypesHold == EditSpec => []EditTypeOK
<1>1. EditInv => EditTypeOK
  BY DEF EditInv
<1>. QED
  BY <1>1, EditStarts, EditStep, PTL DEF EditSpec

(* However the steps of a sequence turn out, the edit read off the base and    *)
(* what has become of it, applied to the base, gives that again: what the next *)
(* step is rebased over is what was done.                                      *)
THEOREM WhatWasDoneIsReadOff == EditSpec => []DifferentialLeadsThere
<1>1. EditInv => DifferentialLeadsThere
  BY DifferenceIsApplied DEF DifferentialLeadsThere, EditInv, EditTypeOK
<1>. QED
  BY <1>1, EditStarts, EditStep, PTL DEF EditSpec

-----------------------------------------------------------------------------
(* Lists of edits                                                              *)

Applied(e, out) == IF out # Thrown /\ InRange(out, e) THEN Spliced(out, e) ELSE Thrown

(* The recursion by which a list is applied, over the edits from the n-th on.  *)
Applies(it, list, text, n) ==
  it = [s \in SUBSET (n .. Len(list)) |->
          IF s = {} THEN text
          ELSE LET x == Min(s) IN Applied(list[x], it[s \ {x}])]

LEMMA LeastIs ==
  ASSUME NEW s \in SUBSET Int, NEW n \in s, \A x \in s : n <= x
  PROVE  Min(s) = n
<1>1. \E x \in s : \A y \in s : x =< y
  OBVIOUS
<1>2. PICK x : x = Min(s)
  OBVIOUS
<1>3. x \in s /\ \A y \in s : x =< y
  BY <1>1, <1>2 DEF Min
<1>4. x \in Int /\ n \in Int /\ x <= n /\ n <= x
  BY <1>3
<1>. QED
  BY <1>2, <1>4

LEMMA OneMoreApplies ==
  ASSUME NEW list, Len(list) \in Nat, NEW text, NEW n \in 1 .. Len(list),
         NEW old, Applies(old, list, text, n + 1)
  PROVE  \E it : Applies(it, list, text, n)
<1>. DEFINE later == (n + 1) .. Len(list)
            here == n .. Len(list)
            new == [s \in SUBSET here |->
                      IF n \in s THEN Applied(list[n], old[s \ {n}]) ELSE old[s]]
<1>1. \A s \in SUBSET here : s \ {n} \in SUBSET later
  OBVIOUS
<1>2. \A s \in SUBSET later : /\ s \in SUBSET here /\ n \notin s
  OBVIOUS
<1>3. \A s \in SUBSET here : n \in s => Min(s) = n
  <2>1. ASSUME NEW s \in SUBSET here, n \in s
        PROVE  Min(s) = n
    <3>1. s \in SUBSET Int /\ \A x \in s : n <= x
      OBVIOUS
    <3>. QED
      BY <2>1, <3>1, LeastIs
  <2>. QED
    BY <2>1
<1>4. \A s \in SUBSET here : n \notin s => s \in SUBSET later
  OBVIOUS
<1>5. \A s \in SUBSET later :
        old[s] = IF s = {} THEN text
                 ELSE LET x == Min(s) IN Applied(list[x], old[s \ {x}])
  BY DEF Applies
<1>. HIDE DEF later, here
<1>6. \A s \in SUBSET later : new[s] = old[s]
  BY <1>2
<1>7. ASSUME NEW s \in SUBSET here
      PROVE  new[s] = IF s = {} THEN text
                      ELSE LET x == Min(s) IN Applied(list[x], new[s \ {x}])
  <2>1. CASE n \in s
    <3>1. new[s] = Applied(list[n], old[s \ {n}])
      BY <2>1
    <3>2. new[s \ {n}] = old[s \ {n}]
      BY <1>1, <1>6
    <3>. HIDE DEF new
    <3>. QED
      BY <1>3, <2>1, <3>1, <3>2
  <2>2. CASE n \notin s
    <3>1. s \in SUBSET later /\ new[s] = old[s]
      BY <1>4, <1>6, <2>2
    <3>2. \A x : new[s \ {x}] = old[s \ {x}]
      BY <1>6, <3>1
    <3>. HIDE DEF new
    <3>. QED
      BY <1>5, <3>1, <3>2
  <2>. QED
    BY <2>1, <2>2
<1>8. new = [s \in SUBSET here |->
               IF s = {} THEN text
               ELSE LET x == Min(s) IN Applied(list[x], new[s \ {x}])]
  <2>1. new = [s \in SUBSET here |-> new[s]]
    OBVIOUS
  <2>. HIDE DEF new
  <2>. QED
    BY <1>7, <2>1
<1>9. PICK it : it = new
  OBVIOUS
<1>. HIDE DEF new
<1>. QED
  BY <1>8, <1>9 DEF Applies, here

LEMMA ListsApply ==
  ASSUME NEW list, Len(list) \in Nat, NEW text
  PROVE  \E it : Applies(it, list, text, 1)
<1>. DEFINE Bad == {k \in 0 .. Len(list) : ~\E it : Applies(it, list, text, Len(list) + 1 - k)}
<1>1. CASE Bad = {}
  <2>1. Len(list) \in 0 .. Len(list) /\ Len(list) + 1 - Len(list) = 1
    OBVIOUS
  <2>. QED
    BY <1>1, <2>1
<1>2. CASE Bad # {}
  <2>1. Bad \subseteq Nat
    OBVIOUS
  <2>2. PICK m \in Bad : \A k \in Bad : ~(<<k, m>> \in OpToRel(<, Nat))
    <3>. HIDE DEF Bad
    <3>. QED
      BY <1>2, <2>1, WFMin, NatLessThanWellFounded
  <2>3. CASE m = 0
    <3>1. (Len(list) + 1) .. Len(list) = {}
      OBVIOUS
    <3>2. \A s \in SUBSET {} : s = {}
      OBVIOUS
    <3>3. PICK it : it = [s \in SUBSET {} |-> text]
      OBVIOUS
    <3>4. Applies(it, list, text, Len(list) + 1)
      BY <3>1, <3>2, <3>3 DEF Applies
    <3>. QED
      BY <2>3, <3>4
  <2>4. CASE m # 0
    <3>1. m - 1 \in 0 .. Len(list) /\ m - 1 < m /\ m \in Nat /\ m - 1 \in Nat
      BY <2>1, <2>4
    <3>2. m - 1 \notin Bad
      <4>. HIDE DEF Bad
      <4>. QED
        BY <2>2, <3>1 DEF OpToRel
    <3>3. PICK old : Applies(old, list, text, Len(list) + 1 - (m - 1))
      BY <3>1, <3>2
    <3>4. PICK n : n = Len(list) + 1 - m
      OBVIOUS
    <3>5. n \in 1 .. Len(list) /\ n + 1 = Len(list) + 1 - (m - 1)
      BY <2>4, <3>1, <3>4
    <3>6. \E it : Applies(it, list, text, n)
      BY <3>3, <3>5, OneMoreApplies
    <3>. QED
      BY <3>4, <3>6
  <2>. QED
    BY <2>3, <2>4
<1>. QED
  BY <1>1, <1>2

(* Applying a list is applying its edits one by one, from the last on.         *)
InTurn(f, list, text) ==
  /\ f[Len(list) + 1] = text
  /\ \A i \in 1 .. Len(list) : f[i] = Applied(list[i], f[i + 1])

LEMMA AppliedInTurn ==
  ASSUME NEW edits, NEW list, Ordered(edits) = list, ~Overlapping(list),
         Len(list) \in Nat, DOMAIN list = 1 .. Len(list), NEW text
  PROVE  \E f : InTurn(f, list, text) /\ ApplyEdits(text, edits) = f[1]
<1>. DEFINE apply(d, out) == IF out # Thrown /\ InRange(out, d) THEN Spliced(out, d) ELSE Thrown
            Folding(it) == [s \in SUBSET (DOMAIN list) |->
                              IF s = {} THEN text
                              ELSE LET x == Min(s) IN apply(list[x], it[s \ {x}])]
<1>1. ApplyEdits(text, edits) = (CHOOSE it : it = Folding(it))[DOMAIN list]
  <2>1. ApplyEdits(text, edits) =
          LET iter[s \in SUBSET (DOMAIN list)] ==
                IF s = {} THEN text
                ELSE LET x == Min(s) IN apply(list[x], iter[s \ {x}])
          IN  iter[DOMAIN list]
    BY DEF ApplyEdits, FoldRight, MapThenFoldSet
  <2>. HIDE DEF apply
  <2>. QED
    BY <2>1
<1>2. \A it : it = Folding(it) <=> Applies(it, list, text, 1)
  BY DEF Applies, Applied
<1>. HIDE DEF Folding
<1>3. \E it : it = Folding(it)
  BY <1>2, ListsApply
<1>4. PICK it : it = (CHOOSE f : f = Folding(f))
  OBVIOUS
<1>5. it = Folding(it)
  BY <1>3, <1>4
<1>6. Applies(it, list, text, 1)
  BY <1>2, <1>5
<1>7. \A s \in SUBSET (1 .. Len(list)) :
        it[s] = IF s = {} THEN text ELSE LET x == Min(s) IN Applied(list[x], it[s \ {x}])
  BY <1>6 DEF Applies
<1>8. PICK f : f = [i \in 1 .. Len(list) + 1 |-> it[i .. Len(list)]]
  OBVIOUS
<1>9. f[Len(list) + 1] = text
  <2>1. (Len(list) + 1) .. Len(list) = {} /\ Len(list) + 1 \in 1 .. Len(list) + 1
        /\ {} \in SUBSET (1 .. Len(list))
    OBVIOUS
  <2>. QED
    BY <1>7, <1>8, <2>1
<1>10. ASSUME NEW i \in 1 .. Len(list)
       PROVE  f[i] = Applied(list[i], f[i + 1])
  <2>1. /\ i .. Len(list) \in SUBSET (1 .. Len(list)) /\ i \in i .. Len(list)
        /\ (i .. Len(list)) \ {i} = (i + 1) .. Len(list)
        /\ i \in 1 .. Len(list) + 1 /\ i + 1 \in 1 .. Len(list) + 1
    OBVIOUS
  <2>2. Min(i .. Len(list)) = i
    <3>1. i .. Len(list) \in SUBSET Int /\ \A x \in i .. Len(list) : i <= x
      OBVIOUS
    <3>. QED
      BY <2>1, <3>1, LeastIs
  <2>3. it[i .. Len(list)] = Applied(list[i], it[(i .. Len(list)) \ {i}])
    BY <1>7, <2>1, <2>2
  <2>. QED
    BY <1>8, <2>1, <2>3
<1>11. f[1] = ApplyEdits(text, edits)
  BY <1>1, <1>4, <1>8
<1>12. InTurn(f, list, text)
  BY <1>9, <1>10 DEF InTurn
<1>. QED
  BY <1>11, <1>12

(* Splicing, line by line.                                                     *)
LEMMA SplicedLines ==
  ASSUME NEW t \in Seq(Lines), NEW e \in IntEdits, InRange(t, e)
  PROVE  /\ Spliced(t, e) \in Seq(Lines)
         /\ Len(t) \in Nat /\ Len(e.newText) \in Nat /\ e.start \in Nat /\ e.end \in Nat
         /\ Len(Spliced(t, e)) = Len(t) + EditLengthDelta(e)
         /\ EditLengthDelta(e) \in Int
         /\ \A i \in 1 .. Len(Spliced(t, e)) :
              Spliced(t, e)[i] = IF i <= e.start THEN t[i]
                                 ELSE IF i <= e.start + Len(e.newText) THEN e.newText[i - e.start]
                                 ELSE t[i - EditLengthDelta(e)]
<1>. DEFINE x == SubSeq(t, 1, e.start)
            y == SubSeq(t, e.end + 1, Len(t))
            n == e.newText
            d == EditLengthDelta(e)
<1>1. /\ Len(t) \in Nat /\ Len(n) \in Nat /\ n \in Seq(Lines)
      /\ e.start \in Nat /\ e.end \in Nat /\ e.start <= e.end /\ e.end <= Len(t)
  BY DEF InRange, IntEdits
<1>2. d \in Int /\ d = Len(n) - (e.end - e.start)
  BY <1>1 DEF EditLengthDelta
<1>3. x \in Seq(Lines) /\ Len(x) = e.start /\ \A i \in 1 .. e.start : x[i] = t[i]
  BY <1>1
<1>4. y \in Seq(Lines) /\ Len(y) = Len(t) - e.end /\ \A i \in 1 .. Len(t) - e.end : y[i] = t[e.end + i]
  BY <1>1
<1>5. Spliced(t, e) = (x \o n) \o y
  BY DEF Spliced
<1>. HIDE DEF x, y, n, d
<1>6. /\ x \o n \in Seq(Lines) /\ Len(x \o n) = e.start + Len(n)
      /\ \A i \in 1 .. Len(x) : (x \o n)[i] = x[i]
      /\ \A i \in 1 .. Len(n) : (x \o n)[Len(x) + i] = n[i]
  <2>1. /\ x \o n \in Seq(Lines) /\ Len(x \o n) = Len(x) + Len(n)
        /\ \A i \in 1 .. Len(x) : (x \o n)[i] = x[i]
        /\ \A i \in 1 .. Len(n) : (x \o n)[Len(x) + i] = n[i]
    BY <1>1, <1>3, JoinedLines
  <2>2. Len(x) = e.start
    BY <1>3
  <2>. QED
    BY <2>1, <2>2
<1>7. PICK xn : xn = x \o n
  OBVIOUS
<1>8. /\ xn \o y \in Seq(Lines) /\ Len(xn \o y) = Len(xn) + Len(y)
      /\ \A i \in 1 .. Len(xn) : (xn \o y)[i] = xn[i]
      /\ \A i \in 1 .. Len(y) : (xn \o y)[Len(xn) + i] = y[i]
  <2>1. xn \in Seq(Lines) /\ y \in Seq(Lines)
    BY <1>4, <1>6, <1>7
  <2>. QED
    BY <2>1, JoinedLines
<1>9. PICK z : z = Spliced(t, e)
  OBVIOUS
<1>10. /\ z \in Seq(Lines) /\ Len(z) = e.start + Len(n) + (Len(t) - e.end)
       /\ \A i \in 1 .. e.start : z[i] = t[i]
       /\ \A i \in 1 .. Len(n) : z[e.start + i] = n[i]
       /\ \A i \in 1 .. Len(t) - e.end : z[e.start + Len(n) + i] = t[e.end + i]
  <2>1. z = xn \o y
    BY <1>5, <1>7, <1>9
  <2>2. Len(xn) = e.start + Len(n) /\ Len(x) = e.start
    BY <1>3, <1>6, <1>7
  <2>3. z \in Seq(Lines) /\ Len(z) = e.start + Len(n) + (Len(t) - e.end)
    BY <1>4, <1>8, <2>1, <2>2
  <2>4. ASSUME NEW i \in 1 .. e.start PROVE z[i] = t[i]
    <3>1. i \in 1 .. Len(xn) /\ i \in 1 .. Len(x)
      BY <1>1, <2>2
    <3>. QED
      BY <1>3, <1>6, <1>7, <1>8, <2>1, <3>1
  <2>5. ASSUME NEW i \in 1 .. Len(n) PROVE z[e.start + i] = n[i]
    <3>1. e.start + i \in 1 .. Len(xn) /\ e.start + i = Len(x) + i
      BY <1>1, <2>2
    <3>. QED
      BY <1>6, <1>7, <1>8, <2>1, <3>1
  <2>6. ASSUME NEW i \in 1 .. Len(t) - e.end PROVE z[e.start + Len(n) + i] = t[e.end + i]
    <3>1. i \in 1 .. Len(y) /\ e.start + Len(n) + i = Len(xn) + i
      BY <1>4, <2>2
    <3>. QED
      BY <1>4, <1>8, <2>1, <3>1
  <2>7. \A i \in 1 .. e.start : z[i] = t[i]
    BY <2>4
  <2>8. \A i \in 1 .. Len(n) : z[e.start + i] = n[i]
    BY <2>5
  <2>9. \A i \in 1 .. Len(t) - e.end : z[e.start + Len(n) + i] = t[e.end + i]
    BY <2>6
  <2>. QED
    BY <2>3, <2>7, <2>8, <2>9
<1>11. Len(z) = Len(t) + d
  <2>1. Len(z) = e.start + Len(n) + (Len(t) - e.end)
    BY <1>10
  <2>2. d = Len(n) - (e.end - e.start) /\ Len(n) \in Nat /\ Len(t) \in Nat /\ e.start \in Int /\ e.end \in Int
    BY <1>1, <1>2
  <2>3. \A p, q, l, m \in Int : p + l + (m - q) = m + (l - (q - p))
    OBVIOUS
  <2>. QED
    BY <2>1, <2>2, <2>3
<1>12. ASSUME NEW i \in 1 .. Len(z)
       PROVE  z[i] = IF i <= e.start THEN t[i]
                     ELSE IF i <= e.start + Len(n) THEN n[i - e.start] ELSE t[i - d]
  <2>1. CASE i <= e.start
    BY <1>1, <1>10, <2>1
  <2>2. CASE ~(i <= e.start) /\ i <= e.start + Len(n)
    <3>1. PICK j : j = i - e.start
      OBVIOUS
    <3>2. j \in 1 .. Len(n) /\ i = e.start + j
      BY <1>1, <2>2, <3>1
    <3>. QED
      BY <1>10, <2>2, <3>1, <3>2
  <2>3. CASE ~(i <= e.start) /\ ~(i <= e.start + Len(n))
    <3>1. PICK j : j = i - (e.start + Len(n))
      OBVIOUS
    <3>2. j \in 1 .. Len(t) - e.end /\ i = e.start + Len(n) + j /\ e.end + j = i - d
      <4>1. i \in Int /\ i <= e.start + Len(n) + (Len(t) - e.end)
        BY <1>10
      <4>2. \A p, q, l, m \in Nat, k \in Int :
              k <= p + l + (m - q) /\ ~(k <= p + l) =>
                k - (p + l) \in 1 .. m - q /\ k = p + l + (k - (p + l))
                /\ q + (k - (p + l)) = k - (l - (q - p))
        OBVIOUS
      <4>3. PICK p, q, l, m : p = e.start /\ q = e.end /\ l = Len(n) /\ m = Len(t)
        OBVIOUS
      <4>4. /\ p \in Nat /\ q \in Nat /\ l \in Nat /\ m \in Nat
            /\ i <= p + l + (m - q) /\ ~(i <= p + l) /\ j = i - (p + l) /\ d = l - (q - p)
        BY <1>1, <1>2, <2>3, <3>1, <4>1, <4>3
      <4>5. j \in 1 .. m - q /\ i = p + l + j /\ q + j = i - d
        BY <4>1, <4>2, <4>4
      <4>. QED
        BY <4>3, <4>5
    <3>3. z[i] = t[i - d]
      BY <1>10, <3>2
    <3>. QED
      BY <2>3, <3>3
  <2>. QED
    BY <2>1, <2>2, <2>3
<1>. QED
  BY <1>1, <1>2, <1>9, <1>10, <1>11, <1>12 DEF n, d

(* What holds of n, and of i whenever of i + 1, holds down to 1.               *)
LEMMA DownToOne ==
  ASSUME NEW n \in Nat, NEW S, n \in S,
         \A i \in 1 .. n - 1 : i + 1 \in S => i \in S
  PROVE  \A i \in 1 .. n : i \in S
<1>. DEFINE Bad == {j \in 0 .. n - 1 : n - j \notin S}
<1>1. ASSUME Bad # {}
      PROVE  FALSE
  <2>1. Bad \subseteq Nat
    OBVIOUS
  <2>2. PICK m \in Bad : \A k \in Bad : ~(<<k, m>> \in OpToRel(<, Nat))
    <3>. HIDE DEF Bad
    <3>. QED
      BY <1>1, <2>1, WFMin, NatLessThanWellFounded
  <2>3. m \in 0 .. n - 1 /\ n - m \notin S /\ m \in Nat
    OBVIOUS
  <2>4. m # 0
    BY <2>3
  <2>5. m - 1 \in Nat /\ m - 1 \in 0 .. n - 1 /\ m - 1 < m
    BY <2>3, <2>4
  <2>6. m - 1 \notin Bad
    <3>. HIDE DEF Bad
    <3>. QED
      BY <2>2, <2>3, <2>5 DEF OpToRel
  <2>7. n - (m - 1) \in S
    BY <2>5, <2>6
  <2>8. n - m \in 1 .. n - 1 /\ (n - m) + 1 = n - (m - 1)
    BY <2>3, <2>4
  <2>. QED
    BY <2>3, <2>7, <2>8
<1>2. ASSUME NEW i \in 1 .. n
      PROVE  i \in S
  <2>1. PICK j : j = n - i
    OBVIOUS
  <2>2. j \in 0 .. n - 1 /\ n - j = i
    BY <2>1
  <2>. QED
    BY <1>1, <2>2
<1>. QED
  BY <1>2

(* Edit j comes before edit i of a list that is put in order. *)
Precedes(list, j, i) ==
  Sorts(list[j], list[i]) \/ (~Sorts(list[i], list[j]) /\ j < i)

(* A list is in order by the ranks of its edits, where those before each are   *)
(* the edits of an interval.                                                   *)
Ranked(list, n, rank, at, lo, hi) ==
  /\ n \in Nat /\ DOMAIN list = 1 .. n
  /\ \A i \in 1 .. n : rank[i] \in 1 .. n /\ at[rank[i]] = i
  /\ \A m \in 1 .. n : at[m] \in 1 .. n /\ rank[at[m]] = m
  /\ \A i \in 1 .. n : /\ lo[i] \in Int /\ hi[i] \in Int /\ 1 <= lo[i] /\ hi[i] <= n
                        /\ lo[i] <= hi[i] + 1 /\ hi[i] + 1 - lo[i] = rank[i] - 1
                        /\ \A j \in 1 .. n : Precedes(list, j, i) <=> j \in lo[i] .. hi[i]

LEMMA RanksOrder ==
  ASSUME NEW list, NEW n, NEW rank, NEW at, NEW lo, NEW hi, Ranked(list, n, rank, at, lo, hi)
  PROVE  Ordered(list) = [m \in 1 .. n |-> list[at[m]]]
<1>0. /\ n \in Nat /\ DOMAIN list = 1 .. n
      /\ \A i \in 1 .. n : rank[i] \in 1 .. n /\ at[rank[i]] = i
      /\ \A m \in 1 .. n : at[m] \in 1 .. n /\ rank[at[m]] = m
      /\ \A i \in 1 .. n : /\ lo[i] \in Int /\ hi[i] \in Int /\ 1 <= lo[i] /\ hi[i] <= n
                            /\ lo[i] <= hi[i] + 1 /\ hi[i] + 1 - lo[i] = rank[i] - 1
                            /\ \A j \in 1 .. n : Precedes(list, j, i) <=> j \in lo[i] .. hi[i]
  BY DEF Ranked
<1>. DEFINE before(i, j) == \/ Sorts(list[i], list[j])
                            \/ ~Sorts(list[j], list[i]) /\ i < j
            place(i) == Cardinality({j \in DOMAIN list : before(j, i)}) + 1
<1>1. Ordered(list) = [m \in DOMAIN list |-> list[CHOOSE i \in DOMAIN list : place(i) = m]]
  BY DEF Ordered
<1>2. ASSUME NEW i \in 1 .. n
      PROVE  place(i) = rank[i]
  <2>1. {j \in DOMAIN list : before(j, i)} = lo[i] .. hi[i]
    <3>1. \A j \in 1 .. n : before(j, i) <=> j \in lo[i] .. hi[i]
      BY <1>0 DEF Precedes
    <3>2. lo[i] \in Int /\ hi[i] \in Int /\ 1 <= lo[i] /\ hi[i] <= n /\ n \in Nat
      BY <1>0
    <3>3. \A j \in lo[i] .. hi[i] : j \in 1 .. n
      BY <3>2
    <3>. HIDE DEF before
    <3>. QED
      BY <1>0, <3>1, <3>3
  <2>2. PICK l, h, r : l = lo[i] /\ h = hi[i] /\ r = rank[i]
    OBVIOUS
  <2>3. l \in Int /\ h \in Int /\ r \in Int /\ l <= h + 1 /\ h + 1 - l = r - 1
    BY <1>0, <2>2
  <2>4. Cardinality(l .. h) = IF l > h THEN 0 ELSE h - l + 1
    BY <2>3, FS_Interval
  <2>5. Cardinality(l .. h) + 1 = r
    BY <2>3, <2>4
  <2>6. place(i) = Cardinality(l .. h) + 1
    BY <2>1, <2>2
  <2>. HIDE DEF place
  <2>. QED
    BY <2>2, <2>5, <2>6
<1>. HIDE DEF place
<1>3. ASSUME NEW m \in 1 .. n
      PROVE  (CHOOSE i \in DOMAIN list : place(i) = m) = at[m]
  <2>1. at[m] \in DOMAIN list /\ place(at[m]) = m
    BY <1>0, <1>2
  <2>2. \A i \in DOMAIN list : place(i) = m => i = at[m]
    BY <1>0, <1>2
  <2>. QED
    BY <2>1, <2>2
<1>4. \A m \in DOMAIN list : list[CHOOSE i \in DOMAIN list : place(i) = m] = list[at[m]]
  BY <1>0, <1>3
<1>5. Ordered(list) = [m \in DOMAIN list |-> list[at[m]]]
  BY <1>1, <1>4
<1>. QED
  BY <1>0, <1>5

(* Edits that follow each other.                                               *)
Chained(list) ==
  \A i \in 1 .. Len(list) :
    /\ list[i].start <= list[i].end
    /\ \A j \in 1 .. Len(list) : i < j => list[i].end <= list[j].start

LEMMA FollowsSorts ==
  ASSUME NEW d \in IntEdits, NEW e \in IntEdits, d.start <= d.end, e.start <= e.end,
         d.end <= e.start
  PROVE  ~Sorts(e, d) /\ (~(e.end <= d.start) => Sorts(d, e))
BY DEF Sorts, IntEdits

LEMMA ChainIsOrdered ==
  ASSUME NEW list \in Seq(IntEdits), Chained(list)
  PROVE  Ordered(list) = list /\ ~Overlapping(list)
<1>1. PICK n : n = Len(list)
  OBVIOUS
<1>2. n \in Nat /\ DOMAIN list = 1 .. n /\ \A i \in 1 .. n : list[i] \in IntEdits
  BY <1>1
<1>3. ASSUME NEW i \in 1 .. n, NEW j \in 1 .. n
      PROVE  Precedes(list, j, i) <=> j \in 1 .. i - 1
  <2>1. list[i] \in IntEdits /\ list[j] \in IntEdits /\ list[i].start <= list[i].end
        /\ list[j].start <= list[j].end
    BY <1>1, <1>2 DEF Chained
  <2>2. CASE j < i
    <3>1. list[j].end <= list[i].start
      BY <1>1, <2>2 DEF Chained
    <3>2. ~Sorts(list[i], list[j])
      BY <2>1, <3>1, FollowsSorts
    <3>. QED
      BY <2>2, <3>2 DEF Precedes
  <2>3. CASE i < j
    <3>1. list[i].end <= list[j].start
      BY <1>1, <2>3 DEF Chained
    <3>2. ~Sorts(list[j], list[i])
      BY <2>1, <3>1, FollowsSorts
    <3>. QED
      BY <2>3, <3>2 DEF Precedes
  <2>4. CASE i = j
    <3>1. ~Sorts(list[i], list[j])
      BY <2>1, <2>4 DEF Sorts, IntEdits
    <3>. QED
      BY <2>4, <3>1 DEF Precedes
  <2>. QED
    BY <2>2, <2>3, <2>4
<1>4. PICK id : id = [i \in 1 .. n |-> i]
  OBVIOUS
<1>5. PICK lo : lo = [i \in 1 .. n |-> 1]
  OBVIOUS
<1>6. PICK hi : hi = [i \in 1 .. n |-> i - 1]
  OBVIOUS
<1>7. Ranked(list, n, id, id, lo, hi)
  <2>1. \A i \in 1 .. n : id[i] \in 1 .. n /\ id[id[i]] = i
    BY <1>4
  <2>2. \A i \in 1 .. n : /\ lo[i] \in Int /\ hi[i] \in Int /\ 1 <= lo[i] /\ hi[i] <= n
                          /\ lo[i] <= hi[i] + 1 /\ hi[i] + 1 - lo[i] = id[i] - 1
                          /\ \A j \in 1 .. n : Precedes(list, j, i) <=> j \in lo[i] .. hi[i]
    BY <1>2, <1>3, <1>4, <1>5, <1>6
  <2>. QED
    BY <1>2, <2>1, <2>2 DEF Ranked
<1>9. Ordered(list) = [m \in 1 .. n |-> list[id[m]]]
  BY <1>7, RanksOrder
<1>10. [m \in 1 .. n |-> list[id[m]]] = list
  BY <1>1, <1>2, <1>4
<1>11. ~Overlapping(list)
  <2>. SUFFICES ASSUME NEW i \in 2 .. Len(list) PROVE ~(list[i].start < list[i - 1].end)
    BY DEF Overlapping
  <2>1. i - 1 \in 1 .. Len(list) /\ i \in 1 .. Len(list) /\ i - 1 < i
    BY <1>1, <1>2
  <2>2. list[i - 1].end <= list[i].start
    BY <2>1 DEF Chained
  <2>3. list[i - 1].end \in Int /\ list[i].start \in Int
    BY <1>1, <1>2, <2>1 DEF IntEdits
  <2>. QED
    BY <2>2, <2>3
<1>. QED
  BY <1>9, <1>10, <1>11


(* The list with one edit put where it belongs among the edits of another.     *)
Inserted(a, b, k) ==
  [m \in 1 .. Len(b) + 1 |-> IF m <= k THEN b[m] ELSE IF m = k + 1 THEN a ELSE b[m - 1]]

(* The edits up to the k-th come before a, the others after it.                *)
Splits(a, b, k) ==
  /\ k \in 0 .. Len(b)
  /\ a.start <= a.end
  /\ \A i \in 1 .. Len(b) : IF i <= k THEN b[i].end <= a.start /\ ~(a.end <= b[i].start)
                            ELSE a.end <= b[i].start

LEMMA InsertedChains ==
  ASSUME NEW a \in IntEdits, NEW b \in Seq(IntEdits), Chained(b), NEW k, Splits(a, b, k)
  PROVE  /\ Inserted(a, b, k) \in Seq(IntEdits)
         /\ Len(Inserted(a, b, k)) = Len(b) + 1
         /\ Chained(Inserted(a, b, k))
<1>1. PICK n : n = Len(b)
  OBVIOUS
<1>2. n \in Nat /\ k \in 0 .. n /\ \A i \in 1 .. n : b[i] \in IntEdits
  BY <1>1 DEF Splits
<1>3. PICK c : c = Inserted(a, b, k)
  OBVIOUS
<1>4. c = [m \in 1 .. n + 1 |-> IF m <= k THEN b[m] ELSE IF m = k + 1 THEN a ELSE b[m - 1]]
  BY <1>1, <1>3 DEF Inserted
<1>5. /\ \A m \in 1 .. n + 1 : m <= k => m \in 1 .. n /\ c[m] = b[m]
      /\ k + 1 \in 1 .. n + 1 /\ c[k + 1] = a
      /\ \A m \in 1 .. n + 1 : k + 1 < m => m - 1 \in 1 .. n /\ k < m - 1 /\ c[m] = b[m - 1]
  BY <1>2, <1>4
<1>6. \A m \in 1 .. n + 1 : m <= k \/ m = k + 1 \/ k + 1 < m
  BY <1>2
<1>7. \A m \in 1 .. n + 1 : c[m] \in IntEdits
  BY <1>2, <1>5, <1>6
<1>8. c \in Seq(IntEdits) /\ Len(c) = n + 1
  <2>1. n + 1 \in Nat /\ c \in [1 .. n + 1 -> IntEdits]
    BY <1>2, <1>4, <1>7
  <2>. QED
    BY <2>1
<1>9. ASSUME NEW i \in 1 .. n + 1
      PROVE  c[i].start <= c[i].end
  BY <1>1, <1>5, <1>6 DEF Chained, Splits
<1>10. ASSUME NEW i \in 1 .. n + 1, NEW j \in 1 .. n + 1, i < j
       PROVE  c[i].end <= c[j].start
  <2>1. CASE j <= k
    <3>1. i <= k
      BY <1>2, <1>10, <2>1
    <3>. QED
      BY <1>1, <1>5, <1>10, <2>1, <3>1 DEF Chained
  <2>2. CASE j = k + 1
    <3>1. i <= k
      BY <1>2, <1>10, <2>2
    <3>. QED
      BY <1>1, <1>5, <2>2, <3>1 DEF Splits
  <2>3. CASE k + 1 < j
    <3>1. c[j] = b[j - 1] /\ j - 1 \in 1 .. n /\ k < j - 1
      BY <1>5, <2>3
    <3>2. CASE i <= k
      <4>1. c[i] = b[i] /\ i \in 1 .. n /\ i < j - 1
        BY <1>2, <1>5, <2>3, <3>2
      <4>. QED
        BY <1>1, <3>1, <4>1 DEF Chained
    <3>3. CASE i = k + 1
      <4>1. ~(j - 1 <= k)
        BY <1>2, <3>1
      <4>. QED
        BY <1>1, <1>5, <3>1, <3>3, <4>1 DEF Splits
    <3>4. CASE k + 1 < i
      <4>1. c[i] = b[i - 1] /\ i - 1 \in 1 .. n /\ i - 1 < j - 1
        BY <1>2, <1>5, <1>10, <3>4
      <4>. QED
        BY <1>1, <3>1, <4>1 DEF Chained
    <3>. QED
      BY <1>6, <3>2, <3>3, <3>4
  <2>. QED
    BY <1>6, <2>1, <2>2, <2>3
<1>11. Chained(c)
  BY <1>8, <1>9, <1>10 DEF Chained
<1>. QED
  BY <1>1, <1>3, <1>8, <1>11

(* An edit given before a list is put among its edits.                         *)
LEMMA InsertedIsOrdered ==
  ASSUME NEW a \in IntEdits, NEW b \in Seq(IntEdits), Chained(b), NEW k, Splits(a, b, k)
  PROVE  Ordered(<<a>> \o b) = Inserted(a, b, k)
<1>1. PICK n : n = Len(b)
  OBVIOUS
<1>2. n \in Nat /\ k \in 0 .. n /\ \A i \in 1 .. n : b[i] \in IntEdits /\ b[i].start <= b[i].end
  BY <1>1 DEF Splits, Chained
<1>3. PICK list : list = <<a>> \o b
  OBVIOUS
<1>4. DOMAIN list = 1 .. n + 1 /\ list[1] = a /\ \A i \in 1 .. n : list[i + 1] = b[i]
  BY <1>1, <1>3
<1>5. ASSUME NEW i \in 2 .. n + 1
      PROVE  i - 1 \in 1 .. n /\ list[i] = b[i - 1]
  <2>1. i - 1 \in 1 .. n /\ (i - 1) + 1 = i
    BY <1>2
  <2>. QED
    BY <1>4, <2>1
<1>6. a.start <= a.end
  BY DEF Splits
<1>7. ~Precedes(list, 1, 1)
  BY <1>4, <1>6 DEF Precedes, Sorts, IntEdits
<1>8. ASSUME NEW i \in 2 .. n + 1
      PROVE  /\ Precedes(list, i, 1) <=> i <= k + 1
             /\ Precedes(list, 1, i) <=> k + 1 < i
  <2>1. i - 1 \in 1 .. n /\ list[i] = b[i - 1] /\ list[1] = a
    BY <1>4, <1>5
  <2>2. b[i - 1] \in IntEdits /\ b[i - 1].start <= b[i - 1].end
    BY <1>2, <2>1
  <2>3. CASE i <= k + 1
    <3>1. i - 1 <= k
      BY <1>2, <2>3
    <3>2. b[i - 1].end <= a.start /\ ~(a.end <= b[i - 1].start)
      BY <1>1, <2>1, <3>1 DEF Splits
    <3>3. Sorts(b[i - 1], a) /\ ~Sorts(a, b[i - 1])
      BY <1>6, <2>2, <3>2, FollowsSorts
    <3>4. ~(k + 1 < i)
      BY <1>2, <2>3
    <3>. QED
      BY <2>1, <2>3, <3>3, <3>4 DEF Precedes
  <2>4. CASE ~(i <= k + 1)
    <3>1. ~(i - 1 <= k) /\ k + 1 < i /\ 1 < i /\ ~(i < 1)
      BY <1>2, <2>4
    <3>2. a.end <= b[i - 1].start
      BY <1>1, <2>1, <3>1 DEF Splits
    <3>3. ~Sorts(b[i - 1], a)
      BY <1>6, <2>2, <3>2, FollowsSorts
    <3>. QED
      BY <2>1, <2>4, <3>1, <3>3 DEF Precedes
  <2>. QED
    BY <2>3, <2>4
<1>9. ASSUME NEW i \in 2 .. n + 1, NEW j \in 2 .. n + 1
      PROVE  Precedes(list, j, i) <=> j < i
  <2>1. /\ i - 1 \in 1 .. n /\ list[i] = b[i - 1] /\ j - 1 \in 1 .. n /\ list[j] = b[j - 1]
    BY <1>5
  <2>2. /\ b[i - 1] \in IntEdits /\ b[i - 1].start <= b[i - 1].end
        /\ b[j - 1] \in IntEdits /\ b[j - 1].start <= b[j - 1].end
    BY <1>2, <2>1
  <2>3. CASE j < i
    <3>1. j - 1 < i - 1
      BY <2>3
    <3>2. b[j - 1].end <= b[i - 1].start
      BY <1>1, <2>1, <3>1 DEF Chained
    <3>3. ~Sorts(b[i - 1], b[j - 1])
      BY <2>2, <3>2, FollowsSorts
    <3>. QED
      BY <2>1, <2>3, <3>3 DEF Precedes
  <2>4. CASE i < j
    <3>1. i - 1 < j - 1 /\ ~(j < i)
      BY <2>4
    <3>2. b[i - 1].end <= b[j - 1].start
      BY <1>1, <2>1, <3>1 DEF Chained
    <3>3. ~Sorts(b[j - 1], b[i - 1])
      BY <2>2, <3>2, FollowsSorts
    <3>. QED
      BY <2>1, <3>1, <3>3 DEF Precedes
  <2>5. CASE i = j
    <3>1. ~Sorts(b[i - 1], b[i - 1])
      <4>1. \A e \in IntEdits : ~Sorts(e, e)
        BY DEF Sorts, IntEdits
      <4>. QED
        BY <2>2, <4>1
    <3>. QED
      BY <2>1, <2>5, <3>1 DEF Precedes
  <2>. QED
    BY <2>3, <2>4, <2>5
<1>10. PICK rank : rank = [i \in 1 .. n + 1 |-> IF i = 1 THEN k + 1 ELSE IF i <= k + 1 THEN i - 1 ELSE i]
  OBVIOUS
<1>11. PICK at : at = [m \in 1 .. n + 1 |-> IF m <= k THEN m + 1 ELSE IF m = k + 1 THEN 1 ELSE m]
  OBVIOUS
<1>12. PICK lo : lo = [i \in 1 .. n + 1 |-> IF i <= k + 1 THEN 2 ELSE 1]
  OBVIOUS
<1>13. PICK hi : hi = [i \in 1 .. n + 1 |-> IF i = 1 THEN k + 1 ELSE i - 1]
  OBVIOUS
<1>14. Ranked(list, n + 1, rank, at, lo, hi)
  <2>1. \A i \in 1 .. n + 1 : rank[i] \in 1 .. n + 1 /\ at[rank[i]] = i
    BY <1>2, <1>10, <1>11
  <2>2. \A m \in 1 .. n + 1 : at[m] \in 1 .. n + 1 /\ rank[at[m]] = m
    BY <1>2, <1>10, <1>11
  <2>3. \A i \in 1 .. n + 1 : /\ lo[i] \in Int /\ hi[i] \in Int /\ 1 <= lo[i] /\ hi[i] <= n + 1
                              /\ lo[i] <= hi[i] + 1 /\ hi[i] + 1 - lo[i] = rank[i] - 1
    BY <1>2, <1>10, <1>12, <1>13
  <2>4. ASSUME NEW i \in 1 .. n + 1, NEW j \in 1 .. n + 1
        PROVE  Precedes(list, j, i) <=> j \in lo[i] .. hi[i]
    <3>1. CASE i = 1 /\ j = 1
      <4>1. ~(1 \in 2 .. k + 1) /\ lo[1] = 2 /\ hi[1] = k + 1
        BY <1>2, <1>12, <1>13
      <4>. QED
        BY <1>7, <3>1, <4>1
    <3>2. CASE i = 1 /\ j # 1
      <4>1. j \in 2 .. n + 1 /\ lo[1] = 2 /\ hi[1] = k + 1
        BY <1>2, <1>12, <1>13, <3>2
      <4>2. j \in 2 .. k + 1 <=> j <= k + 1
        BY <1>2, <4>1
      <4>. QED
        BY <1>8, <3>2, <4>1, <4>2
    <3>3. CASE i # 1 /\ j = 1
      <4>1. i \in 2 .. n + 1 /\ lo[i] = (IF i <= k + 1 THEN 2 ELSE 1) /\ hi[i] = i - 1
        BY <1>2, <1>12, <1>13, <3>3
      <4>2. 1 \in lo[i] .. hi[i] <=> k + 1 < i
        BY <1>2, <4>1
      <4>. QED
        BY <1>8, <3>3, <4>1, <4>2
    <3>4. CASE i # 1 /\ j # 1
      <4>1. i \in 2 .. n + 1 /\ lo[i] = (IF i <= k + 1 THEN 2 ELSE 1) /\ hi[i] = i - 1 /\ j \in 2 .. n + 1
        BY <1>2, <1>12, <1>13, <3>4
      <4>2. j \in lo[i] .. hi[i] <=> j < i
        BY <1>2, <4>1
      <4>. QED
        BY <1>9, <4>1, <4>2
    <3>. QED
      BY <3>1, <3>2, <3>3, <3>4
  <2>. QED
    BY <1>2, <1>4, <2>1, <2>2, <2>3, <2>4 DEF Ranked
<1>15. Ordered(list) = [m \in 1 .. n + 1 |-> list[at[m]]]
  BY <1>14, RanksOrder
<1>16. \A m \in 1 .. n + 1 :
         list[at[m]] = IF m <= k THEN b[m] ELSE IF m = k + 1 THEN a ELSE b[m - 1]
  <2>. SUFFICES ASSUME NEW m \in 1 .. n + 1
                PROVE  list[at[m]] = IF m <= k THEN b[m] ELSE IF m = k + 1 THEN a ELSE b[m - 1]
    OBVIOUS
  <2>1. CASE m <= k
    BY <1>2, <1>4, <1>11, <2>1
  <2>2. CASE m = k + 1
    BY <1>2, <1>4, <1>11, <2>2
  <2>3. CASE k + 1 < m
    <3>1. m \in 2 .. n + 1 /\ at[m] = m /\ ~(m <= k) /\ m # k + 1
      BY <1>2, <1>11, <2>3
    <3>. QED
      BY <1>5, <3>1
  <2>. QED
    BY <1>2, <2>1, <2>2, <2>3
<1>17. Ordered(list) = [m \in 1 .. n + 1 |-> IF m <= k THEN b[m] ELSE IF m = k + 1 THEN a ELSE b[m - 1]]
  BY <1>15, <1>16
<1>. QED
  BY <1>1, <1>3, <1>17 DEF Inserted


(* An edit and one behind it: first the one, then the other shifted over it,   *)
(* is first the other and then the one.                                        *)
LEMMA ShiftingCommutes ==
  ASSUME NEW t \in Seq(Lines), NEW a \in IntEdits, NEW b \in IntEdits,
         InRange(t, b), 0 <= a.start, a.start <= a.end, a.end <= b.start
  PROVE  /\ InRange(t, a)
         /\ InRange(Spliced(t, a), Shifted(b, EditLengthDelta(a)))
         /\ InRange(Spliced(t, b), a)
         /\ Spliced(Spliced(t, a), Shifted(b, EditLengthDelta(a))) = Spliced(Spliced(t, b), a)
<1>1. InRange(t, a)
  BY DEF InRange, IntEdits
<1>2. PICK d : d = EditLengthDelta(a)
  OBVIOUS
<1>3. PICK s : s = Shifted(b, d)
  OBVIOUS
<1>4. PICK u : u = Spliced(t, a)
  OBVIOUS
<1>5. PICK v : v = Spliced(t, b)
  OBVIOUS
<1>6. PICK p, q, l : p = a.start /\ q = a.end /\ l = Len(a.newText)
  OBVIOUS
<1>7. PICK x, y, m, n : x = b.start /\ y = b.end /\ m = Len(b.newText) /\ n = Len(t)
  OBVIOUS
<1>8. /\ p \in Nat /\ q \in Nat /\ l \in Nat /\ x \in Nat /\ y \in Nat /\ m \in Nat /\ n \in Nat
      /\ p <= q /\ q <= x /\ x <= y /\ y <= n
  BY <1>1, <1>6, <1>7 DEF InRange, IntEdits
<1>9. d = l - (q - p) /\ d \in Int
  BY <1>2, <1>6, <1>8 DEF EditLengthDelta
<1>10. s \in IntEdits /\ s.start = x + d /\ s.end = y + d /\ s.newText = b.newText
  BY <1>3, <1>7, <1>9, ShiftedEdit
<1>11. EditLengthDelta(s) = m - (y - x) /\ EditLengthDelta(b) = m - (y - x)
  BY <1>7, <1>8, <1>9, <1>10 DEF EditLengthDelta
<1>12. /\ u \in Seq(Lines) /\ Len(u) = n + d
       /\ \A i \in 1 .. Len(u) : u[i] = IF i <= p THEN t[i]
                                       ELSE IF i <= p + l THEN a.newText[i - p] ELSE t[i - d]
  BY <1>1, <1>2, <1>4, <1>6, <1>7, SplicedLines
<1>13. /\ v \in Seq(Lines) /\ Len(v) = n + (m - (y - x))
       /\ \A i \in 1 .. Len(v) : v[i] = IF i <= x THEN t[i]
                                       ELSE IF i <= x + m THEN b.newText[i - x]
                                       ELSE t[i - (m - (y - x))]
  BY <1>5, <1>7, <1>11, SplicedLines
<1>14. InRange(u, s)
  <2>1. 0 <= x + d /\ y + d <= n + d /\ x + d <= y + d
    BY <1>8, <1>9
  <2>. QED
    BY <1>10, <1>12, <2>1 DEF InRange
<1>15. InRange(v, a)
  <2>1. 0 <= p /\ q <= n + (m - (y - x)) /\ p <= q
    BY <1>8
  <2>. QED
    BY <1>6, <1>13, <2>1 DEF InRange
<1>16. PICK w : w = Spliced(u, s)
  OBVIOUS
<1>17. PICK z : z = Spliced(v, a)
  OBVIOUS
<1>18. /\ w \in Seq(Lines) /\ Len(w) = (n + d) + (m - (y - x))
       /\ \A i \in 1 .. Len(w) : w[i] = IF i <= x + d THEN u[i]
                                       ELSE IF i <= (x + d) + m THEN b.newText[i - (x + d)]
                                       ELSE u[i - (m - (y - x))]
  <2>1. /\ Spliced(u, s) \in Seq(Lines)
        /\ Len(Spliced(u, s)) = Len(u) + EditLengthDelta(s)
        /\ \A i \in 1 .. Len(Spliced(u, s)) :
             Spliced(u, s)[i] = IF i <= s.start THEN u[i]
                                ELSE IF i <= s.start + Len(s.newText) THEN s.newText[i - s.start]
                                ELSE u[i - EditLengthDelta(s)]
    BY <1>10, <1>12, <1>14, SplicedLines
  <2>. QED
    BY <1>7, <1>10, <1>11, <1>12, <1>16, <2>1
<1>19. /\ z \in Seq(Lines) /\ Len(z) = (n + (m - (y - x))) + d
       /\ \A i \in 1 .. Len(z) : z[i] = IF i <= p THEN v[i]
                                       ELSE IF i <= p + l THEN a.newText[i - p] ELSE v[i - d]
  <2>1. /\ Spliced(v, a) \in Seq(Lines)
        /\ Len(Spliced(v, a)) = Len(v) + EditLengthDelta(a)
        /\ \A i \in 1 .. Len(Spliced(v, a)) :
             Spliced(v, a)[i] = IF i <= a.start THEN v[i]
                                ELSE IF i <= a.start + Len(a.newText) THEN a.newText[i - a.start]
                                ELSE v[i - EditLengthDelta(a)]
    BY <1>13, <1>15, SplicedLines
  <2>. QED
    BY <1>2, <1>6, <1>13, <1>17, <2>1
<1>c. Len(u) = n + d /\ Len(v) = n + (m - (y - x))
  BY <1>12, <1>13
<1>20. ASSUME NEW i \in 1 .. Len(w)
       PROVE  w[i] = z[i]
  <2>0. i \in Nat /\ 1 <= i /\ i <= (n + d) + (m - (y - x)) /\ i \in 1 .. Len(z)
    BY <1>8, <1>9, <1>18, <1>19
  <2>1. CASE i <= p
    <3>1. i <= x + d /\ i <= x /\ i \in 1 .. Len(u) /\ i \in 1 .. Len(v)
      BY <1>8, <1>9, <1>c, <2>0, <2>1
    <3>. QED
      BY <1>12, <1>13, <1>18, <1>19, <2>0, <2>1, <3>1
  <2>2. CASE ~(i <= p) /\ i <= p + l
    <3>1. i <= x + d /\ i \in 1 .. Len(u)
      BY <1>8, <1>9, <1>c, <2>0, <2>2
    <3>. QED
      BY <1>12, <1>18, <1>19, <2>0, <2>2, <3>1
  <2>3. CASE ~(i <= p + l) /\ i <= x + d
    <3>1. /\ ~(i <= p) /\ i \in 1 .. Len(u) /\ i - d \in 1 .. Len(v) /\ i - d <= x
      BY <1>8, <1>9, <1>c, <2>0, <2>3
    <3>. QED
      BY <1>12, <1>13, <1>18, <1>19, <2>0, <2>3, <3>1
  <2>4. CASE ~(i <= x + d) /\ i <= (x + d) + m
    <3>1. /\ ~(i <= p) /\ ~(i <= p + l) /\ i - d \in 1 .. Len(v) /\ ~(i - d <= x) /\ i - d <= x + m
          /\ (i - d) - x = i - (x + d)
      BY <1>8, <1>9, <1>c, <2>0, <2>4
    <3>2. w[i] = b.newText[i - (x + d)]
      BY <1>18, <2>0, <2>4
    <3>3. z[i] = v[i - d]
      BY <1>19, <2>0, <3>1
    <3>4. v[i - d] = b.newText[(i - d) - x]
      BY <1>13, <3>1
    <3>. QED
      BY <3>1, <3>2, <3>3, <3>4
  <2>5. CASE ~(i <= x + d) /\ ~(i <= (x + d) + m)
    <3>0. PICK j : j = i - (m - (y - x))
      OBVIOUS
    <3>1. /\ ~(i <= p) /\ ~(i <= p + l) /\ i - d \in 1 .. Len(v)
          /\ ~(i - d <= x) /\ ~(i - d <= x + m)
          /\ j \in 1 .. Len(u) /\ ~(j <= p) /\ ~(j <= p + l)
          /\ (i - d) - (m - (y - x)) = j - d
      BY <1>8, <1>9, <1>c, <2>0, <2>5, <3>0
    <3>2. w[i] = u[j]
      BY <1>18, <2>0, <2>5, <3>0
    <3>3. z[i] = v[i - d]
      BY <1>19, <2>0, <3>1
    <3>4. v[i - d] = t[(i - d) - (m - (y - x))]
      BY <1>13, <3>1
    <3>5. u[j] = t[j - d]
      BY <1>12, <3>1
    <3>. QED
      BY <3>1, <3>2, <3>3, <3>4, <3>5
  <2>. QED
    BY <2>1, <2>2, <2>3, <2>4, <2>5
<1>21. Len(w) = Len(z)
  BY <1>8, <1>9, <1>18, <1>19
<1>22. w = z
  BY <1>18, <1>19, <1>20, <1>21, SameLines
<1>. QED
  BY <1>1, <1>2, <1>3, <1>4, <1>5, <1>14, <1>15, <1>16, <1>17, <1>22


LEMMA FitsIsApplied ==
  ASSUME NEW t \in Seq(Lines), NEW e \in IntEdits, InRange(t, e)
  PROVE  Applied(e, t) = Spliced(t, e) /\ Spliced(t, e) \in Seq(Lines) /\ Spliced(t, e) # Thrown
<1>1. Spliced(t, e) \in Seq(Lines)
  BY SplicedLines
<1>. QED
  BY <1>1, ThrownAssumption DEF Applied

LEMMA ShiftedIsApplied ==
  ASSUME NEW t \in Seq(Lines), NEW a \in IntEdits, NEW b \in IntEdits,
         InRange(t, b), 0 <= a.start, a.start <= a.end, a.end <= b.start
  PROVE  Applied(Shifted(b, EditLengthDelta(a)), Applied(a, t)) = Applied(a, Applied(b, t))
<1>1. EditLengthDelta(a) \in Int
  BY DEF EditLengthDelta, IntEdits
<1>2. PICK s : s = Shifted(b, EditLengthDelta(a))
  OBVIOUS
<1>3. s \in IntEdits
  BY <1>1, <1>2, ShiftedEdit
<1>4. /\ InRange(t, a) /\ InRange(Spliced(t, a), s) /\ InRange(Spliced(t, b), a)
      /\ Spliced(Spliced(t, a), s) = Spliced(Spliced(t, b), a)
  BY <1>2, ShiftingCommutes
<1>5. Applied(a, t) = Spliced(t, a) /\ Spliced(t, a) \in Seq(Lines)
  BY <1>4, FitsIsApplied
<1>6. Applied(b, t) = Spliced(t, b) /\ Spliced(t, b) \in Seq(Lines)
  BY FitsIsApplied
<1>7. Applied(s, Spliced(t, a)) = Spliced(Spliced(t, a), s)
  BY <1>3, <1>4, <1>5, FitsIsApplied
<1>8. Applied(a, Spliced(t, b)) = Spliced(Spliced(t, b), a)
  BY <1>4, <1>6, FitsIsApplied
<1>. QED
  BY <1>2, <1>4, <1>5, <1>6, <1>7, <1>8

(* What comes before an edit still fits when that one has been applied.        *)
LEMMA EarlierStillFits ==
  ASSUME NEW t \in Seq(Lines), NEW d \in IntEdits, NEW e \in IntEdits,
         InRange(t, d), InRange(t, e), d.end <= e.start
  PROVE  InRange(Spliced(t, e), d)
<1>1. Len(Spliced(t, e)) = Len(t) + EditLengthDelta(e) /\ Len(e.newText) \in Nat /\ Len(t) \in Nat
  BY SplicedLines
<1>2. /\ EditLengthDelta(e) = Len(e.newText) - (e.end - e.start)
      /\ 0 <= d.start /\ d.start <= d.end /\ e.start <= e.end /\ e.end <= Len(t)
      /\ d.start \in Int /\ d.end \in Int /\ e.start \in Int /\ e.end \in Int
  BY DEF InRange, EditLengthDelta, IntEdits
<1>3. d.end <= Len(t) + EditLengthDelta(e)
  BY <1>1, <1>2
<1>. QED
  BY <1>1, <1>2, <1>3 DEF InRange

(* A list rebased over an edit, applied where that edit was, is both applied   *)
(* at once: an edit is shifted exactly where it comes behind.                  *)
LEMMA RebasedListMerges ==
  ASSUME NEW t \in Seq(Lines), NEW a \in IntEdits, InRange(t, a),
         NEW b \in Seq(IntEdits), Chained(b), \A i \in 1 .. Len(b) : InRange(t, b[i]),
         NEW k, Splits(a, b, k),
         NEW r \in Seq(IntEdits), Len(r) = Len(b),
         \A i \in 1 .. Len(b) : r[i] = IF i <= k THEN b[i] ELSE Shifted(b[i], EditLengthDelta(a))
  PROVE  /\ Ordered(r) = r
         /\ ApplyEdits(Spliced(t, a), r) = ApplyEdits(t, <<a>> \o b)
         /\ ApplyEdits(t, <<a>> \o b) # Thrown
<1>1. PICK n : n = Len(b)
  OBVIOUS
<1>2. PICK d : d = EditLengthDelta(a)
  OBVIOUS
<1>3. PICK c : c = Inserted(a, b, k)
  OBVIOUS
<1>4. /\ n \in Nat /\ k \in 0 .. n /\ \A i \in 1 .. n : b[i] \in IntEdits
      /\ 0 <= a.start /\ a.start <= a.end
  BY <1>1 DEF Splits, InRange
<1>5. d \in Int /\ a.start \in Int /\ a.end \in Int /\ a.end + d >= a.start
  BY <1>2 DEF EditLengthDelta, IntEdits
<1>6. /\ \A i \in 1 .. n : i <= k => c[i] = b[i] /\ r[i] = b[i] /\ b[i].end <= a.start
      /\ c[k + 1] = a /\ k + 1 \in 1 .. n + 1
      /\ \A i \in 1 .. n : ~(i <= k) => c[i + 1] = b[i] /\ r[i] = Shifted(b[i], d) /\ a.end <= b[i].start
  <2>1. \A i \in 1 .. n : i <= k => c[i] = b[i] /\ r[i] = b[i] /\ b[i].end <= a.start
    <3>. SUFFICES ASSUME NEW i \in 1 .. n, i <= k
                  PROVE  c[i] = b[i] /\ r[i] = b[i] /\ b[i].end <= a.start
      OBVIOUS
    <3>1. i \in 1 .. n + 1
      BY <1>4
    <3>2. c[i] = b[i]
      BY <1>1, <1>3, <3>1 DEF Inserted
    <3>3. r[i] = b[i] /\ b[i].end <= a.start
      BY <1>1 DEF Splits
    <3>. QED
      BY <3>2, <3>3
  <2>2. c[k + 1] = a /\ k + 1 \in 1 .. n + 1
    BY <1>1, <1>3, <1>4 DEF Inserted
  <2>3. \A i \in 1 .. n : ~(i <= k) => c[i + 1] = b[i]
    <3>. SUFFICES ASSUME NEW i \in 1 .. n, ~(i <= k) PROVE c[i + 1] = b[i]
      OBVIOUS
    <3>1. i + 1 \in 1 .. n + 1 /\ ~(i + 1 <= k) /\ i + 1 # k + 1 /\ (i + 1) - 1 = i
      BY <1>4
    <3>. QED
      BY <1>1, <1>3, <3>1 DEF Inserted
  <2>4. \A i \in 1 .. n : ~(i <= k) => r[i] = Shifted(b[i], d) /\ a.end <= b[i].start
    BY <1>1, <1>2 DEF Splits
  <2>. QED
    BY <2>1, <2>2, <2>3, <2>4
<1>7. Chained(r)
  <2>1. ASSUME NEW i \in 1 .. n
        PROVE  /\ b[i].start \in Int /\ b[i].end \in Int /\ b[i].start <= b[i].end
               /\ i <= k => r[i].start = b[i].start /\ r[i].end = b[i].end
               /\ ~(i <= k) => r[i].start = b[i].start + d /\ r[i].end = b[i].end + d
    <3>1. b[i] \in IntEdits
      BY <1>4
    <3>2. Shifted(b[i], d).start = b[i].start + d /\ Shifted(b[i], d).end = b[i].end + d
      BY <1>5, <3>1, ShiftedEdit
    <3>3. b[i].start <= b[i].end
      BY <1>1 DEF Chained
    <3>. QED
      BY <1>6, <3>1, <3>2, <3>3 DEF IntEdits
  <2>2. ASSUME NEW i \in 1 .. n
        PROVE  r[i].start <= r[i].end
    <3>1. b[i].start \in Int /\ b[i].end \in Int /\ b[i].start <= b[i].end
      BY <2>1
    <3>2. CASE i <= k
      <4>1. r[i].start = b[i].start /\ r[i].end = b[i].end
        BY <2>1, <3>2
      <4>. QED
        BY <3>1, <4>1
    <3>3. CASE ~(i <= k)
      <4>1. r[i].start = b[i].start + d /\ r[i].end = b[i].end + d
        BY <2>1, <3>3
      <4>. QED
        BY <1>5, <3>1, <4>1
    <3>. QED
      BY <3>2, <3>3
  <2>3. ASSUME NEW i \in 1 .. n, NEW j \in 1 .. n, i < j
        PROVE  r[i].end <= r[j].start
    <3>1. b[i].end <= b[j].start
      BY <1>1, <2>3 DEF Chained
    <3>0. b[i].end \in Int /\ b[j].start \in Int
      BY <2>1
    <3>2. CASE j <= k
      <4>1. i <= k
        BY <1>4, <2>3, <3>2
      <4>2. r[i].end = b[i].end /\ r[j].start = b[j].start
        BY <2>1, <3>2, <4>1
      <4>. QED
        BY <3>1, <4>2
    <3>3. CASE ~(j <= k) /\ i <= k
      <4>1. b[i].end <= a.start /\ a.end <= b[j].start
        BY <1>6, <3>3
      <4>2. r[i].end = b[i].end /\ r[j].start = b[j].start + d
        BY <2>1, <3>3
      <4>3. \A p, q, u, v, w \in Int : (p <= u /\ v <= q /\ u <= v + w) => p <= q + w
        OBVIOUS
      <4>4. a.start \in Int /\ a.end \in Int /\ d \in Int /\ a.start <= a.end + d
        BY <1>5
      <4>5. b[i].end <= b[j].start + d
        BY <3>0, <4>1, <4>3, <4>4
      <4>. QED
        BY <4>2, <4>5
    <3>4. CASE ~(j <= k) /\ ~(i <= k)
      <4>1. r[i].end = b[i].end + d /\ r[j].start = b[j].start + d
        BY <2>1, <3>4
      <4>. QED
        BY <1>5, <3>0, <3>1, <4>1
    <3>. QED
      BY <3>2, <3>3, <3>4
  <2>. QED
    BY <1>1, <2>2, <2>3 DEF Chained
<1>8. Ordered(r) = r /\ ~Overlapping(r)
  BY <1>7, ChainIsOrdered
<1>9. c \in Seq(IntEdits) /\ Len(c) = n + 1 /\ Chained(c)
  BY <1>1, <1>3, InsertedChains
<1>10. Ordered(<<a>> \o b) = c /\ ~Overlapping(c)
  BY <1>3, <1>9, InsertedIsOrdered, ChainIsOrdered
<1>11. PICK f : /\ f[n + 2] = t
                /\ \A j \in 1 .. n + 1 : f[j] = Applied(c[j], f[j + 1])
                /\ ApplyEdits(t, <<a>> \o b) = f[1]
  <2>1. Len(c) \in Nat /\ DOMAIN c = 1 .. Len(c) /\ Len(c) + 1 = n + 2
    BY <1>4, <1>9
  <2>2. PICK edits : edits = <<a>> \o b
    OBVIOUS
  <2>3. Ordered(edits) = c /\ ~Overlapping(c)
    BY <1>10, <2>2
  <2>4. \E f : InTurn(f, c, t) /\ ApplyEdits(t, edits) = f[1]
    BY <2>1, <2>3, AppliedInTurn
  <2>. QED
    BY <1>9, <2>1, <2>2, <2>4 DEF InTurn
<1>12. PICK g : /\ g[n + 1] = Spliced(t, a)
                /\ \A j \in 1 .. n : g[j] = Applied(r[j], g[j + 1])
                /\ ApplyEdits(Spliced(t, a), r) = g[1]
  <2>1. Len(r) \in Nat /\ DOMAIN r = 1 .. Len(r) /\ Len(r) = n
    BY <1>1
  <2>2. PICK text : text = Spliced(t, a)
    OBVIOUS
  <2>3. \E g : InTurn(g, r, text) /\ ApplyEdits(text, r) = g[1]
    BY <1>8, <2>1, AppliedInTurn
  <2>. QED
    BY <2>1, <2>2, <2>3 DEF InTurn
<1>. DEFINE Sound(j) == f[j] \in Seq(Lines) /\ \A m \in 1 .. n + 1 : m < j => InRange(f[j], c[m])
            S == {j \in 1 .. n + 2 : Sound(j)}
<1>13. \A j \in 1 .. n + 2 : Sound(j)
  <2>1. n + 2 \in S
    <3>1. \A m \in 1 .. n + 1 : InRange(t, c[m])
      <4>. SUFFICES ASSUME NEW m \in 1 .. n + 1 PROVE InRange(t, c[m])
        OBVIOUS
      <4>1. CASE m <= k
        BY <1>1, <1>4, <1>6, <4>1
      <4>2. CASE m = k + 1
        BY <1>6, <4>2
      <4>3. CASE ~(m <= k) /\ m # k + 1
        <5>1. m - 1 \in 1 .. n /\ ~(m - 1 <= k) /\ (m - 1) + 1 = m
          BY <1>4, <4>3
        <5>2. c[m] = b[m - 1]
          BY <1>6, <5>1
        <5>. QED
          BY <1>1, <5>1, <5>2
      <4>. QED
        BY <4>1, <4>2, <4>3
    <3>2. n + 2 \in 1 .. n + 2
      BY <1>4
    <3>. QED
      BY <1>11, <3>1, <3>2
  <2>2. ASSUME NEW j \in 1 .. (n + 2) - 1, j + 1 \in S
        PROVE  j \in S
    <3>1. j \in 1 .. n + 1 /\ j \in 1 .. n + 2 /\ j < j + 1
      BY <1>4
    <3>2. PICK text : text = f[j + 1]
      OBVIOUS
    <3>3. /\ text \in Seq(Lines) /\ InRange(text, c[j])
          /\ \A m \in 1 .. n + 1 : m < j => InRange(text, c[m])
      BY <1>4, <2>2, <3>1, <3>2
    <3>4. \A m \in 1 .. n + 1 : c[m] \in IntEdits
      BY <1>9
    <3>5. f[j] = Spliced(text, c[j]) /\ Spliced(text, c[j]) \in Seq(Lines)
      <4>1. f[j] = Applied(c[j], text)
        BY <1>11, <3>1, <3>2
      <4>2. Applied(c[j], text) = Spliced(text, c[j]) /\ Spliced(text, c[j]) \in Seq(Lines)
        BY <3>1, <3>3, <3>4, FitsIsApplied
      <4>. QED
        BY <4>1, <4>2
    <3>6. ASSUME NEW m \in 1 .. n + 1, m < j
          PROVE  InRange(f[j], c[m])
      <4>1. c[m].end <= c[j].start
        BY <1>9, <3>1, <3>6 DEF Chained
      <4>2. InRange(Spliced(text, c[j]), c[m])
        BY <3>1, <3>3, <3>4, <3>6, <4>1, EarlierStillFits
      <4>. QED
        BY <3>5, <4>2
    <3>. QED
      BY <3>1, <3>5, <3>6
  <2>. HIDE DEF S
  <2>3. PICK last : last = n + 2
    OBVIOUS
  <2>4. /\ last \in Nat /\ last \in S
        /\ \A j \in 1 .. last - 1 : j + 1 \in S => j \in S
    BY <1>4, <2>1, <2>2, <2>3
  <2>5. \A j \in 1 .. last : j \in S
    BY <2>4, DownToOne
  <2>. USE DEF S
  <2>. QED
    BY <2>3, <2>5
<1>14. ASSUME NEW j \in 1 .. n + 1
       PROVE  f[j + 1] \in Seq(Lines) /\ InRange(f[j + 1], c[j])
  <2>1. j + 1 \in 1 .. n + 2 /\ j < j + 1
    BY <1>4
  <2>. QED
    BY <1>13, <2>1
<1>. HIDE DEF Sound, S
<1>. DEFINE R == {j \in 1 .. n + 1 : g[j] = IF j <= k THEN f[j] ELSE Applied(a, f[j + 1])}
<1>15. f[k + 1] = Applied(a, f[(k + 1) + 1])
  BY <1>6, <1>11
<1>16. n + 1 \in R
  <2>1. (n + 1) + 1 = n + 2 /\ ~(n + 1 <= k) /\ n + 1 \in 1 .. n + 1
    BY <1>4
  <2>2. Applied(a, t) = Spliced(t, a)
    BY FitsIsApplied
  <2>. QED
    BY <1>11, <1>12, <2>1, <2>2
<1>17. ASSUME NEW j \in 1 .. (n + 1) - 1, j + 1 \in R
       PROVE  j \in R
  <2>1. j \in 1 .. n /\ j \in 1 .. n + 1 /\ j + 1 \in 1 .. n + 1
    BY <1>4
  <2>2. g[j] = Applied(r[j], g[j + 1]) /\ f[j] = Applied(c[j], f[j + 1])
    BY <1>11, <1>12, <2>1
  <2>3. CASE j <= k
    <3>1. g[j + 1] = f[j + 1]
      <4>1. CASE j + 1 <= k
        BY <1>17, <4>1
      <4>2. CASE ~(j + 1 <= k)
        <5>1. j + 1 = k + 1
          BY <1>4, <2>1, <2>3, <4>2
        <5>. QED
          BY <1>15, <1>17, <4>2, <5>1
      <4>. QED
        BY <4>1, <4>2
    <3>2. r[j] = c[j]
      BY <1>6, <2>1, <2>3
    <3>. QED
      BY <2>1, <2>2, <2>3, <3>1, <3>2
  <2>4. CASE ~(j <= k)
    <3>1. ~(j + 1 <= k)
      BY <1>4, <2>1, <2>4
    <3>2. PICK text : text = f[(j + 1) + 1]
      OBVIOUS
    <3>3. g[j + 1] = Applied(a, text)
      BY <1>17, <3>1, <3>2
    <3>4. c[j + 1] = b[j] /\ r[j] = Shifted(b[j], d) /\ a.end <= b[j].start /\ b[j] \in IntEdits
      BY <1>4, <1>6, <2>1, <2>4
    <3>5. text \in Seq(Lines) /\ InRange(text, b[j])
      BY <1>14, <2>1, <3>2, <3>4
    <3>6. f[j + 1] = Applied(b[j], text)
      BY <1>11, <2>1, <3>2, <3>4
    <3>7. Applied(Shifted(b[j], d), Applied(a, text)) = Applied(a, Applied(b[j], text))
      BY <1>2, <1>4, <3>4, <3>5, ShiftedIsApplied
    <3>8. g[j] = Applied(a, f[j + 1])
      BY <2>2, <3>3, <3>4, <3>6, <3>7
    <3>. QED
      BY <2>1, <2>4, <3>8
  <2>. QED
    BY <2>3, <2>4
<1>18. 1 \in R
  <2>1. n + 1 \in Nat /\ 1 \in 1 .. n + 1
    BY <1>4
  <2>. HIDE DEF R
  <2>2. \A j \in 1 .. n + 1 : j \in R
    BY <1>16, <1>17, <2>1, DownToOne
  <2>. QED
    BY <2>1, <2>2
<1>19. g[1] = f[1]
  <2>1. CASE 1 <= k
    BY <1>18, <2>1
  <2>2. CASE ~(1 <= k)
    <3>1. k + 1 = 1
      BY <1>4, <2>2
    <3>. QED
      BY <1>15, <1>18, <2>2, <3>1
  <2>. QED
    BY <2>1, <2>2
<1>20. f[1] # Thrown
  <2>1. 1 \in 1 .. n + 2
    BY <1>4
  <2>2. f[1] \in Seq(Lines)
    BY <1>13, <2>1 DEF Sound
  <2>. QED
    BY <2>2, ThrownAssumption
<1>. QED
  BY <1>8, <1>11, <1>12, <1>19, <1>20


-----------------------------------------------------------------------------
(* Rebased is merged                                                           *)

LEMMA UpFromOne ==
  ASSUME NEW n \in Nat, NEW S, 1 \in S, n # 0,
         \A i \in 1 .. n - 1 : i \in S => i + 1 \in S
  PROVE  \A i \in 1 .. n : i \in S
<1>. DEFINE T == {j \in 1 .. n : n + 1 - j \in S}
<1>1. n \in T
  <2>1. n \in 1 .. n /\ n + 1 - n = 1
    OBVIOUS
  <2>. QED
    BY <2>1
<1>2. ASSUME NEW j \in 1 .. n - 1, j + 1 \in T
      PROVE  j \in T
  <2>1. PICK i : i = n + 1 - (j + 1)
    OBVIOUS
  <2>2. i \in S /\ i \in 1 .. n - 1 /\ n + 1 - j = i + 1 /\ j \in 1 .. n
    BY <1>2, <2>1
  <2>. QED
    BY <2>2
<1>. HIDE DEF T
<1>3. \A j \in 1 .. n : j \in T
  BY <1>1, <1>2, DownToOne
<1>4. ASSUME NEW i \in 1 .. n
      PROVE  i \in S
  <2>1. PICK j : j = n + 1 - i
    OBVIOUS
  <2>2. j \in 1 .. n /\ n + 1 - j = i
    BY <2>1
  <2>. QED
    BY <1>3, <2>2 DEF T
<1>. QED
  BY <1>4

LEMMA JoinedEdits ==
  ASSUME NEW s \in Seq(IntEdits), NEW t \in Seq(IntEdits)
  PROVE  /\ s \o t \in Seq(IntEdits) /\ Len(s \o t) = Len(s) + Len(t)
         /\ \A i \in 1 .. Len(s) : (s \o t)[i] = s[i]
         /\ \A i \in 1 .. Len(t) : (s \o t)[Len(s) + i] = t[i]
OBVIOUS

LEMMA SameEdits ==
  ASSUME NEW s \in Seq(IntEdits), NEW t \in Seq(IntEdits), Len(s) = Len(t),
         \A i \in 1 .. Len(t) : s[i] = t[i]
  PROVE  s = t
OBVIOUS

LEMMA OneMoreEdit ==
  ASSUME NEW r \in Seq(IntEdits), NEW i \in 2 .. Len(r)
  PROVE  SubSeq(r, 1, i - 1) \o <<r[i]>> = SubSeq(r, 1, i)
<1>1. PICK x : x = SubSeq(r, 1, i - 1)
  OBVIOUS
<1>2. PICK z : z = SubSeq(r, 1, i)
  OBVIOUS
<1>3. PICK y : y = <<r[i]>>
  OBVIOUS
<1>4. x \in Seq(IntEdits) /\ Len(x) = i - 1 /\ \A j \in 1 .. i - 1 : x[j] = r[j]
  BY <1>1
<1>5. z \in Seq(IntEdits) /\ Len(z) = i /\ \A j \in 1 .. i : z[j] = r[j]
  BY <1>2
<1>6. y \in Seq(IntEdits) /\ Len(y) = 1 /\ y[1] = r[i]
  BY <1>3
<1>7. /\ x \o y \in Seq(IntEdits) /\ Len(x \o y) = (i - 1) + 1
      /\ \A j \in 1 .. i - 1 : (x \o y)[j] = x[j]
      /\ (x \o y)[(i - 1) + 1] = y[1]
  <2>1. /\ x \o y \in Seq(IntEdits) /\ Len(x \o y) = Len(x) + Len(y)
        /\ \A j \in 1 .. Len(x) : (x \o y)[j] = x[j]
        /\ \A j \in 1 .. Len(y) : (x \o y)[Len(x) + j] = y[j]
    BY <1>4, <1>6, JoinedEdits
  <2>2. Len(x) = i - 1 /\ Len(y) = 1
    BY <1>4, <1>6
  <2>. QED
    BY <2>1, <2>2
<1>8. \A j \in 1 .. i : j \in 1 .. i - 1 \/ j = (i - 1) + 1
  OBVIOUS
<1>9. ASSUME NEW j \in 1 .. i
      PROVE  (x \o y)[j] = z[j]
  <2>1. CASE j \in 1 .. i - 1
    BY <1>4, <1>5, <1>7, <2>1
  <2>2. CASE j = (i - 1) + 1
    <3>1. (x \o y)[j] = r[i] /\ j = i
      BY <1>6, <1>7, <2>2
    <3>. QED
      BY <1>5, <3>1
  <2>. QED
    BY <1>8, <2>1, <2>2
<1>10. Len(x \o y) = Len(z)
  BY <1>5, <1>7
<1>11. x \o y = z
  BY <1>5, <1>7, <1>9, <1>10, SameEdits
<1>. QED
  BY <1>1, <1>2, <1>3, <1>11

LEMMA FlattenedEdits ==
  ASSUME NEW r \in Seq(IntEdits)
  PROVE  FlattenSeq([i \in 1 .. Len(r) |-> <<r[i]>>]) = r
<1>1. PICK n : n = Len(r)
  OBVIOUS
<1>2. PICK seqs : seqs = [i \in 1 .. n |-> <<r[i]>>]
  OBVIOUS
<1>3. n \in Nat /\ Len(seqs) = n /\ DOMAIN r = 1 .. n
  BY <1>1, <1>2
<1>. DEFINE Flat(f) == [i \in 1 .. Len(seqs) |-> IF i = 1 THEN seqs[i] ELSE f[i - 1] \o seqs[i]]
            told == [i \in 1 .. n |-> SubSeq(r, 1, i)]
<1>4. CASE n = 0
  <2>1. r = <<>> /\ seqs = <<>>
    <3>1. r = <<>>
      <4>1. <<>> \in Seq(IntEdits) /\ Len(<<>>) = 0
        OBVIOUS
      <4>2. Len(r) = Len(<<>>) /\ \A i \in 1 .. Len(<<>>) : r[i] = <<>>[i]
        BY <1>1, <1>4, <4>1
      <4>. QED
        BY <4>1, <4>2, SameEdits
    <3>2. 1 .. n = {}
      BY <1>4
    <3>3. seqs = [i \in {} |-> <<r[i]>>]
      BY <1>2, <3>2
    <3>4. [i \in {} |-> <<r[i]>>] = <<>>
      OBVIOUS
    <3>. QED
      BY <3>1, <3>3, <3>4
  <2>2. FlattenSeq(<<>>) = <<>>
    <3>1. Len(<<>>) = 0
      OBVIOUS
    <3>. QED
      BY <3>1 DEF FlattenSeq
  <2>. QED
    BY <1>1, <1>2, <2>1, <2>2
<1>5. CASE n # 0
  <2>1. FlattenSeq(seqs) = (CHOOSE f : f = Flat(f))[Len(seqs)]
    BY <1>3, <1>5 DEF FlattenSeq
  <2>2. ASSUME NEW i \in 1 .. n
        PROVE  SubSeq(r, 1, i) = IF i = 1 THEN seqs[i] ELSE told[i - 1] \o seqs[i]
    <3>1. CASE i = 1
      <4>1. SubSeq(r, 1, 1) = <<r[1]>>
        <5>1. PICK x : x = SubSeq(r, 1, 1)
          OBVIOUS
        <5>2. x \in Seq(IntEdits) /\ Len(x) = 1 /\ x[1] = r[1]
          BY <1>1, <1>3, <1>5, <5>1
        <5>3. <<x[1]>> \in Seq(IntEdits) /\ Len(<<x[1]>>) = 1 /\ <<x[1]>>[1] = x[1]
          BY <5>2
        <5>4. \A j \in 1 .. Len(<<x[1]>>) : x[j] = <<x[1]>>[j]
          BY <5>3
        <5>5. x = <<x[1]>>
          BY <5>2, <5>3, <5>4, SameEdits
        <5>. QED
          BY <5>1, <5>2, <5>5
      <4>. QED
        BY <1>2, <3>1, <4>1
    <3>2. CASE i # 1
      <4>1. i \in 2 .. Len(r) /\ i - 1 \in 1 .. n
        BY <1>1, <3>2
      <4>2. SubSeq(r, 1, i - 1) \o <<r[i]>> = SubSeq(r, 1, i)
        BY <4>1, OneMoreEdit
      <4>. QED
        BY <1>2, <3>2, <4>1, <4>2
    <3>. QED
      BY <3>1, <3>2
  <2>3. told = Flat(told)
    <3>1. told = [i \in 1 .. n |-> told[i]] /\ \A i \in 1 .. n : told[i] = SubSeq(r, 1, i)
      OBVIOUS
    <3>. HIDE DEF told
    <3>. DEFINE next(i) == IF i = 1 THEN seqs[i] ELSE told[i - 1] \o seqs[i]
    <3>2. \A i \in 1 .. n : told[i] = next(i)
      BY <2>2, <3>1
    <3>3. Flat(told) = [i \in 1 .. Len(seqs) |-> next(i)]
      OBVIOUS
    <3>. HIDE DEF next, Flat
    <3>. QED
      BY <1>3, <3>1, <3>2, <3>3
  <2>4. PICK f : f = (CHOOSE g : g = Flat(g))
    OBVIOUS
  <2>5. f = Flat(f)
    <3>. HIDE DEF Flat, told
    <3>. QED
      BY <2>3, <2>4
  <2>6. \A i \in 1 .. n : f[i] = IF i = 1 THEN seqs[i] ELSE f[i - 1] \o seqs[i]
    BY <1>3, <2>5
  <2>. DEFINE S == {i \in 1 .. n : f[i] = SubSeq(r, 1, i)}
  <2>7. 1 \in S
    <3>1. 1 \in 1 .. n
      BY <1>3, <1>5
    <3>. QED
      BY <2>2, <2>6, <3>1
  <2>8. ASSUME NEW i \in 1 .. n - 1, i \in S
        PROVE  i + 1 \in S
    <3>1. i + 1 \in 1 .. n /\ i \in 1 .. n /\ i + 1 # 1 /\ (i + 1) - 1 = i
      BY <1>3
    <3>2. f[i + 1] = f[i] \o seqs[i + 1]
      BY <2>6, <3>1
    <3>3. SubSeq(r, 1, i + 1) = told[i] \o seqs[i + 1]
      BY <2>2, <3>1
    <3>4. told[i] = SubSeq(r, 1, i) /\ f[i] = SubSeq(r, 1, i)
      BY <2>8, <3>1
    <3>. QED
      BY <3>1, <3>2, <3>3, <3>4
  <2>9. n \in S
    <3>. HIDE DEF S, told
    <3>1. \A i \in 1 .. n : i \in S
      BY <1>3, <1>5, <2>7, <2>8, UpFromOne
    <3>2. n \in 1 .. n
      BY <1>3, <1>5
    <3>. QED
      BY <3>1, <3>2
  <2>10. SubSeq(r, 1, n) = r
    BY <1>1
  <2>. QED
    BY <1>1, <1>2, <1>3, <2>1, <2>4, <2>9, <2>10
<1>. QED
  BY <1>4, <1>5

(* Edits that meet none of a chain come between two of its edits.              *)
LEMMA ChainIsSplit ==
  ASSUME NEW a \in IntEdits, a.start <= a.end, NEW b \in Seq(IntEdits), Chained(b),
         \A i \in 1 .. Len(b) : TransformEdit(b[i], a) # <<>>
  PROVE  \E k : /\ Splits(a, b, k)
                /\ \A i \in 1 .. Len(b) :
                     TransformEdit(b[i], a) =
                       <<IF i <= k THEN b[i] ELSE Shifted(b[i], EditLengthDelta(a))>>
<1>1. PICK n : n = Len(b)
  OBVIOUS
<1>2. n \in Nat /\ a.end \in Int
      /\ \A i \in 1 .. n : b[i].start \in Int /\ b[i].end \in Int /\ b[i].start <= b[i].end
  <2>1. \A i \in 1 .. n : b[i] \in IntEdits
    BY <1>1
  <2>. QED
    BY <1>1, <2>1 DEF IntEdits, Chained
<1>3. ASSUME NEW i \in 1 .. n
      PROVE  IF a.end <= b[i].start
             THEN TransformEdit(b[i], a) = <<Shifted(b[i], EditLengthDelta(a))>>
             ELSE b[i].end <= a.start /\ TransformEdit(b[i], a) = <<b[i]>>
  <2>1. TransformEdit(b[i], a) # <<>>
    BY <1>1
  <2>. QED
    BY <2>1 DEF TransformEdit, Before
<1>. DEFINE K == {i \in 1 .. n : a.end <= b[i].start}
<1>4. PICK k \in 0 .. n : \A i \in 1 .. n : i <= k <=> i \notin K
  <2>1. CASE K = {}
    <3>1. n \in 0 .. n /\ \A i \in 1 .. n : i <= n /\ i \notin K
      BY <1>2, <2>1
    <3>. HIDE DEF K
    <3>. QED
      BY <3>1
  <2>2. CASE K # {}
    <3>1. K \subseteq Nat
      OBVIOUS
    <3>2. PICK m \in K : \A j \in K : ~(<<j, m>> \in OpToRel(<, Nat))
      <4>. HIDE DEF K
      <4>. QED
        BY <2>2, <3>1, WFMin, NatLessThanWellFounded
    <3>3. m \in 1 .. n /\ m - 1 \in 0 .. n /\ m \in Nat
      BY <1>2
    <3>4. ASSUME NEW i \in 1 .. n
          PROVE  i <= m - 1 <=> i \notin K
      <4>1. CASE i < m
        <5>1. i \in Nat /\ i <= m - 1
          BY <1>2, <4>1
        <5>2. i \notin K
          <6>. HIDE DEF K
          <6>. QED
            BY <3>2, <3>3, <4>1, <5>1 DEF OpToRel
        <5>. QED
          BY <5>1, <5>2
      <4>2. CASE i = m
        <5>1. m \in K
          OBVIOUS
        <5>2. ~(m <= m - 1)
          BY <3>3
        <5>. HIDE DEF K
        <5>. QED
          BY <4>2, <5>1, <5>2
      <4>3. CASE m < i
        <5>1. b[m].end <= b[i].start
          BY <1>1, <3>3, <4>3 DEF Chained
        <5>2. a.end <= b[m].start /\ b[m].start <= b[m].end
          BY <1>2, <3>2, <3>3
        <5>3. a.end <= b[i].start
          <6>1. b[m].start \in Int /\ b[m].end \in Int /\ b[i].start \in Int /\ a.end \in Int
            BY <1>2, <3>3
          <6>. QED
            BY <5>1, <5>2, <6>1
        <5>4. ~(i <= m - 1)
          BY <3>3, <4>3
        <5>. QED
          BY <5>3, <5>4
      <4>. QED
        BY <3>3, <4>1, <4>2, <4>3
    <3>. HIDE DEF K
    <3>. QED
      BY <3>3, <3>4
  <2>. QED
    BY <2>1, <2>2
<1>5. ASSUME NEW i \in 1 .. n
      PROVE  i <= k <=> ~(a.end <= b[i].start)
  BY <1>4
<1>6. Splits(a, b, k)
  BY <1>1, <1>3, <1>5 DEF Splits
<1>7. \A i \in 1 .. n : TransformEdit(b[i], a) =
                          <<IF i <= k THEN b[i] ELSE Shifted(b[i], EditLengthDelta(a))>>
  BY <1>3, <1>5
<1>. QED
  BY <1>1, <1>6, <1>7


(* Two lists composed, where the first is one edit. *)
LEMMA OneComposedIsMerged ==
  ASSUME NEW t \in Seq(Lines), NEW a \in IntEdits, InRange(t, a),
         NEW b \in Seq(IntEdits), Chained(b), \A i \in 1 .. Len(b) : InRange(t, b[i]),
         \A i \in 1 .. Len(b) : TransformEdit(b[i], a) # <<>>
  PROVE  LET rebased == TransformEditList(b, <<a>>) IN
         /\ Ordered(rebased.edits) = rebased.edits
         /\ ApplyEdits(Spliced(t, a), rebased.edits) = ApplyEdits(t, <<a>> \o b)
         /\ ApplyEdits(t, <<a>> \o b) # Thrown
<1>1. a.start <= a.end
  BY DEF InRange
<1>2. PICK k : /\ Splits(a, b, k)
               /\ \A i \in 1 .. Len(b) :
                    TransformEdit(b[i], a) =
                      <<IF i <= k THEN b[i] ELSE Shifted(b[i], EditLengthDelta(a))>>
  BY <1>1, ChainIsSplit
<1>3. PICK n : n = Len(b)
  OBVIOUS
<1>4. n \in Nat /\ DOMAIN b = 1 .. n /\ \A i \in 1 .. n : b[i] \in IntEdits
  BY <1>3
<1>5. PICK r : r = [i \in 1 .. n |-> IF i <= k THEN b[i] ELSE Shifted(b[i], EditLengthDelta(a))]
  OBVIOUS
<1>6. r \in Seq(IntEdits) /\ Len(r) = n
  <2>1. EditLengthDelta(a) \in Int
    BY DEF EditLengthDelta, IntEdits
  <2>2. \A i \in 1 .. n : r[i] \in IntEdits
    BY <1>4, <1>5, <2>1, ShiftedEdit
  <2>3. r \in [1 .. n -> IntEdits]
    BY <1>5, <2>2
  <2>. QED
    BY <1>4, <2>3
<1>7. [i \in DOMAIN b |-> TransformEdit(b[i], a)] = [i \in 1 .. Len(r) |-> <<r[i]>>]
  <2>1. \A i \in 1 .. n : TransformEdit(b[i], a) = <<r[i]>>
    BY <1>2, <1>3, <1>5
  <2>. QED
    BY <1>4, <1>6, <2>1
<1>8. TransformEditList(b, <<a>>).edits = r
  <2>1. TransformEditList(b, <<a>>).edits = FlattenSeq([i \in DOMAIN b |-> TransformEdit(b[i], a)])
    BY OneIsRebased
  <2>2. FlattenSeq([i \in 1 .. Len(r) |-> <<r[i]>>]) = r
    BY <1>6, FlattenedEdits
  <2>. QED
    BY <1>7, <2>1, <2>2
<1>9. \A i \in 1 .. Len(b) : r[i] = IF i <= k THEN b[i] ELSE Shifted(b[i], EditLengthDelta(a))
  BY <1>3, <1>5
<1>10. /\ Ordered(r) = r
       /\ ApplyEdits(Spliced(t, a), r) = ApplyEdits(t, <<a>> \o b)
       /\ ApplyEdits(t, <<a>> \o b) # Thrown
  BY <1>2, <1>3, <1>6, <1>9, RebasedListMerges
<1>. QED
  BY <1>8, <1>10

LEMMA NoConflictMeetsNone ==
  ASSUME NEW a, NEW b \in Seq(IntEdits), TransformEditList(b, <<a>>).conflicts = 0,
         \A i \in DOMAIN b : b[i] # a
  PROVE  \A i \in 1 .. Len(b) : TransformEdit(b[i], a) # <<>>
<1>. DEFINE met == {i \in DOMAIN b : Conflict(b[i], a)}
<1>1. TransformEditList(b, <<a>>).conflicts = 0 + Cardinality(met)
  BY OneIsRebased
<1>2. DOMAIN b = 1 .. Len(b) /\ Len(b) \in Nat
  OBVIOUS
<1>3. met \subseteq 1 .. Len(b)
  BY <1>2
<1>4. \A i \in 1 .. Len(b) : i \notin met => ~Conflict(b[i], a)
  BY <1>2
<1>. HIDE DEF met
<1>5. IsFiniteSet(1 .. Len(b))
  BY <1>2, FS_Interval
<1>6. IsFiniteSet(met)
  BY <1>3, <1>5, FS_Subset
<1>7. Cardinality(met) \in Nat
  BY <1>6, FS_CardinalityType
<1>8. Cardinality(met) = 0
  BY <1>1, <1>7
<1>9. met = {}
  BY <1>6, <1>8, FS_EmptySet
<1>. QED
  BY <1>2, <1>4, <1>9 DEF Conflict

LEMMA ComposedIsMerged ==
  ASSUME NEW t \in Seq(Lines), NEW a \in IntEdits, InRange(t, a),
         NEW b \in Seq(IntEdits), Chained(b), \A i \in 1 .. Len(b) : InRange(t, b[i]),
         Compose(t, <<a>>, b).conflicts = 0, \A i \in DOMAIN b : b[i] # a
  PROVE  Compose(t, <<a>>, b).source = ApplyEdits(t, <<a>> \o b)
<1>1. Ordered(<<a>>) = <<a>>
  BY OneIsOrdered
<1>2. ApplyEdits(t, <<a>>) = Spliced(t, a) /\ Spliced(t, a) # Thrown
  BY OneEditIsApplied, FitsIsApplied
<1>3. PICK rebased : rebased = TransformEditList(b, <<a>>)
  OBVIOUS
<1>4. /\ Compose(t, <<a>>, b).source = ApplyEdits(Spliced(t, a), Ordered(rebased.edits))
      /\ Compose(t, <<a>>, b).conflicts = rebased.conflicts
  BY <1>1, <1>2, <1>3 DEF Compose
<1>5. \A i \in 1 .. Len(b) : TransformEdit(b[i], a) # <<>>
  BY <1>3, <1>4, NoConflictMeetsNone
<1>6. /\ Ordered(rebased.edits) = rebased.edits
      /\ ApplyEdits(Spliced(t, a), rebased.edits) = ApplyEdits(t, <<a>> \o b)
  BY <1>3, <1>5, OneComposedIsMerged
<1>. QED
  BY <1>4, <1>6

LEMMA OneOverOne ==
  ASSUME NEW b, NEW a
  PROVE  TransformEditList(<<b>>, <<a>>).edits = TransformEdit(b, a)
<1>1. [i \in DOMAIN <<b>> |-> TransformEdit(<<b>>[i], a)] = [i \in {1} |-> TransformEdit(b, a)]
  OBVIOUS
<1>. QED
  BY <1>1, OneIsRebased, FlattenedOne

(* A list whose edits fit and do not overlap stays one when an edit is added.  *)
LEMMA FittingChains ==
  ASSUME NEW list \in Seq(Edits), Chained(list), \A i \in 1 .. Len(list) : InRange(base, list[i]),
         NEW e \in Edits, Fits(e, list)
  PROVE  /\ Append(list, e) \in Seq(Edits) /\ Chained(Append(list, e))
         /\ \A i \in 1 .. Len(Append(list, e)) : InRange(base, Append(list, e)[i])
<1>1. PICK n : n = Len(list)
  OBVIOUS
<1>2. PICK longer : longer = Append(list, e)
  OBVIOUS
<1>3. /\ n \in Nat /\ Len(longer) = n + 1 /\ longer \in Seq(Edits)
      /\ \A i \in 1 .. n : longer[i] = list[i] /\ list[i] \in Edits
      /\ longer[n + 1] = e
  BY <1>1, <1>2
<1>4. InRange(base, e) /\ ~Overlapping(longer)
  BY <1>2 DEF Fits
<1>5. \A i \in 1 .. n + 1 : i \in 1 .. n \/ i = n + 1
  BY <1>3
<1>6. \A i \in 1 .. n + 1 : InRange(base, longer[i])
  BY <1>1, <1>3, <1>4, <1>5
<1>7. \A i \in 1 .. n + 1 : longer[i].start \in Nat /\ longer[i].end \in Nat
  BY <1>3, <1>5 DEF Edits
<1>8. \A i \in 1 .. n + 1 : longer[i].start <= longer[i].end
  BY <1>6 DEF InRange
<1>9. ASSUME NEW i \in 1 .. n
      PROVE  longer[i].end <= e.start
  <2>1. n \in 1 .. n /\ n + 1 \in 2 .. n + 1 /\ (n + 1) - 1 = n /\ n \in 1 .. n + 1 /\ n + 1 \in 1 .. n + 1
        /\ i \in 1 .. n + 1
    BY <1>3
  <2>2. ~(longer[n + 1].start < longer[n].end)
    BY <1>3, <1>4, <2>1 DEF Overlapping
  <2>3. longer[n].end <= e.start
    BY <1>3, <1>7, <2>1, <2>2
  <2>4. CASE i = n
    BY <2>3, <2>4
  <2>5. CASE i # n
    <3>1. i < n
      BY <1>3, <2>5
    <3>2. longer[i].end <= longer[n].start
      BY <1>1, <1>3, <2>1, <3>1 DEF Chained
    <3>3. longer[n].start <= longer[n].end
      BY <1>8, <2>1
    <3>4. longer[i].end \in Nat /\ longer[n].start \in Nat /\ longer[n].end \in Nat /\ e.start \in Nat
      BY <1>3, <1>7, <2>1
    <3>. QED
      BY <2>3, <3>2, <3>3, <3>4
  <2>. QED
    BY <2>4, <2>5
<1>10. ASSUME NEW i \in 1 .. n + 1, NEW j \in 1 .. n + 1, i < j
       PROVE  longer[i].end <= longer[j].start
  <2>1. i \in 1 .. n
    BY <1>3, <1>10
  <2>2. CASE j \in 1 .. n
    BY <1>1, <1>3, <1>10, <2>1, <2>2 DEF Chained
  <2>3. CASE j = n + 1
    BY <1>3, <1>9, <2>1, <2>3
  <2>. QED
    BY <1>5, <2>2, <2>3
<1>11. Chained(longer)
  BY <1>3, <1>8, <1>10 DEF Chained
<1>. QED
  BY <1>2, <1>3, <1>6, <1>11


(* After one step what was done is the edit of the base that the step planned, *)
(* after two the base has the edits that were kept; lists follow each other.   *)
MergeInv ==
  /\ EditInv
  /\ Chained(first) /\ \A i \in 1 .. Len(first) : InRange(base, first[i])
  /\ Chained(second) /\ \A i \in 1 .. Len(second) : InRange(base, second[i])
  /\ steps = 0 => current = base /\ applied = <<>> /\ kept = <<>>
  /\ steps = 1 => /\ current \in Seq(Lines) /\ applied = DifferentialEdits(base, current)
                  /\ kept = applied
  /\ steps = 2 => current # Thrown /\ current = ApplyEdits(base, kept)

(* The second step: its edit is dropped or shifted over that of the first.     *)
LEMMA SecondStepMerges ==
  ASSUME NEW b \in Seq(Lines), NEW c \in Seq(Lines), NEW p \in Seq(Lines)
  PROVE  LET done  == DifferentialEdits(b, c)
             edits == DifferentialEdits(b, p)
             over  == TransformEditList(edits, done).edits
         IN  /\ ApplyEdits(c, over) # Thrown
             /\ ApplyEdits(c, over) = ApplyEdits(b, IF over = <<>> THEN done ELSE done \o edits)
<1>. DEFINE done  == DifferentialEdits(b, c)
            edits == DifferentialEdits(b, p)
            over  == TransformEditList(edits, done).edits
<1>. SUFFICES /\ ApplyEdits(c, over) # Thrown
              /\ ApplyEdits(c, over) = ApplyEdits(b, IF over = <<>> THEN done ELSE done \o edits)
  OBVIOUS
<1>1. \A s \in Seq(Lines) : s # Thrown
  BY ThrownAssumption
<1>2. ApplyEdits(b, done) = c /\ ApplyEdits(b, edits) = p
  BY DifferenceIsApplied
<1>3. CASE over = <<>>
  <2>1. ApplyEdits(c, over) = c
    BY <1>3, NothingIsApplied
  <2>. QED
    BY <1>1, <1>2, <1>3, <2>1
<1>4. CASE over # <<>> /\ b = c
  <2>1. done = <<>>
    BY <1>4, DifferenceLeadsOver
  <2>2. over = edits
    BY <2>1, NothingIsRebasedOver
  <2>3. <<>> \o edits = edits
    <3>1. edits \in Seq(Edits)
      BY DifferencesAreFew
    <3>. HIDE DEF edits
    <3>. QED
      BY <3>1
  <2>. HIDE DEF done, edits, over
  <2>. QED
    BY <1>1, <1>2, <1>4, <2>1, <2>2, <2>3
<1>5. CASE over # <<>> /\ b # c
  <2>1. PICK a : a = DifferenceOf(b, c)
    OBVIOUS
  <2>2. done = <<a>> /\ a \in IntEdits /\ InRange(b, a) /\ Spliced(b, a) = c
    <3>1. /\ DifferentialEdits(b, c) = <<DifferenceOf(b, c)>> /\ DifferenceOf(b, c) \in Edits
          /\ InRange(b, DifferenceOf(b, c)) /\ Spliced(b, DifferenceOf(b, c)) = c
      BY <1>5, DifferenceLeadsOver
    <3>2. DifferenceOf(b, c) \in IntEdits
      BY <3>1 DEF Edits, IntEdits
    <3>. QED
      BY <2>1, <3>1, <3>2
  <2>3. b # p
    <3>. SUFFICES ASSUME b = p PROVE FALSE
      OBVIOUS
    <3>1. edits = <<>>
      BY DifferenceLeadsOver
    <3>2. [i \in DOMAIN <<>> |-> TransformEdit(<<>>[i], a)] = <<>> /\ Len(<<>>) = 0
      OBVIOUS
    <3>3. FlattenSeq(<<>>) = <<>>
      BY <3>2 DEF FlattenSeq
    <3>4. TransformEditList(<<>>, <<a>>).edits
          = FlattenSeq([i \in DOMAIN <<>> |-> TransformEdit(<<>>[i], a)])
      BY OneIsRebased
    <3>5. TransformEditList(<<>>, <<a>>).edits = <<>>
      BY <3>2, <3>3, <3>4
    <3>6. over = <<>>
      BY <2>2, <3>1, <3>5
    <3>. QED
      BY <1>5, <3>6
  <2>4. PICK e : e = DifferenceOf(b, p)
    OBVIOUS
  <2>5. edits = <<e>> /\ e \in IntEdits /\ InRange(b, e)
    <3>1. /\ DifferentialEdits(b, p) = <<DifferenceOf(b, p)>> /\ DifferenceOf(b, p) \in Edits
          /\ InRange(b, DifferenceOf(b, p))
      BY <2>3, DifferenceLeadsOver
    <3>2. DifferenceOf(b, p) \in IntEdits
      BY <3>1 DEF Edits, IntEdits
    <3>. QED
      BY <2>4, <3>1, <3>2
  <2>6. over = TransformEdit(e, a)
    BY <2>2, <2>5, OneOverOne
  <2>7. PICK list : list = <<e>>
    OBVIOUS
  <2>8. list \in Seq(IntEdits) /\ Len(list) = 1 /\ list[1] = e
    BY <2>5, <2>7
  <2>9. \A i \in 1 .. Len(list) : i = 1
    BY <2>8
  <2>10. e.start <= e.end
    BY <2>5 DEF InRange
  <2>11. Chained(list)
    <3>1. \A i, j \in 1 .. Len(list) : ~(i < j)
      BY <2>8
    <3>2. \A i \in 1 .. Len(list) : list[i].start <= list[i].end
      BY <2>8, <2>9, <2>10
    <3>. QED
      BY <3>1, <3>2 DEF Chained
  <2>12. \A i \in 1 .. Len(list) : InRange(b, list[i]) /\ TransformEdit(list[i], a) # <<>>
    BY <1>5, <2>5, <2>6, <2>8, <2>9
  <2>13. /\ ApplyEdits(Spliced(b, a), TransformEditList(list, <<a>>).edits) = ApplyEdits(b, <<a>> \o list)
         /\ ApplyEdits(b, <<a>> \o list) # Thrown
    BY <2>2, <2>8, <2>11, <2>12, OneComposedIsMerged
  <2>14. over = TransformEditList(list, <<a>>).edits
    BY <2>2, <2>5, <2>7
  <2>15. edits = list
    BY <2>5, <2>7
  <2>. HIDE DEF done, edits, over
  <2>. QED
    BY <1>5, <2>2, <2>13, <2>14, <2>15
<1>. QED
  BY <1>3, <1>4, <1>5

LEMMA StepMerges ==
  ASSUME MergeInv, NEW planned \in Rewrites, SequenceStep(planned)
  PROVE  /\ steps' = 1 => /\ current' \in Seq(Lines) /\ applied' = DifferentialEdits(base, current')
                          /\ kept' = applied'
         /\ steps' = 2 => current' # Thrown /\ current' = ApplyEdits(base, kept')
         /\ steps' # 0
<1>. DEFINE edits == DifferentialEdits(base, planned)
            rebased == TransformEditList(edits, applied)
            mid == ApplyEdits(current, rebased.edits)
<1>1. /\ current' = mid /\ steps' = steps + 1 /\ current # Thrown
      /\ applied' = IF mid \in {Thrown, current} THEN applied ELSE DifferentialEdits(base, mid)
      /\ kept' = IF rebased.edits = <<>> THEN kept ELSE kept \o edits
  BY DEF SequenceStep
<1>2. base \in Seq(Lines) /\ planned \in Seq(Lines) /\ steps \in Nat /\ planned # Thrown
  BY SourcesAssumption, ThrownAssumption, StepsAssumption DEF MergeInv, EditInv, EditTypeOK
<1>3. CASE steps = 0
  <2>1. current = base /\ applied = <<>> /\ kept = <<>>
    BY <1>3 DEF MergeInv
  <2>2. rebased.edits = edits
    BY <2>1, NothingIsRebasedOver
  <2>3. mid = planned
    BY <1>2, <2>1, <2>2, DifferenceIsApplied
  <2>4. edits \in Seq(Edits) /\ (planned = base => edits = <<>>)
    BY <1>2, DifferencesAreFew, DifferenceLeadsOver
  <2>5. current' = planned
    BY <1>1, <2>3
  <2>6. applied' = edits
    BY <1>1, <1>2, <2>1, <2>3, <2>4
  <2>7. kept' = edits
    <3>. HIDE DEF edits
    <3>1. <<>> \o edits = edits
      BY <2>4
    <3>. QED
      BY <1>1, <2>1, <2>2, <3>1
  <2>8. steps' = 1
    BY <1>1, <1>3
  <2>. QED
    BY <1>2, <2>5, <2>6, <2>7, <2>8
<1>4. CASE steps = 1
  <2>1. current \in Seq(Lines) /\ applied = DifferentialEdits(base, current) /\ kept = applied
    BY <1>4 DEF MergeInv
  <2>2. /\ mid # Thrown
        /\ mid = ApplyEdits(base, IF rebased.edits = <<>> THEN applied ELSE applied \o edits)
    BY <1>2, <2>1, SecondStepMerges
  <2>. HIDE DEF mid, rebased, edits
  <2>3. steps' = 2
    BY <1>1, <1>4
  <2>4. mid = ApplyEdits(base, kept')
    BY <1>1, <2>1, <2>2
  <2>. QED
    BY <1>1, <2>2, <2>3, <2>4
<1>5. CASE steps \notin {0, 1}
  <2>1. steps' # 1 /\ steps' # 2 /\ steps' # 0
    BY <1>1, <1>2, <1>5
  <2>. QED
    BY <2>1
<1>. QED
  BY <1>3, <1>4, <1>5

LEMMA MergeStep ==
  ASSUME MergeInv, [EditNext]_editVars
  PROVE  MergeInv'
<1>0. EditInv'
  BY EditStep DEF MergeInv
<1>1. ASSUME NEW planned \in Rewrites, SequenceStep(planned)
      PROVE  MergeInv'
  <2>1. base' = base /\ first' = first /\ second' = second
    BY <1>1 DEF SequenceStep
  <2>2. /\ steps' = 1 => /\ current' \in Seq(Lines) /\ applied' = DifferentialEdits(base, current')
                         /\ kept' = applied'
        /\ steps' = 2 => current' # Thrown /\ current' = ApplyEdits(base, kept')
        /\ steps' # 0
    BY <1>1, StepMerges
  <2>. QED
    BY <1>0, <2>1, <2>2 DEF MergeInv, Chained
<1>2. ASSUME NEW s \in 0 .. Len(base), NEW e \in 0 .. Len(base), NEW new \in Insertions,
             PlanFirst([start |-> s, end |-> e, newText |-> new])
               \/ PlanSecond([start |-> s, end |-> e, newText |-> new])
      PROVE  MergeInv'
  <2>. DEFINE edit == [start |-> s, end |-> e, newText |-> new]
  <2>1. edit \in Edits
    BY SourcesAssumption DEF Edits
  <2>. HIDE DEF edit
  <2>2. /\ UNCHANGED <<base, current, applied, kept, conflicts, steps>>
        /\ \/ first' = Append(first, edit) /\ Fits(edit, first) /\ second' = second
           \/ second' = Append(second, edit) /\ Fits(edit, second) /\ first' = first
    BY <1>2 DEF PlanFirst, PlanSecond, edit
  <2>3. /\ first \in Seq(Edits) /\ Chained(first) /\ \A i \in 1 .. Len(first) : InRange(base, first[i])
        /\ second \in Seq(Edits) /\ Chained(second) /\ \A i \in 1 .. Len(second) : InRange(base, second[i])
    BY DEF MergeInv, EditInv, EditTypeOK
  <2>4. /\ Chained(first') /\ \A i \in 1 .. Len(first') : InRange(base, first'[i])
        /\ Chained(second') /\ \A i \in 1 .. Len(second') : InRange(base, second'[i])
    <3>1. CASE first' = Append(first, edit) /\ Fits(edit, first) /\ second' = second
      <4>1. /\ Chained(Append(first, edit))
            /\ \A i \in 1 .. Len(Append(first, edit)) : InRange(base, Append(first, edit)[i])
        BY <2>1, <2>3, <3>1, FittingChains
      <4>. QED
        BY <2>3, <3>1, <4>1
    <3>2. CASE second' = Append(second, edit) /\ Fits(edit, second) /\ first' = first
      <4>1. /\ Chained(Append(second, edit))
            /\ \A i \in 1 .. Len(Append(second, edit)) : InRange(base, Append(second, edit)[i])
        BY <2>1, <2>3, <3>2, FittingChains
      <4>. QED
        BY <2>3, <3>2, <4>1
    <3>. QED
      BY <2>2, <3>1, <3>2
  <2>5. Chained(first)' /\ Chained(second)'
    BY <2>4 DEF Chained
  <2>. QED
    BY <1>0, <2>2, <2>4, <2>5 DEF MergeInv
<1>3. CASE UNCHANGED editVars
  BY <1>0, <1>3 DEF MergeInv, Chained, editVars
<1>. QED
  BY <1>1, <1>2, <1>3 DEF EditNext

LEMMA MergeStarts == EditInit => MergeInv
<1>. SUFFICES ASSUME EditInit PROVE MergeInv
  OBVIOUS
<1>1. EditInv
  BY EditStarts
<1>2. Len(<<>>) = 0
  OBVIOUS
<1>3. first = <<>> /\ second = <<>> /\ current = base /\ applied = <<>> /\ kept = <<>> /\ steps = 0
  BY DEF EditInit
<1>4. Chained(<<>>)
  BY <1>2 DEF Chained
<1>. QED
  BY <1>1, <1>2, <1>3, <1>4 DEF MergeInv

LEMMA MergeHolds == MergeInv => RebasedIsMerged
<1>. SUFFICES ASSUME MergeInv PROVE RebasedIsMerged
  OBVIOUS
<1>1. /\ base \in Seq(Lines) /\ steps \in Nat /\ first \in Seq(Edits) /\ second \in Seq(Edits)
  BY StepsAssumption DEF MergeInv, EditInv, EditTypeOK
<1>2. steps <= 2 => current # Thrown /\ current = ApplyEdits(base, kept)
  <2>1. steps <= 2 => steps = 0 \/ steps = 1 \/ steps = 2
    BY <1>1
  <2>2. CASE steps = 0
    <3>1. current = base /\ kept = <<>>
      BY <2>2 DEF MergeInv
    <3>. QED
      BY <1>1, <3>1, NothingIsApplied, ThrownAssumption
  <2>3. CASE steps = 1
    <3>1. current \in Seq(Lines) /\ kept = DifferentialEdits(base, current)
      BY <2>3 DEF MergeInv
    <3>. QED
      BY <1>1, <3>1, DifferenceIsApplied, ThrownAssumption
  <2>4. CASE steps = 2
    BY <2>4 DEF MergeInv
  <2>. QED
    BY <2>1, <2>2, <2>3, <2>4
<1>3. ASSUME Len(first) = 1, Compose(base, first, second).conflicts = 0,
             ~(\E i \in DOMAIN second : second[i] = first[1])
      PROVE  Compose(base, first, second).source = ApplyEdits(base, first \o second)
  <2>1. PICK a : a = first[1]
    OBVIOUS
  <2>2. a \in Edits /\ InRange(base, a)
    <3>1. 1 \in 1 .. Len(first)
      BY <1>3
    <3>. QED
      BY <1>1, <2>1, <3>1 DEF MergeInv
  <2>3. first = <<a>>
    BY <1>1, <1>3, <2>1
  <2>4. a \in IntEdits
    BY <2>2 DEF Edits, IntEdits
  <2>5. second \in Seq(IntEdits)
    <3>1. Edits \subseteq IntEdits
      BY DEF Edits, IntEdits
    <3>. QED
      BY <1>1, <3>1
  <2>6. Chained(second) /\ \A i \in 1 .. Len(second) : InRange(base, second[i])
    BY DEF MergeInv
  <2>7. Compose(base, <<a>>, second).conflicts = 0 /\ \A i \in DOMAIN second : second[i] # a
    BY <1>3, <2>1, <2>3
  <2>8. Compose(base, <<a>>, second).source = ApplyEdits(base, <<a>> \o second)
    BY <1>1, <2>2, <2>4, <2>5, <2>6, <2>7, ComposedIsMerged
  <2>. QED
    BY <2>3, <2>8
<1>. QED
  BY <1>2, <1>3 DEF RebasedIsMerged

(* A sequence of two steps that each plan on the base throws nothing, and      *)
(* leaves the base with both edits applied at once, or with the first alone    *)
(* where the second was dropped; and one edit composed with a list of any      *)
(* length without conflict is the base with all of them applied: shifting an   *)
(* edit exactly when it begins at or behind the end of the one applied.        *)
THEOREM ParallelStepsMerge == EditSpec => []RebasedIsMerged
BY MergeStarts, MergeStep, MergeHolds, PTL DEF EditSpec

-----------------------------------------------------------------------------
(* Batches.                                                                *)

USE RewrittenAssumption, NoTextAssumption, FilesAssumption, MaxIdsAssumption DEF NoId

PulseStates ==
  [phase : {"plan", "stage", "check", "done", "dead"},
   text : [Files -> Texts \cup {NoText}], id : [Files -> 0 .. MaxIds],
   status : [Files -> Statuses], checkedText : Texts \cup {NoText},
   checkedId : 0 .. MaxIds, moved : SUBSET {"text", "id"}]

(* A pulse that stages or checks has one file to write. *)
AtWork(s) == s.phase \in {"stage", "check"}
OneIsReady(s) == AtWork(s) => \E f \in Files : s.status[f] = "ready"

OthersUnchanged(s) ==
  \A f \in Files : s.status[f] \in {"ready", "written"} =>
    \A g \in Files \ {f} : s.status[g] = "unchanged"

(* What a check has read of its target is on disk d, or has moved since; it    *)
(* starts with nothing read.                                                   *)
ReadIsThereOrMoved(d, s) ==
  /\ s.phase \in {"plan", "stage"} => s.checkedText = NoText /\ s.checkedId = 0
  /\ s.phase = "check" =>
       /\ s.checkedText # NoText => d[Target(s)].text = s.checkedText \/ "text" \in s.moved
       /\ s.checkedId # 0 => d[Target(s)].id = s.checkedId \/ "id" \in s.moved

PulseInv ==
  /\ PulseTypeOK
  /\ \A p \in Pulses : /\ OneIsReady(pulses[p])
                       /\ OthersUnchanged(pulses[p])
                       /\ ReadIsThereOrMoved(disk, pulses[p])

-----------------------------------------------------------------------------
LEMMA PulseTypes ==
  PulseTypeOK <=> /\ disk \in [Files -> [text : Texts, id : 1 .. MaxIds]]
                  /\ lastId \in 1 .. MaxIds
                  /\ pulses \in [Pulses -> PulseStates]
BY DEF PulseTypeOK, PulseStates

LEMMA PlanningIsAState ==
  /\ Planning \in PulseStates
  /\ OneIsReady(Planning) /\ OthersUnchanged(Planning)
  /\ [Planning EXCEPT !.phase = "dead"] \in PulseStates
BY DEF Planning, PulseStates, Statuses, OneIsReady, AtWork, OthersUnchanged

(* The target is a file that is ready. *)
LEMMA TargetIsReady ==
  ASSUME NEW s \in PulseStates, OneIsReady(s), AtWork(s)
  PROVE  Target(s) \in Files /\ s.status[Target(s)] = "ready"
BY DEF OneIsReady, Target

(* A report of statuses is the state of a pulse that has ended. *)
LEMMA ReportIsAState ==
  ASSUME NEW status \in [Files -> Statuses]
  PROVE  /\ Reported(status) \in PulseStates
         /\ Reported(status).status = status
         /\ Reported(status).phase = "done"
<1>1. Planning \in PulseStates
  BY PlanningIsAState
<1>2. [Planning EXCEPT !.phase = "done", !.status = status] \in PulseStates
  BY <1>1 DEF PulseStates
<1>3. /\ [Planning EXCEPT !.phase = "done", !.status = status].status = status
      /\ [Planning EXCEPT !.phase = "done", !.status = status].phase = "done"
  BY <1>1 DEF PulseStates
<1>. QED
  BY <1>2, <1>3 DEF Reported

(* Two files that would change are more than one. *)
LEMMA ChangedAlone ==
  ASSUME NEW S, IsFiniteSet(S), ~(Cardinality(S) > 1), NEW f \in S, NEW g \in S
  PROVE  f = g
<1>. SUFFICES ASSUME f # g PROVE FALSE
  OBVIOUS
<1>1. IsFiniteSet({f, g}) /\ Cardinality({f, g}) = 2
  <2>1. IsFiniteSet({f}) /\ Cardinality({f}) = 1
    BY FS_Singleton
  <2>2. {f, g} = {f} \cup {g} /\ g \notin {f}
    OBVIOUS
  <2>3. /\ IsFiniteSet({f} \cup {g})
        /\ Cardinality({f} \cup {g}) = Cardinality({f}) + 1
    BY <2>1, <2>2, FS_AddElement, Zenon
  <2>. QED
    BY <2>1, <2>2, <2>3
<1>2. Cardinality({f, g}) <= Cardinality(S)
  BY <1>1, FS_Subset
<1>. QED
  BY <1>1, <1>2, FS_CardinalityType

(* The gate lets one change through, with everything else as it is. *)
LEMMA GateLetsOneThrough ==
  ASSUME NEW s \in PulseStates, NEW healthy \in SUBSET Files
  PROVE  LET status == Gated(s, healthy) IN
           /\ status \in [Files -> Statuses]
           /\ \A f \in Files : status[f] # "written"
           /\ \A f \in Files : status[f] = "ready" =>
                \A g \in Files \ {f} : status[g] = "unchanged"
<1>. DEFINE each == [f \in Files |-> Decided(s, f, f \in healthy)]
            changed == {f \in Files : Changed(s, f)}
            closed == (\E f \in Files : each[f] = "blocked") \/ Cardinality(changed) > 1
            status == Gated(s, healthy)
<1>1. each \in [Files -> {"blocked", "ready", "unchanged"}]
  BY DEF Decided
<1>2. \A f \in Files : each[f] = "ready" => f \in changed
  BY DEF Decided
<1>3. IsFiniteSet(changed)
  BY FS_Subset
<1>4. status = IF closed
               THEN [f \in Files |-> IF each[f] = "ready" THEN "blocked_batch" ELSE each[f]]
               ELSE each
  BY DEF Gated
<1>5. CASE closed
  <2>1. status = [f \in Files |-> IF each[f] = "ready" THEN "blocked_batch" ELSE each[f]]
    BY <1>4, <1>5
  <2>. HIDE DEF each, status
  <2>2. \A f \in Files : status[f] \in {"blocked", "blocked_batch", "unchanged"}
    BY <1>1, <2>1
  <2>. QED
    BY <1>1, <2>1, <2>2 DEF Statuses, status
<1>6. CASE ~closed
  <2>1. status = each
    BY <1>4, <1>6
  <2>2. ~(Cardinality(changed) > 1) /\ \A f \in Files : each[f] # "blocked"
    BY <1>6
  <2>. HIDE DEF each, status, changed
  <2>3. ASSUME NEW f \in Files, each[f] = "ready", NEW g \in Files \ {f}
        PROVE  each[g] = "unchanged"
    <3>1. each[g] # "ready"
      BY <1>2, <1>3, <2>2, <2>3, ChangedAlone
    <3>. QED
      BY <1>1, <2>2, <3>1
  <2>. QED
    BY <1>1, <2>1, <2>3 DEF Statuses, status
<1>. QED
  BY <1>5, <1>6

-----------------------------------------------------------------------------
(* A good state is one a pulse may be in while the disk is d. *)
Good(d, s) ==
  s \in PulseStates /\ OneIsReady(s) /\ OthersUnchanged(s) /\ ReadIsThereOrMoved(d, s)

LEMMA InvIsGood ==
  PulseInv <=> /\ disk \in [Files -> [text : Texts, id : 1 .. MaxIds]]
               /\ lastId \in 1 .. MaxIds
               /\ pulses = [p \in Pulses |-> pulses[p]]
               /\ \A p \in Pulses : Good(disk, pulses[p])
BY PulseTypes DEF PulseInv, Good

LEMMA GoodIsInvNext ==
  ASSUME disk' \in [Files -> [text : Texts, id : 1 .. MaxIds]],
         lastId' \in 1 .. MaxIds,
         pulses' = [p \in Pulses |-> pulses'[p]],
         \A p \in Pulses : Good(disk', pulses'[p])
  PROVE  PulseInv'
<1>1. pulses' \in [Pulses -> PulseStates]
  BY DEF Good
<1>2. PulseTypeOK'
  BY <1>1 DEF PulseTypeOK, PulseStates
<1>. QED
  BY <1>2 DEF PulseInv, Good

(* A step of one pulse, to a good state and without touching the disk. *)
LEMMA OneMoves ==
  ASSUME PulseInv, NEW p \in Pulses, NEW s, Good(disk, s),
         pulses' = [pulses EXCEPT ![p] = s], UNCHANGED <<disk, lastId>>
  PROVE  PulseInv'
<1>1. /\ disk \in [Files -> [text : Texts, id : 1 .. MaxIds]]
      /\ lastId \in 1 .. MaxIds
      /\ pulses = [q \in Pulses |-> pulses[q]]
      /\ \A q \in Pulses : Good(disk, pulses[q])
  BY InvIsGood
<1>2. pulses' = [q \in Pulses |-> pulses'[q]]
  BY <1>1
<1>3. \A q \in Pulses : Good(disk, pulses'[q])
  BY <1>1
<1>. QED
  BY <1>1, <1>2, <1>3, GoodIsInvNext

(* A pulse that has ended is in a good state, if its report is a good one. *)
LEMMA ReportIsGood ==
  ASSUME NEW d, NEW status \in [Files -> Statuses],
         \A f \in Files : status[f] \in {"ready", "written"} =>
           \A g \in Files \ {f} : status[g] = "unchanged"
  PROVE  Good(d, Reported(status))
BY ReportIsAState DEF Good, OneIsReady, AtWork, OthersUnchanged, ReadIsThereOrMoved

(* Giving the target another status leaves the others as they were. *)
LEMMA TargetEnds ==
  ASSUME NEW d, NEW e, NEW s, Good(d, s), AtWork(s), NEW x \in Statuses
  PROVE  Good(e, Reported([s.status EXCEPT ![Target(s)] = x]))
<1>. DEFINE f == Target(s)
            status == [s.status EXCEPT ![f] = x]
<1>1. f \in Files /\ s.status[f] = "ready" /\ s.status \in [Files -> Statuses]
  BY TargetIsReady DEF Good, PulseStates
<1>2. \A g \in Files \ {f} : s.status[g] = "unchanged"
  BY <1>1 DEF Good, OthersUnchanged
<1>3. status \in [Files -> Statuses] /\ \A g \in Files \ {f} : status[g] = "unchanged"
  BY <1>1, <1>2
<1>. HIDE DEF status
<1>4. \A h \in Files : status[h] \in {"ready", "written"} =>
           \A g \in Files \ {h} : status[g] = "unchanged"
  BY <1>3
<1>5. Good(e, Reported(status))
  BY <1>3, <1>4, ReportIsGood
<1>. QED
  BY <1>5 DEF status

(* A step of the pulse that changes neither its statuses nor its phase. *)
LEMMA SameStandingIsGood ==
  ASSUME NEW d, NEW s, Good(d, s), NEW t \in PulseStates,
         t.status = s.status, t.phase \in {s.phase, "check"}, AtWork(s) \/ t.phase = s.phase,
         ReadIsThereOrMoved(d, t)
  PROVE  Good(d, t)
BY DEF Good, OneIsReady, AtWork, OthersUnchanged

-----------------------------------------------------------------------------
LEMMA PlanReadsKeep ==
  ASSUME PulseInv, NEW p \in Pulses, NEW f \in Files, PlanReadsText(p, f) \/ PlanReadsId(p, f)
  PROVE  PulseInv'
<1>. DEFINE s == pulses[p]
<1>1. Good(disk, s) /\ s \in PulseStates
  BY InvIsGood DEF Good
<1>2. disk[f].text \in Texts /\ disk[f].id \in 1 .. MaxIds
  BY InvIsGood
<1>3. CASE PlanReadsText(p, f)
  <2>. DEFINE t == [s EXCEPT !.text[f] = disk[f].text]
  <2>1. s.phase = "plan" /\ pulses' = [pulses EXCEPT ![p] = t] /\ UNCHANGED <<disk, lastId>>
    BY <1>3 DEF PlanReadsText
  <2>2. /\ t \in PulseStates /\ t.status = s.status /\ t.phase = "plan"
        /\ t.checkedText = s.checkedText /\ t.checkedId = s.checkedId
    BY <1>1, <1>2, <2>1 DEF PulseStates
  <2>. HIDE DEF t
  <2>3. Good(disk, t)
    BY <1>1, <2>1, <2>2, SameStandingIsGood DEF Good, ReadIsThereOrMoved
  <2>. QED
    BY <2>1, <2>3, OneMoves
<1>4. CASE PlanReadsId(p, f)
  <2>. DEFINE t == [s EXCEPT !.id[f] = disk[f].id]
  <2>1. s.phase = "plan" /\ pulses' = [pulses EXCEPT ![p] = t] /\ UNCHANGED <<disk, lastId>>
    BY <1>4 DEF PlanReadsId
  <2>2. /\ t \in PulseStates /\ t.status = s.status /\ t.phase = "plan"
        /\ t.checkedText = s.checkedText /\ t.checkedId = s.checkedId
    BY <1>1, <1>2, <2>1 DEF PulseStates
  <2>. HIDE DEF t
  <2>3. Good(disk, t)
    BY <1>1, <2>1, <2>2, SameStandingIsGood DEF Good, ReadIsThereOrMoved
  <2>. QED
    BY <2>1, <2>3, OneMoves
<1>. QED
  BY <1>3, <1>4

LEMMA GateKeeps ==
  ASSUME PulseInv, NEW p \in Pulses, NEW healthy \in SUBSET Files, Gate(p, healthy)
  PROVE  PulseInv'
<1>. DEFINE s == pulses[p]
            status == Gated(s, healthy)
            t == [s EXCEPT !.status = status, !.phase = "stage"]
<1>1. s \in PulseStates /\ s.phase = "plan" /\ s.checkedText = NoText /\ s.checkedId = 0
  BY InvIsGood DEF Good, Gate, ReadIsThereOrMoved
<1>2. /\ status \in [Files -> Statuses]
      /\ \A f \in Files : status[f] # "written"
      /\ \A f \in Files : status[f] = "ready" =>
           \A g \in Files \ {f} : status[g] = "unchanged"
  BY <1>1, GateLetsOneThrough
<1>3. UNCHANGED <<disk, lastId>>
  BY DEF Gate
<1>4. CASE \E f \in Files : status[f] = "ready"
  <2>1. pulses' = [pulses EXCEPT ![p] = t]
    BY <1>4 DEF Gate
  <2>. HIDE DEF status
  <2>2. /\ t \in PulseStates /\ t.status = status /\ t.phase = "stage"
        /\ t.checkedText = NoText /\ t.checkedId = 0
    BY <1>1, <1>2 DEF PulseStates
  <2>. HIDE DEF t
  <2>3. Good(disk, t)
    BY <1>2, <1>4, <2>2 DEF Good, OneIsReady, OthersUnchanged, ReadIsThereOrMoved
  <2>. QED
    BY <1>3, <2>1, <2>3, OneMoves
<1>5. CASE ~\E f \in Files : status[f] = "ready"
  <2>1. pulses' = [pulses EXCEPT ![p] = Reported(status)]
    BY <1>5 DEF Gate
  <2>. HIDE DEF status
  <2>2. Good(disk, Reported(status))
    BY <1>2, <1>5, ReportIsGood
  <2>. QED
    BY <1>3, <2>1, <2>2, OneMoves
<1>. QED
  BY <1>4, <1>5

LEMMA StageKeeps ==
  ASSUME PulseInv, NEW p \in Pulses, Stage(p)
  PROVE  PulseInv'
<1>. DEFINE s == pulses[p]
            t == [s EXCEPT !.phase = "check"]
<1>1. Good(disk, s) /\ s \in PulseStates
  BY InvIsGood DEF Good
<1>2. s.phase = "stage" /\ pulses' = [pulses EXCEPT ![p] = t] /\ UNCHANGED <<disk, lastId>>
  BY DEF Stage
<1>3. s.checkedText = NoText /\ s.checkedId = 0
  BY <1>1, <1>2 DEF Good, ReadIsThereOrMoved
<1>4. /\ t \in PulseStates /\ t.status = s.status /\ t.phase = "check"
      /\ t.checkedText = NoText /\ t.checkedId = 0
  BY <1>1, <1>3 DEF PulseStates
<1>. HIDE DEF t
<1>5. Good(disk, t)
  BY <1>1, <1>2, <1>4, SameStandingIsGood DEF ReadIsThereOrMoved, AtWork
<1>. QED
  BY <1>2, <1>5, OneMoves

LEMMA CheckReadsKeep ==
  ASSUME PulseInv, NEW p \in Pulses, CheckReadsText(p) \/ CheckReadsId(p)
  PROVE  PulseInv'
<1>. DEFINE s == pulses[p]
            f == Target(s)
<1>1. Good(disk, s) /\ s \in PulseStates /\ s.phase = "check"
  BY InvIsGood DEF Good, CheckReadsText, CheckReadsId
<1>2. f \in Files
  BY <1>1, TargetIsReady DEF Good, AtWork
<1>3. disk[f].text \in Texts /\ disk[f].id \in 1 .. MaxIds
  BY <1>2, InvIsGood
<1>4. CASE CheckReadsText(p)
  <2>. DEFINE t == [s EXCEPT !.checkedText = disk[f].text]
  <2>1. pulses' = [pulses EXCEPT ![p] = t] /\ UNCHANGED <<disk, lastId>>
    BY <1>4 DEF CheckReadsText
  <2>2. /\ t \in PulseStates /\ t.status = s.status /\ t.phase = "check"
        /\ t.checkedText = disk[f].text /\ t.checkedId = s.checkedId /\ t.moved = s.moved
    BY <1>1, <1>3 DEF PulseStates
  <2>. HIDE DEF t
  <2>3. Target(t) = f
    BY <2>2 DEF Target
  <2>. HIDE DEF f
  <2>4. ReadIsThereOrMoved(disk, t)
    BY <1>1, <2>2, <2>3 DEF Good, ReadIsThereOrMoved, f
  <2>5. Good(disk, t)
    BY <1>1, <2>2, <2>4, SameStandingIsGood
  <2>. QED
    BY <2>1, <2>5, OneMoves
<1>5. CASE CheckReadsId(p)
  <2>. DEFINE t == [s EXCEPT !.checkedId = disk[f].id]
  <2>1. pulses' = [pulses EXCEPT ![p] = t] /\ UNCHANGED <<disk, lastId>>
    BY <1>5 DEF CheckReadsId
  <2>2. /\ t \in PulseStates /\ t.status = s.status /\ t.phase = "check"
        /\ t.checkedText = s.checkedText /\ t.checkedId = disk[f].id /\ t.moved = s.moved
    BY <1>1, <1>3 DEF PulseStates
  <2>. HIDE DEF t
  <2>3. Target(t) = f
    BY <2>2 DEF Target
  <2>. HIDE DEF f
  <2>4. ReadIsThereOrMoved(disk, t)
    BY <1>1, <2>2, <2>3 DEF Good, ReadIsThereOrMoved, f
  <2>5. Good(disk, t)
    BY <1>1, <2>2, <2>4, SameStandingIsGood
  <2>. QED
    BY <2>1, <2>5, OneMoves
<1>. QED
  BY <1>4, <1>5

LEMMA EndingsKeep ==
  ASSUME PulseInv, NEW p \in Pulses, Refuse(p) \/ IoFails(p) \/ CrashPulse(p)
  PROVE  PulseInv'
<1>. DEFINE s == pulses[p]
<1>1. Good(disk, s)
  BY InvIsGood
<1>2. ASSUME Refuse(p) \/ IoFails(p)
      PROVE  PulseInv'
  <2>1. AtWork(s) /\ UNCHANGED <<disk, lastId>>
    BY <1>2 DEF Refuse, IoFails, Checked, AtWork
  <2>2. PICK x \in {"blocked_stale_source", "blocked_io"} :
          pulses' = [pulses EXCEPT ![p] = Reported([s.status EXCEPT ![Target(s)] = x])]
    BY <1>2 DEF Refuse, IoFails
  <2>3. Good(disk, Reported([s.status EXCEPT ![Target(s)] = x]))
    BY <1>1, <2>1, TargetEnds DEF Statuses
  <2>. QED
    BY <2>1, <2>2, <2>3, OneMoves
<1>3. ASSUME CrashPulse(p)
      PROVE  PulseInv'
  <2>. DEFINE t == [Planning EXCEPT !.phase = "dead"]
  <2>1. pulses' = [pulses EXCEPT ![p] = t] /\ UNCHANGED <<disk, lastId>>
    BY <1>3 DEF CrashPulse
  <2>2. t \in PulseStates /\ t.phase = "dead" /\ t.status = Planning.status
    BY PlanningIsAState DEF PulseStates
  <2>. HIDE DEF t
  <2>3. Good(disk, t)
    BY <2>2, PlanningIsAState DEF Good, OneIsReady, AtWork, OthersUnchanged, ReadIsThereOrMoved
  <2>. QED
    BY <2>1, <2>3, OneMoves
<1>. QED
  BY <1>2, <1>3

-----------------------------------------------------------------------------
(* File f takes another text, or another text and another identity: a check of *)
(* it notes what it had read of that, and every pulse stays good.              *)
LEMMA MovedStaysGood ==
  ASSUME PulseInv, NEW f \in Files, NEW what \in SUBSET {"text", "id"},
         NEW d \in [Files -> [text : Texts, id : 1 .. MaxIds]],
         \A g \in Files \ {f} : d[g] = disk[g],
         "text" \in what, "id" \in what \/ d[f].id = disk[f].id
  PROVE  \A p \in Pulses : /\ Good(d, Moved(f, what)[p])
                           /\ Moved(f, what)[p].phase = pulses[p].phase
<1>1. ASSUME NEW p \in Pulses
      PROVE  Good(d, Moved(f, what)[p]) /\ Moved(f, what)[p].phase = pulses[p].phase
  <2>. DEFINE s == pulses[p]
              seen == {w \in what : \/ w = "text" /\ s.checkedText # NoText
                                    \/ w = "id" /\ s.checkedId # NoId}
              u == [s EXCEPT !.moved = @ \cup seen]
  <2>1. Good(disk, s) /\ s \in PulseStates
    BY InvIsGood DEF Good
  <2>2. CASE s.phase = "check" /\ Target(s) = f
    <3>1. Moved(f, what)[p] = u
      BY <2>2 DEF Moved
    <3>2. seen \in SUBSET {"text", "id"}
      OBVIOUS
    <3>3. /\ s.checkedText # NoText => "text" \in seen
          /\ s.checkedId # 0 => "id" \in seen \/ d[f].id = disk[f].id
      OBVIOUS
    <3>. HIDE DEF seen
    <3>4. /\ u \in PulseStates /\ u.status = s.status /\ u.phase = "check"
          /\ u.checkedText = s.checkedText /\ u.checkedId = s.checkedId
          /\ u.moved = s.moved \cup seen
      BY <2>1, <2>2, <3>2 DEF PulseStates
    <3>. HIDE DEF u
    <3>5. Target(u) = f
      BY <2>2, <3>4 DEF Target
    <3>6. ReadIsThereOrMoved(d, u)
      BY <2>1, <2>2, <3>3, <3>4, <3>5 DEF Good, ReadIsThereOrMoved
    <3>7. Good(d, u)
      BY <2>1, <3>4, <3>6, <2>2 DEF Good, OneIsReady, AtWork, OthersUnchanged
    <3>. QED
      BY <2>2, <3>1, <3>4, <3>7
  <2>3. CASE ~(s.phase = "check" /\ Target(s) = f)
    <3>1. Moved(f, what)[p] = s
      BY <2>3 DEF Moved
    <3>2. s.phase = "check" => Target(s) \in Files \ {f}
      BY <2>1, <2>3, TargetIsReady DEF Good, AtWork
    <3>3. Good(d, s)
      BY <2>1, <3>2 DEF Good, ReadIsThereOrMoved
    <3>. QED
      BY <3>1, <3>3
  <2>. QED
    BY <2>2, <2>3
<1>. QED
  BY <1>1

(* The same, for the change that an action makes of one file. *)
LEMMA FileMoves ==
  ASSUME PulseInv, NEW f \in Files, NEW what \in SUBSET {"text", "id"},
         NEW r \in [text : Texts, id : 1 .. MaxIds],
         "text" \in what, "id" \in what \/ r.id = disk[f].id
  PROVE  /\ [disk EXCEPT ![f] = r] \in [Files -> [text : Texts, id : 1 .. MaxIds]]
         /\ \A p \in Pulses : Good([disk EXCEPT ![f] = r], Moved(f, what)[p])
<1>. DEFINE d == [disk EXCEPT ![f] = r]
<1>1. /\ d \in [Files -> [text : Texts, id : 1 .. MaxIds]]
      /\ d[f] = r /\ \A g \in Files \ {f} : d[g] = disk[g]
  BY InvIsGood
<1>. HIDE DEF d
<1>2. \A p \in Pulses : Good(d, Moved(f, what)[p])
  BY <1>1, MovedStaysGood
<1>. QED
  BY <1>1, <1>2 DEF d

LEMMA RenameKeeps ==
  ASSUME PulseInv, NEW p \in Pulses, Rename(p)
  PROVE  PulseInv'
<1>. DEFINE s == pulses[p]
            f == Target(s)
            t == Rewritten[s.text[f]]
            report == Reported([s.status EXCEPT ![f] = "written"])
            r == [text |-> t, id |-> lastId + 1]
            d == [disk EXCEPT ![f] = r]
            moved == Moved(f, {"text", "id"})
<1>1. Good(disk, s) /\ s \in PulseStates /\ s.phase = "check" /\ AtWork(s)
  BY InvIsGood DEF Good, Rename, Checked, AtWork
<1>2. f \in Files
  BY <1>1, TargetIsReady DEF Good
<1>3. s.text[f] \in Texts
  <2>1. s.checkedText = s.text[f] /\ s.checkedText # NoText
    BY DEF Rename, Checked, Matches
  <2>. QED
    BY <1>1, <2>1 DEF PulseStates
<1>4. /\ t \in Texts /\ lastId + 1 \in 1 .. MaxIds
      /\ disk' = d /\ lastId' = lastId + 1
      /\ pulses' = [moved EXCEPT ![p] = report]
  BY <1>3, InvIsGood DEF Rename
<1>5. moved = [q \in Pulses |-> moved[q]]
  BY DEF Moved
<1>. HIDE DEF f, t
<1>6. r \in [text : Texts, id : 1 .. MaxIds]
  BY <1>4
<1>. HIDE DEF r
<1>7. /\ d \in [Files -> [text : Texts, id : 1 .. MaxIds]]
      /\ \A q \in Pulses : Good(d, moved[q])
  BY <1>2, <1>6, FileMoves
<1>8. Good(d, report)
  BY <1>1, TargetEnds DEF Statuses, f
<1>. HIDE DEF d, moved, report
<1>9. pulses' = [q \in Pulses |-> pulses'[q]] /\ \A q \in Pulses : Good(d, pulses'[q])
  BY <1>4, <1>5, <1>7, <1>8
<1>. QED
  BY <1>4, <1>7, <1>9, GoodIsInvNext

LEMMA EditsKeep ==
  ASSUME PulseInv, NEW f \in Files, NEW t \in Texts, EditInPlace(f, t) \/ EditReplaces(f, t)
  PROVE  PulseInv'
<1>1. ASSUME NEW r \in [text : Texts, id : 1 .. MaxIds],
             NEW what \in SUBSET {"text", "id"},
             "text" \in what, "id" \in what \/ r.id = disk[f].id, lastId' \in 1 .. MaxIds,
             disk' = [disk EXCEPT ![f] = r],
             pulses' = Moved(f, what)
      PROVE  PulseInv'
  <2>1. /\ disk' \in [Files -> [text : Texts, id : 1 .. MaxIds]]
        /\ \A p \in Pulses : Good(disk', Moved(f, what)[p])
    BY <1>1, FileMoves
  <2>2. pulses' = [p \in Pulses |-> pulses'[p]]
    BY <1>1 DEF Moved
  <2>. QED
    BY <1>1, <2>1, <2>2, GoodIsInvNext
<1>2. CASE EditInPlace(f, t)
  <2>1. disk[f].id \in 1 .. MaxIds /\ lastId' \in 1 .. MaxIds
    BY <1>2, InvIsGood DEF EditInPlace
  <2>2. disk' = [disk EXCEPT ![f] = [disk[f] EXCEPT !.text = t]]
    BY <1>2 DEF EditInPlace
  <2>3. pulses' = Moved(f, {"text"})
    BY <1>2 DEF EditInPlace
  <2>4. /\ [disk[f] EXCEPT !.text = t] \in [text : Texts, id : 1 .. MaxIds]
        /\ [disk[f] EXCEPT !.text = t].id = disk[f].id
    BY InvIsGood
  <2>. QED
    BY <1>1, <2>1, <2>2, <2>3, <2>4
<1>3. CASE EditReplaces(f, t)
  <2>1. /\ lastId + 1 \in 1 .. MaxIds /\ lastId' = lastId + 1
        /\ disk' = [disk EXCEPT ![f] = [text |-> t, id |-> lastId + 1]]
        /\ pulses' = Moved(f, {"text", "id"})
    BY <1>3, InvIsGood DEF EditReplaces
  <2>. QED
    BY <1>1, <2>1
<1>. QED
  BY <1>2, <1>3

-----------------------------------------------------------------------------
LEMMA PulseInit_Inv == PulseInit => PulseInv
<1>. SUFFICES ASSUME PulseInit PROVE PulseInv
  OBVIOUS
<1>1. Planning \in PulseStates /\ OneIsReady(Planning) /\ OthersUnchanged(Planning)
  BY PlanningIsAState
<1>2. Planning.phase = "plan" /\ Planning.checkedText = NoText /\ Planning.checkedId = 0
  BY DEF Planning
<1>3. \A p \in Pulses : Good(disk, pulses[p])
  BY <1>1, <1>2 DEF PulseInit, Good, ReadIsThereOrMoved
<1>4. /\ disk \in [Files -> [text : Texts, id : 1 .. MaxIds]]
      /\ lastId \in 1 .. MaxIds
      /\ pulses = [p \in Pulses |-> pulses[p]]
  BY DEF PulseInit
<1>. QED
  BY <1>3, <1>4, InvIsGood

LEMMA PulseNext_Inv == PulseInv /\ [PulseNext]_pulseVars => PulseInv'
<1>. SUFFICES ASSUME PulseInv, [PulseNext]_pulseVars PROVE PulseInv'
  OBVIOUS
<1>1. ASSUME NEW p \in Pulses, NEW f \in Files, PlanReadsText(p, f) \/ PlanReadsId(p, f)
      PROVE  PulseInv'
  BY <1>1, PlanReadsKeep
<1>2. ASSUME NEW p \in Pulses, NEW healthy \in SUBSET Files, Gate(p, healthy)
      PROVE  PulseInv'
  BY <1>2, GateKeeps
<1>3. ASSUME NEW p \in Pulses, Stage(p)
      PROVE  PulseInv'
  BY <1>3, StageKeeps
<1>4. ASSUME NEW p \in Pulses, CheckReadsText(p) \/ CheckReadsId(p)
      PROVE  PulseInv'
  BY <1>4, CheckReadsKeep
<1>5. ASSUME NEW p \in Pulses, Rename(p)
      PROVE  PulseInv'
  BY <1>5, RenameKeeps
<1>6. ASSUME NEW p \in Pulses, Refuse(p) \/ IoFails(p) \/ CrashPulse(p)
      PROVE  PulseInv'
  BY <1>6, EndingsKeep
<1>7. ASSUME NEW f \in Files, NEW t \in Texts, EditInPlace(f, t) \/ EditReplaces(f, t)
      PROVE  PulseInv'
  BY <1>7, EditsKeep
<1>8. CASE UNCHANGED pulseVars
  <2>1. disk' = disk /\ lastId' = lastId /\ pulses' = pulses
    BY <1>8 DEF pulseVars
  <2>. QED
    BY <2>1, InvIsGood, GoodIsInvNext
<1>. QED
  BY <1>1, <1>2, <1>3, <1>4, <1>5, <1>6, <1>7, <1>8 DEF PulseNext

LEMMA PulseInvHolds == PulseSpec => []PulseInv
BY PulseInit_Inv, PulseNext_Inv, PTL DEF PulseSpec

(* PulseTypeOK: texts, identities and statuses are ones the program has. *)
THEOREM PulseTypes_OK == PulseSpec => []PulseTypeOK
<1>1. PulseInv => PulseTypeOK
  BY DEF PulseInv
<1>. QED
  BY <1>1, PulseInvHolds, PTL

(* BatchIsAllOrNothing: whatever several pulses and an editor do, the report of *)
(* a batch that wrote a file, or is about to, has nothing else to write.        *)
THEOREM BatchesStayWhole == PulseSpec => []BatchIsAllOrNothing
<1>1. PulseInv => BatchIsAllOrNothing
  BY DEF PulseInv, BatchIsAllOrNothing, OthersUnchanged
<1>. QED
  BY <1>1, PulseInvHolds, PTL

-----------------------------------------------------------------------------
Replaces(p) ==
  LET s == pulses[p]
      f == Target(s)
  IN  s.phase = "check" /\ pulses'[p].phase = "done" /\ pulses'[p].status[f] = "written"

(* Only its own rename ends a check with a file written. *)
LEMMA OnlyRenameReplaces ==
  ASSUME PulseInv, [PulseNext]_pulseVars, NEW p \in Pulses, Replaces(p)
  PROVE  Rename(p)
<1>. DEFINE s == pulses[p]
            f == Target(s)
<1>1. s \in PulseStates /\ s.phase = "check" /\ f \in Files /\ pulses = [q \in Pulses |-> pulses[q]]
  BY InvIsGood, TargetIsReady DEF Good, Replaces, AtWork
<1>2. pulses'[p].phase = "done" /\ pulses'[p].status[f] = "written" /\ pulses'[p] # s
  BY <1>1 DEF Replaces
<1>3. ASSUME NEW q \in Pulses, NEW v, pulses' = [pulses EXCEPT ![q] = v]
      PROVE  q = p /\ v = pulses'[p]
  BY <1>1, <1>2, <1>3
<1>4. ASSUME NEW q \in Pulses, NEW g \in Files, PlanReadsText(q, g) \/ PlanReadsId(q, g)
      PROVE  FALSE
  <2>1. PICK v : pulses' = [pulses EXCEPT ![q] = v]
    BY <1>4 DEF PlanReadsText, PlanReadsId
  <2>. QED
    BY <1>1, <1>3, <1>4, <2>1 DEF PlanReadsText, PlanReadsId
<1>5. ASSUME NEW q \in Pulses, NEW healthy \in SUBSET Files, Gate(q, healthy)
      PROVE  FALSE
  <2>1. pulses[q].phase = "plan" /\ \E v : pulses' = [pulses EXCEPT ![q] = v]
    BY <1>5 DEF Gate
  <2>. QED
    BY <1>1, <1>3, <2>1
<1>6. ASSUME NEW q \in Pulses, Stage(q)
      PROVE  FALSE
  <2>1. pulses[q].phase = "stage" /\ \E v : pulses' = [pulses EXCEPT ![q] = v]
    BY <1>6 DEF Stage
  <2>. QED
    BY <1>1, <1>3, <2>1
<1>7. ASSUME NEW q \in Pulses, CheckReadsText(q) \/ CheckReadsId(q)
      PROVE  FALSE
  <2>1. PICK v \in {[pulses[q] EXCEPT !.checkedText = disk[Target(pulses[q])].text],
                    [pulses[q] EXCEPT !.checkedId = disk[Target(pulses[q])].id]} :
          pulses' = [pulses EXCEPT ![q] = v]
    BY <1>7 DEF CheckReadsText, CheckReadsId
  <2>2. q = p /\ v = pulses'[p]
    BY <1>3, <2>1
  <2>3. v.phase = "check"
    BY <1>1, <2>1, <2>2 DEF PulseStates
  <2>. QED
    BY <1>2, <2>2, <2>3
<1>8. ASSUME NEW q \in Pulses, Refuse(q) \/ IoFails(q)
      PROVE  FALSE
  <2>1. PICK x \in {"blocked_stale_source", "blocked_io"} :
          pulses' = [pulses EXCEPT ![q] =
                       Reported([pulses[q].status EXCEPT ![Target(pulses[q])] = x])]
    BY <1>8 DEF Refuse, IoFails
  <2>2. q = p /\ Reported([s.status EXCEPT ![f] = x]) = pulses'[p]
    BY <1>3, <2>1
  <2>. DEFINE status == [s.status EXCEPT ![f] = x]
  <2>3. status \in [Files -> Statuses] /\ status[f] = x
    BY <1>1 DEF PulseStates, Statuses
  <2>. HIDE DEF status
  <2>4. Reported(status).status[f] = x
    BY <2>3, ReportIsAState
  <2>. QED
    BY <1>2, <2>2, <2>4 DEF status
<1>9. ASSUME NEW q \in Pulses, CrashPulse(q)
      PROVE  FALSE
  <2>1. pulses' = [pulses EXCEPT ![q] = [Planning EXCEPT !.phase = "dead"]]
    BY <1>9 DEF CrashPulse
  <2>2. [Planning EXCEPT !.phase = "dead"].phase = "dead"
    BY PlanningIsAState DEF PulseStates
  <2>3. pulses'[p] = [Planning EXCEPT !.phase = "dead"]
    BY <1>3, <2>1
  <2>. QED
    BY <1>2, <2>2, <2>3
<1>10. ASSUME NEW g \in Files, NEW what \in SUBSET {"text", "id"}, pulses' = Moved(g, what)
       PROVE  FALSE
  <2>1. pulses'[p].phase = s.phase
    BY <1>1, <1>10 DEF Moved, PulseStates
  <2>. QED
    BY <1>1, <1>2, <2>1
<1>11. ASSUME NEW g \in Files, NEW t \in Texts, EditInPlace(g, t) \/ EditReplaces(g, t)
       PROVE  FALSE
  <2>1. pulses' = Moved(g, {"text"}) \/ pulses' = Moved(g, {"text", "id"})
    BY <1>11 DEF EditInPlace, EditReplaces
  <2>. QED
    BY <1>10, <2>1
<1>12. ASSUME NEW q \in Pulses, Rename(q)
       PROVE  q = p
  <2>. DEFINE m == Moved(Target(pulses[q]), {"text", "id"})
  <2>1. \E v : pulses' = [m EXCEPT ![q] = v]
    BY <1>12 DEF Rename
  <2>2. m = [x \in Pulses |-> m[x]] /\ m[p].phase = s.phase
    BY <1>1 DEF Moved, PulseStates
  <2>. HIDE DEF m
  <2>. QED
    BY <1>1, <1>2, <2>1, <2>2
<1>13. CASE UNCHANGED pulseVars
  BY <1>2, <1>13 DEF pulseVars
<1>. QED
  BY <1>4, <1>5, <1>6, <1>7, <1>8, <1>9, <1>11, <1>12, <1>13 DEF PulseNext

(* OnlyPlannedIsReplaced: what a rename puts away is what the pulse planned     *)
(* from, text and identity, unless it changed after the last comparison had    *)
(* read it.                                                                    *)
THEOREM ReplacesOnlyPlanned == PulseSpec => OnlyPlannedIsReplaced
<1>. DEFINE Keeps(p) ==
       LET s == pulses[p]
           f == Target(s)
       IN  s.phase = "check" /\ pulses'[p].phase = "done" /\ pulses'[p].status[f] = "written" =>
             /\ disk[f].text = s.text[f] \/ "text" \in s.moved
             /\ disk[f].id = s.id[f] \/ "id" \in s.moved
<1>1. ASSUME PulseInv, [PulseNext]_pulseVars, NEW p \in Pulses
      PROVE  Keeps(p)
  <2>. DEFINE s == pulses[p]
              f == Target(s)
  <2>1. CASE Replaces(p)
    <3>1. Rename(p)
      BY <1>1, <2>1, OnlyRenameReplaces
    <3>2. /\ s.phase = "check" /\ s.checkedText # NoText /\ s.checkedId # 0
          /\ s.checkedText = s.text[f] /\ s.checkedId = s.id[f]
      BY <3>1 DEF Rename, Checked, Matches
    <3>3. ReadIsThereOrMoved(disk, s)
      BY <1>1 DEF PulseInv
    <3>. QED
      BY <3>2, <3>3 DEF ReadIsThereOrMoved
  <2>2. CASE ~Replaces(p)
    BY <2>2 DEF Replaces
  <2>. QED
    BY <2>1, <2>2
<1>2. PulseInv /\ [PulseNext]_pulseVars => [\A p \in Pulses : Keeps(p)]_pulseVars
  BY <1>1
<1>3. PulseSpec => [][\A p \in Pulses : Keeps(p)]_pulseVars
  BY <1>2, PulseInvHolds, PTL DEF PulseSpec
<1>. QED
  BY <1>3 DEF OnlyPlannedIsReplaced
=============================================================================
