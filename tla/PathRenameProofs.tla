--------------------------- MODULE PathRenameProofs --------------------------
(* Proofs about moves of files and directories and the citations that      *)
(* follow them (PathRename), for any surfaces, citations and plans.        *)
EXTENDS PathRename, WellFoundedInduction, TLAPS

-----------------------------------------------------------------------------
(* Counting up. *)

LEMMA LeastIs ==
  ASSUME NEW S \in SUBSET Int, NEW n \in S, \A x \in S : n <= x
  PROVE  Min(S) = n
<1>1. \E x \in S : \A y \in S : x =< y
  OBVIOUS
<1>2. PICK x : x = Min(S)
  OBVIOUS
<1>3. x \in S /\ \A y \in S : x =< y
  BY <1>1, <1>2 DEF Min
<1>4. x \in Int /\ n \in Int /\ x <= n /\ n <= x
  BY <1>3
<1>. QED
  BY <1>2, <1>4

LEMMA LeastOf ==
  ASSUME NEW S \in SUBSET Nat, S # {}
  PROVE  \E n \in S : (\A x \in S : n <= x) /\ Min(S) = n
<1>1. PICK n \in S : \A x \in S : ~(<<x, n>> \in OpToRel(<, Nat))
  BY WFMin, NatLessThanWellFounded
<1>2. \A x \in S : <<x, n>> \in OpToRel(<, Nat) <=> x < n
  BY DEF OpToRel
<1>3. \A x \in S : x \in Nat /\ n \in Nat /\ ~(x < n)
  BY <1>1, <1>2
<1>4. \A x \in S : n <= x
  BY <1>3
<1>5. S \in SUBSET Int
  OBVIOUS
<1>6. Min(S) = n
  BY <1>4, <1>5, LeastIs
<1>. QED
  BY <1>4, <1>6

(* What holds of 0 and goes from each number to the next holds up to any.      *)
LEMMA UpToAny ==
  ASSUME NEW n \in Nat, NEW S, 0 \in S,
         \A i \in 0 .. n : i \in S /\ i < n => i + 1 \in S
  PROVE  \A i \in 0 .. n : i \in S
<1>. DEFINE Bad == {i \in 0 .. n : i \notin S}
<1>1. ASSUME Bad # {}
      PROVE  FALSE
  <2>1. Bad \in SUBSET Nat
    OBVIOUS
  <2>2. PICK m \in Bad : \A x \in Bad : m <= x
    <3>. HIDE DEF Bad
    <3>. QED
      BY <1>1, <2>1, LeastOf
  <2>3. m \in 0 .. n /\ m \notin S /\ m # 0
    OBVIOUS
  <2>4. m - 1 \in 0 .. n /\ m - 1 < n /\ (m - 1) + 1 = m /\ ~(m <= m - 1)
    BY <2>3
  <2>5. m - 1 \in S
    <3>1. m - 1 \notin Bad
      BY <2>2, <2>4
    <3>. QED
      BY <2>4, <3>1
  <2>. QED
    BY <2>3, <2>4, <2>5
<1>. QED
  BY <1>1

-----------------------------------------------------------------------------
(* Sequences of segments. *)

LEMMA JoinedSegments ==
  ASSUME NEW S, NEW s \in Seq(S), NEW t \in Seq(S)
  PROVE  /\ s \o t \in Seq(S) /\ Len(s \o t) = Len(s) + Len(t)
         /\ \A i \in 1 .. Len(s) : (s \o t)[i] = s[i]
         /\ \A i \in 1 .. Len(t) : (s \o t)[Len(s) + i] = t[i]
OBVIOUS

LEMMA SameSegments ==
  ASSUME NEW S, NEW s \in Seq(S), NEW t \in Seq(S), Len(s) = Len(t),
         \A i \in 1 .. Len(t) : s[i] = t[i]
  PROVE  s = t
OBVIOUS

LEMMA PathsAreSeqs ==
  \A p \in Paths : p \in Seq(PathParts) /\ Len(p) \in Nat /\ \A i \in 1 .. Len(p) : p[i] \in Segments
<1>1. \A p \in Paths : p \in Seq(PathParts)
  BY DEF Paths, PathParts
<1>2. \A p \in Paths : Len(p) \in Nat /\ \A i \in 1 .. Len(p) : p[i] \in Segments
  BY DEF Paths
<1>. QED
  BY <1>1, <1>2

(* The first n segments. *)
LEMMA FirstOnes ==
  ASSUME NEW S, NEW s \in Seq(S), NEW n \in 0 .. Len(s)
  PROVE  /\ SubSeq(s, 1, n) \in Seq(S) /\ Len(SubSeq(s, 1, n)) = n
         /\ \A i \in 1 .. n : SubSeq(s, 1, n)[i] = s[i]
OBVIOUS

(* The segments behind the first n. *)
LEMMA LaterOnes ==
  ASSUME NEW S, NEW s \in Seq(S), NEW n \in 0 .. Len(s)
  PROVE  /\ SubSeq(s, n + 1, Len(s)) \in Seq(S) /\ Len(SubSeq(s, n + 1, Len(s))) = Len(s) - n
         /\ \A i \in 1 .. Len(s) - n : SubSeq(s, n + 1, Len(s))[i] = s[n + i]
OBVIOUS

LEMMA PrefixIs ==
  ASSUME NEW S, NEW s \in Seq(S), NEW t \in Seq(S)
  PROVE  IsPrefix(s, t) <=> Len(s) <= Len(t) /\ \A i \in 1 .. Len(s) : s[i] = t[i]
<1>1. CASE ~(Len(s) <= Len(t))
  BY <1>1 DEF IsPrefix
<1>2. CASE Len(s) <= Len(t)
  <2>0. Len(s) \in 0 .. Len(t) /\ Len(s) \in 0 .. Len(s)
    BY <1>2
  <2>1. /\ SubSeq(t, 1, Len(s)) \in Seq(S) /\ Len(SubSeq(t, 1, Len(s))) = Len(s)
        /\ \A i \in 1 .. Len(s) : SubSeq(t, 1, Len(s))[i] = t[i]
    BY <2>0, FirstOnes
  <2>2. SubSeq(s, 1, Len(s)) = s
    OBVIOUS
  <2>3. IsPrefix(s, t) <=> SubSeq(s, 1, Len(s)) = SubSeq(t, 1, Len(s))
    BY <1>2 DEF IsPrefix
  <2>4. PICK u : u = SubSeq(t, 1, Len(s))
    OBVIOUS
  <2>5. IsPrefix(s, t) <=> s = u
    BY <2>2, <2>3, <2>4
  <2>6. u \in Seq(S) /\ Len(u) = Len(s) /\ \A i \in 1 .. Len(s) : u[i] = t[i]
    BY <2>1, <2>4
  <2>7. s = u <=> \A i \in 1 .. Len(s) : s[i] = t[i]
    <3>1. ASSUME \A i \in 1 .. Len(s) : s[i] = t[i] PROVE s = u
      BY <2>6, <3>1, SameSegments
    <3>. QED
      BY <2>6, <3>1
  <2>. QED
    BY <1>2, <2>5, <2>7
<1>. QED
  BY <1>1, <1>2

LEMMA PrefixReaches ==
  ASSUME NEW p \in Paths, NEW q \in Paths
  PROVE  IsPrefix(p, q) <=> Len(p) <= Len(q) /\ \A i \in 1 .. Len(p) : p[i] = q[i]
BY PrefixIs DEF Paths

LEMMA PrefixOfItself ==
  ASSUME NEW p \in Paths
  PROVE  IsPrefix(p, p)
BY PrefixReaches, PathsAreSeqs

LEMMA PrefixOfPrefix ==
  ASSUME NEW p \in Paths, NEW q \in Paths, NEW r \in Paths, IsPrefix(p, q), IsPrefix(q, r)
  PROVE  IsPrefix(p, r)
<1>1. Len(p) \in Nat /\ Len(q) \in Nat /\ Len(r) \in Nat
  BY PathsAreSeqs
<1>2. Len(p) <= Len(q) /\ \A i \in 1 .. Len(p) : p[i] = q[i]
  BY PrefixReaches
<1>3. Len(q) <= Len(r) /\ \A i \in 1 .. Len(q) : q[i] = r[i]
  BY PrefixReaches
<1>4. Len(p) <= Len(r) /\ \A i \in 1 .. Len(p) : p[i] = r[i]
  BY <1>1, <1>2, <1>3
<1>. QED
  BY <1>4, PrefixReaches

(* Of two paths that lead to a third one leads to the other.                   *)
LEMMA PrefixesCompare ==
  ASSUME NEW p \in Paths, NEW q \in Paths, NEW r \in Paths, IsPrefix(p, r), IsPrefix(q, r)
  PROVE  IsPrefix(p, q) \/ IsPrefix(q, p)
<1>1. Len(p) \in Nat /\ Len(q) \in Nat /\ Len(r) \in Nat
  BY PathsAreSeqs
<1>2. Len(p) <= Len(r) /\ \A i \in 1 .. Len(p) : p[i] = r[i]
  BY PrefixReaches
<1>3. Len(q) <= Len(r) /\ \A i \in 1 .. Len(q) : q[i] = r[i]
  BY PrefixReaches
<1>4. CASE Len(p) <= Len(q)
  <2>1. \A i \in 1 .. Len(p) : p[i] = q[i]
    BY <1>1, <1>2, <1>3, <1>4
  <2>. QED
    BY <1>4, <2>1, PrefixReaches
<1>5. CASE Len(q) <= Len(p)
  <2>1. \A i \in 1 .. Len(q) : q[i] = p[i]
    BY <1>1, <1>2, <1>3, <1>5
  <2>. QED
    BY <1>5, <2>1, PrefixReaches
<1>. QED
  BY <1>1, <1>4, <1>5

LEMMA FirstOnesLead ==
  ASSUME NEW p \in Paths, NEW n \in 0 .. Len(p)
  PROVE  SubSeq(p, 1, n) \in Paths /\ Len(SubSeq(p, 1, n)) = n /\ IsPrefix(SubSeq(p, 1, n), p)
<1>1. PICK q : q = SubSeq(p, 1, n)
  OBVIOUS
<1>2. p \in Seq(Segments) /\ Len(p) \in Nat
  BY DEF Paths
<1>3. q \in Paths /\ Len(q) = n /\ \A i \in 1 .. n : q[i] = p[i]
  <2>1. q \in Seq(Segments) /\ Len(q) = n /\ \A i \in 1 .. n : q[i] = p[i]
    BY <1>1, <1>2, FirstOnes
  <2>. QED
    BY <2>1 DEF Paths
<1>4. Len(q) <= Len(p)
  BY <1>2, <1>3
<1>5. IsPrefix(q, p)
  BY <1>3, <1>4, PrefixReaches
<1>. QED
  BY <1>1, <1>3, <1>5

(* A prefix is as much of the path as it is long.                              *)
LEMMA PrefixIsFirstOnes ==
  ASSUME NEW p \in Paths, NEW q \in Paths, IsPrefix(q, p)
  PROVE  Len(q) \in 0 .. Len(p) /\ q = SubSeq(p, 1, Len(q))
<1>1. p \in Seq(Segments) /\ q \in Seq(Segments) /\ Len(p) \in Nat /\ Len(q) \in Nat
  BY DEF Paths
<1>2. Len(q) <= Len(p) /\ \A i \in 1 .. Len(q) : q[i] = p[i]
  BY PrefixReaches
<1>3. Len(q) \in 0 .. Len(p)
  BY <1>1, <1>2
<1>4. PICK u : u = SubSeq(p, 1, Len(q))
  OBVIOUS
<1>5. u \in Seq(Segments) /\ Len(u) = Len(q) /\ \A i \in 1 .. Len(q) : u[i] = p[i]
  BY <1>1, <1>3, <1>4, FirstOnes
<1>6. \A i \in 1 .. Len(u) : q[i] = u[i]
  BY <1>2, <1>5
<1>7. q = u
  BY <1>1, <1>5, <1>6, SameSegments
<1>. QED
  BY <1>3, <1>4, <1>7

LEMMA ParentsLead ==
  ASSUME NEW p \in Paths
  PROVE  \A q : q \in Parents(p) <=> q \in Paths /\ IsPrefix(q, p) /\ q # p
<1>0. p \in Seq(Segments) /\ Len(p) \in Nat
  BY DEF Paths
<1>1. ASSUME NEW q \in Parents(p)
      PROVE  q \in Paths /\ IsPrefix(q, p) /\ q # p
  <2>1. PICK n \in 0 .. Len(p) - 1 : q = SubSeq(p, 1, n)
    BY DEF Parents
  <2>2. n \in 0 .. Len(p) /\ n # Len(p)
    BY <1>0, <2>1
  <2>3. q \in Paths /\ IsPrefix(q, p) /\ Len(q) = n
    BY <2>1, <2>2, FirstOnesLead
  <2>. QED
    BY <2>2, <2>3
<1>2. ASSUME NEW q \in Paths, IsPrefix(q, p), q # p
      PROVE  q \in Parents(p)
  <2>1. Len(q) \in 0 .. Len(p) /\ q = SubSeq(p, 1, Len(q))
    BY <1>2, PrefixIsFirstOnes
  <2>2. Len(q) # Len(p)
    <3>1. SubSeq(p, 1, Len(p)) = p
      BY <1>0
    <3>. QED
      BY <1>2, <2>1, <3>1
  <2>3. Len(q) \in 0 .. Len(p) - 1
    BY <1>0, <2>1, <2>2
  <2>. QED
    BY <2>1, <2>3 DEF Parents
<1>. QED
  BY <1>1, <1>2

LEMMA ParentsOfParents ==
  ASSUME NEW p \in Paths, NEW q \in Parents(p), NEW r \in Parents(q)
  PROVE  r \in Parents(p)
<1>1. q \in Paths /\ IsPrefix(q, p) /\ q # p
  BY ParentsLead
<1>2. r \in Paths /\ IsPrefix(r, q)
  BY <1>1, ParentsLead
<1>3. IsPrefix(r, p)
  BY <1>1, <1>2, PrefixOfPrefix
<1>4. ASSUME r = p
      PROVE  FALSE
  <2>1. /\ Len(q) <= Len(p) /\ Len(p) <= Len(q)
        /\ \A j \in 1 .. Len(q) : q[j] = p[j]
    BY <1>1, <1>2, <1>4, PrefixReaches
  <2>2. q \in Seq(PathParts) /\ p \in Seq(PathParts) /\ Len(q) \in Nat /\ Len(p) \in Nat
    BY <1>1, PathsAreSeqs
  <2>3. Len(q) = Len(p)
    BY <2>1, <2>2
  <2>4. q = p
    BY <2>1, <2>2, <2>3, SameSegments
  <2>. QED
    BY <1>1, <2>4
<1>. QED
  BY <1>2, <1>3, <1>4, ParentsLead

-----------------------------------------------------------------------------
(* Moves. *)

Moved == [from : Paths, to : Paths]

LEMMA CarriedSegments ==
  ASSUME NEW m \in Moved, NEW p \in Paths, IsAtOrUnder(p, m.from)
  PROVE  /\ Carry(p, m) \in Paths
         /\ Len(Carry(p, m)) = Len(m.to) + (Len(p) - Len(m.from))
         /\ \A i \in 1 .. Len(m.to) : Carry(p, m)[i] = m.to[i]
         /\ \A i \in 1 .. Len(p) - Len(m.from) : Carry(p, m)[Len(m.to) + i] = p[Len(m.from) + i]
<1>1. /\ m.from \in Paths /\ m.to \in Paths
      /\ m.to \in Seq(Segments) /\ p \in Seq(Segments) /\ Len(p) \in Nat
  BY DEF Moved, Paths
<1>2. Len(m.from) \in 0 .. Len(p)
  BY <1>1, PrefixIsFirstOnes DEF IsAtOrUnder
<1>3. PICK n : n = Len(m.from)
  OBVIOUS
<1>4. PICK t : t = SubSeq(p, n + 1, Len(p))
  OBVIOUS
<1>5. /\ t \in Seq(Segments) /\ Len(t) = Len(p) - n
      /\ \A i \in 1 .. Len(p) - n : t[i] = p[n + i]
  BY <1>1, <1>2, <1>3, <1>4, LaterOnes
<1>6. Carry(p, m) = m.to \o t
  BY <1>3, <1>4 DEF Carry
<1>7. PICK c : c = m.to \o t
  OBVIOUS
<1>8. /\ c \in Seq(Segments) /\ Len(c) = Len(m.to) + Len(t)
      /\ \A i \in 1 .. Len(m.to) : c[i] = m.to[i]
      /\ \A i \in 1 .. Len(t) : c[Len(m.to) + i] = t[i]
  <2>1. PICK to : to = m.to
    OBVIOUS
  <2>2. to \in Seq(Segments) /\ t \in Seq(Segments) /\ c = to \o t
    BY <1>1, <1>5, <1>7, <2>1
  <2>3. c \in Seq(Segments) /\ Len(c) = Len(to) + Len(t)
    BY <2>2, JoinedSegments
  <2>4. /\ \A i \in 1 .. Len(to) : c[i] = to[i]
        /\ \A i \in 1 .. Len(t) : c[Len(to) + i] = t[i]
    BY <2>2, JoinedSegments
  <2>. QED
    BY <2>1, <2>3, <2>4
<1>9. \A i \in 1 .. Len(p) - n : c[Len(m.to) + i] = p[n + i]
  BY <1>5, <1>8
<1>. QED
  BY <1>3, <1>5, <1>6, <1>7, <1>8, <1>9 DEF Paths

LEMMA CarriedIsUnder ==
  ASSUME NEW m \in Moved, NEW p \in Paths, IsAtOrUnder(p, m.from)
  PROVE  Carry(p, m) \in Paths /\ IsPrefix(m.to, Carry(p, m))
<1>1. m.to \in Paths /\ m.from \in Paths
  BY DEF Moved
<1>2. PICK c : c = Carry(p, m)
  OBVIOUS
<1>3. /\ c \in Paths /\ Len(c) = Len(m.to) + (Len(p) - Len(m.from))
      /\ \A i \in 1 .. Len(m.to) : c[i] = m.to[i]
  BY <1>2, CarriedSegments
<1>4. Len(m.from) \in 0 .. Len(p) /\ Len(m.to) \in Nat /\ Len(p) \in Nat
  BY <1>1, PrefixIsFirstOnes, PathsAreSeqs DEF IsAtOrUnder
<1>5. Len(m.to) <= Len(c)
  BY <1>3, <1>4
<1>. QED
  BY <1>1, <1>2, <1>3, <1>5, PrefixReaches

(* What is carried from two places comes to two places.                        *)
LEMMA CarriedApart ==
  ASSUME NEW m \in Moved, NEW p \in Paths, IsAtOrUnder(p, m.from),
         NEW q \in Paths, IsAtOrUnder(q, m.from), Carry(p, m) = Carry(q, m)
  PROVE  p = q
<1>1. m.to \in Paths /\ m.from \in Paths
  BY DEF Moved
<1>2. PICK c : c = Carry(p, m)
  OBVIOUS
<1>3. PICK k : k = Len(m.from)
  OBVIOUS
<1>4. PICK l : l = Len(m.to)
  OBVIOUS
<1>5. /\ Len(c) = l + (Len(p) - k)
      /\ \A i \in 1 .. Len(p) - k : c[l + i] = p[k + i]
  BY <1>2, <1>3, <1>4, CarriedSegments
<1>6. /\ Len(c) = l + (Len(q) - k)
      /\ \A i \in 1 .. Len(q) - k : c[l + i] = q[k + i]
  <2>1. c = Carry(q, m)
    BY <1>2
  <2>. QED
    BY <1>3, <1>4, <2>1, CarriedSegments
<1>7. k \in 0 .. Len(p) /\ k \in 0 .. Len(q) /\ l \in Nat /\ Len(p) \in Nat /\ Len(q) \in Nat
  BY <1>1, <1>3, <1>4, PrefixIsFirstOnes, PathsAreSeqs DEF IsAtOrUnder
<1>8. Len(p) = Len(q)
  BY <1>5, <1>6, <1>7
<1>9. \A i \in 1 .. k : p[i] = m.from[i] /\ q[i] = m.from[i]
  <2>1. IsPrefix(m.from, p) /\ IsPrefix(m.from, q)
    BY DEF IsAtOrUnder
  <2>. QED
    BY <1>1, <1>3, <2>1, PrefixReaches
<1>10. ASSUME NEW i \in 1 .. Len(q)
       PROVE  p[i] = q[i]
  <2>1. CASE i <= k
    BY <1>7, <1>9, <2>1
  <2>2. CASE ~(i <= k)
    <3>1. PICK j : j = i - k
      OBVIOUS
    <3>2. j \in 1 .. Len(q) - k /\ i = k + j
      BY <1>7, <2>2, <3>1
    <3>3. c[l + j] = p[k + j] /\ c[l + j] = q[k + j]
      BY <1>5, <1>6, <1>8, <3>2
    <3>. QED
      BY <3>2, <3>3
  <2>. QED
    BY <2>1, <2>2
<1>11. p \in Seq(Segments) /\ q \in Seq(Segments)
  BY DEF Paths
<1>. QED
  BY <1>8, <1>10, <1>11, SameSegments

(* What leads to something carried leads to where it was carried or was        *)
(* carried as well.                                                            *)
LEMMA LeadsToCarried ==
  ASSUME NEW m \in Moved, NEW p \in Paths, IsAtOrUnder(p, m.from),
         NEW r \in Paths, IsPrefix(r, Carry(p, m)), r # Carry(p, m)
  PROVE  \/ r \in Parents(m.to)
         \/ \E q \in Parents(p) : IsAtOrUnder(q, m.from) /\ r = Carry(q, m)
<1>1. m.to \in Paths /\ m.from \in Paths
  BY DEF Moved
<1>2. PICK c : c = Carry(p, m)
  OBVIOUS
<1>3. PICK k : k = Len(m.from)
  OBVIOUS
<1>4. PICK l : l = Len(m.to)
  OBVIOUS
<1>5. /\ c \in Paths /\ Len(c) = l + (Len(p) - k) /\ IsPrefix(m.to, c)
      /\ \A i \in 1 .. Len(p) - k : c[l + i] = p[k + i]
  BY <1>2, <1>3, <1>4, CarriedSegments, CarriedIsUnder
<1>6. k \in 0 .. Len(p) /\ l \in Nat /\ Len(p) \in Nat /\ Len(r) \in Nat
  BY <1>1, <1>3, <1>4, PrefixIsFirstOnes, PathsAreSeqs DEF IsAtOrUnder
<1>7. /\ Len(r) \in 0 .. Len(c) /\ Len(r) # Len(c)
      /\ \A i \in 1 .. Len(r) : r[i] = c[i]
  <2>1. Len(r) \in 0 .. Len(c) /\ r = SubSeq(c, 1, Len(r))
    BY <1>2, <1>5, PrefixIsFirstOnes
  <2>2. SubSeq(c, 1, Len(c)) = c
    BY <1>5 DEF Paths
  <2>3. \A i \in 1 .. Len(r) : r[i] = c[i]
    BY <1>2, <1>5, PrefixReaches
  <2>. QED
    BY <1>2, <2>1, <2>2, <2>3
<1>8. IsPrefix(m.to, r) \/ IsPrefix(r, m.to)
  BY <1>1, <1>2, <1>5, PrefixesCompare
<1>9. CASE IsPrefix(r, m.to) /\ r # m.to
  BY <1>1, <1>9, ParentsLead
<1>10. CASE IsPrefix(m.to, r)
  <2>1. l <= Len(r) /\ \A i \in 1 .. l : m.to[i] = r[i]
    BY <1>1, <1>4, <1>10, PrefixReaches
  <2>2. PICK n : n = k + (Len(r) - l)
    OBVIOUS
  <2>3. n \in 0 .. Len(p) /\ n # Len(p) /\ k <= n /\ n - k = Len(r) - l
    BY <1>5, <1>6, <1>7, <2>1, <2>2
  <2>4. PICK q : q = SubSeq(p, 1, n)
    OBVIOUS
  <2>5. q \in Paths /\ Len(q) = n /\ IsPrefix(q, p) /\ q # p
    BY <2>3, <2>4, FirstOnesLead
  <2>6. q \in Parents(p)
    BY <2>5, ParentsLead
  <2>7. \A i \in 1 .. n : q[i] = p[i]
    BY <2>5, PrefixReaches
  <2>8. IsAtOrUnder(q, m.from)
    <3>1. IsPrefix(m.from, p)
      BY DEF IsAtOrUnder
    <3>2. \A i \in 1 .. k : m.from[i] = p[i]
      BY <1>1, <1>3, <3>1, PrefixReaches
    <3>3. \A i \in 1 .. k : m.from[i] = q[i]
      BY <1>6, <2>3, <2>7, <3>2
    <3>. QED
      BY <1>1, <1>3, <2>3, <2>5, <3>3, PrefixReaches DEF IsAtOrUnder
  <2>9. PICK d : d = Carry(q, m)
    OBVIOUS
  <2>10. /\ d \in Paths /\ Len(d) = l + (n - k)
         /\ \A i \in 1 .. l : d[i] = m.to[i]
         /\ \A i \in 1 .. n - k : d[l + i] = q[k + i]
    BY <1>3, <1>4, <2>5, <2>8, <2>9, CarriedSegments
  <2>11. Len(d) = Len(r)
    BY <1>6, <2>3, <2>10
  <2>12. ASSUME NEW i \in 1 .. Len(r)
         PROVE  d[i] = r[i]
    <3>1. CASE i <= l
      BY <1>6, <2>1, <2>10, <3>1
    <3>2. CASE ~(i <= l)
      <4>1. PICK j : j = i - l
        OBVIOUS
      <4>2. j \in 1 .. n - k /\ i = l + j /\ k + j \in 1 .. n /\ j \in 1 .. Len(p) - k
        BY <1>6, <2>3, <3>2, <4>1
      <4>3. d[l + j] = q[k + j] /\ q[k + j] = p[k + j]
        BY <2>7, <2>10, <4>2
      <4>4. c[l + j] = p[k + j]
        BY <1>5, <4>2
      <4>. QED
        BY <1>7, <4>2, <4>3, <4>4
    <3>. QED
      BY <3>1, <3>2
  <2>13. d = r
    <3>1. d \in Seq(Segments) /\ r \in Seq(Segments)
      BY <2>10 DEF Paths
    <3>. QED
      BY <2>11, <2>12, <3>1, SameSegments
  <2>. QED
    BY <2>6, <2>8, <2>9, <2>13
<1>11. CASE r = m.to
  BY <1>1, <1>10, <1>11, PrefixOfItself
<1>. QED
  BY <1>8, <1>9, <1>10, <1>11

(* Where p will sit when the moves after the k-th are made.                    *)
Takes(p, ms, k) == {i \in k + 1 .. Len(ms) : IsAtOrUnder(p, ms[i].from)}

MapFrom(p, ms, k) ==
  IF Takes(p, ms, k) = {} THEN p ELSE Carry(p, ms[Min(Takes(p, ms, k))])

(* The moves are in order, and what leaves was not where one of them goes to.  *)
Apart(ms) ==
  InOrder(ms) /\ \A i, j \in DOMAIN ms : ~IsPrefix(ms[i].to, ms[j].from)

LEMMA MovesAre ==
  ASSUME NEW ms \in Seq(Moved)
  PROVE  /\ Len(ms) \in Nat /\ DOMAIN ms = 1 .. Len(ms)
         /\ \A i \in 1 .. Len(ms) : ms[i] \in Moved /\ ms[i].from \in Paths /\ ms[i].to \in Paths
<1>1. Len(ms) \in Nat /\ DOMAIN ms = 1 .. Len(ms) /\ \A i \in 1 .. Len(ms) : ms[i] \in Moved
  OBVIOUS
<1>2. \A m \in Moved : m.from \in Paths /\ m.to \in Paths
  BY DEF Moved
<1>. QED
  BY <1>1, <1>2

LEMMA MapIsMapFrom ==
  ASSUME NEW ms \in Seq(Moved), NEW p
  PROVE  MapThroughMoves(p, ms) = MapFrom(p, ms, 0)
<1>1. DOMAIN ms = 0 + 1 .. Len(ms)
  BY MovesAre
<1>. QED
  BY <1>1 DEF MapThroughMoves, MapFrom, Takes

LEMMA MapUntaken ==
  ASSUME NEW ms, NEW p, NEW k,
         \A i \in k + 1 .. Len(ms) : ~IsAtOrUnder(p, ms[i].from)
  PROVE  MapFrom(p, ms, k) = p
<1>1. Takes(p, ms, k) = {}
  BY DEF Takes
<1>. QED
  BY <1>1 DEF MapFrom

LEMMA MapTaken ==
  ASSUME NEW ms, NEW p, NEW k \in Nat, NEW n \in k + 1 .. Len(ms), Len(ms) \in Nat,
         IsAtOrUnder(p, ms[n].from),
         \A i \in k + 1 .. Len(ms) : i < n => ~IsAtOrUnder(p, ms[i].from)
  PROVE  MapFrom(p, ms, k) = Carry(p, ms[n])
<1>1. PICK T : T = Takes(p, ms, k)
  OBVIOUS
<1>2. /\ \A i : i \in T <=> i \in k + 1 .. Len(ms) /\ IsAtOrUnder(p, ms[i].from)
      /\ n \in T
  BY <1>1 DEF Takes
<1>3. T \in SUBSET Int /\ \A i \in T : n <= i
  BY <1>2
<1>4. Min(T) = n
  BY <1>2, <1>3, LeastIs
<1>5. T # {}
  BY <1>2
<1>. QED
  BY <1>1, <1>4, <1>5 DEF MapFrom

(* A path is left where it is, or the first move that takes it carries it.     *)
LEMMA MapCases ==
  ASSUME NEW ms \in Seq(Moved), NEW p \in Paths, NEW k \in 0 .. Len(ms)
  PROVE  \/ /\ \A i \in k + 1 .. Len(ms) : ~IsAtOrUnder(p, ms[i].from)
            /\ MapFrom(p, ms, k) = p
         \/ \E n \in k + 1 .. Len(ms) :
              /\ IsAtOrUnder(p, ms[n].from)
              /\ \A i \in k + 1 .. Len(ms) : i < n => ~IsAtOrUnder(p, ms[i].from)
              /\ MapFrom(p, ms, k) = Carry(p, ms[n])
<1>1. Len(ms) \in Nat /\ k \in Nat
  BY MovesAre
<1>2. PICK T : T = Takes(p, ms, k)
  OBVIOUS
<1>3. \A i : i \in T <=> i \in k + 1 .. Len(ms) /\ IsAtOrUnder(p, ms[i].from)
  BY <1>2 DEF Takes
<1>4. CASE T = {}
  <2>1. \A i \in k + 1 .. Len(ms) : ~IsAtOrUnder(p, ms[i].from)
    BY <1>3, <1>4
  <2>. QED
    BY <2>1, MapUntaken
<1>5. CASE T # {}
  <2>1. T \in SUBSET Nat
    BY <1>1, <1>3
  <2>2. PICK n \in T : \A i \in T : n <= i
    BY <1>5, <2>1, LeastOf
  <2>3. n \in k + 1 .. Len(ms) /\ IsAtOrUnder(p, ms[n].from)
    BY <1>3, <2>2
  <2>4. \A i \in k + 1 .. Len(ms) : i < n => ~IsAtOrUnder(p, ms[i].from)
    BY <1>1, <1>3, <2>2, <2>3
  <2>5. MapFrom(p, ms, k) = Carry(p, ms[n])
    BY <1>1, <2>3, <2>4, MapTaken
  <2>. QED
    BY <2>3, <2>4, <2>5
<1>. QED
  BY <1>4, <1>5

LEMMA MapInPaths ==
  ASSUME NEW ms \in Seq(Moved), NEW p \in Paths, NEW k \in 0 .. Len(ms)
  PROVE  MapFrom(p, ms, k) \in Paths
<1>1. Len(ms) \in Nat /\ k \in Nat
  BY MovesAre
<1>2. ASSUME NEW n \in k + 1 .. Len(ms), IsAtOrUnder(p, ms[n].from)
      PROVE  Carry(p, ms[n]) \in Paths
  <2>1. n \in 1 .. Len(ms)
    BY <1>1
  <2>2. ms[n] \in Moved
    BY <2>1, MovesAre
  <2>. QED
    BY <1>2, <2>2, CarriedIsUnder
<1>. QED
  BY <1>2, MapCases

LEMMA MapAtEnd ==
  ASSUME NEW ms \in Seq(Moved), NEW p
  PROVE  MapFrom(p, ms, Len(ms)) = p
<1>1. Len(ms) \in Nat
  BY MovesAre
<1>2. \A i \in Len(ms) + 1 .. Len(ms) : ~IsAtOrUnder(p, ms[i].from)
  BY <1>1
<1>. QED
  BY <1>2, MapUntaken

(* What a move of the plan carries no later one takes.                         *)
LEMMA CarriedStays ==
  ASSUME NEW ms \in Seq(Moved), Apart(ms), NEW p \in Paths, NEW n \in 1 .. Len(ms),
         IsAtOrUnder(p, ms[n].from)
  PROVE  \A i \in 1 .. Len(ms) : n < i => ~IsAtOrUnder(Carry(p, ms[n]), ms[i].from)
<1>1. ms[n] \in Moved /\ ms[n].to \in Paths
  BY MovesAre
<1>2. PICK c : c = Carry(p, ms[n])
  OBVIOUS
<1>3. c \in Paths /\ IsPrefix(ms[n].to, c)
  BY <1>1, <1>2, CarriedIsUnder
<1>. SUFFICES ASSUME NEW i \in 1 .. Len(ms), n < i, IsPrefix(ms[i].from, c)
              PROVE  FALSE
  BY <1>2 DEF IsAtOrUnder
<1>4. ms[i].from \in Paths
  BY MovesAre
<1>5. IsPrefix(ms[i].from, ms[n].to) \/ IsPrefix(ms[n].to, ms[i].from)
  BY <1>1, <1>3, <1>4, PrefixesCompare
<1>6. n \in DOMAIN ms /\ i \in DOMAIN ms
  BY MovesAre
<1>. QED
  BY <1>5, <1>6 DEF Apart, InOrder

(* A move made by itself leaves a path with where the rest takes it.           *)
LEMMA MapStepwise ==
  ASSUME NEW ms \in Seq(Moved), Apart(ms), NEW p \in Paths, NEW k \in 0 .. Len(ms), k < Len(ms)
  PROVE  MapFrom(Carry(p, ms[k + 1]), ms, k + 1) = MapFrom(p, ms, k)
<1>1. Len(ms) \in Nat /\ k \in Nat /\ k + 1 \in 1 .. Len(ms) /\ k + 1 \in k + 1 .. Len(ms)
  BY MovesAre
<1>2. CASE IsAtOrUnder(p, ms[k + 1].from)
  <2>1. PICK c : c = Carry(p, ms[k + 1])
    OBVIOUS
  <2>2. \A i \in 1 .. Len(ms) : k + 1 < i => ~IsAtOrUnder(c, ms[i].from)
    BY <1>1, <1>2, <2>1, CarriedStays
  <2>3. \A i \in (k + 1) + 1 .. Len(ms) : ~IsAtOrUnder(c, ms[i].from)
    BY <1>1, <2>2
  <2>4. MapFrom(c, ms, k + 1) = c
    BY <2>3, MapUntaken
  <2>5. \A i \in k + 1 .. Len(ms) : i < k + 1 => ~IsAtOrUnder(p, ms[i].from)
    BY <1>1
  <2>6. MapFrom(p, ms, k) = c
    BY <1>1, <1>2, <2>1, <2>5, MapTaken
  <2>. QED
    BY <2>1, <2>4, <2>6
<1>3. CASE ~IsAtOrUnder(p, ms[k + 1].from)
  <2>1. Carry(p, ms[k + 1]) = p
    BY <1>3 DEF Carry
  <2>2. \A i : i \in Takes(p, ms, k) <=> i \in Takes(p, ms, k + 1)
    <3>1. \A i : i \in k + 1 .. Len(ms) <=> i = k + 1 \/ i \in (k + 1) + 1 .. Len(ms)
      BY <1>1
    <3>. QED
      BY <1>3, <3>1 DEF Takes
  <2>3. Takes(p, ms, k) = Takes(p, ms, k + 1)
    BY <2>2
  <2>. QED
    BY <2>1, <2>3 DEF MapFrom
<1>. QED
  BY <1>2, <1>3

(* Two places that the move does not go to are not brought together.           *)
LEMMA CarriedNotTogether ==
  ASSUME NEW m \in Moved, NEW p \in Paths, NEW q \in Paths,
         ~IsPrefix(m.to, p), ~IsPrefix(m.to, q), Carry(p, m) = Carry(q, m)
  PROVE  p = q
<1>1. IsAtOrUnder(p, m.from) => IsPrefix(m.to, Carry(p, m))
  BY CarriedIsUnder
<1>2. IsAtOrUnder(q, m.from) => IsPrefix(m.to, Carry(q, m))
  BY CarriedIsUnder
<1>3. CASE IsAtOrUnder(p, m.from) /\ IsAtOrUnder(q, m.from)
  BY <1>3, CarriedApart
<1>4. CASE ~IsAtOrUnder(p, m.from)
  <2>1. Carry(p, m) = p
    BY <1>4 DEF Carry
  <2>2. ~IsAtOrUnder(q, m.from)
    BY <1>2, <2>1
  <2>. QED
    BY <2>1, <2>2 DEF Carry
<1>5. CASE ~IsAtOrUnder(q, m.from)
  <2>1. Carry(q, m) = q
    BY <1>5 DEF Carry
  <2>2. ~IsAtOrUnder(p, m.from)
    BY <1>1, <2>1
  <2>. QED
    BY <2>1, <2>2 DEF Carry
<1>. QED
  BY <1>3, <1>4, <1>5

-----------------------------------------------------------------------------
(* Normalising a path, segment by segment. *)

(* out is the first n + 1 values of the recursion by which NormalizePath goes. *)
Normalizes(out, p, n) ==
  out = [i \in 0 .. n |-> IF i = 0 THEN <<>> ELSE Walk(out[i - 1], p[i])]

LEMMA NormalizingExists ==
  ASSUME NEW p, NEW n \in Nat
  PROVE  \E out : Normalizes(out, p, n)
<1>. DEFINE S == {k \in Nat : \E out : Normalizes(out, p, k)}
<1>1. 0 \in S
  <2>. DEFINE out == [i \in 0 .. 0 |-> <<>>]
  <2>1. Normalizes(out, p, 0)
    BY DEF Normalizes
  <2>. QED
    BY <2>1
<1>2. ASSUME NEW k \in Nat, k \in S
      PROVE  k + 1 \in S
  <2>1. PICK old : Normalizes(old, p, k)
    BY <1>2
  <2>. DEFINE last == Walk(old[k], p[k + 1])
              out == [i \in 0 .. k + 1 |-> IF i = k + 1 THEN last ELSE old[i]]
  <2>2. ASSUME NEW i \in 0 .. k + 1
        PROVE  out[i] = IF i = 0 THEN <<>> ELSE Walk(out[i - 1], p[i])
    <3>1. CASE i = k + 1
      <4>1. out[i] = last /\ out[i - 1] = old[k] /\ i # 0
        BY <3>1
      <4>. QED
        BY <3>1, <4>1
    <3>2. CASE i # k + 1
      <4>1. i \in 0 .. k /\ out[i] = old[i]
        BY <3>2
      <4>2. i # 0 => out[i - 1] = old[i - 1]
        BY <3>2
      <4>3. old[i] = IF i = 0 THEN <<>> ELSE Walk(old[i - 1], p[i])
        BY <2>1, <4>1 DEF Normalizes
      <4>. HIDE DEF out
      <4>. QED
        BY <4>1, <4>2, <4>3
    <3>. QED
      BY <3>1, <3>2
  <2>3. out = [i \in 0 .. k + 1 |-> out[i]]
    OBVIOUS
  <2>. HIDE DEF out
  <2>4. Normalizes(out, p, k + 1)
    BY <2>2, <2>3 DEF Normalizes
  <2>. QED
    BY <2>4
<1>. HIDE DEF S
<1>3. \A i \in 0 .. n : i \in S
  BY <1>1, <1>2, UpToAny
<1>. QED
  BY <1>3 DEF S

LEMMA Normalizing ==
  ASSUME NEW p, Len(p) \in Nat
  PROVE  \E out : /\ out[0] = <<>>
                  /\ \A i \in 1 .. Len(p) : out[i] = Walk(out[i - 1], p[i])
                  /\ NormalizePath(p) = out[Len(p)]
<1>1. PICK out : out = CHOOSE f : Normalizes(f, p, Len(p))
  OBVIOUS
<1>2. Normalizes(out, p, Len(p))
  BY <1>1, NormalizingExists
<1>3. NormalizePath(p) = out[Len(p)]
  BY <1>1 DEF NormalizePath, Normalizes
<1>4. \A i \in 0 .. Len(p) : out[i] = IF i = 0 THEN <<>> ELSE Walk(out[i - 1], p[i])
  BY <1>2 DEF Normalizes
<1>5. out[0] = <<>> /\ \A i \in 1 .. Len(p) : out[i] = Walk(out[i - 1], p[i])
  BY <1>4
<1>. QED
  BY <1>3, <1>5

LEMMA EmptyIsPath ==
  <<>> \in Paths /\ \A p \in Paths : SubSeq(p, 1, 0) = <<>>
<1>1. <<>> \in Seq(Segments)
  OBVIOUS
<1>2. \A p \in Seq(Segments) : SubSeq(p, 1, 0) = <<>>
  OBVIOUS
<1>. QED
  BY <1>1, <1>2 DEF Paths

LEMMA AppendedSegments ==
  ASSUME NEW S, NEW s \in Seq(S), NEW e \in S
  PROVE  /\ Append(s, e) \in Seq(S) /\ Len(Append(s, e)) = Len(s) + 1
         /\ Append(s, e)[Len(s) + 1] = e /\ \A i \in 1 .. Len(s) : Append(s, e)[i] = s[i]
OBVIOUS

LEMMA FrontIsPath ==
  ASSUME NEW p \in Paths, p # <<>>
  PROVE  /\ Len(p) \in Nat \ {0} /\ Front(p) \in Paths /\ Len(Front(p)) = Len(p) - 1
         /\ Front(p) = SubSeq(p, 1, Len(p) - 1) /\ IsPrefix(Front(p), p)
<1>1. Len(p) \in Nat \ {0}
  BY DEF Paths
<1>2. Len(p) - 1 \in 0 .. Len(p)
  BY <1>1
<1>. QED
  BY <1>1, <1>2, FirstOnesLead DEF Front

LEMMA DirnameIsPath ==
  ASSUME NEW p \in Paths
  PROVE  DirnameOf(p) \in Paths /\ IsPrefix(DirnameOf(p), p)
BY FrontIsPath, PrefixOfItself DEF DirnameOf

LEMMA WalkIsPath ==
  ASSUME NEW p \in Paths, NEW part \in PathParts
  PROVE  Walk(p, part) \in Paths
<1>1. CASE part = ".."
  <2>1. ".." # "."
    OBVIOUS
  <2>. QED
    BY <1>1, <2>1, FrontIsPath DEF Walk
<1>2. CASE part = "."
  <2>1. ".." # "."
    OBVIOUS
  <2>. QED
    BY <1>2, <2>1 DEF Walk
<1>3. CASE part # "." /\ part # ".."
  <2>1. Walk(p, part) = Append(p, part)
    BY <1>3 DEF Walk
  <2>2. part \in Segments /\ p \in Seq(Segments)
    BY <1>3 DEF Segments, PathParts, Paths
  <2>3. Append(p, part) \in Seq(Segments)
    BY <2>2, AppendedSegments
  <2>. QED
    BY <2>1, <2>3 DEF Paths
<1>. QED
  BY <1>1, <1>2, <1>3

LEMMA NormalizedIsPath ==
  ASSUME NEW p \in Seq(PathParts)
  PROVE  NormalizePath(p) \in Paths
<1>1. Len(p) \in Nat /\ \A i \in 1 .. Len(p) : p[i] \in PathParts
  OBVIOUS
<1>2. PICK out : /\ out[0] = <<>>
                 /\ \A i \in 1 .. Len(p) : out[i] = Walk(out[i - 1], p[i])
                 /\ NormalizePath(p) = out[Len(p)]
  BY <1>1, Normalizing
<1>. DEFINE S == {i \in 0 .. Len(p) : out[i] \in Paths}
<1>3. 0 \in S
  BY <1>1, <1>2, EmptyIsPath
<1>4. ASSUME NEW i \in 0 .. Len(p), i \in S, i < Len(p)
      PROVE  i + 1 \in S
  <2>1. i + 1 \in 1 .. Len(p) /\ (i + 1) - 1 = i
    BY <1>1, <1>4
  <2>2. out[i + 1] = Walk(out[i], p[i + 1]) /\ out[i] \in Paths /\ p[i + 1] \in PathParts
    BY <1>1, <1>2, <1>4, <2>1
  <2>3. out[i + 1] \in Paths
    BY <2>2, WalkIsPath
  <2>. QED
    BY <1>1, <2>1, <2>3
<1>. HIDE DEF S
<1>5. \A i \in 0 .. Len(p) : i \in S
  BY <1>1, <1>3, <1>4, UpToAny
<1>. QED
  BY <1>1, <1>2, <1>5 DEF S

LEMMA OneSegmentMore ==
  ASSUME NEW p \in Paths, NEW n \in 0 .. Len(p), n < Len(p)
  PROVE  Walk(SubSeq(p, 1, n), p[n + 1]) = SubSeq(p, 1, n + 1)
<1>1. p \in Seq(Segments) /\ Len(p) \in Nat /\ n + 1 \in 1 .. Len(p) /\ p[n + 1] \in Segments
  BY DEF Paths
<1>2. Walk(SubSeq(p, 1, n), p[n + 1]) = Append(SubSeq(p, 1, n), p[n + 1])
  BY <1>1 DEF Walk, Segments
<1>3. PICK x : x = SubSeq(p, 1, n)
  OBVIOUS
<1>4. x \in Seq(Segments) /\ Len(x) = n /\ \A i \in 1 .. n : x[i] = p[i]
  BY <1>1, <1>3, FirstOnes
<1>5. PICK y : y = SubSeq(p, 1, n + 1)
  OBVIOUS
<1>6. y \in Seq(Segments) /\ Len(y) = n + 1 /\ \A i \in 1 .. n + 1 : y[i] = p[i]
  <2>1. n + 1 \in 0 .. Len(p)
    BY <1>1
  <2>. QED
    BY <1>1, <1>5, <2>1, FirstOnes
<1>7. PICK z : z = Append(x, p[n + 1])
  OBVIOUS
<1>8. z \in Seq(Segments) /\ Len(z) = n + 1 /\ z[n + 1] = p[n + 1] /\ \A i \in 1 .. n : z[i] = x[i]
  <2>1. PICK e \in Segments : e = p[n + 1]
    BY <1>1
  <2>2. z = Append(x, e)
    BY <1>7, <2>1
  <2>3. /\ z \in Seq(Segments) /\ Len(z) = Len(x) + 1
        /\ z[Len(x) + 1] = e /\ \A i \in 1 .. Len(x) : z[i] = x[i]
    BY <1>4, <2>2, AppendedSegments
  <2>. QED
    BY <1>4, <2>1, <2>3
<1>9. \A i \in 1 .. Len(y) : z[i] = y[i]
  <2>. SUFFICES ASSUME NEW i \in 1 .. n + 1
                PROVE  z[i] = y[i]
    BY <1>6
  <2>1. i \in 1 .. n \/ i = n + 1
    OBVIOUS
  <2>2. y[i] = p[i]
    BY <1>6
  <2>3. ASSUME i \in 1 .. n
        PROVE  z[i] = p[i]
    <3>1. z[i] = x[i] /\ x[i] = p[i]
      BY <1>4, <1>8, <2>3
    <3>. QED
      BY <3>1
  <2>. QED
    BY <1>8, <2>1, <2>2, <2>3
<1>10. z = y
  BY <1>6, <1>8, <1>9, SameSegments
<1>. QED
  BY <1>2, <1>3, <1>5, <1>7, <1>10

(* Joining walks from the directory.                                           *)
LEMMA JoinWalks ==
  ASSUME NEW dir \in Paths, NEW x \in Seq(PathParts)
  PROVE  \E w : /\ w[0] = dir
                /\ \A i \in 1 .. Len(x) : w[i] = Walk(w[i - 1], x[i])
                /\ JoinPath(dir, x) = w[Len(x)]
<1>1. /\ dir \in Seq(PathParts) /\ Len(dir) \in Nat /\ Len(x) \in Nat
      /\ \A i \in 1 .. Len(x) : x[i] \in PathParts
  BY PathsAreSeqs
<1>2. PICK p : p = dir \o x
  OBVIOUS
<1>3. /\ p \in Seq(PathParts) /\ Len(p) = Len(dir) + Len(x)
      /\ \A i \in 1 .. Len(dir) : p[i] = dir[i]
      /\ \A i \in 1 .. Len(x) : p[Len(dir) + i] = x[i]
  BY <1>1, <1>2, JoinedSegments
<1>4. PICK out : /\ out[0] = <<>>
                 /\ \A i \in 1 .. Len(p) : out[i] = Walk(out[i - 1], p[i])
                 /\ NormalizePath(p) = out[Len(p)]
  <2>1. Len(p) \in Nat
    BY <1>1, <1>3
  <2>. QED
    BY <2>1, Normalizing
<1>. DEFINE S == {i \in 0 .. Len(dir) : out[i] = SubSeq(dir, 1, i)}
<1>5. 0 \in S
  <2>1. SubSeq(dir, 1, 0) = <<>> /\ 0 \in 0 .. Len(dir)
    BY <1>1, EmptyIsPath
  <2>2. out[0] = SubSeq(dir, 1, 0)
    BY <1>4, <2>1
  <2>. QED
    BY <2>1, <2>2
<1>6. ASSUME NEW i \in 0 .. Len(dir), i \in S, i < Len(dir)
      PROVE  i + 1 \in S
  <2>1. i + 1 \in 1 .. Len(dir) /\ (i + 1) - 1 = i /\ i + 1 \in 1 .. Len(p) /\ i + 1 \in 0 .. Len(dir)
    BY <1>1, <1>3, <1>6
  <2>2. out[i + 1] = Walk(out[i], dir[i + 1])
    BY <1>3, <1>4, <2>1
  <2>3. out[i + 1] = Walk(SubSeq(dir, 1, i), dir[i + 1])
    BY <1>6, <2>2
  <2>4. out[i + 1] = SubSeq(dir, 1, i + 1)
    BY <1>6, <2>3, OneSegmentMore
  <2>. QED
    BY <2>1, <2>4
<1>. HIDE DEF S
<1>7. \A i \in 0 .. Len(dir) : i \in S
  BY <1>1, <1>5, <1>6, UpToAny
<1>8. out[Len(dir)] = dir
  <2>1. out[Len(dir)] = SubSeq(dir, 1, Len(dir))
    BY <1>1, <1>7 DEF S
  <2>. QED
    BY <1>1, <2>1
<1>9. PICK w : w = [i \in 0 .. Len(x) |-> out[Len(dir) + i]]
  OBVIOUS
<1>10. w[0] = dir
  BY <1>1, <1>8, <1>9
<1>11. ASSUME NEW i \in 1 .. Len(x)
       PROVE  w[i] = Walk(w[i - 1], x[i])
  <2>1. Len(dir) + i \in 1 .. Len(p) /\ i \in 0 .. Len(x) /\ i - 1 \in 0 .. Len(x)
        /\ (Len(dir) + i) - 1 = Len(dir) + (i - 1)
    BY <1>1, <1>3
  <2>2. out[Len(dir) + i] = Walk(out[Len(dir) + (i - 1)], p[Len(dir) + i])
    BY <1>4, <2>1
  <2>. QED
    BY <1>3, <1>9, <2>1, <2>2
<1>12. JoinPath(dir, x) = w[Len(x)]
  BY <1>1, <1>2, <1>3, <1>4, <1>9 DEF JoinPath
<1>. QED
  BY <1>10, <1>11, <1>12

(* How much two paths have in common.                                          *)
LEMMA SharedIs ==
  ASSUME NEW dir \in Paths, NEW to \in Paths
  PROVE  \E k \in Nat : /\ k = Len(LongestCommonPrefix({dir, to}))
                        /\ k <= Len(dir) /\ k <= Len(to)
                        /\ SubSeq(dir, 1, k) = SubSeq(to, 1, k)
<1>1. Len(dir) \in Nat /\ Len(to) \in Nat
  BY PathsAreSeqs
<1>2. PICK C : C = CommonPrefixes({dir, to})
  OBVIOUS
<1>3. \A c \in C : c \in Paths /\ IsPrefix(c, dir) /\ IsPrefix(c, to)
  <2>. SUFFICES ASSUME NEW c \in C PROVE c \in Paths /\ IsPrefix(c, dir) /\ IsPrefix(c, to)
    OBVIOUS
  <2>1. c \in UNION {Prefixes(seq) : seq \in {dir, to}} /\ IsPrefix(c, dir) /\ IsPrefix(c, to)
    BY <1>2 DEF CommonPrefixes
  <2>2. PICK t \in {dir, to} : c \in Prefixes(t)
    BY <2>1
  <2>3. PICK l \in 0 .. Len(t) : c = SubSeq(t, 1, l)
    BY <2>2 DEF Prefixes
  <2>4. c \in Paths
    BY <2>3, FirstOnesLead
  <2>. QED
    BY <2>1, <2>4
<1>4. <<>> \in C
  <2>1. SubSeq(dir, 1, 0) = <<>> /\ <<>> \in Paths /\ 0 \in 0 .. Len(dir) /\ 0 \in 0 .. Len(to)
        /\ SubSeq(to, 1, 0) = <<>>
    BY <1>1, EmptyIsPath
  <2>2. IsPrefix(<<>>, dir) /\ IsPrefix(<<>>, to)
    BY <2>1, FirstOnesLead
  <2>3. <<>> \in Prefixes(dir)
    BY <2>1 DEF Prefixes
  <2>4. <<>> \in UNION {Prefixes(seq) : seq \in {dir, to}}
    BY <2>3
  <2>. QED
    BY <1>2, <2>2, <2>4 DEF CommonPrefixes
<1>5. \A c \in C : Len(c) \in Nat /\ Len(c) <= Len(dir) /\ Len(c) <= Len(to)
                   /\ SubSeq(dir, 1, Len(c)) = SubSeq(to, 1, Len(c))
  <2>. SUFFICES ASSUME NEW c \in C
                PROVE  Len(c) \in Nat /\ Len(c) <= Len(dir) /\ Len(c) <= Len(to)
                       /\ SubSeq(dir, 1, Len(c)) = SubSeq(to, 1, Len(c))
    OBVIOUS
  <2>1. c \in Paths /\ IsPrefix(c, dir) /\ IsPrefix(c, to)
    BY <1>3
  <2>2. Len(c) \in 0 .. Len(dir) /\ c = SubSeq(dir, 1, Len(c))
    BY <2>1, PrefixIsFirstOnes
  <2>3. Len(c) \in 0 .. Len(to) /\ c = SubSeq(to, 1, Len(c))
    BY <2>1, PrefixIsFirstOnes
  <2>. QED
    BY <1>1, <2>2, <2>3
<1>6. \E c \in C : \A o \in C : Len(o) <= Len(c)
  <2>. DEFINE S == {Len(dir) - Len(c) : c \in C}
  <2>1. S \in SUBSET Nat
    BY <1>1, <1>5
  <2>2. S # {}
    BY <1>4
  <2>3. \A n \in S : \E c \in C : n = Len(dir) - Len(c)
    OBVIOUS
  <2>4. \A c \in C : Len(dir) - Len(c) \in S
    OBVIOUS
  <2>. HIDE DEF S
  <2>5. PICK n \in S : \A x \in S : n <= x
    BY <2>1, <2>2, LeastOf
  <2>6. PICK c \in C : n = Len(dir) - Len(c)
    BY <2>3
  <2>7. \A o \in C : Len(dir) - Len(c) <= Len(dir) - Len(o)
    BY <2>4, <2>5, <2>6
  <2>8. \A o \in C : Len(o) <= Len(c)
    BY <1>1, <1>5, <2>7
  <2>. QED
    BY <2>8
<1>7. PICK l : l = LongestCommonPrefix({dir, to})
  OBVIOUS
<1>8. l \in C
  BY <1>2, <1>6, <1>7 DEF LongestCommonPrefix
<1>. QED
  BY <1>5, <1>7, <1>8

LEMMA ConstantSegments ==
  ASSUME NEW S, NEW e \in S, NEW u \in Nat
  PROVE  /\ [i \in 1 .. u |-> e] \in Seq(S) /\ Len([i \in 1 .. u |-> e]) = u
         /\ \A j \in 1 .. u : [i \in 1 .. u |-> e][j] = e
OBVIOUS

(* rel leaves what dir has beyond their first k segments and goes on to `to'.  *)
Leads(rel, dir, to, k) ==
  /\ k <= Len(dir) /\ k <= Len(to) /\ SubSeq(dir, 1, k) = SubSeq(to, 1, k)
  /\ Len(rel) = (Len(dir) - k) + (Len(to) - k)
  /\ \A i \in 1 .. Len(dir) - k : rel[i] = ".."
  /\ \A i \in 1 .. Len(to) - k : rel[(Len(dir) - k) + i] = to[k + i]

(* From its b-th value on w walks along rel.                                   *)
Follows(w, rel, b) == \A i \in 1 .. Len(rel) : w[b + i] = Walk(w[b + (i - 1)], rel[i])

LEMMA RelativeIs ==
  ASSUME NEW dir \in Paths, NEW to \in Paths
  PROVE  /\ RelativePath(dir, to) \in Seq(PathParts)
         /\ \E k \in Nat : Leads(RelativePath(dir, to), dir, to, k)
<1>1. PICK k \in Nat : /\ k = Len(LongestCommonPrefix({dir, to}))
                       /\ k <= Len(dir) /\ k <= Len(to)
                       /\ SubSeq(dir, 1, k) = SubSeq(to, 1, k)
  BY SharedIs
<1>2. Len(dir) \in Nat /\ Len(to) \in Nat /\ to \in Seq(PathParts)
  BY PathsAreSeqs
<1>a. PICK l : l = Len(dir)
  OBVIOUS
<1>3. PICK u \in Nat : u = Len(dir) - k
  <2>1. l \in Nat /\ k <= l
    BY <1>1, <1>2, <1>a
  <2>2. l - k \in Nat
    BY <2>1
  <2>. QED
    BY <1>a, <2>2
<1>4. PICK ups : ups = [i \in 1 .. u |-> ".."]
  OBVIOUS
<1>5. ups \in Seq(PathParts) /\ Len(ups) = u /\ \A i \in 1 .. u : ups[i] = ".."
  <2>1. ".." \in PathParts
    BY DEF PathParts
  <2>. QED
    BY <1>3, <1>4, <2>1, ConstantSegments
<1>6. PICK tail : tail = SubSeq(to, k + 1, Len(to))
  OBVIOUS
<1>7. /\ tail \in Seq(PathParts) /\ Len(tail) = Len(to) - k
      /\ \A i \in 1 .. Len(to) - k : tail[i] = to[k + i]
  <2>1. k \in 0 .. Len(to)
    BY <1>1, <1>2
  <2>. QED
    BY <1>2, <1>6, <2>1, LaterOnes
<1>8. PICK rel : rel = RelativePath(dir, to)
  OBVIOUS
<1>9. rel = ups \o tail
  BY <1>1, <1>3, <1>4, <1>6, <1>8 DEF RelativePath
<1>10. /\ rel \in Seq(PathParts) /\ Len(rel) = u + (Len(to) - k)
       /\ \A i \in 1 .. u : rel[i] = ups[i]
       /\ \A i \in 1 .. Len(tail) : rel[u + i] = tail[i]
  <2>1. /\ rel \in Seq(PathParts) /\ Len(rel) = Len(ups) + Len(tail)
        /\ \A i \in 1 .. Len(ups) : rel[i] = ups[i]
        /\ \A i \in 1 .. Len(tail) : rel[Len(ups) + i] = tail[i]
    <3>1. ups \in Seq(PathParts) /\ tail \in Seq(PathParts)
      BY <1>5, <1>7
    <3>. QED
      BY <1>9, <3>1, JoinedSegments
  <2>. QED
    BY <1>5, <1>7, <2>1
<1>11. /\ \A i \in 1 .. u : rel[i] = ".."
       /\ \A i \in 1 .. Len(to) - k : rel[u + i] = to[k + i]
  BY <1>5, <1>7, <1>10
<1>12. Leads(rel, dir, to, k)
  BY <1>1, <1>3, <1>10, <1>11 DEF Leads
<1>. QED
  BY <1>1, <1>8, <1>10, <1>12

(* A walk up to what two paths share and down again.                           *)
LEMMA UpAndDown ==
  ASSUME NEW dir \in Paths, NEW to \in Paths, NEW k \in Nat, NEW b \in Nat, NEW w, NEW rel,
         Leads(rel, dir, to, k), w[b] = dir, Follows(w, rel, b)
  PROVE  w[b + Len(rel)] = to
<1>0. PICK u \in Nat :
        /\ u = Len(dir) - k /\ k <= Len(dir) /\ k <= Len(to)
        /\ SubSeq(dir, 1, k) = SubSeq(to, 1, k) /\ Len(rel) = u + (Len(to) - k)
        /\ \A i \in 1 .. u : rel[i] = ".."
        /\ \A i \in 1 .. Len(to) - k : rel[u + i] = to[k + i]
        /\ \A i \in 1 .. u + (Len(to) - k) : w[b + i] = Walk(w[b + (i - 1)], rel[i])
  <2>1. Len(dir) \in Nat /\ k <= Len(dir)
    BY PathsAreSeqs DEF Leads
  <2>2. Len(dir) - k \in Nat
    BY <2>1
  <2>. QED
    BY <2>2 DEF Leads, Follows
<1>1. Len(dir) \in Nat /\ Len(to) \in Nat /\ SubSeq(dir, 1, Len(dir)) = dir /\ SubSeq(to, 1, Len(to)) = to
  BY DEF Paths
<1>2. \A i \in 0 .. u : w[b + i] = SubSeq(dir, 1, Len(dir) - i)
  <2>. DEFINE S == {i \in 0 .. u : w[b + i] = SubSeq(dir, 1, Len(dir) - i)}
  <2>1. 0 \in S
    BY <1>0, <1>1
  <2>2. ASSUME NEW i \in 0 .. u, i \in S, i < u
        PROVE  i + 1 \in S
    <3>1. /\ i + 1 \in 1 .. u /\ i + 1 \in 1 .. u + (Len(to) - k) /\ i + 1 \in 0 .. u
          /\ (i + 1) - 1 = i /\ Len(dir) - i \in 0 .. Len(dir) /\ Len(dir) - i # 0
          /\ (Len(dir) - i) - 1 = Len(dir) - (i + 1)
      <4>1. PICK l : l = Len(dir)
        OBVIOUS
      <4>2. PICK d : d = Len(to) - k
        OBVIOUS
      <4>3. l \in Nat /\ d \in Nat /\ u = l - k /\ i \in Nat /\ i < u
        <5>1. Len(to) - k \in Nat
          BY <1>0, <1>1
        <5>. QED
          BY <1>0, <1>1, <2>2, <4>1, <4>2, <5>1
      <4>4. /\ i + 1 \in 1 .. u /\ i + 1 \in 1 .. u + d /\ i + 1 \in 0 .. u
            /\ (i + 1) - 1 = i /\ l - i \in 0 .. l /\ l - i # 0
            /\ (l - i) - 1 = l - (i + 1)
        BY <4>3
      <4>. QED
        BY <4>1, <4>2, <4>4
    <3>2. w[b + (i + 1)] = Walk(w[b + i], "..")
      BY <1>0, <3>1
    <3>3. PICK at : at = SubSeq(dir, 1, Len(dir) - i)
      OBVIOUS
    <3>4. at \in Paths /\ Len(at) = Len(dir) - i /\ w[b + i] = at
      BY <2>2, <3>1, <3>3, FirstOnesLead
    <3>5. at # <<>>
      BY <3>1, <3>4
    <3>6. Walk(at, "..") = SubSeq(at, 1, Len(at) - 1)
      <4>1. ".." # "."
        OBVIOUS
      <4>. QED
        BY <3>5, <4>1 DEF Walk, Front
    <3>7. SubSeq(at, 1, Len(at) - 1) = SubSeq(dir, 1, Len(dir) - (i + 1))
      <4>1. PICK n : n = Len(dir) - (i + 1)
        OBVIOUS
      <4>2. n \in 0 .. Len(at) /\ n \in 0 .. Len(dir) /\ Len(at) - 1 = n
        BY <1>0, <1>1, <3>1, <3>4, <4>1
      <4>3. PICK x : x = SubSeq(at, 1, n)
        OBVIOUS
      <4>4. PICK y : y = SubSeq(dir, 1, n)
        OBVIOUS
      <4>5. at \in Seq(Segments) /\ dir \in Seq(Segments)
        BY <3>4 DEF Paths
      <4>6. x \in Seq(Segments) /\ Len(x) = n /\ \A j \in 1 .. n : x[j] = at[j]
        BY <4>2, <4>3, <4>5, FirstOnes
      <4>7. y \in Seq(Segments) /\ Len(y) = n /\ \A j \in 1 .. n : y[j] = dir[j]
        BY <4>2, <4>4, <4>5, FirstOnes
      <4>8. \A j \in 1 .. Len(dir) - i : at[j] = dir[j]
        BY <3>1, <3>3, <4>5, FirstOnes
      <4>9. \A j \in 1 .. Len(y) : x[j] = y[j]
        BY <3>4, <4>2, <4>6, <4>7, <4>8
      <4>10. x = y
        BY <4>6, <4>7, <4>9, SameSegments
      <4>. QED
        BY <4>1, <4>2, <4>3, <4>4, <4>10
    <3>. QED
      BY <3>1, <3>2, <3>4, <3>6, <3>7
  <2>. HIDE DEF S
  <2>3. \A i \in 0 .. u : i \in S
    BY <2>1, <2>2, UpToAny
  <2>. QED
    BY <2>3 DEF S
<1>3. w[b + u] = SubSeq(to, 1, k)
  <2>1. u \in 0 .. u /\ Len(dir) - u = k
    BY <1>0, <1>1
  <2>. QED
    BY <1>0, <1>2, <2>1
<1>4. PICK d \in Nat : d = Len(to) - k
  <2>1. Len(to) - k \in Nat
    BY <1>0, <1>1
  <2>. QED
    BY <2>1
<1>5. \A i \in 0 .. d : w[b + (u + i)] = SubSeq(to, 1, k + i)
  <2>. DEFINE S == {i \in 0 .. d : w[b + (u + i)] = SubSeq(to, 1, k + i)}
  <2>1. 0 \in S
    BY <1>3
  <2>2. ASSUME NEW i \in 0 .. d, i \in S, i < d
        PROVE  i + 1 \in S
    <3>1. /\ i + 1 \in 1 .. d /\ u + (i + 1) \in 1 .. u + (Len(to) - k) /\ i + 1 \in 0 .. d
          /\ (u + (i + 1)) - 1 = u + i /\ k + i \in 0 .. Len(to) /\ k + i < Len(to)
          /\ (k + i) + 1 = k + (i + 1)
      BY <1>0, <1>1, <1>4, <2>2
    <3>2. w[b + (u + (i + 1))] = Walk(w[b + (u + i)], rel[u + (i + 1)])
      BY <1>0, <3>1
    <3>3. rel[u + (i + 1)] = to[(k + i) + 1]
      BY <1>0, <1>4, <3>1
    <3>4. w[b + (u + i)] = SubSeq(to, 1, k + i)
      BY <2>2
    <3>5. Walk(SubSeq(to, 1, k + i), to[(k + i) + 1]) = SubSeq(to, 1, (k + i) + 1)
      BY <3>1, OneSegmentMore
    <3>6. w[b + (u + (i + 1))] = SubSeq(to, 1, k + (i + 1))
      BY <3>1, <3>2, <3>3, <3>4, <3>5
    <3>. QED
      BY <3>1, <3>6
  <2>. HIDE DEF S
  <2>3. \A i \in 0 .. d : i \in S
    BY <2>1, <2>2, UpToAny
  <2>. QED
    BY <2>3 DEF S
<1>6. d \in 0 .. d /\ k + d = Len(to)
  BY <1>0, <1>1, <1>4
<1>7. w[b + (u + d)] = to
  BY <1>0, <1>1, <1>5, <1>6
<1>. QED
  BY <1>0, <1>4, <1>7

-----------------------------------------------------------------------------
(* What is written reaches what it is written for. *)

LEMMA JoinOfNothing ==
  ASSUME NEW base \in Paths
  PROVE  JoinPath(base, <<>>) = base
<1>1. PICK x : x = <<>>
  OBVIOUS
<1>2. x \in Seq(PathParts) /\ Len(x) = 0
  BY <1>1
<1>3. PICK w : /\ w[0] = base
               /\ \A i \in 1 .. Len(x) : w[i] = Walk(w[i - 1], x[i])
               /\ JoinPath(base, x) = w[Len(x)]
  BY <1>2, JoinWalks
<1>. QED
  BY <1>1, <1>2, <1>3

LEMMA DotBefore ==
  ASSUME NEW rel \in Seq(PathParts)
  PROVE  /\ <<".">> \o rel \in Seq(PathParts) /\ Len(<<".">> \o rel) = 1 + Len(rel)
         /\ (<<".">> \o rel)[1] = "."
         /\ \A i \in 1 .. Len(rel) : (<<".">> \o rel)[1 + i] = rel[i]
<1>1. PICK d : d = <<".">>
  OBVIOUS
<1>2. d \in Seq(PathParts) /\ Len(d) = 1 /\ d[1] = "."
  <2>1. "." \in PathParts
    BY DEF PathParts
  <2>. QED
    BY <1>1, <2>1
<1>3. PICK x : x = d \o rel
  OBVIOUS
<1>4. /\ x \in Seq(PathParts) /\ Len(x) = Len(d) + Len(rel)
      /\ \A i \in 1 .. Len(d) : x[i] = d[i]
      /\ \A i \in 1 .. Len(rel) : x[Len(d) + i] = rel[i]
  <2>1. d \in Seq(PathParts)
    BY <1>2
  <2>. QED
    BY <1>3, <2>1, JoinedSegments
<1>5. x[1] = "."
  BY <1>2, <1>4
<1>. QED
  BY <1>1, <1>2, <1>3, <1>4, <1>5

LEMMA JoinOfDot ==
  ASSUME NEW base \in Paths
  PROVE  <<".">> \in Seq(PathParts) /\ JoinPath(base, <<".">>) = base
<1>1. PICK x : x = <<".">>
  OBVIOUS
<1>2. x \in Seq(PathParts) /\ Len(x) = 1 /\ x[1] = "."
  <2>1. "." \in PathParts
    BY DEF PathParts
  <2>. QED
    BY <1>1, <2>1
<1>3. PICK w : /\ w[0] = base
               /\ \A i \in 1 .. Len(x) : w[i] = Walk(w[i - 1], x[i])
               /\ JoinPath(base, x) = w[Len(x)]
  BY <1>2, JoinWalks
<1>4. w[1] = Walk(w[0], ".")
  BY <1>2, <1>3
<1>5. w[1] = base
  BY <1>3, <1>4 DEF Walk
<1>. QED
  BY <1>1, <1>2, <1>3, <1>5

LEMMA RelativeLeads ==
  ASSUME NEW base \in Paths, NEW to \in Paths
  PROVE  JoinPath(base, RelativePath(base, to)) = to
<1>1. PICK rel : rel = RelativePath(base, to)
  OBVIOUS
<1>2. rel \in Seq(PathParts) /\ Len(rel) \in Nat
  BY <1>1, RelativeIs
<1>3. PICK k \in Nat : Leads(rel, base, to, k)
  BY <1>1, RelativeIs
<1>4. PICK w : /\ w[0] = base
               /\ \A i \in 1 .. Len(rel) : w[i] = Walk(w[i - 1], rel[i])
               /\ JoinPath(base, rel) = w[Len(rel)]
  BY <1>2, JoinWalks
<1>5. Follows(w, rel, 0)
  <2>1. \A i \in 1 .. Len(rel) : 0 + i = i /\ 0 + (i - 1) = i - 1
    BY <1>2
  <2>. QED
    BY <1>4, <2>1 DEF Follows
<1>6. w[0 + Len(rel)] = to
  BY <1>3, <1>4, <1>5, UpAndDown
<1>7. 0 + Len(rel) = Len(rel)
  BY <1>2
<1>. QED
  BY <1>1, <1>4, <1>6, <1>7

LEMMA RelativeLeadsFromHere ==
  ASSUME NEW base \in Paths, NEW to \in Paths
  PROVE  JoinPath(base, <<".">> \o RelativePath(base, to)) = to
<1>1. PICK rel : rel = RelativePath(base, to)
  OBVIOUS
<1>2. rel \in Seq(PathParts) /\ Len(rel) \in Nat
  BY <1>1, RelativeIs
<1>3. PICK k \in Nat : Leads(rel, base, to, k)
  BY <1>1, RelativeIs
<1>7. PICK x : x = <<".">> \o rel
  OBVIOUS
<1>8. /\ x \in Seq(PathParts) /\ Len(x) = 1 + Len(rel) /\ x[1] = "."
      /\ \A i \in 1 .. Len(rel) : x[1 + i] = rel[i]
  BY <1>2, <1>7, DotBefore
<1>9. PICK w : /\ w[0] = base
               /\ \A i \in 1 .. Len(x) : w[i] = Walk(w[i - 1], x[i])
               /\ JoinPath(base, x) = w[Len(x)]
  BY <1>8, JoinWalks
<1>10. w[1] = base
  <2>1. 1 \in 1 .. Len(x) /\ 1 - 1 = 0
    BY <1>2, <1>8
  <2>2. w[1] = Walk(w[0], ".")
    BY <1>8, <1>9, <2>1
  <2>. QED
    BY <1>9, <2>2 DEF Walk
<1>11. Follows(w, rel, 1)
  <2>1. \A i \in 1 .. Len(rel) : 1 + i \in 1 .. 1 + Len(rel) /\ (1 + i) - 1 = 1 + (i - 1)
    BY <1>2
  <2>. QED
    BY <1>8, <1>9, <2>1 DEF Follows
<1>12. w[1 + Len(rel)] = to
  BY <1>3, <1>10, <1>11, UpAndDown
<1>. QED
  BY <1>1, <1>7, <1>8, <1>9, <1>12

(* A citation written for a target from a base reaches it from there, in the   *)
(* form it had.                                                                *)
THEOREM ExpressReaches ==
  ASSUME NEW target \in Paths, NEW base \in Paths, NEW form
  PROVE  /\ Express(target, form, base) \in Citations
         /\ JoinPath(base, Express(target, form, base).segs) = target
         /\ Express(target, form, base).route = (form = "route")
<1>1. PICK rel : rel = RelativePath(base, target)
  OBVIOUS
<1>2. rel \in Seq(PathParts) /\ JoinPath(base, rel) = target
  <2>1. rel \in Seq(PathParts)
    BY <1>1, RelativeIs
  <2>. QED
    BY <1>1, <2>1, RelativeLeads
<1>3. PICK e : e = Express(target, form, base)
  OBVIOUS
<1>4. CASE form = "route"
  <2>1. e = [route |-> TRUE, segs |-> rel]
    BY <1>1, <1>3, <1>4 DEF Express
  <2>2. e \in Citations /\ e.route = TRUE /\ e.segs = rel
    BY <1>2, <2>1 DEF Citations
  <2>. QED
    BY <1>2, <1>3, <1>4, <2>2
<1>5. CASE form # "route" /\ rel = <<>>
  <2>1. e = [route |-> FALSE, segs |-> <<".">>]
    BY <1>1, <1>3, <1>5 DEF Express
  <2>2. JoinPath(base, <<>>) = base
    BY JoinOfNothing
  <2>3. base = target
    BY <1>2, <1>5, <2>2
  <2>4. <<".">> \in Seq(PathParts) /\ JoinPath(base, <<".">>) = base
    BY JoinOfDot
  <2>5. <<".">> # <<>>
    OBVIOUS
  <2>6. e \in Citations /\ e.route = FALSE /\ e.segs = <<".">>
    BY <2>1, <2>4, <2>5 DEF Citations
  <2>. QED
    BY <1>3, <1>5, <2>3, <2>4, <2>6
<1>6. CASE form = "relative" /\ rel # <<>> /\ Head(rel) # ".."
  <2>0. "relative" # "route"
    OBVIOUS
  <2>1. e = [route |-> FALSE, segs |-> <<".">> \o rel]
    BY <1>1, <1>3, <1>6, <2>0 DEF Express
  <2>2. PICK x : x = <<".">> \o rel
    OBVIOUS
  <2>3. x \in Seq(PathParts) /\ Len(x) = 1 + Len(rel)
    BY <1>2, <2>2, DotBefore
  <2>4. x # <<>>
    BY <1>2, <2>3
  <2>5. JoinPath(base, x) = target
    BY <1>1, <2>2, RelativeLeadsFromHere
  <2>6. e \in Citations /\ e.route = FALSE /\ e.segs = x
    BY <2>1, <2>2, <2>3, <2>4 DEF Citations
  <2>. QED
    BY <1>3, <1>6, <2>0, <2>5, <2>6
<1>7. CASE form # "route" /\ rel # <<>> /\ ~(form = "relative" /\ Head(rel) # "..")
  <2>1. e = [route |-> FALSE, segs |-> rel]
    BY <1>1, <1>3, <1>7 DEF Express
  <2>2. e \in Citations /\ e.route = FALSE /\ e.segs = rel
    BY <1>2, <1>7, <2>1 DEF Citations
  <2>. QED
    BY <1>2, <1>3, <1>7, <2>2
<1>. QED
  BY <1>4, <1>5, <1>6, <1>7

-----------------------------------------------------------------------------
(* The gate. *)

(* A step of a walk that comes to what lies under a path spells its last       *)
(* segment.                                                                    *)
LEMMA WalkSpells ==
  ASSUME NEW p \in Paths, NEW from \in Paths, NEW part \in PathParts, from # <<>>,
         ~IsPrefix(from, p), IsPrefix(from, Walk(p, part))
  PROVE  part = Last(from)
<1>1. CASE part = "."
  BY <1>1 DEF Walk
<1>2. CASE part = ".." /\ p = <<>>
  <2>1. part # "."
    BY <1>2
  <2>. QED
    BY <1>2, <2>1 DEF Walk
<1>3. CASE part = ".." /\ p # <<>>
  <2>1. part # "."
    BY <1>3
  <2>2. Walk(p, part) = Front(p)
    BY <1>3, <2>1 DEF Walk
  <2>3. Front(p) \in Paths /\ IsPrefix(Front(p), p)
    BY <1>3, FrontIsPath
  <2>. QED
    BY <2>2, <2>3, PrefixOfPrefix
<1>4. CASE part # "." /\ part # ".."
  <2>1. PICK q : q = Append(p, part)
    OBVIOUS
  <2>2. Walk(p, part) = q
    BY <1>4, <2>1 DEF Walk
  <2>3. p \in Seq(Segments) /\ part \in Segments
    BY <1>4 DEF Paths, PathParts
  <2>4. /\ q \in Seq(Segments) /\ Len(q) = Len(p) + 1
        /\ q[Len(p) + 1] = part /\ \A i \in 1 .. Len(p) : q[i] = p[i]
    BY <2>1, <2>3, AppendedSegments
  <2>5. q \in Paths
    BY <2>4 DEF Paths
  <2>6. Len(from) <= Len(q) /\ \A i \in 1 .. Len(from) : from[i] = q[i]
    BY <2>2, <2>5, PrefixReaches
  <2>7. Len(from) \in Nat /\ Len(p) \in Nat
    BY PathsAreSeqs
  <2>8. ~(Len(from) <= Len(p))
    <3>1. ASSUME Len(from) <= Len(p)
          PROVE  IsPrefix(from, p)
      <4>1. \A i \in 1 .. Len(from) : i \in 1 .. Len(p)
        BY <2>7, <3>1
      <4>2. \A i \in 1 .. Len(from) : from[i] = p[i]
        BY <2>4, <2>6, <4>1
      <4>. QED
        BY <3>1, <4>2, PrefixReaches
    <3>. QED
      BY <3>1
  <2>9. Len(from) = Len(p) + 1 /\ Len(from) \in 1 .. Len(from)
    BY <2>4, <2>6, <2>7, <2>8
  <2>10. from[Len(from)] = part
    BY <2>4, <2>6, <2>9
  <2>. QED
    BY <2>10 DEF Last
<1>. QED
  BY <1>1, <1>2, <1>3, <1>4

(* A citation that reaches into a path from outside it spells the last segment *)
(* of that path.                                                               *)
LEMMA SegmentSpelt ==
  ASSUME NEW dir \in Paths, NEW from \in Paths, NEW x \in Seq(PathParts), from # <<>>,
         ~IsPrefix(from, dir), IsPrefix(from, JoinPath(dir, x))
  PROVE  Contains(x, Last(from))
<1>1. PICK w : /\ w[0] = dir
               /\ \A i \in 1 .. Len(x) : w[i] = Walk(w[i - 1], x[i])
               /\ JoinPath(dir, x) = w[Len(x)]
  BY JoinWalks
<1>2. Len(x) \in Nat /\ \A i \in 1 .. Len(x) : x[i] \in PathParts
  OBVIOUS
<1>3. ASSUME \A i \in 1 .. Len(x) : x[i] # Last(from)
      PROVE  FALSE
  <2>. DEFINE S == {i \in 0 .. Len(x) : w[i] \in Paths /\ ~IsPrefix(from, w[i])}
  <2>1. 0 \in S
    BY <1>1, <1>2
  <2>2. ASSUME NEW i \in 0 .. Len(x), i \in S, i < Len(x)
        PROVE  i + 1 \in S
    <3>1. i + 1 \in 1 .. Len(x) /\ i + 1 \in 0 .. Len(x) /\ (i + 1) - 1 = i
      BY <1>2, <2>2
    <3>2. w[i + 1] = Walk(w[i], x[i + 1]) /\ x[i + 1] \in PathParts /\ x[i + 1] # Last(from)
      BY <1>1, <1>2, <1>3, <3>1
    <3>3. w[i] \in Paths /\ ~IsPrefix(from, w[i])
      BY <2>2
    <3>4. w[i + 1] \in Paths
      BY <3>2, <3>3, WalkIsPath
    <3>5. ~IsPrefix(from, w[i + 1])
      BY <3>2, <3>3, WalkSpells
    <3>. QED
      BY <3>1, <3>4, <3>5
  <2>. HIDE DEF S
  <2>3. \A i \in 0 .. Len(x) : i \in S
    BY <1>2, <2>1, <2>2, UpToAny
  <2>4. Len(x) \in S
    BY <1>2, <2>3
  <2>5. ~IsPrefix(from, w[Len(x)])
    BY <2>4 DEF S
  <2>. QED
    BY <1>1, <2>5
<1>. QED
  BY <1>3 DEF Contains

-----------------------------------------------------------------------------
(* What a citation may land on, and what the rule takes it for. *)

LEMMA LeastOfTwo ==
  ASSUME NEW S \in SUBSET {1, 2}
  PROVE  /\ 1 \in S => Min(S) = 1
         /\ 1 \notin S /\ 2 \in S => Min(S) = 2
<1>1. S \in SUBSET Int /\ \A n \in S : n = 1 \/ n = 2
  OBVIOUS
<1>2. ASSUME 1 \in S
      PROVE  Min(S) = 1
  <2>1. \A n \in S : 1 <= n
    BY <1>1
  <2>. QED
    BY <1>1, <1>2, <2>1, LeastIs
<1>3. ASSUME 1 \notin S, 2 \in S
      PROVE  Min(S) = 2
  <2>1. \A n \in S : 2 <= n
    BY <1>1, <1>3
  <2>. QED
    BY <1>1, <1>3, <2>1, LeastIs
<1>. QED
  BY <1>2, <1>3

(* A reader who opens a surface at `file' may come to p by its citation.       *)
Finds(text, file, p) ==
  \/ JoinPath(Root, text.segs) = p
  \/ ~text.route /\ JoinPath(DirnameOf(file), text.segs) = p

(* One of the places the rule looks at.                                        *)
IsCandidate(c, text, file) ==
  \/ c.basis = "root" /\ c.target = JoinPath(Root, text.segs)
  \/ c.basis = "file" /\ ~text.route /\ c.target = JoinPath(DirnameOf(file), text.segs)

LEMMA TargetsArePaths ==
  ASSUME NEW text \in Citations, NEW file \in Paths
  PROVE  /\ text.segs \in Seq(PathParts) /\ text.route \in BOOLEAN
         /\ DirnameOf(file) \in Paths /\ Root \in Paths
         /\ JoinPath(Root, text.segs) \in Paths /\ JoinPath(DirnameOf(file), text.segs) \in Paths
<1>1. text.segs \in Seq(PathParts) /\ text.route \in BOOLEAN
  BY DEF Citations
<1>2. DirnameOf(file) \in Paths /\ Root \in Paths
  BY DirnameIsPath, PlacesAssumption
<1>3. \A d \in Paths : JoinPath(d, text.segs) \in Paths
  <2>. SUFFICES ASSUME NEW d \in Paths
                PROVE  JoinPath(d, text.segs) \in Paths
    OBVIOUS
  <2>1. PICK p : p = d \o text.segs
    OBVIOUS
  <2>2. p \in Seq(PathParts)
    <3>1. d \in Seq(PathParts)
      BY PathsAreSeqs
    <3>. QED
      BY <1>1, <2>1, <3>1, JoinedSegments
  <2>3. NormalizePath(p) \in Paths
    BY <2>2, NormalizedIsPath
  <2>. QED
    BY <2>1, <2>3 DEF JoinPath
<1>. QED
  BY <1>1, <1>2, <1>3

LEMMA FormIs ==
  ASSUME NEW text \in Citations
  PROVE  (Form(text) = "route") = text.route
<1>1. text.route \in BOOLEAN
  BY DEF Citations
<1>2. "relative" # "route" /\ "bare" # "route"
  OBVIOUS
<1>3. CASE text.route
  <2>1. Form(text) = "route"
    BY <1>3 DEF Form
  <2>. QED
    BY <1>1, <1>3, <2>1
<1>4. CASE ~text.route
  <2>1. Form(text) = "relative" \/ Form(text) = "bare"
    BY <1>4 DEF Form
  <2>. QED
    BY <1>1, <1>2, <1>4, <2>1
<1>. QED
  BY <1>1, <1>3, <1>4

LEMMA FindsIs ==
  ASSUME NEW text \in Citations, NEW file \in Paths, NEW p
  PROVE  p \in ToSet(CitationCandidates(text, file)) <=> Finds(text, file, p)
<1>1. text.route \in BOOLEAN
  BY TargetsArePaths
<1>2. PICK r : r = JoinPath(Root, text.segs)
  OBVIOUS
<1>3. PICK f : f = JoinPath(DirnameOf(file), text.segs)
  OBVIOUS
<1>4. CASE text.route
  <2>1. CitationCandidates(text, file) = <<r>>
    BY <1>2, <1>4 DEF CitationCandidates
  <2>2. ToSet(<<r>>) = {r}
    BY DEF ToSet
  <2>. QED
    BY <1>2, <1>4, <2>1, <2>2 DEF Finds
<1>5. CASE ~text.route
  <2>1. CitationCandidates(text, file) = <<f, r>>
    BY <1>2, <1>3, <1>5 DEF CitationCandidates
  <2>2. ToSet(<<f, r>>) = {f, r}
    BY DEF ToSet
  <2>. QED
    BY <1>2, <1>3, <1>5, <2>1, <2>2 DEF Finds
<1>. QED
  BY <1>4, <1>5

(* The first place that is there, of one place and of two.                     *)
LEMMA LandsOn ==
  ASSUME NEW s, cites[s] \in Citations, place[s] \in Paths,
         NEW r, r = JoinPath(Root, cites[s].segs),
         NEW f, f = JoinPath(DirnameOf(place[s]), cites[s].segs)
  PROVE  Lands(s) = IF ~cites[s].route /\ Exists(f) THEN f
                      ELSE IF Exists(r) THEN r ELSE NoPlace
<1>1. PICK now : now = CitationCandidates(cites[s], place[s])
  OBVIOUS
<1>2. PICK S : S = {i \in 1 .. Len(now) : Exists(now[i])}
  OBVIOUS
<1>3. Lands(s) = IF (IF S # {} THEN Min(S) ELSE 0) = 0 THEN NoPlace
                   ELSE now[IF S # {} THEN Min(S) ELSE 0]
  BY <1>1, <1>2 DEF Lands, SelectInSeq
<1>4. CASE cites[s].route
  <2>1. now = <<r>>
    BY <1>1, <1>4 DEF CitationCandidates
  <2>2. S = {i \in {1} : Exists(r)}
    BY <1>2, <2>1
  <2>3. CASE Exists(r)
    <3>1. S \in SUBSET {1, 2} /\ 1 \in S
      BY <2>2, <2>3
    <3>2. Min(S) = 1
      BY <3>1, LeastOfTwo
    <3>. QED
      BY <1>3, <1>4, <2>1, <2>3, <3>1, <3>2
  <2>4. CASE ~Exists(r)
    BY <1>3, <1>4, <2>2, <2>4
  <2>. QED
    BY <2>3, <2>4
<1>5. CASE ~cites[s].route
  <2>1. now = <<f, r>>
    BY <1>1, <1>5 DEF CitationCandidates
  <2>2. /\ S \in SUBSET {1, 2}
        /\ 1 \in S <=> Exists(f)
        /\ 2 \in S <=> Exists(r)
    BY <1>2, <2>1
  <2>3. CASE Exists(f)
    <3>1. Min(S) = 1
      BY <2>2, <2>3, LeastOfTwo
    <3>. QED
      BY <1>3, <1>5, <2>1, <2>2, <2>3, <3>1
  <2>4. CASE ~Exists(f) /\ Exists(r)
    <3>1. Min(S) = 2
      BY <2>2, <2>4, LeastOfTwo
    <3>. QED
      BY <1>3, <1>5, <2>1, <2>2, <2>4, <3>1
  <2>5. CASE ~Exists(f) /\ ~Exists(r)
    <3>1. S = {}
      BY <2>2, <2>5
    <3>. QED
      BY <1>3, <2>5, <3>1
  <2>. QED
    BY <2>3, <2>4, <2>5
<1>. QED
  BY <1>4, <1>5

LEMMA CandidatesAre ==
  ASSUME NEW text \in Citations, NEW file \in Paths,
         NEW r, r = JoinPath(Root, text.segs),
         NEW f, f = JoinPath(DirnameOf(file), text.segs)
  PROVE  \E a, b, now :
           /\ now = Candidates(text, DirnameOf(file))
           /\ \/ now = <<a>> /\ (text.route \/ f = r) /\ a.target = r
              \/ now = <<a, b>> /\ ~text.route /\ a.target = f /\ b.target = r
           /\ \A i \in 1 .. Len(now) : IsCandidate(now[i], text, file)
<1>1. PICK now : now = Candidates(text, DirnameOf(file))
  OBVIOUS
<1>2. PICK a : a = [basis |-> "file", target |-> f]
  OBVIOUS
<1>3. PICK b : b = [basis |-> "root", target |-> r]
  OBVIOUS
<1>4. a.basis = "file" /\ a.target = f /\ b.basis = "root" /\ b.target = r
  BY <1>2, <1>3
<1>5. IsCandidate(b, text, file) /\ (~text.route => IsCandidate(a, text, file))
  BY <1>4 DEF IsCandidate
<1>6. text.route \in BOOLEAN /\ (Form(text) = "route" <=> text.route)
  <2>1. text.route \in BOOLEAN /\ (Form(text) = "route") = text.route
    BY FormIs, TargetsArePaths
  <2>. QED
    BY <2>1
<1>a. now = CASE Form(text) = "route"                            -> <<b>>
              [] Form(text) # "route" /\ a.target # b.target    -> <<a, b>>
              [] Form(text) = "bare" /\ a.target = b.target     -> <<b>>
              [] OTHER                                           -> <<a>>
  BY <1>1, <1>2, <1>3 DEF Candidates
<1>7. CASE text.route
  <2>1. now = <<b>>
    BY <1>a, <1>6, <1>7
  <2>2. \A i \in 1 .. Len(now) : IsCandidate(now[i], text, file)
    BY <1>5, <2>1
  <2>. QED
    BY <1>1, <1>4, <1>7, <2>1, <2>2
<1>8. CASE ~text.route /\ f # r
  <2>1. now = <<a, b>>
    <3>1. Form(text) # "route" /\ a.target # b.target
      BY <1>4, <1>6, <1>8
    <3>. QED
      BY <1>a, <3>1
  <2>2. \A i \in 1 .. Len(now) : IsCandidate(now[i], text, file)
    BY <1>5, <1>8, <2>1
  <2>. QED
    BY <1>1, <1>4, <1>8, <2>1, <2>2
<1>9. CASE ~text.route /\ f = r
  <2>1. now = <<a>> \/ now = <<b>>
    <3>1. Form(text) # "route" /\ a.target = b.target
      BY <1>4, <1>6, <1>9
    <3>. QED
      BY <1>a, <3>1
  <2>2. \A i \in 1 .. Len(now) : IsCandidate(now[i], text, file)
    BY <1>5, <1>9, <2>1
  <2>. QED
    BY <1>1, <1>4, <1>9, <2>1, <2>2
<1>. QED
  BY <1>6, <1>7, <1>8, <1>9

LEMMA OneOfTwo ==
  ASSUME NEW S \in SUBSET {1, 2}, S # {}
  PROVE  Min(S) \in S
<1>1. 1 \in S \/ (1 \notin S /\ 2 \in S)
  OBVIOUS
<1>. QED
  BY <1>1, LeastOfTwo

LEMMA ThereIs ==
  ASSUME NEW now, Len(now) = 1 \/ Len(now) = 2
  PROVE  /\ ThereIn(now) = 0 => \A i \in 1 .. Len(now) : ~Exists(now[i].target)
         /\ ThereIn(now) # 0 => ThereIn(now) \in 1 .. Len(now) /\ Exists(now[ThereIn(now)].target)
         /\ Exists(now[1].target) => ThereIn(now) = 1
<1>1. PICK S : S = {i \in 1 .. Len(now) : Exists(now[i].target)}
  OBVIOUS
<1>2. ThereIn(now) = IF S # {} THEN Min(S) ELSE 0
  BY <1>1 DEF ThereIn, SelectInSeq
<1>3. S \in SUBSET {1, 2} /\ (1 \in S <=> Exists(now[1].target)) /\ 0 \notin S
  BY <1>1
<1>4. S # {} => Min(S) \in S
  BY <1>3, OneOfTwo
<1>5. 1 \in S => Min(S) = 1
  BY <1>3, LeastOfTwo
<1>. QED
  BY <1>1, <1>2, <1>3, <1>4, <1>5

LEMMA GoneIs ==
  ASSUME NEW now, Len(now) = 1 \/ Len(now) = 2
  PROVE  GoneFrom(now) # 0 =>
           /\ GoneFrom(now) \in 1 .. Len(now)
           /\ \E i \in DOMAIN moves : IsAtOrUnder(now[GoneFrom(now)].target, moves[i].from)
<1>1. PICK S : S = {n \in 1 .. Len(now) :
                      \E i \in DOMAIN moves : IsAtOrUnder(now[n].target, moves[i].from)}
  OBVIOUS
<1>2. GoneFrom(now) = IF S # {} THEN Min(S) ELSE 0
  BY <1>1 DEF GoneFrom, SelectInSeq
<1>3. S \in SUBSET {1, 2}
  BY <1>1
<1>4. S # {} => Min(S) \in S
  BY <1>3, OneOfTwo
<1>. QED
  BY <1>1, <1>2, <1>4

(* The rule takes a citation for one of its candidates, for the one a reader   *)
(* comes to where there is one, and for one that moves away otherwise.         *)
LEMMA RuleChooses ==
  ASSUME NEW text \in Citations, NEW file \in Paths,
         NEW r, r = JoinPath(Root, text.segs),
         NEW f, f = JoinPath(DirnameOf(file), text.segs)
  PROVE  \/ /\ RewriteCitation(text, file) = text
            /\ ~Exists(r) /\ (~text.route => ~Exists(f))
         \/ \E c : /\ IsCandidate(c, text, file)
                   /\ RewriteCitation(text, file) = Aim(text, file, c)
                   /\ \/ /\ Exists(c.target)
                         /\ c.target = IF ~text.route /\ Exists(f) THEN f ELSE r
                      \/ /\ ~Exists(r) /\ (~text.route => ~Exists(f))
                         /\ \E i \in DOMAIN moves : IsAtOrUnder(c.target, moves[i].from)
<1>1. PICK a, b, now :
        /\ now = Candidates(text, DirnameOf(file))
        /\ \/ now = <<a>> /\ (text.route \/ f = r) /\ a.target = r
           \/ now = <<a, b>> /\ ~text.route /\ a.target = f /\ b.target = r
        /\ \A i \in 1 .. Len(now) : IsCandidate(now[i], text, file)
  BY CandidatesAre
<1>2. /\ Len(now) = 1 \/ Len(now) = 2
      /\ \/ Len(now) = 1 /\ now[1].target = r /\ (text.route \/ f = r)
         \/ Len(now) = 2 /\ ~text.route /\ now[1].target = f /\ now[2].target = r
  BY <1>1
<1>3. RewriteCitation(text, file) =
        IF Resolve(now) = 0 THEN text ELSE Aim(text, file, now[Resolve(now)])
  BY <1>1 DEF RewriteCitation
<1>4. CASE ThereIn(now) # 0
  <2>1. PICK n : n = ThereIn(now)
    OBVIOUS
  <2>2. /\ n \in 1 .. Len(now) /\ n # 0 /\ Exists(now[n].target)
        /\ Exists(now[1].target) => n = 1
    BY <1>2, <1>4, <2>1, ThereIs
  <2>3. Resolve(now) = n
    BY <1>4, <2>1 DEF Resolve
  <2>4. PICK c : c = now[n]
    OBVIOUS
  <2>5. IsCandidate(c, text, file) /\ RewriteCitation(text, file) = Aim(text, file, c)
    BY <1>1, <1>3, <2>2, <2>3, <2>4
  <2>6. n = 1 \/ n = 2
    BY <1>2, <2>2
  <2>7. c.target = (IF ~text.route /\ Exists(f) THEN f ELSE r)
    BY <1>2, <2>2, <2>4, <2>6
  <2>. QED
    BY <2>2, <2>4, <2>5, <2>7
<1>5. CASE ThereIn(now) = 0
  <2>1. \A i \in 1 .. Len(now) : ~Exists(now[i].target)
    BY <1>2, <1>5, ThereIs
  <2>2. ~Exists(r) /\ (~text.route => ~Exists(f))
    BY <1>2, <2>1
  <2>3. Resolve(now) = GoneFrom(now)
    BY <1>5 DEF Resolve
  <2>4. CASE GoneFrom(now) = 0
    BY <1>3, <2>2, <2>3, <2>4
  <2>5. CASE GoneFrom(now) # 0
    <3>1. PICK n : n = GoneFrom(now)
      OBVIOUS
    <3>2. /\ n \in 1 .. Len(now) /\ n # 0
          /\ \E i \in DOMAIN moves : IsAtOrUnder(now[n].target, moves[i].from)
      BY <1>2, <2>5, <3>1, GoneIs
    <3>3. PICK c : c = now[n]
      OBVIOUS
    <3>4. IsCandidate(c, text, file) /\ RewriteCitation(text, file) = Aim(text, file, c)
      BY <1>1, <1>3, <2>3, <3>1, <3>2, <3>3
    <3>. QED
      BY <2>2, <3>2, <3>3, <3>4
  <2>. QED
    BY <2>4, <2>5
<1>. QED
  BY <1>4, <1>5

(* What is written reaches the place the target will be at from where the      *)
(* surface will sit.                                                           *)
LEMMA AimReaches ==
  ASSUME NEW text \in Citations, NEW file \in Paths, NEW c, IsCandidate(c, text, file),
         moves \in Seq(Moved)
  PROVE  /\ Aim(text, file, c) \in Citations
         /\ Finds(Aim(text, file, c), MapThroughMoves(file, moves), MapThroughMoves(c.target, moves))
<1>1. 0 \in 0 .. Len(moves)
  BY MovesAre
<1>2. \A p \in Paths : MapThroughMoves(p, moves) \in Paths
  BY <1>1, MapInPaths, MapIsMapFrom
<1>3. c.target \in Paths
  BY TargetsArePaths DEF IsCandidate
<1>4. PICK next \in Paths : next = MapThroughMoves(c.target, moves)
  BY <1>2, <1>3
<1>5. PICK there \in Paths : there = MapThroughMoves(file, moves)
  BY <1>2
<1>6. PICK base : base = IF c.basis = "root" THEN Root ELSE DirnameOf(there)
  OBVIOUS
<1>7. base \in Paths
  BY <1>5, <1>6, DirnameIsPath, PlacesAssumption
<1>8. PICK e : e = Aim(text, file, c)
  OBVIOUS
<1>9. e = IF JoinPath(base, text.segs) = next THEN text ELSE Express(next, Form(text), base)
  BY <1>4, <1>5, <1>6, <1>8 DEF Aim
<1>10. e \in Citations /\ e.route = text.route /\ JoinPath(base, e.segs) = next
  <2>1. CASE JoinPath(base, text.segs) = next
    BY <1>9, <2>1
  <2>2. CASE JoinPath(base, text.segs) # next
    <3>1. e = Express(next, Form(text), base)
      BY <1>9, <2>2
    <3>2. e \in Citations /\ JoinPath(base, e.segs) = next /\ e.route = (Form(text) = "route")
      BY <1>4, <1>7, <3>1, ExpressReaches
    <3>. QED
      BY <3>2, FormIs
  <2>. QED
    BY <2>1, <2>2
<1>11. base = Root \/ (~e.route /\ base = DirnameOf(there))
  <2>1. "file" # "root"
    OBVIOUS
  <2>. QED
    BY <1>6, <1>10, <2>1 DEF IsCandidate
<1>12. Finds(e, there, next)
  BY <1>10, <1>11 DEF Finds
<1>. QED
  BY <1>4, <1>5, <1>8, <1>10, <1>12

RootStays == \A i \in DOMAIN moves : ~IsPrefix(moves[i].from, Root)

(* What the gate turns away: neither the surface moves nor anything its        *)
(* citation may be taken for.                                                  *)
LEMMA TurnedAway ==
  ASSUME NEW text \in Citations, NEW file \in Paths, NEW c, IsCandidate(c, text, file),
         moves \in Seq(Moved), RootStays, ~MayCitePathMoves(text, file)
  PROVE  /\ \A i \in DOMAIN moves : ~IsAtOrUnder(c.target, moves[i].from)
         /\ MapThroughMoves(file, moves) = file
         /\ MapThroughMoves(c.target, moves) = c.target
         /\ Aim(text, file, c) = text
<1>1. Len(moves) \in Nat /\ DOMAIN moves = 1 .. Len(moves)
  BY MovesAre
<1>2. \A i \in DOMAIN moves : moves[i].from \in Paths
  BY <1>1, MovesAre
<1>3. \A i \in DOMAIN moves : /\ ~IsAtOrUnder(file, moves[i].from)
                              /\ ~Contains(text.segs, Last(moves[i].from))
  BY DEF MayCitePathMoves
<1>4. text.segs \in Seq(PathParts) /\ DirnameOf(file) \in Paths /\ Root \in Paths
  BY TargetsArePaths
<1>5. ASSUME NEW i \in DOMAIN moves, NEW d \in Paths, ~IsPrefix(moves[i].from, d)
      PROVE  ~IsPrefix(moves[i].from, JoinPath(d, text.segs))
  <2>1. PICK from \in Paths : from = moves[i].from
    BY <1>2
  <2>2. from # <<>>
    <3>1. Len(<<>>) = 0 /\ Len(d) \in Nat /\ <<>> \in Paths
      BY EmptyIsPath, PathsAreSeqs
    <3>2. IsPrefix(<<>>, d)
      BY <3>1, PrefixReaches
    <3>. QED
      BY <1>5, <2>1, <3>2
  <2>. QED
    BY <1>3, <1>4, <1>5, <2>1, <2>2, SegmentSpelt
<1>6. \A i \in DOMAIN moves : ~IsPrefix(moves[i].from, DirnameOf(file))
  <2>. SUFFICES ASSUME NEW i \in DOMAIN moves, IsPrefix(moves[i].from, DirnameOf(file))
                PROVE  FALSE
    OBVIOUS
  <2>1. IsPrefix(DirnameOf(file), file)
    BY DirnameIsPath
  <2>2. IsPrefix(moves[i].from, file)
    BY <1>2, <1>4, <2>1, PrefixOfPrefix
  <2>. QED
    BY <1>3, <2>2 DEF IsAtOrUnder
<1>7. \A i \in DOMAIN moves : ~IsAtOrUnder(c.target, moves[i].from)
  BY <1>4, <1>5, <1>6 DEF IsCandidate, IsAtOrUnder, RootStays
<1>8. \A p : (\A i \in DOMAIN moves : ~IsAtOrUnder(p, moves[i].from)) => MapThroughMoves(p, moves) = p
  <2>. SUFFICES ASSUME NEW p, \A i \in DOMAIN moves : ~IsAtOrUnder(p, moves[i].from)
                PROVE  MapThroughMoves(p, moves) = p
    OBVIOUS
  <2>1. \A i \in 0 + 1 .. Len(moves) : ~IsAtOrUnder(p, moves[i].from)
    BY <1>1
  <2>. QED
    BY <2>1, MapUntaken, MapIsMapFrom
<1>9. MapThroughMoves(file, moves) = file /\ MapThroughMoves(c.target, moves) = c.target
  BY <1>3, <1>7, <1>8
<1>10. PICK base : base = IF c.basis = "root" THEN Root ELSE DirnameOf(file)
  OBVIOUS
<1>11. JoinPath(base, text.segs) = c.target
  <2>1. "file" # "root"
    OBVIOUS
  <2>. QED
    BY <1>10, <2>1 DEF IsCandidate
<1>12. Aim(text, file, c) = text
  BY <1>9, <1>10, <1>11 DEF Aim
<1>. QED
  BY <1>7, <1>9, <1>12

LEMMA GateTurnsNothingAway ==
  ASSUME NEW text \in Citations, NEW file \in Paths,
         moves \in Seq(Moved), RootStays, ~MayCitePathMoves(text, file)
  PROVE  RewriteCitation(text, file) = text
<1>1. \/ RewriteCitation(text, file) = text
      \/ \E c : IsCandidate(c, text, file) /\ RewriteCitation(text, file) = Aim(text, file, c)
  BY RuleChooses
<1>. QED
  BY <1>1, TurnedAway

LEMMA PlannedIs ==
  ASSUME NEW s, cites[s] \in Citations, place[s] \in Paths, moves \in Seq(Moved), RootStays
  PROVE  Planned(s) = RewriteCitation(cites[s], place[s]) /\ Planned(s) \in Citations
<1>1. cites[s] # NoCitation
  BY CitedAssumption
<1>2. Planned(s) = RewriteCitation(cites[s], place[s])
  BY <1>1, GateTurnsNothingAway DEF Planned
<1>3. \/ RewriteCitation(cites[s], place[s]) = cites[s]
      \/ \E c : /\ IsCandidate(c, cites[s], place[s])
                /\ RewriteCitation(cites[s], place[s]) = Aim(cites[s], place[s], c)
  BY RuleChooses
<1>4. RewriteCitation(cites[s], place[s]) \in Citations
  BY <1>3, AimReaches
<1>. QED
  BY <1>2, <1>4

(* What a citation lands on before the first move is what the rule takes it    *)
(* for, and what it then writes reaches where that goes.                       *)
LEMMA PlannedReaches ==
  ASSUME NEW s, cites[s] \in Citations, place[s] \in Paths, moves \in Seq(Moved), RootStays,
         Lands(s) # NoPlace
  PROVE  /\ Lands(s) \in Paths /\ Exists(Lands(s))
         /\ Finds(Planned(s), MapThroughMoves(place[s], moves), MapThroughMoves(Lands(s), moves))
<1>1. PICK text \in Citations : text = cites[s]
  OBVIOUS
<1>2. PICK file \in Paths : file = place[s]
  OBVIOUS
<1>3. PICK r \in Paths : r = JoinPath(Root, text.segs)
  BY <1>2, TargetsArePaths
<1>4. PICK f \in Paths : f = JoinPath(DirnameOf(file), text.segs)
  BY TargetsArePaths
<1>5. Lands(s) = IF ~text.route /\ Exists(f) THEN f ELSE IF Exists(r) THEN r ELSE NoPlace
  BY <1>1, <1>2, <1>3, <1>4, LandsOn
<1>6. /\ Lands(s) \in Paths /\ Exists(Lands(s))
      /\ Lands(s) = IF ~text.route /\ Exists(f) THEN f ELSE r
      /\ Exists(r) \/ (~text.route /\ Exists(f))
  BY <1>3, <1>4, <1>5
<1>7. Planned(s) = RewriteCitation(text, file)
  BY <1>1, <1>2, PlannedIs
<1>8. PICK c : /\ IsCandidate(c, text, file)
               /\ RewriteCitation(text, file) = Aim(text, file, c)
               /\ c.target = Lands(s)
  BY <1>3, <1>4, <1>6, RuleChooses
<1>9. Finds(Aim(text, file, c), MapThroughMoves(file, moves), MapThroughMoves(c.target, moves))
  BY <1>8, AimReaches
<1>. QED
  BY <1>1, <1>2, <1>6, <1>7, <1>8, <1>9

(* A citation that leads somewhere owes nothing once everything has moved.     *)
LEMMA PlannedOwesNothing ==
  ASSUME NEW s, cites[s] \in Citations, place[s] \in Paths, moves \in Seq(Moved), RootStays,
         NEW p, Exists(p), Finds(cites[s], place[s], p),
         \A q \in Paths : Exists(q) => \A i \in DOMAIN moves : ~IsAtOrUnder(q, moves[i].from),
         Exists(place[s])
  PROVE  Planned(s) = cites[s]
<1>1. PICK text \in Citations : text = cites[s]
  OBVIOUS
<1>2. PICK file \in Paths : file = place[s]
  OBVIOUS
<1>3. PICK r \in Paths : r = JoinPath(Root, text.segs)
  BY <1>2, TargetsArePaths
<1>4. PICK f \in Paths : f = JoinPath(DirnameOf(file), text.segs)
  BY TargetsArePaths
<1>5. Exists(r) \/ (~text.route /\ Exists(f))
  BY <1>1, <1>2, <1>3, <1>4 DEF Finds
<1>6. CASE RewriteCitation(text, file) = text
  BY <1>1, <1>2, <1>6, PlannedIs
<1>7. CASE RewriteCitation(text, file) # text
  <2>1. PICK c : /\ IsCandidate(c, text, file)
                 /\ RewriteCitation(text, file) = Aim(text, file, c)
                 /\ Exists(c.target)
    BY <1>3, <1>4, <1>5, <1>7, RuleChooses
  <2>2. c.target \in Paths
    BY <1>3, <1>4, <2>1 DEF IsCandidate
  <2>3. \A q \in Paths : Exists(q) => MapThroughMoves(q, moves) = q
    <3>. SUFFICES ASSUME NEW q \in Paths, Exists(q)
                  PROVE  MapThroughMoves(q, moves) = q
      OBVIOUS
    <3>1. Len(moves) \in Nat /\ DOMAIN moves = 1 .. Len(moves)
      BY MovesAre
    <3>2. \A i \in 0 + 1 .. Len(moves) : ~IsAtOrUnder(q, moves[i].from)
      BY <3>1
    <3>. QED
      BY <3>2, MapUntaken, MapIsMapFrom
  <2>4. MapThroughMoves(c.target, moves) = c.target /\ MapThroughMoves(file, moves) = file
    BY <1>2, <2>1, <2>2, <2>3
  <2>5. PICK base : base = IF c.basis = "root" THEN Root ELSE DirnameOf(file)
    OBVIOUS
  <2>6. JoinPath(base, text.segs) = c.target
    <3>1. "file" # "root"
      OBVIOUS
    <3>. QED
      BY <2>1, <2>5, <3>1 DEF IsCandidate
  <2>7. Aim(text, file, c) = text
    BY <2>4, <2>5, <2>6 DEF Aim
  <2>. QED
    BY <1>7, <2>1, <2>7
<1>. QED
  BY <1>6, <1>7

-----------------------------------------------------------------------------
(* Moves among what is there. *)

Closed == \A p \in Paths : Exists(p) => Parents(p) \subseteq folders

LEMMA NothingUnder ==
  ASSUME Closed, NEW d \in Paths, ~Exists(d), NEW p \in Paths, Exists(p)
  PROVE  ~IsPrefix(d, p)
<1>1. ASSUME IsPrefix(d, p)
      PROVE  FALSE
  <2>1. d # p
    BY DEF Exists
  <2>2. d \in Parents(p)
    BY <1>1, <2>1, ParentsLead
  <2>3. d \in folders
    BY <2>2 DEF Closed
  <2>. QED
    BY <2>3 DEF Exists
<1>. QED
  BY <1>1

LEMMA ThereAre ==
  ASSUME place \in [Surfaces -> Paths], folders \subseteq Paths
  PROVE  \A p : Exists(p) => p \in Paths
BY DEF Exists

LEMMA ThereAfter ==
  ASSUME place \in [Surfaces -> Paths], NEW m, Carried(m)
  PROVE  /\ \A s \in Surfaces : place'[s] = Carry(place[s], m)
         /\ \A q : Exists(q)' <=> (\E p : Exists(p) /\ q = Carry(p, m)) \/ q \in Parents(m.to)
<1>1. /\ place' = [s \in Surfaces |-> Carry(place[s], m)]
      /\ folders' = {Carry(p, m) : p \in folders} \cup Parents(m.to)
  BY DEF Carried
<1>2. \A q : q \in folders' <=> (\E p \in folders : q = Carry(p, m)) \/ q \in Parents(m.to)
  BY <1>1
<1>3. \A s \in Surfaces : place'[s] = Carry(place[s], m)
  BY <1>1
<1>4. \A q : (\E s \in Surfaces : place'[s] = q) <=> \E s \in Surfaces : Carry(place[s], m) = q
  BY <1>3
<1>5. \A q : Exists(q)' <=> q \in folders' \/ \E s \in Surfaces : place'[s] = q
  BY DEF Exists
<1>. QED
  BY <1>2, <1>3, <1>4, <1>5 DEF Exists

(* A move to a free place leaves what is there in directories that are there   *)
(* and brings no two surfaces together.                                        *)
LEMMA CarriedKeeps ==
  ASSUME place \in [Surfaces -> Paths], folders \subseteq Paths, Closed, IsInjective(place),
         NEW m \in Moved, ~Exists(m.to), Carried(m)
  PROVE  /\ place' \in [Surfaces -> Paths] /\ folders' \subseteq Paths
         /\ Closed' /\ IsInjective(place')
<1>1. m.from \in Paths /\ m.to \in Paths
  BY DEF Moved
<1>2. \A p \in Paths : Carry(p, m) \in Paths
  BY CarriedIsUnder DEF Carry
<1>3. /\ \A s \in Surfaces : place'[s] = Carry(place[s], m)
      /\ \A q : Exists(q)' <=> (\E p : Exists(p) /\ q = Carry(p, m)) \/ q \in Parents(m.to)
  BY ThereAfter
<1>4. /\ place' = [s \in Surfaces |-> Carry(place[s], m)]
      /\ folders' = {Carry(p, m) : p \in folders} \cup Parents(m.to)
  BY DEF Carried
<1>5. place' \in [Surfaces -> Paths]
  BY <1>2, <1>4
<1>6. folders' \subseteq Paths
  BY <1>1, <1>2, <1>4, ParentsLead
<1>7. ASSUME NEW p \in Paths, Exists(p)
      PROVE  ~IsPrefix(m.to, p)
  BY <1>1, <1>7, NothingUnder
<1>8. IsInjective(place')
  <2>1. DOMAIN place' = Surfaces /\ DOMAIN place = Surfaces
    BY <1>5
  <2>2. ASSUME NEW s \in Surfaces, NEW t \in Surfaces, place'[s] = place'[t]
        PROVE  s = t
    <3>1. PICK p \in Paths : p = place[s]
      OBVIOUS
    <3>2. PICK q \in Paths : q = place[t]
      OBVIOUS
    <3>3. Exists(p) /\ Exists(q) /\ Carry(p, m) = Carry(q, m)
      BY <1>3, <2>2, <3>1, <3>2 DEF Exists
    <3>4. p = q
      BY <1>7, <3>3, CarriedNotTogether
    <3>. QED
      BY <2>1, <3>1, <3>2, <3>4 DEF IsInjective
  <2>. QED
    BY <2>1, <2>2 DEF IsInjective
<1>9. ASSUME NEW q \in Paths, Exists(q)', NEW r \in Parents(q)
      PROVE  r \in folders'
  <2>1. r \in Paths /\ IsPrefix(r, q) /\ r # q
    BY ParentsLead
  <2>2. CASE q \in Parents(m.to)
    BY <1>1, <1>4, <2>2, ParentsOfParents
  <2>3. CASE \E p : Exists(p) /\ q = Carry(p, m)
    <3>1. PICK p \in Paths : Exists(p) /\ q = Carry(p, m)
      BY <2>3, ThereAre
    <3>2. Parents(p) \subseteq folders
      BY <3>1 DEF Closed
    <3>3. CASE ~IsAtOrUnder(p, m.from)
      <4>1. q = p
        BY <3>1, <3>3 DEF Carry
      <4>2. r \in folders
        BY <3>2, <4>1
      <4>3. ~IsAtOrUnder(r, m.from)
        BY <1>1, <2>1, <3>3, <4>1, PrefixOfPrefix DEF IsAtOrUnder
      <4>4. Carry(r, m) = r
        BY <4>3 DEF Carry
      <4>. QED
        BY <1>4, <4>2, <4>4
    <3>4. CASE IsAtOrUnder(p, m.from)
      <4>1. \/ r \in Parents(m.to)
            \/ \E d \in Parents(p) : IsAtOrUnder(d, m.from) /\ r = Carry(d, m)
        BY <2>1, <3>1, <3>4, LeadsToCarried
      <4>. QED
        BY <1>4, <3>2, <4>1
    <3>. QED
      BY <3>3, <3>4
  <2>. QED
    BY <1>3, <1>9, <2>2, <2>3
<1>10. Closed'
  <2>1. \A q \in Paths : Exists(q)' => Parents(q) \subseteq folders'
    BY <1>9
  <2>. QED
    BY <2>1 DEF Closed
<1>. QED
  BY <1>5, <1>6, <1>8, <1>10

-----------------------------------------------------------------------------
(* The inductive invariant. *)

(* Where files sit, what they cite and what moves, whatever is asked for.      *)
RenameShapes ==
  /\ place \in [Surfaces -> Paths]
  /\ cites \in [Surfaces -> Citations \cup {NoCitation}]
  /\ \A s \in Surfaces : cites[s] = NoCitation <=> s \notin Citing
  /\ moves \in Plans \cup {<<>>} /\ made \in 0 .. Len(moves)

RenameTypes ==
  /\ RenameShapes
  /\ folders \subseteq Paths /\ IsInjective(place)
  /\ meant \in [Surfaces -> Paths \cup {NoPlace}]
  /\ todo \subseteq Citing /\ again \subseteq done /\ done \subseteq Citing
  /\ plans \in 0 .. MaxPlans /\ runs \in 0 .. MaxRuns
  /\ moves = <<>> => todo = {}

(* What leaves was not where a move goes to. *)
Onward == \A i, j \in DOMAIN moves : ~IsPrefix(moves[i].to, moves[j].from)

(* A run begins when each move has been made or can be, and none is made       *)
(* before it ends.                                                             *)
Underway == todo # {} => ResolvePathMoves

(* Of moves in order, one to come finds its place free and, unless an earlier  *)
(* one took it along, what it moves; of one that was made there is something   *)
(* where it went, unless an earlier one had taken it along.                    *)
TakenAlong(i) == \E k \in DOMAIN moves : k < i /\ IsPrefix(moves[k].from, moves[i].from)

Ahead == \A i \in DOMAIN moves : made < i => Free(moves[i].to)
Waiting == \A i \in DOMAIN moves : made < i =>
             \/ Exists(moves[i].from)
             \/ \E k \in DOMAIN moves : k <= made /\ IsPrefix(moves[k].from, moves[i].from)
Brought == \A i \in DOMAIN moves : i <= made => Exists(moves[i].to) \/ TakenAlong(i)

(* Before the first move a citation not yet rewritten lands where it did when  *)
(* the moves were asked for.                                                   *)
Owed == \A s \in Citing \ done : moves # <<>> /\ made = 0 => meant[s] = Lands(s)

(* What a citation led to is there, wherever the moves have left it so far.    *)
Sits == \A s \in Citing : meant[s] # NoPlace =>
          \E q \in Paths : Exists(q) /\ MapFrom(q, moves, made) = MapThroughMoves(meant[s], moves)

(* A rewritten citation leads, from where its surface will sit, to where that  *)
(* will be.                                                                    *)
Rewritten(s) ==
  Finds(cites[s], MapFrom(place[s], moves, made), MapThroughMoves(meant[s], moves))

Paid == \A s \in done \ again : meant[s] # NoPlace => Rewritten(s)

Orderly == Ahead /\ Waiting /\ Brought /\ Sits /\ Paid

RenameInv ==
  RenameTypes /\ Closed /\ Onward /\ Underway /\ Owed /\ (InOrder(moves) => Orderly)

LEMMA PlanIs ==
  ASSUME RenameShapes
  PROVE  /\ moves \in Seq(Moved) /\ RootStays
         /\ Len(moves) \in Nat /\ DOMAIN moves = 1 .. Len(moves) /\ made \in Nat
         /\ moves # <<>> => 0 < Len(moves)
         /\ \A i \in DOMAIN moves : moves[i].from \in Paths /\ moves[i].to \in Paths
<1>1. moves \in Plans \/ moves = <<>>
  BY DEF RenameShapes
<1>2. ASSUME moves \in Plans
      PROVE  moves \in Seq(Moved) /\ RootStays
  BY <1>2, PlansAssumption DEF Moved, RootStays
<1>3. ASSUME moves = <<>>
      PROVE  moves \in Seq(Moved) /\ RootStays
  <2>1. moves \in Seq(Moved) /\ DOMAIN moves = {}
    BY <1>3
  <2>. QED
    BY <2>1 DEF RootStays
<1>4. moves \in Seq(Moved)
  BY <1>1, <1>2, <1>3
<1>5. Len(moves) \in Nat /\ DOMAIN moves = 1 .. Len(moves)
  BY <1>4, MovesAre
<1>6. moves # <<>> => 0 < Len(moves)
  BY <1>4
<1>7. made \in Nat
  BY <1>5 DEF RenameShapes
<1>8. \A i \in DOMAIN moves : moves[i].from \in Paths /\ moves[i].to \in Paths
  BY <1>4, <1>5, MovesAre
<1>. QED
  BY <1>1, <1>2, <1>3, <1>4, <1>5, <1>6, <1>7, <1>8

LEMMA CitingIs ==
  ASSUME RenameShapes, NEW s \in Citing
  PROVE  s \in Surfaces /\ cites[s] \in Citations /\ place[s] \in Paths /\ Exists(place[s])
BY CitingAssumption DEF RenameTypes, RenameShapes, Exists

LEMMA LandsSomewhere ==
  ASSUME RenameShapes, NEW s \in Citing
  PROVE  /\ Lands(s) \in Paths \cup {NoPlace}
         /\ Lands(s) # NoPlace => Exists(Lands(s))
<1>1. s \in Surfaces /\ cites[s] \in Citations /\ place[s] \in Paths
  BY CitingIs
<1>2. PICK r \in Paths : r = JoinPath(Root, cites[s].segs)
  BY <1>1, TargetsArePaths
<1>3. PICK f \in Paths : f = JoinPath(DirnameOf(place[s]), cites[s].segs)
  BY <1>1, TargetsArePaths
<1>4. Lands(s) = IF ~cites[s].route /\ Exists(f) THEN f ELSE IF Exists(r) THEN r ELSE NoPlace
  BY <1>1, <1>2, <1>3, LandsOn
<1>. QED
  BY <1>4

LEMMA PlannedTypes ==
  ASSUME RenameShapes, NEW s \in Surfaces
  PROVE  /\ Planned(s) \in Citations \cup {NoCitation}
         /\ Planned(s) = NoCitation <=> s \notin Citing
<1>1. CASE s \in Citing
  <2>1. cites[s] \in Citations /\ place[s] \in Paths /\ moves \in Seq(Moved) /\ RootStays
    BY <1>1, CitingIs, PlanIs
  <2>2. Planned(s) \in Citations
    BY <2>1, PlannedIs
  <2>. QED
    BY <1>1, <2>2, CitedAssumption
<1>2. CASE s \notin Citing
  <2>1. cites[s] = NoCitation
    BY <1>2 DEF RenameTypes, RenameShapes
  <2>. QED
    BY <1>2, <2>1 DEF Planned
<1>. QED
  BY <1>1, <1>2

LEMMA SameThere ==
  ASSUME UNCHANGED <<place, folders>>
  PROVE  \A p : Exists(p)' <=> Exists(p)
BY DEF Exists

LEMMA SameLands ==
  ASSUME UNCHANGED <<place, folders>>, NEW s, cites'[s] = cites[s]
  PROVE  Lands(s)' = Lands(s)
BY DEF Lands, Exists, CitationCandidates, SelectInSeq

LEMMA SameRewritten ==
  ASSUME UNCHANGED <<place, folders, moves, made, meant>>, NEW s, cites'[s] = cites[s]
  PROVE  Rewritten(s)' <=> Rewritten(s)
BY DEF Rewritten, Finds

LEMMA NothingMoves ==
  ASSUME UNCHANGED <<place, folders, moves, made, meant>>
  PROVE  /\ Closed => Closed'
         /\ Onward => Onward'
         /\ ResolvePathMoves' <=> ResolvePathMoves
         /\ InOrder(moves)' <=> InOrder(moves)
         /\ Ahead /\ Waiting /\ Brought /\ Sits => Ahead' /\ Waiting' /\ Brought' /\ Sits'
<1>1. \A p : Exists(p)' <=> Exists(p)
  BY SameThere
<1>2. \A p : Free(p)' <=> Free(p)
  BY <1>1 DEF Free
<1>3. (Closed => Closed') /\ (Onward => Onward')
  BY <1>1 DEF Closed, Onward
<1>4. ResolvePathMoves' <=> ResolvePathMoves
  BY <1>1 DEF ResolvePathMoves
<1>5. InOrder(moves)' <=> InOrder(moves)
  BY DEF InOrder
<1>6. Ahead => Ahead'
  BY <1>2 DEF Ahead
<1>7. Waiting => Waiting'
  BY <1>1 DEF Waiting
<1>8. Brought => Brought'
  BY <1>1 DEF Brought, TakenAlong
<1>9. Sits => Sits'
  BY <1>1 DEF Sits
<1>. QED
  BY <1>3, <1>4, <1>5, <1>6, <1>7, <1>8, <1>9

LEMMA NothingHappens ==
  ASSUME UNCHANGED <<place, folders, cites, moves, made, done, again, meant>>,
         Closed, Onward, Owed, InOrder(moves) => Orderly
  PROVE  Closed' /\ Onward' /\ Owed' /\ (InOrder(moves)' => Orderly')
<1>1. Closed' /\ Onward'
  BY NothingMoves
<1>2. \A s : Lands(s)' = Lands(s)
  BY SameLands
<1>3. \A s : Rewritten(s)' <=> Rewritten(s)
  BY SameRewritten
<1>4. Owed'
  BY <1>2 DEF Owed
<1>5. Paid => Paid'
  BY <1>3 DEF Paid
<1>6. InOrder(moves)' => Orderly'
  BY <1>5, NothingMoves DEF Orderly
<1>. QED
  BY <1>1, <1>4, <1>6

(* When a run finds each move made, nothing is left where one came from.       *)
LEMMA NothingLeft ==
  ASSUME RenameTypes, Closed, Brought, made = Len(moves), ResolvePathMoves
  PROVE  \A q \in Paths : Exists(q) => \A i \in DOMAIN moves : ~IsAtOrUnder(q, moves[i].from)
<1>1. /\ Len(moves) \in Nat /\ DOMAIN moves = 1 .. Len(moves)
      /\ \A i \in DOMAIN moves : moves[i].from \in Paths /\ moves[i].to \in Paths
  BY PlanIs DEF RenameTypes
<1>. DEFINE Left == {i \in DOMAIN moves : Exists(moves[i].from)}
<1>2. ASSUME Left # {}
      PROVE  FALSE
  <2>1. Left \in SUBSET Nat
    BY <1>1
  <2>2. PICK n \in Left : \A i \in Left : n <= i
    <3>. HIDE DEF Left
    <3>. QED
      BY <1>2, <2>1, LeastOf
  <2>3. n \in DOMAIN moves /\ Exists(moves[n].from) /\ ~Exists(moves[n].to)
    BY DEF ResolvePathMoves
  <2>4. TakenAlong(n)
    BY <1>1, <2>3 DEF Brought
  <2>5. PICK k \in DOMAIN moves : k < n /\ IsPrefix(moves[k].from, moves[n].from)
    BY <2>4 DEF TakenAlong
  <2>6. Exists(moves[k].from)
    BY <1>1, <2>3, <2>5, NothingUnder
  <2>7. k \in Left /\ ~(n <= k)
    BY <1>1, <2>5, <2>6
  <2>. QED
    BY <2>2, <2>7
<1>3. \A i \in DOMAIN moves : ~Exists(moves[i].from)
  BY <1>2
<1>. QED
  BY <1>1, <1>3, NothingUnder DEF IsAtOrUnder

(* What is written first for a plan, before its first move, reaches.           *)
LEMMA FirstRewriting ==
  ASSUME RenameTypes, Owed, moves # <<>>, made = 0,
         NEW s \in Citing \ done, meant[s] # NoPlace
  PROVE  Finds(Planned(s), MapFrom(place[s], moves, made), MapThroughMoves(meant[s], moves))
<1>1. RenameShapes
  BY DEF RenameTypes
<1>2. moves \in Seq(Moved) /\ RootStays
  BY <1>1, PlanIs
<1>3. cites[s] \in Citations /\ place[s] \in Paths
  BY <1>1, CitingIs
<1>4. meant[s] = Lands(s) /\ Lands(s) # NoPlace
  BY DEF Owed
<1>5. Finds(Planned(s), MapThroughMoves(place[s], moves), MapThroughMoves(Lands(s), moves))
  BY <1>2, <1>3, <1>4, PlannedReaches
<1>6. MapThroughMoves(place[s], moves) = MapFrom(place[s], moves, made)
  BY <1>2, MapIsMapFrom
<1>. QED
  BY <1>4, <1>5, <1>6

LEMMA InitInv ==
  ASSUME RenameInit
  PROVE  RenameInv
<1>1. place \in [Surfaces -> Places] /\ IsInjective(place)
  BY DEF RenameInit
<1>2. place \in [Surfaces -> Paths]
  <2>1. Places \subseteq Paths
    BY PlacesAssumption
  <2>. QED
    BY <1>1, <2>1
<1>3. folders = UNION {Parents(place[s]) : s \in Surfaces}
  BY DEF RenameInit
<1>4. \A p : p \in folders <=> \E s \in Surfaces : p \in Parents(place[s])
  BY <1>3
<1>5. folders \subseteq Paths
  <2>1. \A s \in Surfaces : place[s] \in Paths
    BY <1>2
  <2>2. \A s \in Surfaces : \A p \in Parents(place[s]) : p \in Paths
    BY <2>1, ParentsLead
  <2>. QED
    BY <1>4, <2>2
<1>6. Closed
  <2>. SUFFICES ASSUME NEW p \in Paths, Exists(p), NEW r \in Parents(p)
                PROVE  r \in folders
    BY DEF Closed
  <2>1. CASE \E s \in Surfaces : place[s] = p
    BY <1>4, <2>1
  <2>2. CASE p \in folders
    <3>1. PICK s \in Surfaces : p \in Parents(place[s])
      BY <1>4, <2>2
    <3>2. place[s] \in Paths
      BY <1>2
    <3>3. r \in Parents(place[s])
      BY <3>1, <3>2, ParentsOfParents
    <3>. QED
      BY <1>4, <3>3
  <2>. QED
    BY <2>1, <2>2 DEF Exists
<1>7. RenameTypes
  <2>1. cites \in [Surfaces -> Citations \cup {NoCitation}]
    <3>1. cites \in [Surfaces -> Cited \cup {NoCitation}] /\ Cited \subseteq Citations
      BY CitedAssumption DEF RenameInit
    <3>. QED
      BY <3>1
  <2>2. \A s \in Surfaces : cites[s] = NoCitation <=> s \notin Citing
    BY DEF RenameInit
  <2>3. meant \in [Surfaces -> Paths \cup {NoPlace}]
    BY DEF RenameInit
  <2>4. moves = <<>> /\ made = 0 /\ todo = {} /\ again = {} /\ done = {} /\ plans = 0 /\ runs = 0
    BY DEF RenameInit
  <2>5. made \in 0 .. Len(moves)
    BY <2>4
  <2>6. plans \in 0 .. MaxPlans /\ runs \in 0 .. MaxRuns
    BY <2>4, RunsAssumption
  <2>. QED
    BY <1>1, <1>2, <1>5, <2>1, <2>2, <2>3, <2>4, <2>5, <2>6 DEF RenameTypes, RenameShapes
<1>8. moves = <<>> /\ DOMAIN moves = {} /\ done = {}
  BY DEF RenameInit
<1>9. Onward /\ Owed /\ Ahead /\ Waiting /\ Brought /\ Paid
  BY <1>8 DEF Onward, Owed, Ahead, Waiting, Brought, Paid
<1>11. Underway
  BY DEF RenameInit, Underway
<1>10. Sits
  <2>1. \A s \in Citing : meant[s] = NoPlace
    BY CitingAssumption DEF RenameInit
  <2>. QED
    BY <2>1 DEF Sits
<1>. QED
  BY <1>6, <1>7, <1>9, <1>10, <1>11 DEF RenameInv, Orderly

LEMMA AskInv ==
  ASSUME RenameInv, NEW ms \in Plans, Ask(ms)
  PROVE  RenameInv'
<1>1. RenameTypes /\ RenameShapes /\ Closed
  BY DEF RenameInv, RenameTypes
<1>2. /\ UNCHANGED <<place, folders, cites, todo>> /\ todo = {}
      /\ moves' = ms /\ made' = 0 /\ done' = {} /\ again' = {} /\ runs' = 0
      /\ plans < MaxPlans /\ plans' = plans + 1
      /\ meant' = [s \in Surfaces |-> IF s \in Citing THEN Lands(s) ELSE NoPlace]
      /\ \A i \in DOMAIN ms : Exists(ms[i].from) /\ Free(ms[i].to)
  BY DEF Ask
<1>3. \A p : Exists(p)' <=> Exists(p)
  BY <1>2, SameThere
<1>4. Closed'
  BY <1>1, <1>2, <1>3 DEF Closed
<1>5. RenameTypes'
  <2>1. meant' \in [Surfaces -> Paths \cup {NoPlace}]
    <3>1. \A s \in Citing : Lands(s) \in Paths \cup {NoPlace}
      BY <1>1, LandsSomewhere
    <3>. QED
      BY <1>2, <3>1
  <2>2. made' \in 0 .. Len(moves')
    <3>1. ms \in Seq([from : Paths, to : Paths])
      BY PlansAssumption
    <3>2. Len(ms) \in Nat
      BY <3>1
    <3>. QED
      BY <1>2, <3>2
  <2>3. plans' \in 0 .. MaxPlans
    BY <1>1, <1>2, RunsAssumption DEF RenameTypes, RenameShapes
  <2>4. runs' \in 0 .. MaxRuns
    BY <1>2, RunsAssumption
  <2>. QED
    BY <1>1, <1>2, <2>1, <2>2, <2>3, <2>4 DEF RenameTypes, RenameShapes
<1>6. Ahead' /\ Waiting'
  <2>1. \A p : Free(p)' <=> Free(p)
    BY <1>2, <1>3 DEF Free
  <2>. QED
    BY <1>2, <1>3, <2>1 DEF Ahead, Waiting
<1>7. Brought'
  <2>1. \A i \in DOMAIN ms : ~(i <= 0)
    <3>1. ms \in Seq([from : Paths, to : Paths])
      BY PlansAssumption
    <3>. QED
      BY <3>1
  <2>. QED
    BY <1>2, <2>1 DEF Brought
<1>11. Onward'
  <2>1. \A i \in DOMAIN ms : ms[i].from \in Paths /\ ms[i].to \in Paths
    <3>1. ms \in Seq(Moved)
      BY PlansAssumption DEF Moved
    <3>. QED
      BY <3>1, MovesAre
  <2>2. \A i, j \in DOMAIN ms : ~IsPrefix(ms[i].to, ms[j].from)
    BY <1>1, <1>2, <2>1, NothingUnder DEF Free
  <2>. QED
    BY <1>2, <2>2 DEF Onward
<1>12. Underway'
  BY <1>2 DEF Underway
<1>8. Owed'
  <2>1. \A s \in Citing : meant'[s] = Lands(s) /\ Lands(s)' = Lands(s)
    BY <1>2, SameLands, CitingAssumption
  <2>. QED
    BY <2>1 DEF Owed
<1>9. Paid'
  BY <1>2 DEF Paid
<1>10. Sits'
  <2>. SUFFICES ASSUME NEW s \in Citing, meant'[s] # NoPlace
                PROVE  \E q \in Paths : /\ Exists(q)'
                                       /\ MapFrom(q, ms, 0) = MapThroughMoves(meant'[s], ms)
    BY <1>2 DEF Sits
  <2>1. meant'[s] = Lands(s)
    BY <1>2, CitingAssumption
  <2>2. PICK q \in Paths : q = meant'[s] /\ Exists(q)
    BY <1>1, <2>1, LandsSomewhere
  <2>3. ms \in Seq(Moved)
    BY PlansAssumption DEF Moved
  <2>. QED
    BY <1>3, <2>2, <2>3, MapIsMapFrom
<1>. QED
  BY <1>4, <1>5, <1>6, <1>7, <1>8, <1>9, <1>10, <1>11, <1>12 DEF RenameInv, Orderly

LEMMA BeginsInv ==
  ASSUME RenameInv, RefactorBegins
  PROVE  RenameInv'
<1>1. RenameTypes /\ Closed /\ Onward /\ Owed /\ (InOrder(moves) => Orderly)
  BY DEF RenameInv
<1>2. /\ moves # <<>> /\ runs < MaxRuns /\ runs' = runs + 1 /\ todo' = Citing
      /\ ResolvePathMoves
      /\ UNCHANGED <<place, folders, cites, moves, made, done, again, meant, plans>>
  BY DEF RefactorBegins
<1>3. Closed' /\ Onward' /\ Owed' /\ (InOrder(moves)' => Orderly')
  BY <1>1, <1>2, NothingHappens
<1>4. RenameTypes'
  BY <1>1, <1>2, RunsAssumption DEF RenameTypes, RenameShapes
<1>5. Underway'
  BY <1>2, NothingMoves DEF Underway
<1>. QED
  BY <1>3, <1>4, <1>5 DEF RenameInv

LEMMA DiesInv ==
  ASSUME RenameInv, RefactorDies
  PROVE  RenameInv'
<1>1. RenameTypes /\ Closed /\ Onward /\ Owed /\ (InOrder(moves) => Orderly)
  BY DEF RenameInv
<1>2. /\ todo' = {}
      /\ UNCHANGED <<place, folders, cites, moves, made, done, again, meant, plans, runs>>
  BY DEF RefactorDies
<1>3. Closed' /\ Onward' /\ Owed' /\ (InOrder(moves)' => Orderly')
  BY <1>1, <1>2, NothingHappens
<1>4. RenameTypes' /\ Underway'
  BY <1>1, <1>2 DEF RenameTypes, RenameShapes, Underway
<1>. QED
  BY <1>3, <1>4 DEF RenameInv

LEMMA StutterInv ==
  ASSUME RenameInv, UNCHANGED renameVars
  PROVE  RenameInv'
<1>1. RenameTypes /\ Closed /\ Onward /\ Underway /\ Owed /\ (InOrder(moves) => Orderly)
  BY DEF RenameInv
<1>2. UNCHANGED <<place, folders, cites, moves, made, todo, done, again, meant, plans, runs>>
  BY DEF renameVars
<1>3. Closed' /\ Onward' /\ Owed' /\ (InOrder(moves)' => Orderly')
  BY <1>1, <1>2, NothingHappens
<1>4. RenameTypes'
  BY <1>1, <1>2 DEF RenameTypes, RenameShapes
<1>5. Underway'
  BY <1>1, <1>2, NothingMoves DEF Underway
<1>. QED
  BY <1>3, <1>4, <1>5 DEF RenameInv

LEMMA WritesInv ==
  ASSUME RenameInv, NEW s \in Surfaces, RefactorWrites(s)
  PROVE  RenameInv'
<1>1. /\ RenameTypes /\ RenameShapes /\ Closed /\ Onward /\ Underway /\ Owed
      /\ InOrder(moves) => Orderly
  BY DEF RenameInv, RenameTypes
<1>2. /\ s \in todo /\ todo' = todo \ {s} /\ cites' = [cites EXCEPT ![s] = Planned(s)]
      /\ done' = IF made = 0 THEN done \cup {s} ELSE done
      /\ again' = IF made < Len(moves) THEN again \cup (done \cap {s}) ELSE again
      /\ UNCHANGED <<place, folders, moves, made, meant, plans, runs>>
  BY DEF RefactorWrites, CameTo
<1>3. s \in Citing /\ moves # <<>>
  BY <1>1, <1>2 DEF RenameTypes, RenameShapes
<1>4. /\ moves \in Seq(Moved) /\ RootStays
      /\ Len(moves) \in Nat /\ DOMAIN moves = 1 .. Len(moves) /\ made \in Nat /\ 0 < Len(moves)
  BY <1>1, <1>3, PlanIs
<1>5. cites[s] \in Citations /\ place[s] \in Paths /\ Exists(place[s])
  BY <1>1, <1>3, CitingIs
<1>6. cites'[s] = Planned(s) /\ \A t \in Surfaces : t # s => cites'[t] = cites[t]
  BY <1>1, <1>2 DEF RenameTypes, RenameShapes
<1>7. /\ Closed' /\ Onward' /\ (InOrder(moves)' => InOrder(moves))
      /\ InOrder(moves) => Ahead' /\ Waiting' /\ Brought' /\ Sits'
  BY <1>1, <1>2, NothingMoves DEF Orderly
<1>11. ResolvePathMoves /\ Underway'
  BY <1>1, <1>2, NothingMoves DEF Underway
<1>8. RenameTypes'
  <2>1. Planned(s) \in Citations \cup {NoCitation} /\ (Planned(s) = NoCitation <=> s \notin Citing)
    BY <1>1, PlannedTypes
  <2>2. cites' \in [Surfaces -> Citations \cup {NoCitation}]
    BY <1>1, <1>2, <2>1 DEF RenameTypes, RenameShapes
  <2>3. \A t \in Surfaces : cites'[t] = NoCitation <=> t \notin Citing
    BY <1>1, <1>6, <2>1 DEF RenameTypes, RenameShapes
  <2>4. again' \subseteq done' /\ done' \subseteq Citing /\ todo' \subseteq Citing
    BY <1>1, <1>2, <1>3 DEF RenameTypes, RenameShapes
  <2>. QED
    BY <1>1, <1>2, <1>3, <2>2, <2>3, <2>4 DEF RenameTypes, RenameShapes
<1>9. Owed'
  <2>. SUFFICES ASSUME NEW t \in Citing \ done', moves # <<>>, made = 0
                PROVE  meant[t] = Lands(t)'
    BY <1>2 DEF Owed
  <2>1. t \notin done /\ t # s /\ t \in Surfaces
    BY <1>2, CitingAssumption
  <2>2. Lands(t)' = Lands(t)
    BY <1>2, <1>6, <2>1, SameLands
  <2>. QED
    BY <1>1, <2>1, <2>2 DEF Owed
<1>10. ASSUME Orderly
       PROVE  Paid'
  <2>. SUFFICES ASSUME NEW t \in done' \ again', meant[t] # NoPlace
                PROVE  Rewritten(t)'
    BY <1>2 DEF Paid
  <2>0. Paid /\ Sits /\ Brought
    BY <1>10 DEF Orderly
  <2>1. t \in Surfaces
    BY <1>8, CitingAssumption DEF RenameTypes, RenameShapes
  <2>2. CASE t # s
    <3>1. t \in done \ again
      BY <1>2, <2>2
    <3>2. Rewritten(t)' <=> Rewritten(t)
      BY <1>2, <1>6, <2>1, <2>2, SameRewritten
    <3>. QED
      BY <2>0, <3>1, <3>2 DEF Paid
  <2>3. CASE t = s /\ made = 0
    <3>1. s \notin done
      BY <1>2, <1>4, <2>3
    <3>5. Finds(cites'[s], MapFrom(place[s], moves, made), MapThroughMoves(meant[s], moves))
      BY <1>1, <1>3, <1>6, <2>3, <3>1, FirstRewriting
    <3>. QED
      BY <1>2, <2>3, <3>5 DEF Rewritten, Finds
  <2>4. CASE t = s /\ made # 0
    <3>1. s \in done \ again /\ ~(made < Len(moves))
      BY <1>2, <2>4
    <3>2. made = Len(moves)
      <4>1. made \in 0 .. Len(moves)
        BY <1>1 DEF RenameTypes, RenameShapes
      <4>2. \A k, n \in Nat : k \in 0 .. n /\ ~(k < n) => k = n
        OBVIOUS
      <4>. QED
        BY <1>4, <3>1, <4>1, <4>2
    <3>3. Rewritten(s)
      BY <2>0, <2>4, <3>1 DEF Paid
    <3>4. PICK to : to = MapThroughMoves(meant[s], moves)
      OBVIOUS
    <3>5. \A p : MapFrom(p, moves, made) = p
      BY <1>4, <3>2, MapAtEnd
    <3>6. Exists(to) /\ Finds(cites[s], place[s], to)
      BY <1>3, <2>0, <2>4, <3>3, <3>4, <3>5 DEF Rewritten, Sits
    <3>7. \A q \in Paths : Exists(q) => \A i \in DOMAIN moves : ~IsAtOrUnder(q, moves[i].from)
      BY <1>1, <1>11, <2>0, <3>2, NothingLeft
    <3>8. Planned(s) = cites[s]
      BY <1>4, <1>5, <3>6, <3>7, PlannedOwesNothing
    <3>9. Rewritten(s)' <=> Rewritten(s)
      BY <1>2, <1>6, <3>8, SameRewritten
    <3>. QED
      BY <2>4, <3>3, <3>9
  <2>. QED
    BY <2>2, <2>3, <2>4
<1>. QED
  BY <1>1, <1>7, <1>8, <1>9, <1>10, <1>11 DEF RenameInv, Orderly

(* Whatever move is made, or cannot be, what is there lies in directories that *)
(* are there and surfaces stay apart.                                          *)
LEMMA MoveKeeps ==
  ASSUME RenameTypes, Closed, MoveMade
  PROVE  /\ place' \in [Surfaces -> Paths] /\ folders' \subseteq Paths
         /\ Closed' /\ IsInjective(place')
<1>1. RenameShapes
  BY DEF RenameTypes
<1>2. /\ moves \in Seq(Moved)
      /\ Len(moves) \in Nat /\ DOMAIN moves = 1 .. Len(moves) /\ made \in Nat
  BY <1>1, PlanIs
<1>3. made + 1 \in 1 .. Len(moves)
  BY <1>2 DEF MoveMade
<1>4. PICK m \in Moved : m = moves[made + 1]
  BY <1>2, <1>3, MovesAre
<1>5. \/ Carried(m) /\ ~Exists(m.to)
      \/ UNCHANGED <<place, folders>>
  BY <1>4 DEF MoveMade, Free
<1>6. place \in [Surfaces -> Paths] /\ folders \subseteq Paths /\ IsInjective(place)
  BY DEF RenameTypes, RenameShapes
<1>7. CASE Carried(m) /\ ~Exists(m.to)
  BY <1>6, <1>7, CarriedKeeps
<1>8. CASE UNCHANGED <<place, folders>>
  <2>1. \A p : Exists(p)' <=> Exists(p)
    BY <1>8, SameThere
  <2>. QED
    BY <1>6, <1>8, <2>1 DEF Closed
<1>. QED
  BY <1>5, <1>7, <1>8

(* What a move in order does to what is there, also where nothing is to move.  *)
LEMMA OneMove ==
  ASSUME RenameInv, InOrder(moves), MoveMade
  PROVE  \E m \in Moved :
           /\ made + 1 \in DOMAIN moves /\ m = moves[made + 1]
           /\ Exists(m.from) => Exists(m.to)'
           /\ \A s \in Surfaces : place'[s] = Carry(place[s], m)
           /\ \A p \in Paths : Exists(p) => Exists(Carry(p, m))'
           /\ \A q : Exists(q)' => \/ \E p \in Paths : Exists(p) /\ q = Carry(p, m)
                                   \/ q \in Parents(m.to)
<1>1. RenameTypes /\ RenameShapes /\ Closed /\ Ahead
  BY DEF RenameInv, RenameTypes, Orderly
<1>2. /\ moves \in Seq(Moved)
      /\ Len(moves) \in Nat /\ DOMAIN moves = 1 .. Len(moves) /\ made \in Nat
  BY <1>1, PlanIs
<1>3. made + 1 \in DOMAIN moves /\ made < made + 1
  BY <1>2 DEF MoveMade
<1>4. PICK m \in Moved : m = moves[made + 1]
  BY <1>2, <1>3, MovesAre
<1>5. m.from \in Paths /\ m.to \in Paths /\ Free(m.to) /\ ~IsAtOrUnder(m.to, m.from)
  BY <1>1, <1>3, <1>4 DEF Moved, Ahead, InOrder, IsAtOrUnder
<1>6. IF Exists(m.from) THEN Carried(m) ELSE UNCHANGED <<place, folders>>
  BY <1>4, <1>5 DEF MoveMade
<1>7. place \in [Surfaces -> Paths] /\ folders \subseteq Paths
  BY <1>1 DEF RenameTypes, RenameShapes
<1>8. \A p : Exists(p) => p \in Paths
  BY <1>7, ThereAre
<1>9. CASE Exists(m.from)
  <2>1. /\ \A s \in Surfaces : place'[s] = Carry(place[s], m)
        /\ \A q : Exists(q)' <=> (\E p : Exists(p) /\ q = Carry(p, m)) \/ q \in Parents(m.to)
    BY <1>6, <1>7, <1>9, ThereAfter
  <2>2. \A p \in Paths : Exists(p) => Exists(Carry(p, m))'
    <3>. SUFFICES ASSUME NEW p \in Paths, Exists(p), NEW q, q = Carry(p, m)
                  PROVE  Exists(q)'
      OBVIOUS
    <3>. QED
      BY <2>1
  <2>3. Carry(m.from, m) = m.to
    <3>1. IsAtOrUnder(m.from, m.from)
      BY <1>5, PrefixOfItself DEF IsAtOrUnder
    <3>2. SubSeq(m.from, Len(m.from) + 1, Len(m.from)) = <<>>
      BY <1>5 DEF Paths
    <3>3. m.to \o <<>> = m.to
      BY <1>5 DEF Paths
    <3>. QED
      BY <3>1, <3>2, <3>3 DEF Carry
  <2>4. Exists(m.to)'
    <3>. SUFFICES ASSUME NEW q, q = m.to
                  PROVE  Exists(q)'
      OBVIOUS
    <3>. QED
      BY <1>9, <2>1, <2>3
  <2>5. \A q : Exists(q)' => \/ \E p \in Paths : Exists(p) /\ q = Carry(p, m)
                             \/ q \in Parents(m.to)
    BY <1>8, <2>1
  <2>. QED
    BY <1>3, <1>4, <2>1, <2>2, <2>4, <2>5
<1>10. CASE ~Exists(m.from)
  <2>1. UNCHANGED <<place, folders>>
    BY <1>6, <1>10
  <2>2. \A p : Exists(p)' <=> Exists(p)
    BY <2>1, SameThere
  <2>3. \A p \in Paths : Exists(p) => Carry(p, m) = p
    BY <1>1, <1>5, <1>10, NothingUnder DEF Carry, IsAtOrUnder
  <2>4. \A s \in Surfaces : place'[s] = Carry(place[s], m)
    <3>1. \A s \in Surfaces : place[s] \in Paths /\ Exists(place[s])
      BY <1>7 DEF Exists
    <3>. QED
      BY <2>1, <2>3, <3>1
  <2>5. ASSUME NEW p \in Paths, Exists(p)
        PROVE  Exists(Carry(p, m))'
    <3>1. PICK q : q = Carry(p, m)
      OBVIOUS
    <3>2. Exists(q)'
      BY <2>2, <2>3, <2>5, <3>1
    <3>. QED
      BY <3>1, <3>2
  <2>6. ASSUME NEW q, Exists(q)'
        PROVE  \E p \in Paths : Exists(p) /\ q = Carry(p, m)
    BY <1>8, <2>2, <2>3, <2>6
  <2>. QED
    BY <1>3, <1>4, <1>10, <2>4, <2>5, <2>6
<1>. QED
  BY <1>9, <1>10

(* A move in order keeps the moves to come, those made and the citations what  *)
(* they were.                                                                  *)
LEMMA OrderlyMove ==
  ASSUME RenameInv, InOrder(moves), MoveMade
  PROVE  Orderly'
<1>1. /\ RenameTypes /\ RenameShapes /\ Closed /\ Onward
      /\ Ahead /\ Waiting /\ Brought /\ Sits /\ Paid
  BY DEF RenameInv, RenameTypes, Orderly
<1>2. /\ made < Len(moves) /\ made' = made + 1
      /\ UNCHANGED <<cites, moves, todo, done, again, meant, plans, runs>>
  BY DEF MoveMade
<1>3. /\ moves \in Seq(Moved) /\ Apart(moves)
      /\ Len(moves) \in Nat /\ DOMAIN moves = 1 .. Len(moves) /\ made \in Nat
      /\ \A i \in DOMAIN moves : i \in Nat /\ moves[i].from \in Paths /\ moves[i].to \in Paths
  BY <1>1, PlanIs DEF Apart, Onward
<1>4. PICK m \in Moved :
        /\ made + 1 \in DOMAIN moves /\ m = moves[made + 1]
        /\ Exists(m.from) => Exists(m.to)'
        /\ \A s \in Surfaces : place'[s] = Carry(place[s], m)
        /\ \A p \in Paths : Exists(p) => Exists(Carry(p, m))'
        /\ \A q : Exists(q)' => \/ \E p \in Paths : Exists(p) /\ q = Carry(p, m)
                                \/ q \in Parents(m.to)
  BY OneMove
<1>5. m.from \in Paths /\ m.to \in Paths
  BY DEF Moved
<1>6. \A i \in DOMAIN moves :
        /\ ~IsPrefix(m.to, moves[i].from)
        /\ i <= made => ~IsPrefix(m.from, moves[i].to)
        /\ made + 1 < i => ~IsPrefix(m.to, moves[i].to) /\ ~IsPrefix(moves[i].to, m.to)
  <2>1. \A i \in DOMAIN moves : i <= made => i < made + 1
    BY <1>3
  <2>. QED
    BY <1>1, <1>4, <2>1 DEF InOrder, Onward
<1>7. Ahead'
  <2>. SUFFICES ASSUME NEW i \in DOMAIN moves, made + 1 < i
                PROVE  Free(moves[i].to)'
    BY <1>2 DEF Ahead
  <2>1. PICK to \in Paths : to = moves[i].to
    BY <1>3
  <2>2. made < i
    BY <1>3
  <2>3. ~Exists(to) /\ \A s \in Surfaces : ~IsPrefix(place[s], to)
    BY <1>1, <2>1, <2>2 DEF Ahead, Free
  <2>4. \A p \in Paths : IsAtOrUnder(p, m.from) => ~IsPrefix(Carry(p, m), to)
    <3>. SUFFICES ASSUME NEW p \in Paths, IsAtOrUnder(p, m.from), IsPrefix(Carry(p, m), to)
                  PROVE  FALSE
      OBVIOUS
    <3>1. Carry(p, m) \in Paths /\ IsPrefix(m.to, Carry(p, m))
      BY CarriedIsUnder
    <3>2. IsPrefix(m.to, to)
      BY <1>5, <3>1, PrefixOfPrefix
    <3>. QED
      BY <1>6, <2>1, <3>2
  <2>5. ~Exists(to)'
    <3>. SUFFICES ASSUME Exists(to)'
                  PROVE  FALSE
      OBVIOUS
    <3>1. CASE to \in Parents(m.to)
      BY <1>5, <1>6, <2>1, <3>1, ParentsLead
    <3>2. CASE \E p \in Paths : Exists(p) /\ to = Carry(p, m)
      <4>1. PICK p \in Paths : Exists(p) /\ to = Carry(p, m)
        BY <3>2
      <4>2. IsAtOrUnder(p, m.from)
        BY <2>3, <4>1 DEF Carry
      <4>3. IsPrefix(Carry(p, m), to)
        BY <4>1, PrefixOfItself
      <4>. QED
        BY <2>4, <4>2, <4>3
    <3>. QED
      BY <1>4, <3>1, <3>2
  <2>6. ASSUME NEW s \in Surfaces
        PROVE  ~IsPrefix(place'[s], to)
    <3>1. place[s] \in Paths /\ place'[s] = Carry(place[s], m)
      BY <1>1, <1>4 DEF RenameShapes
    <3>2. CASE IsAtOrUnder(place[s], m.from)
      BY <2>4, <3>1, <3>2
    <3>3. CASE ~IsAtOrUnder(place[s], m.from)
      <4>1. place'[s] = place[s]
        BY <3>1, <3>3 DEF Carry
      <4>. QED
        BY <2>3, <4>1
    <3>. QED
      BY <3>2, <3>3
  <2>7. Free(to)'
    BY <2>5, <2>6 DEF Free
  <2>. QED
    BY <1>2, <2>1, <2>7
<1>8. Waiting'
  <2>. SUFFICES ASSUME NEW i \in DOMAIN moves, made + 1 < i
                PROVE  \/ Exists(moves[i].from)'
                       \/ \E k \in DOMAIN moves : k <= made + 1 /\ IsPrefix(moves[k].from, moves[i].from)
    BY <1>2 DEF Waiting
  <2>1. made < i
    BY <1>3
  <2>2. CASE \E k \in DOMAIN moves : k <= made /\ IsPrefix(moves[k].from, moves[i].from)
    <3>1. \A k \in DOMAIN moves : k <= made => k <= made + 1
      BY <1>3
    <3>. QED
      BY <2>2, <3>1
  <2>3. CASE Exists(moves[i].from) /\ IsPrefix(m.from, moves[i].from)
    <3>1. made + 1 <= made + 1
      BY <1>3
    <3>. QED
      BY <1>4, <2>3, <3>1
  <2>4. CASE Exists(moves[i].from) /\ ~IsPrefix(m.from, moves[i].from)
    <3>1. PICK p \in Paths : p = moves[i].from
      BY <1>3
    <3>2. Carry(p, m) = p /\ Exists(p)
      BY <2>4, <3>1 DEF Carry, IsAtOrUnder
    <3>3. Exists(p)'
      <4>1. Exists(Carry(p, m))'
        BY <1>4, <3>2
      <4>. QED
        BY <3>2, <4>1
    <3>. QED
      BY <1>2, <3>1, <3>3
  <2>. QED
    BY <1>1, <2>1, <2>2, <2>3, <2>4 DEF Waiting
<1>9. Brought'
  <2>. SUFFICES ASSUME NEW i \in DOMAIN moves, i <= made + 1
                PROVE  Exists(moves[i].to)' \/ TakenAlong(i)
    BY <1>2 DEF Brought, TakenAlong
  <2>1. CASE i <= made
    <3>1. PICK p \in Paths : p = moves[i].to
      BY <1>3
    <3>2. Carry(p, m) = p
      BY <1>6, <2>1, <3>1 DEF Carry, IsAtOrUnder
    <3>3. Exists(p) => Exists(p)'
      <4>1. Exists(p) => Exists(Carry(p, m))'
        BY <1>4
      <4>. QED
        BY <3>2, <4>1
    <3>. QED
      BY <1>1, <1>2, <2>1, <3>1, <3>3 DEF Brought
  <2>2. CASE i = made + 1 /\ Exists(m.from)
    BY <1>2, <1>4, <2>2
  <2>3. CASE i = made + 1 /\ ~Exists(m.from)
    <3>1. made < i
      BY <1>3, <2>3
    <3>2. PICK k \in DOMAIN moves : k <= made /\ IsPrefix(moves[k].from, moves[i].from)
      BY <1>1, <1>4, <2>3, <3>1 DEF Waiting
    <3>3. k < i
      BY <1>3, <2>3, <3>2
    <3>. QED
      BY <3>2, <3>3 DEF TakenAlong
  <2>4. i <= made \/ i = made + 1
    BY <1>3
  <2>. QED
    BY <2>1, <2>2, <2>3, <2>4
<1>10. \A p \in Paths : MapFrom(Carry(p, m), moves, made + 1) = MapFrom(p, moves, made)
  <2>1. made \in 0 .. Len(moves)
    BY <1>1 DEF RenameShapes
  <2>. QED
    BY <1>2, <1>3, <1>4, <2>1, MapStepwise
<1>11. Sits'
  <2>. SUFFICES ASSUME NEW s \in Citing, meant[s] # NoPlace
                PROVE  \E r \in Paths :
                         /\ Exists(r)'
                         /\ MapFrom(r, moves, made + 1) = MapThroughMoves(meant[s], moves)
    BY <1>2 DEF Sits
  <2>1. PICK q \in Paths :
          Exists(q) /\ MapFrom(q, moves, made) = MapThroughMoves(meant[s], moves)
    BY <1>1 DEF Sits
  <2>2. PICK r : r = Carry(q, m)
    OBVIOUS
  <2>3. r \in Paths
    BY <2>1, <2>2, CarriedIsUnder DEF Carry
  <2>4. Exists(r)'
    <3>1. Exists(Carry(q, m))'
      BY <1>4, <2>1
    <3>. QED
      BY <2>2, <3>1
  <2>. QED
    BY <1>10, <2>1, <2>2, <2>3, <2>4
<1>12. Paid'
  <2>. SUFFICES ASSUME NEW s \in done \ again, meant[s] # NoPlace
                PROVE  Rewritten(s)'
    BY <1>2 DEF Paid
  <2>1. Rewritten(s)
    BY <1>1 DEF Paid
  <2>2. s \in Surfaces /\ place[s] \in Paths
    BY <1>1, CitingAssumption DEF RenameTypes, RenameShapes
  <2>3. MapFrom(place'[s], moves, made + 1) = MapFrom(place[s], moves, made)
    BY <1>4, <1>10, <2>2
  <2>. QED
    BY <1>2, <2>1, <2>3 DEF Rewritten, Finds
<1>. QED
  BY <1>7, <1>8, <1>9, <1>11, <1>12 DEF Orderly

LEMMA MoveInv ==
  ASSUME RenameInv, MoveMade
  PROVE  RenameInv'
<1>1. RenameTypes /\ RenameShapes /\ Closed /\ Onward
  BY DEF RenameInv, RenameTypes
<1>2. /\ made < Len(moves) /\ made' = made + 1 /\ todo = {}
      /\ UNCHANGED <<cites, moves, todo, done, again, meant, plans, runs>>
  BY DEF MoveMade
<1>3. Len(moves) \in Nat /\ made \in Nat
  BY <1>1, PlanIs
<1>4. /\ place' \in [Surfaces -> Paths] /\ folders' \subseteq Paths
      /\ Closed' /\ IsInjective(place')
  BY <1>1, MoveKeeps
<1>5. RenameTypes'
  <2>1. made' \in 0 .. Len(moves')
    BY <1>2, <1>3
  <2>. QED
    BY <1>1, <1>2, <1>4, <2>1 DEF RenameTypes, RenameShapes
<1>6. Onward' /\ Underway' /\ (InOrder(moves)' => InOrder(moves))
  BY <1>1, <1>2 DEF Onward, Underway, InOrder
<1>7. Owed'
  <2>1. made' # 0
    BY <1>2, <1>3
  <2>. QED
    BY <2>1 DEF Owed
<1>. QED
  BY <1>4, <1>5, <1>6, <1>7, OrderlyMove DEF RenameInv

LEMMA WillRenameInv ==
  ASSUME RenameInv, WillRenameFiles
  PROVE  RenameInv'
<1>1. /\ RenameTypes /\ RenameShapes /\ Closed /\ Onward /\ Owed
      /\ InOrder(moves) => Orderly
  BY DEF RenameInv, RenameTypes
<1>2. /\ moves # <<>> /\ made = 0 /\ todo = {} /\ runs < MaxRuns /\ runs' = runs + 1
      /\ cites' = [s \in Surfaces |-> Planned(s)]
      /\ done' = IF made = 0 THEN done \cup Citing ELSE done
      /\ again' = IF made < Len(moves) THEN again \cup (done \cap Citing) ELSE again
      /\ UNCHANGED <<place, folders, moves, made, todo, meant, plans>>
  BY DEF WillRenameFiles, CameTo
<1>3. 0 < Len(moves)
  BY <1>1, <1>2, PlanIs
<1>4. done' = done \cup Citing /\ again' = again \cup (done \cap Citing)
  BY <1>2, <1>3
<1>5. /\ Closed' /\ Onward' /\ (InOrder(moves)' => InOrder(moves))
      /\ InOrder(moves) => Ahead' /\ Waiting' /\ Brought' /\ Sits'
  BY <1>1, <1>2, NothingMoves DEF Orderly
<1>6. RenameTypes'
  <2>1. \A s \in Surfaces : /\ Planned(s) \in Citations \cup {NoCitation}
                            /\ Planned(s) = NoCitation <=> s \notin Citing
    BY <1>1, PlannedTypes
  <2>2. cites' \in [Surfaces -> Citations \cup {NoCitation}]
    BY <1>2, <2>1
  <2>3. \A s \in Surfaces : cites'[s] = NoCitation <=> s \notin Citing
    BY <1>2, <2>1
  <2>4. again' \subseteq done' /\ done' \subseteq Citing
    BY <1>1, <1>4 DEF RenameTypes, RenameShapes
  <2>. QED
    BY <1>1, <1>2, <2>2, <2>3, <2>4, RunsAssumption DEF RenameTypes, RenameShapes
<1>7. Underway' /\ Owed'
  BY <1>2, <1>4 DEF Underway, Owed
<1>8. ASSUME Orderly
      PROVE  Paid'
  <2>. SUFFICES ASSUME NEW s \in done' \ again', meant[s] # NoPlace
                PROVE  Rewritten(s)'
    BY <1>2 DEF Paid
  <2>1. s \in Citing \ done /\ s \in Surfaces
    BY <1>1, <1>4, CitingAssumption DEF RenameTypes
  <2>2. Finds(Planned(s), MapFrom(place[s], moves, made), MapThroughMoves(meant[s], moves))
    BY <1>1, <1>2, <2>1, FirstRewriting
  <2>. QED
    BY <1>2, <2>1, <2>2 DEF Rewritten, Finds
<1>. QED
  BY <1>1, <1>5, <1>6, <1>7, <1>8 DEF RenameInv, Orderly

LEMMA NextInv ==
  ASSUME RenameInv, [RenameNext]_renameVars
  PROVE  RenameInv'
<1>1. ASSUME NEW ms \in Plans, Ask(ms)
      PROVE  RenameInv'
  BY <1>1, AskInv
<1>2. ASSUME NEW s \in Surfaces, RefactorWrites(s)
      PROVE  RenameInv'
  BY <1>2, WritesInv
<1>. QED
  BY <1>1, <1>2, BeginsInv, DiesInv, MoveInv, WillRenameInv, StutterInv DEF RenameNext

-----------------------------------------------------------------------------
(* Whatever plans are asked for, a rename keeps its invariant: what is there   *)
(* lies in directories that are there, a run only goes on while each move is   *)
(* made or can be, and, of moves in order, those to come find their place free *)
(* and what they move, and every citation is either as it was when the moves   *)
(* were asked for or written for after them.                                   *)
THEOREM RenameInvariant == RenameSpec => []RenameInv
<1>1. RenameInit => RenameInv
  BY InitInv
<1>2. RenameInv /\ [RenameNext]_renameVars => RenameInv'
  BY NextInv
<1>. QED
  BY <1>1, <1>2, PTL DEF RenameSpec

(* Whatever plans are asked for, surfaces stay apart and lie in directories    *)
(* that are there, whatever command or editor does.                            *)
THEOREM RenameTyped == RenameSpec => []RenameTypeOK
<1>1. RenameInv => RenameTypeOK
  <2>. SUFFICES ASSUME RenameInv
                PROVE  RenameTypeOK
    OBVIOUS
  <2>1. RenameTypes /\ RenameShapes /\ Closed
    BY DEF RenameInv, RenameTypes
  <2>2. \A s \in Surfaces : Parents(place[s]) \subseteq folders
    <3>1. \A s \in Surfaces : place[s] \in Paths /\ Exists(place[s])
      BY <2>1 DEF RenameShapes, Exists
    <3>. QED
      BY <2>1, <3>1 DEF Closed
  <2>. QED
    BY <2>1, <2>2 DEF RenameTypes, RenameShapes, RenameTypeOK
<1>. QED
  BY <1>1, RenameInvariant, PTL

(* What a citation led to is, once the moves are made in order, where          *)
(* mapThroughMoves puts it.                                                    *)
LEMMA MappedIsThere ==
  ASSUME RenameInv, made = Len(moves), InOrder(moves), NEW s \in Citing, meant[s] # NoPlace
  PROVE  /\ Exists(MapThroughMoves(meant[s], moves))
         /\ s \in done \ again => Finds(cites[s], place[s], MapThroughMoves(meant[s], moves))
<1>1. RenameTypes /\ RenameShapes /\ Sits /\ Paid
  BY DEF RenameInv, RenameTypes, Orderly
<1>2. moves \in Seq(Moved)
  BY <1>1, PlanIs
<1>3. \A p : MapFrom(p, moves, made) = p
  BY <1>2, MapAtEnd
<1>4. PICK to : to = MapThroughMoves(meant[s], moves)
  OBVIOUS
<1>5. Exists(to)
  BY <1>1, <1>3, <1>4 DEF Sits
<1>6. s \in done \ again => Finds(cites[s], place[s], to)
  BY <1>1, <1>3, <1>4 DEF Paid, Rewritten
<1>. QED
  BY <1>4, <1>5, <1>6

(* Once moves have been made in order, every citation that was rewritten for   *)
(* them once leads to where its target went; of plans whose moves are out of   *)
(* order the code keeps no such promise.                                       *)
THEOREM CitationsFollow == RenameSpec => []CitationsFollowTheirTargets
<1>1. RenameInv => CitationsFollowTheirTargets
  <2>. SUFFICES ASSUME RenameInv, made = Len(moves), InOrder(moves),
                       NEW s \in done \ again, meant[s] # NoPlace
                PROVE  MapThroughMoves(meant[s], moves) \in FoundAt(s)
    BY DEF CitationsFollowTheirTargets
  <2>1. RenameTypes /\ RenameShapes
    BY DEF RenameInv, RenameTypes
  <2>2. s \in Citing
    BY <2>1 DEF RenameTypes
  <2>3. cites[s] \in Citations /\ place[s] \in Paths
    BY <2>1, <2>2, CitingIs
  <2>4. PICK to : to = MapThroughMoves(meant[s], moves)
    OBVIOUS
  <2>5. Exists(to) /\ Finds(cites[s], place[s], to)
    BY <2>2, <2>4, MappedIsThere
  <2>6. to \in ToSet(CitationCandidates(cites[s], place[s]))
    BY <2>3, <2>5, FindsIs
  <2>. QED
    BY <2>4, <2>5, <2>6 DEF FoundAt
<1>. QED
  BY <1>1, RenameInvariant, PTL

(* After moves made in order a run of the command, if it begins at all, leaves *)
(* alone every citation that led somewhere and was rewritten for them once.    *)
THEOREM RunsAfterMoves == RenameSpec => RunAfterMovesOwesNothing
<1>1. RenameInv /\ RenameNext =>
        \A s \in Citing \ again :
          made = Len(moves) /\ InOrder(moves) /\ meant[s] # NoPlace => OwesNothing(s)
  <2>. SUFFICES ASSUME RenameInv, RenameNext, NEW s \in Citing \ again,
                       made = Len(moves), InOrder(moves), meant[s] # NoPlace, s \in done
                PROVE  cites'[s] = cites[s]
    BY DEF OwesNothing
  <2>1. RenameTypes /\ RenameShapes /\ Closed /\ Brought /\ Underway
    BY DEF RenameInv, RenameTypes, Orderly
  <2>2. /\ moves \in Seq(Moved) /\ RootStays
        /\ Len(moves) \in Nat /\ DOMAIN moves = 1 .. Len(moves)
        /\ moves # <<>> => 0 < Len(moves)
    BY <2>1, PlanIs
  <2>3. s \in Surfaces /\ cites[s] \in Citations /\ place[s] \in Paths /\ Exists(place[s])
    BY <2>1, CitingIs
  <2>4. ASSUME ResolvePathMoves
        PROVE  Planned(s) = cites[s]
    <3>1. PICK to : to = MapThroughMoves(meant[s], moves)
      OBVIOUS
    <3>2. Exists(to) /\ Finds(cites[s], place[s], to)
      BY <3>1, MappedIsThere
    <3>3. \A q \in Paths : Exists(q) => \A i \in DOMAIN moves : ~IsAtOrUnder(q, moves[i].from)
      BY <2>1, <2>4, NothingLeft
    <3>. QED
      BY <2>2, <2>3, <3>2, <3>3, PlannedOwesNothing
  <2>5. ASSUME NEW t \in Surfaces, RefactorWrites(t)
        PROVE  cites'[s] = cites[s]
    <3>1. /\ cites' = [cites EXCEPT ![t] = Planned(t)] /\ t \in todo
          /\ cites \in [Surfaces -> Citations \cup {NoCitation}]
      BY <2>1, <2>5 DEF RefactorWrites, RenameShapes
    <3>2. Planned(s) = cites[s]
      BY <2>1, <2>4, <3>1 DEF Underway
    <3>. QED
      BY <2>3, <3>1, <3>2
  <2>6. ~WillRenameFiles
    BY <2>2 DEF WillRenameFiles
  <2>7. ASSUME NEW ms \in Plans, Ask(ms)
        PROVE  cites'[s] = cites[s]
    BY <2>7 DEF Ask
  <2>8. ASSUME RefactorBegins \/ RefactorDies \/ MoveMade
        PROVE  cites'[s] = cites[s]
    BY <2>8 DEF RefactorBegins, RefactorDies, MoveMade
  <2>. QED
    BY <2>5, <2>6, <2>7, <2>8 DEF RenameNext
<1>. QED
  BY <1>1, RenameInvariant, PTL DEF RenameSpec, RunAfterMovesOwesNothing

(* Whatever is moved, in order or not, files stay at paths and citations stay     *)
(* such as can be written.                                                     *)
LEMMA ShapesKept == RenameSpec => []RenameShapes
<1>1. RenameInit => RenameShapes
  BY InitInv DEF RenameInv, RenameTypes
<1>2. RenameShapes /\ [RenameNext]_renameVars => RenameShapes'
  <2>. SUFFICES ASSUME RenameShapes, [RenameNext]_renameVars
                PROVE  RenameShapes'
    OBVIOUS
  <2>1. moves \in Seq(Moved) /\ Len(moves) \in Nat /\ DOMAIN moves = 1 .. Len(moves) /\ made \in Nat
    BY PlanIs
  <2>2. \A s \in Surfaces : /\ Planned(s) \in Citations \cup {NoCitation}
                            /\ Planned(s) = NoCitation <=> s \notin Citing
    BY PlannedTypes
  <2>3. ASSUME NEW m \in Moved, Carried(m)
        PROVE  place' \in [Surfaces -> Paths]
    <3>1. place' = [s \in Surfaces |-> Carry(place[s], m)]
      BY <2>3 DEF Carried
    <3>2. \A p \in Paths : Carry(p, m) \in Paths
      BY CarriedIsUnder DEF Carry
    <3>3. \A s \in Surfaces : Carry(place[s], m) \in Paths
      BY <3>2 DEF RenameShapes
    <3>. QED
      BY <3>1, <3>3
  <2>4. ASSUME NEW ms \in Plans, Ask(ms)
        PROVE  RenameShapes'
    <3>1. ms \in Seq([from : Paths, to : Paths])
      BY PlansAssumption
    <3>2. 0 \in 0 .. Len(ms)
      BY <3>1
    <3>. QED
      BY <2>4, <3>2 DEF Ask, RenameShapes
  <2>5. ASSUME NEW s \in Surfaces, RefactorWrites(s)
        PROVE  RenameShapes'
    <3>1. /\ cites' = [cites EXCEPT ![s] = Planned(s)]
          /\ UNCHANGED <<place, moves, made>>
      BY <2>5 DEF RefactorWrites
    <3>2. cites' \in [Surfaces -> Citations \cup {NoCitation}]
      BY <2>2, <3>1 DEF RenameShapes
    <3>3. \A t \in Surfaces : cites'[t] = NoCitation <=> t \notin Citing
      BY <2>2, <3>1 DEF RenameShapes
    <3>. QED
      BY <3>1, <3>2, <3>3 DEF RenameShapes
  <2>6. ASSUME MoveMade
        PROVE  RenameShapes'
    <3>1. made < Len(moves) /\ made' = made + 1 /\ UNCHANGED <<cites, moves>>
      BY <2>6 DEF MoveMade
    <3>2. made' \in 0 .. Len(moves')
      BY <2>1, <3>1
    <3>3. place' \in [Surfaces -> Paths]
      <4>1. made + 1 \in 1 .. Len(moves)
        BY <2>1, <3>1
      <4>2. PICK m \in Moved : m = moves[made + 1]
        BY <2>1, <4>1, MovesAre
      <4>3. Carried(m) \/ UNCHANGED <<place, folders>>
        BY <2>6, <4>2 DEF MoveMade
      <4>. QED
        BY <2>3, <4>3 DEF RenameShapes
    <3>. QED
      BY <3>1, <3>2, <3>3 DEF RenameShapes
  <2>7. ASSUME WillRenameFiles
        PROVE  RenameShapes'
    <3>1. cites' = [s \in Surfaces |-> Planned(s)] /\ UNCHANGED <<place, moves, made>>
      BY <2>7 DEF WillRenameFiles
    <3>. QED
      BY <2>2, <3>1 DEF RenameShapes
  <2>8. ASSUME RefactorBegins \/ RefactorDies \/ UNCHANGED renameVars
        PROVE  RenameShapes'
    <3>1. UNCHANGED <<place, cites, moves, made>>
      BY <2>8 DEF RefactorBegins, RefactorDies, renameVars
    <3>. QED
      BY <3>1 DEF RenameShapes
  <2>. QED
    BY <2>4, <2>5, <2>6, <2>7, <2>8 DEF RenameNext
<1>. QED
  BY <1>1, <1>2, PTL DEF RenameSpec

(* The gate turns away nothing the rule would rewrite, for any plan: a         *)
(* citation that reaches into a moved path from outside it spells the last     *)
(* segment of that path.                                                       *)
THEOREM GateHides == RenameSpec => []GateHidesNothing
<1>1. RenameShapes => GateHidesNothing
  <2>. SUFFICES ASSUME RenameShapes, NEW s \in Citing,
                       ~MayCitePathMoves(cites[s], place[s])
                PROVE  RewriteCitation(cites[s], place[s]) = cites[s]
    BY DEF GateHidesNothing
  <2>1. cites[s] \in Citations /\ place[s] \in Paths /\ moves \in Seq(Moved) /\ RootStays
    BY CitingIs, PlanIs
  <2>. QED
    BY <2>1, GateTurnsNothingAway
<1>. QED
  BY <1>1, ShapesKept, PTL
=============================================================================
