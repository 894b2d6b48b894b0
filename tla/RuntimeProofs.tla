----------------------------- MODULE RuntimeProofs -----------------------------
(* Beat caches, hot sessions and the register bank, for any number of keys,    *)
(* products, registers and lenses.                                             *)
EXTENDS MCRuntime, FiniteSetTheorems, SequenceTheorems,
        WellFoundedInduction, TLAPS

(* ------------------------------------------------------------------------ *)
(* What the operations of BeatPlane make of a plane.                         *)

(* Everything q holds it has from p. *)
Kept(q, p) == \A j \in DOMAIN q : j \in DOMAIN p /\ q[j].value = p[j].value

(* Everything q holds it has from p, but for v under k. *)
KeptBut(q, p, k, v) ==
  \A j \in DOMAIN q : \/ j = k /\ q[j].value = v
                      \/ j \in DOMAIN p /\ q[j].value = p[j].value

LEMMA WithoutKeeps ==
  ASSUME NEW p, IsPlane(p), NEW S
  PROVE  /\ IsPlane(Without(p, S)) /\ Kept(Without(p, S), p)
         /\ DOMAIN Without(p, S) = DOMAIN p \ S
         /\ \A k \in DOMAIN p \ S : Without(p, S)[k] = p[k]
         /\ Fresh(p) => Fresh(Without(p, S))
BY DEF IsPlane, Kept, Without, Fresh

LEMMA SweptKeeps ==
  ASSUME NEW p, IsPlane(p)
  PROVE  IsPlane(Swept(p)) /\ Kept(Swept(p), p) /\ Fresh(Swept(p))
<1> DEFINE S == {k \in DOMAIN p : Expired(p[k])}
<1>1. Swept(p) = Without(p, S)
  BY DEF Swept
<1>2. \A k \in DOMAIN p \ S : ~Expired(p[k])
  OBVIOUS
<1> HIDE DEF S
<1>3. Fresh(Without(p, S))
  BY <1>2, WithoutKeeps DEF Fresh
<1>4. IsPlane(Without(p, S)) /\ Kept(Without(p, S), p)
  BY WithoutKeeps
<1> QED
  BY <1>1, <1>3, <1>4

LEMMA TickedKeeps ==
  ASSUME NEW p, IsPlane(p), NEW n \in Nat
  PROVE  /\ IsPlane(Ticked(p, n)) /\ Kept(Ticked(p, n), p)
         /\ Fresh(p) \/ n # 0 => Fresh(Ticked(p, n))
<1>1. CASE n = 0
  BY <1>1 DEF Ticked, Kept
<1>2. CASE n # 0
  <2> DEFINE q == [k \in DOMAIN p |-> [p[k] EXCEPT !.age = @ + n]]
  <2>1. \A k \in DOMAIN p : p[k] \in Entry
    BY DEF IsPlane
  <2>2. ASSUME NEW e \in Entry
        PROVE  [e EXCEPT !.age = @ + n] \in Entry /\ [e EXCEPT !.age = @ + n].value = e.value
    BY DEF Entry
  <2>3. IsPlane(q) /\ Kept(q, p)
    BY <2>1, <2>2 DEF IsPlane, Kept
  <2>4. Ticked(p, n) = Swept(q)
    BY <1>2 DEF Ticked
  <2> HIDE DEF q
  <2>5. IsPlane(Swept(q)) /\ Kept(Swept(q), q) /\ Fresh(Swept(q))
    BY <2>3, SweptKeeps
  <2> QED
    BY <2>3, <2>4, <2>5 DEF Kept
<1> QED
  BY <1>1, <1>2

LEMMA TiersRise ==
  ASSUME NEW e \in Entry
  PROVE  /\ Hit(e) \in Entry /\ Hit(e).value = e.value /\ Hit(e).age = 0
         /\ Promoted(e) \in Entry /\ Promoted(e).value = e.value /\ Promoted(e).age = 0
<1>1. ASSUME NEW d \in Entry
      PROVE  Promoted(d) \in Entry /\ Promoted(d).value = d.value /\ Promoted(d).age = 0
  BY DEF Entry, Promoted, Warmer, Tiers
<1> DEFINE hits == IF e.hits < 3 THEN e.hits + 1 ELSE e.hits
           touched == [e EXCEPT !.age = 0, !.hits = hits]
<1>a. hits \in 0 .. 3
  BY DEF Entry
<1> HIDE DEF hits
<1>2. touched \in Entry /\ touched.value = e.value /\ touched.age = 0
  BY <1>a DEF Entry
<1>3. Hit(e) = IF touched.hits = 3 THEN Promoted(touched) ELSE touched
  BY DEF Hit, hits
<1> HIDE DEF touched
<1> QED
  BY <1>1, <1>2, <1>3

LEMMA YoungIsFresh == ASSUME NEW e \in Entry, e.age = 0 PROVE ~Expired(e)
BY TtlAssumption DEF Expired, Entry

LEMMA GotKeeps ==
  ASSUME NEW p, IsPlane(p), NEW k
  PROVE  /\ IsPlane(Got(p, k)) /\ Kept(Got(p, k), p) /\ DOMAIN Got(p, k) \subseteq DOMAIN p
         /\ Fresh(p) => Fresh(Got(p, k))
<1>1. CASE Finds(p, k)
  <2>1. k \in DOMAIN p /\ p[k] \in Entry
    BY <1>1 DEF Finds, IsPlane
  <2>2. Got(p, k) = [p EXCEPT ![k] = Hit(p[k])]
    BY <1>1 DEF Got
  <2>3. Hit(p[k]) \in Entry /\ Hit(p[k]).value = p[k].value /\ ~Expired(Hit(p[k]))
    BY <2>1, TiersRise, YoungIsFresh
  <2> QED
    BY <2>1, <2>2, <2>3 DEF IsPlane, Kept, Fresh
<1>2. CASE ~Finds(p, k)
  <2>1. Got(p, k) = Without(p, {k})
    BY <1>2 DEF Got
  <2>2. /\ IsPlane(Without(p, {k})) /\ Kept(Without(p, {k}), p)
        /\ DOMAIN Without(p, {k}) = DOMAIN p \ {k}
        /\ Fresh(p) => Fresh(Without(p, {k}))
    BY WithoutKeeps
  <2> QED
    BY <2>1, <2>2
<1> QED
  BY <1>1, <1>2

LEMMA PutKeeps ==
  ASSUME NEW p, IsPlane(p), NEW k \in CacheKeys, NEW v \in CacheValues, NEW tier \in Tiers
  PROVE  /\ IsPlane(Put(p, k, v, tier)) /\ KeptBut(Put(p, k, v, tier), p, k, v)
         /\ DOMAIN Put(p, k, v, tier) = DOMAIN p \cup {k}
         /\ Put(p, k, v, tier)[k].tier = tier /\ Put(p, k, v, tier)[k].age = 0
         /\ \A j \in DOMAIN p \ {k} : Put(p, k, v, tier)[j] = p[j]
         /\ Fresh(p) => Fresh(Put(p, k, v, tier))
<1> DEFINE e == [value |-> v, tier |-> tier, age |-> 0, hits |-> 0]
<1>1. e \in Entry /\ e.value = v /\ e.age = 0 /\ e.tier = tier
  BY DEF Entry
<1>2. ~Expired(e)
  BY <1>1, YoungIsFresh
<1>3. Put(p, k, v, tier) = [j \in DOMAIN p \cup {k} |-> IF j = k THEN e ELSE p[j]]
  BY DEF Put
<1> HIDE DEF e
<1> QED
  BY <1>1, <1>2, <1>3 DEF IsPlane, KeptBut, Fresh

LEMMA StoredKeeps ==
  ASSUME NEW p, IsPlane(p), NEW k \in CacheKeys, NEW v \in CacheValues, NEW tier \in Tiers,
         NEW q \in Stored(p, k, v, tier)
  PROVE  IsPlane(q) /\ KeptBut(q, p, k, v) /\ (Fresh(p) => Fresh(q))
<1> DEFINE put == Put(p, k, v, tier)
<1>1. IsPlane(put) /\ KeptBut(put, p, k, v) /\ (Fresh(p) => Fresh(put))
  BY PutKeeps
<1>2. q = put \/ \E j : q = Without(put, {j})
  BY DEF Stored
<1> HIDE DEF put
<1>3. CASE q = put
  BY <1>1, <1>3
<1>4. ASSUME NEW j, q = Without(put, {j}) PROVE IsPlane(q) /\ KeptBut(q, p, k, v) /\ (Fresh(p) => Fresh(q))
  <2>1. IsPlane(q) /\ Kept(q, put) /\ (Fresh(put) => Fresh(q))
    BY <1>1, <1>4, WithoutKeeps
  <2> QED
    BY <1>1, <2>1 DEF Kept, KeptBut
<1> QED
  BY <1>2, <1>3, <1>4

(* ------------------------------------------------------------------------ *)
(* A beat cache by itself.                                                   *)

(* Colder tiers live longer, so an entry moved down is as fresh as it was.     *)
LEMMA DemotedStaysFresh ==
  ASSUME NEW e \in Entry, e.tier # "cold", ~Expired(e)
  PROVE  LET lower == IF e.tier = "hot" THEN "warm" ELSE "cold"
             d     == [e EXCEPT !.tier = lower]
         IN  d \in Entry /\ d.value = e.value /\ ~Expired(d)
<1>1. Ttl["hot"] \in Nat /\ Ttl["warm"] \in Nat /\ Ttl["cold"] \in Nat
  BY TtlAssumption DEF Tiers
<1> QED
  BY <1>1, TiersAssumption DEF Entry, Expired, Tiers

CacheInv == CacheTypeOK /\ HeldIsFresh

LEMMA CacheStarts == CacheInit => CacheInv /\ DOMAIN plane = {}
BY DEF CacheInit, CacheInv, CacheTypeOK, IsPlane, HeldIsFresh, Fresh

LEMMA CacheInvStep ==
  ASSUME CacheInv, [CacheNext]_plane
  PROVE  CacheInv'
<1> USE DEF CacheInv, CacheTypeOK, HeldIsFresh
<1>1. ASSUME NEW n \in 0 .. MaxTick, Tick(n) PROVE CacheInv'
  <2>1. n \in Nat
    OBVIOUS
  <2> QED
    BY <1>1, <2>1, TickedKeeps DEF Tick
<1>2. ASSUME NEW k \in CacheKeys, Get(k) PROVE CacheInv'
  BY <1>2, GotKeeps DEF Get
<1>3. ASSUME NEW k \in CacheKeys, PromoteKey(k) PROVE CacheInv'
  <2>1. k \in DOMAIN plane /\ plane[k] \in Entry /\ plane' = [plane EXCEPT ![k] = Promoted(plane[k])]
    BY <1>3 DEF PromoteKey, IsPlane
  <2>2. Promoted(plane[k]) \in Entry /\ ~Expired(Promoted(plane[k]))
    BY <2>1, TiersRise, YoungIsFresh
  <2> QED
    BY <2>1, <2>2 DEF IsPlane, Fresh
<1>4. ASSUME NEW k \in CacheKeys, DemoteKey(k) PROVE CacheInv'
  <2>1. k \in DOMAIN plane /\ plane[k] \in Entry /\ ~Expired(plane[k])
    BY <1>4 DEF DemoteKey, IsPlane, Fresh
  <2>2. CASE plane[k].tier = "cold"
    <3>1. plane' = Without(plane, {k})
      BY <1>4, <2>2 DEF DemoteKey
    <3> QED
      BY <3>1, WithoutKeeps
  <2>3. CASE plane[k].tier # "cold"
    <3> DEFINE lower == IF plane[k].tier = "hot" THEN "warm" ELSE "cold"
               d == [plane[k] EXCEPT !.tier = lower]
    <3>1. plane[k].tier \in {"hot", "warm"}
      BY <2>1, <2>3 DEF Entry, Tiers
    <3>2. plane' = [plane EXCEPT ![k] = d]
      BY <1>4, <3>1 DEF DemoteKey
    <3>3. d \in Entry /\ ~Expired(d)
      BY <2>1, <2>3, DemotedStaysFresh
    <3> HIDE DEF d
    <3> QED
      BY <2>1, <3>2, <3>3 DEF IsPlane, Fresh
  <2> QED
    BY <2>2, <2>3
<1>5. ASSUME NEW k \in CacheKeys, Delete(k) PROVE CacheInv'
  BY <1>5, WithoutKeeps DEF Delete
<1>6. ASSUME NEW k \in CacheKeys, NEW v \in CacheValues, NEW tier \in Tiers, Set(k, v, tier)
      PROVE  CacheInv'
  BY <1>6, StoredKeeps DEF Set
<1>7. ASSUME NEW keys \in Groups, InvalidatePrefix(keys) PROVE CacheInv'
  BY <1>7, WithoutKeeps DEF InvalidatePrefix
<1>8. CASE Clear
  BY <1>8, WithoutKeeps DEF Clear
<1>9. CASE Sweep
  BY <1>9, SweptKeeps DEF Sweep
<1>10. CASE UNCHANGED plane
  BY <1>10
<1> QED
  BY <1>1, <1>2, <1>3, <1>4, <1>5, <1>6, <1>7, <1>8, <1>9, <1>10 DEF CacheNext

(* Entries keep their types, and none between two operations has outlived its  *)
(* tier, for any table of tiers in which colder ones live longer.              *)
THEOREM NothingOutlivesItsTier == CacheSpec => [](CacheTypeOK /\ HeldIsFresh)
<1>1. CacheInit => CacheInv
  BY CacheStarts
<1>2. CacheInv /\ [CacheNext]_plane => CacheInv'
  BY CacheInvStep
<1> QED
  BY <1>1, <1>2, PTL DEF CacheSpec, CacheInv

(* Only a set adds a key. *)
LEMMA OnlySetAdds ==
  ASSUME CacheTypeOK, [CacheNext]_plane
  PROVE  \/ DOMAIN plane' \subseteq DOMAIN plane
         \/ \E k \in CacheKeys, v \in CacheValues, tier \in Tiers : Set(k, v, tier)
<1> USE DEF CacheTypeOK
<1> DEFINE Less == DOMAIN plane' \subseteq DOMAIN plane
<1>1. ASSUME NEW n \in 0 .. MaxTick, Tick(n) PROVE Less
  <2>1. n \in Nat
    OBVIOUS
  <2>2. Kept(Ticked(plane, n), plane)
    BY <2>1, TickedKeeps
  <2> QED
    BY <1>1, <2>2 DEF Tick, Kept
<1>2. ASSUME NEW k \in CacheKeys, Get(k) PROVE Less
  BY <1>2, GotKeeps DEF Get
<1>3. ASSUME NEW k \in CacheKeys, PromoteKey(k) PROVE Less
  BY <1>3 DEF PromoteKey
<1>4. ASSUME NEW S, plane' = Without(plane, S) PROVE Less
  BY <1>4 DEF Without
<1>5. ASSUME NEW k \in CacheKeys, DemoteKey(k) PROVE Less
  <2>1. k \in DOMAIN plane /\ plane[k].tier \in {"hot", "warm", "cold"}
    BY <1>5 DEF DemoteKey, IsPlane, Entry, Tiers
  <2> QED
    BY <1>4, <1>5, <2>1 DEF DemoteKey
<1>6. ASSUME NEW k \in CacheKeys, Delete(k) PROVE Less
  BY <1>4, <1>6 DEF Delete
<1>7. ASSUME NEW keys \in Groups, InvalidatePrefix(keys) PROVE Less
  BY <1>4, <1>7 DEF InvalidatePrefix
<1>8. Clear => Less
  BY <1>4 DEF Clear
<1>9. Sweep => Less
  BY <1>4 DEF Sweep, Swept
<1> QED
  BY <1>1, <1>2, <1>3, <1>5, <1>6, <1>7, <1>8, <1>9 DEF CacheNext

(* A set adds one entry and, past the cap, removes one. *)
LEMMA StoredFits ==
  ASSUME NEW p, IsPlane(p), IsFiniteSet(DOMAIN p), Bounded(p),
         NEW k \in CacheKeys, NEW v \in CacheValues, NEW tier \in Tiers,
         NEW q \in Stored(p, k, v, tier)
  PROVE  IsFiniteSet(DOMAIN q) /\ Bounded(q)
<1> DEFINE put == Put(p, k, v, tier)
<1>1. DOMAIN put = DOMAIN p \cup {k} /\ IsPlane(put)
  BY PutKeeps
<1>2. /\ IsFiniteSet(DOMAIN put)
      /\ Cardinality(DOMAIN put) <= Cardinality(DOMAIN p) + 1
      /\ Cardinality(DOMAIN put) \in Nat /\ Cardinality(DOMAIN p) \in Nat
  <2>1. IsFiniteSet(DOMAIN p \cup {k}) /\ Cardinality(DOMAIN p) \in Nat
        /\ Cardinality(DOMAIN p \cup {k}) =
             IF k \in DOMAIN p THEN Cardinality(DOMAIN p) ELSE Cardinality(DOMAIN p) + 1
    BY FS_AddElement, FS_CardinalityType
  <2> QED
    BY <1>1, <2>1
<1>3. CASE Cardinality(DOMAIN put) > MaxEntries
  <2>1. PICK j \in Victims(put, k) : q = Without(put, {j})
    BY <1>3 DEF Stored
  <2>2. j \in DOMAIN put
    BY DEF Victims
  <2>3. DOMAIN q = DOMAIN put \ {j}
    BY <2>1 DEF Without
  <2>4. IsFiniteSet(DOMAIN q) /\ Cardinality(DOMAIN q) = Cardinality(DOMAIN put) - 1
    BY <1>2, <2>2, <2>3, FS_RemoveElement
  <2> QED
    BY <1>2, <2>4, MaxEntriesAssumption DEF Bounded
<1>4. CASE ~(Cardinality(DOMAIN put) > MaxEntries)
  <2>1. q = put
    BY <1>4 DEF Stored
  <2> QED
    BY <1>2, <1>4, <2>1, MaxEntriesAssumption DEF Bounded
<1> QED
  BY <1>3, <1>4

CacheFits == IsFiniteSet(DOMAIN plane) /\ SizeIsBounded

LEMMA CacheFitsAlways == CacheSpec => []CacheFits
<1>1. CacheInit => CacheInv /\ CacheFits
  <2> SUFFICES ASSUME CacheInit PROVE CacheInv /\ CacheFits
    OBVIOUS
  <2>1. CacheInv /\ DOMAIN plane = {}
    BY CacheStarts
  <2> QED
    BY <2>1, FS_EmptySet, MaxEntriesAssumption DEF CacheFits, SizeIsBounded, Bounded
<1>2. CacheInv /\ CacheFits /\ [CacheNext]_plane => (CacheInv /\ CacheFits)'
  <2> SUFFICES ASSUME CacheInv, CacheFits, [CacheNext]_plane
               PROVE  CacheInv' /\ CacheFits'
    OBVIOUS
  <2>1. CacheInv'
    BY CacheInvStep
  <2>2. CASE DOMAIN plane' \subseteq DOMAIN plane
    <3>1. /\ IsFiniteSet(DOMAIN plane') /\ Cardinality(DOMAIN plane') \in Nat
          /\ Cardinality(DOMAIN plane') <= Cardinality(DOMAIN plane)
          /\ Cardinality(DOMAIN plane) \in Nat
      BY <2>2, FS_Subset, FS_CardinalityType DEF CacheFits
    <3> QED
      BY <2>1, <3>1, MaxEntriesAssumption DEF CacheFits, SizeIsBounded, Bounded
  <2>3. ASSUME NEW k \in CacheKeys, NEW v \in CacheValues, NEW tier \in Tiers, Set(k, v, tier)
        PROVE  CacheFits'
    BY <2>3, StoredFits DEF CacheInv, CacheTypeOK, CacheFits, SizeIsBounded, Set
  <2> QED
    BY <2>1, <2>2, <2>3, OnlySetAdds DEF CacheInv
<1> QED
  BY <1>1, <1>2, PTL DEF CacheSpec

(* A cache never holds more than its cap, though every get and promotion goes  *)
(* by without an eviction and a set evicts one entry at most.                  *)
THEOREM CacheStaysBounded == CacheSpec => []SizeIsBounded
BY CacheFitsAlways, PTL DEF CacheFits

(* ------------------------------------------------------------------------ *)
(* What a set evicts.                                                        *)

LEMMA ColderIsAnOrder ==
  ASSUME NEW d \in Entry, NEW e \in Entry, NEW f \in Entry
  PROVE  /\ ~Colder(d, d)
         /\ Colder(d, e) /\ Colder(e, f) => Colder(d, f)
         /\ Rank(d.tier) \in 0 .. 2
<1>1. \A t \in Tiers : Rank(t) \in 0 .. 2
  BY DEF Rank, Tiers
<1>2. /\ Rank(d.tier) \in 0 .. 2 /\ Rank(e.tier) \in 0 .. 2 /\ Rank(f.tier) \in 0 .. 2
      /\ d.age \in Nat /\ e.age \in Nat /\ f.age \in Nat
  BY <1>1 DEF Entry
<1> QED
  BY <1>2 DEF Colder

(* Of finitely many entries at least as cold as r, one has nothing colder than *)
(* itself, unless something that is not among them is.                         *)
LEMMA SomeAreColdest ==
  ASSUME NEW p, IsPlane(p), IsFiniteSet(DOMAIN p), NEW B \in SUBSET DOMAIN p, B # {}
  PROVE  \E i \in B : \A j \in B : ~Colder(p[j], p[i])
<1> DEFINE Above(i) == {j \in B : Colder(p[j], p[i])}
           sizes == {Cardinality(Above(i)) : i \in B}
<1>1. IsFiniteSet(B)
  BY FS_Subset
<1>2. ASSUME NEW i \in B
      PROVE  IsFiniteSet(Above(i)) /\ Cardinality(Above(i)) \in Nat
  BY <1>1, FS_Subset, FS_CardinalityType
<1>3. sizes \subseteq Nat /\ sizes # {}
  BY <1>2
<1>4. PICK n \in sizes : \A m \in sizes : ~ (<<m, n>> \in OpToRel(<, Nat))
  <2> HIDE DEF sizes
  <2> QED
    BY <1>3, WFMin, NatLessThanWellFounded
<1>5. PICK i \in B : n = Cardinality(Above(i))
  OBVIOUS
<1>6. \A m \in sizes : ~(m < n)
  <2> HIDE DEF sizes
  <2> QED
    BY <1>3, <1>4 DEF OpToRel
<1>7. ASSUME NEW j \in B, Colder(p[j], p[i]) PROVE FALSE
  <2>1. p[i] \in Entry /\ p[j] \in Entry /\ \A k \in B : p[k] \in Entry
    BY DEF IsPlane
  <2>2. Above(j) \subseteq Above(i)
    BY <1>7, <2>1, ColderIsAnOrder
  <2>3. j \in Above(i) /\ j \notin Above(j)
    BY <1>7, <2>1, ColderIsAnOrder
  <2>4. Cardinality(Above(j)) <= Cardinality(Above(i)) /\ Cardinality(Above(j)) # Cardinality(Above(i))
    <3>1. IsFiniteSet(Above(i)) /\ Above(j) \in SUBSET Above(i) /\ Above(j) # Above(i)
      BY <1>2, <2>2, <2>3
    <3> HIDE DEF Above
    <3> QED
      BY <3>1, FS_Subset
  <2>5. Cardinality(Above(j)) \in sizes
    OBVIOUS
  <2>6. /\ Cardinality(Above(j)) \in Nat /\ Cardinality(Above(i)) \in Nat
        /\ ~(Cardinality(Above(j)) < Cardinality(Above(i)))
    BY <1>2, <1>5, <1>6, <2>5
  <2> HIDE DEF Above
  <2> QED
    BY <2>4, <2>6
<1> QED
  BY <1>7

(* The entry just set is evicted only where all others are of warmer tiers.    *)
LEMMA StoredIsReadable ==
  ASSUME NEW p, IsPlane(p), IsFiniteSet(DOMAIN p), Bounded(p),
         NEW k \in CacheKeys, NEW v \in CacheValues, NEW tier \in Tiers,
         NEW q \in Stored(p, k, v, tier), ~Finds(q, k)
  PROVE  /\ Cardinality(DOMAIN p) >= MaxEntries
         /\ \A j \in DOMAIN p : Rank(p[j].tier) < Rank(tier)
<1> DEFINE put == Put(p, k, v, tier)
<1>1. /\ IsPlane(put) /\ DOMAIN put = DOMAIN p \cup {k}
      /\ put[k].tier = tier /\ put[k].age = 0
      /\ \A j \in DOMAIN p \ {k} : put[j] = p[j]
  <2>1. IsPlane(put) /\ DOMAIN put = DOMAIN p \cup {k}
    <3>1. IsPlane(Put(p, k, v, tier))
      BY PutKeeps
    <3>2. DOMAIN put = DOMAIN p \cup {k}
      BY DEF Put
    <3> QED
      BY <3>1, <3>2
  <2>2. put[k].tier = tier /\ put[k].age = 0
    BY DEF Put
  <2>3. \A j \in DOMAIN p \ {k} : put[j] = p[j]
    BY DEF Put
  <2> QED
    BY <2>1, <2>2, <2>3
<1>2. /\ IsFiniteSet(DOMAIN put)
      /\ Cardinality(DOMAIN put) <= Cardinality(DOMAIN p) + 1
      /\ Cardinality(DOMAIN put) \in Nat /\ Cardinality(DOMAIN p) \in Nat
  <2>1. IsFiniteSet(DOMAIN p \cup {k}) /\ Cardinality(DOMAIN p) \in Nat
        /\ Cardinality(DOMAIN p \cup {k}) =
             IF k \in DOMAIN p THEN Cardinality(DOMAIN p) ELSE Cardinality(DOMAIN p) + 1
    BY FS_AddElement, FS_CardinalityType
  <2> QED
    BY <1>1, <2>1
<1>3. k \in DOMAIN put /\ put[k] \in Entry /\ ~Expired(put[k])
  BY <1>1, YoungIsFresh DEF IsPlane
<1>4. ~Finds(q, k) => q # put
  BY <1>3 DEF Finds
<1>5. Cardinality(DOMAIN put) > MaxEntries /\ \E j \in Victims(put, k) : q = Without(put, {j})
  BY <1>4 DEF Stored
<1>6. PICK victim \in Victims(put, k) : q = Without(put, {victim})
  BY <1>5
<1> DEFINE last == {j \in DOMAIN put : \A i \in DOMAIN put : ~Colder(put[i], put[j])}
<1>7. victim = k
  <2> SUFFICES ASSUME victim # k PROVE FALSE
    OBVIOUS
  <2>1. k \in DOMAIN q /\ q[k] = put[k]
    BY <1>1, <1>3, <1>6 DEF Without
  <2> QED
    BY <1>3, <2>1 DEF Finds
<1>8. last = {k}
  BY <1>7 DEF Victims
<1> HIDE DEF put
<1>9. ASSUME NEW j \in DOMAIN put, j # k, Rank(put[j].tier) >= Rank(tier) PROVE FALSE
  <2> DEFINE B == {i \in DOMAIN put : i # k /\ Rank(put[i].tier) >= Rank(tier)}
  <2>1. B \in SUBSET DOMAIN put /\ B # {}
    BY <1>9
  <2>2. PICK i \in B : \A m \in B : ~Colder(put[m], put[i])
    BY <1>1, <1>2, <2>1, SomeAreColdest
  <2>3. i \in DOMAIN put /\ i # k /\ Rank(put[i].tier) >= Rank(tier)
    BY <2>2
  <2>4. ASSUME NEW m \in DOMAIN put, Colder(put[m], put[i]) PROVE FALSE
    <3>1. /\ put[m] \in Entry /\ put[i] \in Entry
          /\ put[m].age \in Nat /\ put[i].age \in Nat
      BY <1>1, <2>3 DEF IsPlane, Entry
    <3>2. Rank(put[m].tier) \in 0 .. 2 /\ Rank(put[i].tier) \in 0 .. 2 /\ Rank(tier) \in 0 .. 2
      BY <1>1, <1>3, <3>1, ColderIsAnOrder
    <3>3. CASE m = k
      BY <1>1, <2>3, <2>4, <3>1, <3>2, <3>3 DEF Colder
    <3>4. CASE m # k
      <4>1. Rank(put[m].tier) >= Rank(tier)
        BY <2>3, <2>4, <3>2 DEF Colder
      <4> QED
        BY <2>2, <2>4, <3>4, <4>1
    <3> QED
      BY <3>3, <3>4
  <2>5. i \in last
    BY <2>3, <2>4
  <2> QED
    BY <1>8, <2>3, <2>5
<1>10. Cardinality(DOMAIN p) >= MaxEntries
  BY <1>2, <1>5, MaxEntriesAssumption DEF put
<1>11. k \notin DOMAIN p
  <2> SUFFICES ASSUME k \in DOMAIN p PROVE FALSE
    OBVIOUS
  <2>1. DOMAIN put = DOMAIN p
    BY <1>1
  <2> QED
    BY <1>2, <1>5, <2>1, MaxEntriesAssumption DEF Bounded, put
<1>12. ASSUME NEW j \in DOMAIN p PROVE Rank(p[j].tier) < Rank(tier)
  <2>1. j \in DOMAIN put /\ j # k /\ put[j] = p[j]
    BY <1>1, <1>11
  <2>2. put[j] \in Entry
    BY <1>1, <2>1 DEF IsPlane
  <2>3. Rank(put[j].tier) \in 0 .. 2 /\ Rank(tier) \in 0 .. 2
    BY <1>1, <1>3, <2>2, ColderIsAnOrder
  <2> QED
    BY <1>9, <2>1, <2>3
<1> QED
  BY <1>10, <1>12

(* What was just set can be read back, unless the cache is full of entries of  *)
(* warmer tiers, whatever has been held, hit, promoted and demoted before.     *)
THEOREM SetsAreReadable == CacheSpec => []SetIsReadable
<1>1. CacheTypeOK /\ CacheFits => SetIsReadable
  BY StoredIsReadable DEF CacheTypeOK, CacheFits, SizeIsBounded, SetIsReadable
<1>2. CacheSpec => [](CacheTypeOK /\ CacheFits)
  BY CacheFitsAlways, NothingOutlivesItsTier, PTL
<1> QED
  BY <1>1, <1>2, PTL

(* ------------------------------------------------------------------------ *)
(* Hot sessions: both planes hold products of their keys.                    *)

(* card is the product of a text that d prepares as it prepares s. *)
CardFor(card, s, d) ==
  \E t \in Sources : ProductKey(t, d) = ProductKey(s, d) /\ card = Product(t, d)

OfItsKey(p) ==
  \A k \in DOMAIN p : \E s \in Sources, d \in Dialects :
    k = ProductKey(s, d) /\ p[k].value = Product(s, d)

HoldsProducts(p) == IsPlane(p) /\ OfItsKey(p)

LEMMA KeptProducts ==
  ASSUME NEW p, NEW q, HoldsProducts(p), IsPlane(q), Kept(q, p)
  PROVE  HoldsProducts(q)
BY DEF HoldsProducts, OfItsKey, Kept

LEMMA StoredProducts ==
  ASSUME NEW p, HoldsProducts(p), NEW s \in Sources, NEW d \in Dialects,
         NEW q \in Stored(p, ProductKey(s, d), Product(s, d), Tier[d])
  PROVE  HoldsProducts(q)
<1>1. ProductKey(s, d) \in CacheKeys /\ Product(s, d) \in CacheValues /\ Tier[d] \in Tiers
  BY PlanesAssumption, DialectsAssumption
<1>2. IsPlane(q) /\ KeptBut(q, p, ProductKey(s, d), Product(s, d))
  BY <1>1, StoredKeeps DEF HoldsProducts
<1> QED
  BY <1>2 DEF HoldsProducts, OfItsKey, KeptBut

LEMMA GotProducts ==
  ASSUME NEW p, HoldsProducts(p), NEW k
  PROVE  HoldsProducts(Got(p, k))
BY KeptProducts, GotKeeps DEF HoldsProducts

LEMMA TickedProducts ==
  ASSUME NEW p, HoldsProducts(p), NEW n \in Nat
  PROVE  HoldsProducts(Ticked(p, n))
BY KeptProducts, TickedKeeps DEF HoldsProducts

LEMMA WithoutProducts ==
  ASSUME NEW p, HoldsProducts(p), NEW S
  PROVE  HoldsProducts(Without(p, S))
BY KeptProducts, WithoutKeeps DEF HoldsProducts

LEMMA BeatsAreCounted ==
  ASSUME NEW d \in Dialects
  PROVE  HitBeats(d) \in Nat /\ MissBeats(d) \in Nat
BY DialectsAssumption DEF HitBeats, MissBeats

LEMMA HeldCard ==
  ASSUME NEW p, HoldsProducts(p), NEW s \in Sources, NEW d \in Dialects,
         ProductKey(s, d) \in DOMAIN p
  PROVE  CardFor(p[ProductKey(s, d)].value, s, d)
<1>1. PICK t \in Sources, e \in Dialects :
        ProductKey(s, d) = ProductKey(t, e) /\ p[ProductKey(s, d)].value = Product(t, e)
  BY DEF HoldsProducts, OfItsKey
<1>2. e = d
  BY <1>1 DEF ProductKey
<1> QED
  BY <1>1, <1>2 DEF CardFor

LEMMA EvaluationsHoldProducts ==
  ASSUME NEW ev, HoldsProducts(ev), NEW s \in Sources, NEW d \in Dialects,
         NEW recompute \in BOOLEAN, NEW q \in Evaluations(ev, s, d, recompute)
  PROVE  HoldsProducts(q)
<1> DEFINE looked == IF recompute THEN ev ELSE Got(ev, ProductKey(s, d))
<1>1. HoldsProducts(looked)
  BY GotProducts
<1>2. q = looked \/ q \in Stored(looked, ProductKey(s, d), Product(s, d), Tier[d])
  BY DEF Evaluations
<1> HIDE DEF looked
<1> QED
  BY <1>1, <1>2, StoredProducts

SessionPlanes == HoldsProducts(cache) /\ HoldsProducts(inspectCache)

(* An inspection answers with a card of its text and leaves both planes well.  *)
LEMMA InspectionsAnswer ==
  ASSUME SessionPlanes, NEW s \in Sources, NEW d \in Dialects, NEW recompute \in BOOLEAN,
         NEW r \in Inspections(s, d, recompute)
  PROVE  /\ CardFor(r.card, s, d)
         /\ HoldsProducts(r.planes.cache) /\ HoldsProducts(r.planes.inspectCache)
<1> DEFINE key == ProductKey(s, d)
           reads == Remembers[d] /\ ~recompute
           looked == IF reads THEN Got(inspectCache, key) ELSE inspectCache
           kept == IF Remembers[d] THEN Stored(looked, key, Product(s, d), Tier[d]) ELSE {looked}
<1>1. HoldsProducts(looked)
  BY GotProducts DEF SessionPlanes
<1>2. HitBeats(d) \in Nat /\ MissBeats(d) \in Nat
  BY BeatsAreCounted
<1>3. CASE reads /\ Finds(inspectCache, key)
  <2>1. r = [card |-> inspectCache[key].value,
             planes |-> ClockTick(HitBeats(d), cache, looked)]
    BY <1>3 DEF Inspections
  <2>2. CardFor(inspectCache[key].value, s, d)
    BY <1>3, HeldCard DEF SessionPlanes, Finds
  <2> HIDE DEF looked, key
  <2> QED
    BY <1>1, <1>2, <2>1, <2>2, TickedProducts DEF SessionPlanes, ClockTick
<1>4. CASE ~(reads /\ Finds(inspectCache, key))
  <2>1. PICK p \in kept : r = [card |-> Product(s, d), planes |-> ClockTick(MissBeats(d), cache, p)]
    BY <1>4 DEF Inspections
  <2>2. HoldsProducts(p)
    <3> HIDE DEF looked
    <3> QED
      BY <1>1, StoredProducts
  <2>3. CardFor(Product(s, d), s, d)
    BY DEF CardFor
  <2> QED
    BY <1>2, <2>1, <2>2, <2>3, TickedProducts DEF SessionPlanes, ClockTick
<1> QED
  BY <1>3, <1>4

LEMMA CardsAreProducts ==
  ASSUME NEW card, NEW s \in Sources, NEW d \in Dialects, CardFor(card, s, d)
  PROVE  card \in Products /\ card.form \in Sources /\ card.dialect = d
BY DEF CardFor, Product, Products, Texts

HandleTypes == DOMAIN handles \subseteq Names /\ handles \in [DOMAIN handles -> Handle]
SessionInv == SessionPlanes /\ HandleTypes

LEMMA FilingTypes ==
  ASSUME HandleTypes, NEW h \in Handle, NEW names \in SUBSET Names, File(h, names)
  PROVE  HandleTypes'
BY DEF HandleTypes, File

LEMMA HandlesHaveNames ==
  ASSUME NEW h \in Handle
  PROVE  {RefName(h), PointerName(h), HashName(h)} \in SUBSET Names
BY DEF RefName, PointerName, HashName, Names, Handle

LEMMA SessionInvStep ==
  ASSUME SessionInv, [SessionNext]_sessionVars
  PROVE  SessionInv'
<1> USE DEF SessionInv
<1>a. (UNCHANGED handles) => HandleTypes'
  BY DEF HandleTypes
<1>1. ASSUME NEW n \in 1 .. MaxBeats, SessionTick(n) PROVE SessionInv'
  <2>1. n \in Nat
    OBVIOUS
  <2> QED
    BY <1>1, <1>a, <2>1, TickedProducts DEF SessionTick, SessionPlanes
<1>2. ASSUME NEW s \in Sources, NEW d \in Dialects, NEW recompute \in BOOLEAN,
             Evaluate(s, d, recompute)
      PROVE  SessionInv'
  BY <1>2, <1>a, EvaluationsHoldProducts DEF Evaluate, SessionPlanes
<1>3. ASSUME NEW s \in Sources, NEW d \in Dialects, NEW recompute \in BOOLEAN,
             Inspect(s, d, recompute)
      PROVE  SessionInv'
  BY <1>3, <1>a, InspectionsAnswer DEF Inspect, SessionPlanes
<1>4. ASSUME NEW s \in Sources, NEW d \in Dialects, NEW recompute \in BOOLEAN,
             Cite(s, d, recompute)
      PROVE  SessionInv'
  <2>1. PICK r \in Inspections(s, d, recompute) :
          LET h == [source |-> s, form |-> r.card.form, dialect |-> r.card.dialect,
                    card |-> r.card]
          IN  /\ cache' = r.planes.cache
              /\ inspectCache' = r.planes.inspectCache
              /\ File(h, {RefName(h), PointerName(h), HashName(h)})
    BY <1>4 DEF Cite
  <2> DEFINE h == [source |-> s, form |-> r.card.form, dialect |-> r.card.dialect,
                   card |-> r.card]
  <2>2. /\ CardFor(r.card, s, d)
        /\ HoldsProducts(r.planes.cache) /\ HoldsProducts(r.planes.inspectCache)
    BY InspectionsAnswer
  <2>3. h \in Handle
    BY <2>2, CardsAreProducts DEF Handle
  <2>4. File(h, {RefName(h), PointerName(h), HashName(h)})
    BY <2>1
  <2> HIDE DEF h
  <2>5. HandleTypes'
    BY <2>3, <2>4, HandlesHaveNames, FilingTypes
  <2> QED
    BY <2>1, <2>2, <2>5 DEF SessionPlanes
<1>5. ASSUME NEW name \in DOMAIN handles, NEW d \in Dialects,
             NEW recompute \in BOOLEAN, NEW run \in BOOLEAN, Follow(name, d, recompute, run)
      PROVE  SessionInv'
  <2> DEFINE h == handles[name]
  <2>1. h \in Handle /\ h.source \in Sources
    BY DEF HandleTypes, Handle
  <2>2. PICK r \in Inspections(h.source, d, recompute) :
          /\ cache' \in IF run THEN Evaluations(r.planes.cache, h.source, d, recompute)
                        ELSE {r.planes.cache}
          /\ inspectCache' = r.planes.inspectCache
          /\ File([h EXCEPT !.card = r.card], {PointerName(h)})
    BY <1>5 DEF Follow
  <2> HIDE DEF h
  <2>3. /\ CardFor(r.card, h.source, d)
        /\ HoldsProducts(r.planes.cache) /\ HoldsProducts(r.planes.inspectCache)
    BY <2>1, InspectionsAnswer
  <2>4. HoldsProducts(cache')
    BY <2>1, <2>2, <2>3, EvaluationsHoldProducts
  <2>5. [h EXCEPT !.card = r.card] \in Handle
    BY <2>1, <2>3, CardsAreProducts DEF Handle
  <2>6. {PointerName(h)} \in SUBSET Names
    BY <2>1, HandlesHaveNames
  <2>7. HandleTypes'
    BY <2>2, <2>5, <2>6, FilingTypes
  <2> QED
    BY <2>2, <2>3, <2>4, <2>7 DEF SessionPlanes
<1>6. CASE InvalidateAll
  <2>1. HandleTypes'
    BY <1>6 DEF InvalidateAll, HandleTypes
  <2> QED
    BY <1>6, <2>1, TickedProducts, ForgetAssumption DEF InvalidateAll, SessionPlanes
<1>7. ASSUME NEW text \in Texts, InvalidateContentHash(text) PROVE SessionInv'
  <2>1. HandleTypes'
    BY <1>7 DEF InvalidateContentHash, HandleTypes, Without
  <2> QED
    BY <1>7, <2>1, WithoutProducts DEF InvalidateContentHash, SessionPlanes
<1>8. CASE UNCHANGED sessionVars
  BY <1>8 DEF sessionVars, SessionPlanes, HandleTypes
<1> QED
  BY <1>1, <1>2, <1>3, <1>4, <1>5, <1>6, <1>7, <1>8 DEF SessionNext

LEMMA SessionStarts == SessionInit => SessionInv
BY DEF SessionInit, SessionInv, SessionPlanes, HoldsProducts, IsPlane, OfItsKey, HandleTypes

(* Types; and whatever a plane holds under a key is the product of a text that *)
(* is prepared to it, for any texts, dialects, caps and tables of tiers.       *)
THEOREM PlanesHoldProducts ==
  SessionSpec => [](SessionTypeOK /\ OfItsKey(cache) /\ OfItsKey(inspectCache))
<1>1. SessionInv /\ [SessionNext]_sessionVars => SessionInv'
  BY SessionInvStep
<1>2. SessionInv => SessionTypeOK /\ OfItsKey(cache) /\ OfItsKey(inspectCache)
  BY DEF SessionInv, SessionPlanes, HoldsProducts, HandleTypes, SessionTypeOK
<1> QED
  BY SessionStarts, <1>1, <1>2, PTL DEF SessionSpec

(* Under its key a plane holds what was made, under the key's dialect, of a    *)
(* text prepared to the key, whatever texts are prepared alike.                *)
THEOREM HitsAreOfAlikeTexts == SessionSpec => []HitIsOfAnAlikeText
<1>1. ASSUME NEW p, OfItsKey(p)
      PROVE  HeldFor(p)
  <2>. SUFFICES ASSUME NEW k \in DOMAIN p
                PROVE  /\ p[k].value.text = k.text /\ p[k].value.dialect = k.dialect
                       /\ Prepared[<<p[k].value.form, p[k].value.dialect>>] = k.text
    BY DEF HeldFor
  <2>1. PICK s \in Sources, d \in Dialects : k = ProductKey(s, d) /\ p[k].value = Product(s, d)
    BY <1>1 DEF OfItsKey
  <2>2. /\ k.text = Prepared[<<s, d>>] /\ k.dialect = d
        /\ p[k].value.text = Prepared[<<s, d>>]
        /\ p[k].value.form = s /\ p[k].value.dialect = d
    BY <2>1 DEF ProductKey, Product
  <2>. QED
    BY <2>2
<1>2. OfItsKey(cache) /\ OfItsKey(inspectCache) => HitIsOfAnAlikeText
  BY <1>1 DEF HitIsOfAnAlikeText
<1>. QED
  BY <1>2, PlanesHoldProducts, PTL

(* A card that answers for s under d is made, under d, of a text alike.        *)
LEMMA CardIsAlike ==
  ASSUME NEW card, NEW s \in Sources, NEW d \in Dialects, CardFor(card, s, d)
  PROVE  /\ card = Product(card.form, d) /\ card.form \in Sources /\ card.dialect = d
         /\ Alike(s, card.form, d)
BY DEF CardFor, ProductKey, Product, Alike

(* What HandlesKeepTheirText asks of the handle h under the name n.            *)
Keeps(n, h) ==
  /\ n.form = h.form
  /\ Alike(h.source, h.form, h.dialect)
  /\ Alike(h.source, h.card.form, h.card.dialect)
  /\ n.by # "pointer" => h.card = Product(h.form, h.dialect)

LEMMA FilingKeepsTexts ==
  ASSUME HandlesKeepTheirText, NEW h, NEW names, File(h, names), \A n \in names : Keeps(n, h)
  PROVE  HandlesKeepTheirText'
<1>. SUFFICES ASSUME NEW n \in DOMAIN handles'
              PROVE  Keeps(n, handles'[n])
  BY DEF HandlesKeepTheirText, Keeps
<1>1. n \in DOMAIN handles \cup names
      /\ handles'[n] = IF n \in names THEN h ELSE handles[n]
  BY DEF File
<1>2. CASE n \in names
  BY <1>1, <1>2
<1>3. CASE n \notin names
  BY <1>1, <1>3 DEF HandlesKeepTheirText, Keeps
<1>. QED
  BY <1>2, <1>3

LEMMA HandlesStayAlike ==
  ASSUME SessionInv, HandlesKeepTheirText, [SessionNext]_sessionVars
  PROVE  HandlesKeepTheirText'
<1>a. HandleTypes /\ SessionPlanes
  BY DEF SessionInv
<1>b. (UNCHANGED handles) => HandlesKeepTheirText'
  BY DEF HandlesKeepTheirText
<1>1. ASSUME NEW n \in 1 .. MaxBeats, SessionTick(n) PROVE HandlesKeepTheirText'
  BY <1>1, <1>b DEF SessionTick
<1>2. ASSUME NEW s \in Sources, NEW d \in Dialects, NEW recompute \in BOOLEAN,
             Evaluate(s, d, recompute) \/ Inspect(s, d, recompute)
      PROVE  HandlesKeepTheirText'
  BY <1>2, <1>b DEF Evaluate, Inspect
<1>3. ASSUME NEW s \in Sources, NEW d \in Dialects, NEW recompute \in BOOLEAN,
             Cite(s, d, recompute)
      PROVE  HandlesKeepTheirText'
  <2>1. PICK r \in Inspections(s, d, recompute) :
          LET h == [source |-> s, form |-> r.card.form, dialect |-> r.card.dialect,
                    card |-> r.card]
          IN  File(h, {RefName(h), PointerName(h), HashName(h)})
    BY <1>3 DEF Cite
  <2>. DEFINE h == [source |-> s, form |-> r.card.form, dialect |-> r.card.dialect,
                    card |-> r.card]
  <2>2. CardFor(r.card, s, d)
    BY <1>a, InspectionsAnswer
  <2>3. r.card = Product(r.card.form, d) /\ r.card.dialect = d /\ Alike(s, r.card.form, d)
    BY <2>2, CardIsAlike
  <2>4. ASSUME NEW n \in {RefName(h), PointerName(h), HashName(h)}
        PROVE  Keeps(n, h)
    <3>1. n.form = h.form
      BY DEF RefName, PointerName, HashName
    <3>2. h.source = s /\ h.form = r.card.form /\ h.dialect = d /\ h.card = r.card
      BY <2>3
    <3>. QED
      BY <2>3, <3>1, <3>2 DEF Keeps
  <2>5. File(h, {RefName(h), PointerName(h), HashName(h)})
    BY <2>1
  <2>. HIDE DEF h
  <2>. QED
    BY <2>4, <2>5, FilingKeepsTexts
<1>4. ASSUME NEW name \in DOMAIN handles, NEW d \in Dialects,
             NEW recompute \in BOOLEAN, NEW run \in BOOLEAN, Follow(name, d, recompute, run)
      PROVE  HandlesKeepTheirText'
  <2>. DEFINE h == handles[name]
  <2>1. h \in Handle /\ h.source \in Sources /\ Alike(h.source, h.form, h.dialect)
    BY <1>a DEF HandleTypes, Handle, HandlesKeepTheirText
  <2>2. PICK r \in Inspections(h.source, d, recompute) :
          File([h EXCEPT !.card = r.card], {PointerName(h)})
    BY <1>4 DEF Follow
  <2>. DEFINE g == [h EXCEPT !.card = r.card]
  <2>. HIDE DEF h
  <2>3. CardFor(r.card, h.source, d)
    BY <1>a, <2>1, InspectionsAnswer
  <2>4. r.card.dialect = d /\ Alike(h.source, r.card.form, d)
    BY <2>1, <2>3, CardIsAlike
  <2>5. /\ g.source = h.source /\ g.form = h.form /\ g.dialect = h.dialect /\ g.card = r.card
        /\ PointerName(h).form = g.form /\ PointerName(h).by = "pointer"
    BY <2>1 DEF Handle, PointerName
  <2>6. File(g, {PointerName(h)})
    BY <2>2
  <2>. HIDE DEF g
  <2>7. \A n \in {PointerName(h)} : Keeps(n, g)
    BY <2>1, <2>4, <2>5 DEF Keeps
  <2>. QED
    BY <2>6, <2>7, FilingKeepsTexts
<1>5. CASE InvalidateAll
  BY <1>5 DEF InvalidateAll, HandlesKeepTheirText
<1>6. ASSUME NEW text \in Texts, InvalidateContentHash(text) PROVE HandlesKeepTheirText'
  BY <1>6 DEF InvalidateContentHash, Without, HandlesKeepTheirText
<1>7. CASE UNCHANGED sessionVars
  BY <1>7, <1>b DEF sessionVars
<1>. QED
  BY <1>1, <1>2, <1>3, <1>4, <1>5, <1>6, <1>7 DEF SessionNext

(* A handle's names, source and card stay alike, however often it was followed *)
(* and whatever was evicted meanwhile.                                         *)
THEOREM HandlesStayWithTheirText == SessionSpec => []HandlesKeepTheirText
<1>1. SessionInit => HandlesKeepTheirText
  BY DEF SessionInit, HandlesKeepTheirText
<1>2. SessionInv /\ [SessionNext]_sessionVars => SessionInv'
  BY SessionInvStep
<1>3. SessionInv /\ HandlesKeepTheirText /\ [SessionNext]_sessionVars => HandlesKeepTheirText'
  BY HandlesStayAlike
<1>. QED
  BY SessionStarts, <1>1, <1>2, <1>3, PTL DEF SessionSpec

(* ------------------------------------------------------------------------ *)
(* The register bank.                                                         *)

LastFacetIsCurrent(c) ==
  IF c.facets = <<>> THEN c.current = NoPhase /\ ~c.evictable
  ELSE c.current = c.facets[Len(c.facets)]

CellsFit(cells) ==
  /\ DOMAIN cells \subseteq Registers
  /\ cells \in [DOMAIN cells -> Cell]
  /\ \A k \in DOMAIN cells : LastFacetIsCurrent(cells[k])

Dense(cells, edges) ==
  \A k \in DOMAIN cells : cells[k].density = Density(DOMAIN cells, edges[k])

EdgesFit(edges, held) ==
  /\ edges \in [Registers -> SUBSET Registers]
  /\ \A a, b \in Registers : b \in edges[a] => a \in edges[b] /\ a \in held /\ b \in held

Indexed(index, cells) ==
  /\ index \in [Lenses -> SUBSET Registers]
  /\ \A l \in Lenses : index[l] = {k \in DOMAIN cells : l \in cells[k].lenses}

(* The cells of old are all in new, with the lenses they had; new ones have none. *)
Grown(new, old) ==
  /\ DOMAIN old \subseteq DOMAIN new
  /\ \A k \in DOMAIN new : new[k].lenses = IF k \in DOMAIN old THEN old[k].lenses ELSE {}

BankInv ==
  /\ CellsFit(entries)
  /\ Dense(entries, couplingEdges)
  /\ EdgesFit(couplingEdges, Held)
  /\ Indexed(lensIndex, entries)
  /\ focusKey \in Held /\ DefaultKey \in Held

LEMMA DensitiesAre ==
  ASSUME NEW held \in SUBSET Registers, NEW peers \in SUBSET Registers
  PROVE  Density(held, peers) \in Densities
<1>1. IsFiniteSet(held) /\ IsFiniteSet(peers)
  BY RegistersAssumption, FS_Subset
<1>2. Cardinality(held) \in Nat /\ Cardinality(peers) \in Nat
  BY <1>1, FS_CardinalityType
<1> QED
  BY <1>2 DEF Density, Densities, Among

LEMMA FreshCellFits == FreshCell \in Cell /\ LastFacetIsCurrent(FreshCell) /\ FreshCell.lenses = {}
<1>1. <<>> \in Seq(Phases)
  BY EmptySeq
<1>2. <<0, 1>> \in Densities
  BY DEF Densities
<1>3. 0 \in Liminalities
  BY LiminalityAssumption DEF Liminalities
<1>4. FreshCell \in Cell
  BY <1>1, <1>2, <1>3 DEF FreshCell, Cell
<1> QED
  BY <1>4 DEF FreshCell, LastFacetIsCurrent

LEMMA RefreshedFits ==
  ASSUME NEW cells, CellsFit(cells), NEW edges \in [Registers -> SUBSET Registers]
  PROVE  /\ CellsFit(Refreshed(cells, edges)) /\ Dense(Refreshed(cells, edges), edges)
         /\ Grown(Refreshed(cells, edges), cells)
         /\ DOMAIN Refreshed(cells, edges) = DOMAIN cells
         /\ \A k \in DOMAIN cells : Refreshed(cells, edges)[k].liminality = cells[k].liminality
<1> DEFINE new == Refreshed(cells, edges)
<1>1. DOMAIN new = DOMAIN cells
  BY DEF Refreshed
<1>2. ASSUME NEW k \in DOMAIN cells
      PROVE  /\ new[k] \in Cell /\ LastFacetIsCurrent(new[k])
             /\ new[k].lenses = cells[k].lenses /\ new[k].liminality = cells[k].liminality
             /\ new[k].density = Density(DOMAIN cells, edges[k])
  <2> DEFINE d == Density(DOMAIN cells, edges[k])
  <2>1. d \in Densities
    BY DensitiesAre DEF CellsFit
  <2>2. cells[k] \in Cell /\ LastFacetIsCurrent(cells[k])
    BY DEF CellsFit
  <2>3. new[k] = [cells[k] EXCEPT !.density = d]
    BY DEF Refreshed
  <2> HIDE DEF new, d
  <2>4. new[k] \in Cell /\ new[k].density = d
    BY <2>1, <2>2, <2>3 DEF Cell
  <2>5. /\ new[k].lenses = cells[k].lenses /\ new[k].liminality = cells[k].liminality
        /\ new[k].facets = cells[k].facets /\ new[k].current = cells[k].current
        /\ new[k].evictable = cells[k].evictable
    BY <2>2, <2>3 DEF Cell
  <2> QED
    BY <2>2, <2>4, <2>5 DEF LastFacetIsCurrent, d
<1>3. new \in [DOMAIN cells -> Cell]
  BY <1>2 DEF Refreshed
<1> HIDE DEF new
<1>4. CellsFit(new)
  BY <1>1, <1>2, <1>3 DEF CellsFit
<1>5. Dense(new, edges) /\ Grown(new, cells)
  BY <1>1, <1>2 DEF Dense, Grown
<1> QED
  BY <1>1, <1>2, <1>4, <1>5 DEF new

LEMMA EnsuredFits ==
  ASSUME NEW cells, CellsFit(cells), NEW edges \in [Registers -> SUBSET Registers],
         Dense(cells, edges), NEW new \in SUBSET Registers
  PROVE  /\ CellsFit(Ensured(cells, new, edges)) /\ Dense(Ensured(cells, new, edges), edges)
         /\ Grown(Ensured(cells, new, edges), cells)
         /\ new \subseteq DOMAIN Ensured(cells, new, edges)
<1>1. CASE new \subseteq DOMAIN cells
  BY <1>1 DEF Ensured, Grown
<1>2. CASE ~(new \subseteq DOMAIN cells)
  <2> DEFINE all == [k \in DOMAIN cells \cup new |->
                       IF k \in DOMAIN cells THEN cells[k] ELSE FreshCell]
  <2>1. CellsFit(all) /\ Grown(all, cells)
    BY FreshCellFits DEF CellsFit, Grown
  <2>2. DOMAIN all = DOMAIN cells \cup new
    OBVIOUS
  <2>3. Ensured(cells, new, edges) = Refreshed(all, edges)
    BY <1>2 DEF Ensured
  <2> HIDE DEF all
  <2>4. CellsFit(Refreshed(all, edges)) /\ Dense(Refreshed(all, edges), edges)
    BY <2>1, RefreshedFits
  <2>5. Grown(Refreshed(all, edges), all) /\ DOMAIN Refreshed(all, edges) = DOMAIN all
    BY <2>1, RefreshedFits
  <2>6. Grown(Refreshed(all, edges), cells)
    BY <2>1, <2>5 DEF Grown
  <2> QED
    BY <2>2, <2>3, <2>4, <2>5, <2>6
<1> QED
  BY <1>1, <1>2

LEMMA GrownTwice ==
  ASSUME NEW p, NEW q, NEW r, Grown(q, p), Grown(r, q)
  PROVE  Grown(r, p)
BY DEF Grown

(* Another cell under a key it had, of the same density and lenses. *)
LEMMA TouchedFits ==
  ASSUME NEW cells, CellsFit(cells), NEW edges, Dense(cells, edges), NEW k \in DOMAIN cells,
         NEW c \in Cell, LastFacetIsCurrent(c), c.density = cells[k].density,
         c.lenses = cells[k].lenses
  PROVE  /\ CellsFit([cells EXCEPT ![k] = c]) /\ Dense([cells EXCEPT ![k] = c], edges)
         /\ Grown([cells EXCEPT ![k] = c], cells)
<1> DEFINE new == [cells EXCEPT ![k] = c]
<1>1. DOMAIN new = DOMAIN cells /\ new[k] = c
  BY DEF CellsFit
<1>2. \A j \in DOMAIN cells : j # k => new[j] = cells[j]
  BY DEF CellsFit
<1>3. new \in [DOMAIN cells -> Cell]
  BY DEF CellsFit
<1> HIDE DEF new
<1>4. CellsFit(new)
  BY <1>1, <1>2, <1>3 DEF CellsFit
<1>5. Dense(new, edges) /\ Grown(new, cells)
  BY <1>1, <1>2 DEF Dense, Grown
<1> QED
  BY <1>4, <1>5 DEF new

LEMMA AdvancedFits ==
  ASSUME NEW c \in Cell, NEW phase \in Phases
  PROVE  /\ Advanced(c, phase) \in Cell /\ LastFacetIsCurrent(Advanced(c, phase))
         /\ Advanced(c, phase).density = c.density /\ Advanced(c, phase).lenses = c.lenses
<1> DEFINE s == Append(c.facets, phase)
           d == Advanced(c, phase)
<1>1. c.facets \in Seq(Phases)
  BY DEF Cell
<1>2. s \in Seq(Phases) /\ Len(s) = Len(c.facets) + 1 /\ s[Len(s)] = phase
  BY <1>1
<1>3. s # <<>>
  <2>1. Len(c.facets) \in Nat
    BY <1>1
  <2>2. Len(s) # 0
    BY <1>2, <2>1
  <2> HIDE DEF s
  <2> QED
    BY <2>2, EmptySeq
<1>4. d = [c EXCEPT !.facets = s, !.current = phase]
  BY DEF Advanced
<1> HIDE DEF s, d
<1>5. d \in Cell
  BY <1>2, <1>4 DEF Cell
<1>6. /\ d.facets = s /\ d.current = phase /\ d.density = c.density /\ d.lenses = c.lenses
  BY <1>4 DEF Cell
<1> QED
  BY <1>2, <1>3, <1>5, <1>6 DEF LastFacetIsCurrent, d

LEMMA WrittenFits ==
  ASSUME NEW cells, CellsFit(cells), NEW edges \in [Registers -> SUBSET Registers],
         Dense(cells, edges), NEW k \in Registers, NEW o \in WriteOption
  PROVE  /\ CellsFit(Written(cells, k, o, edges)) /\ Dense(Written(cells, k, o, edges), edges)
         /\ Grown(Written(cells, k, o, edges), cells)
         /\ k \in DOMAIN Written(cells, k, o, edges)
<1> DEFINE with == Ensured(cells, {k}, edges)
           kept == [with[k] EXCEPT !.immutable = CASE o.immutable = "keep" -> @
                                                   [] o.immutable = "yes"  -> TRUE
                                                   [] o.immutable = "no"   -> FALSE]
           cell == IF o.phase = NoPhase THEN kept ELSE Advanced(kept, o.phase)
<1>1. {k} \in SUBSET Registers
  OBVIOUS
<1>2. CellsFit(with) /\ Dense(with, edges) /\ Grown(with, cells) /\ {k} \subseteq DOMAIN with
  BY <1>1, EnsuredFits
<1> HIDE DEF with
<1>3. k \in DOMAIN with /\ with[k] \in Cell /\ LastFacetIsCurrent(with[k])
  BY <1>2 DEF CellsFit
<1>4. o.phase \in Phases \cup {NoPhase} /\ o.immutable \in {"keep", "yes", "no"}
  BY DEF WriteOption
<1>5. PICK i \in BOOLEAN : kept = [with[k] EXCEPT !.immutable = i]
  BY <1>3, <1>4 DEF Cell
<1> HIDE DEF kept
<1>6. kept \in Cell /\ kept.density = with[k].density /\ kept.lenses = with[k].lenses
  BY <1>3, <1>5 DEF Cell
<1>7. /\ kept.facets = with[k].facets /\ kept.current = with[k].current
      /\ kept.evictable = with[k].evictable
  BY <1>3, <1>5 DEF Cell
<1>8. LastFacetIsCurrent(kept)
  BY <1>3, <1>7 DEF LastFacetIsCurrent
<1>9. /\ cell \in Cell /\ LastFacetIsCurrent(cell) /\ cell.density = with[k].density
      /\ cell.lenses = with[k].lenses
  BY <1>4, <1>6, <1>8, AdvancedFits
<1> HIDE DEF cell
<1>10. Written(cells, k, o, edges) = with \/ Written(cells, k, o, edges) = [with EXCEPT ![k] = cell]
  BY DEF Written, with, cell, kept
<1>11. /\ CellsFit([with EXCEPT ![k] = cell]) /\ Dense([with EXCEPT ![k] = cell], edges)
       /\ Grown([with EXCEPT ![k] = cell], with)
  BY <1>2, <1>3, <1>9, TouchedFits
<1>12. Grown([with EXCEPT ![k] = cell], cells)
  BY <1>2, <1>11, GrownTwice
<1>13. k \in DOMAIN [with EXCEPT ![k] = cell]
  BY <1>3
<1> QED
  BY <1>2, <1>3, <1>10, <1>11, <1>12, <1>13

LEMMA GrowthKeepsTheBank ==
  ASSUME BankInv, CellsFit(entries'), Dense(entries', couplingEdges), Grown(entries', entries),
         UNCHANGED <<lensIndex, couplingEdges>>, focusKey' \in DOMAIN entries'
  PROVE  BankInv' /\ Held \subseteq Held'
<1>1. Held \subseteq Held' /\ Held' = DOMAIN entries'
  BY DEF Grown, Held
<1>2. EdgesFit(couplingEdges, Held)' /\ Dense(entries, couplingEdges)'
  BY <1>1 DEF BankInv, EdgesFit
<1>3. Indexed(lensIndex, entries)'
  BY DEF BankInv, Indexed, Grown, Held
<1> QED
  BY <1>1, <1>2, <1>3 DEF BankInv

LEMMA EnsuringKeeps ==
  ASSUME BankInv, NEW new \in SUBSET Registers, entries' = Ensured(entries, new, couplingEdges),
         UNCHANGED <<lensIndex, couplingEdges>>, focusKey' \in Held \cup new
  PROVE  BankInv' /\ Held \subseteq Held'
<1>1. /\ CellsFit(entries) /\ Dense(entries, couplingEdges)
      /\ couplingEdges \in [Registers -> SUBSET Registers]
  BY DEF BankInv, EdgesFit
<1>2. CellsFit(entries') /\ Dense(entries', couplingEdges)
  BY <1>1, EnsuredFits
<1>3. Grown(entries', entries) /\ new \subseteq DOMAIN entries'
  BY <1>1, EnsuredFits
<1>4. focusKey' \in DOMAIN entries'
  BY <1>3 DEF Grown, Held
<1> QED
  BY <1>2, <1>3, <1>4, GrowthKeepsTheBank

LEMMA WritingKeeps ==
  ASSUME BankInv, NEW k \in Registers, NEW o \in WriteOption,
         entries' = Written(entries, k, o, couplingEdges),
         UNCHANGED <<lensIndex, couplingEdges, focusKey>>
  PROVE  BankInv' /\ Held \subseteq Held'
<1>1. /\ CellsFit(entries) /\ Dense(entries, couplingEdges)
      /\ couplingEdges \in [Registers -> SUBSET Registers]
  BY DEF BankInv, EdgesFit
<1>2. CellsFit(entries') /\ Dense(entries', couplingEdges) /\ Grown(entries', entries)
  BY <1>1, WrittenFits
<1>3. focusKey' \in DOMAIN entries'
  BY <1>2 DEF Grown, BankInv, Held
<1> QED
  BY <1>2, <1>3, GrowthKeepsTheBank

LEMMA TouchingKeeps ==
  ASSUME BankInv, NEW k \in Held, NEW c \in Cell, LastFacetIsCurrent(c),
         c.density = entries[k].density, c.lenses = entries[k].lenses,
         entries' = [entries EXCEPT ![k] = c],
         UNCHANGED <<lensIndex, couplingEdges, focusKey>>
  PROVE  BankInv' /\ Held \subseteq Held'
<1>1. CellsFit(entries) /\ Dense(entries, couplingEdges) /\ k \in DOMAIN entries
  BY DEF BankInv, Held
<1>2. CellsFit(entries') /\ Dense(entries', couplingEdges) /\ Grown(entries', entries)
  BY <1>1, TouchedFits
<1>3. focusKey' \in DOMAIN entries'
  BY <1>2 DEF Grown, BankInv, Held
<1> QED
  BY <1>2, <1>3, GrowthKeepsTheBank

LEMMA HeldCells ==
  ASSUME BankInv, NEW k \in Held
  PROVE  entries[k] \in Cell /\ LastFacetIsCurrent(entries[k]) /\ k \in Registers
BY DEF BankInv, CellsFit, Held

LEMMA ForcedOptions ==
  ASSUME NEW o \in WriteOptions
  PROVE  o \in WriteOption /\ Forced(o) \in WriteOption
BY OptionsAssumption DEF WriteOption, Forced

LEMMA WriteStep ==
  ASSUME BankInv, NEW k \in Registers, NEW o \in WriteOptions,
         Write(k, o) \/ Confluent(k, o) \/ MarkPosition(k, o)
  PROVE  BankInv' /\ Held \subseteq Held'
<1>1. PICK f \in WriteOption : Write(k, f)
  BY ForcedOptions DEF Confluent, MarkPosition
<1> QED
  BY <1>1, WritingKeeps DEF Write

LEMMA ReservedAre == /\ DefaultKey \in Registers /\ ObserverKey \in Registers
                     /\ History \subseteq Registers
BY RegistersAssumption DEF Reserved

LEMMA MovedLiminality ==
  ASSUME NEW c \in Cell, LastFacetIsCurrent(c), NEW x \in Liminalities
  PROVE  /\ [c EXCEPT !.liminality = x] \in Cell
         /\ LastFacetIsCurrent([c EXCEPT !.liminality = x])
         /\ [c EXCEPT !.liminality = x].density = c.density
         /\ [c EXCEPT !.liminality = x].lenses = c.lenses
<1> DEFINE d == [c EXCEPT !.liminality = x]
<1>1. d \in Cell
  BY DEF Cell
<1>2. /\ d.density = c.density /\ d.lenses = c.lenses /\ d.facets = c.facets
      /\ d.current = c.current /\ d.evictable = c.evictable
  BY DEF Cell
<1> HIDE DEF d
<1>3. LastFacetIsCurrent(d)
  BY <1>2 DEF LastFacetIsCurrent
<1> QED
  BY <1>1, <1>2, <1>3 DEF d

LEMMA LiminalityStep ==
  ASSUME BankInv, NEW k \in Held, NEW x \in Liminalities,
         entries' = [entries EXCEPT ![k].liminality = x],
         UNCHANGED <<lensIndex, couplingEdges, focusKey>>
  PROVE  BankInv' /\ Held \subseteq Held'
<1>1. entries[k] \in Cell /\ LastFacetIsCurrent(entries[k])
  BY HeldCells
<1> DEFINE c == [entries[k] EXCEPT !.liminality = x]
<1>2. /\ c \in Cell /\ LastFacetIsCurrent(c) /\ c.density = entries[k].density
      /\ c.lenses = entries[k].lenses
  BY <1>1, MovedLiminality
<1>3. entries' = [entries EXCEPT ![k] = c]
  OBVIOUS
<1> HIDE DEF c
<1> QED
  BY <1>2, <1>3, TouchingKeeps

LEMMA BridgeStep ==
  ASSUME BankInv, NEW k \in Registers, NEW target \in Liminalities, NEW steps \in Liminalities,
         BridgeLiminality(k, target, steps)
  PROVE  BankInv' /\ Held \subseteq Held'
<1> DEFINE cells == Ensured(entries, {k}, couplingEdges)
           at == cells[k].liminality
           x == CASE at >= target -> at
                  [] at < target /\ at + steps >= target -> target
                  [] OTHER -> at + steps
           c == [cells[k] EXCEPT !.liminality = x]
<1>1. /\ CellsFit(entries) /\ Dense(entries, couplingEdges)
      /\ couplingEdges \in [Registers -> SUBSET Registers]
  BY DEF BankInv, EdgesFit
<1>2. CellsFit(cells) /\ Dense(cells, couplingEdges) /\ Grown(cells, entries) /\ {k} \subseteq DOMAIN cells
  BY <1>1, EnsuredFits
<1>3. entries' = [cells EXCEPT ![k].liminality = x]
  BY DEF BridgeLiminality
<1> HIDE DEF cells
<1>4. k \in DOMAIN cells /\ cells[k] \in Cell /\ LastFacetIsCurrent(cells[k])
  BY <1>2 DEF CellsFit
<1>5. at \in 0 .. MaxLiminality
  BY <1>4 DEF Cell, Liminalities
<1>6. x \in Liminalities
  BY <1>5, LiminalityAssumption DEF Liminalities
<1>7. entries' = [cells EXCEPT ![k] = c]
  BY <1>3
<1> HIDE DEF x
<1>8. c \in Cell /\ LastFacetIsCurrent(c) /\ c.density = cells[k].density /\ c.lenses = cells[k].lenses
  BY <1>4, <1>6, MovedLiminality
<1> HIDE DEF c
<1>9. CellsFit(entries') /\ Dense(entries', couplingEdges) /\ Grown(entries', cells)
  BY <1>2, <1>4, <1>7, <1>8, TouchedFits
<1>10. Grown(entries', entries)
  BY <1>2, <1>9, GrownTwice
<1>11. UNCHANGED <<lensIndex, couplingEdges, focusKey>>
  BY DEF BridgeLiminality
<1>12. focusKey' \in DOMAIN entries'
  BY <1>10, <1>11 DEF Grown, BankInv, Held
<1> QED
  BY <1>9, <1>10, <1>11, <1>12, GrowthKeepsTheBank

LEMMA EnrichStep ==
  ASSUME BankInv, NEW k \in Registers, NEW phase \in Phases, EnrichPhase(k, phase)
  PROVE  BankInv' /\ Held \subseteq Held'
<1>1. k \in Held /\ UNCHANGED <<lensIndex, couplingEdges, focusKey>>
      /\ entries' = [entries EXCEPT ![k] = Advanced(entries[k], phase)]
  BY DEF EnrichPhase
<1>2. entries[k] \in Cell
  BY <1>1, HeldCells
<1>3. /\ Advanced(entries[k], phase) \in Cell /\ LastFacetIsCurrent(Advanced(entries[k], phase))
      /\ Advanced(entries[k], phase).density = entries[k].density
      /\ Advanced(entries[k], phase).lenses = entries[k].lenses
  BY <1>2, AdvancedFits
<1> QED
  BY <1>1, <1>3, TouchingKeeps

LEMMA SetEvictableStep ==
  ASSUME BankInv, NEW k \in Registers, NEW evictable \in BOOLEAN, SetFacetEvictable(k, evictable)
  PROVE  BankInv' /\ Held \subseteq Held'
<1> DEFINE c == [entries[k] EXCEPT !.evictable = evictable]
<1>1. k \in Held /\ entries[k].current # NoPhase /\ entries' = [entries EXCEPT ![k] = c]
      /\ UNCHANGED <<lensIndex, couplingEdges, focusKey>>
  BY DEF SetFacetEvictable
<1>2. entries[k] \in Cell /\ LastFacetIsCurrent(entries[k])
  BY <1>1, HeldCells
<1>3. c \in Cell
  BY <1>2 DEF Cell
<1>4. /\ c.density = entries[k].density /\ c.lenses = entries[k].lenses
      /\ c.facets = entries[k].facets /\ c.current = entries[k].current
  BY <1>2 DEF Cell
<1> HIDE DEF c
<1>5. LastFacetIsCurrent(c)
  BY <1>1, <1>2, <1>4 DEF LastFacetIsCurrent
<1> QED
  BY <1>1, <1>3, <1>4, <1>5, TouchingKeeps

LEMMA ResonateStep ==
  ASSUME BankInv, NEW k \in Registers, NEW lens \in Lenses, NEW o \in WriteOptions,
         Resonate(k, lens, o)
  PROVE  BankInv' /\ Held \subseteq Held'
<1> DEFINE cells == Written(entries, k, Forced(o), couplingEdges)
           c == [cells[k] EXCEPT !.lenses = cells[k].lenses \cup {lens}]
<1>1. /\ CellsFit(entries) /\ Dense(entries, couplingEdges)
      /\ couplingEdges \in [Registers -> SUBSET Registers]
  BY DEF BankInv, EdgesFit
<1>2. Forced(o) \in WriteOption
  BY ForcedOptions
<1>3. CellsFit(cells) /\ Dense(cells, couplingEdges) /\ Grown(cells, entries) /\ k \in DOMAIN cells
  BY <1>1, <1>2, WrittenFits
<1>4. /\ entries' = [cells EXCEPT ![k] = c]
      /\ lensIndex' = [lensIndex EXCEPT ![lens] = @ \cup {k}]
      /\ UNCHANGED <<couplingEdges, focusKey>>
  BY DEF Resonate
<1> HIDE DEF cells
<1>5. cells[k] \in Cell /\ LastFacetIsCurrent(cells[k])
  BY <1>3 DEF CellsFit
<1>6. c \in Cell
  BY <1>5 DEF Cell
<1>7. /\ c.density = cells[k].density /\ c.lenses = cells[k].lenses \cup {lens}
      /\ c.facets = cells[k].facets /\ c.current = cells[k].current
      /\ c.evictable = cells[k].evictable
  BY <1>5 DEF Cell
<1> HIDE DEF c
<1>8. LastFacetIsCurrent(c)
  BY <1>5, <1>7 DEF LastFacetIsCurrent
<1>9. DOMAIN entries' = DOMAIN cells /\ entries'[k] = c
      /\ \A j \in DOMAIN cells : j # k => entries'[j] = cells[j]
  BY <1>3, <1>4 DEF CellsFit
<1>10. entries' \in [DOMAIN cells -> Cell]
  BY <1>3, <1>4, <1>6 DEF CellsFit
<1>11. CellsFit(entries')
  BY <1>3, <1>8, <1>9, <1>10 DEF CellsFit
<1>12. Dense(entries', couplingEdges)
  BY <1>3, <1>7, <1>9 DEF Dense
<1>13. Held \subseteq Held'
  BY <1>3, <1>9 DEF Grown, Held
<1>14. EdgesFit(couplingEdges, Held)'
  BY <1>4, <1>13 DEF BankInv, EdgesFit
<1>15. Indexed(lensIndex, cells)
  BY <1>3 DEF BankInv, Indexed, Grown
<1>16. Indexed(lensIndex, entries)'
  <2>1. lensIndex' \in [Lenses -> SUBSET Registers]
    BY <1>4, <1>15 DEF Indexed
  <2>2. ASSUME NEW l \in Lenses
        PROVE  lensIndex'[l] = {j \in DOMAIN entries' : l \in entries'[j].lenses}
    <3>1. lensIndex[l] = {j \in DOMAIN cells : l \in cells[j].lenses}
      BY <1>15 DEF Indexed
    <3>2. CASE l = lens
      <4>1. lensIndex'[l] = lensIndex[l] \cup {k}
        BY <1>4, <1>15, <3>2 DEF Indexed
      <4> QED
        BY <1>3, <1>7, <1>9, <3>1, <3>2, <4>1
    <3>3. CASE l # lens
      <4>1. lensIndex'[l] = lensIndex[l]
        BY <1>4, <1>15, <3>3 DEF Indexed
      <4> QED
        BY <1>3, <1>7, <1>9, <3>1, <3>3, <4>1
    <3> QED
      BY <3>2, <3>3
  <2> QED
    BY <2>1, <2>2 DEF Indexed
<1>17. focusKey' \in Held' /\ DefaultKey \in Held'
  BY <1>4, <1>13 DEF BankInv
<1>18. Dense(entries, couplingEdges)'
  BY <1>4, <1>12
<1> QED
  BY <1>11, <1>13, <1>14, <1>16, <1>17, <1>18 DEF BankInv

LEMMA CoupleStep ==
  ASSUME BankInv, NEW a \in Registers, NEW b \in Registers, Couple(a, b)
  PROVE  BankInv' /\ Held \subseteq Held'
<1> DEFINE cells == Ensured(entries, {a, b}, couplingEdges)
           edges == couplingEdges'
<1>1. /\ CellsFit(entries) /\ Dense(entries, couplingEdges)
      /\ couplingEdges \in [Registers -> SUBSET Registers]
  BY DEF BankInv, EdgesFit
<1>2. CellsFit(cells) /\ Dense(cells, couplingEdges) /\ Grown(cells, entries) /\ {a, b} \subseteq DOMAIN cells
  BY <1>1, EnsuredFits
<1>3. /\ edges \in [Registers -> SUBSET Registers]
      /\ a = b => edges[a] = couplingEdges[a] \cup {a}
      /\ a # b => edges[a] = couplingEdges[a] \cup {b} /\ edges[b] = couplingEdges[b] \cup {a}
      /\ \A k \in Registers : k \notin {a, b} => edges[k] = couplingEdges[k]
  BY <1>1 DEF Couple
<1>4. entries' = [k \in DOMAIN cells |->
                    IF k \in {a, b}
                    THEN [cells[k] EXCEPT !.density = Density(DOMAIN cells, edges[k])]
                    ELSE cells[k]]
  BY DEF Couple
<1>5. UNCHANGED <<lensIndex, focusKey>>
  BY DEF Couple
<1> HIDE DEF cells, edges
<1>6. DOMAIN entries' = DOMAIN cells
  BY <1>4
<1>7. ASSUME NEW k \in DOMAIN cells
      PROVE  /\ entries'[k] \in Cell /\ LastFacetIsCurrent(entries'[k])
             /\ entries'[k].lenses = cells[k].lenses
             /\ entries'[k].density = Density(DOMAIN cells, edges[k])
  <2>1. cells[k] \in Cell /\ LastFacetIsCurrent(cells[k]) /\ k \in Registers
    BY <1>2 DEF CellsFit
  <2>2. CASE k \in {a, b}
    <3> DEFINE d == Density(DOMAIN cells, edges[k])
               c == [cells[k] EXCEPT !.density = d]
    <3>1. d \in Densities
      BY <1>2, <1>3, <2>1, DensitiesAre DEF CellsFit
    <3>2. entries'[k] = c
      BY <1>4, <2>2
    <3> HIDE DEF d
    <3>3. c \in Cell
      BY <2>1, <3>1 DEF Cell
    <3>4. /\ c.density = d /\ c.lenses = cells[k].lenses /\ c.facets = cells[k].facets
          /\ c.current = cells[k].current /\ c.evictable = cells[k].evictable
      BY <2>1 DEF Cell
    <3> HIDE DEF c
    <3>5. LastFacetIsCurrent(c)
      BY <2>1, <3>4 DEF LastFacetIsCurrent
    <3> QED
      BY <3>2, <3>3, <3>4, <3>5 DEF d
  <2>3. CASE k \notin {a, b}
    <3>1. entries'[k] = cells[k]
      BY <1>4, <2>3
    <3>2. edges[k] = couplingEdges[k]
      BY <1>3, <2>1, <2>3
    <3> QED
      BY <1>2, <2>1, <3>1, <3>2 DEF Dense
  <2> QED
    BY <2>2, <2>3
<1>8. entries' \in [DOMAIN cells -> Cell]
  BY <1>4, <1>7
<1>9. CellsFit(entries')
  BY <1>2, <1>6, <1>7, <1>8 DEF CellsFit
<1>10. Dense(entries', couplingEdges')
  BY <1>6, <1>7 DEF Dense, edges
<1>11. Grown(entries', entries)
  BY <1>2, <1>6, <1>7 DEF Grown
<1>12. Held \subseteq Held' /\ Held' = DOMAIN entries' /\ {a, b} \subseteq Held'
  BY <1>2, <1>6, <1>11 DEF Grown, Held
<1>13. EdgesFit(couplingEdges, Held)'
  <2>1. ASSUME NEW p \in Registers, NEW q \in Registers, q \in edges[p]
        PROVE  p \in edges[q] /\ p \in Held' /\ q \in Held'
    <3>1. CASE q \in couplingEdges[p]
      <4>1. p \in couplingEdges[q] /\ p \in Held /\ q \in Held
        BY <3>1 DEF BankInv, EdgesFit
      <4>2. couplingEdges[q] \subseteq edges[q]
        BY <1>3
      <4> QED
        BY <1>12, <4>1, <4>2
    <3>2. CASE q \notin couplingEdges[p]
      <4>1. (p = a /\ q = b) \/ (p = b /\ q = a)
        BY <1>3, <2>1, <3>2
      <4>2. p \in edges[q]
        BY <1>3, <4>1
      <4> QED
        BY <1>12, <4>1, <4>2
    <3> QED
      BY <3>1, <3>2
  <2> QED
    BY <1>3, <2>1 DEF EdgesFit, edges
<1>14. Indexed(lensIndex, entries)'
  BY <1>5, <1>11 DEF BankInv, Indexed, Grown
<1> QED
  BY <1>5, <1>9, <1>10, <1>12, <1>13, <1>14 DEF BankInv

LEMMA StrippedCell ==
  ASSUME NEW c \in Cell, Len(c.facets) > 1
  PROVE  /\ Stripped(c) \in Cell /\ LastFacetIsCurrent(Stripped(c))
         /\ Stripped(c).density = c.density /\ Stripped(c).lenses = c.lenses
         /\ Stripped(c).liminality = c.liminality
<1> DEFINE kept == c.facets[Len(c.facets)]
           s == <<kept>>
           d == Stripped(c)
<1>1. c.facets \in Seq(Phases)
  BY DEF Cell
<1>2. kept \in Phases
  BY <1>1
<1> HIDE DEF kept
<1>3. s \in Seq(Phases) /\ Len(s) = 1 /\ s[1] = kept
  BY <1>2
<1>4. s # <<>>
  <2>1. Len(s) # 0
    BY <1>3
  <2> HIDE DEF s
  <2> QED
    BY <2>1, EmptySeq
<1>5. d = [c EXCEPT !.facets = s, !.current = kept]
  BY DEF Stripped, kept
<1> HIDE DEF s, d
<1>6. d \in Cell
  BY <1>2, <1>3, <1>5 DEF Cell
<1>7. /\ d.facets = s /\ d.current = kept /\ d.density = c.density /\ d.lenses = c.lenses
      /\ d.liminality = c.liminality
  BY <1>5 DEF Cell
<1> QED
  BY <1>3, <1>4, <1>6, <1>7 DEF LastFacetIsCurrent, d

LEMMA StrippingFits ==
  ASSUME BankInv, NEW strip \in SUBSET Strippable
  PROVE  /\ CellsFit(StrippedOf(entries, strip)) /\ Dense(StrippedOf(entries, strip), couplingEdges)
         /\ DOMAIN StrippedOf(entries, strip) = Held
         /\ \A k \in Held : StrippedOf(entries, strip)[k].lenses = entries[k].lenses
         /\ \A k \in Held : StrippedOf(entries, strip)[k].liminality = entries[k].liminality
<1> DEFINE new == StrippedOf(entries, strip)
<1>1. DOMAIN new = Held /\ Held = DOMAIN entries
  BY DEF StrippedOf, Held
<1>2. ASSUME NEW k \in Held
      PROVE  /\ new[k] \in Cell /\ LastFacetIsCurrent(new[k])
             /\ new[k].lenses = entries[k].lenses /\ new[k].liminality = entries[k].liminality
             /\ new[k].density = entries[k].density
  <2>1. entries[k] \in Cell /\ LastFacetIsCurrent(entries[k])
    BY HeldCells
  <2>2. CASE k \in strip
    <3>1. Len(entries[k].facets) > 1
      BY <2>2 DEF Strippable
    <3>2. new[k] = Stripped(entries[k])
      BY <2>2 DEF StrippedOf, Held
    <3> HIDE DEF new
    <3> QED
      BY <2>1, <3>1, <3>2, StrippedCell
  <2>3. CASE k \notin strip
    <3>1. new[k] = entries[k]
      BY <2>3 DEF StrippedOf, Held
    <3> QED
      BY <2>1, <3>1
  <2> QED
    BY <2>2, <2>3
<1>3. new \in [Held -> Cell]
  BY <1>2 DEF StrippedOf, Held
<1> HIDE DEF new
<1>4. CellsFit(new)
  BY <1>1, <1>2, <1>3 DEF CellsFit, BankInv
<1>5. Dense(new, couplingEdges)
  BY <1>1, <1>2 DEF Dense, BankInv
<1> QED
  BY <1>1, <1>2, <1>4, <1>5 DEF new

LEMMA EvictStep ==
  ASSUME BankInv, NEW keys \in SUBSET Strippable, EvictEarlyFacets(keys)
  PROVE  BankInv' /\ Held \subseteq Held'
<1>1. entries' = StrippedOf(entries, keys) /\ UNCHANGED <<lensIndex, couplingEdges, focusKey>>
  BY DEF EvictEarlyFacets
<1>2. /\ CellsFit(entries') /\ Dense(entries', couplingEdges) /\ DOMAIN entries' = Held
      /\ \A k \in Held : entries'[k].lenses = entries[k].lenses
  BY <1>1, StrippingFits
<1>3. Grown(entries', entries)
  BY <1>2 DEF Grown, Held
<1>4. focusKey' \in DOMAIN entries'
  BY <1>1, <1>2 DEF BankInv
<1> QED
  BY <1>1, <1>2, <1>3, <1>4, GrowthKeepsTheBank

(* Both tests spare the same registers. *)
LEMMA RefusedIsProtected ==
  ASSUME NEW k
  PROVE  Refuses(k) <=> IsProtected(k)
BY DEF Refuses, IsProtected

LEMMA DeletionKeeps ==
  ASSUME BankInv, NEW cells, CellsFit(cells), Dense(cells, couplingEdges), DOMAIN cells = Held,
         \A k \in Held : cells[k].lenses = entries[k].lenses,
         NEW drop \in SUBSET Held, DeleteAll(cells, drop), UNCHANGED focusKey
  PROVE  /\ BankInv'
         /\ Held' = Held \ {k \in drop : ~Refuses(k)}
         /\ \A k \in Held' : entries'[k].liminality = cells[k].liminality
<1> DEFINE gone == {k \in drop : ~Refuses(k)}
           edges == [p \in Registers |->
                       IF p \in gone THEN {}
                       ELSE couplingEdges[p] \ {k \in gone : p \in couplingEdges[k]}]
           left == [k \in DOMAIN cells \ gone |-> cells[k]]
<1>1. /\ couplingEdges' = edges
      /\ lensIndex' = [l \in Lenses |-> lensIndex[l] \ {k \in gone : l \in cells[k].lenses}]
      /\ entries' = IF gone = {} THEN left ELSE Refreshed(left, edges)
  BY DEF DeleteAll
<1>2. gone \subseteq Held /\ focusKey \notin gone /\ DefaultKey \notin gone
  BY DEF Refuses
<1> HIDE DEF gone
<1>3. couplingEdges \in [Registers -> SUBSET Registers]
  BY DEF BankInv, EdgesFit
<1>4. edges \in [Registers -> SUBSET Registers]
  BY <1>3
<1>5. \A p, q \in Registers :
        q \in edges[p] <=> p \notin gone /\ q \in couplingEdges[p]
                             /\ ~(q \in gone /\ p \in couplingEdges[q])
  BY <1>3
<1>6. gone = {} => edges = couplingEdges
  BY <1>3
<1> HIDE DEF edges
<1>7. CellsFit(left) /\ DOMAIN left = Held \ gone /\ \A k \in Held \ gone : left[k] = cells[k]
  BY DEF CellsFit
<1>8. gone = {} => left = cells
  BY DEF CellsFit
<1> HIDE DEF left
<1>9. /\ CellsFit(entries') /\ Dense(entries', edges) /\ DOMAIN entries' = Held \ gone
      /\ \A k \in Held \ gone : entries'[k].lenses = cells[k].lenses
      /\ \A k \in Held \ gone : entries'[k].liminality = cells[k].liminality
  <2>1. CASE gone = {}
    BY <1>1, <1>6, <1>7, <1>8, <2>1
  <2>2. CASE gone # {}
    <3>1. entries' = Refreshed(left, edges)
      BY <1>1, <2>2
    <3>2. CellsFit(entries') /\ Dense(entries', edges) /\ Grown(entries', left)
      BY <1>4, <1>7, <3>1, RefreshedFits
    <3>3. /\ DOMAIN entries' = DOMAIN left
          /\ \A k \in DOMAIN left : entries'[k].liminality = left[k].liminality
      BY <1>4, <1>7, <3>1, RefreshedFits
    <3> QED
      BY <1>7, <3>2, <3>3 DEF Grown
  <2> QED
    BY <2>1, <2>2
<1>10. Held' = Held \ gone
  BY <1>9 DEF Held
<1>11. EdgesFit(couplingEdges, Held)'
  <2>1. ASSUME NEW p \in Registers, NEW q \in Registers, q \in edges[p]
        PROVE  p \in edges[q] /\ p \in Held' /\ q \in Held'
    <3>1. p \notin gone /\ q \in couplingEdges[p] /\ ~(q \in gone /\ p \in couplingEdges[q])
      BY <1>5, <2>1
    <3>2. p \in couplingEdges[q] /\ p \in Held /\ q \in Held
      BY <3>1 DEF BankInv, EdgesFit
    <3>3. q \notin gone
      BY <3>1, <3>2
    <3> QED
      BY <1>5, <1>10, <3>1, <3>2, <3>3
  <2> QED
    BY <1>1, <1>4, <2>1 DEF EdgesFit
<1>12. Indexed(lensIndex, entries)'
  <2>1. lensIndex' \in [Lenses -> SUBSET Registers]
    BY <1>1 DEF BankInv, Indexed
  <2>2. ASSUME NEW l \in Lenses
        PROVE  lensIndex'[l] = {k \in DOMAIN entries' : l \in entries'[k].lenses}
    <3>1. lensIndex[l] = {k \in Held : l \in cells[k].lenses}
      BY DEF BankInv, Indexed, Held
    <3>2. lensIndex'[l] = lensIndex[l] \ {k \in gone : l \in cells[k].lenses}
      BY <1>1
    <3> QED
      BY <1>9, <3>1, <3>2
  <2> QED
    BY <2>1, <2>2 DEF Indexed
<1>13. focusKey' \in Held' /\ DefaultKey \in Held'
  BY <1>2, <1>10 DEF BankInv
<1>14. Dense(entries, couplingEdges)'
  BY <1>1, <1>9
<1>15. BankInv'
  BY <1>9, <1>11, <1>12, <1>13, <1>14 DEF BankInv
<1> QED
  BY <1>9, <1>10, <1>15 DEF gone

(* Enforcement and purging drop what they may and nothing that is protected.  *)
LEMMA EnforceStep ==
  ASSUME BankInv, NEW b \in Budget, NEW costly \in BOOLEAN,
         NEW strip \in SUBSET Strippable, NEW drop \in SUBSET Droppable(b.ceiling),
         DeleteAll(StrippedOf(entries, strip), drop), UNCHANGED focusKey
  PROVE  /\ BankInv'
         /\ Held' = Held \ drop
         /\ \A k \in Held' : entries'[k].liminality = entries[k].liminality
<1>1. {k \in drop : ~Refuses(k)} = drop /\ drop \in SUBSET Held
  BY RefusedIsProtected DEF Droppable
<1> DEFINE cells == StrippedOf(entries, strip)
<1>2. /\ CellsFit(cells) /\ Dense(cells, couplingEdges) /\ DOMAIN cells = Held
      /\ \A k \in Held : cells[k].lenses = entries[k].lenses
      /\ \A k \in Held : cells[k].liminality = entries[k].liminality
  BY StrippingFits
<1>3. DeleteAll(cells, drop)
  OBVIOUS
<1> HIDE DEF cells
<1>4. /\ BankInv'
      /\ Held' = Held \ {k \in drop : ~Refuses(k)}
      /\ \A k \in Held' : entries'[k].liminality = cells[k].liminality
  BY <1>1, <1>2, <1>3, DeletionKeeps
<1> QED
  BY <1>1, <1>2, <1>4

LEMMA DeleteStep ==
  ASSUME BankInv, NEW drop \in SUBSET Held, DeleteAll(entries, drop), UNCHANGED focusKey
  PROVE  BankInv' /\ Held' = Held \ {k \in drop : ~Refuses(k)}
<1>1. CellsFit(entries) /\ Dense(entries, couplingEdges) /\ DOMAIN entries = Held
  BY DEF BankInv, Held
<1> QED
  BY <1>1, DeletionKeeps

(* Every step keeps the bank exact, and the protected cells. *)
LEMMA BankStep ==
  ASSUME BankInv, [BankNext]_bankVars
  PROVE  BankInv' /\ \A k \in Held : IsProtected(k) => k \in Held'
<1> DEFINE Stay == \A k \in Held : IsProtected(k) => k \in Held'
<1>a. Held \subseteq Held' => Stay
  OBVIOUS
<1>b. \A drop \in SUBSET Held : Held' = Held \ {k \in drop : ~Refuses(k)} => Stay
  BY RefusedIsProtected
<1>c. focusKey \in Registers /\ focusKey \in Held
  BY DEF BankInv, CellsFit, Held
<1>1. ASSUME NEW k \in Registers, Read(k) \/ Focus(k) PROVE BankInv' /\ Stay
  <2>1. /\ entries' = Ensured(entries, {k}, couplingEdges) /\ {k} \in SUBSET Registers
        /\ UNCHANGED <<lensIndex, couplingEdges>> /\ focusKey' \in Held \cup {k}
    BY <1>1, <1>c DEF Read, Focus
  <2> QED
    BY <1>a, <2>1, EnsuringKeeps
<1>2. ASSUME NEW k \in Registers, Promote(k) \/ Demote(k) PROVE BankInv' /\ Stay
  <2>1. k \in Held
    BY <1>2 DEF Promote, Demote
  <2>2. entries[k].liminality \in 0 .. MaxLiminality
    BY <2>1, HeldCells DEF Cell, Liminalities
  <2>3. PICK x \in Liminalities :
          /\ entries' = [entries EXCEPT ![k].liminality = x]
          /\ UNCHANGED <<lensIndex, couplingEdges, focusKey>>
    BY <1>2, <2>2, LiminalityAssumption DEF Promote, Demote, Liminalities
  <2> QED
    BY <1>a, <2>1, <2>3, LiminalityStep
<1>3. ASSUME NEW k \in Registers, DeleteCell(k) PROVE BankInv' /\ Stay
  <2>1. DeleteAll(entries, {k}) /\ UNCHANGED focusKey /\ {k} \in SUBSET Held
    BY <1>3 DEF DeleteCell
  <2> QED
    BY <1>b, <2>1, DeleteStep
<1>4. ASSUME NEW k \in Registers, NEW o \in WriteOptions,
             Write(k, o) \/ Confluent(k, o) \/ MarkPosition(k, o)
      PROVE  BankInv' /\ Stay
  BY <1>4, <1>a, WriteStep
<1>5. ASSUME NEW o \in WriteOptions, Observe(o) PROVE BankInv' /\ Stay
  <2>1. Confluent(ObserverKey, o) /\ ObserverKey \in Registers
    BY <1>5, ReservedAre DEF Observe, Confluent
  <2> QED
    BY <1>a, <2>1, WriteStep
<1>6. ASSUME NEW k \in Registers, NEW phase \in Phases, EnrichPhase(k, phase)
      PROVE  BankInv' /\ Stay
  BY <1>6, <1>a, EnrichStep
<1>7. CASE Extract
  <2>1. {focusKey, DefaultKey} \cup History \in SUBSET Registers
    BY <1>c, ReservedAre
  <2> QED
    BY <1>7, <1>a, <1>c, <2>1, EnsuringKeeps DEF Extract
<1>8. ASSUME NEW k \in Registers, NEW lens \in Lenses, NEW o \in WriteOptions, Resonate(k, lens, o)
      PROVE  BankInv' /\ Stay
  BY <1>8, <1>a, ResonateStep
<1>9. ASSUME NEW a \in Registers, NEW b \in Registers, Couple(a, b) PROVE BankInv' /\ Stay
  BY <1>9, <1>a, CoupleStep
<1>10. ASSUME NEW k \in Registers, NEW target \in Liminalities, NEW steps \in Liminalities,
              BridgeLiminality(k, target, steps)
       PROVE  BankInv' /\ Stay
  BY <1>10, <1>a, BridgeStep
<1>11. ASSUME NEW k \in Registers, NEW evictable \in BOOLEAN, SetFacetEvictable(k, evictable)
       PROVE  BankInv' /\ Stay
  BY <1>11, <1>a, SetEvictableStep
<1>12. ASSUME NEW keys \in SUBSET Strippable, EvictEarlyFacets(keys) PROVE BankInv' /\ Stay
  BY <1>12, <1>a, EvictStep
<1>13. ASSUME NEW b \in Budgets, NEW costly \in BOOLEAN, EnforceMemoryBudget(b, costly)
       PROVE  BankInv' /\ Stay
  <2>1. PICK strip \in SUBSET Strippable, drop \in SUBSET Droppable(b.ceiling) :
          DeleteAll(StrippedOf(entries, strip), drop) /\ UNCHANGED focusKey
    BY <1>13 DEF EnforceMemoryBudget
  <2>2. b \in Budget
    BY BudgetsAssumption
  <2>3. BankInv' /\ Held' = Held \ drop
    BY <2>1, <2>2, EnforceStep
  <2> QED
    BY <2>3 DEF Droppable
<1>14. ASSUME NEW ceiling \in Liminalities, PurgeColdCells(ceiling) PROVE BankInv' /\ Stay
  <2>1. PICK drop \in SUBSET Droppable(ceiling) : DeleteAll(entries, drop) /\ UNCHANGED focusKey
    BY <1>14 DEF PurgeColdCells
  <2>2. drop \in SUBSET Held
    BY DEF Droppable
  <2> QED
    BY <1>b, <2>1, <2>2, DeleteStep
<1>15. CASE UNCHANGED bankVars
  <2>1. UNCHANGED <<entries, lensIndex, couplingEdges, focusKey>> /\ UNCHANGED Held
    BY <1>15 DEF bankVars, Held
  <2>2. BankInv'
    BY <2>1 DEF BankInv
  <2> QED
    BY <1>a, <2>1, <2>2
<1> HIDE DEF Stay
<1> QED
  BY <1>1, <1>2, <1>3, <1>4, <1>5, <1>6, <1>7, <1>8, <1>9, <1>10, <1>11, <1>12, <1>13, <1>14,
     <1>15 DEF BankNext, Stay

LEMMA BankStarts == BankInit => BankInv
<1> SUFFICES ASSUME BankInit PROVE BankInv
  OBVIOUS
<1>1. DefaultKey \in Registers
  BY ReservedAre
<1>2. Held = {DefaultKey} /\ DOMAIN entries = {DefaultKey} /\ entries[DefaultKey] = FreshCell
  BY DEF BankInit, Held
<1>3. CellsFit(entries)
  BY <1>1, <1>2, FreshCellFits DEF CellsFit, BankInit
<1>4. Cardinality({DefaultKey}) = 1 /\ Cardinality({}) = 0
  BY FS_Singleton, FS_EmptySet
<1>5. Density({DefaultKey}, {}) = <<0, 1>>
  BY <1>4 DEF Density, Among
<1>6. Dense(entries, couplingEdges)
  BY <1>1, <1>2, <1>5 DEF Dense, BankInit, FreshCell
<1>7. EdgesFit(couplingEdges, Held)
  BY DEF EdgesFit, BankInit
<1>8. Indexed(lensIndex, entries)
  BY <1>2, FreshCellFits DEF Indexed, BankInit
<1> QED
  BY <1>2, <1>3, <1>6, <1>7, <1>8 DEF BankInv, BankInit

LEMMA BankIsExact ==
  ASSUME BankInv
  PROVE  BankTypeOK /\ FocusIsHeld /\ SideTablesAreExact
<1>1. BankTypeOK
  BY DEF BankInv, BankTypeOK, CellsFit, EdgesFit, Indexed, Held
<1>2. EdgesAreMutual
  BY DEF BankInv, EdgesFit, EdgesAreMutual
<1>3. LensIndexIsExact
  BY DEF BankInv, Indexed, LensIndexIsExact, Held
<1>4. DensityIsCurrent
  BY DEF BankInv, Dense, DensityIsCurrent, Held
<1>5. CurrentIsLastFacet
  BY DEF BankInv, CellsFit, LastFacetIsCurrent, CurrentIsLastFacet, Held
<1> QED
  BY <1>1, <1>2, <1>3, <1>4, <1>5 DEF SideTablesAreExact, FocusIsHeld, BankInv

(* The bank's maps keep their types and the cells in focus and by default are  *)
(* there, for any finite set of registers and any lenses, phases and budgets.  *)
THEOREM BankTypes == BankSpec => [](BankTypeOK /\ FocusIsHeld)
<1>1. BankInv /\ [BankNext]_bankVars => BankInv'
  BY BankStep
<1>2. BankInv => BankTypeOK /\ FocusIsHeld
  BY BankIsExact
<1> QED
  BY BankStarts, <1>1, <1>2, PTL DEF BankSpec

(* Edges, lens index, densities and current phases agree with the cells,       *)
(* whichever were dropped, purged, stripped or made again.                     *)
THEOREM SideTablesStayExact == BankSpec => []SideTablesAreExact
<1>1. BankInv /\ [BankNext]_bankVars => BankInv'
  BY BankStep
<1>2. BankInv => SideTablesAreExact
  BY BankIsExact
<1> QED
  BY BankStarts, <1>1, <1>2, PTL DEF BankSpec

(* No step takes away a cell that the policy protects when it begins. *)
THEOREM ProtectedCellsStay == BankSpec => ProtectedStay
<1>1. BankInv /\ [BankNext]_bankVars => BankInv'
  BY BankStep
<1>2. BankInv /\ [BankNext]_bankVars
        => [\A k \in Held : IsProtected(k) => k \in Held']_bankVars
  BY BankStep
<1> QED
  BY BankStarts, <1>1, <1>2, PTL DEF BankSpec, ProtectedStay

LEMMA PlansMeetTheCap ==
  ASSUME BankInv, NEW b \in Budgets, NEW costly \in BOOLEAN, OverCells(b),
         EnforceMemoryBudget(b, costly)
  PROVE  \/ Cardinality(Held') <= b.maxCells
         \/ \A k \in Held' : IsProtected(k) \/ entries'[k].liminality > b.ceiling
<1>1. b \in Budget /\ b.maxCells \in Nat /\ b.ceiling \in Liminalities
  BY BudgetsAssumption DEF Budget
<1>2. PICK strip \in SUBSET Strippable, drop \in SUBSET Droppable(b.ceiling) :
        /\ IsPlan(b, costly, strip, drop)
        /\ DeleteAll(StrippedOf(entries, strip), drop) /\ UNCHANGED focusKey
  BY DEF EnforceMemoryBudget
<1>3. Held' = Held \ drop /\ \A k \in Held' : entries'[k].liminality = entries[k].liminality
  BY <1>1, <1>2, EnforceStep
<1>4. CASE Cardinality(Held) - Cardinality(drop) > b.maxCells
  <2>1. drop = Droppable(b.ceiling)
    BY <1>2, <1>4 DEF IsPlan
  <2>2. \A k \in Held : entries[k].liminality \in 0 .. MaxLiminality
    BY HeldCells DEF Cell, Liminalities
  <2>3. ASSUME NEW k \in Held' PROVE IsProtected(k) \/ entries'[k].liminality > b.ceiling
    <3>1. k \in Held /\ k \notin Droppable(b.ceiling) /\ entries'[k].liminality = entries[k].liminality
      BY <1>3, <2>1
    <3>2. IsProtected(k) \/ ~(entries[k].liminality <= b.ceiling)
      BY <3>1 DEF Droppable
    <3>3. entries[k].liminality \in Int /\ b.ceiling \in Int
      BY <1>1, <2>2, <3>1, LiminalityAssumption DEF Liminalities
    <3> QED
      BY <3>1, <3>2, <3>3
  <2> QED
    BY <2>3
<1>5. CASE ~(Cardinality(Held) - Cardinality(drop) > b.maxCells)
  <2>1. IsFiniteSet(Held) /\ drop \subseteq Held
    BY RegistersAssumption, FS_Subset DEF BankInv, CellsFit, Held, Droppable
  <2>2. IsFiniteSet(drop) /\ IsFiniteSet(Held \ drop)
    BY <2>1, FS_Subset
  <2>3. Held \cap drop = drop
    BY <2>1
  <2>4. Cardinality(Held \ drop) = Cardinality(Held) - Cardinality(Held \cap drop)
    BY <2>1, FS_Difference
  <2>5. /\ Cardinality(Held) \in Nat /\ Cardinality(drop) \in Nat
        /\ Cardinality(Held \ drop) \in Nat
    BY <2>1, <2>2, FS_CardinalityType
  <2>a. Cardinality(Held \ drop) = Cardinality(Held) - Cardinality(drop)
    BY <2>3, <2>4
  <2>6. Cardinality(Held \ drop) <= b.maxCells
    <3>1. \A h, g, r, m \in Nat : r = h - g /\ ~(h - g > m) => r <= m
      OBVIOUS
    <3> QED
      BY <1>1, <1>5, <2>5, <2>a, <3>1
  <2> QED
    BY <1>3, <2>6
<1> QED
  BY <1>4, <1>5

(* Enforcing a budget that is exceeded meets it, or leaves only cells that are *)
(* protected or above its ceiling, for any budgets and any order of eviction.  *)
THEOREM BudgetsAreMet == BankSpec => EnforcementMeetsTheCap
<1> DEFINE Met == \A b \in Budgets, costly \in BOOLEAN :
                    OverCells(b) /\ EnforceMemoryBudget(b, costly) =>
                      \/ Cardinality(Held') <= b.maxCells
                      \/ \A k \in Held' : IsProtected(k) \/ entries'[k].liminality > b.ceiling
<1>1. BankInv /\ [BankNext]_bankVars => BankInv'
  BY BankStep
<1>2. BankInv => Met
  BY PlansMeetTheCap
<1> HIDE DEF Met
<1>3. BankSpec => [][Met]_bankVars
  BY BankStarts, <1>1, <1>2, PTL DEF BankSpec
<1> QED
  BY <1>3 DEF Met, EnforcementMeetsTheCap

-----------------------------------------------------------------------------
(* The parts that MCRuntime puts side by side. *)

(* A behaviour of MCRuntime is one of each part, those that do not run          *)
(* stuttering: what is proved of a part holds in the run.                       *)
THEOREM RuntimePartsRun == MCSpec => BankSpec /\ CacheSpec /\ SessionSpec
<1>1. MCInit => BankInit /\ CacheInit /\ SessionInit
  BY DEF MCInit
<1>2. [MCNext]_mcVars => [BankNext]_bankVars /\ [CacheNext]_plane /\ [SessionNext]_sessionVars
  <2>1. CASE MCNext
    BY <2>1 DEF MCNext
  <2>2. CASE UNCHANGED mcVars
    BY <2>2 DEF mcVars
  <2>. QED
    BY <2>1, <2>2
<1>. QED
  BY <1>1, <1>2, PTL DEF MCSpec, BankSpec, CacheSpec, SessionSpec

(* The bank, a cache by itself and a session keep their types side by side.     *)
THEOREM RuntimeTypesHold == MCSpec => []RuntimeTypeOK
<1>1. BankTypeOK /\ CacheTypeOK /\ SessionTypeOK => RuntimeTypeOK
  BY DEF RuntimeTypeOK
<1>. QED
  BY <1>1, RuntimePartsRun, BankTypes, NothingOutlivesItsTier, PlanesHoldProducts, PTL
=============================================================================
