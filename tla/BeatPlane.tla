------------------------------ MODULE BeatPlane ------------------------------
(* One plane of a beat-tiered cache (state/memory-cache.ts): what each         *)
(* operation of BeatCache makes of the entries.                                *)
(*                                                                             *)
(* The beat clock and the beat of an entry's last access are only ever read as *)
(* their difference, so an entry keeps its age instead; hits are read only as  *)
(* hits >= 3, so they stop counting at three.  bornBeat and the statistics are *)
(* written and never read.                                                     *)
EXTENDS Integers, FiniteSets

CONSTANTS
  CacheKeys,      \* cache keys
  CacheValues,    \* products
  Ttl,            \* beats an entry of each tier lives without access
  MaxEntries      \* cap on the entries of a plane

Tiers == {"hot", "warm", "cold"}

Rank(tier) == CASE tier = "hot" -> 0 [] tier = "warm" -> 1 [] tier = "cold" -> 2

ASSUME TtlAssumption == Ttl \in [Tiers -> Nat]
ASSUME MaxEntriesAssumption == MaxEntries \in Nat

Entry == [value : CacheValues, tier : Tiers, age : Nat, hits : 0 .. 3]

IsPlane(plane) == DOMAIN plane \subseteq CacheKeys /\ plane \in [DOMAIN plane -> Entry]

Without(plane, keys) == [k \in DOMAIN plane \ keys |-> plane[k]]

Expired(entry) == entry.age > Ttl[entry.tier]

Swept(plane) == Without(plane, {k \in DOMAIN plane : Expired(plane[k])})

(* Mutant: a tick leaves expiry to the next get. *)
TickedUnswept(plane, n) == [k \in DOMAIN plane |-> [plane[k] EXCEPT !.age = @ + n]]

(* tick(n): the clock moves, and sweeps if it moved. *)
Ticked(plane, n) ==
  IF n = 0 THEN plane
  ELSE Swept([k \in DOMAIN plane |-> [plane[k] EXCEPT !.age = @ + n]])

Warmer(tier) == IF tier = "cold" THEN "warm" ELSE "hot"

Promoted(entry) == [entry EXCEPT !.tier = Warmer(@), !.age = 0]

(* get(k) finds an entry that has not expired ... *)
Finds(plane, k) == k \in DOMAIN plane /\ ~Expired(plane[k])

(* ... touches it, and promotes it from the third hit on; an expired one goes. *)
Hit(entry) ==
  LET touched == [entry EXCEPT !.age = 0, !.hits = IF @ < 3 THEN @ + 1 ELSE @] IN
  IF touched.hits = 3 THEN Promoted(touched) ELSE touched

Got(plane, k) ==
  IF Finds(plane, k) THEN [plane EXCEPT ![k] = Hit(@)] ELSE Without(plane, {k})

(* The entries evictOverflow may remove: the coldest, of those the least       *)
(* recently used; the entry just set is last of the map and loses no tie.      *)
Colder(d, e) ==
  \/ Rank(d.tier) > Rank(e.tier)
  \/ Rank(d.tier) = Rank(e.tier) /\ d.age > e.age

(* Mutant: of the coldest, the most recently used goes. *)
VictimsNewestFirst(plane, new) ==
  {k \in DOMAIN plane : \A j \in DOMAIN plane :
     /\ Rank(plane[j].tier) <= Rank(plane[k].tier)
     /\ Rank(plane[j].tier) = Rank(plane[k].tier) => plane[j].age >= plane[k].age}

Victims(plane, new) ==
  LET last == {k \in DOMAIN plane : \A j \in DOMAIN plane : ~Colder(plane[j], plane[k])}
  IN  IF last = {new} THEN last ELSE last \ {new}

Put(plane, k, v, tier) ==
  [j \in DOMAIN plane \cup {k} |->
     IF j = k THEN [value |-> v, tier |-> tier, age |-> 0, hits |-> 0] ELSE plane[j]]

(* The planes set(k, v, tier) may leave: a set adds at most one entry, so one  *)
(* eviction brings the plane back to its cap.                                  *)
Stored(plane, k, v, tier) ==
  LET put == Put(plane, k, v, tier) IN
  IF Cardinality(DOMAIN put) > MaxEntries
  THEN {Without(put, {j}) : j \in Victims(put, k)}
  ELSE {put}

-----------------------------------------------------------------------------
(* What a plane keeps to. *)

Bounded(plane) == Cardinality(DOMAIN plane) <= MaxEntries

Fresh(plane) == \A k \in DOMAIN plane : ~Expired(plane[k])
=============================================================================
