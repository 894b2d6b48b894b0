------------------------------ MODULE BeatCache ------------------------------
(* A beat-tiered cache by itself: every operation of the class BeatCache       *)
(* (state/memory-cache.ts) as an action on one plane.                          *)
EXTENDS BeatPlane

CONSTANTS
  Groups,         \* sets of keys that share a prefix
  MaxTick         \* bound of the model: beats of one tick

ASSUME GroupsAssumption == Groups \subseteq SUBSET CacheKeys

(* Colder tiers live longer, as in the default table 8 / 64 / 256. *)
ASSUME TiersAssumption == Ttl["hot"] <= Ttl["warm"] /\ Ttl["warm"] <= Ttl["cold"]

VARIABLE plane

CacheInit == plane = [k \in {} |-> {}]

Tick(n) == plane' = Ticked(plane, n)

(* get and has *)
Get(k) == plane' = Got(plane, k)

Set(k, v, tier) == plane' \in Stored(plane, k, v, tier)

PromoteKey(k) == k \in DOMAIN plane /\ plane' = [plane EXCEPT ![k] = Promoted(@)]

(* demote: one tier down, age kept; a cold entry is deleted, stale or not. *)
DemoteKey(k) ==
  /\ k \in DOMAIN plane
  /\ plane' = CASE plane[k].tier = "hot"  -> [plane EXCEPT ![k].tier = "warm"]
                [] plane[k].tier = "warm" -> [plane EXCEPT ![k].tier = "cold"]
                [] plane[k].tier = "cold" -> Without(plane, {k})

Delete(k) == plane' = Without(plane, {k})

InvalidatePrefix(keys) == plane' = Without(plane, keys)

Clear == plane' = Without(plane, DOMAIN plane)

Sweep == plane' = Swept(plane)

CacheNext ==
  \/ \E n \in 0 .. MaxTick : Tick(n)
  \/ \E k \in CacheKeys : Get(k) \/ PromoteKey(k) \/ DemoteKey(k) \/ Delete(k)
  \/ \E k \in CacheKeys, v \in CacheValues, tier \in Tiers : Set(k, v, tier)
  \/ \E keys \in Groups : InvalidatePrefix(keys)
  \/ Clear
  \/ Sweep

CacheSpec == CacheInit /\ [][CacheNext]_plane

-----------------------------------------------------------------------------
(* Properties. *)

(* The plane maps keys to entries. *)
CacheTypeOK == IsPlane(plane)

(* No sequence of gets, promotions and sets leaves more entries than the cap,  *)
(* though nothing but a set evicts, and only one entry.                        *)
SizeIsBounded == Bounded(plane)

(* Between two operations no entry has outlived its tier, so a get never meets *)
(* an expired one: every tick sweeps, and demotion, which keeps the age, moves *)
(* an entry to a tier that lives at least as long.                             *)
HeldIsFresh == Fresh(plane)

(* A product just set can be read back, unless the cache is full and every     *)
(* other entry is of a warmer tier: only then the set evicts its own entry.    *)
SetIsReadable ==
  \A k \in CacheKeys, v \in CacheValues, tier \in Tiers :
    \A left \in Stored(plane, k, v, tier) :
      ~Finds(left, k) =>
        /\ Cardinality(DOMAIN plane) >= MaxEntries
        /\ \A j \in DOMAIN plane : Rank(plane[j].tier) < Rank(tier)
=============================================================================
