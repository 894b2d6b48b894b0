---------------------------- MODULE RegisterBank ----------------------------
(* The runtime's register bank (state/register-bank.ts) with its memory       *)
(* policy (state/memory-policy.ts) and the liminality bridge.                 *)
(*                                                                            *)
(* A cell's value, provenance, timestamps and counters are payload: nothing   *)
(* in the control below reads them except the cost estimate and the eviction  *)
(* score, which order the cells a plan strips or drops.  That order, and      *)
(* whether the estimated cost is over its cap, are chosen freely.             *)
EXTENDS Integers, FiniteSets, Sequences

CONSTANTS
  Registers,      \* register keys
  DefaultKey,     \* the register `"`
  ObserverKey,    \* the register `@`
  History,        \* the registers 0 .. 9
  Marks,          \* the registers whose key starts with mark:
  Lenses,         \* lens names
  Phases,         \* register phases
  NoPhase,        \* the phase of a cell without a phase envelope
  MaxLiminality,  \* rank of the last liminality; 0 is local
  WriteOptions,   \* the option records callers pass to a write
  Budgets,        \* the memory budgets callers enforce
  MaxFacets       \* bound of the model: facets a cell collects

Reserved == {DefaultKey, ObserverKey} \cup History \cup Marks
Liminalities == 0 .. MaxLiminality
WriteOption == [force : BOOLEAN, immutable : {"keep", "yes", "no"},
                phase : Phases \cup {NoPhase}]
Budget == [maxCells : Nat, ceiling : Liminalities, preferFacets : BOOLEAN]

ASSUME RegistersAssumption ==
  /\ IsFiniteSet(Registers)
  /\ Reserved \subseteq Registers
ASSUME PhasesAssumption == NoPhase \notin Phases
ASSUME LiminalityAssumption == MaxLiminality \in Nat
ASSUME OptionsAssumption == WriteOptions \subseteq WriteOption
ASSUME BudgetsAssumption == Budgets \subseteq Budget

VARIABLES
  entries,        \* the cells held: register -> cell
  lensIndex,      \* lens -> registers indexed under it
  couplingEdges,  \* register -> its explicit `<>` peers
  focusKey        \* the register in focus

bankVars == <<entries, lensIndex, couplingEdges, focusKey>>

Held == DOMAIN entries

-----------------------------------------------------------------------------
(* Cells.  A coupling density is edges over the other cells; it is kept as    *)
(* the pair it is the quotient of, capped at one.                             *)

Among(held) == IF Cardinality(held) > 1 THEN Cardinality(held) - 1 ELSE 1

Density(held, peers) ==
  LET n == Cardinality(peers) IN
  <<IF n > Among(held) THEN Among(held) ELSE n, Among(held)>>

Densities == Nat \X Nat

Cell == [immutable : BOOLEAN, lenses : SUBSET Lenses, facets : Seq(Phases),
         current : Phases \cup {NoPhase}, evictable : BOOLEAN,
         liminality : Liminalities, density : Densities]

FreshCell == [immutable |-> FALSE, lenses |-> {}, facets |-> <<>>,
              current |-> NoPhase, evictable |-> FALSE, liminality |-> 0,
              density |-> <<0, 1>>]

(* A bank's cells with every density recomputed. *)
Refreshed(cells, edges) ==
  [k \in DOMAIN cells |->
     [cells[k] EXCEPT !.density = Density(DOMAIN cells, edges[k])]]

(* The cells once every register of new has one; a new cell changes the       *)
(* population, so all densities follow.                                       *)
Ensured(cells, new, edges) ==
  IF new \subseteq DOMAIN cells
  THEN cells
  ELSE Refreshed([k \in DOMAIN cells \cup new |->
                    IF k \in DOMAIN cells THEN cells[k] ELSE FreshCell], edges)

(* The phase written is the current one and is appended to the facets. *)
Advanced(cell, phase) ==
  [cell EXCEPT !.facets = Append(@, phase), !.current = phase]

(* The cells after set(k, _, o): an immutable cell takes forced writes only. *)
Written(cells, k, o, edges) ==
  LET with == Ensured(cells, {k}, edges)
      kept == [with[k] EXCEPT !.immutable = CASE o.immutable = "keep" -> @
                                              [] o.immutable = "yes"  -> TRUE
                                              [] o.immutable = "no"   -> FALSE]
      cell == IF o.phase = NoPhase THEN kept ELSE Advanced(kept, o.phase)
  IN  IF with[k].immutable /\ ~o.force
      THEN with
      ELSE [with EXCEPT ![k] = cell]

Forced(o) == [o EXCEPT !.force = TRUE]

(* Bound of the model: no cell collects more than MaxFacets facets. *)
HasRoom(k, phase) ==
  phase # NoPhase /\ k \in Held => Len(entries[k].facets) < MaxFacets

-----------------------------------------------------------------------------
(* Memory policy. *)

(* Mutants: one of the two tests for a protected register forgets the marks. *)
IsProtectedButMarks(k) == k \in {DefaultKey, ObserverKey, focusKey} \cup History
RefusesButMarks(k) == k \in {DefaultKey, ObserverKey, focusKey} \cup History

(* isProtectedKey of the policy, by which a plan spares a cell ... *)
IsProtected(k) ==
  k \in {DefaultKey, ObserverKey, focusKey} \/ k \in History \/ k \in Marks

(* ... and the test of its own by which deleteCell refuses one. *)
Refuses(k) ==
  \/ k = focusKey \/ k = DefaultKey \/ k \in History
  \/ k = ObserverKey \/ k \in Marks

Strippable == {k \in Held : entries[k].evictable /\ Len(entries[k].facets) > 1}

Droppable(ceiling) ==
  {k \in Held : ~IsProtected(k) /\ entries[k].liminality <= ceiling}

OverCells(b) == Cardinality(Held) > b.maxCells

(* planEviction: strip facets, then drop cells, until both the cost and the   *)
(* cells are within the budget or nothing is left to take.  Stripping does    *)
(* not lower the number of cells.  costly: whether the cost is over its cap.  *)
IsPlan(b, costly, strip, drop) ==
  LET left == Cardinality(Held) - Cardinality(drop)
  IN  /\ ~b.preferFacets => strip = {}
      /\ b.preferFacets /\ OverCells(b) => strip = Strippable
      /\ ~costly /\ ~OverCells(b) => strip = {} /\ drop = {}
      /\ left > b.maxCells => drop = Droppable(b.ceiling)
      /\ ~costly /\ OverCells(b) => left >= b.maxCells

(* stripEarlyFacets keeps the last facet and makes its phase the current one. *)
Stripped(cell) ==
  LET kept == cell.facets[Len(cell.facets)] IN
  [cell EXCEPT !.facets = <<kept>>, !.current = kept]

StrippedOf(cells, strip) ==
  [k \in DOMAIN cells |-> IF k \in strip THEN Stripped(cells[k]) ELSE cells[k]]

(* Mutant: a deletion forgets the peers' edges. *)
DeleteAllButEdges(cells, drop) ==
  LET gone == {k \in drop : ~Refuses(k)} IN
  /\ couplingEdges' = [p \in Registers |-> IF p \in gone THEN {} ELSE couplingEdges[p]]
  /\ lensIndex' = [l \in Lenses |-> lensIndex[l] \ gone]
  /\ entries' = Refreshed([k \in DOMAIN cells \ gone |-> cells[k]], couplingEdges)

(* deleteCell of each register of drop, in any order: uncouple it from the    *)
(* peers it knows, take it out of the index of its lenses, refresh.           *)
DeleteAll(cells, drop) ==
  LET gone  == {k \in drop : ~Refuses(k)}
      edges == [p \in Registers |->
                  IF p \in gone THEN {}
                  ELSE couplingEdges[p] \ {k \in gone : p \in couplingEdges[k]}]
      left  == [k \in DOMAIN cells \ gone |-> cells[k]]
  IN  /\ couplingEdges' = edges
      /\ lensIndex' = [l \in Lenses |->
                         lensIndex[l] \ {k \in gone : l \in cells[k].lenses}]
      /\ entries' = IF gone = {} THEN left ELSE Refreshed(left, edges)

-----------------------------------------------------------------------------
(* Operations. *)

BankInit ==
  /\ entries = [k \in {DefaultKey} |-> FreshCell]
  /\ lensIndex = [l \in Lenses |-> {}]
  /\ couplingEdges = [k \in Registers |-> {}]
  /\ focusKey = DefaultKey

(* get, deposit, getMark and measure create the cell they read. *)
Read(k) ==
  /\ entries' = Ensured(entries, {k}, couplingEdges)
  /\ UNCHANGED <<lensIndex, couplingEdges, focusKey>>

Focus(k) ==
  /\ entries' = Ensured(entries, {k}, couplingEdges)
  /\ focusKey' = k
  /\ UNCHANGED <<lensIndex, couplingEdges>>

Write(k, o) ==
  /\ HasRoom(k, o.phase)
  /\ entries' = Written(entries, k, o, couplingEdges)
  /\ UNCHANGED <<lensIndex, couplingEdges, focusKey>>

Confluent(k, o) == Write(k, Forced(o))

Observe(o) == Write(ObserverKey, Forced(o))

MarkPosition(k, o) == k \in Marks /\ Write(k, Forced(o))

EnrichPhase(k, phase) ==
  /\ k \in Held
  /\ HasRoom(k, phase)
  /\ entries' = [entries EXCEPT ![k] = Advanced(@, phase)]
  /\ UNCHANGED <<lensIndex, couplingEdges, focusKey>>

(* extract writes the focus, the default register and every history register; *)
(* none of the writes carries a phase or an immutable option.                 *)
Extract ==
  /\ entries' = Ensured(entries, {focusKey, DefaultKey} \cup History, couplingEdges)
  /\ UNCHANGED <<lensIndex, couplingEdges, focusKey>>

Resonate(k, lens, o) ==
  LET cells == Written(entries, k, Forced(o), couplingEdges) IN
  /\ HasRoom(k, o.phase)
  /\ entries' = [cells EXCEPT ![k].lenses = @ \cup {lens}]
  /\ lensIndex' = [lensIndex EXCEPT ![lens] = @ \cup {k}]
  /\ UNCHANGED <<couplingEdges, focusKey>>

(* Only the two ends are brought up to date here. *)
Couple(a, b) ==
  LET cells == Ensured(entries, {a, b}, couplingEdges)
      edges == [k \in Registers |->
                  CASE k = a /\ k = b -> couplingEdges[k] \cup {k}
                    [] k = a /\ k # b -> couplingEdges[k] \cup {b}
                    [] k = b /\ k # a -> couplingEdges[k] \cup {a}
                    [] OTHER -> couplingEdges[k]]
  IN  /\ couplingEdges' = edges
      /\ entries' = [k \in DOMAIN cells |->
                       IF k \in {a, b}
                       THEN [cells[k] EXCEPT !.density = Density(DOMAIN cells, edges[k])]
                       ELSE cells[k]]
      /\ UNCHANGED <<lensIndex, focusKey>>

(* Mutant: promotion past the last liminality. *)
PromoteUnbounded(k) ==
  /\ k \in Held
  /\ entries' = [entries EXCEPT ![k].liminality = @ + 1]
  /\ UNCHANGED <<lensIndex, couplingEdges, focusKey>>

Promote(k) ==
  /\ k \in Held
  /\ entries[k].liminality < MaxLiminality
  /\ entries' = [entries EXCEPT ![k].liminality = @ + 1]
  /\ UNCHANGED <<lensIndex, couplingEdges, focusKey>>

Demote(k) ==
  /\ k \in Held
  /\ entries[k].liminality > 0
  /\ entries' = [entries EXCEPT ![k].liminality = @ - 1]
  /\ UNCHANGED <<lensIndex, couplingEdges, focusKey>>

(* bridgeRegisterLiminality: a label is never one of the reserved keys; a     *)
(* missing cell is written first; at most steps promotions, up to the target. *)
BridgeLiminality(k, target, steps) ==
  LET cells == Ensured(entries, {k}, couplingEdges)
      at    == cells[k].liminality
  IN  /\ k \notin Reserved
      /\ entries' = [cells EXCEPT ![k].liminality =
                       CASE at >= target -> at
                         [] at < target /\ at + steps >= target -> target
                         [] OTHER -> at + steps]
      /\ UNCHANGED <<lensIndex, couplingEdges, focusKey>>

SetFacetEvictable(k, evictable) ==
  /\ k \in Held
  /\ entries[k].current # NoPhase
  /\ entries' = [entries EXCEPT ![k].evictable = evictable]
  /\ UNCHANGED <<lensIndex, couplingEdges, focusKey>>

(* The keys given that have early facets to evict. *)
EvictEarlyFacets(keys) ==
  /\ keys \subseteq Strippable
  /\ entries' = StrippedOf(entries, keys)
  /\ UNCHANGED <<lensIndex, couplingEdges, focusKey>>

EnforceMemoryBudget(b, costly) ==
  \E strip \in SUBSET Strippable, drop \in SUBSET Droppable(b.ceiling) :
    /\ IsPlan(b, costly, strip, drop)
    /\ DeleteAll(StrippedOf(entries, strip), drop)
    /\ UNCHANGED focusKey

(* The age and the number of the cells purged are the caller's choice. *)
PurgeColdCells(ceiling) ==
  \E drop \in SUBSET Droppable(ceiling) :
    /\ DeleteAll(entries, drop)
    /\ UNCHANGED focusKey

DeleteCell(k) ==
  /\ k \in Held
  /\ DeleteAll(entries, {k})
  /\ UNCHANGED focusKey

BankNext ==
  \/ \E k \in Registers : Read(k) \/ Focus(k) \/ Promote(k) \/ Demote(k) \/ DeleteCell(k)
  \/ \E k \in Registers, o \in WriteOptions : Write(k, o) \/ Confluent(k, o) \/ MarkPosition(k, o)
  \/ \E o \in WriteOptions : Observe(o)
  \/ \E k \in Registers, phase \in Phases : EnrichPhase(k, phase)
  \/ Extract
  \/ \E k \in Registers, lens \in Lenses, o \in WriteOptions : Resonate(k, lens, o)
  \/ \E a, b \in Registers : Couple(a, b)
  \/ \E k \in Registers, target \in Liminalities, steps \in Liminalities :
       BridgeLiminality(k, target, steps)
  \/ \E k \in Registers, evictable \in BOOLEAN : SetFacetEvictable(k, evictable)
  \/ \E keys \in SUBSET Strippable : EvictEarlyFacets(keys)
  \/ \E b \in Budgets, costly \in BOOLEAN : EnforceMemoryBudget(b, costly)
  \/ \E ceiling \in Liminalities : PurgeColdCells(ceiling)

BankSpec == BankInit /\ [][BankNext]_bankVars

-----------------------------------------------------------------------------
(* Properties. *)

(* The bank's maps range over registers, lenses and well-formed cells. *)
BankTypeOK ==
  /\ Held \subseteq Registers
  /\ entries \in [Held -> Cell]
  /\ lensIndex \in [Lenses -> SUBSET Registers]
  /\ couplingEdges \in [Registers -> SUBSET Registers]
  /\ focusKey \in Registers

(* The cell in focus exists: get() and extract() without a key read it, and   *)
(* no eviction, by whichever list it decides, takes it away.                  *)
FocusIsHeld == focusKey \in Held /\ DefaultKey \in Held

(* Explicit relations are bidirectional and join cells that exist: a cell     *)
(* dropped under pressure leaves no peer behind that still names it.          *)
EdgesAreMutual ==
  \A a, b \in Registers :
    b \in couplingEdges[a] => a \in couplingEdges[b] /\ a \in Held /\ b \in Held

(* Every cell's coupling is its edges over the other cells of the bank as it  *)
(* is now, though most operations touch one cell or two: eviction scores,     *)
(* and reports, read it without recomputing it.                               *)
DensityIsCurrent ==
  \A k \in Held : entries[k].density = Density(Held, couplingEdges[k])

(* keysForLens answers exactly the cells that carry the lens. *)
LensIndexIsExact ==
  \A l \in Lenses : lensIndex[l] = {k \in Held : l \in entries[k].lenses}

(* The current phase is the phase of the last facet, before and after early   *)
(* facets are stripped; a cell without facets has no phase and nothing to     *)
(* evict.                                                                     *)
CurrentIsLastFacet ==
  \A k \in Held :
    LET c == entries[k] IN
    IF c.facets = <<>>
    THEN c.current = NoPhase /\ ~c.evictable
    ELSE c.current = c.facets[Len(c.facets)]

(* What the bank keeps beside its cells and their facets agrees with them,     *)
(* whichever went and whichever came back: no peer and no lens names a cell    *)
(* that is gone, no density counts one, and no phase is of a facet stripped.   *)
SideTablesAreExact ==
  EdgesAreMutual /\ LensIndexIsExact /\ DensityIsCurrent /\ CurrentIsLastFacet

(* No step takes away a cell the policy protects when the step begins. *)
ProtectedStay ==
  [][\A k \in Held : IsProtected(k) => k \in Held']_bankVars

(* Enforcing a budget brings the cells within it, unless every cell left is   *)
(* protected or above the ceiling: what the plan counts as dropped is really  *)
(* dropped, so the bank's two tests for a protected cell must agree.          *)
EnforcementMeetsTheCap ==
  [][\A b \in Budgets, costly \in BOOLEAN :
       OverCells(b) /\ EnforceMemoryBudget(b, costly) =>
         \/ Cardinality(Held') <= b.maxCells
         \/ \A k \in Held' : IsProtected(k) \/ entries'[k].liminality > b.ceiling]_bankVars
=============================================================================
