------------------------------ MODULE MCRuntime ------------------------------
(* Small instances of the runtime's parts for TLC.  The parts share no state,  *)
(* so a behaviour runs one of them, chosen at the start, and the other parts   *)
(* keep their initial states.  A part takes at most MaxMoves[part] steps.      *)
EXTENDS RegisterBank, BeatCache, HotSession, TLC

CONSTANTS dflt, watch, past, mk, free1, free2, s1, s2, block, line, Parts, MaxMoves

VARIABLES part, moves

mcVars == <<bankVars, plane, sessionVars, part, moves>>

(* Three cells, local ones dropped; two cells, any dropped, and no facet       *)
(* stripping.                                                                  *)
MCBudgets == {[maxCells |-> 3, ceiling |-> 0, preferFacets |-> TRUE],
              [maxCells |-> 2, ceiling |-> 1, preferFacets |-> FALSE]}
MCWriteOptions == {[force |-> FALSE, immutable |-> "keep", phase |-> NoPhase],
                   [force |-> FALSE, immutable |-> "yes", phase |-> 2]}

MCTtl == [hot |-> 1, warm |-> 2, cold |-> 4]
(* One dialect leaves texts alone; the other collapses newlines, and s2 is what *)
(* it makes of either text.                                                    *)
MCPrepared == [x \in Sources \X Dialects |-> IF x[2] = line THEN s2 ELSE x[1]]
MCRemembers == [d \in Dialects |-> TRUE]
MCTier == [d \in Dialects |-> IF d = block THEN "warm" ELSE "cold"]
MCVolatility == [d \in Dialects |-> IF d = block THEN 30 ELSE 74]
MCKeys == {ProductKey(s, d) : s \in Sources, d \in Dialects}
MCValues == {Product(s, d) : s \in Sources, d \in Dialects}
MCGroups == {{k \in CacheKeys : k.text = t} : t \in Texts}
MCMoves == [bank |-> 4, cache |-> 4, session |-> 5]
Symmetry == Permutations({free1, free2})

MCInit ==
  /\ BankInit /\ CacheInit /\ SessionInit
  /\ part \in Parts
  /\ moves = 0

MCNext ==
  /\ moves < MaxMoves[part]
  /\ moves' = moves + 1
  /\ part' = part
  /\ \/ part = "bank" /\ BankNext /\ UNCHANGED <<plane, sessionVars>>
     \/ part = "cache" /\ CacheNext /\ UNCHANGED <<bankVars, sessionVars>>
     \/ part = "session" /\ SessionNext /\ UNCHANGED <<bankVars, plane>>

MCSpec == MCInit /\ [][MCNext]_mcVars

(* Every part's variables keep their types. *)
RuntimeTypeOK == BankTypeOK /\ CacheTypeOK /\ SessionTypeOK
=============================================================================
