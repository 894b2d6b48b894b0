------------------------------ MODULE MCServer ---------------------------------
(* Small instances for TLC of the language server's documents, diagnostics and *)
(* life, and of what the VS Code extension keeps beside it.  The parts share   *)
(* no state, so a behaviour runs one of them, chosen at the start, and the     *)
(* others keep an initial state.  The two ages of DocumentStore keep the ratio *)
(* of the code's 64 and 256, and its epoch bound leaves room for a document to *)
(* be retired, opened again and retired again.                                 *)
EXTENDS DocumentStore, Diagnostics, ServerLifecycle, CaptureMode, CursorContext, TLC

CONSTANTS u1, u2, t1, t2, lens, hint, On, Parts

VARIABLE part

mcVars == <<vars, diagVars, lifeVars, captureVars, cursorVars, part>>

MCSize(kind) == IF kind \in {"open", "request"} THEN 2 ELSE 1
MCSettings == <<lens, hint>>

MCInit ==
  /\ part \in Parts
  /\ Init /\ DiagInit /\ LifeInit /\ CaptureInit /\ CursorInit
  /\ part # "life" => capable
  /\ part # "capture" => settings = [k \in Keys |-> Unset]
  /\ part # "cursor" => pos = 1

MCNext ==
  /\ part' = part
  /\ \/ /\ part = "store" /\ Next
        /\ UNCHANGED <<diagVars, lifeVars, captureVars, cursorVars>>
     \/ /\ part = "diagnostics" /\ DiagNext
        /\ UNCHANGED <<vars, lifeVars, captureVars, cursorVars>>
     \/ /\ part = "life" /\ LifeNext
        /\ UNCHANGED <<vars, diagVars, captureVars, cursorVars>>
     \/ /\ part = "capture" /\ CaptureNext
        /\ UNCHANGED <<vars, diagVars, lifeVars, cursorVars>>
     \/ /\ part = "cursor" /\ CursorNext
        /\ UNCHANGED <<vars, diagVars, lifeVars, captureVars>>

(* In the parts that are not run nothing is enabled that fairness asks for. *)
MCSpec == MCInit /\ [][MCNext]_mcVars /\ DiagFairness /\ LifeFairness

(* Every part's variables keep their types. *)
ServerTypeOK == TypeOK /\ DiagTypeOK /\ LifeTypeOK /\ CaptureTypeOK /\ CursorTypeOK
=============================================================================
