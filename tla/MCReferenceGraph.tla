-------------------------- MODULE MCReferenceGraph --------------------------
(* Small instances of ReferenceGraph for TLC. *)
EXTENDS ReferenceGraph, TLC

CONSTANTS t1, t2

(* No definition of the module tells one surface from another. *)
Symmetry == Permutations(Files)
=============================================================================
