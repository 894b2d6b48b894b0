-------------------------- MODULE MCWorkspaceIndex --------------------------
(* Small instances of WorkspaceIndex for TLC: two files in scope, one of   *)
(* them in the folder that may go, and one file outside the scope.         *)
EXTENDS WorkspaceIndex, TLC

CONSTANTS inner, outer, ignored, plain, defining, s1, s2

(* The two slots are alike. *)
Symmetry == Permutations(Slots)
=============================================================================
