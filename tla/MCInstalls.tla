----------------------------- MODULE MCInstalls -----------------------------
(***************************************************************************)
(* Small instances of Installs.                                            *)
(***************************************************************************)
EXTENDS InstallsProps, TLC

CONSTANTS b1, b2, v1, v2, p1, p2

Names == [p \in Prefixes |-> IF p = p2 THEN v2 ELSE v1]

Symmetry == Permutations(Builders)
=============================================================================
