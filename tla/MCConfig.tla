------------------------------ MODULE MCConfig ------------------------------
(***************************************************************************)
(* Small instances of ConfigStore.                                         *)
(***************************************************************************)
EXTENDS ConfigProps, TLC

Symmetry == Permutations(Users)
=============================================================================
