------------------------------ MODULE MCStatus ------------------------------
(***************************************************************************)
(* Small instances of StatusOps: a cluster of two members and, where there *)
(* is a third directory, a sandbox beside it.                              *)
(***************************************************************************)
EXTENDS StatusProps, TLC

CONSTANTS A, B, C, c1, c2

TwoMembers == <<A, B>>
=============================================================================
