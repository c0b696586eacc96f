---------------------------- MODULE MCClusterOps ----------------------------
(***************************************************************************)
(* Small instances of ClusterOps.  Slots and subscriptions of a cluster    *)
(* are named after their members, so Names and Dirs are the same here.     *)
(***************************************************************************)
EXTENDS ClusterProps, TLC

CONSTANTS A, B, C, c1, c2

TwoMembers == <<A, B>>
ThreeMembers == <<A, B, C>>
=============================================================================
