---------------------------- MODULE MCReportOps ----------------------------
(***************************************************************************)
(* Small instances of ReportOps.                                           *)
(***************************************************************************)
EXTENDS ReportProps, TLC

\* No definition and no run names an invocation or a directory.
Symmetry == Permutations(Clients) \cup Permutations(Dirs)
=============================================================================
