---------------------------- MODULE MCSandboxOps ----------------------------
(***************************************************************************)
(* Small instances of SandboxOps.  The .cfg files choose the sandboxes,    *)
(* commands, faults and the bound on invocations of each run.              *)
(***************************************************************************)
EXTENDS CatalogRefinement, TLC

\* Invocations are interchangeable, and so are sandboxes: no definition and no
\* run names one.
Symmetry == Permutations(Clients) \cup Permutations(Dirs)

\* What a deploy and a publish leave: one sandbox, up and a publisher, with nothing
\* in flight.  A run that begins here has its few invocations for what comes next.
PublisherInit ==
  LET d == CHOOSE d \in Dirs : TRUE
      cfg == [port |-> PortBase, role |-> "primary",
              physical |-> None, logical |-> None] IN
  /\ disk = [e \in Dirs |->
       IF e = d
       THEN [made |-> TRUE, data |-> "primary", pid |-> "live", cfg |-> cfg]
       ELSE NoFiles]
  /\ srv = [e \in Dirs |-> IF e = d THEN PortBase ELSE None]
  /\ db = [e \in Dirs |->
       IF e = d
       THEN [NoDatabase EXCEPT !.pub = TRUE, !.walConf = TRUE, !.walLive = TRUE]
       ELSE NoDatabase]
  /\ strays = {} /\ cl = [c \in Clients |-> Idle] /\ calls = 0

PublisherSpec ==
  PublisherInit /\ [][Next]_vars /\ \A c \in Clients : WF_vars(ClientStep(c))
=============================================================================
