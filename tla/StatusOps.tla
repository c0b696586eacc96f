----------------------------- MODULE StatusOps -----------------------------
(***************************************************************************)
(* status, cluster status and global_status: a process that reads the      *)
(* directories one after the other and changes nothing, while the cluster  *)
(* and sandbox commands go on.                                             *)
(*                                                                         *)
(* The members are subdirectories of the cluster directory; the other      *)
(* sandboxes stand beside it under the root.  Rows are kept by directory:  *)
(* how often it is listed, and the last state shown for it.                *)
(***************************************************************************)
EXTENDS ClusterProps

VARIABLES
  walk,    \* the status command: where it stands and what it has read
  steady,  \* history: sandboxes that were in place ever since it began
  past     \* history: states of the server since its config was read

statusVars == <<clusterVars, walk, steady, past>>

Kinds == {"status", "cluster status", "global_status"}

WalkPoints == {"idle", "entries", "manifest", "members", "pid", "listen", "sql",
               "render", "over"}

RunStates == {"running", "stopped", "crashed"}

MemberDirs == {Members[i] : i \in DOMAIN Members}

\* cluster: the cluster directory is still to be visited.  outer, inner: the
\* other entries still to be visited, of the root and of the cluster directory
\* when it has no manifest.  named: the members the manifest names.  dir, port,
\* pid: of the sandbox looked at.  rows, state: what is listed.  answers: whose
\* server answered the queries.
Walk == [at : WalkPoints, kind : Kinds, cluster : BOOLEAN, outer : SUBSET Dirs,
         inner : SUBSET Dirs, named : Seq(Dirs), dir : Dirs \cup {None},
         port : Ports \cup {None}, pid : BOOLEAN, rows : [Dirs -> Nat],
         state : [Dirs -> RunStates \cup {None}], answers : SUBSET Dirs]

NoWalk == [at |-> "idle", kind |-> "status", cluster |-> FALSE, outer |-> {},
           inner |-> {}, named |-> <<>>, dir |-> None, port |-> None,
           pid |-> FALSE, rows |-> [d \in Dirs |-> 0],
           state |-> [d \in Dirs |-> None], answers |-> {}]

StatusTypeOK ==
  /\ ClusterTypeOK
  /\ walk \in Walk
  /\ steady \subseteq Dirs /\ past \subseteq {"up", "down"}

StatusInit ==
  ClusterInit /\ walk = NoWalk /\ steady = {} /\ past = {}

-----------------------------------------------------------------------------

Made == {d \in Dirs : disk[d].made}

\* status -s d.
BeginStatus ==
  /\ walk.at = "idle"
  /\ \E d \in Dirs :
       walk' = [NoWalk EXCEPT !.at = "entries", !.outer = {d}]

\* cluster status: of a directory with a manifest.
BeginClusterStatus ==
  /\ walk.at = "idle" /\ manifest # None
  /\ walk' = [NoWalk EXCEPT !.at = "manifest", !.kind = "cluster status"]

\* The entries of the root are read at once.
BeginGlobalStatus ==
  /\ walk.at = "idle"
  /\ walk' = [NoWalk EXCEPT !.at = "entries", !.kind = "global_status",
                !.cluster = manifest # None \/ Made \cap MemberDirs # {},
                !.outer = Made \ MemberDirs]

\* loadSandboxOrFail, loadSandboxEntry.  Where there is no config there is
\* nothing to show, only plain directories.
Look(d, rest) ==
  \/ /\ disk[d].cfg # None
     /\ walk' = [rest EXCEPT !.at = "pid", !.dir = d, !.port = disk[d].cfg.port]
  \/ disk[d].cfg = None /\ walk' = rest

\* walkRoot, depth first: what is left of the cluster directory, then the rest.
VisitEntry ==
  /\ walk.at = "entries"
  /\ \E d \in IF walk.inner # {} THEN walk.inner ELSE walk.outer :
       Look(d, [walk EXCEPT !.inner = @ \ {d}, !.outer = @ \ {d}])

\* A cluster directory is walked by its manifest and by its entries.
VisitCluster_bug ==
  /\ walk.at = "entries" /\ walk.inner = {} /\ walk.cluster
  /\ walk' = [walk EXCEPT !.cluster = FALSE, !.inner = Made \cap MemberDirs,
                          !.at = IF manifest # None THEN "manifest" ELSE @]

\* By its manifest where it has one, otherwise as the plain directory it is.
VisitCluster ==
  /\ walk.at = "entries" /\ walk.inner = {} /\ walk.cluster
  /\ walk' = IF manifest # None
             THEN [walk EXCEPT !.cluster = FALSE, !.at = "manifest"]
             ELSE [walk EXCEPT !.cluster = FALSE,
                               !.inner = Made \cap MemberDirs]

\* A manifest that has gone meanwhile is skipped; cluster status fails.
LoadManifest ==
  /\ walk.at = "manifest"
  /\ walk' = IF manifest = None THEN [walk EXCEPT !.at = "entries"]
             ELSE [walk EXCEPT !.at = "members",
                     !.named = [i \in DOMAIN manifest |-> manifest[i].dir]]

Row(w, d, state) == [w EXCEPT !.rows[d] = @ + 1, !.state[d] = state]

\* A member without a config is "missing" in global_status too.
VisitMember_untyped ==
  LET d == Head(walk.named)
      rest == [walk EXCEPT !.named = Tail(@)] IN
  /\ walk.at = "members" /\ walk.named # <<>>
  /\ IF disk[d].cfg # None THEN Look(d, rest) ELSE walk' = Row(rest, d, "missing")

\* A member without a config gets a row of its own: "stopped" in global_status,
\* "missing" in cluster status.
VisitMember ==
  LET d == Head(walk.named)
      rest == [walk EXCEPT !.named = Tail(@)] IN
  /\ walk.at = "members" /\ walk.named # <<>>
  /\ IF disk[d].cfg # None THEN Look(d, rest)
     ELSE walk' = Row(rest, d, IF walk.kind = "global_status" THEN "stopped"
                               ELSE None)

MembersVisited ==
  /\ walk.at = "members" /\ walk.named = <<>>
  /\ walk' = [walk EXCEPT !.at = "entries"]

\* isRunning, then isPortListening, of the port that was read with the config.
CheckPid ==
  /\ walk.at = "pid"
  /\ walk' = [walk EXCEPT !.at = "listen", !.pid = IsRunning(walk.dir)]

\* What the port says decides.
StateOf_bug(pid, listening) == IF listening THEN "running" ELSE "stopped"

StateOf(pid, listening) ==
  IF pid /\ listening THEN "running"
  ELSE IF ~pid /\ ~listening THEN "stopped" ELSE "crashed"

\* Back to where the sandbox was found.
Resumed(w) ==
  [w EXCEPT !.at = IF w.named # <<>> THEN "members" ELSE "entries",
            !.dir = None, !.port = None, !.pid = FALSE, !.answers = {}]

CheckListen ==
  LET state == StateOf(walk.pid, IsBusy(walk.port))
      shown == Row(walk, walk.dir, state) IN
  /\ walk.at = "listen"
  /\ walk' = IF state = "running" /\ walk.kind # "global_status"
             THEN [shown EXCEPT !.at = "sql"] ELSE Resumed(shown)

\* The version, replication, publication and subscription probes, each a psql of
\* its own to the port of the config; one that fails leaves its field empty.
Probe ==
  /\ walk.at = "sql"
  /\ \/ walk' = [walk EXCEPT !.answers = @ \cup Serving(walk.port)]
     \/ walk' = Resumed(walk)

Render ==
  /\ walk.at = "entries" /\ walk.inner = {} /\ walk.outer = {} /\ ~walk.cluster
  /\ walk' = [walk EXCEPT !.at = "render"]

Finish == walk.at = "render" /\ walk' = [NoWalk EXCEPT !.at = "over"]

Observe ==
  \/ BeginStatus \/ BeginClusterStatus \/ BeginGlobalStatus
  \/ VisitEntry \/ VisitCluster \/ LoadManifest \/ VisitMember \/ MembersVisited
  \/ CheckPid \/ CheckListen \/ Probe \/ Render \/ Finish

\* It has a config and, if the cluster directory it is in has a manifest, an
\* entry there.
InPlace(d) ==
  disk[d].cfg # None /\ (d \in MemberDirs /\ manifest # None => d \in Listed)

\* The history of the walk.
Witness ==
  /\ steady' = {d \in IF walk.at = "idle" THEN Dirs ELSE steady : InPlace(d)'}
  /\ past' = IF walk'.dir = None THEN {}
             ELSE (IF walk.dir = None THEN {} ELSE past)
                  \cup {IF srv'[walk'.dir] # None THEN "up" ELSE "down"}

StatusNext ==
  /\ \/ Observe /\ UNCHANGED clusterVars
     \/ ClusterNext /\ UNCHANGED walk
  /\ Witness

StatusSpec == StatusInit /\ [][StatusNext]_statusVars
=============================================================================
