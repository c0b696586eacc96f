---------------------------- MODULE ClusterProps ----------------------------
(***************************************************************************)
(* What the cluster commands are supposed to keep true.                    *)
(***************************************************************************)
EXTENDS ClusterOps

Listed == IF manifest = None THEN {} ELSE {manifest[i].dir : i \in DOMAIN manifest}

Position(d) == CHOOSE i \in DOMAIN Members : Members[i] = d

\* Where there is a manifest, no member escapes it: whatever a deploy has left
\* in a member's directory, a running server without a config included, is
\* listed, so that cluster destroy finds it ("the on-disk state and the manifest
\* agree", cluster/deploy.go).
ManifestListsRemains ==
  manifest # None /\ ~ClusterBusy =>
    \A i \in DOMAIN Members : disk[Members[i]].made => Members[i] \in Listed

\* Members never share a port, not even with one of them down while the next
\* is deployed: each scans above the one before ("no two members can land on
\* the same port", cluster/deploy.go).
MemberPortsIncrease ==
  \A i, j \in DOMAIN Members :
    LET a == disk[Members[i]].cfg
        b == disk[Members[j]].cfg IN
    i < j /\ a # None /\ b # None => a.port < b.port

\* cluster deploy exits 0 only with every member deployed, attached to the
\* primary, and, if it is a standby, with its slot on the primary, whatever
\* crashed and came back meanwhile.
DeployOkMeansAttached ==
  [][clu.at = "deploy.save" /\ clu'.at = "ok" =>
       /\ Listed' = {Members[i] : i \in DOMAIN Members}
       /\ \A i \in DOMAIN Members \ {1} :
            LET cfg == disk[Members[i]].cfg IN
            /\ cfg # None
            /\ IF clu.mode = "physical"
               THEN /\ cfg.physical = [src |-> Primary, slot |-> Members[i]]
                    /\ \E s \in db[Primary].slots : s.owner = Members[i]
               ELSE /\ cfg.logical = [src |-> Primary, sub |-> Members[i]]
                    /\ db[Primary].pub]_clusterVars

\* As long as its programs can be run, a cluster command leaves no server
\* running on a directory it took away; not even that of a member that failed
\* before it had a config (destroyFailedMemberStub).
ClusterLeavesNoStray ==
  [][ClusterBusy /\ clu.tools => strays' \subseteq strays]_clusterVars

\* cluster destroy takes the primary away last: no other member is running on
\* it, needing its slots, by then (destroy.go, "Reverse order matters").
PrimaryGoesLast ==
  [][ClusterBusy /\ disk[Primary].cfg # None /\ disk'[Primary].cfg = None =>
       \A i \in DOMAIN Members \ {1} : srv[Members[i]] = None]_clusterVars

\* The manifest outlives the sandboxes it lists: it is removed only when none
\* of them has a config left, so that an interrupted or partly failed cluster
\* destroy can be run again.
ManifestOutlivesSandboxes ==
  [][manifest # None /\ manifest' = None =>
       \A d \in Listed : disk'[d].cfg = None]_clusterVars

\* ... and so that it ends with an empty directory: "leave manifest in place so
\* the user can finish by hand or rerun" (cluster/destroy.go).
ManifestOutlivesMembers ==
  [][manifest # None /\ manifest' = None =>
       \A d \in Listed : ~disk'[d].made]_clusterVars

\* A cluster command returns, whatever happens to the members meanwhile.
ClusterCommandReturns == ClusterBusy ~> ~ClusterBusy
=============================================================================
