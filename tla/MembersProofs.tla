---------------------------- MODULE MembersProofs ----------------------------
(***************************************************************************)
(* What cluster deploy and cluster destroy keep true of the members and    *)
(* their manifest, for every number of members, sandboxes, ports and       *)
(* invocations, whatever crashes.  Each property rests on AloneInv of      *)
(* ClusterProofs and on an invariant of its own.                           *)
(***************************************************************************)
EXTENDS ClusterProofs

\* A cluster destroy that has come to its end.
Finishing ==
  /\ clu.at = "destroy.next" /\ clu.i = 0 /\ clu'.at \in Ends
  /\ Quiet /\ UNCHANGED cl
  /\ UNCHANGED manifest \/ (manifest' = None /\ clu.survivors = {})

\* What it has done with the member it was at.
Handled ==
  \/ Victim.dir \in clu'.survivors
  \/ disk'[Victim.dir].cfg = None
  \/ clu.at = "destroy.member" /\ cl[Conductor].at = "ok" /\ Quiet

\* It stays with the manifest it read.
Advancing ==
  /\ UNCHANGED manifest
  /\ clu.i \in 1 .. Len(clu.members)
  /\ clu'.members = clu.members /\ clu'.tools = clu.tools
  /\ \/ /\ clu'.at = "destroy.next" /\ clu'.i = clu.i - 1
        /\ clu.survivors \subseteq clu'.survivors /\ Handled
     \/ /\ clu'.at \in {"destroy.member", "stub.stop", "stub.rm"}
        /\ clu'.i = clu.i /\ clu'.survivors = clu.survivors
        /\ clu'.at = "destroy.member" => cl'[Conductor].at # "ok" /\ Quiet

LEMMA DestroyMoves ==
  ASSUME CluInv, ClusterDestroyStep
  PROVE  /\ Finishing \/ Advancing
         /\ clu.at \in DestroyPoints /\ ~InFlight(Conductor)
<1>1. /\ clu \in Cluster /\ cl \in [Clients -> Client] /\ Conductor \in Clients
      /\ disk \in [Dirs -> Files]
  BY TheMembers DEF CluInv, Inv, TypeOK, HostTypeOK
<1>2. clu.at \in DestroyPoints /\ ~InFlight(Conductor)
  BY DEF ClusterDestroyStep, DestroyMember, MemberDestroyed, StubStop, StubRemove,
     FinishDestroy, ClusterAt, DestroyPoints
<1>. SUFFICES Finishing \/ Advancing
  BY <1>2
<1>3. CASE FinishDestroy
  <2>1. \E outcome \in Ends : ClusterReturn(outcome)
    BY <1>3 DEF FinishDestroy, Ends
  <2>2. clu'.at \in Ends
    BY <2>1 DEF ClusterReturn, NoCluster
  <2>. QED BY <1>3, <2>2 DEF FinishDestroy, ClusterAt, Finishing, Idling
<1>4. ASSUME DestroyMember \/ MemberDestroyed \/ StubStop \/ StubRemove
      PROVE  clu.i \in 1 .. Len(clu.members) /\ Victim.dir \in Dirs
  <2>1. clu.i \in 1 .. Len(clu.members)
    BY <1>1, <1>4 DEF DestroyMember, MemberDestroyed, StubStop, StubRemove, ClusterAt,
       CluInv, Reached, Cluster
  <2>. QED BY <2>1, VictimTyped
<1>5. ASSUME NEW s \in SUBSET Dirs, NextMember(s), UNCHANGED manifest,
             clu.survivors \subseteq s, clu.i \in 1 .. Len(clu.members),
             \/ Victim.dir \in s
             \/ disk'[Victim.dir].cfg = None
             \/ clu.at = "destroy.member" /\ cl[Conductor].at = "ok" /\ Quiet
      PROVE  Advancing
  BY <1>1, <1>5 DEF NextMember, Advancing, Handled, Cluster
<1>6. CASE DestroyMember
  <2> DEFINE d == Victim.dir
             src == SourceOf(d)
  <2>1. CASE /\ disk[d].cfg # None /\ clu' = [clu EXCEPT !.at = "destroy.member"]
             /\ Call("destroy", "destroy.load", d, src, None, None, PortBase)
    <3> HIDE DEF src
    <3>1. cl'[Conductor].at = "destroy.load"
      BY <1>1, <2>1 DEF Call
    <3>. QED BY <1>1, <1>4, <1>6, <2>1, <3>1 DEF DestroyMember, Advancing, Cluster
  <2>2. CASE clu' = [clu EXCEPT !.at = "stub.stop"]
    BY <1>1, <1>4, <1>6, <2>2 DEF DestroyMember, Advancing, Cluster
  <2>3. CASE disk[d].cfg = None /\ NextMember(clu.survivors)
    <3>1. disk' = disk /\ UNCHANGED manifest /\ clu.survivors \in SUBSET Dirs
      BY <1>1, <1>6 DEF DestroyMember, Quiet, host, Cluster
    <3>. QED BY <1>4, <1>5, <1>6, <2>3, <3>1
  <2>. QED BY <1>2, <1>6, <2>1, <2>2, <2>3 DEF DestroyMember
<1>7. CASE MemberDestroyed
  <2>1. /\ clu.at = "destroy.member" /\ UNCHANGED manifest /\ Quiet
        /\ NextMember(IF cl[Conductor].at = "ok" THEN clu.survivors
                      ELSE clu.survivors \cup {Victim.dir})
        /\ clu.survivors \in SUBSET Dirs
    BY <1>1, <1>7 DEF MemberDestroyed, ClusterAt, Cluster
  <2>2. CASE cl[Conductor].at = "ok"
    BY <1>4, <1>5, <1>7, <2>1, <2>2
  <2>3. CASE cl[Conductor].at # "ok"
    <3>1. clu.survivors \cup {Victim.dir} \in SUBSET Dirs
      BY <1>4, <1>7, <2>1
    <3>. QED BY <1>4, <1>5, <1>7, <2>1, <2>3, <3>1
  <2>. QED BY <1>2, <2>2, <2>3
<1>8. CASE StubStop
  BY <1>1, <1>2, <1>4, <1>8 DEF StubStop, Advancing, Cluster
<1>9. CASE StubRemove
  <2> DEFINE d == Victim.dir
             torn == [made |-> TRUE, data |-> "torn", pid |-> "none", cfg |-> None]
  <2>1. UNCHANGED manifest /\ clu.survivors \in SUBSET Dirs /\ d \in Dirs
        /\ clu.i \in 1 .. Len(clu.members)
    BY <1>1, <1>4, <1>9 DEF StubRemove, Cluster
  <2>2. CASE Removed(d, NoFiles) /\ NextMember(clu.survivors)
    <3>1. disk'[d].cfg = None
      BY <1>1, <2>1, <2>2 DEF Removed, NoFiles
    <3>. QED BY <1>5, <2>1, <2>2, <3>1
  <2>3. CASE NextMember(clu.survivors \cup {d})
    BY <1>5, <2>1, <2>3
  <2>. QED BY <1>2, <1>9, <2>2, <2>3 DEF StubRemove
<1>. QED BY <1>2, <1>3, <1>6, <1>7, <1>8, <1>9 DEF ClusterDestroyStep

\* Where a step of a sandbox command that the cluster command has called writes.
LEMMA MemberFiles ==
  ASSUME AloneInv, MemberStep
  PROVE  /\ ClusterBusy /\ InFlight(Conductor) /\ cl[Conductor].dir \in Dirs
         /\ Elsewhere(cl[Conductor].dir)
         /\ \/ ClientStep(Conductor)
            \/ Skips(Conductor) /\ UNCHANGED <<disk, srv, strays>>
<1>1. /\ CluInv /\ LifeInv /\ HostTypeOK /\ ClusterBusy /\ Conductor \in Clients
      /\ ClientStep(Conductor) \/ Skips(Conductor)
  BY TheMembers, WithoutToolsSkips DEF AloneInv, LifeInv, Inv, TypeOK, MemberStep
<1>2. InFlight(Conductor) /\ cl[Conductor].dir \in Dirs
  BY <1>1, ConductorMoves DEF CluInv, Inv, CallsWellFormed
<1>3. CASE ClientStep(Conductor)
  BY <1>1, <1>2, <1>3, OwnSandboxOnly
<1>4. CASE Skips(Conductor)
  BY <1>1, <1>2, <1>4 DEF Skips, Quiet, host, Elsewhere
<1>. QED BY <1>1, <1>3, <1>4

\* Nothing but a deploy makes a directory; what could not be removed stays.
\* Nothing else records a port either, with config set out of the way.
LEMMA NothingNew ==
  ASSUME Disciplined, Ops \cap DeployOps = {}, AloneInv, ClusterNext,
         ~(MemberStep /\ clu.at = "deploy.member")
  PROVE  /\ \A d \in Dirs : disk'[d].made =>
              disk[d].made \/ (StubRemove /\ d = Victim.dir)
         /\ "set" \notin Ops => \A d \in Dirs : disk'[d].cfg # None =>
              disk[d].cfg # None /\ disk'[d].cfg.port = disk[d].cfg.port
<1> DEFINE Made == \A d \in Dirs : disk'[d].made => disk[d].made
           Same == \A d \in Dirs : disk'[d].cfg # None =>
                     disk[d].cfg # None /\ disk'[d].cfg.port = disk[d].cfg.port
<1>1. /\ CluInv /\ LifeInv /\ Marked /\ HostTypeOK /\ cl \in [Clients -> Client]
  BY DEF AloneInv, LifeInv, Inv, TypeOK
<1>2. ASSUME NEW c \in Clients, ClientStep(c), cl[c].op \notin DeployOps,
             cl[c].dir \in Dirs, Elsewhere(cl[c].dir)
      PROVE  Made /\ (cl[c].op # "set" => Same)
  <2>1. Made
    BY <1>1, <1>2, FileFrame DEF Elsewhere
  <2>2. ASSUME cl[c].op # "set" PROVE Same
    <3>1. cl[c].at # "set.save"
      BY <1>1, <1>2, <2>2, StepIsInFlight DEF CluInv, Inv, CallsWellFormed, OnTrack
    <3>. QED BY <1>1, <1>2, <3>1, FileFrame DEF Elsewhere
  <2>. QED BY <2>1, <2>2
<1>3. CASE MemberStep
  <2>1. cl[Conductor].op \in {"publish", "destroy"}
    BY <1>1, <1>3, MemberFiles DEF CluInv, Conducts
  <2>2. CASE ClientStep(Conductor)
    BY <1>2, <1>3, <2>1, <2>2, MemberFiles, TheMembers DEF DeployOps
  <2>3. CASE UNCHANGED disk
    BY <2>3
  <2>. QED BY <1>3, <2>2, <2>3, MemberFiles
<1>4. CASE ClusterDeployStep
  BY <1>1, <1>4, DeployMoves DEF Quiet, host
<1>5. CASE ClusterDestroyStep
  <2>1. CASE StubStop \/ StubRemove
    BY <2>1, StubMoves DEF Elsewhere
  <2>. QED BY <1>5, <2>1
       DEF ClusterDestroyStep, DestroyMember, MemberDestroyed, FinishDestroy, Quiet, host
<1>6. CASE OtherStep
  <2>1. PICK c \in Clients \ {Conductor} : BeginCall(c) \/ ClientStep(c) \/ KillClient(c)
    BY <1>6 DEF OtherStep
  <2>2. CASE ClientStep(c)
    <3>1. InFlight(c) /\ cl[c].dir \in Dirs /\ cl[c].op \in Ops
      BY <1>1, <2>2, StepIsInFlight
         DEF AloneInv, OthersOffered, CluInv, Inv, CallsWellFormed
    <3>2. Elsewhere(cl[c].dir)
      BY <1>1, <2>2, <3>1, OwnSandboxOnly
    <3>. QED BY <1>2, <2>2, <3>1, <3>2
  <2>3. CASE BeginCall(c) \/ KillClient(c)
    BY <2>3 DEF BeginCall, BeginDeploy, BeginLifecycle, BeginDestroy, BeginPromote,
       BeginPublish, BeginSubscribe, BeginSet, Begin, KillClient, Quiet, host
  <2>. QED BY <2>1, <2>2, <2>3
<1>7. CASE ClusterEnvironment
  BY <1>1, <1>7, MachineFiles DEF ClusterEnvironment, Environment
<1>8. CASE BeginCluster \/ KillCluster
  BY <1>8 DEF BeginCluster, BeginClusterDeploy, BeginClusterDestroy, KillCluster,
     Quiet, host
<1>. QED BY <1>3, <1>4, <1>5, <1>6, <1>7, <1>8 DEF ClusterNext, ClusterStep

\* How a step changes the manifest and the list that a destroy works through.
LEMMA ManifestMoves ==
  ASSUME Disciplined, AloneInv, ClusterNext
  PROVE  /\ \/ UNCHANGED manifest
            \/ ClusterDestroyStep /\ Finishing
            \/ ClusterDeployStep /\ Ending
         /\ clu'.at \in DestroyPoints =>
              \/ BeginClusterDestroy /\ clu'.members = manifest /\ UNCHANGED manifest
              \/ /\ clu.at \in DestroyPoints /\ clu'.members = clu.members
                 /\ UNCHANGED manifest
<1>1. CluInv /\ clu \in Cluster
  BY DEF AloneInv, CluInv
<1>2. CASE MemberStep
  BY <1>1, <1>2, MemberStepKeeps
<1>3. CASE ClusterDeployStep
  BY <1>1, <1>3, DeployMoves DEF Ending, Going, DestroyPoints, DeployPoints, Ends
<1>4. CASE ClusterDestroyStep
  BY <1>1, <1>4, DestroyMoves DEF Finishing, Advancing, DestroyPoints, Ends
<1>5. CASE OtherStep
  BY <1>5 DEF OtherStep
<1>6. CASE ClusterEnvironment \/ KillCluster
  BY <1>1, <1>6 DEF ClusterEnvironment, KillCluster, ClusterReturn, NoCluster,
     DestroyPoints
<1>7. CASE BeginCluster
  BY <1>7 DEF BeginCluster, BeginClusterDeploy, BeginClusterDestroy, NoCluster,
     DestroyPoints
<1>. QED BY <1>2, <1>3, <1>4, <1>5, <1>6, <1>7 DEF ClusterNext, ClusterStep

\* The members that a deploy has got up are the first ones.
LEMMA UpToHere ==
  ASSUME CluInv, clu.at \in DeployPoints
  PROVE  /\ clu.i \in 1 .. Len(Members)
         /\ Len(clu.members) = IF clu.at = "deploy.member" THEN clu.i - 1 ELSE clu.i
<1>1. clu.i \in Nat /\ Len(Members) \in Nat /\ Len(Members) > 1
  BY TheMembers DEF CluInv, Cluster
<1>2. CASE clu.at = "deploy.member"
  <2>1. clu.i \in 1 .. Len(Members) /\ Len(clu.members) = clu.i - 1
    BY <1>2 DEF CluInv, Reached, FirstOnes
  <2>. QED BY <1>2, <2>1
<1>3. CASE clu.at \in {"deploy.publish", "deploy.sql"}
  <2>1. clu.i = 1 /\ Len(clu.members) = 1 /\ clu.at # "deploy.member"
    BY <1>3 DEF CluInv, Reached, FirstOnes
  <2>2. 1 \in 1 .. Len(Members)
    BY <1>1
  <2>. QED BY <2>1, <2>2
<1>4. CASE clu.at = "deploy.save"
  <2>1. clu.i = Len(Members) /\ Len(clu.members) = Len(Members) /\ clu.at # "deploy.member"
    BY <1>4 DEF CluInv, Reached, FirstOnes
  <2>2. Len(Members) \in 1 .. Len(Members)
    BY <1>1
  <2>. QED BY <2>1, <2>2
<1>. QED BY <1>2, <1>3, <1>4 DEF DeployPoints

\* The manifest has the members in their order.
Ordered ==
  manifest # None =>
    \A j \in 1 .. Len(manifest) : j <= Len(Members) /\ manifest[j].dir = Members[j]

LEMMA OrderedStep ==
  ASSUME Disciplined, AloneInv, Ordered, ClusterNext
  PROVE  Ordered'
<1>1. CluInv
  BY DEF AloneInv
<1>2. CASE UNCHANGED manifest \/ manifest' = None
  BY <1>2 DEF Ordered
<1>3. CASE ClusterDeployStep /\ Ending /\ ~UNCHANGED manifest
  <2>1. /\ Len(manifest') = clu.i
        /\ \A j \in 1 .. clu.i : manifest'[j].dir = Members[j]
    BY <1>3 DEF Ending
  <2>2. clu.i \in 1 .. Len(Members)
    BY <1>1, <1>3, DeployMoves, UpToHere
  <2>3. \A j \in 1 .. clu.i : j <= Len(Members)
    BY <2>2, TheMembers
  <2>. QED BY <2>1, <2>3 DEF Ordered
<1>. QED BY <1>2, <1>3, ManifestMoves DEF Finishing

-----------------------------------------------------------------------------
\* The manifest lists what there is

\* A destroy works through the manifest it has read.
FromManifest ==
  clu.at \in DestroyPoints => manifest # None /\ manifest = clu.members

\* With single-sandbox deploys kept off the members' directories, what there is
\* of the members is listed at every moment, and not only between two commands.
ListsAll ==
  manifest # None =>
    \A i \in DOMAIN Members : disk[Members[i]].made => Members[i] \in Listed

RemainsInv == AloneInv /\ FromManifest /\ ListsAll

LEMMA RemainsStep ==
  ASSUME Disciplined, Ops \cap DeployOps = {}, RemainsInv, [ClusterNext]_clusterVars
  PROVE  RemainsInv'
<1>1. /\ AloneInv' /\ AloneInv /\ CluInv /\ clu \in Cluster
      /\ DOMAIN Members = 1 .. Len(Members)
      /\ \A i \in 1 .. Len(Members) : Members[i] \in Dirs
  BY AloneStep, TheMembers DEF RemainsInv, AloneInv, CluInv
<1>2. CASE UNCHANGED clusterVars
  BY <1>1, <1>2 DEF RemainsInv, FromManifest, ListsAll, Listed, clusterVars, vars
<1>3. CASE ClusterNext
  <2>1. FromManifest'
    BY <1>1, <1>3, ManifestMoves DEF RemainsInv, FromManifest, BeginClusterDestroy
  <2>2. CASE clu.at = "deploy.member" /\ ~ClusterDeployStep
    <3>1. UNCHANGED manifest \/ manifest' = None
      BY <1>1, <1>3, <2>2, ManifestMoves DEF Finishing
    <3>2. manifest = None
      BY <1>1, <2>2 DEF AloneInv, Ahead, DeployPoints
    <3>. QED BY <1>1, <2>1, <3>1, <3>2 DEF RemainsInv, ListsAll
  <2>3. CASE ClusterDeployStep
    <3>1. CASE manifest' = None
      BY <1>1, <2>1, <3>1 DEF RemainsInv, ListsAll
    <3>2. CASE manifest' # None
      <4>1. UNCHANGED disk /\ Ending /\ clu.at \in DeployPoints /\ manifest = None
            /\ manifest' # None
        BY <1>1, <2>3, <3>2, DeployMoves DEF Going, AloneInv, Ahead, Quiet, host
      <4>2. /\ manifest' \in Seq(Member) /\ Len(manifest') = clu.i
            /\ \A j \in 1 .. clu.i : manifest'[j].dir = Members[j]
        BY <4>1 DEF Ending
      <4>3. \A j \in 1 .. Len(Members) : disk'[Members[j]].made => j \in 1 .. clu.i
        BY <1>1, <4>1 DEF AloneInv, Ahead, Cluster
      <4>4. \A j \in 1 .. clu.i : Members[j] \in Listed'
        BY <4>1, <4>2 DEF Listed
      <4>. QED BY <1>1, <2>1, <4>3, <4>4 DEF RemainsInv, ListsAll
    <3>. QED BY <3>1, <3>2
  <2>4. CASE clu.at # "deploy.member" /\ ~ClusterDeployStep
    <3>1. CASE manifest' = None
      BY <1>1, <2>1, <3>1 DEF RemainsInv, ListsAll
    <3>2. CASE UNCHANGED manifest /\ manifest # None
      <4>1. \A d \in Dirs : disk'[d].made => disk[d].made \/ (StubRemove /\ d = Victim.dir)
        BY <1>1, <1>3, <2>4, NothingNew
      <4>2. StubRemove => Victim.dir \in Listed
        <5>1. SUFFICES ASSUME StubRemove PROVE Victim.dir \in Listed
          OBVIOUS
        <5>2. clu.i \in 1 .. Len(clu.members) /\ clu.at \in DestroyPoints
              /\ clu.members \in Seq(Member)
          BY <1>1, <5>1, StubMoves DEF StubRemove, ClusterAt, DestroyPoints, Cluster
        <5>3. manifest = clu.members
          BY <5>2 DEF RemainsInv, FromManifest
        <5>. QED BY <3>2, <5>2, <5>3 DEF Listed, Victim
      <4>3. Listed' = Listed
        BY <3>2 DEF Listed
      <4>4. ListsAll'
        BY <1>1, <3>2, <4>1, <4>2, <4>3 DEF RemainsInv, ListsAll
      <4>. QED BY <1>1, <2>1, <4>4 DEF RemainsInv
    <3>. QED BY <1>1, <1>3, <2>4, <3>1, <3>2, ManifestMoves DEF Finishing
  <2>. QED BY <2>2, <2>3, <2>4
<1>. QED BY <1>2, <1>3

LEMMA AlwaysListed ==
  ASSUME Disciplined, Ops \cap DeployOps = {}
  PROVE  ClusterSpec => []RemainsInv
<1>1. ClusterInit => RemainsInv
  BY AloneInit DEF ClusterInit, NoCluster, RemainsInv, FromManifest, ListsAll,
     DestroyPoints
<1>2. RemainsInv /\ [ClusterNext]_clusterVars => RemainsInv'
  BY RemainsStep
<1>. QED BY <1>1, <1>2, PTL DEF ClusterSpec

\* No member escapes the manifest: whatever a deploy, completed, failed or cut
\* short, has left in a member's directory is listed, so that cluster destroy
\* finds it (cluster/deploy.go, which writes the manifest once, at the end).
THEOREM ManifestComplete ==
  ASSUME Disciplined, Ops \cap DeployOps = {}
  PROVE  ClusterSpec => []ManifestListsRemains
<1>1. RemainsInv => ManifestListsRemains
  BY DEF RemainsInv, ListsAll, ManifestListsRemains
<1>. QED BY <1>1, AlwaysListed, PTL

-----------------------------------------------------------------------------
\* The members' ports

\* A deploy chooses its port once, the one it was given or one at or above the
\* base of its scan, and remembers it until it exits.
LEMMA PortFrame ==
  ASSUME cl \in [Clients -> Client], NEW c \in Clients, cl[c].op \in DeployOps,
         OnTrack(cl[c].op, cl[c].at), ClientStep(c)
  PROVE  LET k == cl[c]
             n == cl'[c] IN
         \/ n.at \in Ends /\ n.port = None
         \/ /\ n.base = k.base /\ n.at # "port"
            /\ \/ n.port = k.port /\ k.at # "port"
               \/ /\ k.at \in {"port", "mkdir"} /\ n.port \in Ports
                  /\ IF k.port # None THEN n.port = k.port ELSE n.port >= k.base
<1> DEFINE k == cl[c]
           n == cl'[c]
           Goal == \/ n.at \in Ends /\ n.port = None
                   \/ /\ n.base = k.base /\ n.at # "port"
                      /\ \/ n.port = k.port /\ k.at # "port"
                         \/ /\ k.at \in {"port", "mkdir"} /\ n.port \in Ports
                            /\ IF k.port # None THEN n.port = k.port
                               ELSE n.port >= k.base
<1>1. k \in Client
  OBVIOUS
<1>2. /\ \A outcome \in Ends : Return(c, outcome) => Goal
      /\ \A point : Go(c, point) /\ point # "port" /\ k.at # "port" => Goal
  BY <1>1 DEF Return, Go, Idle, Client
<1>3. ASSUME NEW next \in {"init", "base"}, ResolvePort(c, next),
             k.at \in {"port", "mkdir"}
      PROVE  Goal
  <2>1. CASE Return(c, "fail")
    BY <1>2, <2>1 DEF Ends
  <2>2. ASSUME NEW p \in Ports, cl' = [cl EXCEPT ![c].port = p, ![c].at = next],
               IF k.port # None THEN p = k.port ELSE p >= k.base
        PROVE  Goal
    <3>1. n.port = p /\ n.at = next /\ n.base = k.base
      BY <1>1, <2>2 DEF Client
    <3>. QED BY <1>3, <2>2, <3>1
  <2>3. \A p : p \in FreePort(k.base, PortRange) => p \in Ports /\ p >= k.base
    BY <1>1, PortsAssumption, BoundsAssumption DEF FreePort, Client
  <2>. QED BY <1>3, <2>1, <2>2, <2>3 DEF ResolvePort
<1>4. ~LifecycleStep(c) /\ ~DestroyStep(c) /\ ~PromoteStep(c) /\ ~SetStep(c)
  BY DEF OnTrack, DeployOps, LifecycleStep, StartLoad, StartRun, StopLoad, StopUnlink,
     StopRun, DestroyStep, DestroyLoad, DropSubscription, DestroyStop, SlotLoad,
     SlotDrop, DestroyRemove, PromoteStep, PromoteLoad, PromoteRun, PromoteWait,
     PromoteSave, SetStep, SetLoad, SetSave, At
<1>5. CASE DeployStep(c)
  <2>1. CASE ChoosePort(c) \/ MakeDirChoosePort(c)
    BY <1>3, <2>1 DEF ChoosePort, MakeDirChoosePort, At
  <2>2. CASE InitDb(c) \/ LaunchDeployed(c)
    BY <1>2, <2>2 DEF InitDb, LaunchDeployed, PgCtlStart, At, Ends
  <2>3. CASE SaveDeployed(c)
    BY <1>2, <2>3 DEF SaveDeployed, Save, At, Ends
  <2>4. CASE ProbeSource(c)
    BY <1>1, <1>2, <2>4 DEF ProbeSource, At, Client, Ends
  <2>5. CASE ProbeRole(c)
    <3>1. \/ Return(c, "fail")
          \/ Go(c, "hba")
          \/ Go(c, "mkrole")
      BY <2>5 DEF ProbeRole
    <3>. QED BY <1>2, <2>5, <3>1 DEF ProbeRole, At, Ends
  <2>6. CASE CreateRole(c) \/ EnsureHba(c) \/ BaseBackup(c)
    <3>1. /\ \/ Return(c, "fail")
             \/ Go(c, "hba")
             \/ Go(c, "mkdir")
             \/ Go(c, "launch")
          /\ k.at # "port"
      BY <2>6 DEF CreateRole, EnsureHba, BaseBackup, At
    <3>. QED BY <1>2, <3>1 DEF Ends
  <2>. QED BY <1>5, <2>1, <2>2, <2>3, <2>4, <2>5, <2>6 DEF DeployStep
<1>6. CASE LogicalStep(c)
  <2>1. SubscribeLoad(c) \/ CreateSubscription(c) \/ SubscribeSave(c)
    BY <1>6 DEF LogicalStep, PublishLoad, ShowWalLevel, AlterSystem,
       CreatePublication, At, OnTrack, DeployOps
  <2>2. CASE SubscribeLoad(c)
    BY <1>1, <1>2, <2>2 DEF SubscribeLoad, At, Client, Ends
  <2>3. CASE CreateSubscription(c)
    <3>1. (Return(c, "fail") \/ Go(c, "sub.save")) /\ k.at # "port"
      BY <2>3 DEF CreateSubscription, At
    <3>. QED BY <1>2, <3>1 DEF Ends
  <2>4. CASE SubscribeSave(c)
    BY <1>2, <2>4 DEF SubscribeSave, Save, At, Ends
  <2>. QED BY <2>1, <2>2, <2>3, <2>4
<1>. QED BY <1>4, <1>5, <1>6 DEF ClientStep

\* The port the last member was deployed on is the highest recorded so far, and
\* the member at work scans above it.  A port of its own it has only before the
\* scan of the first member, when the operator asked for one, or after the scan.
Climbs ==
  /\ clu.at \in DeployPoints =>
       \A j \in 1 .. Len(Members) : disk[Members[j]].cfg # None =>
          clu.port # None /\ disk[Members[j]].cfg.port <= clu.port
  /\ clu.at = "deploy.member" /\ InFlight(Conductor) =>
       LET k == cl[Conductor] IN
       /\ \A j \in 1 .. clu.i - 1 : disk[Members[j]].cfg # None =>
             disk[Members[j]].cfg.port < k.base
       /\ k.port # None => \/ clu.i = 1 /\ k.at = "port"
                           \/ clu.port = k.port /\ (clu.i > 1 => k.port >= k.base)

PortsInv == AloneInv /\ MemberPortsIncrease /\ Climbs

LEMMA PortsRecorded ==
  ASSUME AloneInv
  PROVE  \A j \in 1 .. Len(Members) : disk[Members[j]].cfg # None =>
           disk[Members[j]].cfg.port \in Nat
BY TheMembers, PortsAssumption
   DEF AloneInv, CluInv, Inv, TypeOK, HostTypeOK, Files, Sandbox

\* A member at work writes the port of its deploy, or none.
LEMMA MemberAtWork ==
  ASSUME PortsInv, MemberStep, clu.at = "deploy.member"
  PROVE  PortsInv'
<1> DEFINE k == cl[Conductor]
           n == cl'[Conductor]
           d == Members[clu.i]
<1>1. /\ AloneInv /\ CluInv /\ LifeInv /\ Marked /\ AloneInv' /\ clu \in Cluster
      /\ cl \in [Clients -> Client] /\ Conductor \in Clients
      /\ DOMAIN Members = 1 .. Len(Members) /\ Len(Members) \in Nat
  BY MemberStepAlone, TheMembers DEF PortsInv, AloneInv, CluInv, Inv, TypeOK
<1>2. /\ InFlight(Conductor) /\ clu.i \in 1 .. Len(Members) /\ k.dir = d
      /\ k.op \in DeployOps /\ OnTrack(k.op, k.at) /\ Knows(k)
      /\ k \in Client /\ n \in Client
      /\ Expects(k.op, k.at, k.cfg, k.port, disk[d], srv[d])
  BY <1>1, MemberFiles
     DEF CluInv, Conducts, Reached, Inv, CallsWellFormed, LifeInv, Holds, DeployOps,
         AloneInv, TypeOK
<1>3. ClientStep(Conductor)
  <2>1. ~Skips(Conductor)
    BY <1>2 DEF Skips, OnTrack, DeployOps
  <2>. QED BY <1>1, <2>1, MemberFiles
<1>4. /\ clu'.at = "deploy.member" /\ clu'.i = clu.i
      /\ clu'.port = IF n.port # None THEN n.port ELSE clu.port
  BY <1>1 DEF MemberStep, Cluster
<1>5. \A j \in 1 .. Len(Members) : j # clu.i =>
        disk'[Members[j]] = disk[Members[j]]
  BY <1>1, <1>2, MemberFiles, TheMembers DEF Elsewhere
<1>6. \A j \in 1 .. Len(Members) : j > clu.i => disk[Members[j]].cfg = None
  BY <1>1, TheMembers DEF AloneInv, Ahead, Marked, DeployPoints
<1>7. /\ disk'[d].cfg # None =>
           \/ disk[d].cfg # None /\ disk'[d].cfg.port = disk[d].cfg.port
           \/ k.at = "save" /\ disk'[d].cfg.port = k.port
      /\ k.at \in {"port", "mkdir"} => disk[d].cfg = None
      /\ k.at = "save" => k.port # None /\ disk[d].cfg = None
  BY <1>1, <1>2, <1>3, FileFrame DEF OnTrack, DeployOps, Knows, Expects
<1>8. \/ n.at \in Ends /\ n.port = None
      \/ /\ n.base = k.base /\ n.at # "port"
         /\ \/ n.port = k.port /\ k.at # "port"
            \/ /\ k.at \in {"port", "mkdir"} /\ n.port \in Ports
               /\ IF k.port # None THEN n.port = k.port ELSE n.port >= k.base
  BY <1>1, <1>2, <1>3, PortFrame
<1>9. /\ \A j \in 1 .. Len(Members) : disk[Members[j]].cfg # None =>
           clu.port # None /\ disk[Members[j]].cfg.port <= clu.port
      /\ \A j \in 1 .. clu.i - 1 : disk[Members[j]].cfg # None =>
           disk[Members[j]].cfg.port < k.base
      /\ k.port # None => \/ clu.i = 1 /\ k.at = "port"
                          \/ clu.port = k.port /\ (clu.i > 1 => k.port >= k.base)
  BY <1>2 DEF PortsInv, Climbs, DeployPoints
<1>10. /\ \A j \in 1 .. Len(Members) : disk[Members[j]].cfg # None =>
            disk[Members[j]].cfg.port \in Nat
       /\ k.base \in Nat /\ Ports \subseteq Nat /\ None \notin Ports
       /\ k.port \in Ports \cup {None} /\ clu.port \in Ports \cup {None}
       /\ n.port \in Ports \cup {None} /\ clu.i \in Nat
  BY <1>1, <1>2, PortsRecorded, PortsAssumption, NoneAssumption DEF Client, Cluster
<1> HIDE DEF k, n
<1>11. MemberPortsIncrease'
  <2>1. ASSUME NEW i \in 1 .. Len(Members), NEW j \in 1 .. Len(Members), i < j,
               disk'[Members[i]].cfg # None, disk'[Members[j]].cfg # None
        PROVE  disk'[Members[i]].cfg.port < disk'[Members[j]].cfg.port
    <3>1. j <= clu.i
      BY <1>5, <1>6, <1>10, <2>1
    <3>2. disk'[Members[i]] = disk[Members[i]]
      BY <1>5, <1>10, <2>1, <3>1
    <3>3. CASE disk[Members[j]].cfg # None
                 /\ disk'[Members[j]].cfg.port = disk[Members[j]].cfg.port
      BY <1>1, <2>1, <3>2, <3>3 DEF PortsInv, MemberPortsIncrease
    <3>4. CASE j = clu.i /\ k.at = "save" /\ disk'[Members[j]].cfg.port = k.port
      <4>1. disk[Members[i]].cfg.port < k.base
        BY <1>9, <1>10, <2>1, <3>2, <3>4
      <4>2. k.port # None /\ clu.i > 1 /\ k.at # "port"
        BY <1>7, <1>10, <2>1, <3>4
      <4>3. k.port >= k.base
        BY <1>9, <4>2
      <4>4. disk[Members[i]].cfg.port \in Nat /\ k.base \in Nat /\ k.port \in Nat
        BY <1>10, <2>1, <3>2, <4>2
      <4>5. disk[Members[i]].cfg.port < k.port
        BY <4>1, <4>3, <4>4
      <4>. QED BY <3>2, <3>4, <4>5
    <3>. QED BY <1>5, <1>7, <2>1, <3>3, <3>4
  <2>. QED BY <1>1, <2>1 DEF MemberPortsIncrease
<1>12. ASSUME NEW j \in 1 .. Len(Members), disk'[Members[j]].cfg # None
       PROVE  clu'.port # None /\ disk'[Members[j]].cfg.port <= clu'.port
  <2>1. CASE n.port = None \/ (n.port = k.port /\ k.at # "port")
    <3>1. clu'.port = clu.port
      BY <1>4, <1>9, <2>1
    <3>2. CASE disk[Members[j]].cfg # None
                 /\ disk'[Members[j]].cfg.port = disk[Members[j]].cfg.port
      BY <1>9, <3>1, <3>2
    <3>3. CASE k.at = "save" /\ disk'[Members[j]].cfg.port = k.port
      <4>1. k.port # None /\ clu.port = k.port
        BY <1>7, <1>9, <3>3
      <4>2. k.port \in Nat
        BY <1>10, <4>1
      <4>. QED BY <3>1, <3>3, <4>1, <4>2
    <3>. QED BY <1>5, <1>7, <1>12, <3>2, <3>3
  <2>2. CASE /\ k.at \in {"port", "mkdir"} /\ n.port \in Ports
             /\ IF k.port # None THEN n.port = k.port ELSE n.port >= k.base
    <3>1. clu'.port = n.port
      BY <1>4, <1>10, <2>2
    <3>2. disk'[d].cfg = None
      BY <1>7, <2>2
    <3>3. j # clu.i /\ j < clu.i /\ disk'[Members[j]] = disk[Members[j]]
      BY <1>5, <1>6, <1>10, <1>12, <3>2
    <3>4. clu.i > 1 /\ j \in 1 .. clu.i - 1
      BY <1>10, <3>3
    <3>5. n.port >= k.base
      BY <1>9, <2>2, <3>4
    <3>6. disk[Members[j]].cfg.port < k.base
      BY <1>9, <1>12, <3>3, <3>4
    <3>7. /\ disk[Members[j]].cfg.port \in Nat /\ k.base \in Nat
          /\ n.port \in Nat /\ n.port # None
      BY <1>10, <1>12, <2>2, <3>3
    <3>8. disk[Members[j]].cfg.port <= n.port
      BY <3>5, <3>6, <3>7
    <3>. QED BY <3>1, <3>3, <3>7, <3>8
  <2>. QED BY <1>8, <2>1, <2>2
<1>13. ASSUME InFlight(Conductor)'
       PROVE  /\ \A j \in 1 .. clu.i - 1 : disk'[Members[j]].cfg # None =>
                   disk'[Members[j]].cfg.port < n.base
              /\ n.port # None =>
                   clu'.port = n.port /\ (clu.i > 1 => n.port >= n.base)
  <2>1. n.at \notin Ends
    BY <1>13 DEF InFlight, n
  <2>2. n.base = k.base
    BY <1>8, <2>1
  <2>3. \A j \in 1 .. clu.i - 1 : disk'[Members[j]] = disk[Members[j]]
    BY <1>1, <1>2, <1>5
  <2>4. n.port # None /\ clu.i > 1 => n.port >= n.base
    BY <1>8, <1>9, <1>10, <2>1, <2>2
  <2>. QED BY <1>4, <1>9, <2>2, <2>3, <2>4
<1>. QED BY <1>1, <1>4, <1>11, <1>12, <1>13 DEF PortsInv, Climbs, n

LEMMA PortsStep ==
  ASSUME Disciplined, Ops \cap DeployOps = {}, "set" \notin Ops, PortsInv,
         [ClusterNext]_clusterVars
  PROVE  PortsInv'
<1>1. /\ AloneInv /\ CluInv /\ LifeInv /\ Marked /\ AloneInv' /\ CluInv'
      /\ clu \in Cluster
      /\ cl \in [Clients -> Client] /\ Conductor \in Clients
      /\ DOMAIN Members = 1 .. Len(Members) /\ Len(Members) \in Nat
      /\ \A j \in 1 .. Len(Members) : Members[j] \in Dirs
  BY AloneStep, TheMembers DEF PortsInv, AloneInv, CluInv, Inv, TypeOK
<1>2. CASE UNCHANGED clusterVars
  BY <1>1, <1>2 DEF PortsInv, MemberPortsIncrease, Climbs, clusterVars, vars, InFlight
<1>3. CASE MemberStep /\ clu.at = "deploy.member"
  BY <1>3, MemberAtWork
<1>4. CASE ClusterNext /\ ~(MemberStep /\ clu.at = "deploy.member")
  <2>1. \A j \in 1 .. Len(Members) : disk'[Members[j]].cfg # None =>
          /\ disk[Members[j]].cfg # None
          /\ disk'[Members[j]].cfg.port = disk[Members[j]].cfg.port
    BY <1>1, <1>4, NothingNew
  <2>2. MemberPortsIncrease'
    BY <1>1, <2>1 DEF PortsInv, MemberPortsIncrease
  <2>3. ASSUME clu'.at \notin DeployPoints PROVE PortsInv'
    BY <1>1, <2>2, <2>3 DEF PortsInv, Climbs, DeployPoints
  <2>4. ASSUME clu'.port = clu.port, clu.at \in DeployPoints,
               clu'.at # "deploy.member" \/ ~InFlight(Conductor)'
        PROVE  PortsInv'
    BY <1>1, <2>1, <2>2, <2>4 DEF PortsInv, Climbs
  <2>5. CASE MemberStep
    <3>1. UNCHANGED clu
      BY <1>4, <2>5 DEF MemberStep
    <3>. QED BY <1>4, <2>3, <2>4, <2>5, <3>1
  <2>6. CASE ClusterDeployStep
    <3>1. /\ Ending \/ Going
          /\ UNCHANGED disk /\ ~InFlight(Conductor) /\ clu.at \in DeployPoints
      BY <1>1, <2>6, DeployMoves DEF Quiet, host
    <3>2. CASE Ending
      BY <2>3, <3>2 DEF Ending, Ends, DeployPoints
    <3>3. CASE Going /\ UNCHANGED cl
      BY <2>4, <3>1, <3>3 DEF Going, InFlight
    <3>4. CASE Going /\ clu'.at = "deploy.publish"
      BY <2>4, <3>1, <3>4 DEF Going
    <3>5. ASSUME Going, clu'.at = "deploy.member",
                 \/ Call("standby", "probe", Members[clu'.i], Primary, Members[clu'.i],
                         None, clu.port + 1)
                 \/ Call("subscriber", "port", Members[clu'.i], Primary, Members[clu'.i],
                         None, clu.port + 1)
          PROVE  PortsInv'
      <4>1. cl'[Conductor].base = clu.port + 1 /\ cl'[Conductor].port = None
        BY <1>1, <3>5 DEF Call
      <4>2. clu'.port = clu.port /\ clu'.port # None /\ clu.port \in Nat
        BY <1>1, <3>5, PortsAssumption DEF Going, Cluster
      <4>3. clu'.i \in 1 .. Len(Members)
        BY <1>1, <3>5 DEF CluInv, Reached
      <4>4. \A j \in 1 .. Len(Members) : disk[Members[j]].cfg # None =>
              /\ disk[Members[j]].cfg.port \in Nat
              /\ disk[Members[j]].cfg.port <= clu.port
        BY <1>1, <3>1, PortsRecorded DEF PortsInv, Climbs
      <4>5. \A j \in 1 .. Len(Members) : disk'[Members[j]].cfg # None =>
              disk'[Members[j]].cfg.port < clu.port + 1
        BY <3>1, <4>2, <4>4
      <4>6. \A j \in 1 .. clu'.i - 1 : j \in 1 .. Len(Members)
        BY <1>1, <4>3
      <4>. QED BY <1>1, <2>2, <3>1, <4>1, <4>2, <4>4, <4>5, <4>6 DEF PortsInv, Climbs
    <3>. QED BY <3>1, <3>2, <3>3, <3>4, <3>5 DEF Going
  <2>7. CASE ClusterDestroyStep
    <3>1. clu'.at \notin DeployPoints
      BY <1>1, <2>7, DestroyMoves DEF Finishing, Advancing, Ends, DeployPoints
    <3>. QED BY <2>3, <3>1
  <2>8. CASE BeginCluster
    <3>1. CASE BeginClusterDestroy
      <4>1. clu'.at = "destroy.next"
        BY <3>1 DEF BeginClusterDestroy, NoCluster
      <4>. QED BY <2>3, <4>1 DEF DeployPoints
    <3>2. CASE BeginClusterDeploy
      <4>1. PICK mode \in Modes, sql \in BOOLEAN, port \in Asked \cup {None} :
              /\ clu' = [NoCluster EXCEPT !.at = "deploy.member", !.mode = mode,
                                          !.sql = sql, !.i = 1]
              /\ Call("deploy", "port", Primary, None, None, port, PortBase)
        BY <3>2 DEF BeginClusterDeploy
      <4>2. /\ clu'.i = 1 /\ clu'.at = "deploy.member"
            /\ cl'[Conductor].at = "port"
        BY <1>1, <4>1 DEF Call, NoCluster
      <4>3. \A j \in 1 .. Len(Members) : disk'[Members[j]].cfg = None
        BY <1>1, <2>1, <3>2 DEF BeginClusterDeploy, ClusterDirAvailable, Marked
      <4>4. \A j \in 1 .. clu'.i - 1 : j \in {}
        BY <4>2
      <4>. QED BY <1>1, <2>2, <4>2, <4>3, <4>4 DEF PortsInv, Climbs
    <3>. QED BY <2>8, <3>1, <3>2 DEF BeginCluster
  <2>9. CASE KillCluster
    BY <2>3, <2>9 DEF KillCluster, ClusterReturn, NoCluster, DeployPoints
  <2>10. CASE OtherStep
    <3>1. clu'.at \in Ends
      BY <1>1, <2>10, OtherStepAlone DEF OtherStep, ClusterBusy
    <3>. QED BY <2>3, <3>1 DEF Ends, DeployPoints
  <2>11. CASE ClusterEnvironment
    <3>1. CASE UNCHANGED <<cl, clu>>
      <4>1. \A j \in 1 .. clu.i - 1 : clu.at = "deploy.member" => j \in 1 .. Len(Members)
        BY <1>1 DEF CluInv, Reached
      <4>2. clu'.at \in DeployPoints =>
              \A j \in 1 .. Len(Members) : disk'[Members[j]].cfg # None =>
                clu'.port # None /\ disk'[Members[j]].cfg.port <= clu'.port
        BY <2>1, <3>1 DEF PortsInv, Climbs
      <4>3. clu'.at = "deploy.member" /\ InFlight(Conductor)' =>
              LET k == cl'[Conductor] IN
              /\ \A j \in 1 .. clu'.i - 1 : disk'[Members[j]].cfg # None =>
                    disk'[Members[j]].cfg.port < k.base
              /\ k.port # None =>
                   \/ clu'.i = 1 /\ k.at = "port"
                   \/ clu'.port = k.port /\ (clu'.i > 1 => k.port >= k.base)
        BY <2>1, <3>1, <4>1 DEF PortsInv, Climbs, InFlight
      <4>. QED BY <1>1, <2>2, <4>2, <4>3 DEF PortsInv, Climbs
    <3>2. CASE Reboot /\ clu' = IF ClusterBusy THEN [NoCluster EXCEPT !.at = "fail"]
                                ELSE clu
      BY <2>3, <3>2 DEF NoCluster, ClusterBusy, Ends, DeployPoints
    <3>. QED BY <2>11, <3>1, <3>2 DEF ClusterEnvironment, Machine
  <2>. QED BY <1>4, <2>5, <2>6, <2>7, <2>8, <2>9, <2>10, <2>11 DEF ClusterNext, ClusterStep
<1>. QED BY <1>2, <1>3, <1>4

\* The members of a cluster record ports in their order, each above the one
\* before, whatever else is started, stopped or killed on the machine between two
\* of them: each scan starts above the port of the member before
\* (cluster/deploy.go:339).
THEOREM PortsClimb ==
  ASSUME Disciplined, Ops \cap DeployOps = {}, "set" \notin Ops
  PROVE  ClusterSpec => []MemberPortsIncrease
<1>1. ClusterInit => PortsInv
  <2>1. SUFFICES ASSUME ClusterInit PROVE PortsInv
    OBVIOUS
  <2>2. \A j \in DOMAIN Members : disk[Members[j]].cfg = None
    BY <2>1, TheMembers DEF ClusterInit, Init, HostInit, NoFiles
  <2>3. clu.at = "ok"
    BY <2>1 DEF ClusterInit, NoCluster
  <2>. QED BY <2>1, <2>2, <2>3, AloneInit
       DEF PortsInv, MemberPortsIncrease, Climbs, DeployPoints
<1>2. PortsInv /\ [ClusterNext]_clusterVars => PortsInv'
  BY PortsStep
<1>3. PortsInv => MemberPortsIncrease
  BY DEF PortsInv
<1>. QED BY <1>1, <1>2, <1>3, PTL DEF ClusterSpec

-----------------------------------------------------------------------------
\* What cluster destroy leaves

\* A member that a destroy has gone past has no config left, or is a survivor.
Cleared ==
  /\ clu.at \in DestroyPoints =>
       \A j \in clu.i + 1 .. Len(clu.members) :
         \/ clu.members[j].dir \in clu.survivors
         \/ disk[clu.members[j].dir].cfg = None
  /\ clu.at = "destroy.member" /\ cl[Conductor].at = "ok" =>
       disk[Victim.dir].cfg = None

ClearedInv == AloneInv /\ FromManifest /\ Cleared

\* A destroy that exits 0 has removed the whole directory.
LEMMA DestroyOkRemoves ==
  ASSUME Inv, NEW c \in Clients, cl[c].op = "destroy",
         ClientStep(c) \/ Skips(c), cl'[c].at = "ok"
  PROVE  disk'[cl[c].dir].cfg = None
<1>1. /\ cl \in [Clients -> Client] /\ disk \in [Dirs -> Files] /\ InFlight(c)
      /\ cl[c].dir \in Dirs
  BY StepIsInFlight, SkipsMoves DEF Inv, TypeOK, HostTypeOK, CallsWellFormed
<1>2. ~Skips(c)
  BY <1>1, SkipsMoves
<1>3. DestroyStep(c)
  BY <1>1, <1>2, DestroysOwnStep
<1>4. /\ \A point \in Points : ~Go(c, point)
      /\ ~Return(c, "fail")
  BY <1>1 DEF Go, Return, Idle, Client, Points
<1>5. ~DestroyLoad(c)
  BY <1>1, <1>4 DEF DestroyLoad, Client
<1>6. ~DropSubscription(c) /\ ~DestroyStop(c) /\ ~SlotDrop(c)
  BY <1>4 DEF DropSubscription, DestroyStop, SlotDrop, SlotDone, Points
<1>7. ~SlotLoad(c)
  <2>1. ~SlotDone(c)
    BY <1>4 DEF SlotDone, Points
  <2>. QED BY <1>1, <2>1 DEF SlotLoad, Client
<1>8. DestroyRemove(c)
  BY <1>3, <1>5, <1>6, <1>7 DEF DestroyStep
<1>. QED BY <1>1, <1>4, <1>8 DEF DestroyRemove, Removed, NoFiles

\* No config comes back while a cluster destroy is at work.
LEMMA StaysCleared ==
  ASSUME AloneInv, clu.at \in DestroyPoints,
         \/ MemberStep
         \/ ClusterDestroyStep
         \/ ClusterEnvironment
  PROVE  \A d \in Dirs : disk[d].cfg = None => disk'[d].cfg = None
<1>1. /\ CluInv /\ LifeInv /\ Marked /\ HostTypeOK /\ Conductor \in Clients
  BY TheMembers DEF AloneInv, LifeInv, Inv, TypeOK
<1>2. CASE MemberStep
  <2>1. CASE ClientStep(Conductor)
    <3>1. cl[Conductor].op = "destroy" /\ cl[Conductor].at # "set.save"
      BY <1>1, <1>2, MemberFiles
         DEF CluInv, Conducts, DestroyPoints, Inv, CallsWellFormed, OnTrack
    <3>. QED BY <1>1, <1>2, <2>1, <3>1, MemberFiles, FileFrame DEF Elsewhere, DeployOps
  <2>. QED BY <1>2, <2>1, MemberFiles
<1>3. CASE ClusterDestroyStep
  <2>1. CASE StubStop \/ StubRemove
    BY <2>1, StubMoves DEF Elsewhere
  <2>. QED BY <1>3, <2>1
       DEF ClusterDestroyStep, DestroyMember, MemberDestroyed, FinishDestroy, Quiet, host
<1>4. CASE ClusterEnvironment
  BY <1>1, <1>4, MachineFiles DEF ClusterEnvironment, Environment
<1>. QED BY <1>2, <1>3, <1>4

LEMMA ClearedInit == ClusterInit => ClearedInv
BY AloneInit DEF ClusterInit, NoCluster, ClearedInv, FromManifest, Cleared,
   DestroyPoints

LEMMA ClearedStep ==
  ASSUME Disciplined, ClearedInv, [ClusterNext]_clusterVars
  PROVE  ClearedInv'
<1>1. /\ AloneInv /\ CluInv /\ AloneInv' /\ clu \in Cluster /\ Conductor \in Clients
      /\ clu.i \in Nat /\ Len(clu.members) \in Nat
      /\ \A j \in 1 .. Len(clu.members) : clu.members[j].dir \in Dirs
  <2>1. AloneInv /\ AloneInv' /\ CluInv /\ clu \in Cluster /\ Conductor \in Clients
    BY AloneStep, TheMembers DEF ClearedInv, AloneInv, CluInv
  <2>2. clu.i \in Nat /\ clu.members \in Seq(Member)
    BY <2>1 DEF Cluster
  <2>3. \A j \in 1 .. Len(clu.members) : clu.members[j] \in Member
    BY <2>2
  <2>. QED BY <2>1, <2>2, <2>3 DEF Member
<1>2. CASE UNCHANGED clusterVars
  BY <1>1, <1>2 DEF ClearedInv, FromManifest, Cleared, Victim, clusterVars, vars
<1>3. CASE ClusterNext
  <2>1. FromManifest'
    BY <1>1, <1>3, ManifestMoves DEF ClearedInv, FromManifest, BeginClusterDestroy
  <2>2. ASSUME clu'.at \notin DestroyPoints PROVE ClearedInv'
    BY <1>1, <2>1, <2>2 DEF ClearedInv, Cleared, DestroyPoints
  <2>3. ASSUME clu.at \in DestroyPoints,
               clu'.at = clu.at, clu'.i = clu.i, clu'.members = clu.members,
               clu'.survivors = clu.survivors,
               \A d \in Dirs : disk[d].cfg = None => disk'[d].cfg = None,
               clu.at = "destroy.member" /\ cl'[Conductor].at = "ok" =>
                 disk'[Victim.dir].cfg = None
        PROVE  ClearedInv'
    <3>1. \A j \in clu.i + 1 .. Len(clu.members) : j \in 1 .. Len(clu.members)
      BY <1>1
    <3>2. clu.at = "destroy.member" => Victim' = Victim
      BY <2>3 DEF Victim
    <3>3. \A j \in clu.i + 1 .. Len(clu.members) :
            \/ clu.members[j].dir \in clu.survivors
            \/ disk'[clu.members[j].dir].cfg = None
      BY <1>1, <2>3, <3>1 DEF ClearedInv, Cleared
    <3>. QED BY <1>1, <2>1, <2>3, <3>2, <3>3 DEF ClearedInv, Cleared
  <2>4. CASE MemberStep
    <3>1. /\ clu'.at = clu.at /\ clu'.i = clu.i /\ clu'.members = clu.members
          /\ clu'.survivors = clu.survivors
      BY <1>1, <2>4, MemberStepKeeps
    <3>2. CASE clu.at \in DestroyPoints
      <4>1. cl[Conductor].op = "destroy" /\ cl[Conductor].dir = Victim.dir
        BY <1>1, <2>4, <3>2, MemberFiles DEF CluInv, Conducts, DestroyPoints
      <4>2. cl'[Conductor].at = "ok" => disk'[Victim.dir].cfg = None
        BY <1>1, <2>4, <4>1, MemberFiles, DestroyOkRemoves DEF CluInv
      <4>. QED BY <1>1, <2>3, <2>4, <3>1, <3>2, <4>2, StaysCleared
    <3>. QED BY <2>2, <3>1, <3>2
  <2>5. CASE ClusterDestroyStep
    <3>1. clu.at \in DestroyPoints /\ (Finishing \/ Advancing)
      BY <1>1, <2>5, DestroyMoves
    <3>2. CASE Finishing
      BY <2>2, <3>2 DEF Finishing, Ends, DestroyPoints
    <3>3. \A d \in Dirs : disk[d].cfg = None => disk'[d].cfg = None
      BY <1>1, <2>5, <3>1, StaysCleared
    <3>4. \A j \in clu.i + 1 .. Len(clu.members) :
            \/ clu.members[j].dir \in clu.survivors
            \/ disk'[clu.members[j].dir].cfg = None
      <4>1. \A j \in clu.i + 1 .. Len(clu.members) : j \in 1 .. Len(clu.members)
        BY <1>1
      <4>. QED BY <1>1, <3>1, <3>3, <4>1 DEF ClearedInv, Cleared
    <3>5. ASSUME Advancing, clu'.at = "destroy.next", clu'.i = clu.i - 1,
                 clu.survivors \subseteq clu'.survivors, Handled
          PROVE  ClearedInv'
      <4>1. clu.members[clu.i].dir \in clu'.survivors
              \/ disk'[clu.members[clu.i].dir].cfg = None
        BY <3>5 DEF Handled, Victim, ClearedInv, Cleared, Quiet, host
      <4>2. \A j \in clu'.i + 1 .. Len(clu'.members) :
              j = clu.i \/ j \in clu.i + 1 .. Len(clu.members)
        BY <1>1, <3>5 DEF Advancing
      <4>3. clu'.members = clu.members
        BY <3>5 DEF Advancing
      <4>4. \A j \in clu'.i + 1 .. Len(clu'.members) :
              \/ clu'.members[j].dir \in clu'.survivors
              \/ disk'[clu'.members[j].dir].cfg = None
        BY <3>4, <3>5, <4>1, <4>2, <4>3
      <4>. QED BY <1>1, <2>1, <3>5, <4>4 DEF ClearedInv, Cleared
    <3>6. ASSUME Advancing, clu'.at # "destroy.next", clu'.i = clu.i,
                 clu'.survivors = clu.survivors,
                 clu'.at = "destroy.member" => cl'[Conductor].at # "ok"
          PROVE  ClearedInv'
      <4>1. clu'.members = clu.members
        BY <3>6 DEF Advancing
      <4>. QED BY <1>1, <2>1, <3>4, <3>6, <4>1 DEF ClearedInv, Cleared
    <3>. QED BY <3>1, <3>2, <3>5, <3>6 DEF Advancing
  <2>6. CASE ClusterDeployStep
    BY <1>1, <2>2, <2>6, DeployMoves DEF Ending, Going, Ends, DeployPoints, DestroyPoints
  <2>7. CASE BeginCluster
    <3>1. CASE BeginClusterDeploy
      <4>1. clu'.at = "deploy.member"
        BY <3>1 DEF BeginClusterDeploy, NoCluster
      <4>. QED BY <2>2, <4>1 DEF DestroyPoints
    <3>2. CASE BeginClusterDestroy
      <4>1. /\ clu'.at = "destroy.next" /\ clu'.i = Len(manifest)
            /\ clu'.members = manifest
        BY <3>2 DEF BeginClusterDestroy, NoCluster
      <4>2. Len(manifest) \in Nat
        BY <1>1, <3>2 DEF CluInv, BeginClusterDestroy
      <4>3. \A j \in clu'.i + 1 .. Len(clu'.members) : FALSE
        BY <4>1, <4>2
      <4>. QED BY <1>1, <2>1, <4>1, <4>3 DEF ClearedInv, Cleared
    <3>. QED BY <2>7, <3>1, <3>2 DEF BeginCluster
  <2>8. CASE KillCluster
    BY <2>2, <2>8 DEF KillCluster, ClusterReturn, NoCluster, DestroyPoints
  <2>9. CASE OtherStep
    <3>1. clu'.at \in Ends
      BY <1>1, <2>9, OtherStepAlone DEF OtherStep, ClusterBusy, ClearedInv
    <3>. QED BY <2>2, <3>1 DEF Ends, DestroyPoints
  <2>10. CASE ClusterEnvironment
    <3>1. CASE UNCHANGED <<cl, clu>>
      <4>1. CASE clu.at \in DestroyPoints
        <5>1. \A d \in Dirs : disk[d].cfg = None => disk'[d].cfg = None
          BY <1>1, <2>10, <4>1, StaysCleared
        <5>2. clu.at = "destroy.member" => Victim.dir \in Dirs
          BY <1>1, VictimTyped DEF CluInv, Reached
        <5>. QED BY <2>3, <3>1, <4>1, <5>1, <5>2 DEF ClearedInv, Cleared
      <4>. QED BY <2>2, <3>1, <4>1
    <3>2. CASE Reboot /\ clu' = IF ClusterBusy THEN [NoCluster EXCEPT !.at = "fail"]
                                ELSE clu
      BY <2>2, <3>2 DEF NoCluster, ClusterBusy, Ends, DestroyPoints
    <3>. QED BY <2>10, <3>1, <3>2 DEF ClusterEnvironment, Machine
  <2>. QED BY <1>3, <2>4, <2>5, <2>6, <2>7, <2>8, <2>9, <2>10 DEF ClusterNext, ClusterStep
<1>. QED BY <1>2, <1>3

\* A destroy that removes the manifest has gone past every member.
LEMMA ManifestGoesEmpty ==
  ASSUME Disciplined, ClearedInv, ClusterNext, manifest # None, manifest' = None
  PROVE  \A d \in Listed : disk'[d].cfg = None
<1>1. CluInv /\ AloneInv /\ clu \in Cluster
  BY DEF ClearedInv, AloneInv, CluInv
<1>2. ClusterDestroyStep /\ Finishing
  <2>1. ~ClusterDeployStep
    BY <1>1, DeployMoves DEF AloneInv, Ahead
  <2>. QED BY <1>1, <2>1, ManifestMoves
<1>3. clu.i = 0 /\ clu.at \in DestroyPoints /\ clu.survivors = {} /\ UNCHANGED disk
  BY <1>2 DEF Finishing, DestroyPoints, Quiet, host
<1>4. manifest = clu.members
  BY <1>3 DEF ClearedInv, FromManifest
<1>5. \A j \in 1 .. Len(manifest) : disk'[manifest[j].dir].cfg = None
  BY <1>3, <1>4 DEF ClearedInv, Cleared
<1>6. DOMAIN manifest = 1 .. Len(manifest)
  BY <1>1 DEF CluInv
<1>. QED BY <1>5, <1>6 DEF Listed

\* cluster destroy removes its manifest last, and only when no sandbox it lists
\* has a config left; so a destroy that was killed, or that could not destroy
\* one of the members, can be run again (cluster/destroy.go).
THEOREM ManifestGoesLast ==
  ASSUME Disciplined PROVE ClusterSpec => ManifestOutlivesSandboxes
<1>1. ClusterInit => ClearedInv
  BY ClearedInit
<1>2. ClearedInv /\ [ClusterNext]_clusterVars => ClearedInv'
  BY ClearedStep
<1>3. ClearedInv /\ [ClusterNext]_clusterVars =>
        [manifest # None /\ manifest' = None =>
           \A d \in Listed : disk'[d].cfg = None]_clusterVars
  BY ManifestGoesEmpty
<1>. QED BY <1>1, <1>2, <1>3, PTL DEF ClusterSpec, ManifestOutlivesSandboxes

\* With pg_ctl at hand, what a destroy goes on to remove has been stopped, be it
\* a sandbox or what is left of a failed member.
Halted ==
  (ClusterBusy => clu.tools) =>
    Stopped /\ (clu.at = "stub.rm" => srv[Victim.dir] = None)

HaltedInv == AloneInv /\ Halted

LEMMA NoneToStop ==
  ASSUME \A c \in Clients : InFlight(c)' =>
           cl'[c].op # "destroy" \/ cl'[c].at = "destroy.load"
  PROVE  Stopped'
BY DEF Stopped, HasStopped

\* The commands that the cluster command calls begin with no server to stop.
LEMMA CallsStopped ==
  ASSUME AloneInv, ClusterBusy, ~InFlight(Conductor),
         \/ UNCHANGED cl
         \/ /\ cl'[Conductor].op # "destroy" \/ cl'[Conductor].at = "destroy.load"
            /\ \A c \in Clients \ {Conductor} : cl'[c] = cl[c]
  PROVE  Stopped'
<1>1. \A c \in Clients : ~InFlight(c)
  BY DEF AloneInv, Alone
<1>2. \A c \in Clients : InFlight(c)' =>
        cl'[c].op # "destroy" \/ cl'[c].at = "destroy.load"
  BY <1>1 DEF InFlight
<1>. QED BY <1>2, NoneToStop

LEMMA DestroyHalts ==
  ASSUME "child" \notin Faults, HaltedInv, ClusterDestroyStep
  PROVE  Halted' /\ (clu.tools => strays' \subseteq strays)
<1>1. /\ AloneInv /\ CluInv /\ LifeInv /\ clu \in Cluster /\ Conductor \in Clients
      /\ cl \in [Clients -> Client] /\ ClusterBusy /\ ~InFlight(Conductor)
      /\ srv \in [Dirs -> Ports \cup {None}]
  BY DestroyMoves, TheMembers
     DEF HaltedInv, AloneInv, CluInv, Inv, TypeOK, HostTypeOK, ClusterBusy,
         DestroyPoints, Ends
<1>2. CASE FinishDestroy \/ MemberDestroyed \/ DestroyMember
  <2>1. UNCHANGED strays
    BY <1>2 DEF FinishDestroy, MemberDestroyed, DestroyMember, Quiet, host
  <2>2. clu'.at # "stub.rm"
    BY <1>1, <1>2, NoClusterTyped
       DEF FinishDestroy, MemberDestroyed, DestroyMember, NextMember, ClusterReturn,
           NoCluster, Cluster
  <2>3. CASE UNCHANGED cl
    BY <1>1, <2>1, <2>2, <2>3, CallsStopped DEF Halted
  <2>4. ASSUME NEW d, NEW src,
               Call("destroy", "destroy.load", d, src, None, None, PortBase)
        PROVE  Stopped'
    <3>1. /\ cl'[Conductor].at = "destroy.load"
          /\ \A c \in Clients \ {Conductor} : cl'[c] = cl[c]
      BY <1>1, <2>4 DEF Call
    <3>. QED BY <1>1, <3>1, CallsStopped
  <2>. QED BY <1>2, <2>1, <2>2, <2>3, <2>4
       DEF FinishDestroy, MemberDestroyed, DestroyMember, Idling, Halted
<1>3. CASE StubStop
  <2>1. /\ UNCHANGED <<cl, strays>> /\ Victim.dir \in Dirs
        /\ clu' = [clu EXCEPT !.at = "stub.rm"]
        /\ \/ ServerDown(Victim.dir, "none")
           \/ UNCHANGED srv /\ (disk[Victim.dir].pid # "live" \/ ~clu.tools)
    BY <1>1, <1>3, StubMoves
       DEF StubStop, Idling, ServerDown, Quiet, host, MayFail
  <2>2. Victim' = Victim /\ clu'.tools = clu.tools /\ clu'.at = "stub.rm"
    BY <1>1, <2>1 DEF Victim, Cluster
  <2>3. clu.tools => srv'[Victim.dir] = None
    BY <1>1, <2>1 DEF ServerDown, LifeInv, Sane, Coherent
  <2>4. Stopped'
    BY <1>1, <2>1, CallsStopped
  <2>. QED BY <2>1, <2>2, <2>3, <2>4 DEF Halted, ClusterBusy, Ends
<1>4. CASE StubRemove
  <2>1. /\ UNCHANGED cl /\ clu.at = "stub.rm" /\ clu'.at = "destroy.next"
        /\ strays' = strays \cup ({srv[Victim.dir]} \ {None})
    BY <1>1, <1>4 DEF StubRemove, ClusterAt, Idling, Removed, NextMember, Cluster
  <2>2. clu.tools => strays' = strays
    BY <2>1 DEF HaltedInv, Halted
  <2>3. Stopped'
    BY <1>1, <2>1, CallsStopped
  <2>. QED BY <2>1, <2>2, <2>3 DEF Halted
<1>. QED BY <1>2, <1>3, <1>4 DEF ClusterDestroyStep

LEMMA HaltedStep ==
  ASSUME Disciplined, "child" \notin Faults, HaltedInv, [ClusterNext]_clusterVars
  PROVE  HaltedInv' /\ (ClusterBusy /\ clu.tools => strays' \subseteq strays)
<1>1. /\ AloneInv /\ CluInv /\ LifeInv /\ AloneInv' /\ clu \in Cluster
      /\ cl \in [Clients -> Client] /\ Conductor \in Clients /\ HostTypeOK
  BY AloneStep, TheMembers DEF HaltedInv, AloneInv, CluInv, Inv, TypeOK
<1>2. SUFFICES Halted' /\ (ClusterBusy /\ clu.tools => strays' \subseteq strays)
  BY <1>1 DEF HaltedInv
<1>3. CASE UNCHANGED clusterVars
  BY <1>3
  DEF HaltedInv, Halted, Stopped, HasStopped, Victim, ClusterBusy, InFlight, clusterVars, vars
<1>4. CASE MemberStep
  <2>1. /\ clu'.at = clu.at /\ clu'.tools = clu.tools /\ ClusterBusy
        /\ clu.at # "stub.rm"
    BY <1>1, <1>4, MemberStepKeeps, MemberFiles DEF CluInv, Conducts
  <2>2. CASE clu.tools
    <3>1. ClientStep(Conductor) /\ Stopped
      BY <1>4, <2>1, <2>2 DEF MemberStep, HaltedInv, Halted
    <3>2. Stopped' /\ strays' \subseteq strays
      BY <1>1, <3>1, StepStopped
    <3>. QED BY <2>1, <3>2 DEF Halted
  <2>. QED BY <2>1, <2>2 DEF Halted, ClusterBusy
<1>5. CASE ClusterDeployStep
  <2>1. /\ Ending \/ Going
        /\ UNCHANGED strays /\ ~InFlight(Conductor) /\ ClusterBusy
    BY <1>1, <1>5, DeployMoves DEF Quiet, host, DeployPoints, ClusterBusy, Ends
  <2>2. clu'.at # "stub.rm"
    BY <2>1 DEF Ending, Going, Ends, DeployPoints
  <2>3. UNCHANGED cl \/ /\ cl'[Conductor].op # "destroy"
                        /\ \A c \in Clients \ {Conductor} : cl'[c] = cl[c]
    BY <1>1, <2>1 DEF Ending, Going, Call
  <2>. QED BY <1>1, <2>1, <2>2, <2>3, CallsStopped DEF Halted
<1>6. CASE ClusterDestroyStep
  BY <1>6, DestroyHalts
<1>7. CASE BeginCluster
  <2>1. /\ UNCHANGED strays /\ clu'.at # "stub.rm" /\ ~ClusterBusy
        /\ \A c \in Clients : ~InFlight(c)
    BY <1>1, <1>7 DEF BeginCluster, BeginClusterDeploy, BeginClusterDestroy, NoCluster,
       Quiet, host, AloneInv, Alone
  <2>2. CASE UNCHANGED cl
    BY <2>1, <2>2, NoneToStop DEF Halted, InFlight
  <2>3. ASSUME NEW port, Call("deploy", "port", Primary, None, None, port, PortBase)
        PROVE  Stopped'
    <3>1. /\ cl'[Conductor].op = "deploy"
          /\ \A c \in Clients \ {Conductor} : cl'[c] = cl[c]
      BY <1>1, <2>3 DEF Call
    <3>2. \A c \in Clients : InFlight(c)' => cl'[c].op # "destroy"
      BY <2>1, <3>1 DEF InFlight
    <3>. QED BY <3>2, NoneToStop
  <2>. QED BY <1>7, <2>1, <2>2, <2>3
       DEF BeginCluster, BeginClusterDeploy, BeginClusterDestroy, Halted
<1>8. CASE KillCluster
  <2>1. /\ UNCHANGED strays /\ clu'.at = "fail" /\ ClusterBusy
        /\ cl'[Conductor].at = "fail"
        /\ \A c \in Clients \ {Conductor} : cl'[c] = cl[c]
    BY <1>1, <1>8 DEF KillCluster, ClusterReturn, NoCluster, Return, Idle, Quiet, host
  <2>2. \A c \in Clients : ~InFlight(c)'
    BY <1>1, <2>1 DEF AloneInv, Alone, InFlight, Ends
  <2>. QED BY <2>1, <2>2, NoneToStop DEF Halted
<1>9. CASE OtherStep
  <2>1. ~ClusterBusy /\ UNCHANGED clu /\ Stopped
    BY <1>1, <1>9, OtherStepAlone DEF OtherStep, HaltedInv, Halted
  <2>2. PICK c \in Clients : BeginCall(c) \/ ClientStep(c) \/ KillClient(c)
    BY <1>9 DEF OtherStep
  <2>3. Stopped'
    BY <1>1, <2>1, <2>2, StepStopped, OutsideStopped
  <2>. QED BY <2>1, <2>3 DEF Halted, ClusterBusy, Ends
<1>10. CASE ClusterEnvironment
  <2>1. Environment /\ \A d \in Dirs : srv'[d] \in {srv[d], None}
    BY <1>1, <1>10, MachineFiles DEF ClusterEnvironment, Environment
  <2>2. CASE UNCHANGED <<cl, clu>>
    <3>1. clu.at = "stub.rm" => Victim.dir \in Dirs /\ Victim' = Victim
      BY <1>1, <2>2, VictimTyped DEF CluInv, Reached, Victim
    <3>2. (ClusterBusy => clu.tools) => Stopped' /\ strays' \subseteq strays
      BY <1>1, <2>1, OutsideStopped DEF HaltedInv, Halted
    <3>. QED BY <2>1, <2>2, <3>1, <3>2 DEF HaltedInv, Halted, ClusterBusy
  <2>3. CASE Reboot /\ clu' = IF ClusterBusy THEN [NoCluster EXCEPT !.at = "fail"]
                              ELSE clu
    <3>1. strays' = {} /\ \A c \in Clients : ~InFlight(c)'
      BY <2>3 DEF Reboot, InFlight, Idle, Ends
    <3>2. clu'.at # "stub.rm"
      BY <2>3 DEF NoCluster, ClusterBusy, Ends
    <3>. QED BY <3>1, <3>2, NoneToStop DEF Halted
  <2>. QED BY <1>10, <2>2, <2>3 DEF ClusterEnvironment, Machine
<1>. QED BY <1>3, <1>4, <1>5, <1>6, <1>7, <1>8, <1>9, <1>10 DEF ClusterNext, ClusterStep

\* As long as its pg_ctl can be run and does what it reports, a cluster command
\* leaves no server behind on a directory it takes away, a failed member's
\* included (cluster/destroy.go, destroyFailedMemberStub).
THEOREM ClusterStopsFirst ==
  ASSUME Disciplined, "child" \notin Faults
  PROVE  ClusterSpec => ClusterLeavesNoStray
<1>1. ClusterInit => HaltedInv
  <2>1. ClusterInit => Stopped /\ clu.at = "ok"
    BY DEF ClusterInit, Init, Idle, Stopped, HasStopped, NoCluster
  <2>. QED BY <2>1, AloneInit DEF HaltedInv, Halted
<1>2. HaltedInv /\ [ClusterNext]_clusterVars => HaltedInv'
  BY HaltedStep
<1>3. HaltedInv /\ [ClusterNext]_clusterVars =>
        [ClusterBusy /\ clu.tools => strays' \subseteq strays]_clusterVars
  BY HaltedStep
<1>. QED BY <1>1, <1>2, <1>3, PTL DEF ClusterSpec, ClusterLeavesNoStray

-----------------------------------------------------------------------------
\* Every server is accounted for

\* No command but a deploy starts a server on a directory without a config, and
\* none takes the config away from under a server that it leaves running.
LEMMA ServerFrame ==
  ASSUME LifeInv, NEW c \in Clients, ClientStep(c), cl[c].op \notin DeployOps
  PROVE  LET d == cl[c].dir IN
         srv'[d] # None =>
           /\ srv[d] # None \/ disk[d].cfg # None
           /\ disk[d].cfg # None => disk'[d].cfg # None
<1> DEFINE d == cl[c].dir
           f == disk[d]
           g == disk'[d]
           Goal == srv'[d] # None => /\ srv[d] # None \/ f.cfg # None
                                     /\ f.cfg # None => g.cfg # None
<1>1. /\ disk \in [Dirs -> Files] /\ srv \in [Dirs -> Ports \cup {None}]
      /\ cl \in [Clients -> Client] /\ f \in Files
      /\ d \in Dirs /\ OnTrack(cl[c].op, cl[c].at) /\ Knows(cl[c])
      /\ Expects(cl[c].op, cl[c].at, cl[c].cfg, cl[c].port, f, srv[d])
  BY StepIsInFlight
     DEF LifeInv, Inv, TypeOK, HostTypeOK, CallsWellFormed, Holds
<1>2. Quiet => Goal
  BY DEF Quiet, host
<1>3. ASSUME NEW pid, ServerDown(d, pid) PROVE Goal
  BY <1>1, <1>3 DEF ServerDown
<1>4. ASSUME NEW cfg, NEW done, Save(c, cfg, done), cfg # None PROVE Goal
  <2>1. CASE Quiet
    BY <1>2, <2>1
  <2>2. CASE disk' = [disk EXCEPT ![d].cfg = cfg] /\ UNCHANGED srv
    BY <1>1, <1>4, <2>2 DEF Files
  <2>. QED BY <1>4, <2>1, <2>2 DEF Save
<1>5. ASSUME UNCHANGED <<disk, srv>> PROVE Goal
  BY <1>5
<1>6. CASE LifecycleStep(c)
  <2>1. CASE StartLoad(c) \/ StopLoad(c)
    BY <1>2, <2>1 DEF StartLoad, StopLoad
  <2>2. CASE StartRun(c)
    <3>1. f.cfg # None
      BY <1>1, <2>2 DEF StartRun, At, Expects
    <3>2. CASE ServerUp(d, cl[c].port)
      BY <1>1, <3>1, <3>2 DEF ServerUp, Files
    <3>. QED BY <1>2, <2>2, <3>2 DEF StartRun, PgCtlStart
  <2>3. CASE StopUnlink(c)
    BY <1>1, <2>3 DEF StopUnlink, Files
  <2>4. CASE StopRun(c)
    BY <1>2, <1>3, <2>4 DEF StopRun
  <2>. QED BY <1>6, <2>1, <2>2, <2>3, <2>4 DEF LifecycleStep
<1>7. CASE DestroyStep(c)
  <2>1. CASE DestroyLoad(c) \/ SlotLoad(c)
    BY <1>2, <2>1 DEF DestroyLoad, SlotLoad
  <2>2. CASE DropSubscription(c) \/ SlotDrop(c)
    BY <1>2, <1>5, <2>2 DEF DropSubscription, SlotDrop
  <2>3. CASE DestroyStop(c)
    BY <1>2, <1>3, <2>3 DEF DestroyStop
  <2>4. CASE DestroyRemove(c)
    BY <1>1, <2>4 DEF DestroyRemove, Removed
  <2>. QED BY <1>7, <2>1, <2>2, <2>3, <2>4 DEF DestroyStep
<1>8. CASE PromoteStep(c)
  <2>1. CASE PromoteLoad(c) \/ PromoteWait(c)
    BY <1>2, <2>1 DEF PromoteLoad, PromoteWait
  <2>2. CASE PromoteRun(c)
    <3>1. CASE disk' = [disk EXCEPT ![d].data = "promoting"] /\ UNCHANGED srv
      BY <1>1, <3>1 DEF Files
    <3>. QED BY <1>2, <2>2, <3>1 DEF PromoteRun
  <2>3. CASE PromoteSave(c)
    <3> DEFINE cfg == [cl[c].cfg EXCEPT !.role = "primary", !.physical = None]
    <3>1. cl[c].cfg \in Sandbox
      BY <1>1, <2>3 DEF PromoteSave, At, Knows, Client
    <3>2. cfg \in Sandbox
      BY <3>1 DEF Sandbox, Roles
    <3>3. cfg # None
      BY <3>2, SentinelAssumption
    <3>4. Save(c, cfg, Return(c, "ok"))
      BY <2>3 DEF PromoteSave
    <3> HIDE DEF cfg
    <3>. QED BY <1>4, <3>3, <3>4
  <2>. QED BY <1>8, <2>1, <2>2, <2>3 DEF PromoteStep
<1>9. CASE LogicalStep(c)
  <2>1. CASE PublishLoad(c) \/ ShowWalLevel(c) \/ SubscribeLoad(c)
    BY <1>2, <2>1 DEF PublishLoad, ShowWalLevel, SubscribeLoad
  <2>2. CASE AlterSystem(c) \/ CreatePublication(c) \/ CreateSubscription(c)
    BY <1>2, <1>5, <2>2 DEF AlterSystem, CreatePublication, CreateSubscription
  <2>3. CASE SubscribeSave(c)
    <3> DEFINE cfg == [cl[c].cfg EXCEPT !.role = "subscriber",
                         !.logical = [src |-> cl[c].src, sub |-> cl[c].name]]
    <3>1. Save(c, cfg, Return(c, "ok"))
      BY <2>3 DEF SubscribeSave
    <3>2. cl[c].cfg \in Sandbox /\ cl[c].src \in Dirs /\ cl[c].name \in Names
      BY <1>1, <2>3 DEF SubscribeSave, At, Knows, Client, OnTrack
    <3>3. cfg \in Sandbox
      BY <3>2 DEF Sandbox, Roles, Logical
    <3>4. cfg # None
      BY <3>3, SentinelAssumption
    <3> HIDE DEF cfg
    <3>. QED BY <1>4, <3>1, <3>4
  <2>. QED BY <1>9, <2>1, <2>2, <2>3 DEF LogicalStep
<1>10. CASE SetStep(c)
  <2>1. CASE SetLoad(c)
    BY <1>2, <2>1 DEF SetLoad
  <2>2. CASE SetSave(c)
    <3> DEFINE cfg == [cl[c].cfg EXCEPT !.port = cl[c].port]
    <3>1. cl[c].cfg \in Sandbox /\ cl[c].port \in Ports
      BY <1>1, <2>2 DEF SetSave, At, Knows, Client
    <3>2. cfg \in Sandbox
      BY <3>1 DEF Sandbox
    <3>3. cfg # None
      BY <3>2, SentinelAssumption
    <3>4. Save(c, cfg, Return(c, "ok"))
      BY <2>2 DEF SetSave
    <3> HIDE DEF cfg
    <3>. QED BY <1>4, <3>3, <3>4
  <2>. QED BY <1>10, <2>1, <2>2 DEF SetStep
<1>11. ~DeployStep(c)
  BY <1>1 DEF OnTrack, DeployOps, DeployStep, ChoosePort, MakeDirChoosePort, InitDb,
     LaunchDeployed, SaveDeployed, ProbeSource, ProbeRole, CreateRole, EnsureHba,
     BaseBackup, At
<1>. QED BY <1>6, <1>7, <1>8, <1>9, <1>10, <1>11 DEF ClientStep

\* A deploy that exits 0 has written a config.
LEMMA DeployOkRecords ==
  ASSUME LifeInv, NEW c \in Clients, ClientStep(c), cl[c].op \in DeployOps,
         cl'[c].at = "ok"
  PROVE  disk'[cl[c].dir].cfg # None
<1> DEFINE d == cl[c].dir
<1>1. /\ disk \in [Dirs -> Files] /\ cl \in [Clients -> Client]
      /\ d \in Dirs /\ OnTrack(cl[c].op, cl[c].at) /\ Knows(cl[c]) /\ InFlight(c)
      /\ cl[c] \in Client
  BY StepIsInFlight DEF LifeInv, Inv, TypeOK, HostTypeOK, CallsWellFormed
<1>2. /\ \A point \in Points : ~Go(c, point)
      /\ ~Return(c, "fail")
  BY <1>1 DEF Go, Return, Idle, Client, Points
<1>3. ASSUME NEW cfg, NEW done, Save(c, cfg, done), cfg # None
      PROVE  disk'[d].cfg # None
  BY <1>1, <1>2, <1>3 DEF Save, Files
<1>4. CASE SaveDeployed(c)
  <2> DEFINE standby == cl[c].op = "standby"
             cfg == [port |-> cl[c].port,
                     role |-> IF standby THEN "standby" ELSE "primary",
                     physical |-> IF standby
                                  THEN [src |-> cl[c].src, slot |-> cl[c].name]
                                  ELSE None,
                     logical |-> None]
  <2>1. PICK done : Save(c, cfg, done)
    BY <1>4 DEF SaveDeployed
  <2>2. cl[c].port \in Ports
    BY <1>1, <1>4 DEF SaveDeployed, At, Knows, Client
  <2>3. standby => cl[c].src \in Dirs /\ cl[c].name \in Names
    BY <1>1 DEF Knows, Client
  <2>4. cfg \in Sandbox
    BY <2>2, <2>3 DEF Sandbox, Roles, Physical
  <2>5. cfg # None
    BY <2>4, SentinelAssumption
  <2> HIDE DEF cfg
  <2>. QED BY <1>3, <2>1, <2>5
<1>5. CASE SubscribeSave(c)
  <2> DEFINE cfg == [cl[c].cfg EXCEPT !.role = "subscriber",
                       !.logical = [src |-> cl[c].src, sub |-> cl[c].name]]
  <2>1. Save(c, cfg, Return(c, "ok"))
    BY <1>5 DEF SubscribeSave
  <2>2. cl[c].cfg \in Sandbox /\ cl[c].src \in Dirs /\ cl[c].name \in Names
    BY <1>1, <1>5 DEF SubscribeSave, At, Knows, Client, OnTrack
  <2>3. cfg \in Sandbox
    BY <2>2 DEF Sandbox, Roles, Logical
  <2>4. cfg # None
    BY <2>3, SentinelAssumption
  <2> HIDE DEF cfg
  <2>. QED BY <1>3, <2>1, <2>4
<1>6. CASE DeployStep(c)
  <2>1. ASSUME NEW next \in {"init", "base"} PROVE ~ResolvePort(c, next)
    BY <1>1, <1>2, <2>1 DEF ResolvePort, Client
  <2>2. ~ChoosePort(c) /\ ~MakeDirChoosePort(c)
    BY <2>1 DEF ChoosePort, MakeDirChoosePort
  <2>3. ~InitDb(c) /\ ~LaunchDeployed(c)
    BY <1>2 DEF InitDb, LaunchDeployed, PgCtlStart, Points
  <2>4. ~ProbeSource(c)
    BY <1>1, <1>2 DEF ProbeSource, Client
  <2>5. ~ProbeRole(c)
    BY <1>2 DEF ProbeRole, Points
  <2>6. ~CreateRole(c) /\ ~EnsureHba(c) /\ ~BaseBackup(c)
    BY <1>2 DEF CreateRole, EnsureHba, BaseBackup, Points
  <2>. QED BY <1>4, <1>6, <2>2, <2>3, <2>4, <2>5, <2>6 DEF DeployStep
<1>7. ~LifecycleStep(c) /\ ~DestroyStep(c) /\ ~PromoteStep(c) /\ ~SetStep(c)
  BY <1>1 DEF OnTrack, DeployOps, LifecycleStep, StartLoad, StartRun, StopLoad,
     StopUnlink, StopRun, DestroyStep, DestroyLoad, DropSubscription, DestroyStop,
     SlotLoad, SlotDrop, DestroyRemove, PromoteStep, PromoteLoad, PromoteRun,
     PromoteWait, PromoteSave, SetStep, SetLoad, SetSave, At
<1>8. CASE LogicalStep(c)
  <2>1. SubscribeLoad(c) \/ CreateSubscription(c) \/ SubscribeSave(c)
    BY <1>1, <1>8 DEF LogicalStep, PublishLoad, ShowWalLevel, AlterSystem,
       CreatePublication, At, OnTrack, DeployOps
  <2>2. ~SubscribeLoad(c)
    BY <1>1, <1>2 DEF SubscribeLoad, Client
  <2>3. ~CreateSubscription(c)
    BY <1>2 DEF CreateSubscription, Points
  <2>. QED BY <1>5, <2>1, <2>2, <2>3
<1>. QED BY <1>6, <1>7, <1>8 DEF ClientStep

\* The same of every step but those of a member's deploy.
LEMMA ServersKept ==
  ASSUME Disciplined, Ops \cap DeployOps = {}, AloneInv, ClusterNext,
         ~(MemberStep /\ clu.at = "deploy.member")
  PROVE  \A d \in Dirs : srv'[d] # None =>
           /\ srv[d] # None \/ disk[d].cfg # None
           /\ disk[d].cfg # None => disk'[d].cfg # None
<1> DEFINE Goal == \A d \in Dirs : srv'[d] # None =>
                     /\ srv[d] # None \/ disk[d].cfg # None
                     /\ disk[d].cfg # None => disk'[d].cfg # None
<1>1. /\ CluInv /\ LifeInv /\ Marked /\ HostTypeOK /\ cl \in [Clients -> Client]
  BY DEF AloneInv, LifeInv, Inv, TypeOK
<1>2. ASSUME NEW c \in Clients, ClientStep(c), cl[c].op \notin DeployOps,
             cl[c].dir \in Dirs, Elsewhere(cl[c].dir)
      PROVE  Goal
  BY <1>1, <1>2, ServerFrame DEF Elsewhere
<1>3. ASSUME UNCHANGED <<disk, srv>> PROVE Goal
  BY <1>3
<1>4. CASE MemberStep
  <2>1. cl[Conductor].op \in {"publish", "destroy"}
    BY <1>1, <1>4, MemberFiles DEF CluInv, Conducts
  <2>. QED BY <1>2, <1>3, <1>4, <2>1, MemberFiles, TheMembers DEF DeployOps
<1>5. CASE ClusterDeployStep
  BY <1>1, <1>3, <1>5, DeployMoves DEF Quiet, host
<1>6. CASE ClusterDestroyStep
  <2>1. CASE StubStop \/ StubRemove
    BY <2>1, StubMoves DEF Elsewhere
  <2>. QED BY <1>3, <1>6, <2>1
       DEF ClusterDestroyStep, DestroyMember, MemberDestroyed, FinishDestroy, Quiet, host
<1>7. CASE OtherStep
  <2>1. PICK c \in Clients \ {Conductor} : BeginCall(c) \/ ClientStep(c) \/ KillClient(c)
    BY <1>7 DEF OtherStep
  <2>2. CASE ClientStep(c)
    <3>1. InFlight(c) /\ cl[c].dir \in Dirs /\ cl[c].op \in Ops
      BY <1>1, <2>2, StepIsInFlight
         DEF AloneInv, OthersOffered, CluInv, Inv, CallsWellFormed
    <3>2. Elsewhere(cl[c].dir)
      BY <1>1, <2>2, <3>1, OwnSandboxOnly
    <3>. QED BY <1>2, <2>2, <3>1, <3>2
  <2>3. CASE BeginCall(c) \/ KillClient(c)
    BY <1>3, <2>3 DEF BeginCall, BeginDeploy, BeginLifecycle, BeginDestroy,
       BeginPromote, BeginPublish, BeginSubscribe, BeginSet, Begin, KillClient,
       Quiet, host
  <2>. QED BY <2>1, <2>2, <2>3
<1>8. CASE ClusterEnvironment
  BY <1>1, <1>8, MachineFiles DEF ClusterEnvironment, Environment
<1>9. CASE BeginCluster \/ KillCluster
  BY <1>3, <1>9 DEF BeginCluster, BeginClusterDeploy, BeginClusterDestroy,
     KillCluster, Quiet, host
<1>. QED BY <1>4, <1>5, <1>6, <1>7, <1>8, <1>9 DEF ClusterNext, ClusterStep

\* A server without a config is that of a member listed as failed.  The members
\* that a deploy has got up have a config, and so does the one it has just got up.
Accounted ==
  /\ manifest # None =>
       \A j \in 1 .. Len(manifest) :
         srv[manifest[j].dir] # None /\ ~manifest[j].failed =>
           disk[manifest[j].dir].cfg # None
  /\ clu.at \in DeployPoints =>
       \A j \in 1 .. Len(clu.members) : disk[Members[j]].cfg # None
  /\ clu.at = "deploy.member" /\ cl[Conductor].at = "ok" =>
       disk[Members[clu.i]].cfg # None

AccountInv == RemainsInv /\ Ordered /\ Accounted

LEMMA DeployAccounts ==
  ASSUME AccountInv, AloneInv', ClusterDeployStep
  PROVE  Accounted'
<1>1. /\ AloneInv /\ CluInv /\ CluInv' /\ clu \in Cluster
      /\ cl \in [Clients -> Client] /\ Conductor \in Clients
      /\ Len(Members) \in Nat
      /\ \A j \in 1 .. Len(Members) : Members[j] \in Dirs
  BY TheMembers DEF AccountInv, RemainsInv, AloneInv, CluInv, Inv, TypeOK
<1>2. /\ Ending \/ Going
      /\ UNCHANGED <<disk, srv>> /\ clu.at \in DeployPoints /\ manifest = None
  BY <1>1, DeployMoves DEF Quiet, host, AloneInv, Ahead
<1>3. /\ clu.i \in 1 .. Len(Members)
      /\ Len(clu.members) = IF clu.at = "deploy.member" THEN clu.i - 1 ELSE clu.i
  BY <1>1, <1>2, UpToHere
<1>4. \A j \in 1 .. Len(clu.members) : disk[Members[j]].cfg # None
  BY <1>2 DEF AccountInv, Accounted
<1>5. CASE Ending
  <2>1. clu'.at \notin DeployPoints
    BY <1>5 DEF Ending, Ends, DeployPoints
  <2>2. CASE UNCHANGED manifest
    BY <1>2, <2>1, <2>2 DEF Accounted, DeployPoints
  <2>3. CASE /\ Len(manifest') = clu.i
             /\ \A j \in 1 .. clu.i : /\ manifest'[j].dir = Members[j]
                                      /\ ~manifest'[j].failed => j <= Len(clu.members)
    <3>1. \A j \in 1 .. clu.i : ~manifest'[j].failed => j \in 1 .. Len(clu.members)
      BY <1>3, <2>3
    <3>. QED BY <1>2, <1>4, <2>1, <2>3, <3>1 DEF Accounted, DeployPoints
  <2>. QED BY <1>5, <2>2, <2>3 DEF Ending
<1>6. CASE Going
  <2>1. /\ manifest' = None /\ clu'.at \in DeployPoints /\ clu'.i \in {clu.i, clu.i + 1}
        /\ clu'.at # "deploy.member" => clu'.i = clu.i
    BY <1>1, <1>2, <1>6 DEF Going, Cluster
  <2>2. clu'.at = "deploy.member" => cl'[Conductor].at # "ok"
    BY <1>1, <1>6 DEF Going, Call
  <2>4. CASE clu'.members = clu.members
    BY <1>2, <1>4, <2>1, <2>2, <2>4 DEF Accounted
  <2>5. CASE clu.at = "deploy.member" /\ cl[Conductor].at = "ok"
    <3>1. disk[Members[clu.i]].cfg # None /\ Len(clu.members) = clu.i - 1
      BY <1>1, <1>2, <2>5, UpToHere DEF AccountInv, Accounted
    <3>2. Len(clu'.members) = clu.i
      <4>1. CASE clu'.at = "deploy.member"
        <5>1. clu'.i = clu.i + 1 /\ Len(clu'.members) = clu'.i - 1
          BY <1>1, <1>6, <4>1 DEF Going, CluInv, Reached, FirstOnes
        <5>. QED BY <1>3, <5>1
      <4>2. CASE clu'.at \in {"deploy.publish", "deploy.sql"}
        BY <1>1, <2>1, <4>2 DEF CluInv, Reached, FirstOnes
      <4>3. CASE clu'.at = "deploy.save"
        BY <1>1, <2>1, <4>3 DEF CluInv, Reached, FirstOnes
      <4>. QED BY <2>1, <4>1, <4>2, <4>3 DEF DeployPoints
    <3>4. \A j \in 1 .. clu.i : j = clu.i \/ j \in 1 .. clu.i - 1
      BY <1>3
    <3>3. \A j \in 1 .. Len(clu'.members) : disk'[Members[j]].cfg # None
      BY <1>2, <1>4, <3>1, <3>2, <3>4
    <3>. QED BY <2>1, <2>2, <3>3 DEF Accounted
  <2>. QED BY <1>6, <2>4, <2>5 DEF Going
<1>. QED BY <1>2, <1>5, <1>6

\* A member's deploy writes only in that member's directory.
LEMMA DeployedAccounts ==
  ASSUME Disciplined, AccountInv, MemberStep, clu.at = "deploy.member"
  PROVE  Accounted'
<1>1. /\ AloneInv /\ CluInv /\ LifeInv /\ Marked /\ clu \in Cluster
      /\ cl \in [Clients -> Client] /\ Conductor \in Clients /\ Len(Members) \in Nat
      /\ \A j \in 1 .. Len(Members) : Members[j] \in Dirs
  BY TheMembers DEF AccountInv, RemainsInv, AloneInv, CluInv, Inv, TypeOK
<1>2. /\ clu'.at = clu.at /\ clu'.i = clu.i /\ clu'.members = clu.members
      /\ UNCHANGED manifest /\ manifest = None
  BY <1>1, MemberStepKeeps DEF AloneInv, Ahead, DeployPoints
<1>3. /\ clu.i \in 1 .. Len(Members) /\ Len(clu.members) = clu.i - 1
  BY <1>1, UpToHere DEF DeployPoints
<1>4. /\ InFlight(Conductor) /\ Elsewhere(Members[clu.i])
      /\ cl[Conductor].op \in DeployOps /\ cl[Conductor].dir = Members[clu.i]
      /\ ClientStep(Conductor) \/ Skips(Conductor)
  BY <1>1, MemberFiles DEF CluInv, Conducts, DeployOps
<1>5. \A j \in 1 .. Len(clu.members) : /\ j \in 1 .. Len(Members)
                                       /\ Members[j] # Members[clu.i]
  <2>1. \A j \in 1 .. Len(clu.members) : j \in 1 .. Len(Members) /\ j # clu.i
    BY <1>1, <1>3
  <2>. QED BY <1>3, <2>1, TheMembers
<1>6. \A j \in 1 .. Len(clu.members) : disk'[Members[j]].cfg # None
  BY <1>1, <1>4, <1>5 DEF AccountInv, Accounted, DeployPoints, Elsewhere
<1>7. cl'[Conductor].at = "ok" => disk'[Members[clu.i]].cfg # None
  <2>1. Skips(Conductor) => cl'[Conductor].at # "ok"
    BY <1>1, SkipsMoves
  <2>. QED BY <1>1, <1>4, <2>1, DeployOkRecords
<1>. QED BY <1>2, <1>6, <1>7 DEF Accounted

LEMMA AccountStep ==
  ASSUME Disciplined, Ops \cap DeployOps = {}, AccountInv, [ClusterNext]_clusterVars
  PROVE  AccountInv'
<1>1. /\ RemainsInv /\ RemainsInv' /\ AloneInv /\ AloneInv' /\ CluInv /\ CluInv'
      /\ LifeInv /\ Marked /\ HostTypeOK /\ clu \in Cluster
      /\ cl \in [Clients -> Client] /\ Conductor \in Clients /\ Len(Members) \in Nat
      /\ \A j \in 1 .. Len(Members) : Members[j] \in Dirs
  BY RemainsStep, TheMembers
     DEF AccountInv, RemainsInv, AloneInv, CluInv, LifeInv, Inv, TypeOK
<1>a. Ordered'
  BY <1>1, OrderedStep DEF AccountInv, Ordered, clusterVars
<1>. SUFFICES Accounted'
  BY <1>1, <1>a DEF AccountInv
<1>2. CASE UNCHANGED clusterVars
  BY <1>2 DEF AccountInv, Accounted, clusterVars, vars
<1>3. CASE ClusterDeployStep
  BY <1>1, <1>3, DeployAccounts
<1>4. CASE MemberStep /\ clu.at = "deploy.member"
  BY <1>4, DeployedAccounts
<1>5. CASE ClusterNext /\ ~ClusterDeployStep /\ ~(MemberStep /\ clu.at = "deploy.member")
  <2>1. UNCHANGED manifest \/ manifest' = None
    BY <1>1, <1>5, ManifestMoves DEF Finishing
  <2>3. manifest' # None =>
          \A j \in 1 .. Len(manifest') :
            srv'[manifest'[j].dir] # None /\ ~manifest'[j].failed =>
              disk'[manifest'[j].dir].cfg # None
    <3>1. SUFFICES ASSUME manifest # None, UNCHANGED manifest,
                          NEW j \in 1 .. Len(manifest),
                          srv'[manifest[j].dir] # None, ~manifest[j].failed
                   PROVE  disk'[manifest[j].dir].cfg # None
      BY <2>1
    <3>2. manifest \in Seq(Member)
      BY <1>1, <3>1 DEF CluInv
    <3>3. manifest[j] \in Member
      BY <3>1, <3>2
    <3>4. manifest[j].dir \in Dirs
      BY <3>3 DEF Member
    <3>. QED BY <1>1, <1>5, <3>1, <3>4, ServersKept DEF AccountInv, Accounted
  <2>4. CASE clu'.at \notin DeployPoints
    BY <2>3, <2>4 DEF Accounted, DeployPoints
  <2>5. ASSUME clu.at \in DeployPoints, UNCHANGED <<clu, cl>>,
               \A d \in Dirs : disk[d].cfg # None => disk'[d].cfg # None
        PROVE  Accounted'
    <3>1. clu.i \in 1 .. Len(Members) /\ Len(clu.members) \in {clu.i - 1, clu.i}
      BY <1>1, <2>5, UpToHere
    <3>2. \A j \in 1 .. Len(clu.members) : j \in 1 .. Len(Members)
      BY <1>1, <3>1
    <3>3. \A j \in 1 .. Len(clu.members) : disk'[Members[j]].cfg # None
      BY <1>1, <2>5, <3>2 DEF AccountInv, Accounted
    <3>4. clu.at = "deploy.member" /\ cl[Conductor].at = "ok" =>
            disk'[Members[clu.i]].cfg # None
      BY <1>1, <2>5, <3>1 DEF AccountInv, Accounted
    <3>. QED BY <2>3, <2>5, <3>3, <3>4 DEF Accounted
  <2>6. CASE MemberStep /\ clu.at \in DeployPoints
    <3>1. /\ clu'.at = clu.at /\ clu'.i = clu.i /\ clu'.members = clu.members
          /\ clu.at # "deploy.member"
      BY <1>1, <1>5, <2>6, MemberStepKeeps
    <3>2. /\ cl[Conductor].op = "publish" /\ cl[Conductor].dir \in Dirs
          /\ Elsewhere(cl[Conductor].dir)
          /\ ClientStep(Conductor) \/ UNCHANGED disk
      BY <1>1, <2>6, <3>1, MemberFiles DEF CluInv, Conducts, DeployPoints
    <3>3. \A d \in Dirs : disk[d].cfg # None => disk'[d].cfg # None
      <4>1. CASE ClientStep(Conductor)
        BY <1>1, <3>2, <4>1, FileFrame DEF Elsewhere
      <4>. QED BY <3>2, <4>1
    <3>4. clu.i \in 1 .. Len(Members) /\ Len(clu.members) = clu.i
      BY <1>1, <2>6, <3>1, UpToHere
    <3>5. \A j \in 1 .. Len(clu.members) : j \in 1 .. Len(Members)
      BY <1>1, <3>4
    <3>6. \A j \in 1 .. Len(clu.members) : disk'[Members[j]].cfg # None
      BY <1>1, <2>6, <3>3, <3>5 DEF AccountInv, Accounted
    <3>. QED BY <2>3, <3>1, <3>6 DEF Accounted
  <2>7. CASE MemberStep /\ clu.at \notin DeployPoints
    BY <1>1, <2>4, <2>7, MemberStepKeeps
  <2>8. CASE ClusterDestroyStep
    <3>1. clu'.at \notin DeployPoints
      BY <1>1, <2>8, DestroyMoves DEF Finishing, Advancing, Ends, DeployPoints
    <3>. QED BY <2>4, <3>1
  <2>9. CASE BeginClusterDestroy \/ KillCluster
    BY <2>4, <2>9 DEF BeginClusterDestroy, KillCluster, ClusterReturn, NoCluster,
       DeployPoints
  <2>10. CASE BeginClusterDeploy
    <3>1. /\ clu'.at = "deploy.member" /\ clu'.members = <<>>
      BY <2>10 DEF BeginClusterDeploy, NoCluster
    <3>2. PICK port : Call("deploy", "port", Primary, None, None, port, PortBase)
      BY <2>10 DEF BeginClusterDeploy
    <3>3. cl'[Conductor].at = "port"
      BY <1>1, <3>2 DEF Call
    <3>4. \A j \in 1 .. Len(clu'.members) : FALSE
      BY <3>1
    <3>. QED BY <2>3, <3>1, <3>3, <3>4 DEF Accounted
  <2>11. CASE OtherStep
    <3>1. clu'.at \notin DeployPoints
      BY <1>1, <2>11, OtherStepAlone DEF OtherStep, ClusterBusy, Ends, DeployPoints
    <3>. QED BY <2>4, <3>1
  <2>12. CASE ClusterEnvironment
    <3>1. CASE UNCHANGED <<cl, clu>> /\ clu.at \in DeployPoints
      <4>1. \A d \in Dirs : disk[d].cfg # None => disk'[d].cfg # None
        BY <1>1, <2>12, MachineFiles DEF ClusterEnvironment, Environment
      <4>. QED BY <2>5, <3>1, <4>1
    <3>2. CASE Reboot /\ clu' = IF ClusterBusy THEN [NoCluster EXCEPT !.at = "fail"]
                                ELSE clu
      BY <2>4, <3>2 DEF NoCluster, ClusterBusy, Ends, DeployPoints
    <3>. QED BY <2>4, <2>12, <3>1, <3>2 DEF ClusterEnvironment, Machine
  <2>. QED BY <1>5, <2>6, <2>7, <2>8, <2>9, <2>10, <2>11, <2>12
           DEF ClusterNext, ClusterStep, BeginCluster
<1>. QED BY <1>2, <1>3, <1>4, <1>5

\* A destroy that has found a config ends only by removing the sandbox, and the
\* server with it.
LEMMA DestroyEndsDown ==
  ASSUME Inv, NEW c \in Clients, cl[c].op = "destroy",
         ClientStep(c) \/ Skips(c), disk[cl[c].dir].cfg # None
  PROVE  LET d == cl[c].dir IN
         /\ srv'[d] \in {srv[d], None}
         /\ IF InFlight(c)' THEN disk'[d].cfg # None ELSE srv'[d] = None
<1> DEFINE d == cl[c].dir
<1>1. /\ cl \in [Clients -> Client] /\ disk \in [Dirs -> Files] /\ InFlight(c)
      /\ srv \in [Dirs -> Ports \cup {None}] /\ d \in Dirs
  BY StepIsInFlight, SkipsMoves DEF Inv, TypeOK, HostTypeOK, CallsWellFormed
<1>2. ASSUME NEW point \in Points, Go(c, point) PROVE InFlight(c)'
  BY <1>1, <1>2 DEF Go, InFlight, Ends, Points
<1>3. ASSUME UNCHANGED <<disk, srv>>, InFlight(c)'
      PROVE  /\ srv'[d] \in {srv[d], None} /\ disk'[d].cfg # None /\ InFlight(c)'
  BY <1>1, <1>3
<1>4. CASE Skips(c)
  <2>1. InFlight(c)'
    BY <1>1, <1>4, SkipsMoves DEF InFlight, Ends
  <2>. QED BY <1>3, <1>4, <2>1 DEF Skips, Quiet, host
<1>5. CASE ClientStep(c)
  <2>1. DestroyStep(c)
    BY <1>1, <1>5, DestroysOwnStep
  <2>2. CASE DestroyLoad(c)
    <3>1. cl'[c].at \in {"destroy.sub", "destroy.stop"}
      BY <1>1, <2>2 DEF DestroyLoad, Client
    <3>2. InFlight(c)'
      BY <3>1 DEF InFlight, Ends
    <3>. QED BY <1>3, <2>2, <3>2 DEF DestroyLoad, Quiet, host
  <2>3. SlotDone(c) => InFlight(c)'
    BY <1>2 DEF SlotDone, Points
  <2>4. CASE DropSubscription(c) \/ SlotDrop(c)
    <3>1. UNCHANGED <<disk, srv>> /\ InFlight(c)'
      BY <1>2, <2>3, <2>4 DEF DropSubscription, SlotDrop, Quiet, host, Points
    <3>. QED BY <1>3, <3>1
  <2>5. CASE SlotLoad(c)
    <3>1. InFlight(c)'
      <4>1. CASE SlotDone(c)
        BY <2>3, <4>1
      <4>2. CASE ~SlotDone(c)
        <5>1. cl'[c].at = "slot.drop"
          BY <1>1, <2>5, <4>2 DEF SlotLoad, Client
        <5>. QED BY <5>1 DEF InFlight, Ends
      <4>. QED BY <4>1, <4>2
    <3>. QED BY <1>3, <2>5, <3>1 DEF SlotLoad, Quiet, host
  <2>6. CASE DestroyStop(c)
    <3>1. InFlight(c)'
      BY <1>2, <2>6 DEF DestroyStop, Points
    <3>2. CASE ServerDown(d, "none")
      <4>1. disk'[d].cfg = disk[d].cfg /\ srv'[d] = None
        BY <1>1, <3>2 DEF ServerDown, Files
      <4>. QED BY <3>1, <4>1
    <3>. QED BY <1>3, <2>6, <3>1, <3>2 DEF DestroyStop, Quiet, host
  <2>7. CASE DestroyRemove(c)
    <3>1. ~InFlight(c)'
      BY <1>1, <2>7 DEF DestroyRemove, Return, Idle, InFlight, Ends
    <3>2. srv'[d] = None
      BY <1>1, <2>7 DEF DestroyRemove, Removed
    <3>. QED BY <3>1, <3>2
  <2>. QED BY <2>1, <2>2, <2>4, <2>5, <2>6, <2>7 DEF DestroyStep
<1>. QED BY <1>4, <1>5

\* The members that a destroy has gone past are down, the survivors included.
Downed ==
  /\ clu.at \in DestroyPoints =>
       \A j \in clu.i + 1 .. Len(clu.members) : srv[clu.members[j].dir] = None
  /\ clu.at = "destroy.member" =>
       IF InFlight(Conductor) THEN disk[Victim.dir].cfg # None
       ELSE srv[Victim.dir] = None

DownInv == AccountInv /\ Downed

\* A member that a destroy does not enter, because it has no config and is not
\* listed as failed or has no directory, is not up.
LEMMA NothingToDestroy ==
  ASSUME AccountInv, clu.at \in DestroyPoints, clu.i \in 1 .. Len(clu.members),
         disk[Victim.dir].cfg = None, ~(Victim.failed /\ disk[Victim.dir].made)
  PROVE  srv[Victim.dir] = None
<1>1. /\ CluInv /\ LifeInv /\ Marked /\ manifest = clu.members /\ manifest # None
  BY DEF AccountInv, RemainsInv, AloneInv, FromManifest
<1>2. Victim.dir \in Dirs
  BY <1>1, VictimTyped
<1>3. CASE Victim.failed
  <2>1. ~disk[Victim.dir].made
    BY <1>3
  <2>2. disk[Victim.dir].data = "absent"
    BY <1>1, <1>2, <2>1 DEF Marked
  <2>. QED BY <1>1, <1>2, <2>2 DEF LifeInv, Sane, Coherent, Complete
<1>4. CASE ~Victim.failed
  BY <1>1, <1>4 DEF AccountInv, Accounted, Victim
<1>. QED BY <1>3, <1>4

LEMMA DestroyGoesDown ==
  ASSUME DownInv, AccountInv', ClusterDestroyStep
  PROVE  Downed'
<1>1. /\ CluInv /\ LifeInv /\ clu \in Cluster /\ cl \in [Clients -> Client]
      /\ Conductor \in Clients /\ srv \in [Dirs -> Ports \cup {None}]
      /\ clu.i \in Nat /\ Len(clu.members) \in Nat
      /\ clu.at \in DestroyPoints /\ (Finishing \/ Advancing)
  <2>1. CluInv /\ LifeInv /\ clu \in Cluster /\ Conductor \in Clients
    BY TheMembers DEF DownInv, AccountInv, RemainsInv, AloneInv, CluInv
  <2>. QED BY <2>1, DestroyMoves DEF CluInv, Inv, TypeOK, HostTypeOK, Cluster
<1>2. CASE Finishing
  BY <1>2 DEF Finishing, Downed, Ends, DestroyPoints
<1>3. CASE Advancing
  <2>1. /\ clu'.members = clu.members /\ clu.i \in 1 .. Len(clu.members)
        /\ Victim.dir \in Dirs
    BY <1>1, <1>3, VictimTyped DEF Advancing
  <2>2. \A d \in Dirs : srv'[d] \in {srv[d], None}
    <3>1. CASE StubStop \/ StubRemove
      BY <3>1, StubMoves DEF DownInv, AccountInv, RemainsInv, Elsewhere
    <3>. QED BY <3>1
         DEF ClusterDestroyStep, DestroyMember, MemberDestroyed, FinishDestroy, Quiet, host
  <2>3. \A j \in 1 .. Len(clu.members) : clu.members[j].dir \in Dirs
    <3>1. \A j \in 1 .. Len(clu.members) : clu.members[j] \in Member
      BY <1>1 DEF Cluster
    <3>. QED BY <3>1 DEF Member
  <2>4. \A j \in clu.i + 1 .. Len(clu.members) : srv'[clu.members[j].dir] = None
    <3>1. \A j \in clu.i + 1 .. Len(clu.members) : j \in 1 .. Len(clu.members)
      BY <1>1
    <3>2. \A j \in clu.i + 1 .. Len(clu.members) : srv[clu.members[j].dir] = None
      BY <1>1 DEF DownInv, Downed
    <3>. QED BY <2>2, <2>3, <3>1, <3>2
  <2>5. ASSUME clu'.at = "destroy.next", clu'.i = clu.i - 1, srv'[Victim.dir] = None
        PROVE  Downed'
    <3>1. \A j \in clu'.i + 1 .. Len(clu'.members) :
            j = clu.i \/ j \in clu.i + 1 .. Len(clu.members)
      BY <1>1, <2>1, <2>5
    <3>2. \A j \in clu'.i + 1 .. Len(clu'.members) : srv'[clu'.members[j].dir] = None
      BY <2>1, <2>4, <2>5, <3>1 DEF Victim
    <3>. QED BY <2>5, <3>2 DEF Downed
  <2>6. ASSUME clu'.at \in {"destroy.member", "stub.stop", "stub.rm"}, clu'.i = clu.i,
               clu'.at = "destroy.member" =>
                 disk'[Victim.dir].cfg # None /\ InFlight(Conductor)'
        PROVE  Downed'
    <3>1. Victim' = Victim
      BY <2>1, <2>6 DEF Victim
    <3>. QED BY <2>1, <2>4, <2>6, <3>1 DEF Downed
  <2>7. CASE DestroyMember
    <3>1. /\ Quiet /\ clu.at = "destroy.next"
      BY <2>7 DEF DestroyMember, ClusterAt
    <3>2. CASE /\ disk[Victim.dir].cfg # None
               /\ clu' = [clu EXCEPT !.at = "destroy.member"]
               /\ Call("destroy", "destroy.load", Victim.dir, SourceOf(Victim.dir),
                       None, None, PortBase)
      <4>1. cl'[Conductor].at = "destroy.load"
        BY <1>1, <3>2 DEF Call
      <4>2. clu'.at = "destroy.member" /\ clu'.i = clu.i
        BY <1>1, <3>2 DEF Cluster
      <4>3. InFlight(Conductor)' /\ disk'[Victim.dir].cfg # None
        BY <3>1, <3>2, <4>1 DEF InFlight, Ends, Quiet, host
      <4>. QED BY <2>6, <4>2, <4>3
    <3>3. CASE clu' = [clu EXCEPT !.at = "stub.stop"]
      BY <1>1, <2>6, <3>3 DEF Cluster
    <3>4. CASE /\ disk[Victim.dir].cfg = None
               /\ ~(Victim.failed /\ disk[Victim.dir].made)
               /\ NextMember(clu.survivors)
      <4>1. srv'[Victim.dir] = None
        <5>1. srv[Victim.dir] = None
          BY <1>1, <2>1, <3>4, NothingToDestroy DEF DownInv
        <5>. QED BY <3>1, <5>1 DEF Quiet, host
      <4>2. clu'.at = "destroy.next" /\ clu'.i = clu.i - 1
        BY <1>1, <3>4 DEF NextMember, Cluster
      <4>. QED BY <2>5, <4>1, <4>2
    <3>. QED BY <2>7, <3>2, <3>3, <3>4 DEF DestroyMember
  <2>8. CASE MemberDestroyed
    <3>1. /\ Quiet /\ clu.at = "destroy.member" /\ ~InFlight(Conductor)
          /\ \E s : NextMember(s)
      BY <2>8 DEF MemberDestroyed, ClusterAt
    <3>2. clu'.at = "destroy.next" /\ clu'.i = clu.i - 1
      BY <1>1, <3>1 DEF NextMember, Cluster
    <3>3. srv'[Victim.dir] = None
      BY <3>1 DEF DownInv, Downed, Quiet, host
    <3>. QED BY <2>5, <3>2, <3>3
  <2>9. CASE StubStop
    <3>1. clu'.at = "stub.rm" /\ clu'.i = clu.i
      BY <1>1, <2>9 DEF StubStop, Cluster
    <3>. QED BY <2>6, <3>1
  <2>10. CASE StubRemove
    <3>1. srv'[Victim.dir] = None
      BY <2>10, StubMoves DEF DownInv, AccountInv, RemainsInv
    <3>2. clu'.at = "destroy.next" /\ clu'.i = clu.i - 1
      BY <1>1, <2>10 DEF StubRemove, NextMember, Cluster
    <3>. QED BY <2>5, <3>1, <3>2
  <2>11. CASE FinishDestroy
    BY <2>1, <2>11 DEF FinishDestroy
  <2>. QED BY <2>7, <2>8, <2>9, <2>10, <2>11 DEF ClusterDestroyStep
<1>. QED BY <1>1, <1>2, <1>3

LEMMA DownStep ==
  ASSUME Disciplined, Ops \cap DeployOps = {}, DownInv, [ClusterNext]_clusterVars
  PROVE  DownInv'
<1>1. /\ AccountInv /\ AccountInv' /\ AloneInv /\ CluInv /\ HostTypeOK
      /\ clu \in Cluster /\ cl \in [Clients -> Client] /\ Conductor \in Clients
      /\ clu.i \in Nat /\ Len(clu.members) \in Nat
  <2>1. /\ AccountInv /\ AccountInv' /\ AloneInv /\ CluInv /\ clu \in Cluster
        /\ Conductor \in Clients
    BY AccountStep, TheMembers DEF DownInv, AccountInv, RemainsInv, AloneInv, CluInv
  <2>. QED BY <2>1 DEF CluInv, Inv, TypeOK, Cluster
<1>. SUFFICES Downed'
  BY <1>1 DEF DownInv
<1>2. CASE UNCHANGED clusterVars
  BY <1>2 DEF DownInv, Downed, Victim, InFlight, clusterVars, vars
<1>3. CASE clu'.at \notin DestroyPoints
  BY <1>3 DEF Downed, DestroyPoints
<1>4. ASSUME clu.at \in DestroyPoints,
             clu'.at = clu.at, clu'.i = clu.i, clu'.members = clu.members,
             \A d \in Dirs : srv[d] = None => srv'[d] = None,
             clu.at = "destroy.member" =>
               IF InFlight(Conductor)' THEN disk'[Victim.dir].cfg # None
               ELSE srv'[Victim.dir] = None
      PROVE  Downed'
  <2>1. Victim' = Victim
    BY <1>4 DEF Victim
  <2>2. \A j \in clu.i + 1 .. Len(clu.members) : clu.members[j].dir \in Dirs
    <3>1. \A j \in clu.i + 1 .. Len(clu.members) : j \in 1 .. Len(clu.members)
      BY <1>1
    <3>2. \A j \in 1 .. Len(clu.members) : clu.members[j] \in Member
      BY <1>1 DEF Cluster
    <3>. QED BY <3>1, <3>2 DEF Member
  <2>3. \A j \in clu.i + 1 .. Len(clu.members) : srv'[clu.members[j].dir] = None
    BY <1>4, <2>2 DEF DownInv, Downed
  <2>. QED BY <1>4, <2>1, <2>3 DEF Downed
<1>5. CASE MemberStep
  <2>1. clu'.at = clu.at /\ clu'.i = clu.i /\ clu'.members = clu.members
    BY <1>1, <1>5, MemberStepKeeps
  <2>2. CASE clu.at \in DestroyPoints
    <3>1. /\ cl[Conductor].op = "destroy" /\ cl[Conductor].dir = Victim.dir
          /\ clu.at = "destroy.member" /\ InFlight(Conductor)
          /\ Elsewhere(Victim.dir) /\ Victim.dir \in Dirs
          /\ ClientStep(Conductor) \/ Skips(Conductor)
      BY <1>1, <1>5, <2>2, MemberFiles DEF CluInv, Conducts, DestroyPoints
    <3>2. disk[Victim.dir].cfg # None
      BY <3>1 DEF DownInv, Downed
    <3>3. /\ srv'[Victim.dir] \in {srv[Victim.dir], None}
          /\ IF InFlight(Conductor)' THEN disk'[Victim.dir].cfg # None
             ELSE srv'[Victim.dir] = None
      BY <1>1, <3>1, <3>2, DestroyEndsDown DEF CluInv
    <3>4. \A d \in Dirs : srv[d] = None => srv'[d] = None
      BY <3>1, <3>3 DEF Elsewhere
    <3>. QED BY <1>4, <2>1, <2>2, <3>3, <3>4
  <2>. QED BY <1>3, <2>1, <2>2
<1>6. CASE ClusterDestroyStep
  BY <1>1, <1>6, DestroyGoesDown
<1>7. CASE ClusterDeployStep
  BY <1>1, <1>3, <1>7, DeployMoves DEF Ending, Going, Ends, DeployPoints, DestroyPoints
<1>8. CASE BeginClusterDestroy
  <2>1. /\ clu'.at = "destroy.next" /\ clu'.i = Len(manifest) /\ clu'.members = manifest
    BY <1>8 DEF BeginClusterDestroy, NoCluster
  <2>2. Len(manifest) \in Nat
    BY <1>1, <1>8 DEF CluInv, BeginClusterDestroy
  <2>3. \A j \in clu'.i + 1 .. Len(clu'.members) : FALSE
    BY <2>1, <2>2
  <2>. QED BY <2>1, <2>3 DEF Downed
<1>9. CASE BeginClusterDeploy \/ KillCluster
  <2>1. clu'.at \in {"deploy.member", "fail"}
    BY <1>9 DEF BeginClusterDeploy, KillCluster, ClusterReturn, NoCluster
  <2>. QED BY <1>3, <2>1 DEF DestroyPoints
<1>10. CASE OtherStep
  <2>1. clu'.at \notin DestroyPoints
    BY <1>1, <1>10, OtherStepAlone DEF OtherStep, ClusterBusy, Ends, DestroyPoints
  <2>. QED BY <1>3, <2>1
<1>11. CASE ClusterEnvironment
  <2>1. CASE UNCHANGED <<cl, clu>> /\ clu.at \in DestroyPoints
    <3>1. \A d \in Dirs : disk'[d].cfg = disk[d].cfg /\ srv'[d] \in {srv[d], None}
      BY <1>1, <1>11, MachineFiles DEF ClusterEnvironment, Environment
    <3>2. clu.at = "destroy.member" => Victim.dir \in Dirs
      BY <1>1, VictimTyped DEF CluInv, Reached
    <3>3. InFlight(Conductor)' = InFlight(Conductor)
      BY <2>1 DEF InFlight
    <3>4. clu.at = "destroy.member" =>
            IF InFlight(Conductor)' THEN disk'[Victim.dir].cfg # None
            ELSE srv'[Victim.dir] = None
      BY <3>1, <3>2, <3>3 DEF DownInv, Downed
    <3>. QED BY <1>4, <2>1, <3>1, <3>4
  <2>2. CASE Reboot /\ clu' = IF ClusterBusy THEN [NoCluster EXCEPT !.at = "fail"] ELSE clu
    BY <1>3, <2>2 DEF NoCluster, ClusterBusy, Ends, DestroyPoints
  <2>. QED BY <1>3, <1>11, <2>1, <2>2 DEF ClusterEnvironment, Machine
<1>. QED BY <1>2, <1>5, <1>6, <1>7, <1>8, <1>9, <1>10, <1>11
         DEF ClusterNext, ClusterStep, BeginCluster

\* Only a cluster destroy that has come to the primary takes the primary's config
\* away.
LEMMA PrimaryUnmade ==
  ASSUME Disciplined, AccountInv, ClusterNext, ClusterBusy,
         disk[Primary].cfg # None, disk'[Primary].cfg = None
  PROVE  /\ clu.at \in DestroyPoints
         /\ clu.i \in 1 .. Len(clu.members) /\ Victim.dir = Primary
<1>1. /\ AloneInv /\ CluInv /\ LifeInv /\ Marked /\ HostTypeOK /\ clu \in Cluster
      /\ Conductor \in Clients /\ Primary \in Dirs /\ 1 \in 1 .. Len(Members)
  BY TheMembers
     DEF AccountInv, RemainsInv, AloneInv, CluInv, LifeInv, Inv, TypeOK, Primary
<1>2. ~Quiet
  BY DEF Quiet, host
<1>3. CASE MemberStep
  <2>1. /\ InFlight(Conductor) /\ cl[Conductor].dir \in Dirs
        /\ Elsewhere(cl[Conductor].dir)
        /\ ClientStep(Conductor) \/ UNCHANGED disk
    BY <1>1, <1>3, MemberFiles
  <2>2. ClientStep(Conductor) /\ cl[Conductor].dir = Primary
    BY <1>1, <2>1 DEF Elsewhere
  <2>3. cl[Conductor].op = "destroy"
    BY <1>1, <2>1, <2>2, FileFrame
  <2>4. clu.at = "destroy.member" /\ Victim.dir = Primary
    BY <1>1, <2>1, <2>2, <2>3 DEF CluInv, Conducts
  <2>. QED BY <1>1, <2>4 DEF CluInv, Reached, DestroyPoints
<1>4. CASE ClusterDeployStep
  BY <1>1, <1>2, <1>4, DeployMoves
<1>5. CASE ClusterDestroyStep
  <2>1. StubRemove \/ StubStop
    BY <1>2, <1>5
       DEF ClusterDestroyStep, DestroyMember, MemberDestroyed, FinishDestroy
  <2>2. Elsewhere(Victim.dir) /\ clu.i \in 1 .. Len(clu.members)
    BY <1>1, <2>1, StubMoves
  <2>. QED BY <1>1, <1>5, <2>2, DestroyMoves DEF Elsewhere
<1>6. CASE BeginCluster \/ KillCluster
  BY <1>2, <1>6 DEF BeginCluster, BeginClusterDeploy, BeginClusterDestroy, KillCluster
<1>7. CASE OtherStep
  BY <1>1, <1>7, OtherStepAlone
<1>8. CASE ClusterEnvironment
  BY <1>1, <1>8, MachineFiles DEF ClusterEnvironment, Environment
<1>. QED BY <1>3, <1>4, <1>5, <1>6, <1>7, <1>8 DEF ClusterNext, ClusterStep

\* cluster destroy takes the primary last: when the primary goes, no standby or
\* subscriber of it is up, whether it was destroyed, survived a destroy that
\* failed half-way, or never got past its deploy (cluster/destroy.go).
THEOREM StandbysGoFirst ==
  ASSUME Disciplined, Ops \cap DeployOps = {}
  PROVE  ClusterSpec => PrimaryGoesLast
<1>1. ClusterInit => DownInv
  BY AloneInit DEF ClusterInit, NoCluster, DownInv, AccountInv, RemainsInv,
     FromManifest, ListsAll, Ordered, Accounted, Downed, DestroyPoints, DeployPoints
<1>2. DownInv /\ [ClusterNext]_clusterVars => DownInv'
  BY DownStep
<1>3. ASSUME DownInv, ClusterNext, ClusterBusy,
             disk[Primary].cfg # None, disk'[Primary].cfg = None,
             NEW i \in DOMAIN Members \ {1}
      PROVE  srv[Members[i]] = None
  <2>1. /\ AccountInv /\ AloneInv /\ CluInv /\ LifeInv /\ Marked
        /\ DOMAIN Members = 1 .. Len(Members) /\ Len(Members) \in Nat
        /\ 1 \in 1 .. Len(Members) /\ Members[i] \in Dirs
    BY <1>3, TheMembers DEF DownInv, AccountInv, RemainsInv, AloneInv
  <2>2. /\ clu.at \in DestroyPoints
        /\ clu.i \in 1 .. Len(clu.members) /\ Victim.dir = Primary
    BY <1>3, <2>1, PrimaryUnmade
  <2>3. /\ manifest = clu.members /\ manifest # None /\ manifest \in Seq(Member)
        /\ DOMAIN manifest = 1 .. Len(manifest)
    BY <2>1, <2>2 DEF AccountInv, RemainsInv, FromManifest, CluInv
  <2>4. /\ \A j \in 1 .. Len(manifest) : manifest[j].dir = Members[j]
        /\ \A j \in 1 .. Len(manifest) : j \in 1 .. Len(Members)
    <3>1. \A j \in 1 .. Len(manifest) : j <= Len(Members) /\ manifest[j].dir = Members[j]
      BY <2>1, <2>3 DEF AccountInv, Ordered
    <3>. QED BY <2>1, <2>3, <3>1
  <2>5. clu.i = 1
    <3>1. clu.i \in 1 .. Len(Members) /\ Members[clu.i] = Members[1]
      BY <2>2, <2>3, <2>4 DEF Victim, Primary
    <3>. QED BY <2>1, <3>1, TheMembers
  <2>6. SUFFICES ASSUME srv[Members[i]] # None PROVE FALSE
    OBVIOUS
  <2>7. disk[Members[i]].made
    BY <2>1, <2>6 DEF LifeInv, Sane, Coherent, Marked, Complete
  <2>8. PICK j \in 1 .. Len(manifest) : manifest[j].dir = Members[i]
    BY <2>1, <2>3, <2>7 DEF AccountInv, RemainsInv, ListsAll, Listed
  <2>9. j = i
    BY <2>1, <2>4, <2>8, TheMembers
  <2>10. j \in clu.i + 1 .. Len(clu.members)
    BY <1>3, <2>3, <2>5, <2>9
  <2>11. srv[clu.members[j].dir] = None
    BY <1>3, <2>2, <2>10 DEF DownInv, Downed
  <2>. QED BY <2>3, <2>6, <2>8, <2>11
<1>4. DownInv /\ [ClusterNext]_clusterVars =>
        [ClusterBusy /\ disk[Primary].cfg # None /\ disk'[Primary].cfg = None =>
           \A i \in DOMAIN Members \ {1} : srv[Members[i]] = None]_clusterVars
  BY <1>3
<1>. QED BY <1>1, <1>2, <1>4, PTL DEF ClusterSpec, PrimaryGoesLast
=============================================================================
