----------------------------- MODULE ClusterOps -----------------------------
(***************************************************************************)
(* cluster deploy and cluster destroy, on top of the sandbox commands.     *)
(*                                                                         *)
(* A cluster command is one process that calls the code of deploy, publish *)
(* and destroy for one member after the other.  It is modelled by the      *)
(* invocation Conductor of SandboxOps, whose steps are those of the member *)
(* at work, and by clu, what the process keeps between two members.  The   *)
(* other invocations run single-sandbox commands on the members.           *)
(*                                                                         *)
(* The manifest is written once, at the end of a deploy: after success, or *)
(* after a failure the code notices.                                       *)
(***************************************************************************)
EXTENDS SandboxProps, Sequences, SequencesExt

CONSTANTS
  Members,    \* member directories in order; the first is the primary
  Conductor,  \* the invocation that runs the cluster commands
  OnPath      \* pg_ctl and psql are found without a bin directory

ASSUME MembersAssumption ==
  /\ Members \in Seq(Dirs \cap Names) /\ Len(Members) > 1 /\ IsInjective(Members)
ASSUME ConductorAssumption == Conductor \in Clients /\ OnPath \in BOOLEAN

VARIABLES
  manifest,   \* pgs_cluster.json: the members in order, or None
  clu         \* the cluster command in flight

clusterVars == <<vars, manifest, clu>>

Modes == {"physical", "logical"}

\* failed: the member's deploy was reported to have failed.
Member == [dir : Dirs, failed : BOOLEAN]

ClusterPoints == {"deploy.member", "deploy.publish", "deploy.sql", "deploy.save",
                  "destroy.next", "destroy.member", "stub.stop", "stub.rm"}

\* i: the member at work.  port: the port of the last member deployed.  tools:
\* the programs of a bin directory can be run.
Cluster == [at : ClusterPoints \cup Ends, mode : Modes, sql : BOOLEAN, i : Nat,
            members : Seq(Member), port : Ports \cup {None}, tools : BOOLEAN,
            survivors : SUBSET Dirs]

NoCluster == [at |-> "ok", mode |-> "physical", sql |-> FALSE, i |-> 0,
              members |-> <<>>, port |-> None, tools |-> TRUE, survivors |-> {}]

ClusterTypeOK ==
  /\ TypeOK
  /\ manifest = None \/ manifest \in Seq(Member)
  /\ clu \in Cluster

ClusterInit == Init /\ manifest = None /\ clu = NoCluster

-----------------------------------------------------------------------------

ClusterAt(point) == clu.at = point /\ ~InFlight(Conductor)

ClusterBusy == clu.at \notin Ends

\* The command exits.
ClusterReturn(outcome) == clu' = [NoCluster EXCEPT !.at = outcome]

\* The code of a sandbox command is entered as a function call.
Call(op, point, d, src, name, port, base) ==
  cl' = [cl EXCEPT ![Conductor] =
           [op |-> op, at |-> point, dir |-> d, src |-> src, name |-> name,
            cfg |-> None, port |-> port, peer |-> None, base |-> base]]

Idling == UNCHANGED <<cl, calls>>

\* config.SaveCluster.
SaveManifest(members, outcome) ==
  /\ \/ manifest' = members /\ ClusterReturn(outcome)
     \/ MayFail("child") /\ UNCHANGED manifest /\ ClusterReturn("fail")
  /\ Quiet /\ Idling

Primary == Members[1]

-----------------------------------------------------------------------------
\* cluster deploy

\* checkClusterDirAvailable: nothing in the directory.
ClusterDirAvailable ==
  manifest = None /\ \A i \in DOMAIN Members : ~disk[Members[i]].made

\* Every member starts its scan at the same base.
NextBase_bug == PortBase

\* The scan of a member starts above the port of the one before.
NextBase == clu.port + 1

BeginClusterDeploy ==
  /\ ~ClusterBusy /\ ~InFlight(Conductor) /\ calls < MaxCalls
  /\ ClusterDirAvailable
  /\ calls' = calls + 1
  /\ \E mode \in Modes, sql \in BOOLEAN, port \in Asked \cup {None} :
       /\ clu' = [NoCluster EXCEPT !.at = "deploy.member", !.mode = mode,
                                   !.sql = sql, !.i = 1]
       /\ Call("deploy", "port", Primary, None, None, port, PortBase)
  /\ Quiet /\ UNCHANGED manifest

\* The standby's slot is named after the member.
DeployMember(members, i) ==
  LET d == Members[i] IN
  /\ clu' = [clu EXCEPT !.at = "deploy.member", !.i = i, !.members = members]
  /\ IF clu.mode = "physical"
     THEN Call("standby", "probe", d, Primary, d, None, NextBase)
     ELSE Call("subscriber", "port", d, Primary, d, None, NextBase)
  /\ UNCHANGED calls

\* What follows once the members so far are up.
Onwards(members) ==
  \/ /\ Len(members) < Len(Members) /\ DeployMember(members, Len(members) + 1)
  \/ /\ Len(members) = Len(Members)
     /\ clu' = [clu EXCEPT !.at = "deploy.save", !.members = members]
     /\ Idling

SqlOrOnwards(members) ==
  \/ /\ clu.sql
     /\ clu' = [clu EXCEPT !.at = "deploy.sql", !.members = members]
     /\ Idling
  \/ ~clu.sql /\ Onwards(members)

\* The publication is made before any subscriber is deployed.
MemberDeployed ==
  LET members == Append(clu.members, [dir |-> Members[clu.i], failed |-> FALSE]) IN
  /\ ClusterAt("deploy.member") /\ cl[Conductor].at = "ok"
  /\ Quiet /\ UNCHANGED manifest
  /\ \/ /\ clu.i = 1 /\ clu.mode = "logical"
        /\ clu' = [clu EXCEPT !.at = "deploy.publish", !.members = members]
        /\ Call("publish", "pub.load", Primary, None, None, None, PortBase)
        /\ UNCHANGED calls
     \/ clu.i = 1 /\ clu.mode = "physical" /\ SqlOrOnwards(members)
     \/ clu.i > 1 /\ Onwards(members)

\* The failed member is left out of the manifest.
MemberFailed_bug ==
  /\ ClusterAt("deploy.member") /\ cl[Conductor].at = "fail"
  /\ \/ clu.i = 1 /\ ClusterReturn("fail") /\ Quiet /\ Idling /\ UNCHANGED manifest
     \/ clu.i > 1 /\ SaveManifest(clu.members, "fail")

\* The manifest lists the name of the failed member, not a member.
MemberFailed_untyped ==
  /\ ClusterAt("deploy.member") /\ cl[Conductor].at = "fail"
  /\ \/ clu.i = 1 /\ ClusterReturn("fail") /\ Quiet /\ Idling /\ UNCHANGED manifest
     \/ clu.i > 1 /\ SaveManifest(Append(clu.members, Members[clu.i]), "fail")

\* No manifest when the primary failed; otherwise one that lists the failed
\* member as such.
MemberFailed ==
  /\ ClusterAt("deploy.member") /\ cl[Conductor].at = "fail"
  /\ \/ clu.i = 1 /\ ClusterReturn("fail") /\ Quiet /\ Idling /\ UNCHANGED manifest
     \/ /\ clu.i > 1
        /\ SaveManifest(Append(clu.members,
                               [dir |-> Members[clu.i], failed |-> TRUE]), "fail")

\* A publication that could not be made is a warning.
Published_bug ==
  /\ ClusterAt("deploy.publish") /\ cl[Conductor].at \in Ends
  /\ SqlOrOnwards(clu.members) /\ Quiet /\ UNCHANGED manifest

Published ==
  /\ ClusterAt("deploy.publish")
  /\ \/ /\ cl[Conductor].at = "ok" /\ SqlOrOnwards(clu.members)
        /\ Quiet /\ UNCHANGED manifest
     \/ cl[Conductor].at = "fail" /\ SaveManifest(clu.members, "fail")

\* psql -f on the recorded port of the primary.
InitSql ==
  LET Answering == IF disk[Primary].cfg = None THEN {}
                   ELSE Serving(disk[Primary].cfg.port) IN
  /\ ClusterAt("deploy.sql")
  /\ \/ /\ Answering # {} /\ Onwards(clu.members)
        /\ Quiet /\ UNCHANGED manifest
     \/ /\ Answering = {} \/ MayFail("child")
        /\ SaveManifest(clu.members, "fail")

DeploySave == ClusterAt("deploy.save") /\ SaveManifest(clu.members, "ok")

-----------------------------------------------------------------------------
\* cluster destroy

\* The programs are run from the bin directory in the primary's config; without
\* one they are looked up on PATH.
BeginClusterDestroy ==
  /\ ~ClusterBusy /\ ~InFlight(Conductor) /\ calls < MaxCalls
  /\ manifest # None
  /\ calls' = calls + 1
  /\ clu' = [NoCluster EXCEPT !.at = "destroy.next", !.i = Len(manifest),
               !.members = manifest,
               !.tools = OnPath \/ disk[manifest[1].dir].cfg # None]
  /\ Quiet /\ UNCHANGED <<cl, manifest>>

\* The primary first.
Victim_bug == clu.members[Len(clu.members) + 1 - clu.i]

\* i counts down from the last member to the primary.
Victim == clu.members[clu.i]

NextMember(survivors) ==
  clu' = [clu EXCEPT !.at = "destroy.next", !.i = clu.i - 1,
                     !.survivors = survivors]

\* A member without a config is left alone, unless its deploy failed: then what
\* there is of it is removed.
DestroyMember ==
  LET d == Victim.dir
      stub == Victim.failed /\ disk[d].made IN
  /\ ClusterAt("destroy.next") /\ clu.i > 0
  /\ Quiet /\ UNCHANGED <<manifest, calls>>
  /\ \/ /\ disk[d].cfg # None
        /\ clu' = [clu EXCEPT !.at = "destroy.member"]
        /\ Call("destroy", "destroy.load", d, SourceOf(d), None, None, PortBase)
     \/ /\ disk[d].cfg = None /\ stub
        /\ clu' = [clu EXCEPT !.at = "stub.stop"] /\ UNCHANGED cl
     \/ disk[d].cfg = None /\ ~stub /\ NextMember(clu.survivors) /\ UNCHANGED cl

\* A member that could not be destroyed is tried again.
MemberDestroyed_bug ==
  /\ ClusterAt("destroy.member") /\ Quiet /\ Idling /\ UNCHANGED manifest
  /\ \/ cl[Conductor].at = "ok" /\ NextMember(clu.survivors)
     \/ /\ cl[Conductor].at = "fail"
        /\ clu' = [clu EXCEPT !.at = "destroy.next"]

MemberDestroyed ==
  /\ ClusterAt("destroy.member")
  /\ NextMember(IF cl[Conductor].at = "ok" THEN clu.survivors
                ELSE clu.survivors \cup {Victim.dir})
  /\ Quiet /\ Idling /\ UNCHANGED manifest

\* The directory of a failed member is removed whatever runs on it.
StubStop_bug ==
  /\ ClusterAt("stub.stop") /\ clu' = [clu EXCEPT !.at = "stub.rm"]
  /\ Quiet /\ Idling /\ UNCHANGED manifest

\* Where there is a pidfile, pg_ctl stop -m immediate; a failure is a warning.
StubStop ==
  LET d == Victim.dir IN
  /\ ClusterAt("stub.stop") /\ clu' = [clu EXCEPT !.at = "stub.rm"]
  /\ \/ disk[d].pid = "live" /\ clu.tools /\ ServerDown(d, "none")
     \/ (disk[d].pid # "live" \/ ~clu.tools \/ MayFail("child")) /\ Quiet
  /\ Idling /\ UNCHANGED manifest

StubRemove ==
  LET d == Victim.dir IN
  /\ ClusterAt("stub.rm")
  /\ \/ Removed(d, NoFiles) /\ NextMember(clu.survivors)
     \/ /\ MayFail("rm")
        /\ Removed(d, [made |-> TRUE, data |-> "torn", pid |-> "none",
                       cfg |-> None])
        /\ NextMember(clu.survivors \cup {d})
  /\ Idling /\ UNCHANGED manifest

\* The manifest goes although members survive.
FinishDestroy_bug ==
  /\ ClusterAt("destroy.next") /\ clu.i = 0
  /\ manifest' = None
  /\ ClusterReturn(IF clu.survivors = {} THEN "ok" ELSE "fail")
  /\ Quiet /\ Idling

\* With survivors the manifest stays.  Without, it is removed, and then the
\* cluster directory, which has to be empty.  Where it cannot be removed it stays.
FinishDestroy ==
  /\ ClusterAt("destroy.next") /\ clu.i = 0
  /\ \/ /\ clu.survivors # {} \/ MayFail("rm")
        /\ UNCHANGED manifest /\ ClusterReturn("fail")
     \/ /\ clu.survivors = {} /\ manifest' = None
        /\ ClusterReturn(IF \A i \in DOMAIN Members : ~disk[Members[i]].made
                         THEN "ok" ELSE "fail")
  /\ Quiet /\ Idling

-----------------------------------------------------------------------------

\* Without its programs a destroy warns and goes on.
WithoutTools(c) ==
  \/ At(c, "destroy.sub") /\ Quiet /\ Go(c, "destroy.stop")
  \/ /\ At(c, "destroy.stop") /\ Quiet
     /\ Go(c, IF cl[c].cfg.physical # None THEN "slot.load" ELSE "destroy.rm")
  \/ At(c, "slot.drop") /\ Quiet /\ SlotDone(c)
  \/ /\ cl[c].at \notin {"destroy.sub", "destroy.stop", "slot.drop"}
     /\ ClientStep(c)

\* A step of the sandbox code that the cluster command has called.  The port a
\* deploy settles on is part of what it returns.
MemberStep ==
  /\ ClusterBusy
  /\ IF clu.tools THEN ClientStep(Conductor) ELSE WithoutTools(Conductor)
  /\ clu' = IF clu.at = "deploy.member" /\ cl'[Conductor].port # None
            THEN [clu EXCEPT !.port = cl'[Conductor].port] ELSE clu
  /\ UNCHANGED manifest

ClusterDeployStep ==
  MemberDeployed \/ MemberFailed \/ Published \/ InitSql \/ DeploySave

ClusterDestroyStep ==
  DestroyMember \/ MemberDestroyed \/ StubStop \/ StubRemove \/ FinishDestroy

ClusterStep == MemberStep \/ ClusterDeployStep \/ ClusterDestroyStep

KillCluster ==
  /\ MayFail("cli") /\ ClusterBusy
  /\ ClusterReturn("fail") /\ Return(Conductor, "fail")
  /\ Quiet /\ UNCHANGED <<manifest, calls>>

\* Single-sandbox commands.  A disciplined operator runs none while a cluster
\* command is at work.
OtherStep ==
  /\ \E c \in Clients \ {Conductor} :
       \/ (Disciplined => ~ClusterBusy) /\ BeginCall(c)
       \/ ClientStep(c) \/ KillClient(c)
  /\ UNCHANGED <<manifest, clu>>

ClusterEnvironment ==
  /\ UNCHANGED manifest
  /\ \/ Machine /\ UNCHANGED clu
     \/ /\ Reboot
        /\ clu' = IF ClusterBusy THEN [NoCluster EXCEPT !.at = "fail"] ELSE clu

BeginCluster ==
  /\ Disciplined => \A c \in Clients : ~InFlight(c)
  /\ BeginClusterDeploy \/ BeginClusterDestroy

ClusterNext ==
  \/ BeginCluster \/ ClusterStep \/ KillCluster
  \/ OtherStep \/ ClusterEnvironment

ClusterSpec == ClusterInit /\ [][ClusterNext]_clusterVars

\* The process is scheduled, and the programs it waits for return.
FairClusterSpec == ClusterSpec /\ WF_clusterVars(ClusterStep)
=============================================================================
