--------------------------- MODULE ClusterProofs ---------------------------
(***************************************************************************)
(* Cluster deploys and destroys, for any number of members, of operators   *)
(* beside them, and of crashes.                                            *)
(***************************************************************************)
EXTENDS LifecycleProofs, ClusterProps

DeployPoints == {"deploy.member", "deploy.publish", "deploy.sql", "deploy.save"}

DestroyPoints == {"destroy.next", "destroy.member", "stub.stop", "stub.rm"}

\* What the conductor runs, and on which member.
Conducts ==
  InFlight(Conductor) =>
    LET k == cl[Conductor] IN
    \/ /\ clu.at = "deploy.member" /\ k.dir = Members[clu.i]
       /\ k.op \in IF clu.i = 1 THEN {"deploy"} ELSE {"standby", "subscriber"}
    \/ clu.at = "deploy.publish" /\ k.op = "publish" /\ k.dir = Primary
    \/ clu.at = "destroy.member" /\ k.op = "destroy" /\ k.dir = Victim.dir

\* members are the first n ones, in their order.
FirstOnes(members, n) ==
  /\ Len(members) = n
  /\ \A j \in 1 .. n : members[j].dir = Members[j] /\ ~members[j].failed

\* How far a cluster command has come.  The port of the last member is known
\* when the next one needs it.
Reached ==
  /\ clu.at = "deploy.member" =>
       /\ clu.i \in 1 .. Len(Members) /\ FirstOnes(clu.members, clu.i - 1)
       /\ clu.i > 1 \/ cl[Conductor].at \notin {"port", "fail"} => clu.port # None
  /\ clu.at \in {"deploy.publish", "deploy.sql"} =>
       clu.i = 1 /\ FirstOnes(clu.members, 1) /\ clu.port # None
  /\ clu.at = "deploy.save" =>
       clu.i = Len(Members) /\ FirstOnes(clu.members, Len(Members))
  /\ clu.at = "destroy.next" => clu.i \in 0 .. Len(clu.members)
  /\ clu.at \in {"destroy.member", "stub.stop", "stub.rm"} =>
       clu.i \in 1 .. Len(clu.members)

CluInv ==
  /\ Inv /\ clu \in Cluster /\ (manifest # None => manifest \in Seq(Member))
  /\ Conducts /\ Reached

-----------------------------------------------------------------------------
\* Calling the code of a sandbox command

LEMMA TheMembers ==
  /\ Len(Members) \in Nat /\ Len(Members) > 1
  /\ \A i \in 1 .. Len(Members) :
       Members[i] \in Dirs /\ Members[i] \in Names /\ Members[i] # None
  /\ DOMAIN Members = 1 .. Len(Members)
  /\ Conductor \in Clients
  /\ \A i, j \in 1 .. Len(Members) : Members[i] = Members[j] => i = j
BY MembersAssumption, ConductorAssumption, NoneAssumption DEF IsInjective

LEMMA CallInv ==
  ASSUME Inv, Quiet, calls' \in Nat,
         NEW op \in AllOps, NEW point, NEW d \in Dirs, NEW src \in Dirs \cup {None},
         NEW name \in Names \cup {None}, NEW port \in Ports \cup {None},
         NEW base \in Nat, Starts(op, point), op # "set",
         op \in {"standby", "subscriber", "subscribe"} => src # None /\ name # None,
         Call(op, point, d, src, name, port, base)
  PROVE  /\ Inv'
         /\ InFlight(Conductor)'
         /\ cl'[Conductor].op = op /\ cl'[Conductor].dir = d
         /\ cl'[Conductor].at = point /\ cl'[Conductor].port = port
         /\ cl'[Conductor].base = base /\ cl'[Conductor].cfg = None
         /\ \A c \in Clients \ {Conductor} : cl'[c] = cl[c]
<1> DEFINE k == [op |-> op, at |-> point, dir |-> d, src |-> src, name |-> name,
                 cfg |-> None, port |-> port, peer |-> None, base |-> base]
<1>1. k \in Client /\ point \in Points /\ k.at = point
  BY DEF Client, Points, Starts
<1>2. k.dir \in Dirs /\ OnTrack(k.op, k.at) /\ Knows(k)
  BY DEF Starts, OnTrack, Knows
<1>3. k.op = op /\ k.dir = d /\ k.port = port /\ k.base = base /\ k.cfg = None
  OBVIOUS
<1>4. cl' = [cl EXCEPT ![Conductor] = k] /\ Conductor \in Clients
  BY TheMembers DEF Call
<1>5. cl \in [Clients -> Client] /\ HostTypeOK
  BY DEF Inv, TypeOK
<1> HIDE DEF k
<1>6. cl' \in [Clients -> Client] /\ CallsWellFormed'
  BY <1>1, <1>2, <1>4, Move
<1>7. Inv'
  BY <1>5, <1>6, QuietTyped, Assemble DEF Moved
<1>8. cl'[Conductor] = k /\ \A c \in Clients \ {Conductor} : cl'[c] = cl[c]
  BY <1>4, <1>5
<1>. QED BY <1>1, <1>3, <1>7, <1>8 DEF InFlight, Points, Ends

-----------------------------------------------------------------------------
\* What a step of a called command may be

\* Without its programs a destroy goes on as if each had failed.
Skips(c) ==
  /\ Quiet /\ UNCHANGED calls
  /\ \/ cl[c].at = "destroy.sub" /\ Go(c, "destroy.stop")
     \/ /\ cl[c].at = "destroy.stop"
        /\ Go(c, IF cl[c].cfg.physical # None THEN "slot.load" ELSE "destroy.rm")
     \/ cl[c].at = "slot.drop" /\ SlotDone(c)

LEMMA WithoutToolsSkips ==
  ASSUME NEW c \in Clients, WithoutTools(c)
  PROVE  ClientStep(c) \/ Skips(c)
BY DEF WithoutTools, Skips, At

LEMMA SkipsInv ==
  ASSUME Inv, NEW c \in Clients, Skips(c)
  PROVE  Inv'
<1>1. /\ HostTypeOK' /\ calls' \in Nat
      /\ cl[c].at \in {"destroy.sub", "destroy.stop", "slot.drop"}
  BY QuietTyped DEF Skips, Inv, TypeOK
<1>2. /\ InFlight(c) /\ OnTrack(cl[c].op, cl[c].at) /\ Knows(cl[c])
      /\ cl[c] \in Client
  BY <1>1 DEF InFlight, Ends, Inv, TypeOK, CallsWellFormed
<1>3. CASE cl[c].at = "destroy.sub" /\ Go(c, "destroy.stop")
  <2>1. OnTrack(cl[c].op, "destroy.stop") /\ "destroy.stop" \in Points
    BY <1>2, <1>3 DEF OnTrack, Points
  <2>2. Knows([cl[c] EXCEPT !.at = "destroy.stop"])
    BY <1>2, <1>3 DEF Knows, Client
  <2>. QED BY <1>1, <1>2, <1>3, <2>1, <2>2, GoInv
<1>4. ASSUME NEW point \in {"slot.load", "destroy.rm"}, Go(c, point),
             cl[c].at = "destroy.stop",
             point = "slot.load" => cl[c].cfg.physical # None
      PROVE  Inv'
  <2>1. OnTrack(cl[c].op, point) /\ point \in Points
    BY <1>2, <1>4 DEF OnTrack, Points
  <2>2. Knows([cl[c] EXCEPT !.at = point])
    BY <1>2, <1>4 DEF Knows, Client
  <2>. QED BY <1>1, <1>2, <1>4, <2>1, <2>2, GoInv
<1>5. CASE cl[c].at = "slot.drop" /\ SlotDone(c)
  BY <1>1, <1>2, <1>5, SlotDoneInv
<1>. QED BY <1>3, <1>4, <1>5 DEF Skips

LEMMA SkipsMoves ==
  ASSUME cl \in [Clients -> Client], NEW c \in Clients, Skips(c)
  PROVE  /\ InFlight(c) /\ \A b \in Clients \ {c} : cl'[b] = cl[b]
         /\ cl'[c].op = cl[c].op /\ cl'[c].dir = cl[c].dir
         /\ cl'[c].port = cl[c].port /\ cl'[c].cfg = cl[c].cfg
         /\ cl'[c].at \in {"destroy.stop", "slot.load", "destroy.rm", "promote.save"}
         /\ UNCHANGED <<disk, srv, db, strays>>
<1>1. ASSUME NEW point, Go(c, point)
      PROVE  /\ \A b \in Clients \ {c} : cl'[b] = cl[b]
             /\ cl'[c].op = cl[c].op /\ cl'[c].dir = cl[c].dir
             /\ cl'[c].port = cl[c].port /\ cl'[c].cfg = cl[c].cfg
             /\ cl'[c].at = point
  BY <1>1 DEF Go, Client
<1>. QED BY <1>1 DEF Skips, SlotDone, InFlight, Ends, Quiet, host

\* A step of the called command, with its programs or without.
LEMMA ConductorMoves ==
  ASSUME Inv, ClientStep(Conductor) \/ Skips(Conductor)
  PROVE  /\ Inv' /\ InFlight(Conductor)
         /\ \A c \in Clients \ {Conductor} : cl'[c] = cl[c]
         /\ InFlight(Conductor)' => /\ cl'[Conductor].op = cl[Conductor].op
                                    /\ cl'[Conductor].dir = cl[Conductor].dir
<1>1. cl \in [Clients -> Client] /\ Conductor \in Clients
  BY TheMembers DEF Inv, TypeOK
<1>2. CASE ClientStep(Conductor)
  BY <1>1, <1>2, ClientStepInv, OneMoves, StepIsInFlight
<1>3. CASE Skips(Conductor)
  BY <1>1, <1>3, SkipsInv, SkipsMoves
<1>. QED BY <1>2, <1>3

-----------------------------------------------------------------------------
\* Steps of the cluster command

LEMMA NoClusterTyped == NoCluster \in Cluster /\ NoCluster.at = "ok"
<1>1. <<>> \in Seq(Member)
  OBVIOUS
<1>. QED BY <1>1 DEF NoCluster, Cluster, Ends, Modes

\* The command exits.
LEMMA EndsInv ==
  ASSUME CluInv, Inv', ~InFlight(Conductor)', NEW outcome \in Ends,
         ClusterReturn(outcome), manifest' # None => manifest' \in Seq(Member)
  PROVE  CluInv'
<1>1. clu'.at = outcome /\ clu' \in Cluster
  BY NoClusterTyped DEF ClusterReturn, NoCluster, Cluster
<1>2. Reached'
  BY <1>1 DEF Reached, Ends
<1>3. Conducts'
  BY DEF Conducts
<1>. QED BY <1>1, <1>2, <1>3 DEF CluInv

\* Nothing of the cluster command moves.
LEMMA SameClu ==
  ASSUME CluInv, Inv', cl'[Conductor] = cl[Conductor], UNCHANGED <<clu, manifest>>
  PROVE  CluInv'
BY DEF CluInv, Conducts, Reached, FirstOnes, InFlight, Victim

LEMMA IdleInv ==
  ASSUME Inv, Quiet, Idling
  PROVE  Inv' /\ cl'[Conductor] = cl[Conductor]
         /\ InFlight(Conductor)' = InFlight(Conductor)
BY QuietTyped, StandStill DEF Idling, Inv, TypeOK, InFlight

LEMMA SavesInv ==
  ASSUME CluInv, ~InFlight(Conductor), NEW members \in Seq(Member),
         NEW outcome \in Ends, SaveManifest(members, outcome)
  PROVE  CluInv'
<1>1. Inv' /\ ~InFlight(Conductor)'
  BY IdleInv DEF CluInv, SaveManifest
<1>2. \E end \in Ends : ClusterReturn(end)
  BY DEF SaveManifest, Ends
<1>3. manifest' # None => manifest' \in Seq(Member)
  BY DEF SaveManifest, CluInv
<1>. QED BY <1>1, <1>2, <1>3, EndsInv

\* The next member, or the manifest.
LEMMA OnwardsInv ==
  ASSUME CluInv, ~InFlight(Conductor), clu.port # None,
         NEW members \in Seq(Member), FirstOnes(members, clu.i),
         clu.i \in 1 .. Len(Members), Onwards(members), Quiet, UNCHANGED manifest
  PROVE  CluInv'
<1>1. Inv /\ clu \in Cluster /\ clu.i \in Nat /\ Len(members) = clu.i
      /\ clu.port \in Ports /\ clu.port \in Nat
  BY PortsAssumption DEF CluInv, Cluster, FirstOnes
<1>2. ASSUME Len(members) < Len(Members), DeployMember(members, Len(members) + 1)
      PROVE  CluInv'
  <2> DEFINE i == Len(members) + 1
             d == Members[i]
  <2>1. /\ i = clu.i + 1 /\ i \in 1 .. Len(Members) /\ i > 1 /\ i \in Nat
        /\ FirstOnes(members, i - 1)
    BY <1>1, <1>2, TheMembers
  <2>2. d \in Dirs /\ d \in Names /\ Primary \in Dirs /\ d # None /\ Primary # None
    BY <2>1, TheMembers DEF Primary
  <2>3. NextBase \in Nat /\ None \in Ports \cup {None}
    BY <1>1 DEF NextBase
  <2>4. calls' \in Nat
    BY <1>1, <1>2 DEF DeployMember, Inv, TypeOK
  <2> HIDE DEF i, d
  <2>5. clu' = [clu EXCEPT !.at = "deploy.member", !.i = i, !.members = members]
    BY <1>2 DEF DeployMember, i
  <2>6. /\ clu' \in Cluster /\ clu'.at = "deploy.member" /\ clu'.i = i
        /\ clu'.members = members /\ clu'.port = clu.port
    BY <1>1, <2>1, <2>5 DEF Cluster, ClusterPoints
  <2>7. /\ Inv' /\ cl'[Conductor].dir = d
        /\ cl'[Conductor].op \in {"standby", "subscriber"}
    <3>1. CASE Call("standby", "probe", d, Primary, d, None, NextBase)
      <4>1. Starts("standby", "probe") /\ "standby" \in AllOps
        BY DEF Starts, AllOps, DeployOps
      <4>. QED BY <1>1, <2>2, <2>3, <2>4, <3>1, <4>1, CallInv
    <3>2. CASE Call("subscriber", "port", d, Primary, d, None, NextBase)
      <4>1. Starts("subscriber", "port") /\ "subscriber" \in AllOps
        BY DEF Starts, AllOps, DeployOps
      <4>. QED BY <1>1, <2>2, <2>3, <2>4, <3>2, <4>1, CallInv
    <3>. QED BY <1>2, <3>1, <3>2 DEF DeployMember, i, d
  <2>8. Conducts'
    BY <2>1, <2>6, <2>7 DEF Conducts, d
  <2>9. Reached'
    BY <1>1, <2>1, <2>6 DEF Reached, FirstOnes
  <2>. QED BY <2>6, <2>7, <2>8, <2>9 DEF CluInv
<1>3. ASSUME Len(members) = Len(Members), Idling,
             clu' = [clu EXCEPT !.at = "deploy.save", !.members = members]
      PROVE  CluInv'
  <2>1. /\ clu' \in Cluster /\ clu'.at = "deploy.save" /\ clu'.i = Len(Members)
        /\ clu'.members = members
    BY <1>1, <1>3 DEF Cluster, ClusterPoints
  <2>2. Inv' /\ ~InFlight(Conductor)'
    BY <1>1, <1>3, IdleInv
  <2>3. Reached'
    BY <1>1, <1>3, <2>1 DEF Reached, FirstOnes
  <2>. QED BY <2>1, <2>2, <2>3 DEF CluInv, Conducts
<1>. QED BY <1>2, <1>3 DEF Onwards

LEMMA SqlOrOnwardsInv ==
  ASSUME CluInv, ~InFlight(Conductor), clu.port # None,
         NEW members \in Seq(Member), FirstOnes(members, 1), clu.i = 1,
         SqlOrOnwards(members), Quiet, UNCHANGED manifest
  PROVE  CluInv'
<1>1. CASE Onwards(members)
  BY <1>1, OnwardsInv, TheMembers
<1>2. ASSUME Idling, clu' = [clu EXCEPT !.at = "deploy.sql", !.members = members]
      PROVE  CluInv'
  <2>1. /\ clu' \in Cluster /\ clu'.at = "deploy.sql" /\ clu'.i = 1
        /\ clu'.members = members /\ clu'.port # None
    BY <1>2 DEF CluInv, Cluster, ClusterPoints
  <2>2. Inv' /\ ~InFlight(Conductor)'
    BY <1>2, IdleInv DEF CluInv
  <2>3. Reached'
    BY <2>1 DEF Reached, FirstOnes
  <2>. QED BY <2>1, <2>2, <2>3 DEF CluInv, Conducts
<1>. QED BY <1>1, <1>2 DEF SqlOrOnwards

\* A member, typed and in its place.
LEMMA VictimTyped ==
  ASSUME CluInv, clu.i \in 1 .. Len(clu.members)
  PROVE  Victim \in Member /\ Victim.dir \in Dirs
<1>1. clu.members \in Seq(Member)
  BY DEF CluInv, Cluster
<1>2. Victim \in Member
  BY <1>1 DEF Victim
<1>. QED BY <1>2 DEF Member

LEMMA NextMemberInv ==
  ASSUME CluInv, Inv', ~InFlight(Conductor)', clu.i \in 1 .. Len(clu.members),
         NEW survivors \in SUBSET Dirs, NextMember(survivors), UNCHANGED manifest
  PROVE  CluInv'
<1>1. clu \in Cluster /\ Len(clu.members) \in Nat
  BY DEF CluInv, Cluster
<1> DEFINE i == clu.i - 1
<1>a. i \in Nat /\ i \in 0 .. Len(clu.members) /\ i = clu.i - 1
  BY <1>1
<1> HIDE DEF i
<1>b. clu' = [clu EXCEPT !.at = "destroy.next", !.i = i, !.survivors = survivors]
  BY DEF NextMember, i
<1>2. /\ clu' \in Cluster /\ clu'.at = "destroy.next" /\ clu'.i = i
      /\ clu'.members = clu.members
  BY <1>1, <1>a, <1>b DEF Cluster, ClusterPoints
<1>3. Reached'
  BY <1>1, <1>2, <1>a DEF Reached
<1>. QED BY <1>2, <1>3 DEF CluInv, Conducts

\* The deploy of the first member asks for a port, which it either gets or not.
LEMMA AskingForPort ==
  ASSUME Inv, NEW c \in Clients, cl[c].at = "port", ClientStep(c)
  PROVE  cl'[c].at # "ok"
<1>1. ~LifecycleStep(c) /\ ~DestroyStep(c)
  BY DEF LifecycleStep, StartLoad, StartRun, StopLoad, StopUnlink, StopRun,
     DestroyStep, DestroyLoad, DropSubscription, DestroyStop, SlotLoad, SlotDrop,
     DestroyRemove, At
<1>2. ~LogicalStep(c) /\ ~PromoteStep(c) /\ ~SetStep(c)
  BY DEF LogicalStep, PublishLoad, ShowWalLevel, AlterSystem, CreatePublication,
     SubscribeLoad, CreateSubscription, SubscribeSave, PromoteStep, PromoteLoad,
     PromoteRun, PromoteWait, PromoteSave, SetStep, SetLoad, SetSave, At
<1>3. ChoosePort(c)
  BY <1>1, <1>2 DEF ClientStep, DeployStep, MakeDirChoosePort, InitDb,
     LaunchDeployed, SaveDeployed, ProbeSource, ProbeRole, CreateRole, EnsureHba,
     BaseBackup, At
<1>4. cl \in [Clients -> Client]
  BY DEF Inv, TypeOK
<1>. QED BY <1>3, <1>4 DEF ChoosePort, ResolvePort, Return, Idle, Client

LEMMA MemberStepInv ==
  ASSUME CluInv, MemberStep
  PROVE  CluInv'
<1>1. ClientStep(Conductor) \/ Skips(Conductor)
  BY TheMembers, WithoutToolsSkips DEF MemberStep
<1>2. /\ Inv' /\ InFlight(Conductor) /\ clu \in Cluster /\ Conductor \in Clients
      /\ InFlight(Conductor)' => /\ cl'[Conductor].op = cl[Conductor].op
                                 /\ cl'[Conductor].dir = cl[Conductor].dir
  BY <1>1, ConductorMoves, TheMembers DEF CluInv
<1>3. cl'[Conductor].port \in Ports \cup {None}
  BY <1>2 DEF Inv, TypeOK, Client
<1>4. /\ clu' \in Cluster /\ clu'.at = clu.at /\ clu'.i = clu.i
      /\ clu'.members = clu.members
      /\ clu.port # None => clu'.port # None
      /\ clu.at = "deploy.member" /\ cl'[Conductor].port # None => clu'.port # None
  BY <1>2, <1>3 DEF MemberStep, Cluster
<1>5. Conducts'
  BY <1>2, <1>4 DEF CluInv, Conducts, Victim
<1>6. ASSUME clu.at = "deploy.member", clu.i = 1,
             cl'[Conductor].at \notin {"port", "fail"}
      PROVE  clu'.port # None
  <2>1. cl[Conductor].op = "deploy"
    BY <1>2, <1>6 DEF CluInv, Conducts
  <2>2. cl[Conductor].at \in {"port", "init", "launch", "save"}
    BY <1>2, <2>1 DEF CluInv, Inv, CallsWellFormed, OnTrack
  <2>3. CASE InFlight(Conductor)'
    <3>1. OnTrack("deploy", cl'[Conductor].at) /\ Knows(cl'[Conductor])
      BY <1>2, <2>1, <2>3 DEF Inv, CallsWellFormed
    <3>. QED BY <1>4, <1>6, <3>1 DEF OnTrack, Knows
  <2>4. CASE ~InFlight(Conductor)'
    <3>1. cl'[Conductor].at = "ok"
      BY <1>6, <2>4 DEF InFlight, Ends
    <3>2. ClientStep(Conductor)
      BY <1>1, <2>2 DEF Skips
    <3>3. cl[Conductor].at # "port"
      BY <1>2, <3>1, <3>2, AskingForPort DEF CluInv
    <3>4. clu.port # None
      BY <1>6, <2>2, <3>3 DEF CluInv, Reached
    <3>. QED BY <1>4, <3>4
  <2>. QED BY <2>3, <2>4
<1>7. Reached'
  <2>1. ASSUME clu.at = "deploy.member", clu.i > 1 PROVE clu.port # None
    BY <2>1 DEF CluInv, Reached
  <2>2. clu.at = "deploy.member" => clu.i \in 1 .. Len(Members)
    BY DEF CluInv, Reached
  <2>3. clu.at = "deploy.member" =>
          (clu.i > 1 \/ cl'[Conductor].at \notin {"port", "fail"} => clu'.port # None)
    BY <1>4, <1>6, <2>1, <2>2, TheMembers
  <2>. QED BY <1>4, <2>3 DEF CluInv, Reached, FirstOnes
<1>. QED BY <1>2, <1>4, <1>5, <1>7 DEF CluInv, MemberStep

LEMMA ClusterDeployInv ==
  ASSUME CluInv, ClusterDeployStep
  PROVE  CluInv'
<1>1. Inv /\ clu \in Cluster /\ {"ok", "fail"} \subseteq Ends /\ 1 \in 1 .. Len(Members)
  BY TheMembers DEF CluInv, Ends
<1>2. ASSUME NEW failed \in BOOLEAN, clu.at = "deploy.member"
      PROVE  LET m == [dir |-> Members[clu.i], failed |-> failed] IN
             /\ Append(clu.members, m) \in Seq(Member)
             /\ ~failed => FirstOnes(Append(clu.members, m), clu.i)
  <2> DEFINE m == [dir |-> Members[clu.i], failed |-> failed]
  <2>1. clu.i \in 1 .. Len(Members) /\ FirstOnes(clu.members, clu.i - 1)
    BY <1>2 DEF CluInv, Reached
  <2>2. m \in Member /\ m.dir = Members[clu.i] /\ m.failed = failed
    BY <2>1, TheMembers DEF Member
  <2>3. clu.members \in Seq(Member) /\ Len(clu.members) = clu.i - 1 /\ clu.i \in Nat
    BY <1>1, <2>1 DEF Cluster, FirstOnes
  <2> HIDE DEF m
  <2>4. /\ Append(clu.members, m) \in Seq(Member)
        /\ Len(Append(clu.members, m)) = clu.i
        /\ Append(clu.members, m)[clu.i] = m
        /\ \A j \in 1 .. clu.i - 1 : Append(clu.members, m)[j] = clu.members[j]
    BY <2>2, <2>3
  <2>5. ~failed => FirstOnes(Append(clu.members, m), clu.i)
    BY <2>1, <2>2, <2>3, <2>4 DEF FirstOnes
  <2>. QED BY <2>4, <2>5 DEF m
<1>3. CASE MemberDeployed
  <2> DEFINE members == Append(clu.members, [dir |-> Members[clu.i], failed |-> FALSE])
  <2>1. /\ clu.at = "deploy.member" /\ ~InFlight(Conductor)
        /\ cl[Conductor].at = "ok" /\ Quiet /\ UNCHANGED manifest
    BY <1>3 DEF MemberDeployed, ClusterAt
  <2>2. /\ members \in Seq(Member) /\ FirstOnes(members, clu.i) /\ clu.port # None
        /\ clu.i \in 1 .. Len(Members)
    BY <1>2, <2>1 DEF CluInv, Reached
  <2> HIDE DEF members
  <2>3. ASSUME clu.i = 1, UNCHANGED calls,
               clu' = [clu EXCEPT !.at = "deploy.publish", !.members = members],
               Call("publish", "pub.load", Primary, None, None, None, PortBase)
        PROVE  CluInv'
    <3>1. /\ clu' \in Cluster /\ clu'.at = "deploy.publish" /\ clu'.i = 1
          /\ clu'.members = members /\ clu'.port # None
      BY <1>1, <2>2, <2>3 DEF Cluster, ClusterPoints
    <3>2. calls' \in Nat /\ "publish" \in AllOps /\ Starts("publish", "pub.load")
          /\ Primary \in Dirs /\ PortBase \in Nat
      BY <1>1, <2>3, TheMembers, BoundsAssumption
         DEF Inv, TypeOK, AllOps, Starts, Primary
    <3>3. /\ Inv' /\ cl'[Conductor].op = "publish" /\ cl'[Conductor].dir = Primary
      BY <1>1, <2>1, <2>3, <3>2, CallInv
    <3>4. Conducts'
      BY <3>1, <3>3 DEF Conducts
    <3>5. Reached'
      BY <2>2, <2>3, <3>1 DEF Reached, FirstOnes
    <3>. QED BY <2>1, <3>1, <3>3, <3>4, <3>5 DEF CluInv
  <2>4. CASE Onwards(members)
    BY <2>1, <2>2, <2>4, OnwardsInv
  <2>5. CASE clu.i = 1 /\ SqlOrOnwards(members)
    BY <2>1, <2>2, <2>5, SqlOrOnwardsInv
  <2>. QED BY <1>3, <2>3, <2>4, <2>5 DEF MemberDeployed, members
<1>4. CASE MemberFailed
  <2> DEFINE members == Append(clu.members, [dir |-> Members[clu.i], failed |-> TRUE])
  <2>1. clu.at = "deploy.member" /\ ~InFlight(Conductor)
    BY <1>4 DEF MemberFailed, ClusterAt
  <2>2. members \in Seq(Member)
    BY <1>2, <2>1
  <2> HIDE DEF members
  <2>3. CASE ClusterReturn("fail") /\ Quiet /\ Idling /\ UNCHANGED manifest
    BY <1>1, <2>1, <2>3, IdleInv, EndsInv DEF CluInv
  <2>4. CASE SaveManifest(members, "fail")
    BY <1>1, <2>1, <2>2, <2>4, SavesInv
  <2>. QED BY <1>4, <2>3, <2>4 DEF MemberFailed, members
<1>5. ASSUME ClusterAt("deploy.publish") \/ ClusterAt("deploy.sql")
      PROVE  /\ ~InFlight(Conductor) /\ clu.i = 1 /\ FirstOnes(clu.members, 1)
             /\ clu.members \in Seq(Member) /\ clu.port # None
  BY <1>1, <1>5 DEF ClusterAt, CluInv, Reached, Cluster
<1>6. CASE Published
  <2>1. CASE SqlOrOnwards(clu.members) /\ Quiet /\ UNCHANGED manifest
    BY <1>5, <1>6, <2>1, SqlOrOnwardsInv DEF Published
  <2>2. CASE SaveManifest(clu.members, "fail")
    BY <1>1, <1>5, <1>6, <2>2, SavesInv DEF Published
  <2>. QED BY <1>6, <2>1, <2>2 DEF Published
<1>7. CASE InitSql
  <2>1. CASE Onwards(clu.members) /\ Quiet /\ UNCHANGED manifest
    BY <1>1, <1>5, <1>7, <2>1, OnwardsInv DEF InitSql
  <2>2. CASE SaveManifest(clu.members, "fail")
    BY <1>1, <1>5, <1>7, <2>2, SavesInv DEF InitSql
  <2>. QED BY <1>7, <2>1, <2>2 DEF InitSql
<1>8. CASE DeploySave
  <2>1. clu.members \in Seq(Member) /\ ~InFlight(Conductor)
    BY <1>1, <1>8 DEF DeploySave, ClusterAt, Cluster
  <2>. QED BY <1>1, <1>8, <2>1, SavesInv DEF DeploySave
<1>. QED BY <1>3, <1>4, <1>6, <1>7, <1>8 DEF ClusterDeployStep

-----------------------------------------------------------------------------
\* cluster destroy

LEMMA DestroyMemberInv ==
  ASSUME CluInv, DestroyMember
  PROVE  CluInv'
<1> DEFINE d == Victim.dir
<1>1. /\ clu.at = "destroy.next" /\ clu.i > 0 /\ ~InFlight(Conductor)
      /\ Quiet /\ UNCHANGED <<manifest, calls>>
  BY DEF DestroyMember, ClusterAt
<1>2. Inv /\ HostTypeOK /\ clu \in Cluster /\ calls \in Nat
  BY DEF CluInv, Inv, TypeOK
<1>3. clu.i \in 1 .. Len(clu.members) /\ clu.survivors \in SUBSET Dirs
  BY <1>1, <1>2 DEF CluInv, Reached, Cluster
<1>4. d \in Dirs
  BY <1>3, VictimTyped
<1>5. ASSUME UNCHANGED cl PROVE Inv' /\ ~InFlight(Conductor)'
  BY <1>1, <1>2, <1>5, QuietTyped, StandStill DEF InFlight
<1>6. ASSUME clu' = [clu EXCEPT !.at = "destroy.member"],
             Call("destroy", "destroy.load", d, SourceOf(d), None, None, PortBase)
      PROVE  CluInv'
  <2>1. /\ "destroy" \in AllOps /\ Starts("destroy", "destroy.load")
        /\ SourceOf(d) \in Dirs \cup {None} /\ PortBase \in Nat /\ calls' \in Nat
    BY <1>1, <1>2, <1>4, SourceOfTyped, BoundsAssumption DEF AllOps, Starts
  <2>2. Inv' /\ cl'[Conductor].op = "destroy" /\ cl'[Conductor].dir = d
    <3> DEFINE src == SourceOf(d)
    <3>1. src \in Dirs \cup {None} /\ d \in Dirs
      BY <1>4, <2>1
    <3>2. Call("destroy", "destroy.load", d, src, None, None, PortBase)
      BY <1>6
    <3> HIDE DEF src, d
    <3>3. Inv' /\ cl'[Conductor].op = "destroy" /\ cl'[Conductor].dir = d
      BY <1>1, <1>2, <2>1, <3>1, <3>2, CallInv
    <3>. QED BY <3>3
  <2>3. /\ clu' \in Cluster /\ clu'.at = "destroy.member" /\ clu'.i = clu.i
        /\ clu'.members = clu.members
    BY <1>2, <1>6 DEF Cluster, ClusterPoints
  <2>4. Conducts'
    BY <2>2, <2>3 DEF Conducts, Victim
  <2>5. Reached'
    BY <1>3, <2>3 DEF Reached
  <2>. QED BY <1>1, <2>2, <2>3, <2>4, <2>5 DEF CluInv
<1>7. ASSUME clu' = [clu EXCEPT !.at = "stub.stop"], UNCHANGED cl
      PROVE  CluInv'
  <2>1. /\ clu' \in Cluster /\ clu'.at = "stub.stop" /\ clu'.i = clu.i
        /\ clu'.members = clu.members
    BY <1>2, <1>7 DEF Cluster, ClusterPoints
  <2>2. Reached'
    BY <1>3, <2>1 DEF Reached
  <2>. QED BY <1>1, <1>5, <1>7, <2>1, <2>2 DEF CluInv, Conducts
<1>8. ASSUME NextMember(clu.survivors), UNCHANGED cl
      PROVE  CluInv'
  BY <1>1, <1>3, <1>5, <1>8, NextMemberInv
<1>. QED BY <1>6, <1>7, <1>8 DEF DestroyMember

LEMMA ClusterDestroyInv ==
  ASSUME CluInv, ClusterDestroyStep
  PROVE  CluInv'
<1>1. Inv /\ HostTypeOK /\ clu \in Cluster /\ {"ok", "fail"} \subseteq Ends
  BY DEF CluInv, Inv, TypeOK, Ends
<1>2. ASSUME clu.at \in {"destroy.member", "stub.stop", "stub.rm"}
      PROVE  /\ clu.i \in 1 .. Len(clu.members) /\ Victim.dir \in Dirs
             /\ clu.survivors \in SUBSET Dirs
             /\ clu.survivors \cup {Victim.dir} \in SUBSET Dirs
  BY <1>1, <1>2, VictimTyped DEF CluInv, Reached, Cluster
<1>3. ASSUME HostTypeOK', Idling, ~InFlight(Conductor)
      PROVE  Inv' /\ ~InFlight(Conductor)'
  BY <1>1, <1>3, StandStill DEF Idling, InFlight
<1>4. CASE MemberDestroyed
  <2>1. /\ clu.at = "destroy.member" /\ ~InFlight(Conductor) /\ Quiet /\ Idling
        /\ UNCHANGED manifest
    BY <1>4 DEF MemberDestroyed, ClusterAt
  <2>2. Inv' /\ ~InFlight(Conductor)'
    BY <1>1, <1>3, <2>1, QuietTyped
  <2>3. \E survivors \in SUBSET Dirs : NextMember(survivors)
    BY <1>2, <1>4, <2>1 DEF MemberDestroyed
  <2>. QED BY <1>2, <2>1, <2>2, <2>3, NextMemberInv
<1>5. CASE StubStop
  <2> DEFINE d == Victim.dir
  <2>1. /\ clu.at = "stub.stop" /\ ~InFlight(Conductor) /\ Idling
        /\ clu' = [clu EXCEPT !.at = "stub.rm"] /\ UNCHANGED manifest
        /\ ServerDown(d, "none") \/ Quiet
    BY <1>5 DEF StubStop, ClusterAt
  <2>2. d \in Dirs /\ "none" \in PidStates
    BY <1>2, <2>1 DEF PidStates
  <2>3. HostTypeOK'
    BY <1>1, <2>1, <2>2, ServerDownTyped, QuietTyped
  <2>4. Inv' /\ ~InFlight(Conductor)'
    BY <1>3, <2>1, <2>3
  <2>5. /\ clu' \in Cluster /\ clu'.at = "stub.rm" /\ clu'.i = clu.i
        /\ clu'.members = clu.members
    BY <1>1, <2>1 DEF Cluster, ClusterPoints
  <2>6. Reached'
    BY <1>2, <2>1, <2>5 DEF Reached
  <2>. QED BY <2>1, <2>4, <2>5, <2>6 DEF CluInv, Conducts
<1>6. CASE StubRemove
  <2> DEFINE d == Victim.dir
  <2>1. /\ clu.at = "stub.rm" /\ ~InFlight(Conductor) /\ Idling /\ UNCHANGED manifest
    BY <1>6 DEF StubRemove, ClusterAt
  <2>2. d \in Dirs
    BY <1>2, <2>1
  <2>3. /\ NoFiles \in Files
        /\ [made |-> TRUE, data |-> "torn", pid |-> "none", cfg |-> None] \in Files
    BY DEF NoFiles, Files, DataStates, PidStates
  <2>4. HostTypeOK'
    BY <1>1, <1>6, <2>2, <2>3, RemovedTyped DEF StubRemove
  <2>5. Inv' /\ ~InFlight(Conductor)'
    BY <1>3, <2>1, <2>4
  <2>6. \E survivors \in SUBSET Dirs : NextMember(survivors)
    BY <1>2, <1>6, <2>1 DEF StubRemove
  <2>. QED BY <1>2, <2>1, <2>5, <2>6, NextMemberInv
<1>7. CASE FinishDestroy
  <2>1. ~InFlight(Conductor) /\ Quiet /\ Idling
    BY <1>7 DEF FinishDestroy, ClusterAt
  <2>2. Inv' /\ ~InFlight(Conductor)'
    BY <1>1, <1>3, <2>1, QuietTyped
  <2>3. \E outcome \in Ends : ClusterReturn(outcome)
    BY <1>1, <1>7 DEF FinishDestroy
  <2>4. manifest' # None => manifest' \in Seq(Member)
    BY <1>7 DEF FinishDestroy, CluInv
  <2>. QED BY <2>2, <2>3, <2>4, EndsInv
<1>. QED BY <1>4, <1>5, <1>6, <1>7, DestroyMemberInv DEF ClusterDestroyStep

-----------------------------------------------------------------------------
\* The rest

LEMMA BeginClusterInv ==
  ASSUME CluInv, BeginClusterDeploy \/ BeginClusterDestroy
  PROVE  CluInv'
<1>1. Inv /\ HostTypeOK /\ calls \in Nat /\ NoCluster \in Cluster
  BY NoClusterTyped DEF CluInv, Inv, TypeOK
<1>2. ASSUME BeginClusterDeploy PROVE CluInv'
  <2>a. /\ Quiet /\ ~InFlight(Conductor) /\ UNCHANGED manifest
        /\ calls' = calls + 1
    BY <1>2 DEF BeginClusterDeploy
  <2>1. Quiet /\ ~InFlight(Conductor) /\ UNCHANGED manifest /\ calls' \in Nat
    BY <1>1, <2>a
  <2>2. PICK mode \in Modes, sql \in BOOLEAN, port \in Asked \cup {None} :
          /\ clu' = [NoCluster EXCEPT !.at = "deploy.member", !.mode = mode,
                                      !.sql = sql, !.i = 1]
          /\ Call("deploy", "port", Primary, None, None, port, PortBase)
    BY <1>2 DEF BeginClusterDeploy
  <2>3. /\ clu' \in Cluster /\ clu'.at = "deploy.member" /\ clu'.i = 1
        /\ clu'.members = <<>>
    BY <1>1, <2>2 DEF Cluster, ClusterPoints, NoCluster
  <2>4. /\ "deploy" \in AllOps /\ Starts("deploy", "port") /\ Primary \in Dirs
        /\ PortBase \in Nat /\ port \in Ports \cup {None}
    BY TheMembers, BoundsAssumption DEF AllOps, DeployOps, Starts, Primary
  <2>5. /\ Inv' /\ cl'[Conductor].op = "deploy" /\ cl'[Conductor].dir = Primary
        /\ cl'[Conductor].at = "port"
    BY <1>1, <2>1, <2>2, <2>4, CallInv
  <2>6. Conducts'
    BY <2>3, <2>5 DEF Conducts, Primary
  <2>7. Reached'
    BY <2>3, <2>5, TheMembers DEF Reached, FirstOnes
  <2>. QED BY <2>1, <2>3, <2>5, <2>6, <2>7 DEF CluInv
<1>3. ASSUME BeginClusterDestroy PROVE CluInv'
  <2> DEFINE tools == OnPath \/ disk[manifest[1].dir].cfg # None
  <2>1. /\ Quiet /\ UNCHANGED <<cl, manifest>> /\ manifest \in Seq(Member)
        /\ ~InFlight(Conductor) /\ calls' \in Nat
    BY <1>1, <1>3 DEF BeginClusterDestroy, CluInv
  <2>2. tools \in BOOLEAN
    BY ConductorAssumption
  <2> DEFINE n == Len(manifest)
  <2>3. clu' = [NoCluster EXCEPT !.at = "destroy.next", !.i = n,
                  !.members = manifest, !.tools = tools]
    BY <1>3 DEF BeginClusterDestroy
  <2>n. n \in Nat /\ n \in 0 .. Len(manifest)
    BY <2>1
  <2> HIDE DEF tools, n
  <2>4. /\ clu' \in Cluster /\ clu'.at = "destroy.next" /\ clu'.i = n
        /\ clu'.members = manifest
    BY <1>1, <2>1, <2>2, <2>3, <2>n DEF Cluster, ClusterPoints
  <2>5. Reached'
    BY <2>n, <2>4 DEF Reached
  <2>6. Inv' /\ ~InFlight(Conductor)'
    <3>1. HostTypeOK'
      BY <1>1, <2>1, QuietTyped
    <3>. QED BY <1>1, <2>1, <3>1 DEF Inv, TypeOK, CallsWellFormed, InFlight
  <2>. QED BY <2>1, <2>4, <2>5, <2>6 DEF CluInv, Conducts
<1>. QED BY <1>2, <1>3

LEMMA KillClusterInv ==
  ASSUME CluInv, KillCluster
  PROVE  CluInv'
<1>1. Inv /\ "fail" \in Ends /\ HostTypeOK' /\ calls' \in Nat /\ Conductor \in Clients
  BY QuietTyped, TheMembers DEF CluInv, Inv, TypeOK, Ends, KillCluster
<1>2. Inv'
  BY <1>1, ReturnInv DEF KillCluster
<1>3. cl' = [cl EXCEPT ![Conductor] = [Idle EXCEPT !.at = "fail"]]
  BY DEF KillCluster, Return
<1>4. ~InFlight(Conductor)'
  BY <1>1, <1>3 DEF InFlight, Ends, Idle, Inv, TypeOK
<1>. QED BY <1>1, <1>2, <1>4, EndsInv DEF KillCluster, CluInv

\* Another command moves, or begins.
LEMMA OneOther ==
  ASSUME cl \in [Clients -> Client], NEW c \in Clients \ {Conductor},
         BeginCall(c) \/ ClientStep(c) \/ KillClient(c)
  PROVE  \A b \in Clients \ {c} : cl'[b] = cl[b]
<1>1. CASE ClientStep(c)
  BY <1>1, OneMoves
<1>2. CASE KillClient(c)
  BY <1>2 DEF KillClient, Return
<1>3. CASE BeginCall(c)
  BY <1>3 DEF BeginCall, BeginDeploy, BeginLifecycle, BeginDestroy, BeginPromote,
              BeginPublish, BeginSubscribe, BeginSet, Begin
<1>. QED BY <1>1, <1>2, <1>3

LEMMA OtherStepInv ==
  ASSUME CluInv, OtherStep
  PROVE  CluInv'
<1>1. Inv /\ cl \in [Clients -> Client] /\ Conductor \in Clients
  BY TheMembers DEF CluInv, Inv, TypeOK
<1>2. PICK c \in Clients \ {Conductor} : BeginCall(c) \/ ClientStep(c) \/ KillClient(c)
  BY DEF OtherStep
<1>3. Inv'
  BY <1>1, <1>2, BeginCallInv, ClientStepInv, KillClientInv
<1>4. cl'[Conductor] = cl[Conductor]
  BY <1>1, <1>2, OneOther
<1>. QED BY <1>3, <1>4, SameClu DEF OtherStep

LEMMA ClusterEnvironmentInv ==
  ASSUME CluInv, ClusterEnvironment
  PROVE  CluInv'
<1>1. Inv /\ cl \in [Clients -> Client] /\ Conductor \in Clients
  BY TheMembers DEF CluInv, Inv, TypeOK
<1>2. Inv'
  BY <1>1, EnvironmentInv DEF ClusterEnvironment, Environment
<1>3. CASE Machine /\ UNCHANGED <<clu, manifest>>
  BY <1>2, <1>3, SameClu DEF Machine
<1>4. ASSUME Reboot, UNCHANGED manifest,
             clu' = IF ClusterBusy THEN [NoCluster EXCEPT !.at = "fail"] ELSE clu
      PROVE  CluInv'
  <2>1. ~InFlight(Conductor)'
    BY <1>1, <1>4 DEF Reboot, InFlight, Ends, Idle
  <2>2. CASE ClusterBusy
    BY <1>2, <1>4, <2>1, <2>2, EndsInv DEF ClusterReturn, Ends, CluInv
  <2>3. CASE ~ClusterBusy
    BY <1>2, <1>4, <2>1, <2>3 DEF CluInv, Conducts, Reached, ClusterBusy, Ends
  <2>. QED BY <2>2, <2>3
<1>. QED BY <1>3, <1>4 DEF ClusterEnvironment

LEMMA ClusterStepInv == CluInv /\ [ClusterNext]_clusterVars => CluInv'
<1>1. SUFFICES ASSUME CluInv, [ClusterNext]_clusterVars PROVE CluInv'
  OBVIOUS
<1>2. CASE UNCHANGED clusterVars
  <2>1. Inv'
    BY <1>1, <1>2, StandStill, QuietTyped
       DEF CluInv, Inv, TypeOK, clusterVars, vars, Quiet, host
  <2>. QED BY <1>1, <1>2, <2>1, SameClu DEF clusterVars, vars
<1>. QED BY <1>1, <1>2, MemberStepInv, ClusterDeployInv, ClusterDestroyInv,
            BeginClusterInv, KillClusterInv, OtherStepInv, ClusterEnvironmentInv
            DEF ClusterNext, ClusterStep, BeginCluster

LEMMA ClusterInitInv == ClusterInit => CluInv
<1>1. SUFFICES ASSUME ClusterInit PROVE CluInv
  OBVIOUS
<1>2. Inv /\ cl[Conductor] = Idle
  BY <1>1, InitInv, TheMembers DEF ClusterInit, Init
<1>3. clu \in Cluster /\ clu.at = "ok" /\ manifest = None
  BY <1>1, NoClusterTyped DEF ClusterInit
<1>. QED BY <1>2, <1>3 DEF CluInv, Conducts, Reached, InFlight, Ends, Idle

\* Whatever commands run beside a cluster command, and whatever is killed or
\* fails, its manifest and what it keeps of its members are well typed: a failed
\* member is listed as a member (cluster/deploy.go), and counting down through the
\* members never leaves their list (cluster/destroy.go).
THEOREM ClusterTyped == ClusterSpec => []ClusterTypeOK
<1>1. CluInv => ClusterTypeOK
  BY DEF CluInv, ClusterTypeOK, Inv
<1>. QED BY <1>1, ClusterInitInv, ClusterStepInv, PTL DEF ClusterSpec

-----------------------------------------------------------------------------
\* What a command does to the files of its sandbox

\* A sandbox with anything in it has its directory; a pg_basebackup about to run
\* finds it there.
Marked ==
  /\ \A d \in Dirs :
       disk[d].cfg # None \/ disk[d].data # "absent" => disk[d].made
  /\ \A c \in Clients :
       InFlight(c) /\ cl[c].at = "base" => disk[cl[c].dir].made

LEMMA FileFrame ==
  ASSUME LifeInv, Marked, NEW c \in Clients, ClientStep(c)
  PROVE  LET f == disk[cl[c].dir]
             g == disk'[cl[c].dir] IN
         /\ g.cfg # None \/ g.data # "absent" => g.made
         /\ InFlight(c)' /\ cl'[c].at = "base" => g.made
         /\ cl[c].op \notin DeployOps /\ g.made => f.made
         /\ g.cfg # None =>
              \/ f.cfg # None /\ g.cfg.port = f.cfg.port
              \/ /\ cl[c].op \in DeployOps /\ cl[c].at = "save"
                 /\ g.cfg.port = cl[c].port
              \/ cl[c].at = "set.save"
         /\ cl[c].op # "destroy" /\ f.cfg # None => g.cfg # None
<1> DEFINE d == cl[c].dir
           f == disk[d]
           g == disk'[d]
           Goal == /\ g.cfg # None \/ g.data # "absent" => g.made
                   /\ InFlight(c)' /\ cl'[c].at = "base" => g.made
                   /\ cl[c].op \notin DeployOps /\ g.made => f.made
                   /\ g.cfg # None =>
                        \/ f.cfg # None /\ g.cfg.port = f.cfg.port
                        \/ /\ cl[c].op \in DeployOps /\ cl[c].at = "save"
                           /\ g.cfg.port = cl[c].port
                        \/ cl[c].at = "set.save"
                   /\ cl[c].op # "destroy" /\ f.cfg # None => g.cfg # None
           Same == /\ g.made = f.made /\ g.cfg = f.cfg
                   /\ g.data # "absent" => f.data # "absent"
<1>1. /\ disk \in [Dirs -> Files] /\ cl \in [Clients -> Client] /\ f \in Files
      /\ d \in Dirs /\ OnTrack(cl[c].op, cl[c].at) /\ Knows(cl[c]) /\ InFlight(c)
      /\ Expects(cl[c].op, cl[c].at, cl[c].cfg, cl[c].port, f, srv[d])
      /\ Coherent(f, srv[d])
  BY StepIsInFlight
     DEF LifeInv, Inv, TypeOK, HostTypeOK, CallsWellFormed, Holds, Sane
<1>2. f.cfg # None \/ f.data # "absent" => f.made
  BY <1>1 DEF Marked
<1>3. Same /\ cl'[c].at # "base" => Goal
  BY <1>2
<1>4. /\ \A point : Go(c, point) => cl'[c].at = point
      /\ \A outcome : Return(c, outcome) => cl'[c].at = outcome
  BY <1>1 DEF Go, Return, Client, Idle
<1>5. Quiet \/ UNCHANGED disk => Same
  BY DEF Quiet, host
<1>6. ASSUME NEW p, ServerUp(d, p) \/ ServerDown(d, p), f.data # "absent"
      PROVE  Same
  BY <1>1, <1>6 DEF ServerUp, ServerDown, Files
<1>7. ASSUME NEW cfg, NEW done, Save(c, cfg, done),
             (cl[c].cfg # None /\ cfg.port = cl[c].cfg.port) \/ cl[c].at = "set.save",
             cl'[c].at # "base", cfg # None
      PROVE  Goal
  <2>1. CASE Quiet
    BY <1>3, <1>5, <1>7, <2>1
  <2>2. CASE f.made /\ disk' = [disk EXCEPT ![d].cfg = cfg]
    <3>1. g.made = f.made /\ g.cfg = cfg /\ g.data = f.data
      BY <1>1, <2>2 DEF Files
    <3>2. cl[c].cfg # None => cl[c].cfg = f.cfg
      BY <1>1 DEF Expects
    <3>. QED BY <1>7, <2>2, <3>1, <3>2
  <2>. QED BY <1>7, <2>1, <2>2 DEF Save
<1>8. CASE DeployStep(c)
  <2>1. CASE ChoosePort(c)
    <3>1. cl'[c].at \in {"init", "fail"}
      BY <1>1, <1>4, <2>1 DEF ChoosePort, ResolvePort, Client
    <3>. QED BY <1>3, <1>5, <2>1, <3>1 DEF ChoosePort
  <2>2. CASE MakeDirChoosePort(c)
    <3>1. cl[c].op \in DeployOps
      BY <1>1, <2>2 DEF MakeDirChoosePort, At, OnTrack, DeployOps
    <3>2. g.made /\ g.cfg = f.cfg
      BY <1>1, <2>2 DEF MakeDirChoosePort, Files
    <3>. QED BY <3>1, <3>2
  <2>3. CASE InitDb(c)
    <3>1. cl[c].op \in DeployOps
      BY <1>1, <2>3 DEF InitDb, At, OnTrack, DeployOps
    <3>2. g.made /\ g.cfg = f.cfg
      BY <1>1, <2>3 DEF InitDb, Files
    <3>. QED BY <3>1, <3>2
  <2>4. CASE LaunchDeployed(c)
    <3>1. Go(c, "save") \/ Return(c, "fail")
      BY <2>4 DEF LaunchDeployed, PgCtlStart
    <3>2. Same
      BY <1>5, <1>6, <2>4 DEF LaunchDeployed, PgCtlStart, CanStart, Complete
    <3>. QED BY <1>3, <1>4, <3>1, <3>2
  <2>5. CASE SaveDeployed(c)
    <3>1. cl[c].op \in DeployOps /\ cl[c].at = "save"
      BY <1>1, <2>5 DEF SaveDeployed, At, OnTrack, DeployOps
    <3>2. Go(c, "sub.load") \/ Return(c, "ok") \/ Return(c, "fail")
      BY <2>5 DEF SaveDeployed, Save
    <3>3. CASE Quiet
      BY <1>3, <1>4, <1>5, <3>2, <3>3
    <3>4. CASE f.made /\ g.made /\ g.cfg.port = cl[c].port /\ g.cfg # None
      BY <1>4, <3>1, <3>2, <3>4
    <3>5. ASSUME NEW cfg, cfg.port = cl[c].port, cfg \in Sandbox, f.made,
                 disk' = [disk EXCEPT ![d].cfg = cfg]
          PROVE  f.made /\ g.made /\ g.cfg.port = cl[c].port /\ g.cfg # None
      BY <1>1, <3>5, SentinelAssumption DEF Files
    <3> DEFINE cfg == [port |-> cl[c].port,
                       role |-> IF cl[c].op = "standby" THEN "standby" ELSE "primary",
                       physical |-> IF cl[c].op = "standby"
                                    THEN [src |-> cl[c].src, slot |-> cl[c].name]
                                    ELSE None,
                       logical |-> None]
    <3>6. cfg \in Sandbox /\ cfg.port = cl[c].port
      <4>1. cl[c] \in Client /\ cl[c].port # None
            /\ (cl[c].op = "standby" => cl[c].src # None /\ cl[c].name # None)
        BY <1>1, <3>1 DEF Knows
      <4>. QED BY <4>1 DEF Client, Sandbox, Roles, Physical
    <3>7. Quiet \/ (f.made /\ disk' = [disk EXCEPT ![d].cfg = cfg])
      BY <2>5 DEF SaveDeployed, Save
    <3> HIDE DEF cfg
    <3>. QED BY <3>3, <3>4, <3>5, <3>6, <3>7
  <2>6. CASE ProbeSource(c) \/ ProbeRole(c) \/ CreateRole(c) \/ EnsureHba(c)
    <3>1. Quiet \/ UNCHANGED disk
      BY <2>6 DEF ProbeSource, ProbeRole, CreateRole, EnsureHba
    <3>2. cl'[c].at \in {"role", "hba", "mkrole", "mkdir", "fail"}
      BY <1>1, <1>4, <2>6 DEF ProbeSource, ProbeRole, CreateRole, EnsureHba, Client
    <3>. QED BY <1>3, <1>5, <3>1, <3>2
  <2>7. CASE BaseBackup(c)
    <3>1. cl[c].op \in DeployOps /\ f.made /\ cl[c].at = "base"
      BY <1>1, <2>7 DEF BaseBackup, At, OnTrack, DeployOps, Marked
    <3>2. Quiet \/ \E data \in DataStates : disk' = [disk EXCEPT ![d].data = data]
      BY <2>7, Zenon DEF BaseBackup, DataStates
    <3>3. g.made = f.made /\ g.cfg = f.cfg
      BY <1>1, <1>5, <3>2 DEF Files
    <3>. QED BY <3>1, <3>3
  <2>. QED BY <1>8, <2>1, <2>2, <2>3, <2>4, <2>5, <2>6, <2>7 DEF DeployStep
<1>9. CASE LifecycleStep(c)
  <2>1. Same
    BY <1>1, <1>5, <1>6, <1>9 DEF LifecycleStep, StartLoad, StartRun, PgCtlStart,
       CanStart, Complete, StopLoad, StopUnlink, StopRun, Coherent, Files
  <2>2. cl'[c].at # "base"
    BY <1>1, <1>4, <1>9 DEF LifecycleStep, StartLoad, StartRun, PgCtlStart, StartDone,
       StopLoad, StopUnlink, StopRun, StopDone, Client
  <2>. QED BY <1>3, <2>1, <2>2
<1>10. CASE DestroyStep(c)
  <2>1. CASE DestroyRemove(c)
    <3>1. cl[c].at = "destroy.rm" /\ cl[c].op = "destroy"
      BY <1>1, <2>1 DEF DestroyRemove, At, OnTrack
    <3>2. f.cfg # None /\ f.made
      BY <1>1, <1>2, <3>1 DEF Expects, Knows
    <3>3. \/ g = NoFiles
          \/ g.made /\ g.cfg \in {f.cfg, None}
      BY <1>1, <2>1 DEF DestroyRemove, Removed
    <3>4. cl'[c].at \in {"ok", "fail"}
      BY <1>4, <2>1 DEF DestroyRemove
    <3>. QED BY <3>1, <3>2, <3>3, <3>4 DEF NoFiles
  <2>2. CASE DestroyLoad(c) \/ DropSubscription(c) \/ SlotLoad(c) \/ SlotDrop(c)
    <3>1. Quiet \/ UNCHANGED disk
      BY <2>2 DEF DestroyLoad, DropSubscription, SlotLoad, SlotDrop
    <3>2. cl'[c].at # "base"
      BY <1>1, <1>4, <2>2 DEF DestroyLoad, DropSubscription, SlotLoad, SlotDrop,
         SlotDone, Client
    <3>. QED BY <1>3, <1>5, <3>1, <3>2
  <2>3. CASE DestroyStop(c)
    <3>1. f.data # "absent" \/ Quiet
      BY <1>1, <2>3 DEF DestroyStop, Coherent, Complete
    <3>2. Same
      BY <1>5, <1>6, <2>3, <3>1 DEF DestroyStop
    <3>. QED BY <1>3, <1>4, <2>3, <3>2 DEF DestroyStop
  <2>. QED BY <1>10, <2>1, <2>2, <2>3 DEF DestroyStep
<1>11. CASE PromoteStep(c)
  <2>1. CASE PromoteLoad(c) \/ PromoteRun(c) \/ PromoteWait(c)
    <3>1. Same
      BY <1>1, <1>5, <2>1 DEF PromoteLoad, PromoteRun, PromoteWait, Files
    <3>2. cl'[c].at # "base"
      BY <1>1, <1>4, <2>1 DEF PromoteLoad, PromoteRun, PromoteWait, Client
    <3>. QED BY <1>3, <3>1, <3>2
  <2>2. CASE PromoteSave(c)
    <3> DEFINE cfg == [cl[c].cfg EXCEPT !.role = "primary", !.physical = None]
    <3>1. cl[c].cfg \in Sandbox /\ Save(c, cfg, Return(c, "ok"))
          /\ cl'[c].at \in {"ok", "fail"} /\ cl[c].cfg # None
      BY <1>1, <1>4, <2>2 DEF PromoteSave, At, Knows, Client, Save
    <3>2. cfg # None /\ cfg.port = cl[c].cfg.port
      BY <3>1, SentinelAssumption DEF Sandbox, Roles
    <3> HIDE DEF cfg
    <3>. QED BY <1>7, <3>1, <3>2
  <2>. QED BY <1>11, <2>1, <2>2 DEF PromoteStep
<1>12. CASE LogicalStep(c)
  <2>1. CASE SubscribeSave(c)
    <3> DEFINE logical == [src |-> cl[c].src, sub |-> cl[c].name]
               cfg == [cl[c].cfg EXCEPT !.role = "subscriber", !.logical = logical]
    <3>1. cl[c].cfg \in Sandbox /\ Save(c, cfg, Return(c, "ok"))
          /\ cl'[c].at \in {"ok", "fail"} /\ cl[c].cfg # None
      BY <1>1, <1>4, <2>1 DEF SubscribeSave, At, Knows, Client, Save
    <3>2. cl[c].src \in Dirs /\ cl[c].name \in Names
      BY <1>1, <2>1 DEF SubscribeSave, At, OnTrack, Knows, Client
    <3> HIDE DEF logical
    <3>3. cfg # None /\ cfg.port = cl[c].cfg.port
      <4>1. logical \in Logical
        BY <3>2 DEF Logical, logical
      <4>. QED BY <3>1, <4>1, SentinelAssumption DEF Sandbox, Roles
    <3> HIDE DEF cfg
    <3>. QED BY <1>7, <3>1, <3>3
  <2>2. CASE PublishLoad(c) \/ ShowWalLevel(c) \/ AlterSystem(c)
             \/ CreatePublication(c)
    <3>1. Quiet \/ UNCHANGED disk
      BY <2>2 DEF PublishLoad, ShowWalLevel, AlterSystem, CreatePublication
    <3>2. cl'[c].at # "base"
      BY <1>1, <1>4, <2>2 DEF PublishLoad, ShowWalLevel, AlterSystem,
         CreatePublication, Client
    <3>. QED BY <1>3, <1>5, <3>1, <3>2
  <2>3. CASE SubscribeLoad(c)
    BY <1>1, <1>3, <1>4, <1>5, <2>3 DEF SubscribeLoad, Client
  <2>4. CASE CreateSubscription(c)
    <3>1. Quiet \/ UNCHANGED disk
      BY <2>4 DEF CreateSubscription
    <3>2. Go(c, "sub.save") \/ Return(c, "fail")
      BY <2>4 DEF CreateSubscription
    <3>. QED BY <1>3, <1>4, <1>5, <3>1, <3>2
  <2>. QED BY <1>12, <2>1, <2>2, <2>3, <2>4 DEF LogicalStep
<1>13. CASE SetStep(c)
  <2>1. CASE SetLoad(c)
    BY <1>1, <1>3, <1>4, <1>5, <2>1 DEF SetLoad, Client
  <2>2. CASE SetSave(c)
    <3> DEFINE cfg == [cl[c].cfg EXCEPT !.port = cl[c].port]
    <3>1. cl[c].cfg \in Sandbox /\ Save(c, cfg, Return(c, "ok"))
          /\ cl'[c].at \in {"ok", "fail"} /\ cl[c].at = "set.save"
          /\ cl[c].port \in Ports
      BY <1>1, <1>4, <2>2 DEF SetSave, At, Knows, Client, Save
    <3>2. cfg # None
      BY <3>1, SentinelAssumption DEF Sandbox
    <3> HIDE DEF cfg
    <3>. QED BY <1>7, <3>1, <3>2
  <2>. QED BY <1>13, <2>1, <2>2 DEF SetStep
<1>. QED BY <1>8, <1>9, <1>10, <1>11, <1>12, <1>13 DEF ClientStep

-----------------------------------------------------------------------------
\* What a cluster deploy does between two members

\* It ends, with a manifest or without.
Ending ==
  /\ clu'.at \in Ends /\ UNCHANGED cl
  /\ \/ UNCHANGED manifest
     \/ /\ manifest' \in Seq(Member) /\ Len(manifest') = clu.i
        /\ \A j \in 1 .. clu.i :
             /\ manifest'[j].dir = Members[j]
             /\ ~manifest'[j].failed => j <= Len(clu.members)

\* It goes on, with the command it calls if any.
Going ==
  /\ clu'.at \in DeployPoints /\ UNCHANGED manifest
  /\ clu'.port = clu.port /\ clu'.port # None /\ clu'.tools = clu.tools
  /\ \/ clu'.members = clu.members
     \/ clu.at = "deploy.member" /\ cl[Conductor].at = "ok"
  /\ \/ clu'.at \in {"deploy.sql", "deploy.save"} /\ clu'.i = clu.i /\ UNCHANGED cl
     \/ /\ clu'.at = "deploy.publish" /\ clu'.i = clu.i
        /\ Call("publish", "pub.load", Primary, None, None, None, PortBase)
     \/ /\ clu'.at = "deploy.member" /\ clu'.i = clu.i + 1
        /\ \/ Call("standby", "probe", Members[clu'.i], Primary, Members[clu'.i],
                   None, clu.port + 1)
           \/ Call("subscriber", "port", Members[clu'.i], Primary, Members[clu'.i],
                   None, clu.port + 1)

LEMMA OnwardsGoes ==
  ASSUME CluInv, NEW members \in Seq(Member), Len(members) = clu.i,
         clu.i \in 1 .. Len(Members), clu.port # None,
         members = clu.members \/ (clu.at = "deploy.member" /\ cl[Conductor].at = "ok"),
         Onwards(members), UNCHANGED manifest
  PROVE  Going
<1>1. clu \in Cluster /\ clu.i \in Nat
  BY DEF CluInv, Cluster
<1>2. ASSUME DeployMember(members, Len(members) + 1) PROVE Going
  <2> DEFINE i == Len(members) + 1
  <2>1. i = clu.i + 1
    OBVIOUS
  <2> HIDE DEF i
  <2>2. clu' = [clu EXCEPT !.at = "deploy.member", !.i = i, !.members = members]
    BY <1>2 DEF DeployMember, i
  <2>3. /\ clu'.at = "deploy.member" /\ clu'.i = clu.i + 1 /\ clu'.members = members
        /\ clu'.port = clu.port /\ clu'.tools = clu.tools /\ clu'.i = i
    BY <1>1, <2>1, <2>2 DEF Cluster
  <2>4. \/ Call("standby", "probe", Members[i], Primary, Members[i], None, clu.port + 1)
        \/ Call("subscriber", "port", Members[i], Primary, Members[i], None,
                clu.port + 1)
    BY <1>2 DEF DeployMember, NextBase, i
  <2>. QED BY <2>3, <2>4 DEF Going, DeployPoints
<1>3. ASSUME Idling, clu' = [clu EXCEPT !.at = "deploy.save", !.members = members]
      PROVE  Going
  <2>1. /\ clu'.at = "deploy.save" /\ clu'.i = clu.i /\ clu'.members = members
        /\ clu'.port = clu.port /\ clu'.tools = clu.tools
    BY <1>1, <1>3 DEF Cluster
  <2>. QED BY <1>3, <2>1 DEF Going, DeployPoints, Idling
<1>. QED BY <1>2, <1>3 DEF Onwards

LEMMA SqlOrOnwardsGoes ==
  ASSUME CluInv, NEW members \in Seq(Member), Len(members) = 1, clu.i = 1,
         clu.port # None,
         members = clu.members \/ (clu.at = "deploy.member" /\ cl[Conductor].at = "ok"),
         SqlOrOnwards(members), UNCHANGED manifest
  PROVE  Going
<1>1. CASE Onwards(members)
  BY <1>1, OnwardsGoes, TheMembers
<1>2. ASSUME Idling, clu' = [clu EXCEPT !.at = "deploy.sql", !.members = members]
      PROVE  Going
  <2>1. /\ clu'.at = "deploy.sql" /\ clu'.i = clu.i /\ clu'.members = members
        /\ clu'.port = clu.port /\ clu'.tools = clu.tools
    BY <1>2 DEF CluInv, Cluster
  <2>. QED BY <1>2, <2>1 DEF Going, DeployPoints, Idling
<1>. QED BY <1>1, <1>2 DEF SqlOrOnwards

LEMMA SavesEnd ==
  ASSUME CluInv, NEW members \in Seq(Member), Len(members) = clu.i,
         \A j \in 1 .. clu.i : /\ members[j].dir = Members[j]
                               /\ ~members[j].failed => j <= Len(clu.members),
         NEW outcome \in Ends, SaveManifest(members, outcome)
  PROVE  Ending /\ Quiet
<1>1. \A end \in Ends : ClusterReturn(end) => clu'.at \in Ends
  BY NoClusterTyped DEF ClusterReturn, NoCluster
<1>2. clu'.at \in Ends /\ UNCHANGED cl /\ Quiet
  BY <1>1 DEF SaveManifest, Idling, Ends
<1>3. UNCHANGED manifest \/ manifest' = members
  BY DEF SaveManifest
<1>. QED BY <1>2, <1>3 DEF Ending

LEMMA DeployMoves ==
  ASSUME CluInv, ClusterDeployStep
  PROVE  /\ Ending \/ Going
         /\ Quiet /\ ~InFlight(Conductor) /\ clu.at \in DeployPoints
<1>1. /\ Inv /\ clu \in Cluster /\ {"ok", "fail"} \subseteq Ends
      /\ clu.members \in Seq(Member) /\ 1 \in 1 .. Len(Members)
  BY TheMembers DEF CluInv, Cluster, Ends
<1>2. ASSUME ClusterAt("deploy.publish") \/ ClusterAt("deploy.sql")
      PROVE  /\ clu.i = 1 /\ Len(clu.members) = 1
             /\ \A j \in 1 .. clu.i :
                  clu.members[j].dir = Members[j] /\ j <= Len(clu.members)
             /\ clu.port # None /\ ~InFlight(Conductor) /\ clu.at \in DeployPoints
  BY <1>2 DEF ClusterAt, CluInv, Reached, FirstOnes, DeployPoints
<1>3. ASSUME NEW failed \in BOOLEAN, ClusterAt("deploy.member")
      PROVE  LET m == [dir |-> Members[clu.i], failed |-> failed]
                 members == Append(clu.members, m) IN
             /\ members \in Seq(Member) /\ Len(members) = clu.i
             /\ clu.i \in 1 .. Len(Members) /\ Len(clu.members) = clu.i - 1
             /\ \A j \in 1 .. clu.i : members[j].dir = Members[j]
             /\ members[clu.i].failed = failed
             /\ ~InFlight(Conductor) /\ clu.at \in DeployPoints
  <2> DEFINE m == [dir |-> Members[clu.i], failed |-> failed]
  <2>1. /\ clu.i \in 1 .. Len(Members) /\ FirstOnes(clu.members, clu.i - 1)
        /\ ~InFlight(Conductor) /\ clu.at \in DeployPoints
    BY <1>3 DEF ClusterAt, CluInv, Reached, DeployPoints
  <2>2. m \in Member /\ m.dir = Members[clu.i] /\ m.failed = failed
    BY <2>1, TheMembers DEF Member
  <2>3. clu.members \in Seq(Member) /\ Len(clu.members) = clu.i - 1 /\ clu.i \in Nat
    BY <1>1, <2>1 DEF Cluster, FirstOnes
  <2> HIDE DEF m
  <2>4. /\ Append(clu.members, m) \in Seq(Member)
        /\ Len(Append(clu.members, m)) = clu.i
        /\ Append(clu.members, m)[clu.i] = m
        /\ \A j \in 1 .. clu.i - 1 : Append(clu.members, m)[j] = clu.members[j]
    BY <2>2, <2>3
  <2>5. \A j \in 1 .. clu.i : Append(clu.members, m)[j].dir = Members[j]
    BY <2>1, <2>2, <2>3, <2>4 DEF FirstOnes
  <2>. QED BY <2>1, <2>2, <2>3, <2>4, <2>5 DEF m
<1>4. CASE MemberDeployed
  <2> DEFINE members == Append(clu.members, [dir |-> Members[clu.i], failed |-> FALSE])
  <2>1. /\ clu.at = "deploy.member" /\ ~InFlight(Conductor) /\ Quiet
        /\ cl[Conductor].at = "ok" /\ UNCHANGED manifest /\ ClusterAt("deploy.member")
    BY <1>4 DEF MemberDeployed, ClusterAt
  <2>2. /\ members \in Seq(Member) /\ Len(members) = clu.i
        /\ clu.i \in 1 .. Len(Members) /\ clu.at \in DeployPoints
    BY <1>3, <2>1
  <2>3. clu.port # None
    BY <2>1 DEF CluInv, Reached
  <2> HIDE DEF members
  <2>4. ASSUME clu' = [clu EXCEPT !.at = "deploy.publish", !.members = members],
               Call("publish", "pub.load", Primary, None, None, None, PortBase)
        PROVE  Going
    <3>1. /\ clu'.at = "deploy.publish" /\ clu'.i = clu.i
          /\ clu'.port = clu.port /\ clu'.tools = clu.tools
      BY <1>1, <2>4 DEF Cluster
    <3>. QED BY <2>1, <2>3, <2>4, <3>1 DEF Going, DeployPoints
  <2>5. CASE Onwards(members)
    BY <2>1, <2>2, <2>3, <2>5, OnwardsGoes
  <2>6. CASE clu.i = 1 /\ SqlOrOnwards(members)
    BY <2>1, <2>2, <2>3, <2>6, SqlOrOnwardsGoes
  <2>. QED BY <1>4, <2>1, <2>2, <2>4, <2>5, <2>6 DEF MemberDeployed, members
<1>5. CASE MemberFailed
  <2> DEFINE members == Append(clu.members, [dir |-> Members[clu.i], failed |-> TRUE])
  <2>1. ClusterAt("deploy.member")
    BY <1>5 DEF MemberFailed
  <2>2. /\ members \in Seq(Member) /\ Len(members) = clu.i
        /\ \A j \in 1 .. clu.i : members[j].dir = Members[j]
        /\ members[clu.i].failed = TRUE
        /\ clu.i \in 1 .. Len(Members) /\ Len(clu.members) = clu.i - 1
        /\ ~InFlight(Conductor) /\ clu.at \in DeployPoints
    BY <1>3, <2>1
  <2> HIDE DEF members
  <2>3. \A j \in 1 .. clu.i : ~members[j].failed => j <= Len(clu.members)
    BY <2>2
  <2>4. CASE ClusterReturn("fail") /\ Quiet /\ Idling /\ UNCHANGED manifest
    BY <1>1, <2>2, <2>4, NoClusterTyped DEF Ending, ClusterReturn, NoCluster, Idling
  <2>5. CASE SaveManifest(members, "fail")
    BY <1>1, <2>2, <2>3, <2>5, SavesEnd
  <2>. QED BY <1>5, <2>2, <2>4, <2>5 DEF MemberFailed, members
<1>6. CASE Published
  <2>1. CASE SqlOrOnwards(clu.members) /\ Quiet /\ UNCHANGED manifest
    BY <1>1, <1>2, <1>6, <2>1, SqlOrOnwardsGoes DEF Published
  <2>2. CASE SaveManifest(clu.members, "fail")
    <3>1. ClusterAt("deploy.publish")
      BY <1>6 DEF Published
    <3>. QED BY <1>1, <1>2, <2>2, <3>1, SavesEnd
  <2>. QED BY <1>2, <1>6, <2>1, <2>2 DEF Published
<1>7. CASE InitSql
  <2>1. CASE Onwards(clu.members) /\ Quiet /\ UNCHANGED manifest
    BY <1>1, <1>2, <1>7, <2>1, OnwardsGoes DEF InitSql
  <2>2. CASE SaveManifest(clu.members, "fail")
    <3>1. ClusterAt("deploy.sql")
      BY <1>7 DEF InitSql
    <3>. QED BY <1>1, <1>2, <2>2, <3>1, SavesEnd
  <2>. QED BY <1>2, <1>7, <2>1, <2>2 DEF InitSql
<1>8. CASE DeploySave
  <2>1. /\ ~InFlight(Conductor) /\ clu.at \in DeployPoints
        /\ clu.i = Len(Members) /\ FirstOnes(clu.members, Len(Members))
    BY <1>8 DEF DeploySave, ClusterAt, CluInv, Reached, DeployPoints
  <2>2. /\ Len(clu.members) = clu.i
        /\ \A j \in 1 .. clu.i : clu.members[j].dir = Members[j] /\ j <= Len(clu.members)
    BY <2>1 DEF FirstOnes
  <2>. QED BY <1>1, <1>8, <2>1, <2>2, SavesEnd DEF DeploySave
<1>. QED BY <1>4, <1>5, <1>6, <1>7, <1>8 DEF ClusterDeployStep

-----------------------------------------------------------------------------
\* While a cluster command is at work it is alone

\* Operators keep off the members meanwhile.
Alone == ClusterBusy => \A c \in Clients \ {Conductor} : ~InFlight(c)

\* Other invocations run the commands of this instance.
OthersOffered ==
  \A c \in Clients \ {Conductor} : InFlight(c) => cl[c].op \in Ops

\* A deploy finds nothing in the directories of the members to come.
Ahead ==
  clu.at \in DeployPoints =>
    /\ manifest = None
    /\ \A j \in 1 .. Len(Members) : j > clu.i => ~disk[Members[j]].made

AloneInv == CluInv /\ LifeInv /\ Alone /\ OthersOffered /\ Marked /\ Ahead

\* What neither writes a file nor begins a command.
LEMMA QuietLife ==
  ASSUME LifeInv, Marked, Inv', UNCHANGED <<disk, srv, strays>>,
         \A b \in Clients : InFlight(b)' => cl'[b] = cl[b]
  PROVE  LifeInv' /\ Marked'
<1>1. \A b \in Clients : InFlight(b)' => InFlight(b) /\ cl'[b] = cl[b]
  BY DEF InFlight
<1>2. Apart' /\ Marked'
  BY <1>1 DEF LifeInv, Apart, Marked
<1>3. \A b \in Clients : InFlight(b)' => Holds(b)'
  BY <1>1 DEF LifeInv, Holds
<1>. QED BY <1>2, <1>3 DEF LifeInv, OnePerPort, Sane, Coherent

\* The cluster command, alone, calls a sandbox command.
LEMMA CallLife ==
  ASSUME LifeInv, Marked, Inv', UNCHANGED <<disk, srv, strays>>,
         \A b \in Clients \ {Conductor} : ~InFlight(b)',
         NEW d \in Dirs, cl'[Conductor].dir = d, cl'[Conductor].cfg = None,
         cl'[Conductor].op # "promote",
         cl'[Conductor].op \in DeployOps => disk[d].cfg = None,
         cl'[Conductor].at \in {"port", "probe", "pub.load", "destroy.load"}
  PROVE  LifeInv' /\ Marked'
<1>1. Apart' /\ Marked'
  BY DEF LifeInv, Apart, Marked
<1>2. Holds(Conductor)'
  BY DEF Holds, Expects
<1>. QED BY <1>1, <1>2 DEF LifeInv, OnePerPort, Sane, Coherent

LEMMA SkipsLife ==
  ASSUME LifeInv, Marked, NEW c \in Clients, Skips(c)
  PROVE  LifeInv' /\ Marked'
<1>1. Inv' /\ Inv /\ cl \in [Clients -> Client]
  BY SkipsInv DEF LifeInv, Inv, TypeOK
<1>2. /\ InFlight(c) /\ UNCHANGED <<disk, srv, db, strays>>
      /\ \A b \in Clients \ {c} : cl'[b] = cl[b]
      /\ cl'[c].at # "base"
  BY <1>1, SkipsMoves
<1>3. /\ cl[c].at \in {"destroy.sub", "destroy.stop", "slot.drop"}
      /\ cl[c].dir \in Dirs /\ OnTrack(cl[c].op, cl[c].at)
      /\ Expects(cl[c].op, cl[c].at, cl[c].cfg, cl[c].port, disk[cl[c].dir],
                 srv[cl[c].dir])
  BY <1>1, <1>2 DEF Skips, LifeInv, Inv, CallsWellFormed, Holds
<1>4. LifeInv'
  <2>1. ASSUME NEW point \in {"destroy.stop", "slot.load", "destroy.rm"},
               cl[c].at \in {"destroy.sub", "destroy.stop"}, Go(c, point)
        PROVE  LifeInv'
    <3>1. cl[c].op = "destroy"
      BY <1>3, <2>1 DEF OnTrack
    <3>2. Expects(cl[c].op, point, cl[c].cfg, cl[c].port, disk[cl[c].dir],
                  srv[cl[c].dir])
      BY <1>3, <3>1 DEF Expects, DeployOps
    <3>. QED BY <1>1, <1>2, <1>3, <2>1, <3>2, UntouchedGoes
  <2>2. CASE cl[c].at = "slot.drop" /\ SlotDone(c)
    <3>1. cl[c].op \in {"destroy", "promote"}
      BY <1>3, <2>2 DEF OnTrack
    <3>2. PICK point : Go(c, point) /\ point = IF cl[c].op = "destroy" THEN "destroy.rm"
                                               ELSE "promote.save"
      BY <2>2 DEF SlotDone
    <3>3. Expects(cl[c].op, point, cl[c].cfg, cl[c].port, disk[cl[c].dir],
                  srv[cl[c].dir])
      BY <1>3, <2>2, <3>1, <3>2, SlotExpects
    <3>. QED BY <1>1, <1>2, <1>3, <3>2, <3>3, UntouchedGoes
  <2>. QED BY <2>1, <2>2 DEF Skips
<1>5. Marked'
  BY <1>2 DEF Marked, InFlight
<1>. QED BY <1>4, <1>5

\* A step of a sandbox command, be it one the cluster command has called.
LEMMA StepMarked ==
  ASSUME LifeInv, Marked, NEW c \in Clients, ClientStep(c)
  PROVE  Marked'
<1>1. /\ InFlight(c) /\ cl[c].dir \in Dirs /\ cl \in [Clients -> Client]
      /\ HostTypeOK /\ Apart /\ \A b \in Clients : InFlight(b) => cl[b].dir \in Dirs
  BY StepIsInFlight DEF LifeInv, Inv, TypeOK, CallsWellFormed
<1>2. Elsewhere(cl[c].dir)
  BY <1>1, OwnSandboxOnly
<1>3. /\ \A b \in Clients \ {c} : cl'[b] = cl[b]
      /\ InFlight(c)' => cl'[c].dir = cl[c].dir
  BY <1>1, OneMoves
<1>4. \A d \in Dirs : disk'[d].cfg # None \/ disk'[d].data # "absent" => disk'[d].made
  BY <1>2, FileFrame DEF Elsewhere, Marked
<1>5. ASSUME NEW b \in Clients, InFlight(b)', cl'[b].at = "base"
      PROVE  disk'[cl'[b].dir].made
  <2>1. CASE b = c
    BY <1>3, <1>5, <2>1, FileFrame
  <2>2. CASE b # c
    <3>1. cl'[b] = cl[b] /\ InFlight(b) /\ cl[b].dir \in Dirs \ {cl[c].dir}
      BY <1>1, <1>3, <1>5, <2>2 DEF InFlight, Apart
    <3>. QED BY <1>2, <1>5, <3>1 DEF Elsewhere, Marked
  <2>. QED BY <2>1, <2>2
<1>. QED BY <1>4, <1>5 DEF Marked

\* Neither clu.at nor clu.i moves while a sandbox command works on a member.
LEMMA MemberStepKeeps ==
  ASSUME CluInv, MemberStep
  PROVE  /\ clu'.at = clu.at /\ clu'.i = clu.i /\ clu'.members = clu.members
         /\ clu'.survivors = clu.survivors /\ clu'.tools = clu.tools
         /\ UNCHANGED manifest
BY DEF CluInv, MemberStep, Cluster

LEMMA MemberStepAlone ==
  ASSUME AloneInv, MemberStep
  PROVE  AloneInv'
<1>1. CluInv' /\ CluInv /\ LifeInv /\ HostTypeOK /\ ClusterBusy
  BY MemberStepInv DEF AloneInv, LifeInv, Inv, TypeOK, MemberStep
<1>2. ClientStep(Conductor) \/ Skips(Conductor)
  BY TheMembers, WithoutToolsSkips DEF MemberStep
<1>3. /\ InFlight(Conductor) /\ \A c \in Clients \ {Conductor} : cl'[c] = cl[c]
  BY <1>1, <1>2, ConductorMoves DEF CluInv
<1>4. /\ clu'.at = clu.at /\ clu'.i = clu.i /\ UNCHANGED manifest
  BY <1>1, MemberStepKeeps
<1>5. /\ Conductor \in Clients /\ cl[Conductor].dir \in Dirs
      /\ cl[Conductor].op # "set"
      /\ clu.at = "deploy.publish" => clu.i = 1 /\ cl[Conductor].dir = Primary
      /\ clu.at = "deploy.member" =>
           clu.i \in 1 .. Len(Members) /\ cl[Conductor].dir = Members[clu.i]
      /\ clu.at \in DeployPoints => clu.at \in {"deploy.publish", "deploy.member"}
  BY <1>1, <1>3, TheMembers
     DEF CluInv, Inv, CallsWellFormed, Conducts, Reached, DeployPoints
<1>6. LifeInv' /\ Marked' /\ Elsewhere(cl[Conductor].dir)
  <2>1. CASE ClientStep(Conductor)
    BY <1>1, <1>5, <2>1, ClientStepLife, StepMarked, OwnSandboxOnly DEF AloneInv
  <2>2. CASE Skips(Conductor)
    <3>1. LifeInv' /\ Marked'
      BY <1>5, <2>2, SkipsLife DEF AloneInv
    <3>. QED BY <2>2, <3>1 DEF Skips, Quiet, host, Elsewhere
  <2>. QED BY <1>2, <2>1, <2>2
<1>7. Alone' /\ OthersOffered'
  BY <1>3, <1>4 DEF AloneInv, Alone, OthersOffered, InFlight, ClusterBusy
<1>8. Ahead'
  <2>1. ASSUME clu.at \in DeployPoints, NEW j \in 1 .. Len(Members), j > clu.i
        PROVE  ~disk'[Members[j]].made
    <3>1. ~disk[Members[j]].made
      BY <2>1 DEF AloneInv, Ahead
    <3>2. Members[j] \in Dirs \ {cl[Conductor].dir}
      BY <1>5, <2>1, TheMembers DEF Primary
    <3>. QED BY <1>6, <3>1, <3>2 DEF Elsewhere
  <2>. QED BY <1>4, <2>1 DEF AloneInv, Ahead
<1>. QED BY <1>1, <1>6, <1>7, <1>8 DEF AloneInv

LEMMA ClusterDeployAlone ==
  ASSUME AloneInv, ClusterDeployStep
  PROVE  AloneInv'
<1>1. /\ CluInv' /\ CluInv /\ LifeInv /\ Marked /\ cl \in [Clients -> Client]
      /\ Conductor \in Clients
  BY ClusterDeployInv, TheMembers DEF AloneInv, CluInv, Inv, TypeOK
<1>2. /\ Ending \/ Going
      /\ UNCHANGED <<disk, srv, strays>> /\ ~InFlight(Conductor)
      /\ clu.at \in DeployPoints /\ ClusterBusy
  BY <1>1, DeployMoves DEF Quiet, host, DeployPoints, ClusterBusy, Ends
<1>3. \A c \in Clients \ {Conductor} : cl'[c] = cl[c] /\ ~InFlight(c) /\ ~InFlight(c)'
  <2>1. \A c \in Clients \ {Conductor} : cl'[c] = cl[c]
    BY <1>1, <1>2 DEF Ending, Going, Call
  <2>. QED BY <1>2, <2>1 DEF AloneInv, Alone, InFlight
<1>4. Alone' /\ OthersOffered'
  BY <1>3 DEF Alone, OthersOffered
<1>5. ASSUME UNCHANGED cl PROVE LifeInv' /\ Marked'
  BY <1>1, <1>2, <1>5, QuietLife DEF CluInv
<1>6. CASE Ending
  BY <1>1, <1>4, <1>5, <1>6 DEF Ending, AloneInv, Ahead, DeployPoints, Ends
<1>7. CASE Going
  <2>1. clu'.i \in {clu.i, clu.i + 1} /\ clu.i \in Nat /\ UNCHANGED manifest
    BY <1>1, <1>7 DEF Going, CluInv, Cluster
  <2>2. Ahead'
    BY <1>2, <2>1 DEF AloneInv, Ahead
  <2>3. LifeInv' /\ Marked'
    <3>1. CASE Call("publish", "pub.load", Primary, None, None, None, PortBase)
      <4>1. /\ cl'[Conductor].dir = Primary /\ cl'[Conductor].cfg = None
            /\ cl'[Conductor].op = "publish" /\ cl'[Conductor].at = "pub.load"
            /\ Primary \in Dirs
        BY <1>1, <3>1, TheMembers DEF Call, Primary
      <4>. QED BY <1>1, <1>2, <1>3, <4>1, CallLife DEF CluInv, DeployOps
    <3>2. ASSUME clu'.at = "deploy.member", clu'.i = clu.i + 1,
                 \/ Call("standby", "probe", Members[clu'.i], Primary,
                         Members[clu'.i], None, clu.port + 1)
                 \/ Call("subscriber", "port", Members[clu'.i], Primary,
                         Members[clu'.i], None, clu.port + 1)
          PROVE  LifeInv' /\ Marked'
      <4> DEFINE d == Members[clu'.i]
      <4>1. clu'.i \in 1 .. Len(Members) /\ clu'.i > clu.i
        BY <1>1, <2>1, <3>2 DEF CluInv, Reached
      <4>2. d \in Dirs /\ disk[d].cfg = None
        BY <1>2, <4>1, TheMembers DEF AloneInv, Ahead, Marked
      <4>3. /\ cl'[Conductor].dir = d /\ cl'[Conductor].cfg = None
            /\ cl'[Conductor].op \in {"standby", "subscriber"}
            /\ cl'[Conductor].at \in {"probe", "port"}
        BY <1>1, <3>2 DEF Call
      <4> HIDE DEF d
      <4>. QED BY <1>1, <1>2, <1>3, <4>2, <4>3, CallLife DEF CluInv
    <3>. QED BY <1>5, <1>7, <3>1, <3>2 DEF Going
  <2>. QED BY <1>1, <1>4, <2>2, <2>3 DEF AloneInv
<1>. QED BY <1>2, <1>6, <1>7

\* The directory of a failed member is stopped on and removed with no command
\* in flight.
LEMMA StubMoves ==
  ASSUME AloneInv, StubStop \/ StubRemove
  PROVE  /\ LifeInv' /\ Marked' /\ UNCHANGED <<cl, manifest>>
         /\ Victim.dir \in Dirs /\ Elsewhere(Victim.dir)
         /\ \A c \in Clients : ~InFlight(c)
         /\ disk'[Victim.dir].cfg \in {disk[Victim.dir].cfg, None}
         /\ srv'[Victim.dir] \in {srv[Victim.dir], None}
         /\ StubRemove => srv'[Victim.dir] = None
         /\ StubStop => /\ disk'[Victim.dir].made = disk[Victim.dir].made
                        /\ disk'[Victim.dir].cfg = disk[Victim.dir].cfg
         /\ clu.i \in 1 .. Len(clu.members)
<1> DEFINE d == Victim.dir
<1>1. /\ CluInv /\ LifeInv /\ Marked /\ disk \in [Dirs -> Files]
      /\ srv \in [Dirs -> Ports \cup {None}]
      /\ clu.at \in {"stub.stop", "stub.rm"} /\ ~InFlight(Conductor)
      /\ UNCHANGED <<cl, manifest>> /\ ClusterBusy
  BY DEF AloneInv, CluInv, Inv, TypeOK, HostTypeOK, StubStop, StubRemove, ClusterAt,
         Idling, ClusterBusy, Ends
<1>2. clu.i \in 1 .. Len(clu.members) /\ d \in Dirs
  BY <1>1, VictimTyped DEF CluInv, Reached
<1>3. \A c \in Clients : ~InFlight(c)
  BY <1>1 DEF AloneInv, Alone
<1>4. Inv'
  BY <1>1, ClusterDestroyInv DEF ClusterDestroyStep, CluInv
<1>5. ASSUME Sound(d) PROVE LifeInv' /\ Elsewhere(d)
  BY <1>1, <1>2, <1>3, <1>4, <1>5, OutsideStays DEF Sound
<1> HIDE DEF d
<1>6. CASE StubStop
  <2>1. CASE disk[d].pid = "live" /\ ServerDown(d, "none")
    <3>1. srv[d] # None
      BY <1>1, <1>2, <2>1 DEF LifeInv, Sane, Coherent
    <3>2. /\ Sound(d) /\ srv'[d] = None /\ disk'[d].cfg = disk[d].cfg
          /\ disk'[d].data = Settled(disk[d].data)
      BY <1>1, <1>2, <2>1, <3>1, DownSound
    <3>3. disk'[d].made = disk[d].made
      BY <1>1, <1>2, <2>1 DEF ServerDown, Files
    <3>4. Marked'
      BY <1>1, <1>2, <1>3, <1>5, <3>2, <3>3
         DEF Marked, Elsewhere, Settled, InFlight
    <3>. QED BY <1>1, <1>2, <1>3, <1>5, <1>6, <3>2, <3>3, <3>4 DEF d, StubRemove, StubStop,
                ClusterAt
  <2>2. CASE Quiet
    <3>1. UNCHANGED <<disk, srv, strays>>
      BY <2>2 DEF Quiet, host
    <3>2. LifeInv' /\ Marked' /\ Elsewhere(d)
      BY <1>1, <1>4, <3>1, QuietLife DEF Elsewhere
    <3>. QED BY <1>1, <1>2, <1>3, <1>6, <3>1, <3>2 DEF d, StubRemove, StubStop,
                ClusterAt
  <2>. QED BY <1>6, <2>1, <2>2 DEF StubStop, d
<1>7. CASE StubRemove
  <2>1. PICK f \in Files : /\ Removed(d, f) /\ f.pid = "none" /\ f.cfg = None
                           /\ f.data # "absent" => f.made
    <3>1. /\ NoFiles \in Files /\ NoFiles.pid = "none" /\ NoFiles.cfg = None
          /\ NoFiles.data = "absent"
      BY DEF NoFiles, Files, DataStates, PidStates
    <3> DEFINE torn == [made |-> TRUE, data |-> "torn", pid |-> "none", cfg |-> None]
    <3>2. torn \in Files /\ torn.pid = "none" /\ torn.cfg = None /\ torn.made
      BY DEF Files, DataStates, PidStates
    <3>3. Removed(d, NoFiles) \/ Removed(d, torn)
      BY <1>7 DEF StubRemove, d
    <3> HIDE DEF torn
    <3>. QED BY <3>1, <3>2, <3>3
  <2>2. Sound(d)
    BY <1>1, <1>2, <2>1, RemoveSound
  <2>3. disk'[d] = f /\ srv'[d] = None
    BY <1>1, <1>2, <2>1 DEF Removed
  <2>4. Marked'
    BY <1>1, <1>2, <1>3, <1>5, <2>1, <2>2, <2>3 DEF Marked, Elsewhere, InFlight
  <2>. QED BY <1>1, <1>2, <1>3, <1>5, <1>7, <2>1, <2>2, <2>3, <2>4
       DEF d, StubRemove, StubStop, ClusterAt
<1>. QED BY <1>6, <1>7

\* What ends a cluster command, or takes it on to the next point of a destroy,
\* leaves nothing to be ahead of.
LEMMA NotDeploying ==
  ASSUME CluInv', LifeInv', Marked', clu'.at \notin DeployPoints,
         ClusterBusy' => ClusterBusy, AloneInv,
         \A c \in Clients \ {Conductor} : cl'[c] = cl[c]
  PROVE  AloneInv'
BY DEF AloneInv, Alone, Ahead, OthersOffered, InFlight

LEMMA ClusterDestroyAlone ==
  ASSUME AloneInv, ClusterDestroyStep
  PROVE  AloneInv'
<1>1. /\ CluInv' /\ CluInv /\ LifeInv /\ Marked /\ cl \in [Clients -> Client]
      /\ Conductor \in Clients /\ clu \in Cluster
  BY ClusterDestroyInv, TheMembers DEF AloneInv, CluInv, Inv, TypeOK
<1>2. /\ clu.at \in DestroyPoints /\ ~InFlight(Conductor) /\ ClusterBusy
      /\ \A c \in Clients \ {Conductor} : cl'[c] = cl[c]
  BY <1>1 DEF ClusterDestroyStep, DestroyMember, MemberDestroyed, StubStop, StubRemove,
     FinishDestroy, ClusterAt, DestroyPoints, ClusterBusy, Ends, Idling, Call
<1>3. clu'.at \notin DeployPoints
  BY <1>1, NoClusterTyped
     DEF ClusterDestroyStep, DestroyMember, MemberDestroyed, StubStop, StubRemove,
     FinishDestroy, NextMember, ClusterReturn, NoCluster, DeployPoints, Cluster
<1>4. CASE StubStop \/ StubRemove
  BY <1>1, <1>2, <1>3, <1>4, StubMoves, NotDeploying
<1>5. CASE UNCHANGED <<disk, srv, strays>> /\ UNCHANGED cl
  BY <1>1, <1>2, <1>3, <1>5, QuietLife, NotDeploying DEF CluInv
<1>6. CASE MemberDestroyed \/ FinishDestroy
  BY <1>5, <1>6 DEF MemberDestroyed, FinishDestroy, Quiet, host, Idling
<1>7. CASE DestroyMember
  <2> DEFINE d == Victim.dir
             src == SourceOf(d)
  <2>1. ASSUME Call("destroy", "destroy.load", d, src, None, None, PortBase)
        PROVE  AloneInv'
    <3>1. clu.i \in 1 .. Len(clu.members)
      BY <1>1, <1>7 DEF DestroyMember, ClusterAt, CluInv, Reached, Cluster
    <3>2. d \in Dirs
      BY <1>1, <3>1, VictimTyped
    <3> HIDE DEF d, src
    <3>3. /\ cl'[Conductor].dir = d /\ cl'[Conductor].cfg = None
          /\ cl'[Conductor].op = "destroy" /\ cl'[Conductor].at = "destroy.load"
      BY <1>1, <2>1 DEF Call
    <3>4. \A c \in Clients \ {Conductor} : ~InFlight(c)'
      BY <1>2 DEF AloneInv, Alone, InFlight
    <3>5. UNCHANGED <<disk, srv, strays>>
      BY <1>7 DEF DestroyMember, Quiet, host
    <3>6. LifeInv' /\ Marked'
      BY <1>1, <3>2, <3>3, <3>4, <3>5, CallLife DEF CluInv, DeployOps
    <3>. QED BY <1>1, <1>2, <1>3, <3>6, NotDeploying
  <2>2. CASE UNCHANGED cl
    BY <1>5, <1>7, <2>2 DEF DestroyMember, Quiet, host
  <2>. QED BY <1>7, <2>1, <2>2 DEF DestroyMember
<1>. QED BY <1>4, <1>6, <1>7 DEF ClusterDestroyStep

LEMMA BeginClusterAlone ==
  ASSUME Disciplined, AloneInv, BeginCluster
  PROVE  AloneInv'
<1>1. /\ CluInv' /\ CluInv /\ LifeInv /\ Marked /\ cl \in [Clients -> Client]
      /\ Conductor \in Clients /\ UNCHANGED <<disk, srv, strays, manifest>>
      /\ \A c \in Clients : ~InFlight(c)
  BY BeginClusterInv, TheMembers
     DEF AloneInv, CluInv, Inv, TypeOK, BeginCluster, BeginClusterDeploy,
         BeginClusterDestroy, Quiet, host
<1>2. CASE BeginClusterDeploy
  <2>1. PICK mode \in Modes, sql \in BOOLEAN, port \in Asked \cup {None} :
          /\ clu' = [NoCluster EXCEPT !.at = "deploy.member", !.mode = mode,
                                      !.sql = sql, !.i = 1]
          /\ Call("deploy", "port", Primary, None, None, port, PortBase)
    BY <1>2 DEF BeginClusterDeploy
  <2>2. /\ cl'[Conductor].dir = Primary /\ cl'[Conductor].cfg = None
        /\ cl'[Conductor].op = "deploy" /\ cl'[Conductor].at = "port"
        /\ Primary \in Dirs
        /\ \A c \in Clients \ {Conductor} : cl'[c] = cl[c] /\ ~InFlight(c)'
    BY <1>1, <2>1, TheMembers DEF Call, Primary, InFlight
  <2>3. manifest = None /\ \A j \in 1 .. Len(Members) : ~disk[Members[j]].made
    BY <1>2, TheMembers DEF BeginClusterDeploy, ClusterDirAvailable
  <2>4. disk[Primary].cfg = None
    BY <2>2, <2>3, TheMembers DEF AloneInv, Marked, Primary
  <2>5. LifeInv' /\ Marked'
    BY <1>1, <2>2, <2>4, CallLife DEF CluInv
  <2>. QED BY <1>1, <2>2, <2>3, <2>5 DEF AloneInv, Alone, OthersOffered, Ahead
<1>3. CASE BeginClusterDestroy
  <2>1. UNCHANGED cl /\ clu'.at = "destroy.next"
    BY <1>3 DEF BeginClusterDestroy, NoCluster
  <2>2. LifeInv' /\ Marked'
    BY <1>1, <2>1, QuietLife DEF CluInv
  <2>. QED BY <1>1, <2>1, <2>2
       DEF AloneInv, Alone, OthersOffered, Ahead, InFlight, DeployPoints
<1>. QED BY <1>2, <1>3 DEF BeginCluster

LEMMA KillClusterAlone ==
  ASSUME AloneInv, KillCluster
  PROVE  AloneInv'
<1>1. /\ CluInv' /\ CluInv /\ LifeInv /\ Marked /\ cl \in [Clients -> Client]
      /\ Conductor \in Clients /\ UNCHANGED <<disk, srv, strays>>
  BY KillClusterInv, TheMembers
     DEF AloneInv, CluInv, Inv, TypeOK, KillCluster, Quiet, host
<1>2. /\ cl' = [cl EXCEPT ![Conductor] = [Idle EXCEPT !.at = "fail"]]
      /\ clu'.at = "fail" /\ ClusterBusy
  BY DEF KillCluster, Return, ClusterReturn, NoCluster
<1>3. ~InFlight(Conductor)' /\ \A c \in Clients \ {Conductor} : cl'[c] = cl[c]
  BY <1>1, <1>2 DEF InFlight, Ends, Idle
<1>4. LifeInv' /\ Marked'
  BY <1>1, <1>3, QuietLife DEF CluInv
<1>. QED BY <1>1, <1>2, <1>3, <1>4, NotDeploying DEF DeployPoints

LEMMA OtherStepAlone ==
  ASSUME Disciplined, AloneInv, OtherStep
  PROVE  AloneInv' /\ ~ClusterBusy
<1>1. /\ CluInv' /\ CluInv /\ LifeInv /\ Marked /\ cl \in [Clients -> Client]
      /\ UNCHANGED <<manifest, clu>>
  BY OtherStepInv DEF AloneInv, CluInv, Inv, TypeOK, OtherStep
<1>2. PICK c \in Clients \ {Conductor} :
        (~ClusterBusy /\ BeginCall(c)) \/ ClientStep(c) \/ KillClient(c)
  BY DEF OtherStep
<1>3. ~ClusterBusy
  BY <1>2, StepIsInFlight DEF AloneInv, Alone, KillClient
<1>4. \A b \in Clients \ {c} : cl'[b] = cl[b]
  BY <1>1, <1>2, OneOther
<1>5. InFlight(c)' => cl'[c].op \in Ops
  <2>1. CASE BeginCall(c)
    BY <1>1, <2>1 DEF BeginCall, BeginDeploy, BeginLifecycle, BeginDestroy,
       BeginPromote, BeginPublish, BeginSubscribe, BeginSet, Begin
  <2>2. CASE ClientStep(c)
    BY <1>1, <2>2, OneMoves, StepIsInFlight DEF AloneInv, OthersOffered
  <2>3. CASE KillClient(c)
    BY <1>1, <2>3 DEF KillClient, Return, Idle, InFlight, Ends
  <2>. QED BY <1>2, <2>1, <2>2, <2>3
<1>6. OthersOffered'
  BY <1>4, <1>5 DEF AloneInv, OthersOffered, InFlight
<1>7. LifeInv' /\ Marked'
  <2>1. CASE BeginCall(c)
    <3>1. LifeInv' /\ UNCHANGED disk
      BY <2>1, BeginLife DEF AloneInv, BeginCall, BeginDeploy, BeginLifecycle,
         BeginDestroy, BeginPromote, BeginPublish, BeginSubscribe, BeginSet, Begin,
         Quiet, host
    <3>2. cl'[c].at # "base"
      BY <1>1, <2>1 DEF BeginCall, BeginDeploy, BeginLifecycle, BeginDestroy,
         BeginPromote, BeginPublish, BeginSubscribe, BeginSet, Begin
    <3>. QED BY <1>1, <1>4, <3>1, <3>2 DEF Marked, InFlight
  <2>2. CASE ClientStep(c)
    <3>1. InFlight(c) /\ cl[c].op \in Ops
      BY <2>2, StepIsInFlight DEF AloneInv, OthersOffered
    <3>. QED BY <1>1, <2>2, <3>1, ClientStepLife, StepMarked
  <2>3. CASE KillClient(c)
    <3>1. LifeInv'
      BY <1>1, <2>3, KillClientLife
    <3>2. UNCHANGED disk /\ ~InFlight(c)'
      BY <1>1, <2>3 DEF KillClient, Return, Idle, InFlight, Ends, Quiet, host
    <3>. QED BY <1>1, <1>4, <3>1, <3>2 DEF Marked, InFlight
  <2>. QED BY <1>2, <2>1, <2>2, <2>3
<1>8. Alone' /\ Ahead'
  BY <1>1, <1>3 DEF Alone, Ahead, ClusterBusy, DeployPoints, Ends
<1>. QED BY <1>1, <1>3, <1>6, <1>7, <1>8 DEF AloneInv

\* What happens on the machine without any command makes no directory, and takes
\* no config.
LEMMA MachineFiles ==
  ASSUME HostTypeOK, Environment
  PROVE  \A d \in Dirs : /\ disk'[d].made = disk[d].made /\ disk'[d].cfg = disk[d].cfg
                         /\ disk'[d].data # "absent" => disk[d].data # "absent"
                         /\ srv'[d] \in {srv[d], None}
<1>1. disk \in [Dirs -> Files] /\ srv \in [Dirs -> Ports \cup {None}]
  BY DEF HostTypeOK
<1>2. CASE Reboot
  BY <1>1, <1>2 DEF Reboot, Files, Settled
<1>3. CASE Machine
  <2>1. ASSUME NEW e \in Dirs, NEW pid, ServerDown(e, pid)
        PROVE  \A d \in Dirs :
                 /\ disk'[d].made = disk[d].made /\ disk'[d].cfg = disk[d].cfg
                 /\ disk'[d].data # "absent" => disk[d].data # "absent"
                 /\ srv'[d] \in {srv[d], None}
    <3>1. /\ disk' = [disk EXCEPT ![e] = [disk[e] EXCEPT !.pid = pid,
                                                       !.data = Settled(disk[e].data)]]
          /\ srv' = [srv EXCEPT ![e] = None]
      BY <2>1 DEF ServerDown
    <3>2. disk[e].data = "absent" => Settled(disk[e].data) = "absent"
      BY DEF Settled
    <3>. QED BY <1>1, <3>1, <3>2 DEF Files
  <2>2. CASE \E e \in Dirs : KillServer(e) \/ LocklessExit(e)
    BY <2>1, <2>2 DEF KillServer, LocklessExit
  <2>3. CASE \E e \in Dirs : FinishPromotion(e) \/ ReusePid(e)
    BY <1>1, <2>3 DEF FinishPromotion, ReusePid, Files
  <2>4. CASE \E p \in Ports : StrayExit(p)
    BY <2>4 DEF StrayExit
  <2>. QED BY <1>3, <2>2, <2>3, <2>4 DEF Machine
<1>. QED BY <1>2, <1>3 DEF Environment

LEMMA EnvironmentAlone ==
  ASSUME AloneInv, ClusterEnvironment
  PROVE  AloneInv'
<1>1. /\ CluInv' /\ CluInv /\ LifeInv /\ Marked /\ HostTypeOK
      /\ UNCHANGED manifest /\ Environment
  BY ClusterEnvironmentInv
     DEF AloneInv, CluInv, Inv, TypeOK, ClusterEnvironment, Environment
<1>2. LifeInv'
  BY <1>1, MachineLife, RebootLife DEF ClusterEnvironment
<1>3. \A d \in Dirs : /\ disk'[d].made = disk[d].made /\ disk'[d].cfg = disk[d].cfg
                      /\ disk'[d].data # "absent" => disk[d].data # "absent"
  BY <1>1, MachineFiles
<1>4. CASE UNCHANGED <<cl, clu>>
  <2>1. Marked'
    BY <1>1, <1>3, <1>4 DEF Marked, InFlight, CluInv, Inv, CallsWellFormed
  <2>2. Ahead'
    BY <1>1, <1>3, <1>4, TheMembers DEF AloneInv, Ahead
  <2>. QED BY <1>1, <1>2, <1>4, <2>1, <2>2
       DEF AloneInv, Alone, OthersOffered, ClusterBusy, InFlight
<1>5. CASE Reboot /\ clu' = IF ClusterBusy THEN [NoCluster EXCEPT !.at = "fail"] ELSE clu
  <2>1. clu'.at \in Ends /\ \A c \in Clients : ~InFlight(c)'
    BY <1>5 DEF NoCluster, ClusterBusy, Ends, Reboot, InFlight, Idle
  <2>2. Marked'
    BY <1>1, <1>3, <2>1 DEF Marked
  <2>. QED BY <1>1, <1>2, <2>1, <2>2
       DEF AloneInv, Alone, OthersOffered, Ahead, ClusterBusy, DeployPoints, Ends
<1>. QED BY <1>4, <1>5 DEF ClusterEnvironment, Machine

LEMMA AloneStep ==
  ASSUME Disciplined, AloneInv, [ClusterNext]_clusterVars
  PROVE  AloneInv'
<1>1. CASE UNCHANGED clusterVars
  <2>1. CluInv'
    BY <1>1, ClusterStepInv DEF AloneInv
  <2>2. UNCHANGED <<disk, srv, strays, cl, clu, manifest>>
    BY <1>1 DEF clusterVars, vars
  <2>3. LifeInv' /\ Marked'
    BY <2>1, <2>2, QuietLife DEF CluInv, AloneInv
  <2>. QED BY <2>1, <2>2, <2>3
       DEF AloneInv, Alone, OthersOffered, Ahead, ClusterBusy, InFlight
<1>. QED BY <1>1, MemberStepAlone, ClusterDeployAlone, ClusterDestroyAlone,
            BeginClusterAlone, KillClusterAlone, OtherStepAlone, EnvironmentAlone
            DEF ClusterNext, ClusterStep

LEMMA AloneInit == ClusterInit => AloneInv
<1>1. SUFFICES ASSUME ClusterInit PROVE AloneInv
  OBVIOUS
<1>2. CluInv /\ LifeInv
  BY <1>1, ClusterInitInv, InitLife DEF ClusterInit
<1>3. clu.at = "ok" /\ (\A c \in Clients : ~InFlight(c))
      /\ \A d \in Dirs : disk[d] = NoFiles
  BY <1>1 DEF ClusterInit, NoCluster, Init, HostInit, Idle, InFlight, Ends
<1>. QED BY <1>2, <1>3 DEF AloneInv, Alone, OthersOffered, Marked, Ahead, ClusterBusy,
        Ends, DeployPoints, NoFiles

LEMMA AlwaysAlone == ASSUME Disciplined PROVE ClusterSpec => []AloneInv
<1>1. AloneInv /\ [ClusterNext]_clusterVars => AloneInv'
  BY AloneStep
<1>. QED BY <1>1, AloneInit, PTL DEF ClusterSpec
=============================================================================
