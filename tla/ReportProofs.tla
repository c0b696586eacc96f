---------------------------- MODULE ReportProofs ----------------------------
(***************************************************************************)
(* Reports beside reports and sandbox commands, for any number of both.    *)
(*                                                                         *)
(* A report takes the steps of a deploy and of a destroy, which keep what  *)
(* SandboxProofs and LifecycleProofs prove of them; what is new is that    *)
(* it enters and leaves that code, that a signal cuts it short, and that   *)
(* in between the throwaway is nobody's while no command is in flight.     *)
(***************************************************************************)
EXTENDS LifecycleProofs, ReportProps

-----------------------------------------------------------------------------
\* Entering the code of a command, and having it cut short

EnterPoint(op) == IF op = "deploy" THEN "port" ELSE "destroy.load"

LEMMA EnterInv ==
  ASSUME Inv, NEW c \in Clients, NEW op \in {"deploy", "destroy"}, NEW d \in Dirs,
         Enter(c, op, EnterPoint(op), d), Quiet, calls' \in Nat
  PROVE  Inv'
<1> DEFINE k == [op |-> op, at |-> EnterPoint(op), dir |-> d, src |-> None,
                 name |-> None, cfg |-> None, port |-> None, peer |-> None,
                 base |-> PortBase]
<1>1. k \in Client
  BY BoundsAssumption DEF Client, Points, EnterPoint, AllOps, DeployOps
<1>2. k.dir \in Dirs /\ OnTrack(k.op, k.at) /\ Knows(k)
  BY DEF OnTrack, Knows, EnterPoint
<1>3. cl' = [cl EXCEPT ![c] = k]
  BY DEF Enter
<1>4. Moved
  <2> HIDE DEF k
  <2>. QED BY <1>1, <1>2, <1>3, Move DEF Moved
<1>5. HostTypeOK'
  BY QuietTyped DEF Inv, TypeOK
<1>. QED BY <1>4, <1>5, Assemble

\* What a program killed with its report may have done.
LEMMA CutStepInv ==
  ASSUME Inv, NEW c \in Clients, CutStep(c)
  PROVE  Inv'
<1> DEFINE d == cl[c].dir
<1>1. ASSUME NEW point \in {"init", "launch", "destroy.stop"}, At(c, point)
      PROVE  /\ HostTypeOK /\ calls' \in Nat /\ InFlight(c) /\ cl[c].at = point
             /\ OnTrack(cl[c].op, point) /\ Knows(cl[c]) /\ d \in Dirs
             /\ cl[c] \in Client
  BY <1>1, Standing DEF Points
<1>2. CASE At(c, "init") /\ Return(c, "fail")
           /\ (Quiet \/ /\ disk' = [disk EXCEPT ![d].made = TRUE, ![d].data = "partial"]
                        /\ UNCHANGED <<srv, db, strays>>)
  <2>1. CASE Quiet
    BY <1>1, <1>2, <2>1, QuietTyped, ReturnInv DEF Ends
  <2>2. CASE /\ disk' = [disk EXCEPT ![d].made = TRUE, ![d].data = "partial"]
             /\ UNCHANGED <<srv, db, strays>>
    <3>1. HostTypeOK /\ d \in Dirs
      BY <1>1, <1>2
    <3> HIDE DEF d
    <3>2. HostTypeOK'
      BY <2>2, <3>1 DEF HostTypeOK, Files, DataStates
    <3>. QED BY <1>1, <1>2, <3>2, ReturnInv DEF Ends
  <2>. QED BY <1>2, <2>1, <2>2
<1>3. CASE At(c, "launch") /\ Return(c, "fail") /\ (Quiet \/ ServerUp(d, cl[c].port))
  <2>1. cl[c].port \in Ports \cup {None}
    BY <1>1, <1>3 DEF Client
  <2>2. HostTypeOK'
    BY <1>1, <1>3, <2>1, QuietTyped, ServerUpTyped
  <2>. QED BY <1>1, <1>3, <2>2, ReturnInv DEF Ends
<1>4. CASE At(c, "destroy.stop") /\ Go(c, "destroy.rm")
           /\ (Quiet \/ ServerDown(d, "none"))
  <2>1. HostTypeOK'
    BY <1>1, <1>4, QuietTyped, ServerDownTyped DEF PidStates
  <2>2. OnTrack(cl[c].op, "destroy.rm") /\ "destroy.rm" \in Points
    BY <1>1, <1>4 DEF OnTrack, Points
  <2>3. Knows([cl[c] EXCEPT !.at = "destroy.rm"])
    BY <1>1, <1>4 DEF Knows, Client
  <2>. QED BY <1>1, <1>4, <2>1, <2>2, <2>3, GoInv
<1>. QED BY <1>2, <1>3, <1>4, ClientStepInv DEF CutStep

-----------------------------------------------------------------------------
\* Types

RepInv ==
  /\ Inv
  /\ rep \in [Clients -> Report]
  /\ loaded \in [Dirs -> Clients \cup {None}]
  /\ page \in [Clients -> Pages]
  /\ \A c \in Clients : Reporting(c) => rep[c].dir \in Dirs

\* Commands and machine go on while no report moves.
LEMMA ReportsStand ==
  ASSUME RepInv, Inv', UNCHANGED rep,
         loaded' \in [Dirs -> Clients \cup {None}], page' \in [Clients -> Pages]
  PROVE  RepInv'
BY DEF RepInv, Reporting

LEMMA KeptTyped ==
  ASSUME loaded \in [Dirs -> Clients \cup {None}], Kept
  PROVE  loaded' \in [Dirs -> Clients \cup {None}]
BY DEF Kept

\* One report moves.
LEMMA ReportMoves ==
  ASSUME RepInv, Inv', NEW c \in Clients, NEW k \in Report,
         k.at \notin Ends => k.dir \in Dirs, rep' = [rep EXCEPT ![c] = k],
         loaded' \in [Dirs -> Clients \cup {None}], page' \in [Clients -> Pages]
  PROVE  RepInv'
BY DEF RepInv, Reporting

\* What a report has between two calls.
LEMMA ReportStands ==
  ASSUME RepInv, NEW c \in Clients, NEW point \in ReportPoints, rep[c].at = point
  PROVE  /\ Reporting(c) /\ rep[c] \in Report /\ rep[c].dir \in Dirs
         /\ rep[c].port \in Ports \cup {None} /\ rep[c].html \in Pages
         /\ Inv /\ HostTypeOK /\ calls \in Nat /\ rep \in [Clients -> Report]
BY DEF RepInv, Reporting, ReportPoints, Ends, Report, Inv, TypeOK

LEMMA QuietInv ==
  ASSUME Inv, Quiet, UNCHANGED <<cl, calls>>
  PROVE  Inv'
BY QuietTyped, StandStill DEF Inv, TypeOK

LEMMA LeftoverInv ==
  ASSUME RepInv, NEW c \in Clients, NEW point \in {"load", "render", "write"},
         rep[c].at = point, Leftover(c), UNCHANGED <<loaded, page>>
  PROVE  RepInv'
<1>1. /\ rep[c] \in Report /\ rep[c].dir \in Dirs /\ Inv /\ calls \in Nat
      /\ loaded' \in [Dirs -> Clients \cup {None}] /\ page' \in [Clients -> Pages]
  BY ReportStands DEF ReportPoints, RepInv
<1>2. CASE /\ rep' = [rep EXCEPT ![c].at = "fail", ![c].told = TRUE]
           /\ Quiet /\ UNCHANGED <<cl, calls>>
  <2> DEFINE k == [rep[c] EXCEPT !.at = "fail", !.told = TRUE]
  <2>1. k \in Report /\ k.dir = rep[c].dir
    BY <1>1 DEF Report, Ends
  <2>2. rep' = [rep EXCEPT ![c] = k]
    BY <1>2
  <2> HIDE DEF k
  <2>. QED BY <1>1, <1>2, <2>1, <2>2, QuietInv, ReportMoves
<1>3. CASE /\ rep' = [rep EXCEPT ![c].at = "undo"]
           /\ Enter(c, "destroy", "destroy.load", rep[c].dir)
           /\ Quiet /\ UNCHANGED calls
  <2> DEFINE k == [rep[c] EXCEPT !.at = "undo"]
  <2>1. k \in Report /\ k.dir = rep[c].dir
    BY <1>1 DEF Report, ReportPoints
  <2>2. rep' = [rep EXCEPT ![c] = k]
    BY <1>3
  <2> HIDE DEF k
  <2>3. Inv'
    BY <1>1, <1>3, EnterInv DEF EnterPoint
  <2>. QED BY <1>1, <2>1, <2>2, <2>3, ReportMoves
<1>. QED BY <1>2, <1>3 DEF Leftover

LEMMA CalledStepInv ==
  ASSUME RepInv, NEW c \in Clients, CalledStep(c)
  PROVE  RepInv'
<1>1. /\ Inv' /\ loaded' \in [Dirs -> Clients \cup {None}] /\ page' \in [Clients -> Pages]
      /\ rep[c] \in Report /\ rep[c].dir \in Dirs
  BY ClientStepInv, CutStepInv, KeptTyped DEF CalledStep, RepInv
<1>2. CASE UNCHANGED rep
  BY <1>1, <1>2, ReportsStand
<1>3. CASE rep' = [rep EXCEPT ![c].port = cl'[c].port]
  <2> DEFINE k == [rep[c] EXCEPT !.port = cl'[c].port]
  <2>1. cl'[c].port \in Ports \cup {None}
    BY <1>1 DEF Inv, TypeOK, Client
  <2>2. k \in Report /\ k.dir = rep[c].dir
    BY <1>1, <2>1 DEF Report
  <2>3. rep' = [rep EXCEPT ![c] = k]
    BY <1>3
  <2> HIDE DEF k
  <2>. QED BY <1>1, <2>2, <2>3, ReportMoves
<1>. QED BY <1>2, <1>3 DEF CalledStep

LEMMA BetweenCallsInv ==
  ASSUME RepInv, NEW c \in Clients,
         Deployed(c) \/ Load(c) \/ Render(c) \/ Write(c) \/ Destroyed(c)
  PROVE  RepInv'
<1>1. /\ loaded \in [Dirs -> Clients \cup {None}] /\ page \in [Clients -> Pages]
      /\ rep \in [Clients -> Report] /\ Inv
  BY DEF RepInv
<1>2. ASSUME NEW point \in ReportPoints, NEW next \in ReportPoints \cup Ends,
             rep[c].at = point, ReportGo(c, next),
             loaded' \in [Dirs -> Clients \cup {None}], page' \in [Clients -> Pages]
      PROVE  RepInv'
  <2> DEFINE k == [rep[c] EXCEPT !.at = next]
  <2>1. k \in Report /\ k.dir = rep[c].dir /\ rep[c].dir \in Dirs
    BY <1>2, ReportStands DEF Report
  <2>2. rep' = [rep EXCEPT ![c] = k]
    BY <1>2 DEF ReportGo
  <2> HIDE DEF k
  <2>. QED BY <1>1, <1>2, <2>1, <2>2, QuietInv, ReportMoves DEF ReportGo
<1>3. CASE Deployed(c)
  BY <1>1, <1>2, <1>3 DEF Deployed, ReportAt, ReportPoints, Ends
<1>4. CASE Load(c)
  <2>1. rep[c].at = "load" /\ UNCHANGED page
    BY <1>4 DEF Load, ReportAt
  <2>2. ASSUME NEW r, loaded' = [loaded EXCEPT ![r] = c], ReportGo(c, "render")
        PROVE  RepInv'
    <3>1. loaded' \in [Dirs -> Clients \cup {None}]
      BY <1>1, <2>2
    <3>. QED BY <1>1, <1>2, <2>1, <2>2, <3>1 DEF ReportPoints
  <2>3. CASE UNCHANGED loaded /\ Leftover(c)
    BY <2>1, <2>3, LeftoverInv
  <2>. QED BY <1>4, <2>2, <2>3 DEF Load
<1>5. CASE Render(c)
  <2>1. rep[c].at = "render" /\ UNCHANGED <<loaded, page>>
    BY <1>5 DEF Render, ReportAt
  <2>2. ASSUME NEW r \in Answering(c),
               rep' = [rep EXCEPT ![c].at = "write", ![c].html = Shown(r)],
               Quiet, UNCHANGED <<cl, calls>>
        PROVE  RepInv'
    <3> DEFINE k == [rep[c] EXCEPT !.at = "write", !.html = Shown(r)]
    <3>1. Shown(r) \in Pages
      BY <1>1 DEF Answering, Serving, Shown, Pages
    <3>2. k \in Report /\ k.dir = rep[c].dir /\ rep[c].dir \in Dirs
      BY <2>1, <3>1, ReportStands DEF Report, ReportPoints
    <3>3. rep' = [rep EXCEPT ![c] = k]
      BY <2>2
    <3> HIDE DEF k
    <3>. QED BY <1>1, <2>1, <2>2, <3>2, <3>3, QuietInv, ReportMoves
  <2>3. CASE Leftover(c)
    BY <2>1, <2>3, LeftoverInv
  <2>. QED BY <1>5, <2>2, <2>3 DEF Render
<1>6. CASE Write(c)
  <2>1. rep[c].at = "write" /\ UNCHANGED loaded
    BY <1>6 DEF Write, ReportAt
  <2>2. /\ rep[c] \in Report /\ rep[c].dir \in Dirs /\ rep[c].html \in Pages
        /\ calls \in Nat
    BY <2>1, ReportStands DEF ReportPoints
  <2>3. CASE /\ page' = [page EXCEPT ![c] = rep[c].html]
             /\ rep' = [rep EXCEPT ![c].at = "clean"]
             /\ Enter(c, "destroy", "destroy.load", rep[c].dir)
             /\ Quiet /\ UNCHANGED calls
    <3> DEFINE k == [rep[c] EXCEPT !.at = "clean"]
    <3>1. k \in Report /\ k.dir = rep[c].dir
      BY <2>2 DEF Report, ReportPoints
    <3>2. rep' = [rep EXCEPT ![c] = k]
      BY <2>3
    <3> HIDE DEF k
    <3>3. Inv'
      BY <1>1, <2>2, <2>3, EnterInv DEF EnterPoint
    <3>4. page' \in [Clients -> Pages] /\ loaded' \in [Dirs -> Clients \cup {None}]
      BY <1>1, <2>1, <2>2, <2>3
    <3>. QED BY <2>2, <3>1, <3>2, <3>3, <3>4, ReportMoves
  <2>4. CASE UNCHANGED page /\ Leftover(c)
    BY <2>1, <2>4, LeftoverInv
  <2>. QED BY <1>6, <2>3, <2>4 DEF Write
<1>7. CASE Destroyed(c)
  <2>1. /\ rep[c].at \in {"undo", "clean"} /\ Quiet /\ UNCHANGED <<cl, calls, loaded, page>>
        /\ \E at \in Ends, told \in BOOLEAN :
             rep' = [rep EXCEPT ![c].at = at, ![c].told = told]
    BY <1>7 DEF Destroyed, Ends
  <2>2. PICK at \in Ends, told \in BOOLEAN :
          rep' = [rep EXCEPT ![c].at = at, ![c].told = told]
    BY <2>1
  <2> DEFINE k == [rep[c] EXCEPT !.at = at, !.told = told]
  <2>3. k \in Report /\ k.at = at
    BY <2>1, ReportStands DEF Report, ReportPoints
  <2>4. rep' = [rep EXCEPT ![c] = k]
    BY <2>2
  <2> HIDE DEF k
  <2>. QED BY <1>1, <2>1, <2>3, <2>4, QuietInv, ReportMoves
<1>. QED BY <1>3, <1>4, <1>5, <1>6, <1>7

LEMMA BeginReportInv ==
  ASSUME RepInv, NEW c \in Clients, BeginReport(c)
  PROVE  RepInv'
<1>1. PICK d \in Dirs, keep \in BOOLEAN :
        /\ rep' = [rep EXCEPT ![c] = [NoReport EXCEPT !.at = "deploy", !.dir = d,
                                                      !.keep = keep]]
        /\ Enter(c, "deploy", "port", d)
  BY DEF BeginReport
<1> DEFINE k == [NoReport EXCEPT !.at = "deploy", !.dir = d, !.keep = keep]
<1>2. k \in Report /\ k.dir = d
  BY DEF NoReport, Report, ReportPoints, Pages
<1>3. Inv /\ Quiet /\ calls' \in Nat /\ UNCHANGED <<loaded, page>>
  BY DEF BeginReport, RepInv, Inv, TypeOK
<1>4. Inv'
  BY <1>1, <1>3, EnterInv DEF EnterPoint
<1>5. rep' = [rep EXCEPT ![c] = k]
  BY <1>1
<1> HIDE DEF k
<1>. QED BY <1>2, <1>3, <1>4, <1>5, ReportMoves DEF RepInv

LEMMA KillReportInv ==
  ASSUME RepInv, NEW c \in Clients, KillReport(c)
  PROVE  RepInv'
<1> DEFINE k == [NoReport EXCEPT !.at = "fail"]
<1>1. k \in Report /\ k.at \in Ends
  BY DEF NoReport, Report, Ends, Pages
<1>2. /\ rep' = [rep EXCEPT ![c] = k] /\ Return(c, "fail") /\ Quiet
      /\ UNCHANGED <<calls, loaded, page>>
  BY DEF KillReport
<1> HIDE DEF k
<1>3. Inv'
  BY <1>2, ReturnInv, QuietTyped DEF RepInv, Inv, TypeOK, Ends
<1>. QED BY <1>1, <1>2, <1>3, ReportMoves DEF RepInv

LEMMA ReportStepInv ==
  ASSUME RepInv, [ReportNext]_reportVars
  PROVE  RepInv'
<1>1. Inv /\ loaded \in [Dirs -> Clients \cup {None}] /\ page \in [Clients -> Pages]
  BY DEF RepInv
<1>2. CASE UNCHANGED reportVars
  <2>1. Inv'
    BY <1>1, <1>2, StepInv DEF reportVars
  <2>. QED BY <1>1, <1>2, <2>1, ReportsStand DEF reportVars
<1>3. ASSUME NEW c \in Clients, ReportStep(c) PROVE RepInv'
  BY <1>3, CalledStepInv, BetweenCallsInv DEF ReportStep
<1>4. ASSUME NEW c \in Clients, Interrupt(c) PROVE RepInv'
  <2> DEFINE k == [rep[c] EXCEPT !.cut = TRUE]
  <2>1. k \in Report /\ k.dir = rep[c].dir /\ k.at = rep[c].at
    BY DEF RepInv, Report
  <2>2. rep' = [rep EXCEPT ![c] = k] /\ UNCHANGED <<vars, loaded, page>> /\ Reporting(c)
    BY <1>4 DEF Interrupt
  <2> HIDE DEF k
  <2>3. Inv'
    BY <1>1, <2>2, StepInv
  <2>. QED BY <1>1, <2>1, <2>2, <2>3, ReportMoves DEF RepInv
<1>5. ASSUME NEW c \in Clients, OrdinaryStep(c) PROVE RepInv'
  <2>1. Inv'
    BY <1>1, <1>5, BeginCallInv, ClientStepInv, KillClientInv DEF OrdinaryStep
  <2>. QED BY <1>1, <1>5, <2>1, KeptTyped, ReportsStand DEF OrdinaryStep
<1>6. CASE ReportEnvironment
  <2>1. Inv' /\ loaded' \in [Dirs -> Clients \cup {None}] /\ UNCHANGED page
    BY <1>1, <1>6, EnvironmentInv, KeptTyped DEF ReportEnvironment, Environment
  <2>2. CASE UNCHANGED rep
    BY <1>1, <2>1, <2>2, ReportsStand
  <2>3. CASE rep' = [c \in Clients |-> IF Reporting(c)
                                       THEN [NoReport EXCEPT !.at = "fail"]
                                       ELSE rep[c]]
    <3>1. [NoReport EXCEPT !.at = "fail"] \in Report
      BY DEF NoReport, Report, Ends, Pages
    <3>2. rep' \in [Clients -> Report]
      BY <2>3, <3>1 DEF RepInv
    <3>3. \A c \in Clients : ~Reporting(c)'
      BY <2>3 DEF Reporting, NoReport, Ends
    <3>. QED BY <1>1, <2>1, <3>2, <3>3 DEF RepInv
  <2>. QED BY <1>6, <2>2, <2>3 DEF ReportEnvironment
<1>. QED BY <1>2, <1>3, <1>4, <1>5, <1>6, BeginReportInv, KillReportInv DEF ReportNext

LEMMA ReportInitInv == ReportInit => RepInv
<1> SUFFICES ASSUME ReportInit PROVE RepInv
  OBVIOUS
<1>1. Inv
  BY InitInv DEF ReportInit
<1>2. NoReport \in Report /\ NoReport.at \in Ends
  BY DEF NoReport, Report, Ends, Pages
<1>3. rep \in [Clients -> Report] /\ \A c \in Clients : ~Reporting(c)
  BY <1>2 DEF ReportInit, Reporting
<1>4. page \in [Clients -> Pages]
  BY DEF ReportInit, Pages
<1>. QED BY <1>1, <1>3, <1>4 DEF ReportInit, RepInv

LEMMA AlwaysRepInv == ReportSpec => []RepInv
<1>1. RepInv /\ [ReportNext]_reportVars => RepInv'
  BY ReportStepInv
<1>. QED BY <1>1, ReportInitInv, PTL DEF ReportSpec

\* Whatever a signal cuts short, a report never enters the code of a command
\* without a directory, nor takes anything but a page for one.
THEOREM ReportTyped == ReportSpec => []ReportTypeOK
<1>1. RepInv => ReportTypeOK
  BY DEF RepInv, Inv, ReportTypeOK
<1>. QED BY <1>1, AlwaysRepInv, PTL

-----------------------------------------------------------------------------
\* A config lies in a directory

Made(d) == disk[d].cfg # None => disk[d].made

ConfigMade == \A d \in Dirs : Made(d)

LEMMA DirMade ==
  ASSUME HostTypeOK, ConfigMade, NEW d \in Dirs,
         \/ UNCHANGED disk
         \/ \E p : ServerUp(d, p) \/ ServerDown(d, p)
         \/ \E f : disk' = [disk EXCEPT ![d] = f] /\ (f.cfg # None => f.made)
  PROVE  ConfigMade'
<1>1. CASE UNCHANGED disk
  BY <1>1 DEF ConfigMade, Made
<1>2. ASSUME NEW p, ServerUp(d, p) \/ ServerDown(d, p) PROVE ConfigMade'
  BY <1>2 DEF ConfigMade, Made, ServerUp, ServerDown, HostTypeOK, Files
<1>3. ASSUME NEW f, disk' = [disk EXCEPT ![d] = f], f.cfg # None => f.made
      PROVE  ConfigMade'
  BY <1>3 DEF ConfigMade, Made, HostTypeOK
<1>. QED BY <1>1, <1>2, <1>3

\* A write to some of the files of a sandbox.
LEMMA FileMade ==
  ASSUME HostTypeOK, ConfigMade, NEW d \in Dirs,
         \/ disk' = [disk EXCEPT ![d].made = TRUE]
         \/ \E data : disk' = [disk EXCEPT ![d].data = data]
         \/ \E data : disk' = [disk EXCEPT ![d].made = TRUE, ![d].data = data]
         \/ \E pid : disk' = [disk EXCEPT ![d].pid = pid]
         \/ disk[d].made /\ \E cfg : disk' = [disk EXCEPT ![d].cfg = cfg]
  PROVE  ConfigMade'
BY DEF ConfigMade, Made, HostTypeOK, Files

LEMMA ClientStepMade ==
  ASSUME HostTypeOK, ConfigMade, NEW c \in Clients, cl[c].dir \in Dirs, ClientStep(c)
  PROVE  ConfigMade'
<1> DEFINE d == cl[c].dir
<1>1. /\ Quiet => ConfigMade'
      /\ UNCHANGED disk => ConfigMade'
      /\ \A p : ServerUp(d, p) \/ ServerDown(d, p) => ConfigMade'
  BY DirMade DEF Quiet, host
<1>2. ASSUME NEW cfg, NEW done, Save(c, cfg, done) PROVE ConfigMade'
  BY <1>1, <1>2, FileMade DEF Save
<1>3. CASE DeployStep(c)
  <2>1. CASE ChoosePort(c) \/ ProbeSource(c) \/ ProbeRole(c) \/ CreateRole(c)
             \/ EnsureHba(c)
    BY <1>1, <2>1 DEF ChoosePort, ProbeSource, ProbeRole, CreateRole, EnsureHba
  <2>2. CASE MakeDirChoosePort(c) \/ InitDb(c)
    BY <2>2, FileMade DEF MakeDirChoosePort, InitDb
  <2>3. CASE LaunchDeployed(c)
    BY <1>1, <2>3 DEF LaunchDeployed, PgCtlStart
  <2>4. CASE SaveDeployed(c)
    BY <1>2, <2>4 DEF SaveDeployed
  <2>5. CASE BaseBackup(c)
    <3>1. Quiet \/ \E data : disk' = [disk EXCEPT ![d].data = data]
      BY <2>5 DEF BaseBackup
    <3>. QED BY <1>1, <3>1, FileMade
  <2>. QED BY <1>3, <2>1, <2>2, <2>3, <2>4, <2>5 DEF DeployStep
<1>4. CASE LifecycleStep(c)
  BY <1>1, <1>4, FileMade DEF LifecycleStep, StartLoad, StartRun, PgCtlStart, StopLoad,
     StopUnlink, StopRun
<1>5. CASE DestroyStep(c)
  <2>1. CASE DestroyRemove(c)
    <3>1. \E f : disk' = [disk EXCEPT ![d] = f] /\ (f.cfg # None => f.made)
      <4>1. CASE Removed(d, NoFiles)
        <5>1. NoFiles.cfg = None
          BY DEF NoFiles
        <5>. QED BY <4>1, <5>1 DEF Removed
      <4>2. ASSUME NEW cfg, Removed(d, [made |-> TRUE, data |-> "torn", pid |-> "none",
                                        cfg |-> cfg])
            PROVE  \E f : disk' = [disk EXCEPT ![d] = f] /\ (f.cfg # None => f.made)
        <5> DEFINE f == [made |-> TRUE, data |-> "torn", pid |-> "none", cfg |-> cfg]
        <5>1. f.made
          OBVIOUS
        <5>2. disk' = [disk EXCEPT ![d] = f]
          BY <4>2 DEF Removed
        <5> HIDE DEF f
        <5>. QED BY <5>1, <5>2
      <4>. QED BY <2>1, <4>1, <4>2 DEF DestroyRemove
    <3>. QED BY <3>1, DirMade
  <2>2. CASE ~DestroyRemove(c)
    BY <1>1, <1>5, <2>2 DEF DestroyStep, DestroyLoad, DropSubscription, DestroyStop,
       SlotLoad, SlotDrop
  <2>. QED BY <2>1, <2>2
<1>6. CASE PromoteStep(c)
  BY <1>1, <1>2, <1>6, FileMade DEF PromoteStep, PromoteLoad, PromoteRun, PromoteWait,
     PromoteSave
<1>7. CASE LogicalStep(c)
  BY <1>1, <1>2, <1>7 DEF LogicalStep, PublishLoad, ShowWalLevel, AlterSystem,
     CreatePublication, SubscribeLoad, CreateSubscription, SubscribeSave
<1>8. CASE SetStep(c)
  BY <1>1, <1>2, <1>8 DEF SetStep, SetLoad, SetSave
<1>. QED BY <1>3, <1>4, <1>5, <1>6, <1>7, <1>8 DEF ClientStep

LEMMA EnvironmentMade ==
  ASSUME HostTypeOK, ConfigMade, Environment
  PROVE  ConfigMade'
<1>1. ASSUME NEW d \in Dirs,
             FinishPromotion(d) \/ KillServer(d) \/ ReusePid(d) \/ LocklessExit(d)
      PROVE  ConfigMade'
  BY <1>1, DirMade, FileMade DEF FinishPromotion, KillServer, ReusePid, LocklessExit
<1>2. CASE Reboot
  BY <1>2 DEF Reboot, ConfigMade, Made, HostTypeOK, Files
<1>3. ASSUME NEW p \in Ports, StrayExit(p) PROVE ConfigMade'
  BY <1>3 DEF StrayExit, ConfigMade, Made
<1>. QED BY <1>1, <1>2, <1>3 DEF Environment, Machine

-----------------------------------------------------------------------------
\* A step of sandbox code taken by a report

\* Cut short or not.
Takes(c) == ClientStep(c) \/ CutStep(c)

LEMMA CutStepLife ==
  ASSUME LifeInv, NEW c \in Clients, CutStep(c), ~ClientStep(c)
  PROVE  LifeInv'
<1> DEFINE d == cl[c].dir
<1>1. Inv'
  BY CutStepInv DEF LifeInv
<1>2. ASSUME NEW point \in {"init", "launch", "destroy.stop"}, At(c, point)
      PROVE  /\ InFlight(c) /\ cl[c].at = point /\ d \in Dirs /\ cl[c] \in Client
             /\ OnTrack(cl[c].op, point) /\ Knows(cl[c])
             /\ Expects(cl[c].op, point, cl[c].cfg, cl[c].port, disk[d], srv[d])
             /\ Sane(d) /\ disk[d] \in Files
  BY <1>2, Poised DEF Points
<1>3. CASE At(c, "init") /\ Return(c, "fail")
           /\ \/ Quiet
              \/ /\ disk[d].data = "absent"
                 /\ disk' = [disk EXCEPT ![d].made = TRUE, ![d].data = "partial"]
                 /\ UNCHANGED <<srv, db, strays>>
  <2>1. CASE Quiet
    BY <1>1, <1>2, <1>3, <2>1, UntouchedReturns DEF Quiet, host, Ends
  <2>2. CASE /\ disk[d].data = "absent"
             /\ disk' = [disk EXCEPT ![d].made = TRUE, ![d].data = "partial"]
             /\ UNCHANGED <<srv, db, strays>>
    <3> DEFINE f == [disk[d] EXCEPT !.made = TRUE, !.data = "partial"]
    <3>1. f \in Files /\ f.pid = disk[d].pid /\ f.cfg = disk[d].cfg
      BY <1>2, <1>3 DEF Files, DataStates
    <3>2. disk' = [disk EXCEPT ![d] = f]
      BY <2>2
    <3> HIDE DEF f
    <3>3. Sound(d)
      BY <1>2, <1>3, <2>2, <3>1, <3>2, DataSound DEF Complete
    <3>. QED BY <1>1, <1>2, <1>3, <3>3, ReturnStays DEF Ends
  <2>. QED BY <1>3, <2>1, <2>2
<1>4. CASE At(c, "launch") /\ Return(c, "fail")
           /\ (Quiet \/ (CanStart(d, cl[c].port) /\ ServerUp(d, cl[c].port)))
  <2>1. CASE Quiet
    BY <1>1, <1>2, <1>4, <2>1, UntouchedReturns DEF Quiet, host, Ends
  <2>2. CASE CanStart(d, cl[c].port) /\ ServerUp(d, cl[c].port)
    <3>1. cl[c].port \in Ports /\ disk[d].cfg = None
      <4>1. cl[c].op \in DeployOps
        BY <1>2, <1>4 DEF OnTrack, DeployOps
      <4>. QED BY <1>2, <1>4, <4>1 DEF Knows, Client, Expects
    <3>2. Sound(d)
      BY <1>2, <1>4, <2>2, <3>1, UpSound
    <3>. QED BY <1>1, <1>2, <1>4, <3>2, ReturnStays DEF Ends
  <2>. QED BY <1>4, <2>1, <2>2
<1>5. CASE At(c, "destroy.stop") /\ Go(c, "destroy.rm")
           /\ (Quiet \/ (disk[d].pid = "live" /\ ServerDown(d, "none")))
  <2>1. Sound(d) /\ disk'[d].cfg = disk[d].cfg
    <3>1. CASE Quiet
      BY <1>2, <1>5, <3>1, UntouchedSound DEF Quiet, host
    <3>2. CASE disk[d].pid = "live" /\ ServerDown(d, "none")
      <4>1. srv[d] # None
        BY <1>2, <1>5, <3>2 DEF Sane, Coherent
      <4>. QED BY <1>2, <1>5, <3>2, <4>1, DownSound
    <3>. QED BY <1>5, <3>1, <3>2
  <2>2. cl[c].op = "destroy"
    BY <1>2, <1>5 DEF OnTrack
  <2>3. Expects(cl[c].op, "destroy.rm", cl[c].cfg, cl[c].port, disk'[d], srv'[d])
    BY <1>2, <1>5, <2>1, <2>2 DEF Expects, DeployOps
  <2>. QED BY <1>1, <1>2, <1>5, <2>1, <2>3, GoStays
<1>. QED BY <1>3, <1>4, <1>5 DEF CutStep

LEMMA CutIsInFlight ==
  ASSUME NEW c \in Clients, CutStep(c)
  PROVE  InFlight(c)
BY StepIsInFlight DEF CutStep, At, InFlight, Ends

\* It moves no other command, and no other sandbox.
LEMMA Taken ==
  ASSUME LifeInv, ConfigMade, NEW c \in Clients, cl[c].op = "set" => "set" \in Ops,
         Takes(c)
  PROVE  /\ LifeInv' /\ ConfigMade' /\ InFlight(c) /\ Elsewhere(cl[c].dir)
         /\ \A b \in Clients \ {c} : cl'[b] = cl[b]
         /\ InFlight(c)' => cl'[c].op = cl[c].op /\ cl'[c].dir = cl[c].dir
<1>1. HostTypeOK /\ cl \in [Clients -> Client] /\ disk \in [Dirs -> Files]
      /\ srv \in [Dirs -> Ports \cup {None}]
  BY DEF LifeInv, Inv, TypeOK, HostTypeOK
<1>2. CASE ClientStep(c)
  <2>1. InFlight(c) /\ cl[c].dir \in Dirs
    BY <1>2, StepIsInFlight DEF LifeInv, Inv, CallsWellFormed
  <2>. QED BY <1>1, <1>2, <2>1, ClientStepLife, ClientStepMade, OneMoves, OwnSandboxOnly
<1>3. CASE CutStep(c) /\ ~ClientStep(c)
  <2> DEFINE d == cl[c].dir
  <2>1. PICK point \in {"init", "launch", "destroy.stop"} :
          /\ At(c, point)
          /\ Return(c, "fail") \/ Go(c, "destroy.rm")
          /\ \/ Quiet \/ \E p : ServerUp(d, p) \/ ServerDown(d, p)
             \/ /\ disk' = [disk EXCEPT ![d].made = TRUE, ![d].data = "partial"]
                /\ UNCHANGED srv
    BY <1>3 DEF CutStep
  <2>2. InFlight(c) /\ d \in Dirs
    BY <2>1, Poised DEF Points
  <2>3. ConfigMade'
    BY <1>1, <2>1, <2>2, DirMade, FileMade DEF Quiet, host
  <2>4. Elsewhere(d)
    BY <1>1, <2>1, <2>2 DEF Elsewhere, Quiet, host, ServerUp, ServerDown
  <2>5. /\ \A b \in Clients \ {c} : cl'[b] = cl[b]
        /\ InFlight(c)' => cl'[c].op = cl[c].op /\ cl'[c].dir = cl[c].dir
    BY <1>1, <2>1 DEF Return, Go, Idle, InFlight, Ends, Client
  <2>. QED BY <1>3, <2>2, <2>3, <2>4, <2>5, CutStepLife
<1>. QED BY <1>2, <1>3 DEF Takes

-----------------------------------------------------------------------------
\* Each throwaway is worked on by its own report only

SetOffered == \A c \in Clients : InFlight(c) /\ cl[c].op = "set" => "set" \in Ops

\* The code a report is in, if any, works on its throwaway.
InItsCall(c) ==
  InFlight(c) =>
    /\ cl[c].dir = rep[c].dir
    /\ \/ rep[c].at = "deploy" /\ cl[c].op = "deploy"
       \/ rep[c].at \in {"undo", "clean"} /\ cl[c].op = "destroy"

ReportsApart ==
  \A c \in Clients : Reporting(c) =>
    /\ InItsCall(c)
    /\ \A b \in Clients \ {c} :
         /\ Reporting(b) => rep[b].dir # rep[c].dir
         /\ InFlight(b) => cl[b].dir # rep[c].dir

OwnInv == RepInv /\ LifeInv /\ ConfigMade /\ SetOffered /\ ReportsApart

LEMMA OneApart ==
  ASSUME OwnInv, RepInv', LifeInv', ConfigMade', NEW c \in Clients,
         \A b \in Clients \ {c} : cl'[b] = cl[b] /\ rep'[b] = rep[b],
         InFlight(c)' /\ cl'[c].op = "set" => "set" \in Ops,
         Reporting(c)' => InItsCall(c)',
         \A b \in Clients \ {c} :
           /\ Reporting(c)' /\ Reporting(b) => rep[b].dir # rep'[c].dir
           /\ Reporting(c)' /\ InFlight(b) => cl[b].dir # rep'[c].dir
           /\ InFlight(c)' /\ Reporting(b) => cl'[c].dir # rep[b].dir
  PROVE  OwnInv'
<1>1. \A b \in Clients \ {c} : /\ InFlight(b)' <=> InFlight(b)
                               /\ Reporting(b)' <=> Reporting(b)
                               /\ InItsCall(b)' <=> InItsCall(b)
  BY DEF InFlight, Reporting, InItsCall
<1>2. SetOffered'
  BY <1>1 DEF OwnInv, SetOffered
<1>3. ASSUME NEW a \in Clients, Reporting(a)', NEW b \in Clients \ {a}
      PROVE  /\ InItsCall(a)'
             /\ Reporting(b)' => rep'[b].dir # rep'[a].dir
             /\ InFlight(b)' => cl'[b].dir # rep'[a].dir
  <2>1. CASE a = c
    BY <1>1, <1>3, <2>1
  <2>2. CASE a # c /\ b = c
    BY <1>1, <1>3, <2>2 DEF OwnInv, ReportsApart
  <2>3. CASE a # c /\ b # c
    BY <1>1, <1>3, <2>3 DEF OwnInv, ReportsApart
  <2>. QED BY <2>1, <2>2, <2>3
<1>4. ASSUME NEW a \in Clients, Reporting(a)' PROVE InItsCall(a)'
  <2>1. CASE a = c
    BY <1>4, <2>1
  <2>2. CASE a # c
    BY <1>1, <1>4, <2>2 DEF OwnInv, ReportsApart
  <2>. QED BY <2>1, <2>2
<1>5. ReportsApart'
  BY <1>3, <1>4 DEF ReportsApart
<1>. QED BY <1>2, <1>5 DEF OwnInv

\* A report goes on with the throwaway it has.
LEMMA GoesOn ==
  ASSUME OwnInv, RepInv', LifeInv', ConfigMade', NEW c \in Clients, Reporting(c),
         \A b \in Clients \ {c} : cl'[b] = cl[b] /\ rep'[b] = rep[b],
         rep'[c].dir = rep[c].dir \/ ~Reporting(c)',
         Reporting(c)' => InItsCall(c)',
         InFlight(c)' => cl'[c].dir = rep[c].dir /\ cl'[c].op \in {"deploy", "destroy"}
  PROVE  OwnInv'
<1>1. \A b \in Clients \ {c} :
           /\ Reporting(b) => rep[b].dir # rep[c].dir
           /\ InFlight(b) => cl[b].dir # rep[c].dir
  BY DEF OwnInv, ReportsApart
<1>. QED BY <1>1, OneApart

\* Nobody else works on a throwaway, and it is there.
LEMMA MyOwn ==
  ASSUME OwnInv, NEW c \in Clients, Reporting(c)
  PROVE  /\ rep[c].dir \in Dirs /\ InItsCall(c)
         /\ \A b \in Clients \ {c} : InFlight(b) => cl[b].dir # rep[c].dir
         /\ cl \in [Clients -> Client] /\ rep \in [Clients -> Report]
         /\ disk \in [Dirs -> Files] /\ srv \in [Dirs -> Ports \cup {None}]
         /\ Sane(rep[c].dir) /\ OnePerPort
BY DEF OwnInv, RepInv, ReportsApart, LifeInv, Inv, TypeOK, HostTypeOK

LEMMA EnterLife ==
  ASSUME LifeInv, Inv', NEW c \in Clients, NEW op \in {"deploy", "destroy"},
         NEW d \in Dirs, Enter(c, op, EnterPoint(op), d), Quiet,
         op = "deploy" => disk[d].cfg = None,
         \A b \in Clients \ {c} : InFlight(b) => cl[b].dir # d
  PROVE  LifeInv'
<1>1. /\ cl'[c].op = op /\ cl'[c].at = EnterPoint(op) /\ cl'[c].dir = d
      /\ cl'[c].cfg = None /\ cl'[c].port = None
      /\ \A b \in Clients \ {c} : cl'[b] = cl[b]
      /\ UNCHANGED <<disk, srv>>
  BY DEF LifeInv, Inv, TypeOK, Enter, Quiet, host
<1>2. Apart'
  BY <1>1 DEF LifeInv, Apart, InFlight
<1>3. Expects(op, EnterPoint(op), None, None, disk[d], srv[d])
  BY DEF Expects, EnterPoint, DeployOps
<1>4. ASSUME NEW b \in Clients, InFlight(b)' PROVE Holds(b)'
  <2>1. CASE b = c
    BY <1>1, <1>3, <2>1 DEF Holds
  <2>2. CASE b # c
    BY <1>1, <1>4, <2>2 DEF LifeInv, Holds, InFlight
  <2>. QED BY <2>1, <2>2
<1>. QED BY <1>1, <1>2, <1>4 DEF LifeInv, OnePerPort, Sane, Coherent

\* No command moves, and the machine stands still.
LEMMA QuietLife ==
  ASSUME LifeInv, Inv', Quiet, UNCHANGED cl
  PROVE  LifeInv'
BY DEF LifeInv, Quiet, host, Apart, InFlight, OnePerPort, Sane, Coherent, Holds

LEMMA QuietMade == ASSUME ConfigMade, Quiet PROVE ConfigMade'
BY DEF ConfigMade, Made, Quiet, host

\* A report moves on between two calls.
LEMMA QuietOwn ==
  ASSUME OwnInv, RepInv', NEW c \in Clients, Reporting(c), ~InFlight(c), Quiet,
         UNCHANGED cl, NEW k, rep' = [rep EXCEPT ![c] = k],
         k.dir = rep[c].dir \/ k.at \in Ends
  PROVE  OwnInv'
<1>1. /\ rep'[c] = k /\ (\A b \in Clients \ {c} : cl'[b] = cl[b] /\ rep'[b] = rep[b])
      /\ ~InFlight(c)'
  BY DEF OwnInv, RepInv, InFlight
<1>2. LifeInv' /\ ConfigMade'
  BY QuietLife, QuietMade DEF OwnInv, RepInv
<1>. QED BY <1>1, <1>2, GoesOn DEF Reporting, InItsCall

LEMMA DestroyOwn ==
  ASSUME OwnInv, RepInv', NEW c \in Clients, Reporting(c), Quiet,
         Enter(c, "destroy", "destroy.load", rep[c].dir),
         NEW k, rep' = [rep EXCEPT ![c] = k], k.dir = rep[c].dir,
         k.at \in {"undo", "clean"}
  PROVE  OwnInv'
<1>1. /\ rep[c].dir \in Dirs /\ cl \in [Clients -> Client] /\ rep \in [Clients -> Report]
      /\ \A b \in Clients \ {c} : InFlight(b) => cl[b].dir # rep[c].dir
  BY MyOwn
<1>2. /\ rep'[c] = k /\ (\A b \in Clients \ {c} : cl'[b] = cl[b] /\ rep'[b] = rep[b])
      /\ cl'[c].dir = rep[c].dir /\ cl'[c].op = "destroy"
  BY <1>1 DEF Enter
<1>3. LifeInv' /\ ConfigMade'
  <2>1. Enter(c, "destroy", EnterPoint("destroy"), rep[c].dir)
    BY DEF EnterPoint
  <2>. QED BY <1>1, <2>1, EnterLife, QuietMade DEF OwnInv, RepInv
<1>. QED BY <1>2, <1>3, GoesOn DEF Reporting, InItsCall

LEMMA LeftoverOwn ==
  ASSUME OwnInv, RepInv', NEW c \in Clients, Reporting(c), ~InFlight(c), Leftover(c)
  PROVE  OwnInv'
<1>1. rep[c] \in Report
  BY DEF OwnInv, RepInv
<1>2. CASE rep' = [rep EXCEPT ![c].at = "fail", ![c].told = TRUE] /\ UNCHANGED cl
  <2> DEFINE k == [rep[c] EXCEPT !.at = "fail", !.told = TRUE]
  <2>1. k.at \in Ends
    BY <1>1 DEF Report, Ends
  <2>2. rep' = [rep EXCEPT ![c] = k]
    BY <1>2
  <2> HIDE DEF k
  <2>. QED BY <1>2, <2>1, <2>2, QuietOwn DEF Leftover
<1>3. CASE /\ rep' = [rep EXCEPT ![c].at = "undo"]
           /\ Enter(c, "destroy", "destroy.load", rep[c].dir)
  <2> DEFINE k == [rep[c] EXCEPT !.at = "undo"]
  <2>1. k.dir = rep[c].dir /\ k.at \in {"undo", "clean"}
    BY <1>1 DEF Report
  <2>2. rep' = [rep EXCEPT ![c] = k]
    BY <1>3
  <2> HIDE DEF k
  <2>. QED BY <1>3, <2>1, <2>2, DestroyOwn DEF Leftover
<1>. QED BY <1>2, <1>3 DEF Leftover

\* A step of a command keeps the config where its directory is, and a command
\* that called for config set had it offered.
LEMMA TakenOwn ==
  ASSUME OwnInv, NEW c \in Clients, Takes(c)
  PROVE  /\ LifeInv' /\ ConfigMade' /\ InFlight(c) /\ Elsewhere(cl[c].dir)
         /\ \A b \in Clients \ {c} : cl'[b] = cl[b]
         /\ InFlight(c)' => cl'[c].op = cl[c].op /\ cl'[c].dir = cl[c].dir
<1>1. InFlight(c)
  BY StepIsInFlight, CutIsInFlight DEF Takes
<1>. QED BY <1>1, Taken DEF OwnInv, SetOffered

LEMMA CalledStepOwn ==
  ASSUME OwnInv, RepInv', NEW c \in Clients, CalledStep(c)
  PROVE  OwnInv'
<1>1. Takes(c) /\ Reporting(c)
  BY DEF CalledStep, Takes
<1>2. /\ LifeInv' /\ ConfigMade' /\ InFlight(c)
      /\ \A b \in Clients \ {c} : cl'[b] = cl[b]
      /\ InFlight(c)' => cl'[c].op = cl[c].op /\ cl'[c].dir = cl[c].dir
  BY <1>1, TakenOwn
<1>3. /\ rep'[c].at = rep[c].at /\ rep'[c].dir = rep[c].dir
      /\ \A b \in Clients \ {c} : rep'[b] = rep[b]
  BY DEF CalledStep, OwnInv, RepInv, Report
<1>4. InItsCall(c)
  BY <1>1, MyOwn
<1>5. /\ cl[c].dir = rep[c].dir /\ cl[c].op \in {"deploy", "destroy"}
      /\ InFlight(c)' => InItsCall(c)'
  BY <1>2, <1>3, <1>4 DEF InItsCall
<1>6. InItsCall(c)'
  BY <1>5 DEF InItsCall
<1>. QED BY <1>1, <1>2, <1>3, <1>5, <1>6, GoesOn

LEMMA BetweenCallsOwn ==
  ASSUME OwnInv, RepInv', NEW c \in Clients,
         Deployed(c) \/ Load(c) \/ Render(c) \/ Write(c) \/ Destroyed(c)
  PROVE  OwnInv'
<1>1. rep[c] \in Report
  BY DEF OwnInv, RepInv
<1>2. Reporting(c) /\ ~InFlight(c)
  BY DEF Deployed, Load, Render, Write, Destroyed, ReportAt, Reporting, Ends
<1>3. ASSUME NEW k, rep' = [rep EXCEPT ![c] = k], k.dir = rep[c].dir, Quiet, UNCHANGED cl
      PROVE  OwnInv'
  BY <1>2, <1>3, QuietOwn
<1>4. ASSUME NEW point, ReportGo(c, point) PROVE OwnInv'
  <2> DEFINE k == [rep[c] EXCEPT !.at = point]
  <2>1. k.dir = rep[c].dir
    BY <1>1 DEF Report
  <2>2. rep' = [rep EXCEPT ![c] = k] /\ Quiet /\ UNCHANGED cl
    BY <1>4 DEF ReportGo
  <2> HIDE DEF k
  <2>. QED BY <1>3, <2>1, <2>2
<1>5. Leftover(c) => OwnInv'
  BY <1>2, LeftoverOwn
<1>6. CASE Deployed(c) \/ Load(c)
  BY <1>4, <1>5, <1>6 DEF Deployed, Load
<1>7. CASE Render(c)
  <2>1. ASSUME NEW html, rep' = [rep EXCEPT ![c].at = "write", ![c].html = html],
               Quiet, UNCHANGED cl
        PROVE  OwnInv'
    <3> DEFINE k == [rep[c] EXCEPT !.at = "write", !.html = html]
    <3>1. k.dir = rep[c].dir
      BY <1>1 DEF Report
    <3>2. rep' = [rep EXCEPT ![c] = k]
      BY <2>1
    <3> HIDE DEF k
    <3>. QED BY <1>3, <2>1, <3>1, <3>2
  <2>. QED BY <1>5, <1>7, <2>1 DEF Render
<1>8. CASE Write(c)
  <2>1. CASE /\ rep' = [rep EXCEPT ![c].at = "clean"] /\ Quiet
             /\ Enter(c, "destroy", "destroy.load", rep[c].dir)
    <3> DEFINE k == [rep[c] EXCEPT !.at = "clean"]
    <3>1. k.dir = rep[c].dir /\ k.at \in {"undo", "clean"}
      BY <1>1 DEF Report
    <3>2. rep' = [rep EXCEPT ![c] = k]
      BY <2>1
    <3> HIDE DEF k
    <3>. QED BY <1>2, <2>1, <3>1, <3>2, DestroyOwn
  <2>. QED BY <1>5, <1>8, <2>1 DEF Write
<1>9. CASE Destroyed(c)
  <2>1. PICK at, told : rep' = [rep EXCEPT ![c].at = at, ![c].told = told]
    BY <1>9 DEF Destroyed
  <2> DEFINE k == [rep[c] EXCEPT !.at = at, !.told = told]
  <2>2. k.dir = rep[c].dir
    BY <1>1 DEF Report
  <2>3. rep' = [rep EXCEPT ![c] = k]
    BY <2>1
  <2> HIDE DEF k
  <2>. QED BY <1>3, <1>9, <2>2, <2>3 DEF Destroyed
<1>. QED BY <1>6, <1>7, <1>8, <1>9

LEMMA BeginReportOwn ==
  ASSUME OwnInv, RepInv', NEW c \in Clients, BeginReport(c)
  PROVE  OwnInv'
<1>1. PICK d \in Dirs, keep \in BOOLEAN :
        /\ ~disk[d].made /\ \A b \in Clients : d # rep[b].dir /\ d \notin Touches(b)
        /\ rep' = [rep EXCEPT ![c] = [NoReport EXCEPT !.at = "deploy", !.dir = d,
                                                      !.keep = keep]]
        /\ Enter(c, "deploy", "port", d)
  BY DEF BeginReport
<1>2. /\ cl \in [Clients -> Client] /\ rep \in [Clients -> Report] /\ Quiet
      /\ LifeInv /\ ConfigMade /\ Inv'
  BY DEF OwnInv, RepInv, LifeInv, Inv, TypeOK, BeginReport
<1>3. /\ rep'[c].dir = d /\ rep'[c].at = "deploy"
      /\ cl'[c].dir = d /\ cl'[c].op = "deploy"
      /\ \A b \in Clients \ {c} : cl'[b] = cl[b] /\ rep'[b] = rep[b]
  BY <1>1, <1>2 DEF Enter, NoReport
<1>4. \A b \in Clients \ {c} :
           /\ rep[b].dir # d
           /\ InFlight(b) => cl[b].dir # d
  BY <1>1, NoneAssumption DEF Touches
<1>5. disk[d].cfg = None
  BY <1>1, <1>2 DEF ConfigMade, Made
<1>6. LifeInv' /\ ConfigMade'
  <2>1. Enter(c, "deploy", EnterPoint("deploy"), d)
    BY <1>1 DEF EnterPoint
  <2>. QED BY <1>2, <1>4, <1>5, <2>1, EnterLife, QuietMade
<1>. QED BY <1>3, <1>4, <1>6, OneApart DEF InItsCall

LEMMA KillReportOwn ==
  ASSUME OwnInv, RepInv', NEW c \in Clients, KillReport(c)
  PROVE  OwnInv'
<1>1. /\ cl \in [Clients -> Client] /\ rep \in [Clients -> Report]
      /\ LifeInv /\ ConfigMade /\ Inv'
  BY DEF OwnInv, RepInv, LifeInv, Inv, TypeOK
<1>2. /\ Return(c, "fail") /\ Quiet /\ UNCHANGED calls /\ Reporting(c)
      /\ rep'[c] = [NoReport EXCEPT !.at = "fail"]
      /\ \A b \in Clients \ {c} : cl'[b] = cl[b] /\ rep'[b] = rep[b]
  BY <1>1 DEF KillReport, Return
<1>3. ~Reporting(c)' /\ ~InFlight(c)'
  BY <1>1, <1>2 DEF Return, Idle, NoReport, Reporting, InFlight, Ends
<1>4. LifeInv'
  <2>1. CASE InFlight(c)
    <3>1. cl[c].dir \in Dirs /\ UNCHANGED <<disk, srv, strays>>
      BY <1>1, <1>2, <2>1 DEF LifeInv, Inv, CallsWellFormed, Quiet, host
    <3>. QED BY <1>1, <1>2, <2>1, <3>1, UntouchedReturns DEF Ends
  <2>2. CASE ~InFlight(c)
    <3>1. \A b \in Clients : InFlight(b)' => InFlight(b) /\ cl'[b] = cl[b]
      BY <1>2, <1>3 DEF InFlight
    <3>. QED BY <1>1, <1>2, <3>1 DEF LifeInv, Quiet, host, Apart, OnePerPort,
         Sane, Coherent, Holds
  <2>. QED BY <2>1, <2>2
<1>5. ConfigMade'
  BY <1>1, <1>2, QuietMade
<1>. QED BY <1>2, <1>3, <1>4, <1>5, GoesOn

\* A command is begun on a throwaway by its own report only.
LEMMA OrdinaryOwn ==
  ASSUME Disciplined, OwnInv, RepInv', NEW c \in Clients, OrdinaryStep(c)
  PROVE  OwnInv'
<1>1. /\ cl \in [Clients -> Client] /\ rep \in [Clients -> Report]
      /\ LifeInv /\ ConfigMade /\ SetOffered
  BY DEF OwnInv, RepInv, LifeInv, Inv, TypeOK
<1>2. ~Reporting(c) /\ UNCHANGED rep
      /\ \A b \in Clients : Reporting(b) => rep[b].dir # cl'[c].dir
  BY DEF OrdinaryStep
<1>3. /\ LifeInv' /\ ConfigMade' /\ (\A b \in Clients \ {c} : cl'[b] = cl[b])
      /\ InFlight(c)' /\ cl'[c].op = "set" => "set" \in Ops
  <2>1. CASE ClientStep(c)
    BY <1>1, <2>1, TakenOwn DEF Takes, SetOffered
  <2>2. CASE KillClient(c)
    <3>1. (\A b \in Clients \ {c} : cl'[b] = cl[b]) /\ ~InFlight(c)' /\ Quiet
      BY <1>1, <2>2 DEF KillClient, Return, Idle, InFlight, Ends
    <3>. QED BY <1>1, <2>2, <3>1, KillClientLife, QuietMade
  <2>3. CASE BeginCall(c)
    <3>1. /\ Quiet /\ (\A b \in Clients \ {c} : cl'[b] = cl[b])
          /\ cl'[c].op \in Ops
      <4>1. ASSUME NEW op, NEW point, NEW d, NEW src, NEW name, NEW port,
                   Begin(c, op, point, d, src, name, port)
            PROVE  /\ Quiet /\ (\A b \in Clients \ {c} : cl'[b] = cl[b])
                   /\ cl'[c].op \in Ops
        BY <1>1, <4>1 DEF Begin
      <4>. QED BY <2>3, <4>1 DEF BeginCall, BeginDeploy, BeginLifecycle, BeginDestroy,
           BeginPromote, BeginPublish, BeginSubscribe, BeginSet
    <3>. QED BY <1>1, <2>3, <3>1, BeginLife, QuietMade
  <2>. QED BY <2>1, <2>2, <2>3 DEF OrdinaryStep
<1>. QED BY <1>2, <1>3, OneApart DEF Reporting

LEMMA NobodyMovesOwn ==
  ASSUME OwnInv, RepInv', LifeInv', ConfigMade', UNCHANGED <<cl, rep>>
  PROVE  OwnInv'
BY DEF OwnInv, SetOffered, ReportsApart, InItsCall, InFlight, Reporting

LEMMA ReportEnvironmentOwn ==
  ASSUME OwnInv, RepInv', ReportEnvironment
  PROVE  OwnInv'
<1>1. /\ HostTypeOK /\ LifeInv /\ ConfigMade
      /\ cl \in [Clients -> Client] /\ rep \in [Clients -> Report]
  BY DEF OwnInv, RepInv, LifeInv, Inv, TypeOK
<1>2. LifeInv' /\ ConfigMade'
  BY <1>1, MachineLife, RebootLife, EnvironmentMade DEF ReportEnvironment, Environment
<1>3. CASE Machine /\ UNCHANGED rep
  BY <1>2, <1>3, NobodyMovesOwn DEF Machine
<1>4. CASE Reboot /\ rep' = [c \in Clients |-> IF Reporting(c)
                                              THEN [NoReport EXCEPT !.at = "fail"]
                                              ELSE rep[c]]
  <2>1. \A c \in Clients : ~InFlight(c)' /\ ~Reporting(c)'
    BY <1>1, <1>4 DEF Reboot, InFlight, Idle, Ends, Reporting, NoReport
  <2>. QED BY <1>2, <2>1 DEF OwnInv, SetOffered, ReportsApart
<1>. QED BY <1>3, <1>4 DEF ReportEnvironment

LEMMA StepOwn ==
  ASSUME Disciplined, OwnInv, [ReportNext]_reportVars
  PROVE  OwnInv'
<1>1. RepInv'
  BY ReportStepInv DEF OwnInv
<1>2. UNCHANGED vars => LifeInv' /\ ConfigMade'
  <2> SUFFICES ASSUME UNCHANGED vars PROVE LifeInv' /\ ConfigMade'
    OBVIOUS
  <2>. QED BY <1>1, QuietLife, QuietMade DEF OwnInv, RepInv, vars, Quiet, host
<1>3. CASE UNCHANGED reportVars
  BY <1>1, <1>2, <1>3, NobodyMovesOwn DEF reportVars, vars
<1>4. ASSUME NEW c \in Clients, Interrupt(c) PROVE OwnInv'
  <2>1. /\ LifeInv' /\ ConfigMade' /\ Reporting(c) /\ UNCHANGED cl
        /\ rep' = [rep EXCEPT ![c].cut = TRUE]
    BY <1>2, <1>4 DEF Interrupt, vars
  <2>2. /\ rep'[c].dir = rep[c].dir /\ rep'[c].at = rep[c].at
        /\ \A b \in Clients \ {c} : cl'[b] = cl[b] /\ rep'[b] = rep[b]
    BY <2>1 DEF OwnInv, RepInv, Report
  <2>3. InItsCall(c)' /\ (InFlight(c)' => InFlight(c) /\ cl'[c] = cl[c])
        /\ InItsCall(c)
    BY <2>1, <2>2, MyOwn DEF InItsCall, InFlight
  <2>. QED BY <1>1, <2>1, <2>2, <2>3, GoesOn DEF InItsCall
<1>5. ASSUME NEW c \in Clients, ReportStep(c) PROVE OwnInv'
  BY <1>1, <1>5, CalledStepOwn, BetweenCallsOwn DEF ReportStep
<1>. QED BY <1>1, <1>3, <1>4, <1>5, BeginReportOwn, KillReportOwn, OrdinaryOwn,
     ReportEnvironmentOwn DEF ReportNext

LEMMA InitOwn == ReportInit => OwnInv
<1> SUFFICES ASSUME ReportInit PROVE OwnInv
  OBVIOUS
<1>1. RepInv /\ LifeInv
  BY ReportInitInv, InitLife DEF ReportInit
<1>2. \A c \in Clients : ~InFlight(c) /\ ~Reporting(c)
  BY DEF ReportInit, Init, Idle, InFlight, Reporting, NoReport, Ends
<1>3. ConfigMade
  BY DEF ReportInit, Init, HostInit, NoFiles, ConfigMade, Made
<1>. QED BY <1>1, <1>2, <1>3 DEF OwnInv, SetOffered, ReportsApart

LEMMA AlwaysOwn == ASSUME Disciplined PROVE ReportSpec => []OwnInv
<1>1. OwnInv /\ [ReportNext]_reportVars => OwnInv'
  BY StepOwn
<1>. QED BY <1>1, InitOwn, PTL DEF ReportSpec

-----------------------------------------------------------------------------
\* From the deploy of a throwaway to its page.  While no server is killed, the
\* server that was deployed is the one psql reaches, because a port leads to one
\* server and nobody else works on the throwaway.

\* How a standalone deploy goes on: d is its sandbox.
DeployGoesOn(c, d) ==
  \/ cl'[c].at = "fail"
  \/ cl[c].at = "port" /\ cl'[c].at = "init" /\ cl'[c].port \in Ports
  \/ cl[c].at = "init" /\ cl'[c].at = "launch" /\ cl'[c].port = cl[c].port
  \/ /\ cl[c].at = "launch" /\ cl'[c].at = "save" /\ cl'[c].port = cl[c].port
     /\ srv'[d] = cl[c].port
  \/ cl[c].at = "save" /\ cl'[c].at = "ok" /\ cl'[c].port = None /\ srv'[d] = srv[d]

LEMMA DeploysOwnStep ==
  ASSUME Inv, NEW c \in Clients, InFlight(c), cl[c].op = "deploy", ClientStep(c)
  PROVE  /\ cl[c].at \in {"port", "init", "launch", "save"}
         /\ ChoosePort(c) \/ InitDb(c) \/ LaunchDeployed(c) \/ SaveDeployed(c)
<1>1. cl[c].at \in {"port", "init", "launch", "save"}
  BY DEF Inv, CallsWellFormed, OnTrack
<1>2. ~LifecycleStep(c) /\ ~DestroyStep(c)
  BY <1>1 DEF LifecycleStep, StartLoad, StartRun, StopLoad, StopUnlink, StopRun,
     DestroyStep, DestroyLoad, DropSubscription, DestroyStop, SlotLoad, SlotDrop,
     DestroyRemove, At
<1>3. ~PromoteStep(c) /\ ~SetStep(c)
  BY <1>1 DEF PromoteStep, PromoteLoad, PromoteRun, PromoteWait, PromoteSave,
     SetStep, SetLoad, SetSave, At
<1>4. ~LogicalStep(c)
  BY <1>1 DEF LogicalStep, PublishLoad, ShowWalLevel, AlterSystem,
     CreatePublication, SubscribeLoad, CreateSubscription, SubscribeSave, At
<1>5. /\ ~MakeDirChoosePort(c) /\ ~ProbeSource(c) /\ ~ProbeRole(c) /\ ~CreateRole(c)
      /\ ~EnsureHba(c) /\ ~BaseBackup(c)
  BY <1>1 DEF MakeDirChoosePort, ProbeSource, ProbeRole, CreateRole, EnsureHba,
     BaseBackup, At
<1>6. DeployStep(c)
  BY <1>2, <1>3, <1>4 DEF ClientStep
<1>. QED BY <1>1, <1>5, <1>6 DEF DeployStep

LEMMA DeployMoves ==
  ASSUME Inv, NEW c \in Clients, InFlight(c), cl[c].op = "deploy", Takes(c)
  PROVE  DeployGoesOn(c, cl[c].dir)
<1> DEFINE d == cl[c].dir
<1>0. cl \in [Clients -> Client] /\ srv \in [Dirs -> Ports \cup {None}]
  BY DEF Inv, TypeOK, HostTypeOK
<1>1. cl[c] \in Client /\ d \in Dirs
  BY <1>0 DEF Inv, CallsWellFormed
<1>2. /\ \A point : Go(c, point) => cl'[c].at = point /\ cl'[c].port = cl[c].port
      /\ \A end : Return(c, end) => cl'[c].at = end /\ cl'[c].port = None
  BY <1>0, <1>1 DEF Go, Return, Idle, Client
<1>3. CASE CutStep(c) /\ ~ClientStep(c)
  <2>1. Return(c, "fail")
    <3>1. cl[c].at # "destroy.stop"
      BY DEF Inv, CallsWellFormed, OnTrack
    <3>. QED BY <1>3, <3>1 DEF CutStep, At
  <2>. QED BY <1>2, <2>1 DEF DeployGoesOn
<1>4. CASE ChoosePort(c)
  <2>1. ASSUME NEW p \in Ports, cl' = [cl EXCEPT ![c].port = p, ![c].at = "init"]
        PROVE  cl'[c].at = "init" /\ cl'[c].port \in Ports
    BY <1>0, <1>1, <2>1 DEF Client
  <2>2. cl[c].at = "port" /\ ResolvePort(c, "init")
    BY <1>4 DEF ChoosePort, At
  <2>. QED BY <1>2, <2>1, <2>2 DEF ResolvePort, FreePort, DeployGoesOn
<1>5. CASE InitDb(c)
  BY <1>2, <1>5 DEF InitDb, At, DeployGoesOn
<1>6. CASE LaunchDeployed(c)
  <2>1. ServerUp(d, cl[c].port) => srv'[d] = cl[c].port
    BY <1>0, <1>1 DEF ServerUp
  <2>. QED BY <1>2, <1>6, <2>1 DEF LaunchDeployed, PgCtlStart, At, DeployGoesOn
<1>7. CASE SaveDeployed(c)
  <2>1. cl[c].at = "save" /\ UNCHANGED srv /\ (Return(c, "ok") \/ Return(c, "fail"))
    BY <1>7 DEF SaveDeployed, Save, Quiet, host, At
  <2>. QED BY <1>2, <2>1 DEF DeployGoesOn
<1>. QED BY <1>3, <1>4, <1>5, <1>6, <1>7, DeploysOwnStep DEF Takes

\* The server of the throwaway is on the port the report was told.
Answers(c) == rep[c].port # None /\ srv[rep[c].dir] = rep[c].port

Delivered(c) ==
  /\ rep[c].at = "deploy" =>
       /\ InFlight(c) /\ cl[c].at # "port" => rep[c].port = cl[c].port
       /\ InFlight(c) /\ cl[c].at = "save" => Answers(c)
       /\ ~InFlight(c) /\ cl[c].at = "ok" => Answers(c)
  /\ rep[c].at \in {"load", "render"} => Answers(c)
  /\ rep[c].at = "render" => loaded[rep[c].dir] = c
  /\ rep[c].at = "write" => rep[c].html = c

PageInv ==
  /\ OwnInv
  /\ \A c \in Clients : page[c] \in {c, "nothing"}
  /\ \A c \in Clients : Reporting(c) => Delivered(c)

\* What happens elsewhere: of the throwaway d the server stays, and while there
\* is one, what is loaded.
Untouched(d) ==
  srv'[d] = srv[d] /\ (srv'[d] # None => loaded'[d] = loaded[d])

LEMMA StillDelivered ==
  ASSUME NEW c \in Clients, Delivered(c), rep'[c] = rep[c], cl'[c] = cl[c],
         Untouched(rep[c].dir)
  PROVE  Delivered(c)'
BY DEF Delivered, Answers, Untouched, InFlight

\* One report or command moves.
LEMMA PageStays ==
  ASSUME PageInv, OwnInv', NEW c \in Clients,
         \A b \in Clients \ {c} : /\ cl'[b] = cl[b] /\ rep'[b] = rep[b]
                                  /\ page'[b] = page[b]
                                  /\ Reporting(b) => Untouched(rep[b].dir),
         page'[c] \in {c, "nothing"}, Reporting(c)' => Delivered(c)'
  PROVE  PageInv'
<1>1. ASSUME NEW b \in Clients, Reporting(b)' PROVE Delivered(b)'
  <2>1. CASE b = c
    BY <1>1, <2>1
  <2>2. CASE b # c
    <3>1. Reporting(b) /\ rep'[b] = rep[b] /\ cl'[b] = cl[b] /\ Untouched(rep[b].dir)
      BY <1>1, <2>2 DEF Reporting
    <3>. QED BY <3>1, StillDelivered DEF PageInv
  <2>. QED BY <2>1, <2>2
<1>2. \A b \in Clients : page'[b] \in {b, "nothing"}
  BY DEF PageInv
<1>. QED BY <1>1, <1>2 DEF PageInv

\* A data directory with a server on it is there, so what was loaded into it is.
LEMMA KeepsLoaded ==
  ASSUME OwnInv', Kept, NEW d \in Dirs, srv'[d] = srv[d]
  PROVE  Untouched(d)
<1>1. srv'[d] # None => disk'[d].data # "absent"
  BY DEF OwnInv, LifeInv, Sane, Coherent, Complete
<1>. QED BY <1>1 DEF Kept, Untouched

LEMMA DeployDelivers ==
  ASSUME OwnInv, NEW c \in Clients, Reporting(c), Delivered(c), CalledStep(c),
         rep[c].at = "deploy"
  PROVE  Delivered(c)'
<1>1. Takes(c) /\ InFlight(c) /\ InItsCall(c)
  BY TakenOwn, MyOwn DEF CalledStep, Takes
<1>2. cl[c].op = "deploy" /\ cl[c].dir = rep[c].dir
  BY <1>1 DEF InItsCall
<1>3. DeployGoesOn(c, rep[c].dir)
  BY <1>1, <1>2, DeployMoves DEF OwnInv, LifeInv
<1>4. cl[c].at \in {"init", "launch", "save"} => cl[c].port \in Ports
  BY <1>1 DEF OwnInv, LifeInv, Inv, TypeOK, CallsWellFormed, Knows, Client
<1>5. /\ rep'[c].at = "deploy" /\ rep'[c].dir = rep[c].dir
      /\ rep'[c].port = IF cl'[c].port # None THEN cl'[c].port ELSE rep[c].port
  BY DEF CalledStep, OwnInv, RepInv, Report
<1>6. CASE cl'[c].at = "fail"
  BY <1>5, <1>6 DEF Delivered, InFlight, Ends
<1>7. CASE cl[c].at = "port" /\ cl'[c].at = "init" /\ cl'[c].port \in Ports
  BY <1>5, <1>7, NoneAssumption DEF Delivered, InFlight, Ends
<1>8. CASE cl[c].at = "init" /\ cl'[c].at = "launch" /\ cl'[c].port = cl[c].port
  BY <1>4, <1>5, <1>8, NoneAssumption DEF Delivered, InFlight, Ends
<1>9. CASE /\ cl[c].at = "launch" /\ cl'[c].at = "save" /\ cl'[c].port = cl[c].port
           /\ srv'[rep[c].dir] = cl[c].port
  BY <1>4, <1>5, <1>9, NoneAssumption DEF Delivered, Answers, InFlight, Ends
<1>10. CASE /\ cl[c].at = "save" /\ cl'[c].at = "ok" /\ cl'[c].port = None
            /\ srv'[rep[c].dir] = srv[rep[c].dir]
  BY <1>1, <1>5, <1>10 DEF Delivered, Answers, InFlight, Ends
<1>. QED BY <1>3, <1>6, <1>7, <1>8, <1>9, <1>10 DEF DeployGoesOn

\* So does the code a report is in.
LEMMA CalledMoves ==
  ASSUME OwnInv, NEW c \in Clients, CalledStep(c)
  PROVE  /\ Takes(c) /\ InFlight(c) /\ Reporting(c) /\ InItsCall(c)
         /\ cl[c].dir = rep[c].dir /\ rep[c].dir \in Dirs
         /\ rep'[c].at = rep[c].at /\ rep'[c].dir = rep[c].dir
         /\ \A b \in Clients \ {c} : cl'[b] = cl[b] /\ rep'[b] = rep[b]
         /\ \A b \in Clients \ {c} : Reporting(b) =>
              disk'[rep[b].dir] = disk[rep[b].dir] /\ srv'[rep[b].dir] = srv[rep[b].dir]
<1>1. Takes(c) /\ Reporting(c)
  BY DEF CalledStep, Takes
<1>2. /\ InFlight(c) /\ Elsewhere(cl[c].dir) /\ InItsCall(c) /\ rep[c].dir \in Dirs
      /\ \A b \in Clients \ {c} : cl'[b] = cl[b]
  BY <1>1, TakenOwn, MyOwn
<1>3. /\ rep'[c].at = rep[c].at /\ rep'[c].dir = rep[c].dir
      /\ \A b \in Clients \ {c} : rep'[b] = rep[b]
  BY DEF CalledStep, OwnInv, RepInv, Report
<1>4. \A b \in Clients \ {c} : Reporting(b) => rep[b].dir \in Dirs \ {cl[c].dir}
  BY <1>1, <1>2 DEF OwnInv, RepInv, ReportsApart
<1>. QED BY <1>1, <1>2, <1>3, <1>4 DEF InItsCall, Elsewhere

LEMMA CalledStepPage ==
  ASSUME PageInv, OwnInv', NEW c \in Clients, CalledStep(c)
  PROVE  PageInv'
<1>1. Kept /\ UNCHANGED page /\ OwnInv
  BY DEF CalledStep, PageInv
<1>2. /\ InFlight(c) /\ Reporting(c) /\ InItsCall(c) /\ rep'[c].at = rep[c].at
      /\ \A b \in Clients \ {c} : cl'[b] = cl[b] /\ rep'[b] = rep[b]
  BY <1>1, CalledMoves
<1>3. ASSUME NEW b \in Clients \ {c}, Reporting(b) PROVE Untouched(rep[b].dir)
  <2>1. rep[b].dir \in Dirs /\ srv'[rep[b].dir] = srv[rep[b].dir]
    BY <1>1, <1>3, CalledMoves DEF OwnInv, RepInv
  <2>. QED BY <1>1, <2>1, KeepsLoaded
<1>4. Delivered(c)'
  <2>1. CASE rep[c].at = "deploy"
    BY <1>1, <1>2, <2>1, DeployDelivers DEF PageInv
  <2>2. CASE rep[c].at # "deploy"
    BY <1>2, <2>2 DEF InItsCall, Delivered
  <2>. QED BY <2>1, <2>2
<1>. QED BY <1>1, <1>2, <1>3, <1>4, PageStays DEF PageInv

\* A report moves on, and leaves what others loaded.
LEMMA PageMoves ==
  ASSUME PageInv, OwnInv', NEW c \in Clients, Reporting(c), UNCHANGED srv,
         \A b \in Clients \ {c} : cl'[b] = cl[b],
         NEW k, rep' = [rep EXCEPT ![c] = k],
         \A e \in Dirs \ {rep[c].dir} : loaded'[e] = loaded[e],
         UNCHANGED page \/ page' = [page EXCEPT ![c] = c],
         Reporting(c)' => Delivered(c)'
  PROVE  PageInv'
<1>1. \A b \in Clients \ {c} : Reporting(b) => rep[b].dir \in Dirs \ {rep[c].dir}
  BY DEF PageInv, OwnInv, RepInv, ReportsApart
<1>2. /\ page'[c] \in {c, "nothing"}
      /\ \A b \in Clients \ {c} : page'[b] = page[b] /\ rep'[b] = rep[b]
  BY DEF PageInv, OwnInv, RepInv
<1>. QED BY <1>1, <1>2, PageStays DEF Untouched

LEMMA LeftoverPage ==
  ASSUME PageInv, OwnInv', NEW c \in Clients, Reporting(c), Leftover(c),
         UNCHANGED <<loaded, page>>
  PROVE  PageInv'
<1>1. rep[c] \in Report /\ rep \in [Clients -> Report] /\ cl \in [Clients -> Client]
  BY DEF PageInv, OwnInv, RepInv, Inv, TypeOK
<1>2. UNCHANGED srv /\ \A b \in Clients \ {c} : cl'[b] = cl[b]
  BY <1>1 DEF Leftover, Quiet, host, Enter
<1>3. \E k \in Report : rep' = [rep EXCEPT ![c] = k] /\ k.at \in {"fail", "undo"}
  <2> DEFINE k1 == [rep[c] EXCEPT !.at = "fail", !.told = TRUE]
             k2 == [rep[c] EXCEPT !.at = "undo"]
  <2>1. k1 \in Report /\ k2 \in Report /\ k1.at = "fail" /\ k2.at = "undo"
    BY <1>1 DEF Report, ReportPoints, Ends
  <2>2. rep' = [rep EXCEPT ![c] = k1] \/ rep' = [rep EXCEPT ![c] = k2]
    BY DEF Leftover
  <2> HIDE DEF k1, k2
  <2>. QED BY <2>1, <2>2
<1>4. PICK k \in Report : rep' = [rep EXCEPT ![c] = k] /\ k.at \in {"fail", "undo"}
  BY <1>3
<1>5. Delivered(c)'
  BY <1>1, <1>4 DEF Delivered
<1>. QED BY <1>2, <1>4, <1>5, PageMoves

LEMMA LoadPage ==
  ASSUME PageInv, OwnInv', NEW c \in Clients, Load(c)
  PROVE  PageInv'
<1>1. /\ Reporting(c) /\ Answers(c) /\ ReportAt(c, "load") /\ UNCHANGED page
      /\ rep[c] \in Report /\ rep \in [Clients -> Report] /\ rep[c].dir \in Dirs
      /\ OnePerPort /\ loaded \in [Dirs -> Clients \cup {None}]
  BY DEF Load, ReportAt, Reporting, Ends, PageInv, Delivered, OwnInv, RepInv, LifeInv
<1>2. CASE UNCHANGED loaded /\ Leftover(c)
  BY <1>1, <1>2, LeftoverPage
<1>3. ASSUME NEW r \in Answering(c), loaded' = [loaded EXCEPT ![r] = c],
             ReportGo(c, "render")
      PROVE  PageInv'
  <2>1. r = rep[c].dir
    BY <1>1, <1>3 DEF Answering, Serving, Answers, OnePerPort
  <2>2. loaded'[rep[c].dir] = c /\ \A e \in Dirs \ {rep[c].dir} : loaded'[e] = loaded[e]
    BY <1>1, <1>3, <2>1
  <2> DEFINE k == [rep[c] EXCEPT !.at = "render"]
  <2>3. k.at = "render" /\ k.dir = rep[c].dir /\ k.port = rep[c].port
    BY <1>1 DEF Report
  <2>4. rep' = [rep EXCEPT ![c] = k] /\ UNCHANGED <<cl, srv>>
    BY <1>3 DEF ReportGo, Quiet, host
  <2> HIDE DEF k
  <2>5. rep'[c] = k
    BY <1>1, <2>4
  <2>6. Delivered(c)'
    BY <1>1, <2>2, <2>3, <2>4, <2>5 DEF Delivered, Answers
  <2>. QED BY <1>1, <2>2, <2>4, <2>6, PageMoves
<1>. QED BY <1>2, <1>3 DEF Load

LEMMA RenderPage ==
  ASSUME PageInv, OwnInv', NEW c \in Clients, Render(c)
  PROVE  PageInv'
<1>1. /\ Reporting(c) /\ Answers(c) /\ loaded[rep[c].dir] = c
      /\ ReportAt(c, "render") /\ UNCHANGED <<loaded, page>>
      /\ rep[c] \in Report /\ rep \in [Clients -> Report] /\ rep[c].dir \in Dirs
      /\ OnePerPort
  BY DEF Render, ReportAt, Reporting, Ends, PageInv, Delivered, OwnInv, RepInv, LifeInv
<1>2. CASE Leftover(c)
  BY <1>1, <1>2, LeftoverPage
<1>3. ASSUME NEW r \in Answering(c), Quiet, UNCHANGED cl,
             rep' = [rep EXCEPT ![c].at = "write", ![c].html = Shown(r)]
      PROVE  PageInv'
  <2>1. Shown(r) = c
    BY <1>1, <1>3, CaptureAssumption DEF Answering, Serving, Answers, OnePerPort, Shown
  <2> DEFINE k == [rep[c] EXCEPT !.at = "write", !.html = c]
  <2>2. k.at = "write" /\ k.html = c
    BY <1>1 DEF Report
  <2>3. rep' = [rep EXCEPT ![c] = k] /\ UNCHANGED srv
    BY <1>3, <2>1 DEF Quiet, host
  <2> HIDE DEF k
  <2>4. Delivered(c)'
    BY <1>1, <2>2, <2>3 DEF Delivered
  <2>. QED BY <1>1, <1>3, <2>3, <2>4, PageMoves
<1>. QED BY <1>2, <1>3 DEF Render

LEMMA WritePage ==
  ASSUME PageInv, OwnInv', NEW c \in Clients, Write(c)
  PROVE  PageInv'
<1>1. /\ Reporting(c) /\ rep[c].html = c /\ ReportAt(c, "write") /\ UNCHANGED loaded
      /\ rep[c] \in Report /\ rep \in [Clients -> Report] /\ cl \in [Clients -> Client]
  BY DEF Write, ReportAt, Reporting, Ends, PageInv, Delivered, OwnInv, RepInv, Inv, TypeOK
<1>2. CASE UNCHANGED page /\ Leftover(c)
  BY <1>1, <1>2, LeftoverPage
<1>3. CASE /\ page' = [page EXCEPT ![c] = rep[c].html]
           /\ rep' = [rep EXCEPT ![c].at = "clean"]
           /\ Enter(c, "destroy", "destroy.load", rep[c].dir)
           /\ Quiet
  <2> DEFINE k == [rep[c] EXCEPT !.at = "clean"]
  <2>1. k.at = "clean"
    BY <1>1 DEF Report
  <2>2. rep' = [rep EXCEPT ![c] = k] /\ UNCHANGED srv
        /\ \A b \in Clients \ {c} : cl'[b] = cl[b]
    BY <1>1, <1>3 DEF Quiet, host, Enter
  <2> HIDE DEF k
  <2>3. Delivered(c)'
    BY <1>1, <2>1, <2>2 DEF Delivered
  <2>. QED BY <1>1, <1>3, <2>2, <2>3, PageMoves
<1>. QED BY <1>2, <1>3 DEF Write

LEMMA DeployedPage ==
  ASSUME PageInv, OwnInv', NEW c \in Clients, Deployed(c)
  PROVE  PageInv'
<1>1. /\ Reporting(c) /\ ReportAt(c, "deploy") /\ Delivered(c) /\ UNCHANGED <<loaded, page>>
      /\ rep[c] \in Report /\ rep \in [Clients -> Report]
  BY DEF Deployed, ReportAt, Reporting, Ends, PageInv, OwnInv, RepInv
<1>2. PICK point \in {"load", "fail"} :
        /\ point = "load" => cl[c].at = "ok"
        /\ ReportGo(c, point)
  BY DEF Deployed
<1> DEFINE k == [rep[c] EXCEPT !.at = point]
<1>3. k.at = point /\ k.dir = rep[c].dir /\ k.port = rep[c].port
  BY <1>1 DEF Report
<1>4. rep' = [rep EXCEPT ![c] = k] /\ UNCHANGED <<cl, srv>>
  BY <1>2 DEF ReportGo, Quiet, host
<1> HIDE DEF k
<1>5. rep'[c] = k
  BY <1>1, <1>4
<1>6. point = "load" => Answers(c)
  BY <1>1, <1>2 DEF Delivered, ReportAt
<1>7. Delivered(c)'
  BY <1>3, <1>4, <1>5, <1>6 DEF Delivered, Answers
<1>. QED BY <1>1, <1>4, <1>7, PageMoves

LEMMA DestroyedPage ==
  ASSUME PageInv, OwnInv', NEW c \in Clients, Destroyed(c)
  PROVE  PageInv'
<1>1. /\ Reporting(c) /\ UNCHANGED <<cl, srv, loaded, page>>
      /\ rep[c] \in Report /\ rep \in [Clients -> Report]
  BY DEF Destroyed, Reporting, Ends, PageInv, OwnInv, RepInv, Quiet, host
<1>2. rep' = [rep EXCEPT ![c].at = IF @ = "clean" THEN "ok" ELSE "fail",
                         ![c].told = cl[c].at = "fail"]
  BY DEF Destroyed
<1>3. PICK at \in Ends : at = IF rep[c].at = "clean" THEN "ok" ELSE "fail"
  BY DEF Ends
<1>4. PICK told \in BOOLEAN : told = (cl[c].at = "fail")
  OBVIOUS
<1> DEFINE k == [rep[c] EXCEPT !.at = at, !.told = told]
<1>5. k.at \in Ends /\ rep' = [rep EXCEPT ![c] = k]
  BY <1>1, <1>2, <1>3, <1>4 DEF Report
<1> HIDE DEF k
<1>6. ~Reporting(c)'
  BY <1>1, <1>5 DEF Reporting
<1>. QED BY <1>1, <1>5, <1>6, PageMoves

LEMMA BeginReportPage ==
  ASSUME PageInv, OwnInv', NEW c \in Clients, BeginReport(c)
  PROVE  PageInv'
<1>1. /\ cl \in [Clients -> Client] /\ rep \in [Clients -> Report]
      /\ \A b \in Clients : page[b] \in {b, "nothing"}
  BY DEF PageInv, OwnInv, RepInv, Inv, TypeOK
<1>2. PICK d \in Dirs, keep \in BOOLEAN :
        /\ rep' = [rep EXCEPT ![c] = [NoReport EXCEPT !.at = "deploy", !.dir = d,
                                                      !.keep = keep]]
        /\ Enter(c, "deploy", "port", d)
  BY DEF BeginReport
<1>3. /\ rep'[c].at = "deploy" /\ cl'[c].at = "port"
      /\ UNCHANGED <<srv, loaded, page>>
      /\ \A b \in Clients \ {c} : cl'[b] = cl[b] /\ rep'[b] = rep[b]
  BY <1>1, <1>2 DEF BeginReport, Enter, NoReport, Quiet, host
<1>4. Delivered(c)'
  BY <1>3 DEF Delivered, InFlight, Ends
<1>. QED BY <1>1, <1>3, <1>4, PageStays DEF Untouched

LEMMA KillReportPage ==
  ASSUME PageInv, OwnInv', NEW c \in Clients, KillReport(c)
  PROVE  PageInv'
<1>1. cl \in [Clients -> Client] /\ rep \in [Clients -> Report]
  BY DEF PageInv, OwnInv, RepInv, Inv, TypeOK
<1>2. /\ Reporting(c) /\ UNCHANGED <<srv, loaded, page>>
      /\ rep' = [rep EXCEPT ![c] = [NoReport EXCEPT !.at = "fail"]]
      /\ \A b \in Clients \ {c} : cl'[b] = cl[b]
  BY <1>1 DEF KillReport, Return, Quiet, host
<1>3. ~Reporting(c)'
  BY <1>1, <1>2 DEF NoReport, Reporting, Ends
<1>. QED BY <1>2, <1>3, PageMoves

LEMMA InterruptPage ==
  ASSUME PageInv, OwnInv', NEW c \in Clients, Interrupt(c)
  PROVE  PageInv'
<1>1. rep[c] \in Report /\ rep \in [Clients -> Report]
  BY DEF PageInv, OwnInv, RepInv
<1>2. /\ Reporting(c) /\ Delivered(c) /\ UNCHANGED <<cl, srv, loaded, page>>
      /\ rep' = [rep EXCEPT ![c].cut = TRUE]
  BY DEF Interrupt, vars, PageInv
<1>3. /\ rep'[c].at = rep[c].at /\ rep'[c].dir = rep[c].dir
      /\ rep'[c].port = rep[c].port /\ rep'[c].html = rep[c].html
  BY <1>1, <1>2 DEF Report
<1>4. Delivered(c)'
  BY <1>2, <1>3 DEF Delivered, Answers, InFlight
<1> DEFINE k == [rep[c] EXCEPT !.cut = TRUE]
<1>5. rep' = [rep EXCEPT ![c] = k]
  BY <1>2
<1> HIDE DEF k
<1>. QED BY <1>2, <1>4, <1>5, PageMoves

\* An ordinary command leaves the reports' throwaways and their own code alone.
LEMMA OrdinaryMoves ==
  ASSUME OwnInv, NEW c \in Clients, OrdinaryStep(c)
  PROVE  /\ \A b \in Clients \ {c} : cl'[b] = cl[b]
         /\ \A b \in Clients \ {c} : Reporting(b) =>
              disk'[rep[b].dir] = disk[rep[b].dir] /\ srv'[rep[b].dir] = srv[rep[b].dir]
<1>1. ~Reporting(c) /\ cl \in [Clients -> Client]
  BY DEF OrdinaryStep, OwnInv, RepInv, Inv, TypeOK
<1>2. /\ \A b \in Clients \ {c} : cl'[b] = cl[b]
      /\ Quiet \/ (InFlight(c) /\ Elsewhere(cl[c].dir))
  <2>1. CASE ClientStep(c)
    BY <1>1, <2>1, TakenOwn DEF Takes
  <2>2. CASE KillClient(c)
    BY <1>1, <2>2 DEF KillClient, Return
  <2>3. CASE BeginCall(c)
    <3>1. ASSUME NEW op, NEW point, NEW d, NEW src, NEW name, NEW port,
                 Begin(c, op, point, d, src, name, port)
          PROVE  Quiet /\ \A b \in Clients \ {c} : cl'[b] = cl[b]
      BY <1>1, <3>1 DEF Begin
    <3>. QED BY <2>3, <3>1 DEF BeginCall, BeginDeploy, BeginLifecycle, BeginDestroy,
         BeginPromote, BeginPublish, BeginSubscribe, BeginSet
  <2>. QED BY <2>1, <2>2, <2>3 DEF OrdinaryStep
<1>3. ASSUME NEW b \in Clients \ {c}, Reporting(b)
      PROVE  disk'[rep[b].dir] = disk[rep[b].dir] /\ srv'[rep[b].dir] = srv[rep[b].dir]
  <2>1. rep[b].dir \in Dirs /\ (InFlight(c) => cl[c].dir # rep[b].dir)
    BY <1>1, <1>3 DEF OwnInv, RepInv, ReportsApart
  <2>. QED BY <1>2, <2>1 DEF Elsewhere, Quiet, host
<1>. QED BY <1>2, <1>3

LEMMA OrdinaryPage ==
  ASSUME PageInv, OwnInv', NEW c \in Clients, OrdinaryStep(c)
  PROVE  PageInv'
<1>1. OwnInv /\ ~Reporting(c) /\ Kept /\ UNCHANGED <<rep, page>>
  BY DEF OrdinaryStep, PageInv
<1>2. \A b \in Clients \ {c} : cl'[b] = cl[b]
  BY <1>1, OrdinaryMoves
<1>3. ASSUME NEW b \in Clients \ {c}, Reporting(b) PROVE Untouched(rep[b].dir)
  <2>1. rep[b].dir \in Dirs /\ srv'[rep[b].dir] = srv[rep[b].dir]
    BY <1>1, <1>3, OrdinaryMoves DEF OwnInv, RepInv
  <2>. QED BY <1>1, <2>1, KeepsLoaded
<1>4. ~Reporting(c)' /\ page'[c] \in {c, "nothing"}
  BY <1>1 DEF Reporting, PageInv
<1>. QED BY <1>1, <1>2, <1>3, <1>4, PageStays

\* No server is killed, and none finds its pidfile gone.
LEMMA MachinePage ==
  ASSUME OwnInv, "server" \notin Faults, Machine
  PROVE  UNCHANGED srv
<1>1. ASSUME NEW d \in Dirs, LocklessExit(d) PROVE FALSE
  BY <1>1 DEF LocklessExit, OwnInv, LifeInv, Sane, Coherent
<1>. QED BY <1>1 DEF Machine, MayFail, FinishPromotion, ReusePid, StrayExit

LEMMA StepPage ==
  ASSUME Disciplined, "server" \notin Faults, PageInv, [ReportNext]_reportVars
  PROVE  PageInv'
<1>1. OwnInv /\ OwnInv' /\ \A c \in Clients : page[c] \in {c, "nothing"}
  BY StepOwn DEF PageInv
<1>2. ASSUME UNCHANGED <<srv, cl, rep, page>>, UNCHANGED loaded \/ Kept
      PROVE  PageInv'
  <2>1. ASSUME NEW c \in Clients, Reporting(c)' PROVE Delivered(c)'
    <3>1. Reporting(c) /\ Delivered(c) /\ rep[c].dir \in Dirs
      BY <1>1, <1>2, <2>1 DEF Reporting, PageInv, OwnInv, RepInv
    <3>2. Untouched(rep[c].dir)
      <4>1. CASE UNCHANGED loaded
        BY <1>2, <4>1 DEF Untouched
      <4>2. CASE Kept
        BY <1>1, <1>2, <3>1, <4>2, KeepsLoaded
      <4>. QED BY <1>2, <4>1, <4>2
    <3>. QED BY <1>2, <3>1, <3>2, StillDelivered
  <2>. QED BY <1>1, <1>2, <2>1 DEF PageInv
<1>3. CASE UNCHANGED reportVars
  BY <1>2, <1>3 DEF reportVars, vars
<1>4. CASE ReportEnvironment
  <2>1. CASE Machine /\ UNCHANGED rep
    BY <1>1, <1>2, <1>4, <2>1, MachinePage DEF ReportEnvironment, Machine
  <2>2. CASE rep' = [c \in Clients |-> IF Reporting(c)
                                       THEN [NoReport EXCEPT !.at = "fail"]
                                       ELSE rep[c]]
    <3>1. \A c \in Clients : ~Reporting(c)'
      BY <2>2 DEF Reporting, NoReport, Ends
    <3>. QED BY <1>1, <1>4, <3>1 DEF ReportEnvironment, PageInv
  <2>. QED BY <1>4, <2>1, <2>2 DEF ReportEnvironment
<1>5. ASSUME NEW c \in Clients, ReportStep(c) PROVE PageInv'
  BY <1>1, <1>5, CalledStepPage, DeployedPage, LoadPage, RenderPage, WritePage,
     DestroyedPage DEF ReportStep
<1>. QED BY <1>1, <1>3, <1>4, <1>5, BeginReportPage, InterruptPage, KillReportPage,
     OrdinaryPage DEF ReportNext

LEMMA AlwaysPage ==
  ASSUME Disciplined, "server" \notin Faults
  PROVE  ReportSpec => []PageInv
<1>1. ReportInit => PageInv
  <2> SUFFICES ASSUME ReportInit PROVE PageInv
    OBVIOUS
  <2>1. \A c \in Clients : ~Reporting(c)
    BY DEF ReportInit, Reporting, NoReport, Ends
  <2>2. \A c \in Clients : page[c] \in {c, "nothing"}
    BY DEF ReportInit
  <2>. QED BY <2>1, <2>2, InitOwn DEF PageInv
<1>2. PageInv /\ [ReportNext]_reportVars => PageInv'
  BY StepPage
<1>. QED BY <1>1, <1>2, PTL DEF ReportSpec

\* The page of a report shows its own capture, whole, or was not written by it:
\* never a page cut short, nor one without data, nor the capture of another
\* report.  Any number of reports and of ordinary commands run at once, are
\* interrupted and killed; a server that is not is the one hypothesis besides
\* the operators' discipline (report.go, Generate).
THEOREM PagesAreOwn ==
  ASSUME Disciplined, "server" \notin Faults
  PROVE  ReportSpec => []ReportIsOwn
<1>1. PageInv => ReportIsOwn
  BY DEF PageInv, ReportIsOwn
<1>. QED BY <1>1, AlwaysPage, PTL

LEMMA LoadsOwn ==
  ASSUME PageInv, [ReportNext]_reportVars, NEW d \in Dirs,
         loaded'[d] \notin {loaded[d], None}
  PROVE  rep[loaded'[d]].dir = d
<1>1. loaded \in [Dirs -> Clients \cup {None}] /\ OnePerPort
  BY DEF PageInv, OwnInv, RepInv, LifeInv
<1>2. ~Kept /\ loaded' # loaded
  BY <1>1 DEF Kept
<1>3. PICK c \in Clients : Load(c)
  <2>1. \A c \in Clients : ~BeginReport(c) /\ ~Interrupt(c) /\ ~KillReport(c)
                            /\ ~OrdinaryStep(c)
    BY <1>2 DEF BeginReport, Interrupt, KillReport, OrdinaryStep
  <2>2. \A c \in Clients : ~CalledStep(c) /\ ~Deployed(c) /\ ~Render(c) /\ ~Write(c)
                            /\ ~Destroyed(c)
    BY <1>2 DEF CalledStep, Deployed, Render, Write, Destroyed
  <2>. QED BY <1>2, <2>1, <2>2 DEF ReportNext, reportVars, ReportStep, ReportEnvironment
<1>4. Answers(c) /\ rep[c].dir \in Dirs
  BY <1>3 DEF PageInv, Delivered, OwnInv, RepInv, Load, ReportAt, Reporting, Ends
<1>5. PICK r \in Answering(c) : loaded' = [loaded EXCEPT ![r] = c]
  BY <1>2, <1>3 DEF Load
<1>6. r = rep[c].dir
  BY <1>1, <1>4, <1>5 DEF Answering, Serving, Answers, OnePerPort
<1>. QED BY <1>1, <1>5, <1>6

\* psql is sent to a port, and reaches the throwaway of its own report
\* (report.go, Generate).
THEOREM LoadsGoToOwn ==
  ASSUME Disciplined, "server" \notin Faults
  PROVE  ReportSpec => LoadsOwnThrowaway
<1>1. PageInv /\ [ReportNext]_reportVars =>
        [\A d \in Dirs : loaded'[d] \notin {loaded[d], None} =>
           rep[loaded'[d]].dir = d]_reportVars
  BY LoadsOwn
<1>. QED BY <1>1, AlwaysPage, PTL DEF ReportSpec, LoadsOwnThrowaway

-----------------------------------------------------------------------------
\* From the destroy of a throwaway to what the user is told of it

\* A destroy that succeeded left nothing there, and one that cleans up after a
\* failure has stopped the server by the time it removes the directory.
Gone(c) ==
  /\ cl[c].at = "ok" => ~disk[rep[c].dir].made
  /\ rep[c].at = "undo" /\ "child" \notin Faults => HasStopped(c)

CleansUp(c) == rep[c].at \in {"undo", "clean"}

GoneInv == OwnInv /\ \A c \in Clients : CleansUp(c) => Gone(c)

LEMMA DestroyEnds ==
  ASSUME Inv, NEW c \in Clients, InFlight(c), cl[c].op = "destroy", Takes(c),
         cl'[c].at = "ok"
  PROVE  ~disk'[cl[c].dir].made
<1>1. /\ cl \in [Clients -> Client] /\ cl[c].dir \in Dirs /\ disk \in [Dirs -> Files]
      /\ cl[c].at \notin {"init", "launch"}
  BY DEF Inv, TypeOK, HostTypeOK, CallsWellFormed, OnTrack
<1>2. /\ \A point : Go(c, point) => cl'[c].at = point
      /\ \A end : Return(c, end) => cl'[c].at = end
  BY <1>1 DEF Go, Return, Idle, Client
<1>3. ClientStep(c)
  BY <1>1, <1>2 DEF Takes, CutStep, At
<1>4. DestroyStep(c)
  BY <1>3, DestroysOwnStep
<1>5. CASE DestroyLoad(c)
  <2>1. ASSUME NEW cfg, NEW at, cl' = [cl EXCEPT ![c].cfg = cfg, ![c].at = at]
        PROVE  cl'[c].at = at
    BY <1>1, <2>1 DEF Client
  <2>. QED BY <1>2, <1>5, <2>1 DEF DestroyLoad
<1>6. CASE SlotLoad(c)
  <2>1. ASSUME NEW peer, NEW at, cl' = [cl EXCEPT ![c].peer = peer, ![c].at = at]
        PROVE  cl'[c].at = at
    BY <1>1, <2>1 DEF Client
  <2>. QED BY <1>2, <1>6, <2>1 DEF SlotLoad, SlotDone
<1>7. CASE DropSubscription(c) \/ DestroyStop(c) \/ SlotDrop(c)
  BY <1>2, <1>7 DEF DropSubscription, DestroyStop, SlotDrop, SlotDone
<1>8. CASE DestroyRemove(c)
  <2>1. Removed(cl[c].dir, NoFiles)
    BY <1>2, <1>8 DEF DestroyRemove
  <2>. QED BY <1>1, <2>1 DEF Removed, NoFiles
<1>. QED BY <1>4, <1>5, <1>6, <1>7, <1>8 DEF DestroyStep

LEMMA CalledGone ==
  ASSUME OwnInv, NEW c \in Clients, CleansUp(c), Gone(c), CalledStep(c)
  PROVE  /\ Gone(c)'
         /\ rep[c].at = "undo" /\ "child" \notin Faults => strays' = strays
<1>1. /\ Takes(c) /\ InFlight(c) /\ cl[c].op = "destroy" /\ cl[c].dir = rep[c].dir
      /\ rep'[c].at = rep[c].at /\ rep'[c].dir = rep[c].dir
  BY CalledMoves DEF InItsCall, CleansUp
<1>2. Inv /\ LifeInv
  BY DEF OwnInv, LifeInv
<1>3. cl'[c].at = "ok" => ~disk'[rep[c].dir].made
  BY <1>1, <1>2, DestroyEnds
<1>4. ASSUME rep[c].at = "undo", "child" \notin Faults
      PROVE  HasStopped(c)' /\ strays' = strays
  <2>1. HasStopped(c) /\ ClientStep(c)
    BY <1>4 DEF Gone, CalledStep, Detached
  <2>2. DestroyStep(c)
    BY <1>1, <1>2, <2>1, DestroysOwnStep
  <2>3. InFlight(c)' => /\ ~Return(c, "ok") /\ ~Return(c, "fail")
                        /\ cl'[c].dir = cl[c].dir
    BY <1>1, <1>2, TakenOwn DEF Return, Idle, InFlight, Ends, Inv, TypeOK
  <2>. QED BY <1>1, <1>2, <1>4, <2>1, <2>2, <2>3, StopsFirst DEF HasStopped
<1>. QED BY <1>1, <1>3, <1>4 DEF Gone

\* What happens elsewhere, and what happens to the server of a throwaway alone.
LEMMA StillGone ==
  ASSUME OwnInv, NEW c \in Clients, CleansUp(c), Gone(c), cl'[c] = cl[c],
         rep'[c].at = rep[c].at, rep'[c].dir = rep[c].dir,
         disk'[rep[c].dir].made = disk[rep[c].dir].made,
         srv'[rep[c].dir] \in {srv[rep[c].dir], None}
  PROVE  Gone(c)'
<1>1. InFlight(c) => cl[c].dir = rep[c].dir
  BY MyOwn DEF InItsCall, CleansUp, Reporting, Ends
<1>. QED BY <1>1 DEF Gone, HasStopped, InFlight

LEMMA GoneStays ==
  ASSUME GoneInv, OwnInv', NEW c \in Clients,
         \A b \in Clients \ {c} :
           /\ cl'[b] = cl[b] /\ rep'[b] = rep[b]
           /\ Reporting(b) => /\ disk'[rep[b].dir] = disk[rep[b].dir]
                              /\ srv'[rep[b].dir] = srv[rep[b].dir],
         CleansUp(c)' => Gone(c)'
  PROVE  GoneInv'
<1>1. ASSUME NEW b \in Clients, CleansUp(b)' PROVE Gone(b)'
  <2>1. CASE b = c
    BY <1>1, <2>1
  <2>2. CASE b # c
    <3>1. CleansUp(b) /\ Reporting(b)
      BY <1>1, <2>2 DEF CleansUp, Reporting, Ends
    <3>. QED BY <2>2, <3>1, StillGone DEF GoneInv
  <2>. QED BY <2>1, <2>2
<1>. QED BY <1>1 DEF GoneInv

\* A report moves on between two calls, or into the code of destroy.
LEMMA BetweenGone ==
  ASSUME GoneInv, OwnInv', NEW c \in Clients, Quiet,
         \A b \in Clients \ {c} : cl'[b] = cl[b],
         NEW k, rep' = [rep EXCEPT ![c] = k],
         k.at \in {"undo", "clean"} => cl'[c].at = "destroy.load"
  PROVE  GoneInv'
<1>1. rep'[c] = k /\ \A b \in Clients \ {c} : rep'[b] = rep[b]
  BY DEF GoneInv, OwnInv, RepInv
<1>2. CleansUp(c)' => Gone(c)'
  BY <1>1 DEF CleansUp, Gone, HasStopped
<1>. QED BY <1>1, <1>2, GoneStays DEF Quiet, host

LEMMA LeftoverGone ==
  ASSUME GoneInv, OwnInv', NEW c \in Clients, Leftover(c)
  PROVE  GoneInv'
<1>1. rep[c] \in Report /\ cl \in [Clients -> Client]
  BY DEF GoneInv, OwnInv, RepInv, Inv, TypeOK
<1>2. CASE rep' = [rep EXCEPT ![c].at = "fail", ![c].told = TRUE] /\ UNCHANGED cl
  <2> DEFINE k == [rep[c] EXCEPT !.at = "fail", !.told = TRUE]
  <2>1. k.at = "fail" /\ rep' = [rep EXCEPT ![c] = k]
    BY <1>1, <1>2 DEF Report
  <2> HIDE DEF k
  <2>. QED BY <1>2, <2>1, BetweenGone DEF Leftover
<1>3. CASE /\ rep' = [rep EXCEPT ![c].at = "undo"]
           /\ Enter(c, "destroy", "destroy.load", rep[c].dir)
  <2>1. cl'[c].at = "destroy.load" /\ \A b \in Clients \ {c} : cl'[b] = cl[b]
    BY <1>1, <1>3 DEF Enter
  <2> DEFINE k == [rep[c] EXCEPT !.at = "undo"]
  <2>2. rep' = [rep EXCEPT ![c] = k]
    BY <1>3
  <2> HIDE DEF k
  <2>. QED BY <2>1, <2>2, BetweenGone DEF Leftover
<1>. QED BY <1>2, <1>3 DEF Leftover

LEMMA BetweenCallsGone ==
  ASSUME GoneInv, OwnInv', NEW c \in Clients,
         \/ Deployed(c) \/ Load(c) \/ Render(c) \/ Write(c) \/ Destroyed(c)
         \/ BeginReport(c) \/ KillReport(c)
  PROVE  GoneInv'
<1>1. rep[c] \in Report /\ cl \in [Clients -> Client]
  BY DEF GoneInv, OwnInv, RepInv, Inv, TypeOK
<1>2. ASSUME NEW point, point \notin {"undo", "clean"}, ReportGo(c, point) PROVE GoneInv'
  <2> DEFINE k == [rep[c] EXCEPT !.at = point]
  <2>1. k.at = point /\ rep' = [rep EXCEPT ![c] = k]
    BY <1>1, <1>2 DEF ReportGo, Report
  <2> HIDE DEF k
  <2>. QED BY <1>2, <2>1, BetweenGone DEF ReportGo
<1>3. CASE Deployed(c) \/ Load(c)
  BY <1>2, <1>3, LeftoverGone DEF Deployed, Load
<1>4. CASE Render(c)
  <2>1. ASSUME NEW html, rep' = [rep EXCEPT ![c].at = "write", ![c].html = html],
               Quiet, UNCHANGED cl
        PROVE  GoneInv'
    <3> DEFINE k == [rep[c] EXCEPT !.at = "write", !.html = html]
    <3>1. k.at = "write" /\ rep' = [rep EXCEPT ![c] = k]
      BY <1>1, <2>1 DEF Report
    <3> HIDE DEF k
    <3>. QED BY <2>1, <3>1, BetweenGone
  <2>. QED BY <1>4, <2>1, LeftoverGone DEF Render
<1>5. CASE Write(c)
  <2>1. CASE /\ rep' = [rep EXCEPT ![c].at = "clean"] /\ Quiet
             /\ Enter(c, "destroy", "destroy.load", rep[c].dir)
    <3>1. cl'[c].at = "destroy.load" /\ \A b \in Clients \ {c} : cl'[b] = cl[b]
      BY <1>1, <2>1 DEF Enter
    <3> DEFINE k == [rep[c] EXCEPT !.at = "clean"]
    <3>2. rep' = [rep EXCEPT ![c] = k]
      BY <2>1
    <3> HIDE DEF k
    <3>. QED BY <2>1, <3>1, <3>2, BetweenGone
  <2>. QED BY <1>5, <2>1, LeftoverGone DEF Write
<1>6. CASE Destroyed(c)
  <2>1. PICK at \in Ends : at = IF rep[c].at = "clean" THEN "ok" ELSE "fail"
    BY DEF Ends
  <2>2. PICK told \in BOOLEAN : told = (cl[c].at = "fail")
    OBVIOUS
  <2> DEFINE k == [rep[c] EXCEPT !.at = at, !.told = told]
  <2>3. k.at = at /\ at \notin {"undo", "clean"}
    BY <1>1, <2>1 DEF Report, Ends
  <2>4. rep' = [rep EXCEPT ![c] = k]
    BY <1>6, <2>1, <2>2 DEF Destroyed
  <2> HIDE DEF k
  <2>. QED BY <1>6, <2>3, <2>4, BetweenGone DEF Destroyed
<1>7. CASE BeginReport(c)
  <2>1. PICK d \in Dirs, keep \in BOOLEAN :
          /\ rep' = [rep EXCEPT ![c] = [NoReport EXCEPT !.at = "deploy", !.dir = d,
                                                        !.keep = keep]]
          /\ Enter(c, "deploy", "port", d)
    BY <1>7 DEF BeginReport
  <2> DEFINE k == [NoReport EXCEPT !.at = "deploy", !.dir = d, !.keep = keep]
  <2>2. k.at = "deploy" /\ rep' = [rep EXCEPT ![c] = k]
    BY <2>1 DEF NoReport
  <2>3. \A b \in Clients \ {c} : cl'[b] = cl[b]
    BY <1>1, <2>1 DEF Enter
  <2> HIDE DEF k
  <2>. QED BY <1>7, <2>2, <2>3, BetweenGone DEF BeginReport
<1>8. CASE KillReport(c)
  <2> DEFINE k == [NoReport EXCEPT !.at = "fail"]
  <2>1. k.at = "fail" /\ rep' = [rep EXCEPT ![c] = k] /\ Quiet
        /\ \A b \in Clients \ {c} : cl'[b] = cl[b]
    BY <1>1, <1>8 DEF KillReport, NoReport, Return
  <2> HIDE DEF k
  <2>. QED BY <2>1, BetweenGone
<1>. QED BY <1>3, <1>4, <1>5, <1>6, <1>7, <1>8

LEMMA MachineGone ==
  ASSUME HostTypeOK, Machine, NEW d \in Dirs
  PROVE  disk'[d].made = disk[d].made /\ srv'[d] \in {srv[d], None}
<1>1. ASSUME NEW e \in Dirs,
             FinishPromotion(e) \/ KillServer(e) \/ ReusePid(e) \/ LocklessExit(e)
      PROVE  disk'[d].made = disk[d].made /\ srv'[d] \in {srv[d], None}
  BY <1>1 DEF HostTypeOK, Files, FinishPromotion, KillServer, ReusePid, LocklessExit,
     ServerDown
<1>. QED BY <1>1 DEF Machine, StrayExit

LEMMA StepGone ==
  ASSUME Disciplined, GoneInv, [ReportNext]_reportVars
  PROVE  GoneInv'
<1>1. OwnInv /\ OwnInv' /\ HostTypeOK
  BY StepOwn DEF GoneInv, OwnInv, RepInv, Inv, TypeOK
<1>2. ASSUME UNCHANGED cl,
             \A c \in Clients : rep'[c].at = rep[c].at /\ rep'[c].dir = rep[c].dir,
             \A d \in Dirs : disk'[d].made = disk[d].made /\ srv'[d] \in {srv[d], None}
      PROVE  GoneInv'
  <2>1. ASSUME NEW c \in Clients, CleansUp(c)' PROVE Gone(c)'
    <3>1. CleansUp(c) /\ Gone(c) /\ rep[c].dir \in Dirs
      BY <1>1, <1>2, <2>1 DEF CleansUp, GoneInv, OwnInv, RepInv, Reporting, Ends
    <3>. QED BY <1>1, <1>2, <3>1, StillGone
  <2>. QED BY <1>1, <2>1 DEF GoneInv
<1>3. CASE UNCHANGED reportVars
  BY <1>2, <1>3 DEF reportVars, vars
<1>4. ASSUME NEW c \in Clients, Interrupt(c) PROVE GoneInv'
  <2>1. \A b \in Clients : rep'[b].at = rep[b].at /\ rep'[b].dir = rep[b].dir
    BY <1>1, <1>4 DEF Interrupt, OwnInv, RepInv, Report
  <2>. QED BY <1>2, <1>4, <2>1 DEF Interrupt, vars
<1>5. CASE ReportEnvironment
  <2>1. CASE Machine /\ UNCHANGED rep
    BY <1>1, <1>2, <2>1, MachineGone DEF Machine
  <2>2. CASE rep' = [c \in Clients |-> IF Reporting(c)
                                       THEN [NoReport EXCEPT !.at = "fail"]
                                       ELSE rep[c]]
    <3>1. \A c \in Clients : ~CleansUp(c)'
      BY <2>2 DEF CleansUp, Reporting, NoReport, Ends
    <3>. QED BY <1>1, <3>1 DEF GoneInv
  <2>. QED BY <1>5, <2>1, <2>2 DEF ReportEnvironment
<1>6. ASSUME NEW c \in Clients, CalledStep(c) PROVE GoneInv'
  <2>1. CleansUp(c)' => Gone(c)'
    BY <1>1, <1>6, CalledMoves, CalledGone DEF CleansUp, GoneInv
  <2>. QED BY <1>1, <1>6, <2>1, CalledMoves, GoneStays
<1>7. ASSUME NEW c \in Clients, OrdinaryStep(c) PROVE GoneInv'
  <2>1. UNCHANGED rep /\ ~CleansUp(c)'
    BY <1>7 DEF OrdinaryStep, Reporting, CleansUp, Ends
  <2>. QED BY <1>1, <1>7, <2>1, OrdinaryMoves, GoneStays
<1>. QED BY <1>1, <1>3, <1>4, <1>5, <1>6, <1>7, BetweenCallsGone
     DEF ReportNext, ReportStep

LEMMA AlwaysGone == ASSUME Disciplined PROVE ReportSpec => []GoneInv
<1>1. ReportInit => GoneInv
  <2> SUFFICES ASSUME ReportInit PROVE GoneInv
    OBVIOUS
  <2>1. \A c \in Clients : ~CleansUp(c)
    BY DEF ReportInit, CleansUp, NoReport
  <2>. QED BY <2>1, InitOwn DEF GoneInv
<1>2. GoneInv /\ [ReportNext]_reportVars => GoneInv'
  BY StepGone
<1>. QED BY <1>1, <1>2, PTL DEF ReportSpec

\* The two ways a report ends that got its throwaway deployed and is not killed:
\* the user is told of the throwaway, or it was destroyed before.
LEMMA EndsHow ==
  ASSUME OwnInv, ReportNext, NEW c \in Clients, NEW outcome \in Ends,
         Reported(c, outcome), rep[c].at # "deploy"
  PROVE  rep'[c].told \/ (CleansUp(c) /\ Destroyed(c))
<1>1. /\ rep[c] \in Report /\ rep \in [Clients -> Report] /\ Reporting(c)
      /\ rep'[c].at \in Ends /\ rep'[c].at # rep[c].at /\ rep'[c].dir # None
  BY DEF OwnInv, RepInv, Reported, Reporting
<1>2. ASSUME NEW b \in Clients
      PROVE  ~CalledStep(b) /\ ~OrdinaryStep(b) /\ ~Interrupt(b)
  <2>1. ~CalledStep(b)
    BY <1>1, CalledMoves
  <2>2. ~OrdinaryStep(b)
    BY <1>1 DEF OrdinaryStep
  <2>3. ~Interrupt(b)
    BY <1>1 DEF Interrupt, Report
  <2>. QED BY <2>1, <2>2, <2>3
<1>3. ASSUME NEW b \in Clients PROVE ~BeginReport(b) /\ ~KillReport(b)
  <2>1. ~BeginReport(b)
    BY <1>1 DEF BeginReport
  <2>2. ~KillReport(b)
    BY <1>1 DEF KillReport, NoReport
  <2>. QED BY <2>1, <2>2
<1>4. ~ReportEnvironment
  BY <1>1 DEF ReportEnvironment, NoReport
<1>5. PICK b \in Clients :
        Deployed(b) \/ Load(b) \/ Render(b) \/ Write(b) \/ Destroyed(b)
  BY <1>2, <1>3, <1>4 DEF ReportNext, ReportStep
<1>6. \A a \in Clients \ {b} : rep'[a] = rep[a]
  BY <1>1, <1>5 DEF Deployed, Load, Render, Write, Destroyed, ReportGo, Leftover
<1>7. b = c
  BY <1>1, <1>6
<1>8. ASSUME Leftover(c) PROVE rep'[c].told
  BY <1>1, <1>8 DEF Leftover, Report, Ends
<1>9. ASSUME Load(c) \/ Render(c) \/ Write(c) PROVE rep'[c].told
  <2>1. CASE Load(c)
    BY <1>1, <1>8, <2>1 DEF Load, ReportGo, Report, Ends
  <2>2. CASE Render(c)
    BY <1>1, <1>8, <2>2 DEF Render, Report, Ends
  <2>3. CASE Write(c)
    BY <1>1, <1>8, <2>3 DEF Write, Report, Ends
  <2>. QED BY <1>9, <2>1, <2>2, <2>3
<1>. QED BY <1>5, <1>7, <1>9 DEF Deployed, ReportAt, Destroyed, CleansUp

\* Where the user is told nothing, the destroy has succeeded.
LEMMA DestroyedSays ==
  ASSUME GoneInv, NEW c \in Clients, CleansUp(c), Destroyed(c), ~rep'[c].told
  PROVE  ~disk'[rep[c].dir].made /\ disk'[rep[c].dir].cfg = None
<1>1. rep \in [Clients -> Report] /\ rep[c] \in Report /\ rep[c].dir \in Dirs /\ ConfigMade
  BY DEF GoneInv, OwnInv, RepInv, CleansUp, Reporting, Ends
<1>2. rep'[c].told = (cl[c].at = "fail") /\ ~InFlight(c) /\ UNCHANGED disk
  BY <1>1 DEF Destroyed, Quiet, host, Report
<1>3. cl[c].at = "ok"
  BY <1>2 DEF InFlight, Ends
<1>. QED BY <1>1, <1>2, <1>3 DEF GoneInv, Gone, ConfigMade, Made

LEMMA NamesLeftover ==
  ASSUME GoneInv, ReportNext, NEW c \in Clients,
         Reported(c, "ok") \/ Reported(c, "fail"), rep[c].at # "deploy"
  PROVE  rep'[c].told \/ disk'[rep[c].dir].cfg = None
BY EndsHow, DestroyedSays DEF GoneInv, Ends

\* A report that got its throwaway deployed and ends without naming it has left
\* no sandbox behind, whatever is killed, interrupted or fails
\* (cmd/pg_sandbox/report.go, runReport).
THEOREM LeftoversAreNamed ==
  ASSUME Disciplined
  PROVE  ReportSpec => LeftoverIsNamed
<1>1. GoneInv /\ [ReportNext]_reportVars =>
        [\A c \in Clients :
           /\ Reported(c, "ok") \/ Reported(c, "fail")
           /\ rep[c].at # "deploy"
           => rep'[c].told \/ disk'[rep[c].dir].cfg = None]_reportVars
  BY NamesLeftover
<1>. QED BY <1>1, AlwaysGone, PTL DEF ReportSpec, LeftoverIsNamed

\* The cleanup of a failed report leaves no server behind.
LEMMA UndoesQuietly ==
  ASSUME "child" \notin Faults, GoneInv, ReportNext, NEW c \in Clients,
         rep[c].at = "undo", cl'[c] # cl[c]
  PROVE  strays' \subseteq strays
<1>1. OwnInv /\ CleansUp(c) /\ Gone(c) /\ Reporting(c) /\ cl \in [Clients -> Client]
  BY DEF GoneInv, OwnInv, RepInv, Inv, TypeOK, CleansUp, Reporting, Ends
<1>2. CASE Quiet \/ Reboot
  BY <1>2 DEF Quiet, host, Reboot
<1>3. CASE UNCHANGED cl
  BY <1>3
<1>4. ASSUME NEW b \in Clients, CalledStep(b) PROVE strays' \subseteq strays
  <2>1. b = c
    BY <1>1, <1>4, CalledMoves
  <2>. QED BY <1>1, <1>4, <2>1, CalledGone
<1>5. ASSUME NEW b \in Clients, OrdinaryStep(b) PROVE FALSE
  <2>1. b # c
    BY <1>1, <1>5 DEF OrdinaryStep
  <2>2. \A a \in Clients \ {b} : cl'[a] = cl[a]
    BY <1>1, <1>5, OrdinaryMoves
  <2>. QED BY <2>1, <2>2
<1>6. ASSUME NEW b \in Clients,
             \/ Deployed(b) \/ Load(b) \/ Render(b) \/ Write(b) \/ Destroyed(b)
             \/ BeginReport(b) \/ KillReport(b)
      PROVE  Quiet
  BY <1>6 DEF Deployed, Load, Render, Write, Destroyed, BeginReport, KillReport,
     ReportGo, Leftover
<1>7. ASSUME NEW b \in Clients, Interrupt(b) PROVE UNCHANGED cl
  BY <1>7 DEF Interrupt, vars
<1>. QED BY <1>2, <1>3, <1>4, <1>5, <1>6, <1>7
     DEF ReportNext, ReportStep, ReportEnvironment, Machine

\* With --destroy-on-failure a report that fails once its throwaway is deployed
\* removes it, and the cleanup stops the server before it removes the directory,
\* be the report interrupted before or during it.  pg_ctl stop does what it
\* reports (report.go, leftover).
THEOREM FailuresCleanUp ==
  ASSUME Disciplined, "child" \notin Faults
  PROVE  ReportSpec => FailureCleansUp
<1>1. GoneInv /\ [ReportNext]_reportVars =>
        [\A c \in Clients : rep[c].at = "undo" =>
           /\ cl'[c] # cl[c] => strays' \subseteq strays
           /\ Reported(c, "fail") /\ ~rep'[c].told =>
                ~disk'[rep[c].dir].made]_reportVars
  <2>1. ASSUME GoneInv, ReportNext, NEW c \in Clients, rep[c].at = "undo",
               Reported(c, "fail"), ~rep'[c].told
        PROVE  ~disk'[rep[c].dir].made
    BY <2>1, EndsHow, DestroyedSays DEF GoneInv, Ends
  <2>. QED BY <2>1, UndoesQuietly
<1>. QED BY <1>1, AlwaysGone, PTL DEF ReportSpec, FailureCleansUp
=============================================================================
