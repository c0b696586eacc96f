--------------------------- MODULE SandboxProofs ----------------------------
(***************************************************************************)
(* Theorems about SandboxOps, for every value of its constants, that need  *)
(* no discipline of the callers: the commands may overlap in any way. They *)
(* are the types, valid configs, deploys that race for one directory, and  *)
(* publications made beside starts and stops of the same sandbox.          *)
(***************************************************************************)
EXTENDS SandboxProps, TLAPS

\* The inductive invariant behind the theorems of this module.
Inv == TypeOK /\ CallsWellFormed

-----------------------------------------------------------------------------
\* Moving one invocation keeps every invocation well formed.

\* An invocation may be put in any well-formed or ended state.
LEMMA Move ==
  ASSUME Inv, NEW c \in Clients, NEW k \in Client,
         k.at \notin Ends => /\ k.dir \in Dirs
                             /\ OnTrack(k.op, k.at) /\ Knows(k),
         cl' = [cl EXCEPT ![c] = k]
  PROVE  cl' \in [Clients -> Client] /\ CallsWellFormed'
<1>1. cl \in [Clients -> Client]
  BY DEF Inv, TypeOK
<1>2. cl' \in [Clients -> Client]
  BY <1>1
<1>3. ASSUME NEW b \in Clients, InFlight(b)'
      PROVE  /\ cl'[b].dir \in Dirs
             /\ OnTrack(cl'[b].op, cl'[b].at) /\ Knows(cl'[b])
  <2>1. CASE b = c
    <3>1. cl'[b] = k
      BY <2>1, <1>1
    <3>2. k.at \notin Ends
      BY <3>1, <1>3 DEF InFlight
    <3>. QED BY <3>1, <3>2
  <2>2. CASE b # c
    <3>1. cl'[b] = cl[b]
      BY <2>2, <1>1
    <3>2. InFlight(b)
      BY <3>1, <1>3 DEF InFlight
    <3>. QED BY <3>1, <3>2 DEF Inv, CallsWellFormed
  <2>. QED BY <2>1, <2>2
<1>. QED BY <1>2, <1>3 DEF CallsWellFormed

LEMMA ReturnMoves ==
  ASSUME Inv, NEW c \in Clients, NEW outcome \in Ends, Return(c, outcome)
  PROVE  cl' \in [Clients -> Client] /\ CallsWellFormed'
<1> DEFINE k == [Idle EXCEPT !.at = outcome]
<1>1. k \in Client /\ k.at \in Ends
  BY BoundsAssumption DEF Idle, Client, Ends
<1>2. cl' = [cl EXCEPT ![c] = k]
  BY DEF Return
<1>. QED BY <1>1, <1>2, Move

\* Going on to another point of the same command.
LEMMA GoMoves ==
  ASSUME Inv, NEW c \in Clients, NEW point \in Points, InFlight(c),
         OnTrack(cl[c].op, point), Knows([cl[c] EXCEPT !.at = point]),
         Go(c, point)
  PROVE  cl' \in [Clients -> Client] /\ CallsWellFormed'
<1> DEFINE k == [cl[c] EXCEPT !.at = point]
<1>1. cl[c] \in Client
  BY DEF Inv, TypeOK
<1>2. k \in Client /\ k.op = cl[c].op /\ k.dir = cl[c].dir /\ k.at = point
  BY <1>1 DEF Client
<1>3. cl' = [cl EXCEPT ![c] = k]
  BY DEF Go
<1>4. k.dir \in Dirs /\ OnTrack(k.op, k.at) /\ Knows(k)
  BY <1>2 DEF Inv, CallsWellFormed
<1> HIDE DEF k
<1>. QED BY <1>2, <1>3, <1>4, Move
-----------------------------------------------------------------------------
\* What PostgreSQL does to the machine keeps it well typed.

LEMMA QuietTyped == ASSUME HostTypeOK, Quiet PROVE HostTypeOK'
BY DEF HostTypeOK, Quiet, host

LEMMA FilesTyped ==
  ASSUME HostTypeOK, NEW d \in Dirs, NEW f \in Files,
         disk' = [disk EXCEPT ![d] = f], UNCHANGED <<srv, db, strays>>
  PROVE  HostTypeOK'
BY DEF HostTypeOK

LEMMA DatabaseTyped ==
  ASSUME HostTypeOK, NEW d \in Dirs, NEW b \in Database,
         db' = [db EXCEPT ![d] = b], UNCHANGED <<disk, srv, strays>>
  PROVE  HostTypeOK'
BY DEF HostTypeOK

LEMMA ServerUpTyped ==
  ASSUME HostTypeOK, NEW d \in Dirs, NEW p \in Ports \cup {None}, ServerUp(d, p)
  PROVE  HostTypeOK'
<1>1. disk' \in [Dirs -> Files]
  BY DEF HostTypeOK, ServerUp, Files, PidStates
<1>2. db' \in [Dirs -> Database]
  BY DEF HostTypeOK, ServerUp, Database
<1>. QED BY <1>1, <1>2 DEF HostTypeOK, ServerUp

LEMMA ServerDownTyped ==
  ASSUME HostTypeOK, NEW d \in Dirs, NEW pid \in PidStates, ServerDown(d, pid)
  PROVE  HostTypeOK'
<1>1. disk[d] \in Files /\ Settled(disk[d].data) \in DataStates
  BY DEF HostTypeOK, Files, Settled, DataStates
<1>2. disk' \in [Dirs -> Files]
  BY <1>1 DEF HostTypeOK, ServerDown, Files
<1>3. db' \in [Dirs -> Database]
  BY DEF HostTypeOK, ServerDown, Database
<1>. QED BY <1>2, <1>3 DEF HostTypeOK, ServerDown

LEMMA RemovedTyped ==
  ASSUME HostTypeOK, NEW d \in Dirs, NEW f \in Files, Removed(d, f)
  PROVE  HostTypeOK'
<1>1. NoDatabase \in Database
  BY DEF NoDatabase, Database
<1>2. db' \in [Dirs -> Database]
  BY <1>1 DEF HostTypeOK, Removed
<1>3. srv[d] \in Ports \cup {None}
  BY DEF HostTypeOK
<1>. QED BY <1>2, <1>3 DEF HostTypeOK, Removed

\* Writing a config, or failing to, keeps the machine well typed.
LEMMA SaveTyped ==
  ASSUME HostTypeOK, NEW c \in Clients, cl[c].dir \in Dirs, NEW cfg \in Sandbox,
         \/ /\ disk' = [disk EXCEPT ![cl[c].dir].cfg = cfg]
            /\ UNCHANGED <<srv, db, strays>>
         \/ Quiet
  PROVE  HostTypeOK'
<1>1. CASE Quiet
  BY <1>1, QuietTyped
<1>2. CASE /\ disk' = [disk EXCEPT ![cl[c].dir].cfg = cfg]
           /\ UNCHANGED <<srv, db, strays>>
  BY <1>2 DEF HostTypeOK, Files
<1>. QED BY <1>1, <1>2

LEMMA HostInitTyped == HostInit => HostTypeOK
BY DEF HostInit, HostTypeOK, NoFiles, NoDatabase, Files, Database, DataStates,
       PidStates

-----------------------------------------------------------------------------
\* Every action preserves Inv.

Moved == cl' \in [Clients -> Client] /\ CallsWellFormed'

LEMMA Assemble == ASSUME HostTypeOK', Moved, calls' \in Nat PROVE Inv'
BY DEF Inv, TypeOK, Moved

\* What an invocation in flight brings to its next step.
LEMMA Standing ==
  ASSUME Inv, NEW c \in Clients, NEW point \in Points, At(c, point)
  PROVE  /\ HostTypeOK /\ calls' \in Nat
         /\ InFlight(c) /\ cl[c] \in Client /\ cl[c].at = point
         /\ cl[c].dir \in Dirs
         /\ OnTrack(cl[c].op, point) /\ Knows(cl[c])
<1>1. cl[c].at = point /\ InFlight(c)
  BY DEF At, InFlight, Ends, Points
<1>. QED BY <1>1 DEF Inv, TypeOK, At, CallsWellFormed

\* Where each command begins.
Starts(op, point) ==
  \/ op \in {"deploy", "subscriber"} /\ point = "port"
  \/ op = "standby" /\ point = "probe"
  \/ op = "start" /\ point = "start.load"
  \/ op \in {"stop", "restart"} /\ point = "stop.load"
  \/ op = "destroy" /\ point = "destroy.load"
  \/ op = "promote" /\ point = "promote.load"
  \/ op = "publish" /\ point = "pub.load"
  \/ op = "subscribe" /\ point = "sub.load"
  \/ op = "set" /\ point = "set.load"

\* A new invocation starts at a point of its command, knowing what it needs.
LEMMA BeginInv ==
  ASSUME Inv, NEW c \in Clients, NEW op \in AllOps, NEW point,
         NEW d \in Dirs, NEW src \in Dirs \cup {None},
         NEW name \in Names \cup {None}, NEW port \in Ports \cup {None},
         Starts(op, point), point = "set.load" => port # None,
         op \in {"standby", "subscriber", "subscribe"} => src # None /\ name # None,
         Begin(c, op, point, d, src, name, port)
  PROVE  Inv'
<1> DEFINE k == [op |-> op, at |-> point, dir |-> d, src |-> src, name |-> name,
                 cfg |-> None, port |-> port, peer |-> None,
                 base |-> PortBase]
<1>2. k \in Client
  BY BoundsAssumption DEF Client, Points, Starts
<1>3. k.dir \in Dirs /\ OnTrack(k.op, k.at)
  BY DEF Begin, Starts, OnTrack
<1>4. Knows(k)
  BY DEF Knows, Starts
<1>5. cl' = [cl EXCEPT ![c] = k]
  BY DEF Begin
<1>6. Moved
  <2> HIDE DEF k
  <2>. QED BY <1>2, <1>3, <1>4, <1>5, Move DEF Moved
<1>7. HostTypeOK'
  BY QuietTyped DEF Begin, Inv, TypeOK
<1>8. calls' \in Nat
  BY DEF Begin, Inv, TypeOK
<1>. QED BY <1>6, <1>7, <1>8, Assemble

LEMMA SourceOfTyped ==
  ASSUME HostTypeOK, NEW d \in Dirs
  PROVE  SourceOf(d) \in Dirs \cup {None}
BY DEF HostTypeOK, SourceOf, Files, Sandbox, Physical

LEMMA BeginCallInv ==
  ASSUME Inv, NEW c \in Clients, BeginCall(c)
  PROVE  Inv'
<1>. USE DEF Starts, AllOps, DeployOps
<1>0. HostTypeOK
  BY DEF Inv, TypeOK
<1>1. CASE BeginDeploy(c)
  <2>1. PICK op \in DeployOps, d \in Dirs, port \in Asked \cup {None} :
          \/ op = "deploy" /\ Begin(c, op, "port", d, None, None, port)
          \/ \E src \in Dirs, name \in Names :
               \/ op = "standby" /\ Begin(c, op, "probe", d, src, name, port)
               \/ op = "subscriber" /\ Begin(c, op, "port", d, src, name, port)
    BY <1>1 DEF BeginDeploy
  <2>2. port \in Ports \cup {None}
    BY BoundsAssumption
  <2>3. CASE op = "deploy" /\ Begin(c, op, "port", d, None, None, port)
    BY <2>2, <2>3, BeginInv
  <2>4. ASSUME NEW src \in Dirs, NEW name \in Names,
               op = "standby", Begin(c, op, "probe", d, src, name, port)
        PROVE  Inv'
    BY <2>2, <2>4, BeginInv, NoneAssumption
  <2>5. ASSUME NEW src \in Dirs, NEW name \in Names,
               op = "subscriber", Begin(c, op, "port", d, src, name, port)
        PROVE  Inv'
    BY <2>2, <2>5, BeginInv, NoneAssumption
  <2>. QED BY <2>1, <2>3, <2>4, <2>5
<1>2. CASE BeginLifecycle(c)
  <2>1. PICK d \in Dirs :
          \/ Begin(c, "start", "start.load", d, None, None, None)
          \/ \E op \in {"stop", "restart"} :
               Begin(c, op, "stop.load", d, None, None, None)
    BY <1>2 DEF BeginLifecycle
  <2>2. CASE Begin(c, "start", "start.load", d, None, None, None)
    BY <2>2, BeginInv
  <2>3. ASSUME NEW op \in {"stop", "restart"},
               Begin(c, op, "stop.load", d, None, None, None)
        PROVE  Inv'
    BY <2>3, BeginInv
  <2>. QED BY <2>1, <2>2, <2>3
<1>3. CASE BeginDestroy(c)
  <2>1. PICK d \in Dirs :
          Begin(c, "destroy", "destroy.load", d, SourceOf(d), None, None)
    BY <1>3 DEF BeginDestroy
  <2>2. SourceOf(d) \in Dirs \cup {None}
    BY <1>0, SourceOfTyped
  <2>. QED BY <2>1, <2>2, BeginInv
<1>4. CASE BeginPromote(c)
  <2>1. PICK d \in Dirs :
          Begin(c, "promote", "promote.load", d, SourceOf(d), None, None)
    BY <1>4 DEF BeginPromote
  <2>2. SourceOf(d) \in Dirs \cup {None}
    BY <1>0, SourceOfTyped
  <2>. QED BY <2>1, <2>2, BeginInv
<1>5. CASE BeginPublish(c)
  <2>1. PICK d \in Dirs : Begin(c, "publish", "pub.load", d, None, None, None)
    BY <1>5 DEF BeginPublish
  <2>. QED BY <2>1, BeginInv
<1>6. CASE BeginSubscribe(c)
  <2>1. PICK d \in Dirs, src \in Dirs, name \in Names :
          Begin(c, "subscribe", "sub.load", d, src, name, None)
    BY <1>6 DEF BeginSubscribe
  <2>. QED BY <2>1, BeginInv, NoneAssumption
<1>7. CASE BeginSet(c)
  <2>1. PICK d \in Dirs, p \in Asked :
          Begin(c, "set", "set.load", d, None, None, p)
    BY <1>7 DEF BeginSet
  <2>2. p \in Ports /\ p # None
    BY BoundsAssumption, NoneAssumption
  <2>. QED BY <2>1, <2>2, BeginInv
<1>. QED BY <1>1, <1>2, <1>3, <1>4, <1>5, <1>6, <1>7 DEF BeginCall

\* Failing, or finishing, from any point.
LEMMA ReturnInv ==
  ASSUME Inv, NEW c \in Clients, NEW outcome \in Ends, Return(c, outcome),
         HostTypeOK', calls' \in Nat
  PROVE  Inv'
BY ReturnMoves, Assemble DEF Moved

\* Going on to a point where the invocation knows what it needs.
LEMMA GoInv ==
  ASSUME Inv, NEW c \in Clients, NEW point \in Points, InFlight(c),
         OnTrack(cl[c].op, point), Knows([cl[c] EXCEPT !.at = point]),
         Go(c, point), HostTypeOK', calls' \in Nat
  PROVE  Inv'
BY GoMoves, Assemble DEF Moved

\* A point that asks for nothing the invocation may lack.
Undemanding == {"port", "probe", "role", "mkrole", "hba", "mkdir", "start.load",
                "start.run", "stop.load", "stop.unlink", "stop.run",
                "destroy.load", "promote.load", "pub.load", "pub.create",
                "sub.load"}

LEMMA UndemandingKnown ==
  ASSUME NEW k \in Client, Knows(k), NEW point \in Undemanding
  PROVE  Knows([k EXCEPT !.at = point]) /\ point \in Points
<1> DEFINE n == [k EXCEPT !.at = point]
<1>1. /\ n.at = point /\ n.op = k.op /\ n.port = k.port /\ n.src = k.src
      /\ n.name = k.name /\ n.cfg = k.cfg
  BY DEF Client
<1>2. Knows(n)
  <2> HIDE DEF n
  <2>. QED BY <1>1 DEF Knows, Undemanding
<1>. QED BY <1>2 DEF Undemanding, Points

LEMMA ResolvePortInv ==
  ASSUME Inv, NEW c \in Clients, InFlight(c), NEW next \in {"init", "base"},
         OnTrack(cl[c].op, next), Knows(cl[c]), cl[c].at \in {"port", "mkdir"},
         ResolvePort(c, next), HostTypeOK', calls' \in Nat
  PROVE  Inv'
<1>1. CASE Return(c, "fail")
  BY <1>1, ReturnInv DEF Ends
<1>2. ASSUME NEW p \in Ports, cl' = [cl EXCEPT ![c].port = p, ![c].at = next]
      PROVE  Inv'
  <2> DEFINE k == [[cl[c] EXCEPT !.port = p] EXCEPT !.at = next]
  <2>1. cl[c] \in Client /\ cl \in [Clients -> Client]
    BY DEF Inv, TypeOK
  <2>2. /\ k.at = next /\ k.port = p /\ k.op = cl[c].op /\ k.dir = cl[c].dir
        /\ k.src = cl[c].src /\ k.name = cl[c].name /\ k.cfg = cl[c].cfg
    BY <2>1 DEF Client
  <2>3. k \in Client
    BY <2>1 DEF Client, Points
  <2>4. cl' = [cl EXCEPT ![c] = k]
    BY <1>2, <2>1
  <2> HIDE DEF k
  <2>5. Knows(k)
    BY <2>2, NoneAssumption DEF Knows
  <2>6. k.dir \in Dirs /\ OnTrack(k.op, k.at)
    BY <2>2 DEF Inv, CallsWellFormed
  <2>. QED BY <2>3, <2>4, <2>5, <2>6, Move, Assemble DEF Moved
<1>3. \A p : p \in FreePort(cl[c].base, PortRange) => p \in Ports
  BY DEF FreePort
<1>. QED BY <1>1, <1>2, <1>3 DEF ResolvePort

LEMMA ChoosePortInv ==
  ASSUME Inv, NEW c \in Clients, ChoosePort(c)
  PROVE  Inv'
<1>1. At(c, "port") /\ Quiet /\ ResolvePort(c, "init")
  BY DEF ChoosePort
<1>2. /\ HostTypeOK /\ calls' \in Nat /\ InFlight(c) /\ cl[c].at = "port"
      /\ OnTrack(cl[c].op, "port") /\ Knows(cl[c])
  BY <1>1, Standing DEF Points
<1>3. OnTrack(cl[c].op, "init")
  BY <1>2 DEF OnTrack
<1>4. HostTypeOK'
  BY <1>1, <1>2, QuietTyped
<1>. QED BY <1>1, <1>2, <1>3, <1>4, ResolvePortInv

LEMMA MakeDirInv ==
  ASSUME Inv, NEW c \in Clients, MakeDirChoosePort(c)
  PROVE  Inv'
<1>1. At(c, "mkdir") /\ ResolvePort(c, "base")
  BY DEF MakeDirChoosePort
<1>2. /\ HostTypeOK /\ calls' \in Nat /\ InFlight(c) /\ cl[c].at = "mkdir"
      /\ OnTrack(cl[c].op, "mkdir") /\ Knows(cl[c]) /\ cl[c].dir \in Dirs
  BY <1>1, Standing DEF Points
<1>3. OnTrack(cl[c].op, "base")
  BY <1>2 DEF OnTrack
<1>4. HostTypeOK'
  BY <1>2 DEF MakeDirChoosePort, HostTypeOK, Files
<1>. QED BY <1>1, <1>2, <1>3, <1>4, ResolvePortInv

LEMMA InitDbInv ==
  ASSUME Inv, NEW c \in Clients, InitDb(c)
  PROVE  Inv'
<1>1. At(c, "init")
  BY DEF InitDb
<1>2. /\ HostTypeOK /\ calls' \in Nat /\ InFlight(c) /\ cl[c].at = "init"
      /\ OnTrack(cl[c].op, "init") /\ Knows(cl[c]) /\ cl[c].dir \in Dirs
      /\ cl[c] \in Client
  BY <1>1, Standing DEF Points
<1>3. HostTypeOK'
  <2>1. ASSUME NEW data \in DataStates, UNCHANGED <<srv, db, strays>>,
               disk' = [disk EXCEPT ![cl[c].dir].made = TRUE,
                                    ![cl[c].dir].data = data]
        PROVE  HostTypeOK'
    BY <1>2, <2>1 DEF HostTypeOK, Files
  <2>2. disk[cl[c].dir].data \in DataStates
    BY <1>2 DEF HostTypeOK, Files
  <2>3. "primary" \in DataStates /\ "partial" \in DataStates
    BY DEF DataStates
  <2>. QED BY <2>1, <2>2, <2>3 DEF InitDb
<1>4. CASE Go(c, "launch")
  <2>1. OnTrack(cl[c].op, "launch")
    BY <1>2 DEF OnTrack
  <2>2. Knows([cl[c] EXCEPT !.at = "launch"])
    BY <1>2 DEF Knows, Client
  <2>. QED BY <1>2, <1>3, <1>4, <2>1, <2>2, GoInv DEF Points
<1>5. CASE Return(c, "fail")
  BY <1>2, <1>3, <1>5, ReturnInv DEF Ends
<1>. QED BY <1>4, <1>5 DEF InitDb

LEMMA LaunchDeployedInv ==
  ASSUME Inv, NEW c \in Clients, LaunchDeployed(c)
  PROVE  Inv'
<1>1. At(c, "launch") /\ PgCtlStart(c, Go(c, "save"))
  BY DEF LaunchDeployed
<1>2. /\ HostTypeOK /\ calls' \in Nat /\ InFlight(c) /\ cl[c].at = "launch"
      /\ OnTrack(cl[c].op, "launch") /\ Knows(cl[c]) /\ cl[c].dir \in Dirs
      /\ cl[c] \in Client
  BY <1>1, Standing DEF Points
<1>3. HostTypeOK'
  <2>1. cl[c].port \in Ports \cup {None}
    BY <1>2 DEF Client
  <2>2. ServerUp(cl[c].dir, cl[c].port) \/ Quiet
    BY <1>1 DEF PgCtlStart
  <2>. QED BY <1>2, <2>1, <2>2, ServerUpTyped, QuietTyped
<1>4. CASE Go(c, "save")
  <2>1. OnTrack(cl[c].op, "save")
    BY <1>2 DEF OnTrack
  <2>2. Knows([cl[c] EXCEPT !.at = "save"])
    BY <1>2 DEF Knows, Client
  <2>. QED BY <1>2, <1>3, <1>4, <2>1, <2>2, GoInv DEF Points
<1>5. CASE Return(c, "fail")
  BY <1>2, <1>3, <1>5, ReturnInv DEF Ends
<1>. QED BY <1>1, <1>4, <1>5 DEF PgCtlStart

LEMMA SaveDeployedInv ==
  ASSUME Inv, NEW c \in Clients, SaveDeployed(c)
  PROVE  Inv'
<1> DEFINE cfg ==
      [port |-> cl[c].port,
       role |-> IF cl[c].op = "standby" THEN "standby" ELSE "primary",
       physical |-> IF cl[c].op = "standby"
                    THEN [src |-> cl[c].src, slot |-> cl[c].name] ELSE None,
       logical |-> None]
<1>1. At(c, "save")
  BY DEF SaveDeployed
<1>2. /\ HostTypeOK /\ calls' \in Nat /\ InFlight(c) /\ cl[c].at = "save"
      /\ OnTrack(cl[c].op, "save") /\ Knows(cl[c]) /\ cl[c].dir \in Dirs
      /\ cl[c] \in Client
  BY <1>1, Standing DEF Points
<1>3. cfg \in Sandbox
  <2>1. cl[c].port \in Ports
    BY <1>2 DEF Knows, Client
  <2>2. cl[c].op = "standby" => [src |-> cl[c].src, slot |-> cl[c].name] \in Physical
    BY <1>2 DEF Knows, Client, Physical
  <2>. QED BY <2>1, <2>2 DEF Sandbox, Roles
<1>4. \/ disk' = [disk EXCEPT ![cl[c].dir].cfg = cfg] /\ UNCHANGED <<srv, db, strays>>
      \/ Quiet
  BY DEF SaveDeployed, Save
<1>5. HostTypeOK'
  <2> HIDE DEF cfg
  <2>. QED BY <1>2, <1>3, <1>4, SaveTyped
<1>6. CASE cl[c].op = "subscriber" /\ Go(c, "sub.load")
  <2>1. OnTrack(cl[c].op, "sub.load")
    BY <1>6 DEF OnTrack
  <2>2. Knows([cl[c] EXCEPT !.at = "sub.load"])
    BY <1>2, UndemandingKnown DEF Undemanding
  <2>. QED BY <1>2, <1>5, <1>6, <2>1, <2>2, GoInv DEF Points
<1>7. ASSUME NEW outcome \in Ends, Return(c, outcome) PROVE Inv'
  BY <1>2, <1>5, <1>7, ReturnInv
<1>. QED BY <1>6, <1>7 DEF SaveDeployed, Save, Ends

LEMMA ProbeSourceInv ==
  ASSUME Inv, NEW c \in Clients, ProbeSource(c)
  PROVE  Inv'
<1>1. At(c, "probe") /\ Quiet
  BY DEF ProbeSource
<1>2. /\ HostTypeOK /\ calls' \in Nat /\ InFlight(c) /\ cl[c].at = "probe"
      /\ OnTrack(cl[c].op, "probe") /\ Knows(cl[c]) /\ cl[c].dir \in Dirs
      /\ cl[c] \in Client
  BY <1>1, Standing DEF Points
<1>3. HostTypeOK'
  BY <1>1, <1>2, QuietTyped
<1>4. CASE Return(c, "fail")
  BY <1>2, <1>3, <1>4, ReturnInv DEF Ends
<1>5. CASE /\ Reachable(cl[c].src)
           /\ cl' = [cl EXCEPT ![c].peer = disk[cl[c].src].cfg.port,
                               ![c].at = "role"]
  <2> DEFINE p == disk[cl[c].src].cfg.port
             k == [[cl[c] EXCEPT !.peer = p] EXCEPT !.at = "role"]
  <2>1. p \in Ports
    BY <1>2, <1>5 DEF Reachable, HostTypeOK, Files, Sandbox
  <2> HIDE DEF p
  <2>2. /\ k.at = "role" /\ k.port = cl[c].port /\ k.op = cl[c].op
        /\ k.dir = cl[c].dir /\ k.src = cl[c].src /\ k.name = cl[c].name
        /\ k.cfg = cl[c].cfg
    BY <1>2 DEF Client
  <2>3. k \in Client
    BY <1>2, <2>1 DEF Client, Points
  <2>4. cl' = [cl EXCEPT ![c] = k]
    BY <1>5 DEF p, Inv, TypeOK
  <2> HIDE DEF k
  <2>5. OnTrack(k.op, k.at)
    BY <1>2, <2>2 DEF OnTrack
  <2>6. Knows(k)
    BY <1>2, <2>2 DEF Knows
  <2>. QED BY <1>2, <1>3, <2>2, <2>3, <2>4, <2>5, <2>6, Move, Assemble DEF Moved
<1>. QED BY <1>4, <1>5 DEF ProbeSource

LEMMA ProbeRoleInv ==
  ASSUME Inv, NEW c \in Clients, ProbeRole(c)
  PROVE  Inv'
<1>1. At(c, "role") /\ Quiet
  BY DEF ProbeRole
<1>2. /\ HostTypeOK /\ calls' \in Nat /\ InFlight(c) /\ cl[c].at = "role"
      /\ OnTrack(cl[c].op, "role") /\ Knows(cl[c]) /\ cl[c] \in Client
  BY <1>1, Standing DEF Points
<1>3. HostTypeOK'
  BY <1>1, <1>2, QuietTyped
<1>4. CASE Return(c, "fail")
  BY <1>2, <1>3, <1>4, ReturnInv DEF Ends
<1>5. ASSUME NEW point \in {"hba", "mkrole"}, Go(c, point)
      PROVE  Inv'
  <2>1. OnTrack(cl[c].op, point)
    BY <1>2, <1>5 DEF OnTrack
  <2>2. Knows([cl[c] EXCEPT !.at = point]) /\ point \in Points
    BY <1>2, UndemandingKnown DEF Undemanding
  <2>. QED BY <1>2, <1>3, <1>5, <2>1, <2>2, GoInv
<1>. QED BY <1>4, <1>5 DEF ProbeRole

LEMMA CreateRoleInv ==
  ASSUME Inv, NEW c \in Clients, CreateRole(c)
  PROVE  Inv'
<1>1. At(c, "mkrole")
  BY DEF CreateRole
<1>2. /\ HostTypeOK /\ calls' \in Nat /\ InFlight(c) /\ cl[c].at = "mkrole"
      /\ OnTrack(cl[c].op, "mkrole") /\ Knows(cl[c]) /\ cl[c] \in Client
  BY <1>1, Standing DEF Points
<1>3. CASE Quiet /\ Return(c, "fail")
  BY <1>2, <1>3, QuietTyped, ReturnInv DEF Ends
<1>4. ASSUME NEW r \in Dirs, db' = [db EXCEPT ![r].repl = TRUE],
             UNCHANGED <<disk, srv, strays>>, Go(c, "hba")
      PROVE  Inv'
  <2>1. HostTypeOK'
    BY <1>2, <1>4 DEF HostTypeOK, Database
  <2>2. OnTrack(cl[c].op, "hba")
    BY <1>2 DEF OnTrack
  <2>3. Knows([cl[c] EXCEPT !.at = "hba"]) /\ "hba" \in Points
    BY <1>2, UndemandingKnown DEF Undemanding
  <2>. QED BY <1>2, <1>4, <2>1, <2>2, <2>3, GoInv
<1>. QED BY <1>3, <1>4 DEF CreateRole, Serving

LEMMA EnsureHbaInv ==
  ASSUME Inv, NEW c \in Clients, EnsureHba(c)
  PROVE  Inv'
<1>1. At(c, "hba")
  BY DEF EnsureHba
<1>2. /\ HostTypeOK /\ calls' \in Nat /\ InFlight(c) /\ cl[c].at = "hba"
      /\ OnTrack(cl[c].op, "hba") /\ Knows(cl[c]) /\ cl[c] \in Client
  BY <1>1, Standing DEF Points
<1>3. HostTypeOK'
  <2>1. CASE Quiet
    BY <1>2, <2>1, QuietTyped
  <2>2. CASE db' = [db EXCEPT ![cl[c].src].hba = TRUE] /\ UNCHANGED <<disk, srv, strays>>
    BY <1>2, <2>2 DEF HostTypeOK, Database
  <2>. QED BY <2>1, <2>2 DEF EnsureHba
<1>4. CASE Return(c, "fail")
  BY <1>2, <1>3, <1>4, ReturnInv DEF Ends
<1>5. CASE Go(c, "mkdir")
  <2>1. OnTrack(cl[c].op, "mkdir")
    BY <1>2 DEF OnTrack
  <2>2. Knows([cl[c] EXCEPT !.at = "mkdir"]) /\ "mkdir" \in Points
    BY <1>2, UndemandingKnown DEF Undemanding
  <2>. QED BY <1>2, <1>3, <1>5, <2>1, <2>2, GoInv
<1>. QED BY <1>4, <1>5 DEF EnsureHba

LEMMA BaseBackupInv ==
  ASSUME Inv, NEW c \in Clients, BaseBackup(c)
  PROVE  Inv'
<1>1. At(c, "base")
  BY DEF BaseBackup
<1>2. /\ HostTypeOK /\ calls' \in Nat /\ InFlight(c) /\ cl[c].at = "base"
      /\ OnTrack(cl[c].op, "base") /\ Knows(cl[c]) /\ cl[c].dir \in Dirs
      /\ cl[c] \in Client
  BY <1>1, Standing DEF Points
<1>3. HostTypeOK'
  <2>1. CASE Quiet
    BY <1>2, <2>1, QuietTyped
  <2>2. ASSUME NEW r \in Dirs, NEW b \in [Dirs -> Database],
               NEW data \in {"standby", "absent", "partial"},
               db' = [b EXCEPT ![r].slots =
                        @ \cup {[name |-> cl[c].name, owner |-> cl[c].dir]}],
               disk' = [disk EXCEPT ![cl[c].dir].data = data],
               UNCHANGED <<srv, strays>>
        PROVE  HostTypeOK'
    <3>1. disk' \in [Dirs -> Files]
      BY <1>2, <2>2 DEF HostTypeOK, Files, DataStates
    <3>2. [name |-> cl[c].name, owner |-> cl[c].dir] \in Slot
      BY <1>2 DEF OnTrack, Knows, Client, Slot
    <3>3. db' \in [Dirs -> Database]
      BY <2>2, <3>2 DEF Database
    <3>. QED BY <1>2, <2>2, <3>1, <3>3 DEF HostTypeOK
  <2>3. db \in [Dirs -> Database]
    BY <1>2 DEF HostTypeOK
  <2>4. ASSUME NEW r \in Dirs
        PROVE  [db EXCEPT ![cl[c].dir] =
                  [db[r] EXCEPT !.slots = {}, !.walLive = FALSE]]
                 \in [Dirs -> Database]
    <3> DEFINE b == [db[r] EXCEPT !.slots = {}, !.walLive = FALSE]
    <3>1. b \in Database
      BY <2>3 DEF Database
    <3> HIDE DEF b
    <3>2. [db EXCEPT ![cl[c].dir] = b] \in [Dirs -> Database]
      BY <2>3, <3>1
    <3>. QED BY <3>2 DEF b
  <2>5. CASE ~Quiet
    <3>1. PICK r \in Upstream(c), data \in {"standby", "absent", "partial"} :
            /\ db' = [IF data = "standby"
                      THEN [db EXCEPT ![cl[c].dir] =
                              [db[r] EXCEPT !.slots = {}, !.walLive = FALSE]]
                      ELSE db
                      EXCEPT ![r].slots =
                        @ \cup {[name |-> cl[c].name, owner |-> cl[c].dir]}]
            /\ disk' = [disk EXCEPT ![cl[c].dir].data = data]
            /\ UNCHANGED <<srv, strays>>
      BY <2>5 DEF BaseBackup
    <3>2. r \in Dirs
      BY DEF Upstream, Serving
    <3>. QED BY <2>2, <2>3, <2>4, <3>1, <3>2
  <2>. QED BY <2>1, <2>5
<1>4. CASE Return(c, "fail")
  BY <1>2, <1>3, <1>4, ReturnInv DEF Ends
<1>5. CASE Go(c, "launch")
  <2>1. OnTrack(cl[c].op, "launch")
    BY <1>2 DEF OnTrack
  <2>2. Knows([cl[c] EXCEPT !.at = "launch"])
    BY <1>2 DEF Knows, Client
  <2>. QED BY <1>2, <1>3, <1>5, <2>1, <2>2, GoInv DEF Points
<1>. QED BY <1>4, <1>5 DEF BaseBackup

LEMMA DeployStepInv ==
  ASSUME Inv, NEW c \in Clients, DeployStep(c)
  PROVE  Inv'
BY ChoosePortInv, MakeDirInv, InitDbInv, LaunchDeployedInv, SaveDeployedInv,
   ProbeSourceInv, ProbeRoleInv, CreateRoleInv, EnsureHbaInv, BaseBackupInv
   DEF DeployStep

\* Where start, stop, restart and the restart of publish go next.
LEMMA StartDoneInv ==
  ASSUME Inv, NEW c \in Clients, StartDone(c), HostTypeOK', calls' \in Nat,
         InFlight(c), OnTrack(cl[c].op, cl[c].at), Knows(cl[c]), cl[c] \in Client,
         cl[c].at \in {"start.load", "start.run"}
  PROVE  Inv'
<1>1. CASE Return(c, "ok")
  BY <1>1, ReturnInv DEF Ends
<1>2. CASE cl[c].op = "publish" /\ Go(c, "pub.create")
  <2>1. OnTrack(cl[c].op, "pub.create")
    BY <1>2 DEF OnTrack
  <2>2. Knows([cl[c] EXCEPT !.at = "pub.create"]) /\ "pub.create" \in Points
    BY UndemandingKnown DEF Undemanding
  <2>. QED BY <1>2, <2>1, <2>2, GoInv
<1>. QED BY <1>1, <1>2 DEF StartDone

LEMMA StopDoneInv ==
  ASSUME Inv, NEW c \in Clients, StopDone(c), HostTypeOK', calls' \in Nat,
         InFlight(c), OnTrack(cl[c].op, cl[c].at), Knows(cl[c]), cl[c] \in Client,
         cl[c].at \in {"stop.load", "stop.unlink", "stop.run"}
  PROVE  Inv'
<1>1. CASE Return(c, "ok")
  BY <1>1, ReturnInv DEF Ends
<1>2. CASE cl[c].op # "stop" /\ Go(c, "start.load")
  <2>1. OnTrack(cl[c].op, "start.load")
    BY <1>2 DEF OnTrack
  <2>2. Knows([cl[c] EXCEPT !.at = "start.load"]) /\ "start.load" \in Points
    BY UndemandingKnown DEF Undemanding
  <2>. QED BY <1>2, <2>1, <2>2, GoInv
<1>. QED BY <1>1, <1>2 DEF StopDone

LEMMA StartLoadInv ==
  ASSUME Inv, NEW c \in Clients, StartLoad(c)
  PROVE  Inv'
<1>1. At(c, "start.load") /\ Quiet
  BY DEF StartLoad
<1>2. /\ HostTypeOK /\ calls' \in Nat /\ InFlight(c) /\ cl[c].at = "start.load"
      /\ OnTrack(cl[c].op, "start.load") /\ Knows(cl[c]) /\ cl[c].dir \in Dirs
      /\ cl[c] \in Client
  BY <1>1, Standing DEF Points
<1>3. HostTypeOK'
  BY <1>1, <1>2, QuietTyped
<1>4. CASE Return(c, "fail")
  BY <1>2, <1>3, <1>4, ReturnInv DEF Ends
<1>5. CASE StartDone(c)
  BY <1>2, <1>3, <1>5, StartDoneInv
<1>6. CASE /\ disk[cl[c].dir].cfg # None
           /\ cl' = [cl EXCEPT ![c].port = disk[cl[c].dir].cfg.port,
                               ![c].at = "start.run"]
  <2> DEFINE p == disk[cl[c].dir].cfg.port
             k == [[cl[c] EXCEPT !.port = p] EXCEPT !.at = "start.run"]
  <2>1. p \in Ports
    BY <1>2, <1>6 DEF HostTypeOK, Files, Sandbox
  <2> HIDE DEF p
  <2>2. /\ k.at = "start.run" /\ k.port = p /\ k.op = cl[c].op
        /\ k.dir = cl[c].dir /\ k.src = cl[c].src /\ k.name = cl[c].name
        /\ k.cfg = cl[c].cfg
    BY <1>2 DEF Client
  <2>3. k \in Client
    BY <1>2, <2>1 DEF Client, Points
  <2>4. cl' = [cl EXCEPT ![c] = k]
    BY <1>6 DEF p, Inv, TypeOK
  <2> HIDE DEF k
  <2>5. OnTrack(k.op, k.at)
    BY <1>2, <2>2 DEF OnTrack
  <2>6. Knows(k)
    BY <1>2, <2>2 DEF Knows
  <2>. QED BY <1>2, <1>3, <2>2, <2>3, <2>4, <2>5, <2>6, Move, Assemble DEF Moved
<1>. QED BY <1>4, <1>5, <1>6 DEF StartLoad

LEMMA StartRunInv ==
  ASSUME Inv, NEW c \in Clients, StartRun(c)
  PROVE  Inv'
<1>1. At(c, "start.run") /\ PgCtlStart(c, StartDone(c))
  BY DEF StartRun
<1>2. /\ HostTypeOK /\ calls' \in Nat /\ InFlight(c) /\ cl[c].at = "start.run"
      /\ OnTrack(cl[c].op, "start.run") /\ Knows(cl[c]) /\ cl[c].dir \in Dirs
      /\ cl[c] \in Client
  BY <1>1, Standing DEF Points
<1>3. HostTypeOK'
  <2>1. cl[c].port \in Ports \cup {None}
    BY <1>2 DEF Client
  <2>2. ServerUp(cl[c].dir, cl[c].port) \/ Quiet
    BY <1>1 DEF PgCtlStart
  <2>. QED BY <1>2, <2>1, <2>2, ServerUpTyped, QuietTyped
<1>4. CASE StartDone(c)
  BY <1>2, <1>3, <1>4, StartDoneInv
<1>5. CASE Return(c, "fail")
  BY <1>2, <1>3, <1>5, ReturnInv DEF Ends
<1>. QED BY <1>1, <1>4, <1>5 DEF PgCtlStart

LEMMA StopLoadInv ==
  ASSUME Inv, NEW c \in Clients, StopLoad(c)
  PROVE  Inv'
<1>1. At(c, "stop.load") /\ Quiet
  BY DEF StopLoad
<1>2. /\ HostTypeOK /\ calls' \in Nat /\ InFlight(c) /\ cl[c].at = "stop.load"
      /\ OnTrack(cl[c].op, "stop.load") /\ Knows(cl[c]) /\ cl[c] \in Client
  BY <1>1, Standing DEF Points
<1>3. HostTypeOK'
  BY <1>1, <1>2, QuietTyped
<1>4. CASE Return(c, "fail")
  BY <1>2, <1>3, <1>4, ReturnInv DEF Ends
<1>5. ASSUME NEW point \in {"stop.run", "stop.unlink"}, Go(c, point)
      PROVE  Inv'
  <2>1. OnTrack(cl[c].op, point)
    BY <1>2, <1>5 DEF OnTrack
  <2>2. Knows([cl[c] EXCEPT !.at = point]) /\ point \in Points
    BY <1>2, UndemandingKnown DEF Undemanding
  <2>. QED BY <1>2, <1>3, <1>5, <2>1, <2>2, GoInv
<1>6. CASE StopDone(c)
  BY <1>2, <1>3, <1>6, StopDoneInv
<1>. QED BY <1>4, <1>5, <1>6 DEF StopLoad

LEMMA StopUnlinkInv ==
  ASSUME Inv, NEW c \in Clients, StopUnlink(c)
  PROVE  Inv'
<1>1. At(c, "stop.unlink") /\ StopDone(c)
  BY DEF StopUnlink
<1>2. /\ HostTypeOK /\ calls' \in Nat /\ InFlight(c) /\ cl[c].at = "stop.unlink"
      /\ OnTrack(cl[c].op, "stop.unlink") /\ Knows(cl[c]) /\ cl[c].dir \in Dirs
      /\ cl[c] \in Client
  BY <1>1, Standing DEF Points
<1>3. HostTypeOK'
  BY <1>2 DEF StopUnlink, HostTypeOK, Files, PidStates
<1>. QED BY <1>1, <1>2, <1>3, StopDoneInv

LEMMA StopRunInv ==
  ASSUME Inv, NEW c \in Clients, StopRun(c)
  PROVE  Inv'
<1>1. At(c, "stop.run")
  BY DEF StopRun
<1>2. /\ HostTypeOK /\ calls' \in Nat /\ InFlight(c) /\ cl[c].at = "stop.run"
      /\ OnTrack(cl[c].op, "stop.run") /\ Knows(cl[c]) /\ cl[c].dir \in Dirs
      /\ cl[c] \in Client
  BY <1>1, Standing DEF Points
<1>3. HostTypeOK'
  BY <1>2, ServerDownTyped, QuietTyped DEF StopRun, PidStates
<1>4. CASE StopDone(c)
  BY <1>2, <1>3, <1>4, StopDoneInv
<1>5. CASE Return(c, "fail")
  BY <1>2, <1>3, <1>5, ReturnInv DEF Ends
<1>. QED BY <1>4, <1>5 DEF StopRun

LEMMA LifecycleStepInv ==
  ASSUME Inv, NEW c \in Clients, LifecycleStep(c)
  PROVE  Inv'
BY StartLoadInv, StartRunInv, StopLoadInv, StopUnlinkInv, StopRunInv
   DEF LifecycleStep

\* An invocation that remembers a config it has read and goes on.
LEMMA RememberInv ==
  ASSUME Inv, NEW c \in Clients, InFlight(c), NEW point \in Points,
         NEW cfg \in Sandbox \cup {None}, NEW peer \in Ports \cup {None},
         cl' = [cl EXCEPT ![c] = [[[cl[c] EXCEPT !.cfg = cfg] EXCEPT !.peer = peer]
                                    EXCEPT !.at = point]],
         OnTrack(cl[c].op, point),
         Knows([[[cl[c] EXCEPT !.cfg = cfg] EXCEPT !.peer = peer]
                   EXCEPT !.at = point]),
         HostTypeOK', calls' \in Nat
  PROVE  Inv'
<1> DEFINE k == [[[cl[c] EXCEPT !.cfg = cfg] EXCEPT !.peer = peer] EXCEPT !.at = point]
<1>1. cl[c] \in Client
  BY DEF Inv, TypeOK
<1>2. k \in Client /\ k.op = cl[c].op /\ k.dir = cl[c].dir /\ k.at = point
  <2> DEFINE k1 == [cl[c] EXCEPT !.cfg = cfg]
             k2 == [k1 EXCEPT !.peer = peer]
  <2>1. k1 \in Client /\ k1.op = cl[c].op /\ k1.dir = cl[c].dir
    BY <1>1 DEF Client
  <2>2. k2 \in Client /\ k2.op = cl[c].op /\ k2.dir = cl[c].dir
    <3> HIDE DEF k1
    <3>. QED BY <2>1 DEF Client
  <2>3. k = [k2 EXCEPT !.at = point]
    OBVIOUS
  <2> HIDE DEF k, k2
  <2>. QED BY <2>2, <2>3 DEF Client
<1>3. Knows(k)
  OBVIOUS
<1>4. cl' = [cl EXCEPT ![c] = k]
  OBVIOUS
<1> HIDE DEF k
<1>5. k.dir \in Dirs /\ OnTrack(k.op, k.at)
  BY <1>2 DEF Inv, CallsWellFormed
<1>. QED BY <1>2, <1>3, <1>4, <1>5, Move, Assemble DEF Moved

LEMMA DestroyLoadInv ==
  ASSUME Inv, NEW c \in Clients, DestroyLoad(c)
  PROVE  Inv'
<1>1. At(c, "destroy.load") /\ Quiet
  BY DEF DestroyLoad
<1>2. /\ HostTypeOK /\ calls' \in Nat /\ InFlight(c) /\ cl[c].at = "destroy.load"
      /\ OnTrack(cl[c].op, "destroy.load") /\ Knows(cl[c]) /\ cl[c].dir \in Dirs
      /\ cl[c] \in Client /\ cl \in [Clients -> Client]
  BY <1>1, Standing DEF Points, Inv, TypeOK
<1>3. HostTypeOK'
  BY <1>1, <1>2, QuietTyped
<1>4. CASE Return(c, "fail")
  BY <1>2, <1>3, <1>4, ReturnInv DEF Ends
<1>5. ASSUME NEW point \in {"destroy.sub", "destroy.stop"},
             NEW cfg \in Sandbox,
             cl' = [cl EXCEPT ![c].cfg = cfg, ![c].at = point],
             point = "destroy.sub" => cfg.logical # None
      PROVE  Inv'
  <2>1. cl' = [cl EXCEPT ![c] =
                 [[[cl[c] EXCEPT !.cfg = cfg] EXCEPT !.peer = cl[c].peer]
                    EXCEPT !.at = point]]
    BY <1>2, <1>5 DEF Client
  <2>2. OnTrack(cl[c].op, point) /\ point \in Points
    BY <1>2 DEF OnTrack, Points
  <2>3. Knows([[[cl[c] EXCEPT !.cfg = cfg] EXCEPT !.peer = cl[c].peer]
                 EXCEPT !.at = point])
    BY <1>2, <1>5, SentinelAssumption DEF Knows, Client
  <2>4. cl[c].peer \in Ports \cup {None}
    BY <1>2 DEF Client
  <2>. QED BY <1>2, <1>3, <2>1, <2>2, <2>3, <2>4, RememberInv
<1>6. disk[cl[c].dir].cfg # None => disk[cl[c].dir].cfg \in Sandbox
  BY <1>2 DEF HostTypeOK, Files
<1>. QED BY <1>4, <1>5, <1>6 DEF DestroyLoad

LEMMA DropSubscriptionInv ==
  ASSUME Inv, NEW c \in Clients, DropSubscription(c)
  PROVE  Inv'
<1>1. At(c, "destroy.sub") /\ Go(c, "destroy.stop")
  BY DEF DropSubscription
<1>2. /\ HostTypeOK /\ calls' \in Nat /\ InFlight(c) /\ cl[c].at = "destroy.sub"
      /\ OnTrack(cl[c].op, "destroy.sub") /\ Knows(cl[c]) /\ cl[c] \in Client
  BY <1>1, Standing DEF Points
<1>3. HostTypeOK'
  <2>1. CASE Quiet
    BY <1>2, <2>1, QuietTyped
  <2>2. ASSUME NEW r \in Dirs, UNCHANGED <<disk, srv, strays>>,
               db' = [db EXCEPT
                 ![r].subs = {s \in @ : s.name # cl[c].cfg.logical.sub}]
        PROVE  HostTypeOK'
    BY <1>2, <2>2 DEF HostTypeOK, Database
  <2>. QED BY <2>1, <2>2 DEF DropSubscription, Serving
<1>4. OnTrack(cl[c].op, "destroy.stop") /\ "destroy.stop" \in Points
  BY <1>2 DEF OnTrack, Points
<1>5. Knows([cl[c] EXCEPT !.at = "destroy.stop"])
  BY <1>2 DEF Knows, Client
<1>. QED BY <1>1, <1>2, <1>3, <1>4, <1>5, GoInv

LEMMA DestroyStopInv ==
  ASSUME Inv, NEW c \in Clients, DestroyStop(c)
  PROVE  Inv'
<1>1. At(c, "destroy.stop")
  BY DEF DestroyStop
<1>2. /\ HostTypeOK /\ calls' \in Nat /\ InFlight(c) /\ cl[c].at = "destroy.stop"
      /\ OnTrack(cl[c].op, "destroy.stop") /\ Knows(cl[c]) /\ cl[c].dir \in Dirs
      /\ cl[c] \in Client
  BY <1>1, Standing DEF Points
<1>3. HostTypeOK'
  BY <1>2, ServerDownTyped, QuietTyped DEF DestroyStop, PidStates
<1>4. ASSUME NEW point \in {"slot.load", "destroy.rm"}, Go(c, point),
             point = "slot.load" => cl[c].cfg.physical # None
      PROVE  Inv'
  <2>1. OnTrack(cl[c].op, point) /\ point \in Points
    BY <1>2 DEF OnTrack, Points
  <2>2. Knows([cl[c] EXCEPT !.at = point])
    BY <1>2, <1>4 DEF Knows, Client
  <2>. QED BY <1>2, <1>3, <1>4, <2>1, <2>2, GoInv
<1>. QED BY <1>4 DEF DestroyStop

\* The slot removal goes back to the command it was part of.
LEMMA SlotDoneInv ==
  ASSUME Inv, NEW c \in Clients, SlotDone(c), HostTypeOK', calls' \in Nat,
         InFlight(c), OnTrack(cl[c].op, cl[c].at), Knows(cl[c]), cl[c] \in Client,
         cl[c].at \in {"slot.load", "slot.drop"}
  PROVE  Inv'
<1>1. ASSUME NEW point \in {"destroy.rm", "promote.save"}, Go(c, point),
             point = "destroy.rm" <=> cl[c].op = "destroy"
      PROVE  Inv'
  <2>1. OnTrack(cl[c].op, point) /\ point \in Points
    BY <1>1 DEF OnTrack, Points
  <2>2. Knows([cl[c] EXCEPT !.at = point])
    BY DEF Knows, Client
  <2>. QED BY <1>1, <2>1, <2>2, GoInv
<1>. QED BY <1>1 DEF SlotDone

LEMMA SlotLoadInv ==
  ASSUME Inv, NEW c \in Clients, SlotLoad(c)
  PROVE  Inv'
<1>1. At(c, "slot.load") /\ Quiet
  BY DEF SlotLoad
<1>2. /\ HostTypeOK /\ calls' \in Nat /\ InFlight(c) /\ cl[c].at = "slot.load"
      /\ OnTrack(cl[c].op, "slot.load") /\ Knows(cl[c]) /\ cl[c].dir \in Dirs
      /\ cl[c] \in Client /\ cl \in [Clients -> Client]
  BY <1>1, Standing DEF Points, Inv, TypeOK
<1>3. HostTypeOK'
  BY <1>1, <1>2, QuietTyped
<1>4. CASE SlotDone(c)
  BY <1>2, <1>3, <1>4, SlotDoneInv
<1>5. ASSUME NEW p \in Ports,
             cl' = [cl EXCEPT ![c].peer = p, ![c].at = "slot.drop"]
      PROVE  Inv'
  <2>1. cl' = [cl EXCEPT ![c] =
                 [[[cl[c] EXCEPT !.cfg = cl[c].cfg] EXCEPT !.peer = p]
                    EXCEPT !.at = "slot.drop"]]
    BY <1>2, <1>5 DEF Client
  <2>2. OnTrack(cl[c].op, "slot.drop") /\ "slot.drop" \in Points
    BY <1>2 DEF OnTrack, Points
  <2>3. Knows([[[cl[c] EXCEPT !.cfg = cl[c].cfg] EXCEPT !.peer = p]
                 EXCEPT !.at = "slot.drop"])
    BY <1>2 DEF Knows, Client
  <2>4. cl[c].cfg \in Sandbox \cup {None}
    BY <1>2 DEF Client
  <2>. QED BY <1>2, <1>3, <2>1, <2>2, <2>3, <2>4, RememberInv
<1>6. ASSUME NEW s, Reachable(s) PROVE disk[s].cfg.port \in Ports
  BY <1>2, <1>6 DEF Reachable, HostTypeOK, Files, Sandbox
<1>. QED BY <1>4, <1>5, <1>6 DEF SlotLoad

LEMMA SlotDropInv ==
  ASSUME Inv, NEW c \in Clients, SlotDrop(c)
  PROVE  Inv'
<1>1. At(c, "slot.drop") /\ SlotDone(c)
  BY DEF SlotDrop
<1>2. /\ HostTypeOK /\ calls' \in Nat /\ InFlight(c) /\ cl[c].at = "slot.drop"
      /\ OnTrack(cl[c].op, "slot.drop") /\ Knows(cl[c]) /\ cl[c] \in Client
  BY <1>1, Standing DEF Points
<1>3. HostTypeOK'
  <2>1. CASE Quiet
    BY <1>2, <2>1, QuietTyped
  <2>2. ASSUME NEW r \in Dirs, NEW slot, UNCHANGED <<disk, srv, strays>>,
               db' = [db EXCEPT ![r].slots = {s \in @ : s.name # slot}]
        PROVE  HostTypeOK'
    BY <1>2, <2>2 DEF HostTypeOK, Database
  <2>. QED BY <2>1, <2>2 DEF SlotDrop, Serving
<1>. QED BY <1>1, <1>2, <1>3, SlotDoneInv

LEMMA DestroyRemoveInv ==
  ASSUME Inv, NEW c \in Clients, DestroyRemove(c)
  PROVE  Inv'
<1>1. At(c, "destroy.rm")
  BY DEF DestroyRemove
<1>2. HostTypeOK /\ calls' \in Nat /\ cl[c].dir \in Dirs
  BY <1>1, Standing DEF Points
<1>3. HostTypeOK'
  <2>1. NoFiles \in Files
    BY DEF NoFiles, Files, DataStates, PidStates
  <2>2. ASSUME NEW cfg \in {disk[cl[c].dir].cfg, None}
        PROVE  [made |-> TRUE, data |-> "torn", pid |-> "none", cfg |-> cfg] \in Files
    BY <1>2 DEF HostTypeOK, Files, DataStates, PidStates
  <2>3. PICK f \in Files : Removed(cl[c].dir, f)
    BY <2>1, <2>2 DEF DestroyRemove
  <2>. QED BY <1>2, <2>3, RemovedTyped
<1>4. ASSUME NEW outcome \in Ends, Return(c, outcome) PROVE Inv'
  BY <1>2, <1>3, <1>4, ReturnInv
<1>. QED BY <1>4 DEF DestroyRemove, Ends

LEMMA DestroyStepInv ==
  ASSUME Inv, NEW c \in Clients, DestroyStep(c)
  PROVE  Inv'
BY DestroyLoadInv, DropSubscriptionInv, DestroyStopInv, SlotLoadInv, SlotDropInv,
   DestroyRemoveInv DEF DestroyStep

LEMMA PromoteLoadInv ==
  ASSUME Inv, NEW c \in Clients, PromoteLoad(c)
  PROVE  Inv'
<1>1. At(c, "promote.load") /\ Quiet
  BY DEF PromoteLoad
<1>2. /\ HostTypeOK /\ calls' \in Nat /\ InFlight(c) /\ cl[c].at = "promote.load"
      /\ OnTrack(cl[c].op, "promote.load") /\ Knows(cl[c]) /\ cl[c].dir \in Dirs
      /\ cl[c] \in Client /\ cl \in [Clients -> Client]
  BY <1>1, Standing DEF Points, Inv, TypeOK
<1>3. HostTypeOK'
  BY <1>1, <1>2, QuietTyped
<1>4. CASE Return(c, "fail")
  BY <1>2, <1>3, <1>4, ReturnInv DEF Ends
<1>5. ASSUME NEW cfg \in Sandbox,
             cl' = [cl EXCEPT ![c].cfg = cfg, ![c].at = "promote.run"]
      PROVE  Inv'
  <2>1. cl' = [cl EXCEPT ![c] =
                 [[[cl[c] EXCEPT !.cfg = cfg] EXCEPT !.peer = cl[c].peer]
                    EXCEPT !.at = "promote.run"]]
    BY <1>2, <1>5 DEF Client
  <2>2. OnTrack(cl[c].op, "promote.run") /\ "promote.run" \in Points
    BY <1>2 DEF OnTrack, Points
  <2>3. Knows([[[cl[c] EXCEPT !.cfg = cfg] EXCEPT !.peer = cl[c].peer]
                 EXCEPT !.at = "promote.run"])
    BY <1>2, SentinelAssumption DEF Knows, Client
  <2>4. cl[c].peer \in Ports \cup {None}
    BY <1>2 DEF Client
  <2>. QED BY <1>2, <1>3, <2>1, <2>2, <2>3, <2>4, RememberInv
<1>6. disk[cl[c].dir].cfg # None => disk[cl[c].dir].cfg \in Sandbox
  BY <1>2 DEF HostTypeOK, Files
<1>. QED BY <1>4, <1>5, <1>6 DEF PromoteLoad

LEMMA PromoteRunInv ==
  ASSUME Inv, NEW c \in Clients, PromoteRun(c)
  PROVE  Inv'
<1>1. At(c, "promote.run")
  BY DEF PromoteRun
<1>2. /\ HostTypeOK /\ calls' \in Nat /\ InFlight(c) /\ cl[c].at = "promote.run"
      /\ OnTrack(cl[c].op, "promote.run") /\ Knows(cl[c]) /\ cl[c].dir \in Dirs
      /\ cl[c] \in Client
  BY <1>1, Standing DEF Points
<1>3. HostTypeOK'
  <2>1. CASE Quiet
    BY <1>2, <2>1, QuietTyped
  <2>2. CASE /\ disk' = [disk EXCEPT ![cl[c].dir].data = "promoting"]
             /\ UNCHANGED <<srv, db, strays>>
    BY <1>2, <2>2 DEF HostTypeOK, Files, DataStates
  <2>. QED BY <2>1, <2>2 DEF PromoteRun
<1>4. CASE Return(c, "fail")
  BY <1>2, <1>3, <1>4, ReturnInv DEF Ends
<1>5. CASE Go(c, "promote.wait")
  <2>1. OnTrack(cl[c].op, "promote.wait") /\ "promote.wait" \in Points
    BY <1>2 DEF OnTrack, Points
  <2>2. Knows([cl[c] EXCEPT !.at = "promote.wait"])
    BY <1>2 DEF Knows, Client
  <2>. QED BY <1>2, <1>3, <1>5, <2>1, <2>2, GoInv
<1>. QED BY <1>4, <1>5 DEF PromoteRun

LEMMA PromoteWaitInv ==
  ASSUME Inv, NEW c \in Clients, PromoteWait(c)
  PROVE  Inv'
<1>1. At(c, "promote.wait") /\ Quiet
  BY DEF PromoteWait
<1>2. /\ HostTypeOK /\ calls' \in Nat /\ InFlight(c) /\ cl[c].at = "promote.wait"
      /\ OnTrack(cl[c].op, "promote.wait") /\ Knows(cl[c]) /\ cl[c] \in Client
  BY <1>1, Standing DEF Points
<1>3. HostTypeOK'
  BY <1>1, <1>2, QuietTyped
<1>4. CASE Return(c, "fail")
  BY <1>2, <1>3, <1>4, ReturnInv DEF Ends
<1>5. ASSUME NEW point \in {"slot.load", "promote.save"}, Go(c, point),
             point = "slot.load" => cl[c].cfg.physical # None
      PROVE  Inv'
  <2>1. OnTrack(cl[c].op, point) /\ point \in Points
    BY <1>2 DEF OnTrack, Points
  <2>2. Knows([cl[c] EXCEPT !.at = point])
    BY <1>2, <1>5 DEF Knows, Client
  <2>. QED BY <1>2, <1>3, <1>5, <2>1, <2>2, GoInv
<1>. QED BY <1>4, <1>5 DEF PromoteWait

\* The saves that end a command: whatever they write is a config.
LEMMA FinalSaveInv ==
  ASSUME Inv, NEW c \in Clients, InFlight(c), NEW cfg \in Sandbox,
         Save(c, cfg, Return(c, "ok")), calls' \in Nat
  PROVE  Inv'
<1>1. HostTypeOK /\ cl[c].dir \in Dirs
  BY DEF Inv, TypeOK, CallsWellFormed
<1>2. \/ disk' = [disk EXCEPT ![cl[c].dir].cfg = cfg] /\ UNCHANGED <<srv, db, strays>>
      \/ Quiet
  BY DEF Save
<1>3. HostTypeOK'
  BY <1>1, <1>2, SaveTyped
<1>4. ASSUME NEW outcome \in Ends, Return(c, outcome) PROVE Inv'
  BY <1>3, <1>4, ReturnInv
<1>. QED BY <1>4 DEF Save, Ends

LEMMA PromoteSaveInv ==
  ASSUME Inv, NEW c \in Clients, PromoteSave(c)
  PROVE  Inv'
<1> DEFINE cfg == [cl[c].cfg EXCEPT !.role = "primary", !.physical = None]
<1>1. At(c, "promote.save") /\ Save(c, cfg, Return(c, "ok"))
  BY DEF PromoteSave
<1>2. calls' \in Nat /\ InFlight(c) /\ cl[c].cfg # None /\ cl[c] \in Client
  BY <1>1, Standing DEF Points, Knows
<1>3. cfg \in Sandbox
  BY <1>2 DEF Client, Sandbox, Roles
<1> HIDE DEF cfg
<1>. QED BY <1>1, <1>2, <1>3, FinalSaveInv

LEMMA PromoteStepInv ==
  ASSUME Inv, NEW c \in Clients, PromoteStep(c)
  PROVE  Inv'
BY PromoteLoadInv, PromoteRunInv, PromoteWaitInv, PromoteSaveInv DEF PromoteStep

LEMMA SetLoadInv ==
  ASSUME Inv, NEW c \in Clients, SetLoad(c)
  PROVE  Inv'
<1>1. At(c, "set.load") /\ Quiet
  BY DEF SetLoad
<1>2. /\ HostTypeOK /\ calls' \in Nat /\ InFlight(c) /\ cl[c].at = "set.load"
      /\ OnTrack(cl[c].op, "set.load") /\ Knows(cl[c]) /\ cl[c].dir \in Dirs
      /\ cl[c] \in Client /\ cl \in [Clients -> Client]
  BY <1>1, Standing DEF Points, Inv, TypeOK
<1>3. HostTypeOK'
  BY <1>1, <1>2, QuietTyped
<1>4. CASE Return(c, "fail")
  BY <1>2, <1>3, <1>4, ReturnInv DEF Ends
<1>5. ASSUME NEW cfg \in Sandbox,
             cl' = [cl EXCEPT ![c].cfg = cfg, ![c].at = "set.save"]
      PROVE  Inv'
  <2>1. cl' = [cl EXCEPT ![c] =
                 [[[cl[c] EXCEPT !.cfg = cfg] EXCEPT !.peer = cl[c].peer]
                    EXCEPT !.at = "set.save"]]
    BY <1>2, <1>5 DEF Client
  <2>2. OnTrack(cl[c].op, "set.save") /\ "set.save" \in Points
    BY <1>2 DEF OnTrack, Points
  <2>3. Knows([[[cl[c] EXCEPT !.cfg = cfg] EXCEPT !.peer = cl[c].peer]
                 EXCEPT !.at = "set.save"])
    BY <1>2, SentinelAssumption DEF Knows, Client
  <2>4. cl[c].peer \in Ports \cup {None}
    BY <1>2 DEF Client
  <2>. QED BY <1>2, <1>3, <2>1, <2>2, <2>3, <2>4, RememberInv
<1>6. disk[cl[c].dir].cfg # None => disk[cl[c].dir].cfg \in Sandbox
  BY <1>2 DEF HostTypeOK, Files
<1>. QED BY <1>4, <1>5, <1>6 DEF SetLoad

LEMMA SetSaveInv ==
  ASSUME Inv, NEW c \in Clients, SetSave(c)
  PROVE  Inv'
<1> DEFINE cfg == [cl[c].cfg EXCEPT !.port = cl[c].port]
<1>1. At(c, "set.save") /\ Save(c, cfg, Return(c, "ok"))
  BY DEF SetSave
<1>2. /\ calls' \in Nat /\ InFlight(c) /\ cl[c].cfg # None /\ cl[c].port # None
      /\ cl[c] \in Client
  BY <1>1, Standing DEF Points, Knows
<1>3. cfg \in Sandbox
  BY <1>2 DEF Client, Sandbox
<1> HIDE DEF cfg
<1>. QED BY <1>1, <1>2, <1>3, FinalSaveInv

LEMMA PublishLoadInv ==
  ASSUME Inv, NEW c \in Clients, PublishLoad(c)
  PROVE  Inv'
<1>1. At(c, "pub.load") /\ Quiet
  BY DEF PublishLoad
<1>2. /\ HostTypeOK /\ calls' \in Nat /\ InFlight(c) /\ cl[c].at = "pub.load"
      /\ OnTrack(cl[c].op, "pub.load") /\ Knows(cl[c]) /\ cl[c].dir \in Dirs
      /\ cl[c] \in Client /\ cl \in [Clients -> Client]
  BY <1>1, Standing DEF Points, Inv, TypeOK
<1>3. HostTypeOK'
  BY <1>1, <1>2, QuietTyped
<1>4. CASE Return(c, "fail")
  BY <1>2, <1>3, <1>4, ReturnInv DEF Ends
<1>5. ASSUME NEW cfg \in Sandbox,
             cl' = [cl EXCEPT ![c].cfg = cfg, ![c].at = "pub.show"]
      PROVE  Inv'
  <2>1. cl' = [cl EXCEPT ![c] =
                 [[[cl[c] EXCEPT !.cfg = cfg] EXCEPT !.peer = cl[c].peer]
                    EXCEPT !.at = "pub.show"]]
    BY <1>2, <1>5 DEF Client
  <2>2. OnTrack(cl[c].op, "pub.show") /\ "pub.show" \in Points
    BY <1>2 DEF OnTrack, Points
  <2>3. Knows([[[cl[c] EXCEPT !.cfg = cfg] EXCEPT !.peer = cl[c].peer]
                 EXCEPT !.at = "pub.show"])
    BY <1>2, SentinelAssumption DEF Knows, Client
  <2>4. cl[c].peer \in Ports \cup {None}
    BY <1>2 DEF Client
  <2>. QED BY <1>2, <1>3, <2>1, <2>2, <2>3, <2>4, RememberInv
<1>6. Reachable(cl[c].dir) => disk[cl[c].dir].cfg \in Sandbox
  BY <1>2 DEF Reachable, HostTypeOK, Files
<1>. QED BY <1>4, <1>5, <1>6 DEF PublishLoad

LEMMA ShowWalLevelInv ==
  ASSUME Inv, NEW c \in Clients, ShowWalLevel(c)
  PROVE  Inv'
<1>1. At(c, "pub.show") /\ Quiet
  BY DEF ShowWalLevel
<1>2. /\ HostTypeOK /\ calls' \in Nat /\ InFlight(c) /\ cl[c].at = "pub.show"
      /\ OnTrack(cl[c].op, "pub.show") /\ Knows(cl[c]) /\ cl[c] \in Client
  BY <1>1, Standing DEF Points
<1>3. HostTypeOK'
  BY <1>1, <1>2, QuietTyped
<1>4. CASE Return(c, "fail")
  BY <1>2, <1>3, <1>4, ReturnInv DEF Ends
<1>5. ASSUME NEW point \in {"pub.create", "pub.alter", "stop.load"}, Go(c, point)
      PROVE  Inv'
  <2>1. OnTrack(cl[c].op, point) /\ point \in Points
    BY <1>2 DEF OnTrack, Points
  <2>2. Knows([cl[c] EXCEPT !.at = point])
    BY <1>2 DEF Knows, Client
  <2>. QED BY <1>2, <1>3, <1>5, <2>1, <2>2, GoInv
<1>. QED BY <1>4, <1>5 DEF ShowWalLevel

LEMMA AlterSystemInv ==
  ASSUME Inv, NEW c \in Clients, AlterSystem(c)
  PROVE  Inv'
<1>1. At(c, "pub.alter")
  BY DEF AlterSystem
<1>2. /\ HostTypeOK /\ calls' \in Nat /\ InFlight(c) /\ cl[c].at = "pub.alter"
      /\ OnTrack(cl[c].op, "pub.alter") /\ Knows(cl[c]) /\ cl[c] \in Client
  BY <1>1, Standing DEF Points
<1>3. HostTypeOK'
  <2>1. CASE Quiet
    BY <1>2, <2>1, QuietTyped
  <2>2. ASSUME NEW r \in Dirs, db' = [db EXCEPT ![r].walConf = TRUE],
               UNCHANGED <<disk, srv, strays>>
        PROVE  HostTypeOK'
    BY <1>2, <2>2 DEF HostTypeOK, Database
  <2>. QED BY <2>1, <2>2 DEF AlterSystem, Serving
<1>4. CASE Return(c, "fail")
  BY <1>2, <1>3, <1>4, ReturnInv DEF Ends
<1>5. CASE Go(c, "stop.load")
  <2>1. OnTrack(cl[c].op, "stop.load")
    BY <1>2 DEF OnTrack
  <2>2. Knows([cl[c] EXCEPT !.at = "stop.load"]) /\ "stop.load" \in Points
    BY <1>2, UndemandingKnown DEF Undemanding
  <2>. QED BY <1>2, <1>3, <1>5, <2>1, <2>2, GoInv
<1>. QED BY <1>4, <1>5 DEF AlterSystem

LEMMA CreatePublicationInv ==
  ASSUME Inv, NEW c \in Clients, CreatePublication(c)
  PROVE  Inv'
<1>1. At(c, "pub.create")
  BY DEF CreatePublication
<1>2. HostTypeOK /\ calls' \in Nat
  BY <1>1, Standing DEF Points
<1>3. HostTypeOK'
  <2>1. CASE Quiet
    BY <1>2, <2>1, QuietTyped
  <2>2. ASSUME NEW r \in Dirs, db' = [db EXCEPT ![r].pub = TRUE],
               UNCHANGED <<disk, srv, strays>>
        PROVE  HostTypeOK'
    BY <1>2, <2>2 DEF HostTypeOK, Database
  <2>. QED BY <2>1, <2>2 DEF CreatePublication, Serving
<1>4. ASSUME NEW outcome \in Ends, Return(c, outcome) PROVE Inv'
  BY <1>2, <1>3, <1>4, ReturnInv
<1>. QED BY <1>4 DEF CreatePublication, Ends

LEMMA SubscribeLoadInv ==
  ASSUME Inv, NEW c \in Clients, SubscribeLoad(c)
  PROVE  Inv'
<1>1. At(c, "sub.load") /\ Quiet
  BY DEF SubscribeLoad
<1>2. /\ HostTypeOK /\ calls' \in Nat /\ InFlight(c) /\ cl[c].at = "sub.load"
      /\ OnTrack(cl[c].op, "sub.load") /\ Knows(cl[c]) /\ cl[c].dir \in Dirs
      /\ cl[c] \in Client /\ cl \in [Clients -> Client]
  BY <1>1, Standing DEF Points, Inv, TypeOK
<1>3. HostTypeOK'
  BY <1>1, <1>2, QuietTyped
<1>4. CASE Return(c, "fail")
  BY <1>2, <1>3, <1>4, ReturnInv DEF Ends
<1>5. ASSUME NEW cfg \in Sandbox, NEW p \in Ports,
             cl' = [cl EXCEPT ![c].cfg = cfg, ![c].peer = p, ![c].at = "sub.create"]
      PROVE  Inv'
  <2>1. cl' = [cl EXCEPT ![c] =
                 [[[cl[c] EXCEPT !.cfg = cfg] EXCEPT !.peer = p]
                    EXCEPT !.at = "sub.create"]]
    BY <1>2, <1>5
  <2>2. OnTrack(cl[c].op, "sub.create") /\ "sub.create" \in Points
    BY <1>2 DEF OnTrack, Points
  <2>3. Knows([[[cl[c] EXCEPT !.cfg = cfg] EXCEPT !.peer = p]
                 EXCEPT !.at = "sub.create"])
    BY <1>2, SentinelAssumption DEF Knows, Client
  <2>. QED BY <1>2, <1>3, <2>1, <2>2, <2>3, RememberInv
<1>6. disk[cl[c].dir].cfg # None => disk[cl[c].dir].cfg \in Sandbox
  BY <1>2 DEF HostTypeOK, Files
<1>7. Reachable(cl[c].src) => disk[cl[c].src].cfg.port \in Ports
  BY <1>2 DEF Reachable, HostTypeOK, Files, Sandbox
<1>. QED BY <1>4, <1>5, <1>6, <1>7 DEF SubscribeLoad

LEMMA CreateSubscriptionInv ==
  ASSUME Inv, NEW c \in Clients, CreateSubscription(c)
  PROVE  Inv'
<1>1. At(c, "sub.create")
  BY DEF CreateSubscription
<1>2. /\ HostTypeOK /\ calls' \in Nat /\ InFlight(c) /\ cl[c].at = "sub.create"
      /\ OnTrack(cl[c].op, "sub.create") /\ Knows(cl[c]) /\ cl[c] \in Client
  BY <1>1, Standing DEF Points
<1>3. cl[c].name \in Names
  BY <1>2 DEF OnTrack, Knows, Client
<1>4. CASE Quiet /\ Return(c, "fail")
  BY <1>2, <1>4, QuietTyped, ReturnInv DEF Ends
<1>5. ASSUME NEW s \in Dirs, NEW p \in Dirs, s # p, Go(c, "sub.save"),
             db' = [db EXCEPT
               ![s].subs = @ \cup {[name |-> cl[c].name, pub |-> p]},
               ![p].slots = @ \cup {[name |-> cl[c].name, owner |-> s]}],
             UNCHANGED <<disk, srv, strays>>
      PROVE  Inv'
  <2>1. [name |-> cl[c].name, pub |-> p] \in Subscription
    BY <1>3 DEF Subscription
  <2>2. [name |-> cl[c].name, owner |-> s] \in Slot
    BY <1>3 DEF Slot
  <2>3. db' \in [Dirs -> Database]
    <3>1. db \in [Dirs -> Database]
      BY <1>2 DEF HostTypeOK
    <3>2. db'[s] = [db[s] EXCEPT !.subs = @ \cup {[name |-> cl[c].name, pub |-> p]}]
      BY <1>5, <3>1
    <3>3. db'[p] = [db[p] EXCEPT !.slots = @ \cup {[name |-> cl[c].name, owner |-> s]}]
      BY <1>5, <3>1
    <3>4. \A e \in Dirs : e # s /\ e # p => db'[e] = db[e]
      BY <1>5, <3>1
    <3>5. db'[s] \in Database /\ db'[p] \in Database
      BY <2>1, <2>2, <3>1, <3>2, <3>3 DEF Database
    <3>6. db' = [e \in Dirs |-> db'[e]]
      BY <1>5, <3>1
    <3>. QED BY <3>1, <3>4, <3>5, <3>6
  <2>4. HostTypeOK'
    BY <1>2, <1>5, <2>3 DEF HostTypeOK
  <2>5. OnTrack(cl[c].op, "sub.save") /\ "sub.save" \in Points
    BY <1>2 DEF OnTrack, Points
  <2>6. Knows([cl[c] EXCEPT !.at = "sub.save"])
    BY <1>2 DEF Knows, Client
  <2>. QED BY <1>2, <1>5, <2>4, <2>5, <2>6, GoInv
<1>. QED BY <1>4, <1>5 DEF CreateSubscription, Serving

LEMMA SubscribeSaveInv ==
  ASSUME Inv, NEW c \in Clients, SubscribeSave(c)
  PROVE  Inv'
<1> DEFINE cfg == [cl[c].cfg EXCEPT !.role = "subscriber",
                     !.logical = [src |-> cl[c].src, sub |-> cl[c].name]]
<1>1. At(c, "sub.save") /\ Save(c, cfg, Return(c, "ok"))
  BY DEF SubscribeSave
<1>2. /\ calls' \in Nat /\ InFlight(c) /\ cl[c].cfg # None
      /\ cl[c].src # None /\ cl[c].name # None /\ cl[c] \in Client
  BY <1>1, Standing DEF Points, Knows, OnTrack
<1>3. [src |-> cl[c].src, sub |-> cl[c].name] \in Logical
  BY <1>2 DEF Client, Logical
<1>4. cfg \in Sandbox
  BY <1>2, <1>3 DEF Client, Sandbox, Roles
<1> HIDE DEF cfg
<1>. QED BY <1>1, <1>2, <1>4, FinalSaveInv

LEMMA LogicalStepInv ==
  ASSUME Inv, NEW c \in Clients, LogicalStep(c)
  PROVE  Inv'
BY PublishLoadInv, ShowWalLevelInv, AlterSystemInv, CreatePublicationInv,
   SubscribeLoadInv, CreateSubscriptionInv, SubscribeSaveInv DEF LogicalStep

LEMMA ClientStepInv ==
  ASSUME Inv, NEW c \in Clients, ClientStep(c)
  PROVE  Inv'
BY DeployStepInv, LifecycleStepInv, DestroyStepInv, PromoteStepInv, LogicalStepInv,
   SetLoadInv, SetSaveInv DEF ClientStep, SetStep

LEMMA KillClientInv ==
  ASSUME Inv, NEW c \in Clients, KillClient(c)
  PROVE  Inv'
<1>1. Return(c, "fail") /\ HostTypeOK' /\ calls' \in Nat
  BY QuietTyped DEF KillClient, Inv, TypeOK
<1>. QED BY <1>1, ReturnInv DEF Ends

\* A reboot ends every invocation.
LEMMA RebootInv ==
  ASSUME Inv, Reboot
  PROVE  Inv'
<1>1. HostTypeOK /\ cl \in [Clients -> Client]
  BY DEF Inv, TypeOK
<1>2. HostTypeOK'
  <2>1. disk' \in [Dirs -> Files]
    <3>1. ASSUME NEW f \in Files, NEW pid \in PidStates
          PROVE  [f EXCEPT !.data = Settled(@), !.pid = pid] \in Files
      <4>1. Settled(f.data) \in DataStates
        BY DEF Files, Settled, DataStates
      <4>. QED BY <4>1 DEF Files
    <3>2. ASSUME NEW f \in Files
          PROVE  (IF f.pid = "live" THEN "dead" ELSE f.pid) \in PidStates
      BY DEF Files, PidStates
    <3>3. \A d \in Dirs : disk[d] \in Files
      BY <1>1 DEF HostTypeOK
    <3>4. \A d \in Dirs : [disk[d] EXCEPT !.data = Settled(@),
                                         !.pid = IF @ = "live" THEN "dead" ELSE @] \in Files
      BY <3>1, <3>2, <3>3
    <3>. QED BY <3>4 DEF Reboot
  <2>2. db' \in [Dirs -> Database]
    BY <1>1 DEF Reboot, HostTypeOK, Database
  <2>. QED BY <2>1, <2>2 DEF Reboot, HostTypeOK
<1>3. cl' \in [Clients -> Client]
  <2>1. [Idle EXCEPT !.at = "fail"] \in Client
    BY BoundsAssumption DEF Idle, Client, Ends
  <2>. QED BY <1>1, <2>1 DEF Reboot
<1>4. ASSUME NEW c \in Clients PROVE ~InFlight(c)'
  <2>1. CASE InFlight(c)
    BY <2>1 DEF Reboot, InFlight, Idle, Ends
  <2>2. CASE ~InFlight(c)
    BY <2>2 DEF Reboot, InFlight
  <2>. QED BY <2>1, <2>2
<1>5. calls' \in Nat
  BY DEF Reboot, Inv, TypeOK
<1>. QED BY <1>2, <1>3, <1>4, <1>5 DEF Inv, TypeOK, CallsWellFormed

\* What happens on the machine leaves the invocations alone.
LEMMA StandStill ==
  ASSUME Inv, HostTypeOK', UNCHANGED <<cl, calls>>
  PROVE  Inv'
BY DEF Inv, TypeOK, CallsWellFormed, InFlight

LEMMA EnvironmentInv ==
  ASSUME Inv, Environment
  PROVE  Inv'
<1>1. HostTypeOK
  BY DEF Inv, TypeOK
<1>2. CASE Reboot
  BY <1>2, RebootInv
<1>3. ASSUME NEW d \in Dirs, FinishPromotion(d) PROVE HostTypeOK'
  BY <1>1, <1>3 DEF FinishPromotion, HostTypeOK, Files, DataStates
<1>4. ASSUME NEW d \in Dirs, KillServer(d) PROVE HostTypeOK'
  <2>1. disk[d].pid \in PidStates
    BY <1>1 DEF HostTypeOK, Files
  <2>. QED BY <1>1, <1>4, <2>1, ServerDownTyped DEF KillServer, PidStates
<1>5. ASSUME NEW d \in Dirs, ReusePid(d) PROVE HostTypeOK'
  BY <1>1, <1>5 DEF ReusePid, HostTypeOK, Files, PidStates
<1>6. ASSUME NEW d \in Dirs, LocklessExit(d) PROVE HostTypeOK'
  BY <1>1, <1>6, ServerDownTyped DEF LocklessExit, PidStates
<1>7. ASSUME NEW p \in Ports, StrayExit(p) PROVE HostTypeOK'
  BY <1>1, <1>7 DEF StrayExit, HostTypeOK
<1>. QED BY <1>2, <1>3, <1>4, <1>5, <1>6, <1>7, StandStill DEF Environment, Machine

LEMMA InitInv == Init => Inv
<1> SUFFICES ASSUME Init PROVE Inv
  OBVIOUS
<1>1. TypeOK
  <2>1. Idle \in Client
    BY BoundsAssumption DEF Idle, Client, Ends
  <2>. QED BY <2>1, HostInitTyped DEF Init, TypeOK
<1>2. CallsWellFormed
  BY DEF Init, CallsWellFormed, InFlight, Idle, Ends
<1>. QED BY <1>1, <1>2 DEF Inv

LEMMA StepInv == Inv /\ [Next]_vars => Inv'
<1> SUFFICES ASSUME Inv, [Next]_vars PROVE Inv'
  OBVIOUS
<1>1. CASE UNCHANGED vars
  BY <1>1, QuietTyped, StandStill DEF vars, Quiet, host, Inv, TypeOK
<1>2. CASE Next
  BY <1>2, BeginCallInv, ClientStepInv, KillClientInv, EnvironmentInv DEF Next
<1>. QED BY <1>1, <1>2

LEMMA AlwaysInv == Spec => []Inv
BY InitInv, StepInv, PTL DEF Spec

\* Whatever commands, faults and bounds an instance allows, every variable
\* stays in its type: in particular every config an interleaving of commands
\* writes is a record of ports, roles and sandboxes, never a mixture.
THEOREM TypeCorrect == Spec => []TypeOK
<1>1. Inv => TypeOK
  BY DEF Inv
<1>. QED BY <1>1, AlwaysInv, PTL

\* No command of any interleaving dereferences the physical or logical block
\* of a config that lacks it, or goes on without the port or the source its
\* next step needs (destroy.go, promote.go, subscribe.go).
THEOREM NoNilBlock == Spec => []CallsWellFormed
<1>1. Inv => CallsWellFormed
  BY DEF Inv
<1>. QED BY <1>1, AlwaysInv, PTL

-----------------------------------------------------------------------------
\* A command stays what it is

\* A step of one command leaves what the others remember alone, and the command
\* itself what it is and works on, until it exits.
LEMMA OneMoves ==
  ASSUME cl \in [Clients -> Client], NEW c \in Clients, ClientStep(c)
  PROVE  /\ \A b \in Clients \ {c} : cl'[b] = cl[b]
         /\ InFlight(c)' => cl'[c].op = cl[c].op /\ cl'[c].dir = cl[c].dir
                            /\ cl'[c].src = cl[c].src /\ cl'[c].name = cl[c].name
<1>0. cl[c] \in Client
  OBVIOUS
<1> DEFINE Goal == /\ \A b \in Clients \ {c} : cl'[b] = cl[b]
                   /\ InFlight(c)' => cl'[c].op = cl[c].op /\ cl'[c].dir = cl[c].dir
                                      /\ cl'[c].src = cl[c].src /\ cl'[c].name = cl[c].name
<1>1. CASE DeployStep(c)
  <2>0. /\ \A point : Go(c, point) => Goal
        /\ Return(c, "fail") => Goal
        /\ \A p, next : cl' = [cl EXCEPT ![c].port = p, ![c].at = next] => Goal
    BY <1>0 DEF Go, Return, Client, Idle, InFlight, Ends
  <2>1. (ChoosePort(c) \/ MakeDirChoosePort(c) \/ InitDb(c) \/ LaunchDeployed(c)) => Goal
    <3>1. ASSUME NEW next, ResolvePort(c, next) PROVE Goal
      BY <2>0, <3>1 DEF ResolvePort
    <3>2. InitDb(c) => Go(c, "launch") \/ Return(c, "fail")
      BY DEF InitDb
    <3>3. LaunchDeployed(c) => Go(c, "save") \/ Return(c, "fail")
      BY DEF LaunchDeployed, PgCtlStart
    <3>. QED BY <2>0, <3>1, <3>2, <3>3 DEF ChoosePort, MakeDirChoosePort
  <2>2. SaveDeployed(c) => Goal
    BY <1>0 DEF SaveDeployed, Save, Go, Return, Client, Idle, InFlight, Ends
  <2>3. (ProbeSource(c) \/ ProbeRole(c) \/ CreateRole(c) \/ EnsureHba(c)) => Goal
    BY <1>0 DEF ProbeSource, ProbeRole, CreateRole, EnsureHba, Go, Return, Client,
       Idle, InFlight, Ends
  <2>4. BaseBackup(c) => Goal
    <3>1. BaseBackup(c) => Go(c, "launch") \/ Return(c, "fail")
      BY DEF BaseBackup
    <3>. QED BY <1>0, <3>1 DEF Go, Return, Client, Idle, InFlight, Ends
  <2>. QED BY <1>1, <2>1, <2>2, <2>3, <2>4 DEF DeployStep
<1>2. CASE LifecycleStep(c)
  BY <1>0, <1>2 DEF LifecycleStep, StartLoad, StartRun, PgCtlStart, StartDone,
     StopLoad, StopUnlink, StopRun, StopDone, Go, Return, Client, Idle, InFlight,
     Ends
<1>3. CASE DestroyStep(c)
  BY <1>0, <1>3 DEF DestroyStep, DestroyLoad, DropSubscription, DestroyStop,
     SlotLoad, SlotDrop, SlotDone, DestroyRemove, Go, Return, Client, Idle,
     InFlight, Ends
<1>4. CASE PromoteStep(c)
  BY <1>0, <1>4 DEF PromoteStep, PromoteLoad, PromoteRun, PromoteWait,
     PromoteSave, Save, Go, Return, Client, Idle, InFlight, Ends
<1>5. CASE LogicalStep(c)
  <2>1. (PublishLoad(c) \/ ShowWalLevel(c) \/ AlterSystem(c) \/ CreatePublication(c)) => Goal
    BY <1>0 DEF PublishLoad, ShowWalLevel, AlterSystem, CreatePublication,
       Go, Return, Client, Idle, InFlight, Ends
  <2>2. SubscribeLoad(c) => Goal
    BY <1>0 DEF SubscribeLoad, Return, Client, Idle, InFlight, Ends
  <2>3. (CreateSubscription(c) \/ SubscribeSave(c)) => Goal
    <3>1. CreateSubscription(c) => Go(c, "sub.save") \/ Return(c, "fail")
      BY DEF CreateSubscription
    <3>2. SubscribeSave(c) => Return(c, "ok") \/ Return(c, "fail")
      BY DEF SubscribeSave, Save
    <3>. QED BY <1>0, <3>1, <3>2 DEF Go, Return, Client, Idle, InFlight, Ends
  <2>. QED BY <1>5, <2>1, <2>2, <2>3 DEF LogicalStep
<1>6. CASE SetStep(c)
  BY <1>0, <1>6 DEF SetStep, SetLoad, SetSave, Save, Go, Return, Client, Idle,
     InFlight, Ends
<1>. QED BY <1>1, <1>2, <1>3, <1>4, <1>5, <1>6 DEF ClientStep

\* Nothing changes in the files and the server of any sandbox but d.
Elsewhere(d) == \A e \in Dirs \ {d} : disk'[e] = disk[e] /\ srv'[e] = srv[e]

\* Whatever it reads of other sandboxes, a command writes files, and starts and
\* stops servers, only in its own; only destroy leaves a server without a
\* directory.
LEMMA OwnSandboxOnly ==
  ASSUME HostTypeOK, NEW c \in Clients, cl[c].dir \in Dirs, ClientStep(c)
  PROVE  Elsewhere(cl[c].dir) /\ (~DestroyRemove(c) => UNCHANGED strays)
<1> DEFINE d == cl[c].dir
<1>1. disk \in [Dirs -> Files] /\ srv \in [Dirs -> Ports \cup {None}]
  BY DEF HostTypeOK
<1>2. /\ Quiet => Elsewhere(d) /\ UNCHANGED strays
      /\ UNCHANGED <<disk, srv, strays>> => Elsewhere(d) /\ UNCHANGED strays
      /\ \A f : disk' = [disk EXCEPT ![d] = f] /\ UNCHANGED srv => Elsewhere(d)
      /\ \A p : ServerUp(d, p) \/ ServerDown(d, p) => Elsewhere(d) /\ UNCHANGED strays
      /\ \A f : Removed(d, f) => Elsewhere(d)
  BY <1>1 DEF Quiet, host, Elsewhere, ServerUp, ServerDown, Removed
<1>3. CASE DeployStep(c)
  <2>1. CASE ChoosePort(c) \/ ProbeSource(c) \/ ProbeRole(c) \/ CreateRole(c)
             \/ EnsureHba(c)
    BY <1>2, <2>1 DEF ChoosePort, ProbeSource, ProbeRole, CreateRole, EnsureHba
  <2>2. CASE MakeDirChoosePort(c) \/ InitDb(c)
    BY <1>1, <2>2 DEF MakeDirChoosePort, InitDb, Elsewhere
  <2>3. CASE LaunchDeployed(c)
    BY <1>2, <2>3 DEF LaunchDeployed, PgCtlStart
  <2>4. CASE SaveDeployed(c)
    BY <1>1, <1>2, <2>4 DEF SaveDeployed, Save, Elsewhere
  <2>5. CASE BaseBackup(c)
    BY <1>1, <1>2, <2>5 DEF BaseBackup, Elsewhere
  <2>. QED BY <1>3, <2>1, <2>2, <2>3, <2>4, <2>5 DEF DeployStep
<1>4. CASE LifecycleStep(c)
  BY <1>1, <1>2, <1>4 DEF LifecycleStep, StartLoad, StartRun, PgCtlStart, StopLoad,
     StopUnlink, StopRun, Elsewhere
<1>5. CASE DestroyStep(c)
  BY <1>2, <1>5 DEF DestroyStep, DestroyLoad, DropSubscription, DestroyStop,
     SlotLoad, SlotDrop, DestroyRemove
<1>6. CASE PromoteStep(c)
  BY <1>1, <1>2, <1>6 DEF PromoteStep, PromoteLoad, PromoteRun, PromoteWait,
     PromoteSave, Save, Elsewhere
<1>7. CASE LogicalStep(c)
  BY Zenon, <1>1, <1>2, <1>7 DEF LogicalStep, PublishLoad, ShowWalLevel, AlterSystem,
     CreatePublication, SubscribeLoad, CreateSubscription, SubscribeSave, Save,
     Elsewhere
<1>8. CASE SetStep(c)
  BY <1>1, <1>2, <1>8 DEF SetStep, SetLoad, SetSave, Save, Elsewhere
<1>. QED BY <1>3, <1>4, <1>5, <1>6, <1>7, <1>8 DEF ClientStep

\* A step is that of a command in flight.
LEMMA StepIsInFlight ==
  ASSUME NEW c \in Clients, ClientStep(c)
  PROVE  InFlight(c)
<1>1. \E point \in Points : cl[c].at = point
  BY Zenon DEF ClientStep, DeployStep, LifecycleStep, DestroyStep, PromoteStep,
     LogicalStep, SetStep, At, Points,
     ChoosePort, MakeDirChoosePort, InitDb, LaunchDeployed, SaveDeployed,
     ProbeSource, ProbeRole, CreateRole, EnsureHba, BaseBackup,
     StartLoad, StartRun, StopLoad, StopUnlink, StopRun,
     DestroyLoad, DropSubscription, DestroyStop, SlotLoad, SlotDrop, DestroyRemove,
     PromoteLoad, PromoteRun, PromoteWait, PromoteSave,
     PublishLoad, ShowWalLevel, AlterSystem, CreatePublication, SubscribeLoad,
     CreateSubscription, SubscribeSave, SetLoad, SetSave
<1>. QED BY <1>1 DEF InFlight, Points, Ends

\* The commands in flight are those of the instance.
Offered == \A c \in Clients : InFlight(c) => cl[c].op \in Ops

LEMMA StepOffered ==
  ASSUME Inv, Offered, [Next]_vars
  PROVE  Offered'
<1>1. cl \in [Clients -> Client]
  BY DEF Inv, TypeOK
<1>2. ASSUME NEW c \in Clients, BeginCall(c) PROVE Offered'
  <2>1. ASSUME NEW op, NEW point, NEW d, NEW src, NEW name, NEW port,
               Begin(c, op, point, d, src, name, port)
        PROVE  Offered'
    BY <1>1, <2>1 DEF Begin, Offered, InFlight
  <2>. QED BY <1>2, <2>1 DEF BeginCall, BeginDeploy, BeginLifecycle, BeginDestroy,
       BeginPromote, BeginPublish, BeginSubscribe, BeginSet
<1>3. ASSUME NEW c \in Clients, ClientStep(c) PROVE Offered'
  <2>1. /\ \A b \in Clients \ {c} : cl'[b] = cl[b]
        /\ InFlight(c)' => cl'[c].op = cl[c].op
    BY <1>1, <1>3, OneMoves
  <2>2. InFlight(c)
    BY <1>3, StepIsInFlight
  <2>. QED BY <2>1, <2>2 DEF Offered, InFlight
<1>4. ASSUME NEW c \in Clients, KillClient(c) PROVE Offered'
  BY <1>1, <1>4 DEF KillClient, Return, Idle, Offered, InFlight, Ends
<1>5. CASE Environment
  <2>1. CASE Machine
    BY <2>1 DEF Machine, Offered, InFlight
  <2>2. CASE Reboot
    BY <2>2 DEF Reboot, Idle, Offered, InFlight, Ends
  <2>. QED BY <1>5, <2>1, <2>2 DEF Environment
<1>6. CASE UNCHANGED vars
  BY <1>6 DEF vars, Offered, InFlight
<1>. QED BY <1>2, <1>3, <1>4, <1>5, <1>6 DEF Next

LEMMA AlwaysOffered == Spec => []Offered
<1>1. Init => Offered
  BY DEF Init, Idle, Offered, InFlight, Ends
<1>2. Inv /\ Offered /\ [Next]_vars => Offered'
  BY StepOffered
<1>. QED BY <1>1, <1>2, AlwaysInv, PTL DEF Spec

-----------------------------------------------------------------------------
\* Configs stay valid.  promote, subscribe and config set write back a config
\* they read earlier, so what they remember has to be valid too.

RememberedConfigIsValid ==
  \A c \in Clients : cl[c].cfg # None => ValidConfig(cl[c].cfg)

ValidInv == Inv /\ RecordedConfigIsValid /\ RememberedConfigIsValid

\* A step that writes no config, and in which invocations remember at most a
\* config they have just read.
WritesNone == \A d \in Dirs : disk'[d].cfg \in {disk[d].cfg, None}

Reads == \A b \in Clients : \/ cl'[b].cfg \in {cl[b].cfg, None}
                            \/ \E d \in Dirs : cl'[b].cfg = disk[d].cfg

LEMMA ReadOnly == ASSUME ValidInv, Inv', WritesNone, Reads PROVE ValidInv'
BY DEF ValidInv, RecordedConfigIsValid, RememberedConfigIsValid, WritesNone, Reads

LEMMA MovesRead ==
  ASSUME Inv, NEW c \in Clients,
         \/ \E point \in Points : Go(c, point)
         \/ \E outcome \in Ends : Return(c, outcome)
  PROVE  Reads
<1>1. cl \in [Clients -> Client]
  BY DEF Inv, TypeOK
<1>2. ASSUME NEW point \in Points, Go(c, point) PROVE Reads
  BY <1>1, <1>2 DEF Go, Reads, Client
<1>3. ASSUME NEW outcome \in Ends, Return(c, outcome) PROVE Reads
  BY <1>1, <1>3 DEF Return, Reads, Client, Idle
<1>. QED BY <1>2, <1>3

LEMMA PortRead ==
  ASSUME cl \in [Clients -> Client], NEW c \in Clients, NEW p, NEW point,
         cl' = [cl EXCEPT ![c].port = p, ![c].at = point]
  PROVE  Reads
<1>1. \A b \in Clients : cl'[b].cfg = cl[b].cfg
  BY DEF Client
<1>. QED BY <1>1 DEF Reads

LEMMA PeerRead ==
  ASSUME cl \in [Clients -> Client], NEW c \in Clients, NEW p, NEW point,
         cl' = [cl EXCEPT ![c].peer = p, ![c].at = point]
  PROVE  Reads
<1>1. \A b \in Clients : cl'[b].cfg = cl[b].cfg
  BY DEF Client
<1>. QED BY <1>1 DEF Reads

LEMMA ConfigRead ==
  ASSUME cl \in [Clients -> Client], NEW c \in Clients, NEW d \in Dirs, NEW point,
         cl' = [cl EXCEPT ![c].cfg = disk[d].cfg, ![c].at = point]
  PROVE  Reads
<1>1. \A b \in Clients : cl'[b].cfg \in {cl[b].cfg, disk[d].cfg}
  BY DEF Client
<1>. QED BY <1>1 DEF Reads

LEMMA ConfigAndPeerRead ==
  ASSUME cl \in [Clients -> Client], NEW c \in Clients, NEW d \in Dirs, NEW p,
         NEW point,
         cl' = [cl EXCEPT ![c].cfg = disk[d].cfg, ![c].peer = p, ![c].at = point]
  PROVE  Reads
<1>1. \A b \in Clients : cl'[b].cfg \in {cl[b].cfg, disk[d].cfg}
  BY DEF Client
<1>. QED BY <1>1 DEF Reads

LEMMA QuietWrites == ASSUME Quiet PROVE WritesNone
BY DEF Quiet, host, WritesNone

LEMMA ServerWrites ==
  ASSUME HostTypeOK, NEW d \in Dirs, NEW p, ServerUp(d, p) \/ ServerDown(d, p)
  PROVE  WritesNone
BY DEF ServerUp, ServerDown, WritesNone, HostTypeOK, Files

\* A save leaves the config given to it, or none.
LEMMA SaveValid ==
  ASSUME ValidInv, Inv', NEW c \in Clients, NEW cfg, ValidConfig(cfg), Reads,
         \/ disk' = [disk EXCEPT ![cl[c].dir].cfg = cfg]
         \/ Quiet
  PROVE  ValidInv'
<1>1. disk \in [Dirs -> Files]
  BY DEF ValidInv, Inv, TypeOK, HostTypeOK
<1>2. \A d \in Dirs : disk'[d].cfg \in {disk[d].cfg, cfg}
  BY <1>1 DEF Quiet, host, Files
<1>3. RecordedConfigIsValid'
  BY <1>2 DEF ValidInv, RecordedConfigIsValid
<1>4. RememberedConfigIsValid'
  BY DEF ValidInv, RecordedConfigIsValid, RememberedConfigIsValid, Reads
<1>. QED BY <1>3, <1>4 DEF ValidInv

LEMMA DeployStepValid ==
  ASSUME ValidInv, NEW c \in Clients, DeployStep(c)
  PROVE  ValidInv'
<1>1. Inv' /\ Inv /\ HostTypeOK /\ cl \in [Clients -> Client]
  BY DeployStepInv DEF ValidInv, Inv, TypeOK
<1>2. disk \in [Dirs -> Files]
  BY <1>1 DEF HostTypeOK
<1>3. CASE ChoosePort(c)
  <2>1. Reads
    BY <1>1, <1>3, PortRead, MovesRead DEF ChoosePort, ResolvePort, Ends
  <2>. QED BY <1>1, <1>3, <2>1, QuietWrites, ReadOnly DEF ChoosePort
<1>4. CASE MakeDirChoosePort(c)
  <2>1. Reads
    BY <1>1, <1>4, PortRead, MovesRead DEF MakeDirChoosePort, ResolvePort, Ends
  <2>2. WritesNone
    BY <1>2, <1>4 DEF MakeDirChoosePort, WritesNone, Files
  <2>. QED BY <1>1, <2>1, <2>2, ReadOnly
<1>5. CASE InitDb(c)
  <2>1. Reads
    BY <1>1, <1>5, MovesRead DEF InitDb, Points, Ends
  <2>2. WritesNone
    BY <1>2, <1>5 DEF InitDb, WritesNone, Files
  <2>. QED BY <1>1, <2>1, <2>2, ReadOnly
<1>6. CASE LaunchDeployed(c)
  <2>1. Reads
    BY <1>1, <1>6, MovesRead DEF LaunchDeployed, PgCtlStart, Points, Ends
  <2>2. cl[c].dir \in Dirs
    BY <1>1, <1>6, Standing DEF LaunchDeployed, Points
  <2>3. WritesNone
    BY <1>1, <1>6, <2>2, ServerWrites, QuietWrites DEF LaunchDeployed, PgCtlStart
  <2>. QED BY <1>1, <2>1, <2>3, ReadOnly
<1>7. CASE SaveDeployed(c)
  <2> DEFINE cfg ==
        [port |-> cl[c].port,
         role |-> IF cl[c].op = "standby" THEN "standby" ELSE "primary",
         physical |-> IF cl[c].op = "standby"
                      THEN [src |-> cl[c].src, slot |-> cl[c].name] ELSE None,
         logical |-> None]
  <2>1. Reads
    BY <1>1, <1>7, MovesRead DEF SaveDeployed, Save, Points, Ends
  <2>2. cl[c].op = "standby" => [src |-> cl[c].src, slot |-> cl[c].name] # None
    <3>1. /\ cl[c] \in Client /\ Knows(cl[c])
      BY <1>1, <1>7, Standing DEF SaveDeployed, Points
    <3>2. cl[c].op = "standby" => [src |-> cl[c].src, slot |-> cl[c].name] \in Physical
      BY <3>1 DEF Knows, Client, Physical
    <3>. QED BY <3>2, SentinelAssumption
  <2>3. ValidConfig(cfg)
    BY <2>2 DEF ValidConfig
  <2>4. disk' = [disk EXCEPT ![cl[c].dir].cfg = cfg] \/ Quiet
    BY <1>7 DEF SaveDeployed, Save
  <2> HIDE DEF cfg
  <2>. QED BY <1>1, <2>1, <2>3, <2>4, SaveValid
<1>8. CASE ProbeSource(c)
  <2>1. Reads
    BY <1>1, <1>8, PeerRead, MovesRead DEF ProbeSource, Ends
  <2>. QED BY <1>1, <1>8, <2>1, QuietWrites, ReadOnly DEF ProbeSource
<1>9. CASE ProbeRole(c)
  <2>1. Reads
    BY <1>1, <1>9, MovesRead DEF ProbeRole, Points, Ends
  <2>. QED BY <1>1, <1>9, <2>1, QuietWrites, ReadOnly DEF ProbeRole
<1>10. CASE CreateRole(c)
  <2>1. Reads
    BY <1>1, <1>10, MovesRead DEF CreateRole, Points, Ends
  <2>2. WritesNone
    BY <1>10 DEF CreateRole, WritesNone, Quiet, host
  <2>. QED BY <1>1, <2>1, <2>2, ReadOnly
<1>11. CASE EnsureHba(c)
  <2>1. Reads
    BY <1>1, <1>11, MovesRead DEF EnsureHba, Points, Ends
  <2>2. WritesNone
    BY <1>11 DEF EnsureHba, WritesNone, Quiet, host
  <2>. QED BY <1>1, <2>1, <2>2, ReadOnly
<1>12. CASE BaseBackup(c)
  <2>1. Reads
    BY <1>1, <1>12, MovesRead DEF BaseBackup, Points, Ends
  <2>2. WritesNone
    <3>1. disk' = disk \/ \E data \in DataStates :
                            disk' = [disk EXCEPT ![cl[c].dir].data = data]
      BY <1>12 DEF BaseBackup, Quiet, host, DataStates
    <3>2. ASSUME NEW data \in DataStates,
                 disk' = [disk EXCEPT ![cl[c].dir].data = data]
          PROVE  WritesNone
      BY <1>2, <3>2 DEF WritesNone, Files
    <3>3. disk' = disk => WritesNone
      BY DEF WritesNone
    <3>. QED BY <3>1, <3>2, <3>3
  <2>. QED BY <1>1, <2>1, <2>2, ReadOnly
<1>. QED BY <1>3, <1>4, <1>5, <1>6, <1>7, <1>8, <1>9, <1>10, <1>11, <1>12
         DEF DeployStep

LEMMA LifecycleStepValid ==
  ASSUME ValidInv, NEW c \in Clients, LifecycleStep(c)
  PROVE  ValidInv'
<1>1. Inv' /\ Inv /\ HostTypeOK /\ cl \in [Clients -> Client]
  BY LifecycleStepInv DEF ValidInv, Inv, TypeOK
<1>2. disk \in [Dirs -> Files]
  BY <1>1 DEF HostTypeOK
<1>3. StartDone(c) => Reads
  BY <1>1, MovesRead DEF StartDone, Points, Ends
<1>4. StopDone(c) => Reads
  BY <1>1, MovesRead DEF StopDone, Points, Ends
<1>5. Return(c, "fail") => Reads
  BY <1>1, MovesRead DEF Ends
<1>6. CASE StartLoad(c)
  <2>1. Reads
    BY <1>1, <1>3, <1>5, <1>6, PortRead DEF StartLoad
  <2>. QED BY <1>1, <1>6, <2>1, QuietWrites, ReadOnly DEF StartLoad
<1>7. CASE StartRun(c)
  <2>1. Reads
    BY <1>3, <1>5, <1>7 DEF StartRun, PgCtlStart
  <2>2. cl[c].dir \in Dirs
    BY <1>1, <1>7, Standing DEF StartRun, Points
  <2>3. WritesNone
    BY <1>1, <1>7, <2>2, ServerWrites, QuietWrites DEF StartRun, PgCtlStart
  <2>. QED BY <1>1, <2>1, <2>3, ReadOnly
<1>8. CASE StopLoad(c)
  <2>1. Reads
    BY <1>1, <1>4, <1>8, MovesRead DEF StopLoad, Points, Ends
  <2>. QED BY <1>1, <1>8, <2>1, QuietWrites, ReadOnly DEF StopLoad
<1>9. CASE StopUnlink(c)
  <2>1. Reads
    BY <1>4, <1>9 DEF StopUnlink
  <2>2. WritesNone
    BY <1>2, <1>9 DEF StopUnlink, WritesNone, Files
  <2>. QED BY <1>1, <2>1, <2>2, ReadOnly
<1>10. CASE StopRun(c)
  <2>1. Reads
    BY <1>4, <1>5, <1>10 DEF StopRun
  <2>2. cl[c].dir \in Dirs
    BY <1>1, <1>10, Standing DEF StopRun, Points
  <2>3. WritesNone
    BY <1>1, <1>10, <2>2, ServerWrites, QuietWrites DEF StopRun
  <2>. QED BY <1>1, <2>1, <2>3, ReadOnly
<1>. QED BY <1>6, <1>7, <1>8, <1>9, <1>10 DEF LifecycleStep

LEMMA DestroyStepValid ==
  ASSUME ValidInv, NEW c \in Clients, DestroyStep(c)
  PROVE  ValidInv'
<1>1. Inv' /\ Inv /\ HostTypeOK /\ cl \in [Clients -> Client]
  BY DestroyStepInv DEF ValidInv, Inv, TypeOK
<1>2. disk \in [Dirs -> Files]
  BY <1>1 DEF HostTypeOK
<1>3. SlotDone(c) => Reads
  BY <1>1, MovesRead DEF SlotDone, Points
<1>4. CASE DestroyLoad(c)
  <2>1. cl[c].dir \in Dirs
    BY <1>1, <1>4, Standing DEF DestroyLoad, Points
  <2>2. Reads
    BY <1>1, <1>4, <2>1, ConfigRead, MovesRead DEF DestroyLoad, Ends
  <2>. QED BY <1>1, <1>4, <2>2, QuietWrites, ReadOnly DEF DestroyLoad
<1>5. CASE DropSubscription(c)
  <2>1. Reads
    BY <1>1, <1>5, MovesRead DEF DropSubscription, Points
  <2>2. WritesNone
    BY <1>5 DEF DropSubscription, WritesNone, Quiet, host
  <2>. QED BY <1>1, <2>1, <2>2, ReadOnly
<1>6. CASE DestroyStop(c)
  <2>1. cl[c].dir \in Dirs
    BY <1>1, <1>6, Standing DEF DestroyStop, Points
  <2>2. Reads
    BY <1>1, <1>6, MovesRead DEF DestroyStop, Points
  <2>3. WritesNone
    BY <1>1, <1>6, <2>1, ServerWrites, QuietWrites DEF DestroyStop
  <2>. QED BY <1>1, <2>2, <2>3, ReadOnly
<1>7. CASE SlotLoad(c)
  <2>1. Reads
    BY <1>1, <1>3, <1>7, PeerRead DEF SlotLoad
  <2>. QED BY <1>1, <1>7, <2>1, QuietWrites, ReadOnly DEF SlotLoad
<1>8. CASE SlotDrop(c)
  <2>1. WritesNone
    BY <1>8 DEF SlotDrop, WritesNone, Quiet, host
  <2>. QED BY <1>1, <1>3, <1>8, <2>1, ReadOnly DEF SlotDrop
<1>9. CASE DestroyRemove(c)
  <2>1. Reads
    BY <1>1, <1>9, MovesRead DEF DestroyRemove, Ends
  <2>2. ASSUME NEW f, Removed(cl[c].dir, f), f.cfg \in {disk[cl[c].dir].cfg, None}
        PROVE  WritesNone
    BY <1>2, <2>2 DEF Removed, WritesNone
  <2>3. NoFiles.cfg = None
    BY DEF NoFiles
  <2>4. WritesNone
    BY <1>9, <2>2, <2>3 DEF DestroyRemove
  <2>. QED BY <1>1, <2>1, <2>4, ReadOnly
<1>. QED BY <1>4, <1>5, <1>6, <1>7, <1>8, <1>9 DEF DestroyStep

\* The save that ends a command keeps every config valid when its own is.
LEMMA FinalSaveValid ==
  ASSUME ValidInv, Inv', NEW c \in Clients, NEW cfg, ValidConfig(cfg),
         Save(c, cfg, Return(c, "ok"))
  PROVE  ValidInv'
<1>1. Reads
  BY MovesRead DEF Save, ValidInv, Ends
<1>2. disk' = [disk EXCEPT ![cl[c].dir].cfg = cfg] \/ Quiet
  BY DEF Save
<1>. QED BY <1>1, <1>2, SaveValid

LEMMA PromoteStepValid ==
  ASSUME ValidInv, NEW c \in Clients, PromoteStep(c)
  PROVE  ValidInv'
<1>1. Inv' /\ Inv /\ HostTypeOK /\ cl \in [Clients -> Client]
  BY PromoteStepInv DEF ValidInv, Inv, TypeOK
<1>2. disk \in [Dirs -> Files]
  BY <1>1 DEF HostTypeOK
<1>3. CASE PromoteLoad(c)
  <2>1. cl[c].dir \in Dirs
    BY <1>1, <1>3, Standing DEF PromoteLoad, Points
  <2>2. Reads
    BY <1>1, <1>3, <2>1, ConfigRead, MovesRead DEF PromoteLoad, Ends
  <2>. QED BY <1>1, <1>3, <2>2, QuietWrites, ReadOnly DEF PromoteLoad
<1>4. CASE PromoteRun(c)
  <2>1. Reads
    BY <1>1, <1>4, MovesRead DEF PromoteRun, Points, Ends
  <2>2. WritesNone
    BY <1>2, <1>4 DEF PromoteRun, WritesNone, Files, Quiet, host
  <2>. QED BY <1>1, <2>1, <2>2, ReadOnly
<1>5. CASE PromoteWait(c)
  <2>1. Reads
    BY <1>1, <1>5, MovesRead DEF PromoteWait, Points, Ends
  <2>. QED BY <1>1, <1>5, <2>1, QuietWrites, ReadOnly DEF PromoteWait
<1>6. CASE PromoteSave(c)
  <2> DEFINE cfg == [cl[c].cfg EXCEPT !.role = "primary", !.physical = None]
  <2>1. cl[c].cfg \in Sandbox
    BY <1>1, <1>6, Standing DEF PromoteSave, Points, Knows, Client
  <2>2. ValidConfig(cfg)
    BY <2>1 DEF ValidConfig, Sandbox
  <2>3. Save(c, cfg, Return(c, "ok"))
    BY <1>6 DEF PromoteSave
  <2> HIDE DEF cfg
  <2>. QED BY <1>1, <2>2, <2>3, FinalSaveValid
<1>. QED BY <1>3, <1>4, <1>5, <1>6 DEF PromoteStep

LEMMA LogicalStepValid ==
  ASSUME ValidInv, NEW c \in Clients, LogicalStep(c)
  PROVE  ValidInv'
<1>1. Inv' /\ Inv /\ HostTypeOK /\ cl \in [Clients -> Client]
  BY LogicalStepInv DEF ValidInv, Inv, TypeOK
<1>2. CASE PublishLoad(c)
  <2>1. cl[c].dir \in Dirs
    BY <1>1, <1>2, Standing DEF PublishLoad, Points
  <2>2. Reads
    BY <1>1, <1>2, <2>1, ConfigRead, MovesRead DEF PublishLoad, Ends
  <2>. QED BY <1>1, <1>2, <2>2, QuietWrites, ReadOnly DEF PublishLoad
<1>3. CASE AlterSystem(c)
  <2>1. Reads
    BY <1>1, <1>3, MovesRead DEF AlterSystem, Points, Ends
  <2>2. WritesNone
    BY <1>3 DEF AlterSystem, WritesNone, Quiet, host
  <2>. QED BY <1>1, <2>1, <2>2, ReadOnly
<1>8. CASE ShowWalLevel(c)
  <2>1. Reads
    BY <1>1, <1>8, MovesRead DEF ShowWalLevel, Points, Ends
  <2>. QED BY <1>1, <1>8, <2>1, QuietWrites, ReadOnly DEF ShowWalLevel
<1>4. CASE CreatePublication(c)
  <2>1. Reads
    BY <1>1, <1>4, MovesRead DEF CreatePublication, Ends
  <2>2. WritesNone
    BY <1>4 DEF CreatePublication, WritesNone, Quiet, host
  <2>. QED BY <1>1, <2>1, <2>2, ReadOnly
<1>5. CASE SubscribeLoad(c)
  <2>1. cl[c].dir \in Dirs
    BY <1>1, <1>5, Standing DEF SubscribeLoad, Points
  <2>2. Reads
    BY <1>1, <1>5, <2>1, ConfigAndPeerRead, MovesRead DEF SubscribeLoad, Ends
  <2>. QED BY <1>1, <1>5, <2>2, QuietWrites, ReadOnly DEF SubscribeLoad
<1>6. CASE CreateSubscription(c)
  <2>1. Reads
    BY <1>1, <1>6, MovesRead DEF CreateSubscription, Points, Ends
  <2>2. WritesNone
    BY <1>6 DEF CreateSubscription, WritesNone, Quiet, host
  <2>. QED BY <1>1, <2>1, <2>2, ReadOnly
<1>7. CASE SubscribeSave(c)
  <2> DEFINE cfg == [cl[c].cfg EXCEPT !.role = "subscriber",
                       !.logical = [src |-> cl[c].src, sub |-> cl[c].name]]
  <2>1. /\ cl[c].cfg \in Sandbox
        /\ cl[c].src \in Dirs /\ cl[c].name \in Names
    BY <1>1, <1>7, Standing DEF SubscribeSave, Points, OnTrack, Knows, Client
  <2>2. [src |-> cl[c].src, sub |-> cl[c].name] # None
    <3>1. [src |-> cl[c].src, sub |-> cl[c].name] \in Logical
      BY <2>1 DEF Logical
    <3>. QED BY <3>1, SentinelAssumption
  <2>3. ValidConfig(cfg)
    BY <2>1, <2>2 DEF ValidConfig, Sandbox
  <2>4. Save(c, cfg, Return(c, "ok"))
    BY <1>7 DEF SubscribeSave
  <2> HIDE DEF cfg
  <2>. QED BY <1>1, <2>3, <2>4, FinalSaveValid
<1>. QED BY <1>2, <1>3, <1>8, <1>4, <1>5, <1>6, <1>7 DEF LogicalStep

LEMMA SetStepValid ==
  ASSUME ValidInv, NEW c \in Clients, SetStep(c)
  PROVE  ValidInv'
<1>1. Inv' /\ Inv /\ HostTypeOK /\ cl \in [Clients -> Client]
  BY SetLoadInv, SetSaveInv DEF SetStep, ValidInv, Inv, TypeOK
<1>2. CASE SetLoad(c)
  <2>1. cl[c].dir \in Dirs
    BY <1>1, <1>2, Standing DEF SetLoad, Points
  <2>2. Reads
    BY <1>1, <1>2, <2>1, ConfigRead, MovesRead DEF SetLoad, Ends
  <2>. QED BY <1>1, <1>2, <2>2, QuietWrites, ReadOnly DEF SetLoad
<1>3. CASE SetSave(c)
  <2> DEFINE cfg == [cl[c].cfg EXCEPT !.port = cl[c].port]
  <2>1. cl[c].cfg \in Sandbox /\ cl[c].cfg # None
    BY <1>1, <1>3, Standing DEF SetSave, Points, Knows, Client
  <2>2. ValidConfig(cfg)
    BY <2>1 DEF ValidInv, RememberedConfigIsValid, ValidConfig, Sandbox
  <2>3. Save(c, cfg, Return(c, "ok"))
    BY <1>3 DEF SetSave
  <2> HIDE DEF cfg
  <2>. QED BY <1>1, <2>2, <2>3, FinalSaveValid
<1>. QED BY <1>2, <1>3 DEF SetStep

LEMMA EnvironmentValid ==
  ASSUME ValidInv, Environment
  PROVE  ValidInv'
<1>1. Inv' /\ Inv /\ HostTypeOK /\ disk \in [Dirs -> Files]
  BY EnvironmentInv DEF ValidInv, Inv, TypeOK, HostTypeOK
<1>2. CASE Reboot
  <2>1. Reads
    BY <1>2 DEF Reboot, Reads, Idle
  <2>2. WritesNone
    BY <1>1, <1>2 DEF Reboot, WritesNone, Files
  <2>. QED BY <1>1, <2>1, <2>2, ReadOnly
<1>3. CASE ~Reboot
  <2>1. Reads
    BY <1>3 DEF Environment, Machine, Reads
  <2>2. ASSUME NEW d \in Dirs, FinishPromotion(d) PROVE WritesNone
    BY <1>1, <2>2 DEF FinishPromotion, WritesNone, Files
  <2>3. ASSUME NEW d \in Dirs, KillServer(d) PROVE WritesNone
    BY <1>1, <2>3, ServerWrites DEF KillServer
  <2>4. ASSUME NEW d \in Dirs, ReusePid(d) PROVE WritesNone
    BY <1>1, <2>4 DEF ReusePid, WritesNone, Files
  <2>5. ASSUME NEW d \in Dirs, LocklessExit(d) PROVE WritesNone
    BY <1>1, <2>5, ServerWrites DEF LocklessExit
  <2>6. ASSUME NEW p \in Ports, StrayExit(p) PROVE WritesNone
    BY <2>6 DEF StrayExit, WritesNone
  <2>. QED BY <1>1, <1>3, <2>1, <2>2, <2>3, <2>4, <2>5, <2>6, ReadOnly DEF Environment, Machine
<1>. QED BY <1>2, <1>3

LEMMA StepValid == ValidInv /\ [Next]_vars => ValidInv'
<1> SUFFICES ASSUME ValidInv, [Next]_vars PROVE ValidInv'
  OBVIOUS
<1>1. Inv' /\ Inv
  BY StepInv DEF ValidInv
<1>2. CASE UNCHANGED vars
  BY <1>1, <1>2, ReadOnly DEF vars, Reads, WritesNone
<1>3. ASSUME NEW c \in Clients, BeginCall(c) PROVE ValidInv'
  <2>1. Quiet /\ Reads
    <3>1. ASSUME NEW op, NEW point, NEW d, NEW src, NEW name, NEW port,
                 Begin(c, op, point, d, src, name, port)
          PROVE  Quiet /\ Reads
      BY <1>1, <3>1 DEF Begin, Reads, Inv, TypeOK
    <3>. QED BY <1>3, <3>1 DEF BeginCall, BeginDeploy, BeginLifecycle, BeginDestroy,
              BeginPromote, BeginPublish, BeginSubscribe, BeginSet
  <2>. QED BY <1>1, <2>1, QuietWrites, ReadOnly
<1>4. ASSUME NEW c \in Clients, KillClient(c) PROVE ValidInv'
  BY <1>1, <1>4, MovesRead, QuietWrites, ReadOnly DEF KillClient, Ends
<1>5. ASSUME NEW c \in Clients, ClientStep(c) PROVE ValidInv'
  BY <1>5, DeployStepValid, LifecycleStepValid, DestroyStepValid, PromoteStepValid,
     LogicalStepValid, SetStepValid DEF ClientStep
<1>. QED BY <1>2, <1>3, <1>4, <1>5, EnvironmentValid DEF Next

LEMMA InitValid == Init => ValidInv
<1> SUFFICES ASSUME Init PROVE ValidInv
  OBVIOUS
<1>1. RecordedConfigIsValid
  BY DEF Init, HostInit, NoFiles, RecordedConfigIsValid
<1>2. RememberedConfigIsValid
  BY DEF Init, Idle, RememberedConfigIsValid
<1>. QED BY <1>1, <1>2, InitInv DEF ValidInv

\* Whatever commands run together and whatever fails, every pg_sandbox.json on
\* disk passes the role checks of config.Validate: promote and subscribe set the
\* role and its block in one write, and no stale write can pair a role with the
\* other command's block (promote.go, subscribe.go, load_save.go).
THEOREM ConfigsStayValid == Spec => []RecordedConfigIsValid
<1>1. ValidInv => RecordedConfigIsValid
  BY DEF ValidInv
<1>. QED BY <1>1, InitValid, StepValid, PTL DEF Spec


-----------------------------------------------------------------------------
\* Deploys that race into one directory, for any number of them

\* A deploy past initdb or pg_basebackup, on its way to a server and a config.
Launching(c) == cl[c].op \in DeployOps /\ cl[c].at \in {"launch", "save"}

\* Such a deploy has its data directory.  With it a second deploy of the same
\* directory is refused by initdb or pg_basebackup: this is what makes
\* OneDeployerPerDirectory inductive.
LaunchedIsBuilt ==
  \A c \in Clients : Launching(c) => disk[cl[c].dir].data # "absent"

DeployInv == Inv /\ LaunchedIsBuilt /\ OneDeployerPerDirectory

-----------------------------------------------------------------------------
\* Steps that let nobody in

\* No data directory goes away.
DataRemains == \A d \in Dirs : disk[d].data # "absent" => disk'[d].data # "absent"

\* No invocation but those launching already is launching afterwards.
NoEntry ==
  \A b \in Clients : Launching(b)' => Launching(b) /\ cl'[b].dir = cl[b].dir

LEMMA NobodyLaunches == ASSUME DeployInv, Inv', DataRemains, NoEntry PROVE DeployInv'
<1>1. \A b \in Clients : Launching(b) => cl[b].dir \in Dirs
  BY DEF DeployInv, Inv, CallsWellFormed, Launching, InFlight, Ends
<1>2. LaunchedIsBuilt'
  BY <1>1 DEF DeployInv, LaunchedIsBuilt, DataRemains, NoEntry
<1>3. OneDeployerPerDirectory'
  BY DEF DeployInv, OneDeployerPerDirectory, NoEntry, Launching
<1>. QED BY <1>2, <1>3 DEF DeployInv

LEMMA QuietRemains == ASSUME Quiet PROVE DataRemains
BY DEF Quiet, host, DataRemains

LEMMA SameDiskRemains == ASSUME UNCHANGED disk PROVE DataRemains
BY DEF DataRemains

LEMMA ServerRemains ==
  ASSUME HostTypeOK, NEW d \in Dirs, NEW p, ServerUp(d, p) \/ ServerDown(d, p)
  PROVE  DataRemains
<1>1. disk \in [Dirs -> Files]
  BY DEF HostTypeOK
<1>2. CASE ServerUp(d, p)
  <2>1. \A e \in Dirs : disk'[e].data = disk[e].data
    BY <1>1, <1>2 DEF ServerUp, Files
  <2>. QED BY <2>1 DEF DataRemains
<1>3. CASE ServerDown(d, p)
  <2>1. \A e \in Dirs : disk'[e].data \in {disk[e].data, Settled(disk[e].data)}
    BY <1>1, <1>3 DEF ServerDown, Files
  <2>. QED BY <2>1 DEF DataRemains, Settled
<1>. QED BY <1>2, <1>3

\* Only the files of d change, and its data directory is not removed.
LEMMA OneRemains ==
  ASSUME HostTypeOK, NEW d \in Dirs, NEW f, disk' = [disk EXCEPT ![d] = f],
         disk[d].data # "absent" => f.data # "absent"
  PROVE  DataRemains
BY DEF DataRemains, HostTypeOK

LEMMA SaveRemains ==
  ASSUME HostTypeOK, NEW c \in Clients, NEW cfg,
         \/ disk' = [disk EXCEPT ![cl[c].dir].cfg = cfg]
         \/ Quiet
  PROVE  DataRemains
BY DEF Quiet, host, DataRemains, HostTypeOK, Files

\* The invocation that moves goes to a point that is not a launch.
LEMMA AwayNoEntry ==
  ASSUME cl \in [Clients -> Client], NEW c \in Clients, NEW k,
         k.at \notin {"launch", "save"}, cl' = [cl EXCEPT ![c] = k]
  PROVE  NoEntry
BY DEF NoEntry, Launching

LEMMA ReturnNoEntry ==
  ASSUME cl \in [Clients -> Client], NEW c \in Clients, NEW outcome \in Ends,
         Return(c, outcome)
  PROVE  NoEntry
BY AwayNoEntry DEF Return, Idle, Ends

LEMMA GoNoEntry ==
  ASSUME cl \in [Clients -> Client], NEW c \in Clients, NEW point,
         point \notin {"launch", "save"}, Go(c, point)
  PROVE  NoEntry
<1> DEFINE k == [cl[c] EXCEPT !.at = point]
<1>1. cl[c] \in Client
  OBVIOUS
<1>2. k.at = point
  BY <1>1 DEF Client
<1>3. cl' = [cl EXCEPT ![c] = k]
  BY DEF Go
<1> HIDE DEF k
<1>. QED BY <1>2, <1>3, AwayNoEntry

LEMMA PortNoEntry ==
  ASSUME cl \in [Clients -> Client], NEW c \in Clients, NEW point, NEW p,
         point \notin {"launch", "save"},
         cl' = [cl EXCEPT ![c].port = p, ![c].at = point]
  PROVE  NoEntry
<1> DEFINE k == [cl[c] EXCEPT !.port = p, !.at = point]
<1>1. cl[c] \in Client
  OBVIOUS
<1>2. k.at = point
  BY <1>1 DEF Client
<1>3. cl' = [cl EXCEPT ![c] = k]
  OBVIOUS
<1> HIDE DEF k
<1>. QED BY <1>2, <1>3, AwayNoEntry

LEMMA PeerNoEntry ==
  ASSUME cl \in [Clients -> Client], NEW c \in Clients, NEW point, NEW p,
         point \notin {"launch", "save"},
         cl' = [cl EXCEPT ![c].peer = p, ![c].at = point]
  PROVE  NoEntry
<1> DEFINE k == [cl[c] EXCEPT !.peer = p, !.at = point]
<1>1. cl[c] \in Client
  OBVIOUS
<1>2. k.at = point
  BY <1>1 DEF Client
<1>3. cl' = [cl EXCEPT ![c] = k]
  OBVIOUS
<1> HIDE DEF k
<1>. QED BY <1>2, <1>3, AwayNoEntry

LEMMA CfgNoEntry ==
  ASSUME cl \in [Clients -> Client], NEW c \in Clients, NEW point, NEW cfg,
         point \notin {"launch", "save"},
         cl' = [cl EXCEPT ![c].cfg = cfg, ![c].at = point]
  PROVE  NoEntry
<1> DEFINE k == [cl[c] EXCEPT !.cfg = cfg, !.at = point]
<1>1. cl[c] \in Client
  OBVIOUS
<1>2. k.at = point
  BY <1>1 DEF Client
<1>3. cl' = [cl EXCEPT ![c] = k]
  OBVIOUS
<1> HIDE DEF k
<1>. QED BY <1>2, <1>3, AwayNoEntry

\* A launching deploy that goes on launching.
LEMMA OnwardNoEntry ==
  ASSUME cl \in [Clients -> Client], NEW c \in Clients, Launching(c), NEW point,
         Go(c, point)
  PROVE  NoEntry
BY DEF NoEntry, Launching, Go, Client

-----------------------------------------------------------------------------
\* The two steps that let a deploy in

LEMMA BuildEnters ==
  ASSUME DeployInv, Inv', NEW c \in Clients, cl[c].op \in DeployOps,
         cl[c].dir \in Dirs, Go(c, "launch"), disk[cl[c].dir].data = "absent",
         disk'[cl[c].dir].data # "absent", DataRemains
  PROVE  DeployInv'
<1>1. cl \in [Clients -> Client]
  BY DEF DeployInv, Inv, TypeOK
<1>2. /\ \A b \in Clients \ {c} : cl'[b] = cl[b]
      /\ cl'[c].dir = cl[c].dir
  BY <1>1 DEF Go, Client
<1>3. \A b \in Clients : Launching(b) => cl[b].dir \in Dirs /\ cl[b].dir # cl[c].dir
  BY DEF DeployInv, LaunchedIsBuilt, Inv, CallsWellFormed, Launching, InFlight, Ends
<1>4. LaunchedIsBuilt'
  <2>1. ASSUME NEW b \in Clients, Launching(b)' PROVE disk'[cl'[b].dir].data # "absent"
    <3>1. CASE b = c
      BY <1>2, <3>1
    <3>2. CASE b # c
      <4>1. Launching(b) /\ cl'[b].dir = cl[b].dir
        BY <1>2, <2>1, <3>2 DEF Launching
      <4>. QED BY <1>3, <4>1 DEF DataRemains, DeployInv, LaunchedIsBuilt
    <3>. QED BY <3>1, <3>2
  <2>. QED BY <2>1 DEF LaunchedIsBuilt
<1>5. OneDeployerPerDirectory'
  <2>1. ASSUME NEW a \in Clients, NEW b \in Clients, Launching(a)', Launching(b)',
               cl'[a].dir = cl'[b].dir, a # b
        PROVE  FALSE
    <3>1. CASE a # c /\ b # c
      BY <1>2, <2>1, <3>1 DEF DeployInv, OneDeployerPerDirectory, Launching
    <3>2. CASE a = c
      BY <1>2, <1>3, <2>1, <3>2 DEF Launching
    <3>3. CASE b = c
      BY <1>2, <1>3, <2>1, <3>3 DEF Launching
    <3>. QED BY <3>1, <3>2, <3>3
  <2>. QED BY <2>1 DEF OneDeployerPerDirectory, Launching
<1>. QED BY <1>4, <1>5 DEF DeployInv

-----------------------------------------------------------------------------
\* The steps of each command

LEMMA ResolvePortNoEntry ==
  ASSUME cl \in [Clients -> Client], NEW c \in Clients, NEW next,
         next \notin {"launch", "save"}, ResolvePort(c, next)
  PROVE  NoEntry
BY PortNoEntry, ReturnNoEntry DEF ResolvePort, Ends

LEMMA DeployStepEnters ==
  ASSUME DeployInv, NEW c \in Clients, DeployStep(c)
  PROVE  DeployInv'
<1>1. Inv' /\ Inv /\ HostTypeOK /\ cl \in [Clients -> Client]
  BY DeployStepInv DEF DeployInv, Inv, TypeOK
<1>2. disk \in [Dirs -> Files]
  BY <1>1 DEF HostTypeOK
<1> DEFINE d == cl[c].dir
<1>3. ASSUME NEW point \in Points, At(c, point)
      PROVE  d \in Dirs /\ OnTrack(cl[c].op, point)
  BY <1>1, <1>3 DEF At, Inv, CallsWellFormed, InFlight, Points, Ends
<1>4. CASE ChoosePort(c)
  <2>1. DataRemains
    BY <1>4, QuietRemains DEF ChoosePort
  <2>2. NoEntry
    BY <1>1, <1>4, ResolvePortNoEntry DEF ChoosePort
  <2>. QED BY <1>1, <2>1, <2>2, NobodyLaunches
<1>5. CASE MakeDirChoosePort(c)
  <2>1. DataRemains
    BY <1>2, <1>5 DEF MakeDirChoosePort, DataRemains, Files
  <2>2. NoEntry
    BY <1>1, <1>5, ResolvePortNoEntry DEF MakeDirChoosePort
  <2>. QED BY <1>1, <2>1, <2>2, NobodyLaunches
<1>6. CASE InitDb(c)
  <2> DEFINE Becomes(data) == disk' = [disk EXCEPT ![d].made = TRUE, ![d].data = data]
  <2>1. d \in Dirs /\ cl[c].op \in DeployOps
    BY <1>3, <1>6 DEF InitDb, Points, OnTrack, DeployOps
  <2>2. ASSUME NEW data, Becomes(data), data # "absent" \/ data = disk[d].data
        PROVE  DataRemains /\ disk'[d].data = data
    BY <1>2, <2>1, <2>2 DEF DataRemains, Files
  <2> HIDE DEF Becomes
  <2>3. CASE disk[d].data = "absent" /\ Becomes("primary") /\ Go(c, "launch")
    <3>1. DataRemains /\ disk'[d].data = "primary"
      BY <2>2, <2>3
    <3>2. disk'[d].data # "absent" /\ disk[d].data = "absent" /\ Go(c, "launch")
      BY <2>3, <3>1
    <3>. QED BY <1>1, <2>1, <3>1, <3>2, BuildEnters
  <2>4. CASE (Becomes("partial") \/ Becomes(disk[d].data)) /\ Return(c, "fail")
    <3>1. DataRemains
      <4>1. Becomes("partial") => DataRemains
        BY <2>2
      <4>2. Becomes(disk[d].data) => DataRemains
        BY <2>2
      <4>. QED BY <2>4, <4>1, <4>2
    <3>2. NoEntry
      BY <1>1, <2>4, ReturnNoEntry DEF Ends
    <3>. QED BY <1>1, <3>1, <3>2, NobodyLaunches
  <2>. QED BY <1>6, <2>3, <2>4 DEF InitDb, Becomes
<1>7. CASE LaunchDeployed(c)
  <2>1. Launching(c) /\ d \in Dirs
    BY <1>3, <1>7 DEF LaunchDeployed, At, Points, OnTrack, Launching, DeployOps
  <2>2. DataRemains
    BY <1>1, <1>7, <2>1, ServerRemains, QuietRemains DEF LaunchDeployed, PgCtlStart
  <2>3. NoEntry
    BY <1>1, <1>7, <2>1, OnwardNoEntry, ReturnNoEntry DEF LaunchDeployed, PgCtlStart, Ends
  <2>. QED BY <1>1, <2>2, <2>3, NobodyLaunches
<1>8. CASE SaveDeployed(c)
  <2>1. PICK cfg : Save(c, cfg, \/ cl[c].op # "subscriber" /\ Return(c, "ok")
                                \/ cl[c].op = "subscriber" /\ Go(c, "sub.load")
                                \/ MayFail("child") /\ Return(c, "fail"))
    BY <1>8 DEF SaveDeployed
  <2>2. DataRemains
    BY <1>1, <2>1, SaveRemains DEF Save
  <2>3. NoEntry
    BY <1>1, <2>1, GoNoEntry, ReturnNoEntry DEF Save, Ends
  <2>. QED BY <1>1, <2>2, <2>3, NobodyLaunches
<1>9. CASE ProbeSource(c) \/ ProbeRole(c)
  <2>1. DataRemains
    BY <1>9, QuietRemains DEF ProbeSource, ProbeRole
  <2>2. CASE ProbeSource(c)
    BY <1>1, <2>1, <2>2, PeerNoEntry, ReturnNoEntry, NobodyLaunches DEF ProbeSource, Ends
  <2>3. CASE ProbeRole(c)
    BY <1>1, <2>1, <2>3, GoNoEntry, ReturnNoEntry, NobodyLaunches DEF ProbeRole, Ends
  <2>. QED BY <1>9, <2>2, <2>3
<1>10. CASE CreateRole(c) \/ EnsureHba(c)
  <2>1. DataRemains
    BY <1>10, QuietRemains, SameDiskRemains DEF CreateRole, EnsureHba
  <2>2. NoEntry
    BY <1>1, <1>10, GoNoEntry, ReturnNoEntry DEF CreateRole, EnsureHba, Ends
  <2>. QED BY <1>1, <2>1, <2>2, NobodyLaunches
<1>11. CASE BaseBackup(c)
  <2>1. d \in Dirs /\ cl[c].op \in DeployOps
    BY <1>3, <1>11 DEF BaseBackup, Points, OnTrack, DeployOps
  <2>2. CASE Quiet /\ Return(c, "fail")
    BY <1>1, <2>2, QuietRemains, ReturnNoEntry, NobodyLaunches DEF Ends
  <2>3. ASSUME NEW data, disk' = [disk EXCEPT ![d].data = data], disk[d].data = "absent"
        PROVE  DataRemains /\ disk'[d].data = data
    BY <1>2, <2>1, <2>3 DEF DataRemains, Files
  <2>4. ASSUME NEW r \in Upstream(c) PROVE disk[d].data = "absent"
    BY DEF Upstream
  <2>5. CASE /\ disk' = [disk EXCEPT ![d].data = "standby"]
             /\ disk[d].data = "absent" /\ Go(c, "launch")
    <3>1. DataRemains /\ disk'[d].data = "standby"
      BY <2>3, <2>5
    <3>2. disk'[d].data # "absent" /\ disk[d].data = "absent" /\ Go(c, "launch")
      BY <2>5, <3>1
    <3>. QED BY <1>1, <2>1, <3>1, <3>2, BuildEnters
  <2>6. CASE /\ \/ disk' = [disk EXCEPT ![d].data = "absent"]
                \/ disk' = [disk EXCEPT ![d].data = "partial"]
             /\ disk[d].data = "absent" /\ Return(c, "fail")
    BY <1>1, <2>3, <2>6, ReturnNoEntry, NobodyLaunches DEF Ends
  <2>. QED BY <1>11, <2>2, <2>4, <2>5, <2>6 DEF BaseBackup
<1>. QED BY <1>4, <1>5, <1>6, <1>7, <1>8, <1>9, <1>10, <1>11 DEF DeployStep

LEMMA LifecycleStepEnters ==
  ASSUME DeployInv, NEW c \in Clients, LifecycleStep(c)
  PROVE  DeployInv'
<1>1. Inv' /\ Inv /\ HostTypeOK /\ cl \in [Clients -> Client]
  BY LifecycleStepInv DEF DeployInv, Inv, TypeOK
<1>2. disk \in [Dirs -> Files]
  BY <1>1 DEF HostTypeOK
<1>3. ASSUME NEW point \in Points, At(c, point) PROVE cl[c].dir \in Dirs
  BY <1>1, <1>3 DEF At, Inv, CallsWellFormed, InFlight, Points, Ends
<1>4. (StartDone(c) => NoEntry) /\ (StopDone(c) => NoEntry)
  BY <1>1, GoNoEntry, ReturnNoEntry DEF StartDone, StopDone, Ends
<1>5. NoEntry
  <2>1. CASE StartLoad(c)
    BY <1>1, <1>4, <2>1, PortNoEntry, ReturnNoEntry DEF StartLoad, Ends
  <2>2. CASE StartRun(c)
    BY <1>1, <1>4, <2>2, ReturnNoEntry DEF StartRun, PgCtlStart, Ends
  <2>3. CASE StopLoad(c)
    BY <1>1, <1>4, <2>3, GoNoEntry, ReturnNoEntry DEF StopLoad, Ends
  <2>4. CASE StopUnlink(c) \/ StopRun(c)
    BY <1>1, <1>4, <2>4, ReturnNoEntry DEF StopUnlink, StopRun, Ends
  <2>. QED BY <2>1, <2>2, <2>3, <2>4 DEF LifecycleStep
<1>6. DataRemains
  <2>1. CASE StartLoad(c) \/ StopLoad(c)
    BY <2>1, QuietRemains DEF StartLoad, StopLoad
  <2>2. CASE StartRun(c)
    BY <1>1, <1>3, <2>2, ServerRemains, QuietRemains DEF StartRun, PgCtlStart, Points
  <2>3. CASE StopUnlink(c)
    BY <1>2, <2>3 DEF StopUnlink, DataRemains, Files
  <2>4. CASE StopRun(c)
    BY <1>1, <1>3, <2>4, ServerRemains, QuietRemains DEF StopRun, Points
  <2>. QED BY <2>1, <2>2, <2>3, <2>4 DEF LifecycleStep
<1>. QED BY <1>1, <1>5, <1>6, NobodyLaunches

\* destroy is the one command that takes a data directory away.
LEMMA DestroyStepEnters ==
  ASSUME "destroy" \notin Ops, Offered, DeployInv, NEW c \in Clients,
         DestroyStep(c)
  PROVE  DeployInv'
<1>1. Inv' /\ Inv /\ HostTypeOK /\ cl \in [Clients -> Client]
  BY DestroyStepInv DEF DeployInv, Inv, TypeOK
<1>2. ASSUME NEW point \in {"destroy.load", "destroy.sub", "destroy.stop", "destroy.rm"},
             At(c, point)
      PROVE  FALSE
  <2>1. OnTrack(cl[c].op, point) /\ cl[c].op \in Ops
    BY <1>1, <1>2 DEF At, Inv, CallsWellFormed, Offered, InFlight, Ends
  <2>. QED BY <2>1 DEF OnTrack
<1>3. SlotLoad(c) \/ SlotDrop(c)
  BY <1>2 DEF DestroyStep, DestroyLoad, DropSubscription, DestroyStop, DestroyRemove
<1>4. SlotDone(c) => NoEntry
  BY <1>1, GoNoEntry DEF SlotDone
<1>5. CASE SlotLoad(c)
  <2>1. DataRemains
    BY <1>5, QuietRemains DEF SlotLoad
  <2>2. NoEntry
    BY <1>1, <1>4, <1>5, PeerNoEntry DEF SlotLoad
  <2>. QED BY <1>1, <2>1, <2>2, NobodyLaunches
<1>6. CASE SlotDrop(c)
  <2>1. DataRemains
    BY <1>6, QuietRemains, SameDiskRemains DEF SlotDrop
  <2>2. NoEntry
    BY <1>4, <1>6 DEF SlotDrop
  <2>. QED BY <1>1, <2>1, <2>2, NobodyLaunches
<1>. QED BY <1>3, <1>5, <1>6

LEMMA PromoteStepEnters ==
  ASSUME DeployInv, NEW c \in Clients, PromoteStep(c)
  PROVE  DeployInv'
<1>1. Inv' /\ Inv /\ HostTypeOK /\ cl \in [Clients -> Client]
  BY PromoteStepInv DEF DeployInv, Inv, TypeOK
<1>2. disk \in [Dirs -> Files]
  BY <1>1 DEF HostTypeOK
<1>3. CASE PromoteLoad(c) \/ PromoteWait(c)
  <2>1. DataRemains
    BY <1>3, QuietRemains DEF PromoteLoad, PromoteWait
  <2>2. NoEntry
    BY <1>1, <1>3, CfgNoEntry, GoNoEntry, ReturnNoEntry
    DEF PromoteLoad, PromoteWait, Ends
  <2>. QED BY <1>1, <2>1, <2>2, NobodyLaunches
<1>4. CASE PromoteRun(c)
  <2>1. disk' = [disk EXCEPT ![cl[c].dir].data = "promoting"] => DataRemains
    BY <1>2 DEF DataRemains, Files
  <2>2. DataRemains
    BY <1>4, <2>1, QuietRemains DEF PromoteRun
  <2>3. NoEntry
    BY <1>1, <1>4, GoNoEntry, ReturnNoEntry DEF PromoteRun, Ends
  <2>. QED BY <1>1, <2>2, <2>3, NobodyLaunches
<1>5. CASE PromoteSave(c)
  <2>1. PICK cfg : Save(c, cfg, Return(c, "ok"))
    BY <1>5 DEF PromoteSave
  <2>2. DataRemains
    BY <1>1, <2>1, SaveRemains DEF Save
  <2>3. NoEntry
    BY <1>1, <2>1, ReturnNoEntry DEF Save, Ends
  <2>. QED BY <1>1, <2>2, <2>3, NobodyLaunches
<1>. QED BY <1>3, <1>4, <1>5 DEF PromoteStep

LEMMA LogicalStepEnters ==
  ASSUME DeployInv, NEW c \in Clients, LogicalStep(c)
  PROVE  DeployInv'
<1>1. Inv' /\ Inv /\ HostTypeOK /\ cl \in [Clients -> Client]
  BY LogicalStepInv DEF DeployInv, Inv, TypeOK
<1>2. CASE PublishLoad(c) \/ ShowWalLevel(c) \/ SubscribeLoad(c)
  <2>1. DataRemains
    BY <1>2, QuietRemains DEF PublishLoad, ShowWalLevel, SubscribeLoad
  <2>2. NoEntry
    <3>1. CASE PublishLoad(c)
      BY <1>1, <3>1, CfgNoEntry, ReturnNoEntry DEF PublishLoad, Ends
    <3>2. CASE ShowWalLevel(c)
      BY <1>1, <3>2, GoNoEntry, ReturnNoEntry DEF ShowWalLevel, Ends
    <3>3. CASE SubscribeLoad(c)
      <4> DEFINE cfg == disk[cl[c].dir].cfg
                 peer == disk[cl[c].src].cfg.port
      <4>1. CASE cl' = [cl EXCEPT ![c].cfg = cfg, ![c].peer = peer,
                                  ![c].at = "sub.create"]
        <5> DEFINE k == [cl[c] EXCEPT !.cfg = cfg, !.peer = peer, !.at = "sub.create"]
        <5>1. cl[c] \in Client
          BY <1>1
        <5>2. k.at = "sub.create"
          BY <5>1 DEF Client
        <5>3. cl' = [cl EXCEPT ![c] = k]
          BY <4>1
        <5> HIDE DEF k
        <5>. QED BY <1>1, <5>2, <5>3, AwayNoEntry
      <4>2. CASE Return(c, "fail")
        BY <1>1, <4>2, ReturnNoEntry DEF Ends
      <4>. QED BY <3>3, <4>1, <4>2 DEF SubscribeLoad
    <3>. QED BY <1>2, <3>1, <3>2, <3>3
  <2>. QED BY <1>1, <2>1, <2>2, NobodyLaunches
<1>3. CASE AlterSystem(c) \/ CreatePublication(c) \/ CreateSubscription(c)
  <2>1. DataRemains
    BY <1>3, QuietRemains, SameDiskRemains
    DEF AlterSystem, CreatePublication, CreateSubscription
  <2>2. NoEntry
    BY <1>1, <1>3, GoNoEntry, ReturnNoEntry
    DEF AlterSystem, CreatePublication, CreateSubscription, Ends
  <2>. QED BY <1>1, <2>1, <2>2, NobodyLaunches
<1>4. CASE SubscribeSave(c)
  <2>1. PICK cfg : Save(c, cfg, Return(c, "ok"))
    BY <1>4 DEF SubscribeSave
  <2>2. DataRemains
    BY <1>1, <2>1, SaveRemains DEF Save
  <2>3. NoEntry
    BY <1>1, <2>1, ReturnNoEntry DEF Save, Ends
  <2>. QED BY <1>1, <2>2, <2>3, NobodyLaunches
<1>. QED BY <1>2, <1>3, <1>4 DEF LogicalStep

LEMMA SetStepEnters ==
  ASSUME DeployInv, NEW c \in Clients, SetStep(c)
  PROVE  DeployInv'
<1>1. Inv' /\ Inv /\ HostTypeOK /\ cl \in [Clients -> Client]
  BY SetLoadInv, SetSaveInv DEF SetStep, DeployInv, Inv, TypeOK
<1>2. CASE SetLoad(c)
  <2>1. DataRemains
    BY <1>2, QuietRemains DEF SetLoad
  <2>2. NoEntry
    BY <1>1, <1>2, CfgNoEntry, ReturnNoEntry DEF SetLoad, Ends
  <2>. QED BY <1>1, <2>1, <2>2, NobodyLaunches
<1>3. CASE SetSave(c)
  <2>1. PICK cfg : Save(c, cfg, Return(c, "ok"))
    BY <1>3 DEF SetSave
  <2>2. DataRemains
    BY <1>1, <2>1, SaveRemains DEF Save
  <2>3. NoEntry
    BY <1>1, <2>1, ReturnNoEntry DEF Save, Ends
  <2>. QED BY <1>1, <2>2, <2>3, NobodyLaunches
<1>. QED BY <1>2, <1>3 DEF SetStep

LEMMA EnvironmentEnters ==
  ASSUME DeployInv, Environment
  PROVE  DeployInv'
<1>1. Inv' /\ Inv /\ HostTypeOK /\ disk \in [Dirs -> Files]
  BY EnvironmentInv DEF DeployInv, Inv, TypeOK, HostTypeOK
<1>2. CASE Reboot
  <2>1. \A b \in Clients : cl'[b] = cl[b] \/ cl'[b].at = "fail"
    BY <1>2 DEF Reboot, Idle
  <2>2. NoEntry
    BY <2>1 DEF NoEntry, Launching
  <2>3. \A d \in Dirs : disk'[d].data = Settled(disk[d].data)
    BY <1>1, <1>2 DEF Reboot, Files
  <2>4. DataRemains
    BY <2>3 DEF DataRemains, Settled
  <2>. QED BY <1>1, <2>2, <2>4, NobodyLaunches
<1>3. CASE ~Reboot
  <2>1. NoEntry
    BY <1>3 DEF Environment, Machine, NoEntry, Launching
  <2>2. ASSUME NEW d \in Dirs, FinishPromotion(d) \/ ReusePid(d) PROVE DataRemains
    BY <1>1, <2>2 DEF FinishPromotion, ReusePid, DataRemains, Files
  <2>3. ASSUME NEW d \in Dirs, KillServer(d) \/ LocklessExit(d) PROVE DataRemains
    BY <1>1, <2>3, ServerRemains DEF KillServer, LocklessExit
  <2>4. ASSUME NEW p \in Ports, StrayExit(p) PROVE DataRemains
    BY <2>4, SameDiskRemains DEF StrayExit
  <2>. QED BY <1>1, <1>3, <2>1, <2>2, <2>3, <2>4, NobodyLaunches DEF Environment, Machine
<1>. QED BY <1>2, <1>3

-----------------------------------------------------------------------------

LEMMA StepEnters ==
  ASSUME "destroy" \notin Ops
  PROVE  Offered /\ DeployInv /\ [Next]_vars => DeployInv'
<1> SUFFICES ASSUME Offered, DeployInv, [Next]_vars PROVE DeployInv'
  OBVIOUS
<1>1. Inv' /\ Inv /\ cl \in [Clients -> Client]
  BY StepInv DEF DeployInv, Inv, TypeOK
<1>2. CASE UNCHANGED vars
  BY <1>1, <1>2, SameDiskRemains, NobodyLaunches DEF vars, NoEntry, Launching
<1>3. ASSUME NEW c \in Clients, BeginCall(c) PROVE DeployInv'
  <2>1. ASSUME NEW op, NEW point, NEW d, NEW src, NEW name, NEW port,
               point \notin {"launch", "save"},
               Begin(c, op, point, d, src, name, port)
        PROVE  Quiet /\ NoEntry
    BY <1>1, <2>1, AwayNoEntry DEF Begin
  <2>2. Quiet /\ NoEntry
    BY <1>3, <2>1 DEF BeginCall, BeginDeploy, BeginLifecycle, BeginDestroy,
          BeginPromote, BeginPublish, BeginSubscribe, BeginSet
  <2>. QED BY <1>1, <2>2, QuietRemains, NobodyLaunches
<1>4. ASSUME NEW c \in Clients, KillClient(c) PROVE DeployInv'
  BY <1>1, <1>4, ReturnNoEntry, QuietRemains, NobodyLaunches DEF KillClient, Ends
<1>5. ASSUME NEW c \in Clients, ClientStep(c) PROVE DeployInv'
  BY <1>5, DeployStepEnters, LifecycleStepEnters, DestroyStepEnters, PromoteStepEnters,
     LogicalStepEnters, SetStepEnters DEF ClientStep
<1>. QED BY <1>2, <1>3, <1>4, <1>5, EnvironmentEnters DEF Next

LEMMA InitEnters == Init => DeployInv
<1> SUFFICES ASSUME Init PROVE DeployInv
  OBVIOUS
<1>1. \A c \in Clients : ~Launching(c)
  BY DEF Init, Idle, Launching
<1>. QED BY <1>1, InitInv
     DEF DeployInv, LaunchedIsBuilt, OneDeployerPerDirectory, Launching

\* However many deploys, of whatever kind, pass checkSandboxDirAvailable
\* (deploy.go) for one directory, and whatever else runs or fails meanwhile, one
\* at most gets to start a server there and to write its config.  A destroy left
\* over from an earlier life of the directory could remove what the first one
\* built and let a second in, so there is none.
THEOREM DeploysExclude ==
  ASSUME "destroy" \notin Ops
  PROVE  Spec => []OneDeployerPerDirectory
<1>1. DeployInv => OneDeployerPerDirectory
  BY DEF DeployInv
<1>. QED BY <1>1, InitEnters, StepEnters, AlwaysOffered, PTL DEF Spec

-----------------------------------------------------------------------------
\* Publishing beside starts, stops and other publishes

\* wal_level=logical is written, and no server runs that started before it was.
WalReady(d) == db[d].walConf /\ (srv[d] # None => db[d].walLive)

\* A pidfile with a PID that is not the server's is left only by a dead server;
\* one that lost its pidfile may still run.
HostWal ==
  \A d \in Dirs :
    /\ db[d].walLive => db[d].walConf
    /\ srv[d] # None => disk[d].data # "absent"
    /\ disk[d].pid \in {"dead", "reused"} => srv[d] = None
    /\ db[d].pub => WalReady(d)

\* What a publish relies on between ALTER SYSTEM and CREATE PUBLICATION.  A server
\* without a pidfile passes for a stopped one; it keeps its old wal_level, but
\* also its data directory, so that nothing can be started until it is gone.
Restarts(c) ==
  LET d == cl[c].dir IN
  cl[c].op = "publish" =>
    /\ cl[c].at \in {"stop.load", "stop.unlink", "stop.run"} => db[d].walConf
    /\ cl[c].at \in {"start.load", "start.run"} =>
         db[d].walConf /\ (disk[d].pid = "none" \/ WalReady(d))
    /\ cl[c].at = "pub.create" => WalReady(d)

WalInv == Inv /\ HostWal /\ \A c \in Clients : Restarts(c)

\* What holds of a sandbox for the sake of a publish goes on to hold.
Steadily ==
  \A d \in Dirs :
    /\ db[d].walConf => db'[d].walConf
    /\ WalReady(d) => WalReady(d)'
    /\ db[d].walConf /\ (disk[d].pid = "none" \/ WalReady(d)) =>
         disk'[d].pid = "none" \/ WalReady(d)'

Settling == Steadily /\ HostWal'

LEMMA QuietSettles == ASSUME HostWal, Quiet PROVE Settling
BY DEF Quiet, host, Settling, Steadily, HostWal, WalReady

LEMMA UpSettles ==
  ASSUME HostTypeOK, HostWal, NEW d \in Dirs, NEW p, CanStart(d, p), ServerUp(d, p)
  PROVE  Settling
<1>1. disk \in [Dirs -> Files] /\ srv \in [Dirs -> Ports \cup {None}]
      /\ db \in [Dirs -> Database]
  BY DEF HostTypeOK
<1>2. /\ disk'[d].pid = "live" /\ disk'[d].data = disk[d].data /\ srv'[d] = p
      /\ db'[d].walLive = db[d].walConf /\ db'[d].walConf = db[d].walConf
      /\ db'[d].pub = db[d].pub
  BY <1>1 DEF ServerUp, Files, Database
<1>3. \A e \in Dirs \ {d} : disk'[e] = disk[e] /\ srv'[e] = srv[e] /\ db'[e] = db[e]
  BY <1>1 DEF ServerUp
<1>4. disk[d].data # "absent"
  BY DEF CanStart, Complete
<1>5. Steadily
  BY <1>2, <1>3 DEF Steadily, WalReady
<1>6. HostWal'
  BY <1>2, <1>3, <1>4 DEF HostWal, WalReady
<1>. QED BY <1>5, <1>6 DEF Settling

LEMMA DownSettles ==
  ASSUME HostTypeOK, HostWal, NEW d \in Dirs, NEW pid, ServerDown(d, pid),
         disk[d].pid = "none" => pid = "none"
  PROVE  Settling /\ srv'[d] = None
<1>1. disk \in [Dirs -> Files] /\ srv \in [Dirs -> Ports \cup {None}]
      /\ db \in [Dirs -> Database]
  BY DEF HostTypeOK
<1>2. /\ disk'[d].pid = pid /\ srv'[d] = None
      /\ ~db'[d].walLive /\ db'[d].walConf = db[d].walConf
      /\ db'[d].pub = db[d].pub
  BY <1>1 DEF ServerDown, Files, Database
<1>3. \A e \in Dirs \ {d} : disk'[e] = disk[e] /\ srv'[e] = srv[e] /\ db'[e] = db[e]
  BY <1>1 DEF ServerDown
<1>5. Steadily
  BY <1>2, <1>3 DEF Steadily, WalReady
<1>6. HostWal'
  BY <1>2, <1>3 DEF HostWal, WalReady
<1>. QED BY <1>2, <1>5, <1>6 DEF Settling

\* Only the files of d change, and neither is its data directory removed nor its
\* pidfile made one of a server.
LEMMA FilesSettle ==
  ASSUME HostTypeOK, HostWal, NEW d \in Dirs, NEW f, UNCHANGED <<srv, db>>,
         disk' = [disk EXCEPT ![d] = f],
         disk[d].data # "absent" => f.data # "absent",
         \/ f.pid \in {"none", disk[d].pid}
         \/ disk[d].pid = "dead" /\ f.pid = "reused"
  PROVE  Settling
<1>1. disk'[d] = f /\ \A e \in Dirs \ {d} : disk'[e] = disk[e]
  BY DEF HostTypeOK
<1>2. Steadily
  BY <1>1 DEF Steadily, WalReady
<1>3. HostWal'
  BY <1>1 DEF HostWal, WalReady
<1>. QED BY <1>2, <1>3 DEF Settling

LEMMA DatabasesSettle ==
  ASSUME HostWal, UNCHANGED <<disk, srv>>,
         \A d \in Dirs : /\ db'[d].walLive = db[d].walLive
                         /\ db[d].walConf => db'[d].walConf
                         /\ db'[d].pub => db[d].pub
  PROVE  Settling
<1>1. Steadily
  BY DEF Steadily, WalReady
<1>2. HostWal'
  BY DEF HostWal, WalReady
<1>. QED BY <1>1, <1>2 DEF Settling

\* One client moves, on a host that goes on as before.
LEMMA SettlesAll ==
  ASSUME WalInv, Inv', Settling, NEW c \in Clients, Restarts(c)',
         \A b \in Clients \ {c} : cl'[b] = cl[b]
  PROVE  WalInv'
<1>1. ASSUME NEW b \in Clients \ {c} PROVE Restarts(b)'
  <2>1. CASE ~InFlight(b)
    BY <2>1 DEF Restarts, InFlight, Ends
  <2>2. CASE InFlight(b)
    <3>1. cl[b].dir \in Dirs
      BY <2>2 DEF WalInv, Inv, CallsWellFormed
    <3>. QED BY <3>1 DEF WalInv, Restarts, Settling, Steadily
  <2>. QED BY <2>1, <2>2
<1>. QED BY <1>1 DEF WalInv, Settling

\* The steps of other commands than publish.
LEMMA OthersSettle ==
  ASSUME WalInv, Inv', Settling, NEW c \in Clients, cl[c].op # "publish",
         ClientStep(c)
  PROVE  WalInv'
<1>1. cl \in [Clients -> Client]
  BY DEF WalInv, Inv, TypeOK
<1>2. /\ \A b \in Clients \ {c} : cl'[b] = cl[b]
      /\ InFlight(c)' => cl'[c].op = cl[c].op
  BY <1>1, OneMoves
<1>3. Restarts(c)'
  BY <1>2 DEF Restarts, InFlight, Ends
<1>. QED BY <1>2, <1>3, SettlesAll

LEMMA ReturnSettles ==
  ASSUME WalInv, Inv', Settling, NEW c \in Clients, NEW outcome \in Ends,
         Return(c, outcome)
  PROVE  WalInv'
<1>1. cl'[c].op = None /\ cl'[c].at = outcome /\ \A b \in Clients \ {c} : cl'[b] = cl[b]
  BY DEF WalInv, Inv, TypeOK, Return, Idle
<1>2. Restarts(c)'
  BY <1>1 DEF Restarts, Ends
<1>. QED BY <1>1, <1>2, SettlesAll

LEMMA GoSettles ==
  ASSUME WalInv, Inv', Settling, NEW c \in Clients, NEW point, Go(c, point),
         NEW d, d = cl[c].dir,
         /\ point \in {"stop.load", "stop.unlink", "stop.run"} => db'[d].walConf
         /\ point \in {"start.load", "start.run"} =>
              db'[d].walConf /\ (disk'[d].pid = "none" \/ WalReady(d)')
         /\ point = "pub.create" => WalReady(d)'
  PROVE  WalInv'
<1>1. cl'[c].dir = cl[c].dir /\ cl'[c].at = point /\ \A b \in Clients \ {c} : cl'[b] = cl[b]
  BY DEF WalInv, Inv, TypeOK, Go, Client
<1>2. Restarts(c)'
  BY <1>1 DEF Restarts, WalReady
<1>. QED BY <1>1, <1>2, SettlesAll

LEMMA SaveSettles ==
  ASSUME HostTypeOK, HostWal, NEW d \in Dirs, NEW cfg,
         Quiet \/ (disk' = [disk EXCEPT ![d].cfg = cfg] /\ UNCHANGED <<srv, db>>)
  PROVE  Settling
<1> DEFINE f == [disk[d] EXCEPT !.cfg = cfg]
<1>1. f.pid = disk[d].pid /\ f.data = disk[d].data
      /\ [disk EXCEPT ![d].cfg = cfg] = [disk EXCEPT ![d] = f]
  BY DEF HostTypeOK, Files
<1> HIDE DEF f
<1>. QED BY <1>1, QuietSettles, FilesSettle

\* What the other commands do to a host.
LEMMA DeployStepSettles ==
  ASSUME "standby" \notin Ops, Offered, WalInv, NEW c \in Clients, DeployStep(c)
  PROVE  Settling
<1>1. /\ Inv /\ HostTypeOK /\ HostWal /\ InFlight(c)
      /\ disk \in [Dirs -> Files] /\ db \in [Dirs -> Database]
  BY StepIsInFlight DEF WalInv, Inv, TypeOK, HostTypeOK, ClientStep
<1> PICK d : d = cl[c].dir
  OBVIOUS
<1>2. d \in Dirs /\ OnTrack(cl[c].op, cl[c].at) /\ Knows(cl[c]) /\ cl[c] \in Client
  BY <1>1 DEF Inv, CallsWellFormed, TypeOK
<1>3. CASE ChoosePort(c) \/ ProbeSource(c) \/ ProbeRole(c)
  BY <1>1, <1>3, QuietSettles DEF ChoosePort, ProbeSource, ProbeRole
<1>4. CASE MakeDirChoosePort(c)
  <2> DEFINE f == [disk[d] EXCEPT !.made = TRUE]
  <2>1. f.pid = disk[d].pid /\ f.data = disk[d].data /\ disk' = [disk EXCEPT ![d] = f]
    BY <1>1, <1>2, <1>4 DEF MakeDirChoosePort, Files
  <2>2. UNCHANGED <<srv, db>>
    BY <1>4 DEF MakeDirChoosePort
  <2> HIDE DEF f
  <2>. QED BY <1>1, <1>2, <2>1, <2>2, FilesSettle
<1>5. CASE InitDb(c)
  <2>1. PICK data : /\ disk' = [disk EXCEPT ![d].made = TRUE, ![d].data = data]
                    /\ data \in {"primary", "partial", disk[d].data}
                    /\ UNCHANGED <<srv, db>>
    BY <1>5 DEF InitDb
  <2> DEFINE f == [disk[d] EXCEPT !.made = TRUE, !.data = data]
  <2>2. f.pid = disk[d].pid /\ f.data = data /\ disk' = [disk EXCEPT ![d] = f]
    BY <1>1, <1>2, <2>1 DEF Files
  <2>3. disk[d].data # "absent" => f.data # "absent"
    BY <2>1, <2>2
  <2> HIDE DEF f
  <2>. QED BY <1>1, <1>2, <2>1, <2>2, <2>3, FilesSettle
<1>6. CASE LaunchDeployed(c)
  BY <1>1, <1>2, <1>6, QuietSettles, UpSettles DEF LaunchDeployed, PgCtlStart
<1>7. CASE SaveDeployed(c)
  <2>1. PICK cfg : Quiet \/ (disk' = [disk EXCEPT ![d].cfg = cfg] /\ UNCHANGED <<srv, db>>)
    BY <1>7 DEF SaveDeployed, Save
  <2>. QED BY <1>1, <1>2, <2>1, SaveSettles
<1>8. CASE CreateRole(c) \/ EnsureHba(c)
  <2>1. ASSUME NEW r \in Dirs, UNCHANGED <<disk, srv>>,
               \/ db' = [db EXCEPT ![r].repl = TRUE]
               \/ db' = [db EXCEPT ![r].hba = TRUE]
        PROVE  Settling
    <3>1. \A e \in Dirs : /\ db'[e].walLive = db[e].walLive
                          /\ db'[e].walConf = db[e].walConf /\ db'[e].pub = db[e].pub
      BY <1>1, <2>1 DEF Database
    <3>. QED BY <1>1, <2>1, <3>1, DatabasesSettle
  <2>2. cl[c].src \in Dirs \/ ~EnsureHba(c)
    BY <1>2 DEF EnsureHba, At, OnTrack, Knows, Client
  <2>. QED BY <1>1, <1>8, <2>1, <2>2, QuietSettles DEF CreateRole, EnsureHba, Serving
<1>9. CASE BaseBackup(c)
  <2>1. cl[c].op = "standby"
    BY <1>2, <1>9 DEF BaseBackup, At, OnTrack
  <2>. QED BY <1>1, <2>1 DEF Offered
<1>. QED BY <1>3, <1>4, <1>5, <1>6, <1>7, <1>8, <1>9 DEF DeployStep

LEMMA LifecycleSettles ==
  ASSUME WalInv, NEW c \in Clients, LifecycleStep(c)
  PROVE  Settling
<1>1. /\ Inv /\ HostTypeOK /\ HostWal /\ InFlight(c)
      /\ disk \in [Dirs -> Files] /\ cl[c] \in Client
  BY StepIsInFlight DEF WalInv, Inv, TypeOK, HostTypeOK, ClientStep
<1> PICK d : d = cl[c].dir
  OBVIOUS
<1>2. d \in Dirs
  BY <1>1 DEF Inv, CallsWellFormed
<1>3. CASE StartLoad(c) \/ StopLoad(c)
  BY <1>1, <1>3, QuietSettles DEF StartLoad, StopLoad
<1>4. CASE StartRun(c)
  BY <1>1, <1>2, <1>4, QuietSettles, UpSettles DEF StartRun, PgCtlStart
<1>5. CASE StopUnlink(c)
  <2> DEFINE f == [disk[d] EXCEPT !.pid = "none"]
  <2>1. f.pid = "none" /\ f.data = disk[d].data /\ disk' = [disk EXCEPT ![d] = f]
    BY <1>1, <1>2, <1>5 DEF StopUnlink, Files
  <2>2. UNCHANGED <<srv, db>>
    BY <1>5 DEF StopUnlink
  <2> HIDE DEF f
  <2>. QED BY <1>1, <1>2, <2>1, <2>2, FilesSettle
<1>6. CASE StopRun(c)
  BY <1>1, <1>2, <1>6, QuietSettles, DownSettles DEF StopRun
<1>. QED BY <1>3, <1>4, <1>5, <1>6 DEF LifecycleStep

LEMMA PromoteSettles ==
  ASSUME WalInv, NEW c \in Clients, PromoteStep(c)
  PROVE  Settling
<1>1. /\ Inv /\ HostTypeOK /\ HostWal /\ InFlight(c)
      /\ disk \in [Dirs -> Files] /\ cl[c] \in Client
  BY StepIsInFlight DEF WalInv, Inv, TypeOK, HostTypeOK, ClientStep
<1> PICK d : d = cl[c].dir
  OBVIOUS
<1>2. d \in Dirs
  BY <1>1 DEF Inv, CallsWellFormed
<1>3. CASE PromoteLoad(c) \/ PromoteWait(c)
  BY <1>1, <1>3, QuietSettles DEF PromoteLoad, PromoteWait
<1>4. CASE PromoteRun(c)
  <2> DEFINE f == [disk[d] EXCEPT !.data = "promoting"]
  <2>1. /\ f.pid = disk[d].pid /\ f.data = "promoting"
        /\ [disk EXCEPT ![d].data = "promoting"] = [disk EXCEPT ![d] = f]
    BY <1>1, <1>2 DEF Files
  <2>2. Quiet \/ (disk' = [disk EXCEPT ![d] = f] /\ UNCHANGED <<srv, db>>)
    BY <1>4, <2>1 DEF PromoteRun
  <2> HIDE DEF f
  <2>. QED BY <1>1, <1>2, <2>1, <2>2, QuietSettles, FilesSettle
<1>5. CASE PromoteSave(c)
  <2>1. PICK cfg : Quiet \/ (disk' = [disk EXCEPT ![d].cfg = cfg] /\ UNCHANGED <<srv, db>>)
    BY <1>5 DEF PromoteSave, Save
  <2>. QED BY <1>1, <1>2, <2>1, SaveSettles
<1>. QED BY <1>3, <1>4, <1>5 DEF PromoteStep

\* Of destroy, only the two steps it shares with promote are left.
LEMMA SlotSettles ==
  ASSUME "destroy" \notin Ops, Offered, WalInv, NEW c \in Clients, DestroyStep(c)
  PROVE  Settling
<1>1. /\ Inv /\ HostTypeOK /\ HostWal /\ db \in [Dirs -> Database]
  BY DEF WalInv, Inv, TypeOK, HostTypeOK
<1>2. ASSUME NEW point \in {"destroy.load", "destroy.sub", "destroy.stop", "destroy.rm"},
             At(c, point)
      PROVE  FALSE
  <2>1. OnTrack(cl[c].op, point) /\ cl[c].op \in Ops
    BY <1>1, <1>2 DEF At, Inv, CallsWellFormed, Offered, InFlight, Ends
  <2>. QED BY <2>1 DEF OnTrack
<1>3. SlotLoad(c) \/ SlotDrop(c)
  BY <1>2 DEF DestroyStep, DestroyLoad, DropSubscription, DestroyStop, DestroyRemove
<1>4. CASE SlotLoad(c)
  BY <1>1, <1>4, QuietSettles DEF SlotLoad
<1>5. CASE SlotDrop(c)
  <2>1. ASSUME NEW r \in Dirs, NEW slots, UNCHANGED <<disk, srv>>,
               db' = [db EXCEPT ![r].slots = slots]
        PROVE  Settling
    <3>1. \A e \in Dirs : /\ db'[e].walLive = db[e].walLive
                          /\ db'[e].walConf = db[e].walConf /\ db'[e].pub = db[e].pub
      BY <1>1, <2>1 DEF Database
    <3>. QED BY <1>1, <2>1, <3>1, DatabasesSettle
  <2>. QED BY <1>1, <1>5, <2>1, QuietSettles DEF SlotDrop, Serving
<1>. QED BY <1>3, <1>4, <1>5

\* Stop and start of a publish: what comes up reads the new wal_level.
LEMMA RestartSettles ==
  ASSUME WalInv, Inv', NEW c \in Clients, cl[c].op = "publish", LifecycleStep(c)
  PROVE  WalInv'
<1> PICK d : d = cl[c].dir
  OBVIOUS
<1>1. /\ Inv /\ HostTypeOK /\ HostWal /\ InFlight(c) /\ Restarts(c)
      /\ disk \in [Dirs -> Files] /\ srv \in [Dirs -> Ports \cup {None}]
      /\ db \in [Dirs -> Database] /\ cl \in [Clients -> Client]
  BY StepIsInFlight DEF WalInv, Inv, TypeOK, HostTypeOK, ClientStep
<1>2. d \in Dirs /\ Settling
  BY <1>1, LifecycleSettles DEF Inv, CallsWellFormed
<1>3. Return(c, "fail") => WalInv'
  BY <1>2, ReturnSettles DEF Ends
<1>4. CASE StartLoad(c)
  <2>1. db[d].walConf /\ (disk[d].pid = "none" \/ WalReady(d)) /\ Quiet
    BY <1>1, <1>4 DEF StartLoad, At, Restarts
  <2>2. /\ db'[d].walConf /\ (disk'[d].pid = "none" \/ WalReady(d)')
        /\ WalReady(d) => WalReady(d)'
    BY <1>2, <2>1 DEF Settling, Steadily
  <2>3. CASE IsRunning(d) /\ StartDone(c)
    <3>1. WalReady(d)'
      BY <2>1, <2>2, <2>3 DEF IsRunning
    <3>. QED BY <1>2, <2>3, <3>1, GoSettles DEF StartDone
  <2>4. CASE cl' = [cl EXCEPT ![c].port = disk[d].cfg.port, ![c].at = "start.run"]
    <3> DEFINE p == disk[d].cfg.port
    <3>1. cl' = [cl EXCEPT ![c].port = p, ![c].at = "start.run"]
      BY <2>4
    <3> HIDE DEF p
    <3>2. /\ cl'[c].at = "start.run" /\ cl'[c].dir = d
          /\ \A b \in Clients \ {c} : cl'[b] = cl[b]
      BY <1>1, <3>1 DEF Client
    <3>3. Restarts(c)'
      BY <2>2, <3>2 DEF Restarts, WalReady
    <3>. QED BY <1>2, <3>2, <3>3, SettlesAll
  <2>. QED BY <1>3, <1>4, <2>3, <2>4 DEF StartLoad
<1>5. CASE StartRun(c)
  <2>1. db[d].walConf
    BY <1>1, <1>5 DEF StartRun, At, Restarts
  <2>2. CASE ServerUp(d, cl[c].port) /\ StartDone(c)
    <3>1. WalReady(d)'
      BY <1>1, <1>2, <2>1, <2>2 DEF ServerUp, WalReady, Database
    <3>. QED BY <1>2, <2>2, <3>1, GoSettles DEF StartDone
  <2>. QED BY <1>3, <1>5, <2>2 DEF StartRun, PgCtlStart
<1>6. CASE StopLoad(c)
  <2>1. db[d].walConf /\ Quiet
    BY <1>1, <1>6 DEF StopLoad, At, Restarts
  <2>2. db'[d].walConf /\ disk' = disk
    BY <2>1 DEF Quiet, host
  <2>3. CASE Go(c, "stop.run") \/ Go(c, "stop.unlink")
    BY <1>2, <2>2, <2>3, GoSettles
  <2>4. CASE disk[d].pid = "none" /\ StopDone(c)
    BY <1>2, <2>2, <2>4, GoSettles DEF StopDone
  <2>. QED BY <1>3, <1>6, <2>3, <2>4 DEF StopLoad
<1>7. CASE StopUnlink(c)
  <2>1. db[d].walConf /\ disk'[d].pid = "none" /\ db' = db
    BY <1>1, <1>2, <1>7 DEF StopUnlink, At, Restarts, Files
  <2>. QED BY <1>2, <1>7, <2>1, GoSettles DEF StopUnlink, StopDone
<1>8. CASE StopRun(c)
  <2>1. db[d].walConf
    BY <1>1, <1>8 DEF StopRun, At, Restarts
  <2>2. CASE ServerDown(d, "none") /\ StopDone(c)
    <3>1. disk'[d].pid = "none" /\ db'[d].walConf
      BY <1>1, <1>2, <2>1, <2>2 DEF ServerDown, Files, Database
    <3>. QED BY <1>2, <2>2, <3>1, GoSettles DEF StopDone
  <2>. QED BY <1>3, <1>8, <2>2 DEF StopRun
<1>. QED BY <1>4, <1>5, <1>6, <1>7, <1>8 DEF LifecycleStep

\* With one sandbox, the port of its config leads to its own server if to any.
LEMMA LogicalSettles ==
  ASSUME \A d, e \in Dirs : d = e, WalInv, NEW c \in Clients, LogicalStep(c)
  PROVE  WalInv'
<1> PICK d : d = cl[c].dir
  OBVIOUS
<1>1. /\ Inv /\ HostTypeOK /\ HostWal /\ InFlight(c) /\ Restarts(c)
      /\ db \in [Dirs -> Database] /\ srv \in [Dirs -> Ports \cup {None}]
      /\ cl \in [Clients -> Client] /\ ClientStep(c)
  BY StepIsInFlight DEF WalInv, Inv, TypeOK, HostTypeOK, ClientStep
<1>2. d \in Dirs /\ OnTrack(cl[c].op, cl[c].at) /\ Knows(cl[c]) /\ Inv'
  BY <1>1, LogicalStepInv DEF Inv, CallsWellFormed
<1>3. Settling /\ Return(c, "fail") => WalInv'
  BY <1>2, ReturnSettles DEF Ends
<1>4. Quiet => Settling
  BY <1>1, QuietSettles
<1>5. CASE PublishLoad(c)
  <2>1. Settling
    BY <1>4, <1>5 DEF PublishLoad
  <2>2. CASE cl' = [cl EXCEPT ![c].cfg = disk[d].cfg, ![c].at = "pub.show"]
    <3> DEFINE cfg == disk[d].cfg
    <3>1. cl' = [cl EXCEPT ![c].cfg = cfg, ![c].at = "pub.show"]
      BY <2>2
    <3> HIDE DEF cfg
    <3>2. cl'[c].at = "pub.show" /\ \A b \in Clients \ {c} : cl'[b] = cl[b]
      BY <1>1, <3>1 DEF Client
    <3>3. Restarts(c)'
      BY <3>2 DEF Restarts
    <3>. QED BY <1>2, <2>1, <3>2, <3>3, SettlesAll
  <2>. QED BY <1>3, <1>5, <2>1, <2>2 DEF PublishLoad
<1>6. CASE ShowWalLevel(c)
  <2>1. Settling /\ Quiet
    BY <1>4, <1>6 DEF ShowWalLevel
  <2>2. ASSUME NEW r \in Serving(cl[c].cfg.port), db[r].walLive,
               Go(c, "pub.create") \/ Go(c, "stop.load")
        PROVE  WalInv'
    <3>1. r = d
      BY <1>2 DEF Serving
    <3>2. WalReady(d)
      BY <1>1, <1>2, <2>2, <3>1 DEF HostWal, WalReady
    <3>3. WalReady(d)'
      BY <1>2, <2>1, <3>2 DEF Settling, Steadily
    <3>4. db'[d].walConf
      BY <3>3 DEF WalReady
    <3>. QED BY <1>2, <2>1, <2>2, <3>3, <3>4, GoSettles
  <2>3. Go(c, "pub.alter") => WalInv'
    BY <1>2, <2>1, GoSettles
  <2>. QED BY <1>3, <1>6, <2>1, <2>2, <2>3 DEF ShowWalLevel
<1>7. CASE AlterSystem(c)
  <2>1. ASSUME NEW r \in Serving(cl[c].cfg.port), UNCHANGED <<disk, srv>>,
               db' = [db EXCEPT ![r].walConf = TRUE]
        PROVE  Settling /\ db'[d].walConf
    <3>1. r = d
      BY <1>2 DEF Serving
    <3>2. /\ \A e \in Dirs : /\ db'[e].walLive = db[e].walLive
                             /\ db[e].walConf => db'[e].walConf
                             /\ db'[e].pub = db[e].pub
          /\ db'[d].walConf
      BY <1>1, <1>2, <2>1, <3>1 DEF Database
    <3>. QED BY <1>1, <2>1, <3>2, DatabasesSettle
  <2>2. ASSUME Settling, db'[d].walConf, Go(c, "stop.load") PROVE WalInv'
    BY <1>2, <2>2, GoSettles
  <2>. QED BY <1>3, <1>4, <1>7, <2>1, <2>2 DEF AlterSystem
<1>8. CASE CreatePublication(c)
  <2>1. ASSUME NEW r \in Serving(cl[c].cfg.port), UNCHANGED <<disk, srv>>,
               db' = [db EXCEPT ![r].pub = TRUE]
        PROVE  Settling
    <3>1. r = d
      BY <1>2 DEF Serving
    <3>2. cl[c].op = "publish" /\ cl[c].at = "pub.create"
      BY <1>2, <1>8 DEF CreatePublication, At, OnTrack
    <3>3. WalReady(d)
      BY <1>1, <3>2 DEF Restarts
    <3>4. \A e \in Dirs : /\ db'[e].walLive = db[e].walLive
                          /\ db'[e].walConf = db[e].walConf
      BY <1>1, <2>1 DEF Database
    <3>5. Steadily
      BY <2>1, <3>4 DEF Steadily, WalReady
    <3>6. HostWal'
      BY <1>1, <1>2, <2>1, <3>3, <3>4 DEF HostWal, WalReady
    <3>. QED BY <3>5, <3>6 DEF Settling
  <2>2. Settling /\ Return(c, "ok") => WalInv'
    BY <1>2, ReturnSettles DEF Ends
  <2>. QED BY <1>3, <1>4, <1>8, <2>1, <2>2 DEF CreatePublication
<1>9. CASE SubscribeLoad(c) \/ CreateSubscription(c) \/ SubscribeSave(c)
  <2>1. cl[c].op # "publish"
    BY Zenon, <1>2, <1>9 DEF SubscribeLoad, CreateSubscription, SubscribeSave, At, OnTrack
  <2>2. CASE SubscribeLoad(c)
    BY <1>1, <1>2, <1>4, <2>1, <2>2, OthersSettle DEF SubscribeLoad
  <2>3. CASE CreateSubscription(c)
    <3>1. Quiet
      <4>1. \A r, q \in Dirs : r = q
        OBVIOUS
      <4>. QED BY <2>3, <4>1 DEF CreateSubscription, Serving
    <3>. QED BY <1>1, <1>2, <1>4, <2>1, <3>1, OthersSettle
  <2>4. CASE SubscribeSave(c)
    <3>1. PICK cfg : Quiet \/ (disk' = [disk EXCEPT ![d].cfg = cfg] /\ UNCHANGED <<srv, db>>)
      BY <2>4 DEF SubscribeSave, Save
    <3>2. Settling
      BY <1>1, <1>2, <3>1, SaveSettles
    <3>. QED BY <1>1, <1>2, <2>1, <3>2, OthersSettle
  <2>. QED BY <1>9, <2>2, <2>3, <2>4
<1>. QED BY <1>5, <1>6, <1>7, <1>8, <1>9 DEF LogicalStep

LEMMA EnvironmentSettles ==
  ASSUME WalInv, Environment
  PROVE  WalInv'
<1>1. /\ Inv /\ HostTypeOK /\ HostWal /\ Inv'
      /\ disk \in [Dirs -> Files] /\ srv \in [Dirs -> Ports \cup {None}]
      /\ db \in [Dirs -> Database] /\ cl \in [Clients -> Client]
  BY EnvironmentInv DEF WalInv, Inv, TypeOK, HostTypeOK
<1>2. Settling
  <2>1. ASSUME NEW d \in Dirs, FinishPromotion(d) \/ ReusePid(d) PROVE Settling
    <3> DEFINE f == IF FinishPromotion(d) THEN [disk[d] EXCEPT !.data = "primary"]
                    ELSE [disk[d] EXCEPT !.pid = "reused"]
    <3>1. /\ disk' = [disk EXCEPT ![d] = f] /\ UNCHANGED <<srv, db>>
          /\ disk[d].data # "absent" => f.data # "absent"
          /\ f.pid = disk[d].pid \/ (disk[d].pid = "dead" /\ f.pid = "reused")
      BY <1>1, <2>1 DEF FinishPromotion, ReusePid, Files
    <3> HIDE DEF f
    <3>. QED BY <1>1, <2>1, <3>1, FilesSettle
  <2>2. ASSUME NEW d \in Dirs, KillServer(d) \/ LocklessExit(d) PROVE Settling
    BY <1>1, <2>2, DownSettles DEF KillServer, LocklessExit
  <2>3. ASSUME NEW p \in Ports, StrayExit(p) PROVE Settling
    BY <1>1, <2>3, DatabasesSettle DEF StrayExit
  <2>4. CASE Reboot
    <3>1. \A d \in Dirs :
            /\ disk'[d].data = Settled(disk[d].data) /\ srv'[d] = None
            /\ disk'[d].pid = IF disk[d].pid = "live" THEN "dead" ELSE disk[d].pid
            /\ ~db'[d].walLive
            /\ db'[d].walConf = db[d].walConf /\ db'[d].pub = db[d].pub
      BY <1>1, <2>4 DEF Reboot, Files, Database
    <3>2. Steadily
      BY <3>1 DEF Steadily, WalReady
    <3>3. HostWal'
      BY <1>1, <3>1 DEF HostWal, WalReady
    <3>. QED BY <3>2, <3>3 DEF Settling
  <2>. QED BY <2>1, <2>2, <2>3, <2>4 DEF Environment, Machine
<1>3. \A c \in Clients : cl'[c] = cl[c] \/ cl'[c].at \in Ends
  BY DEF Environment, Machine, Reboot, Idle, Ends
<1>4. ASSUME NEW c \in Clients PROVE Restarts(c)'
  <2>1. CASE cl'[c].at \in Ends \/ ~InFlight(c)
    BY <1>3, <2>1 DEF Restarts, InFlight, Ends
  <2>2. CASE cl'[c] = cl[c] /\ InFlight(c)
    <3>1. cl[c].dir \in Dirs /\ Restarts(c)
      BY <2>2 DEF WalInv, Inv, CallsWellFormed
    <3>. QED BY <1>2, <2>2, <3>1 DEF Restarts, Settling, Steadily
  <2>. QED BY <1>3, <2>1, <2>2
<1>. QED BY <1>1, <1>2, <1>4 DEF WalInv, Settling

LEMMA StepSettles ==
  ASSUME \A d, e \in Dirs : d = e, Ops \cap {"destroy", "standby"} = {}, Offered,
         WalInv, [Next]_vars
  PROVE  WalInv'
<1>1. Inv' /\ Inv /\ HostWal /\ HostTypeOK /\ cl \in [Clients -> Client]
  BY StepInv DEF WalInv, Inv, TypeOK
<1>2. CASE UNCHANGED vars
  <2>1. HostWal'
    BY <1>1, <1>2, QuietSettles DEF vars, Quiet, host, Settling
  <2>. QED BY <1>1, <1>2, <2>1 DEF vars, host, WalInv, Restarts, WalReady
<1>3. ASSUME NEW c \in Clients, BeginCall(c) PROVE WalInv'
  <2>1. ASSUME NEW op, NEW point, NEW d, NEW src, NEW name, NEW port,
               op # "publish" \/ point = "pub.load",
               Begin(c, op, point, d, src, name, port)
        PROVE  WalInv'
    <3>1. /\ cl'[c].op = op /\ cl'[c].at = point
          /\ \A b \in Clients \ {c} : cl'[b] = cl[b]
      BY <1>1, <2>1 DEF Begin
    <3>2. Settling
      BY <1>1, <2>1, QuietSettles DEF Begin
    <3>3. Restarts(c)'
      BY <2>1, <3>1 DEF Restarts
    <3>. QED BY <1>1, <3>1, <3>2, <3>3, SettlesAll
  <2>. QED BY <1>3, <2>1 DEF BeginCall, BeginDeploy, BeginLifecycle, BeginDestroy,
       BeginPromote, BeginPublish, BeginSubscribe, BeginSet, DeployOps
<1>4. ASSUME NEW c \in Clients, KillClient(c) PROVE WalInv'
  BY <1>1, <1>4, QuietSettles, ReturnSettles DEF KillClient, Ends
<1>5. ASSUME NEW c \in Clients, ClientStep(c) PROVE WalInv'
  <2>1. OnTrack(cl[c].op, cl[c].at)
    BY <1>1, <1>5, StepIsInFlight DEF Inv, CallsWellFormed
  <2>2. CASE DeployStep(c)
    <3>1. cl[c].op # "publish"
      BY Zenon, <2>1, <2>2 DEF DeployStep, ChoosePort, MakeDirChoosePort, InitDb,
         LaunchDeployed, SaveDeployed, ProbeSource, ProbeRole, CreateRole, EnsureHba,
         BaseBackup, At, OnTrack
    <3>. QED BY <1>1, <1>5, <2>2, <3>1, DeployStepSettles, OthersSettle
  <2>3. CASE LifecycleStep(c)
    BY <1>1, <1>5, <2>3, RestartSettles, LifecycleSettles, OthersSettle
  <2>4. CASE DestroyStep(c)
    <3>1. cl[c].op # "publish"
      BY <2>1, <2>4 DEF DestroyStep, DestroyLoad, DropSubscription, DestroyStop,
         SlotLoad, SlotDrop, DestroyRemove, At, OnTrack
    <3>. QED BY <1>1, <1>5, <2>4, <3>1, SlotSettles, OthersSettle
  <2>5. CASE PromoteStep(c)
    <3>1. cl[c].op # "publish"
      BY <2>1, <2>5 DEF PromoteStep, PromoteLoad, PromoteRun, PromoteWait, PromoteSave,
         At, OnTrack
    <3>. QED BY <1>1, <1>5, <2>5, <3>1, PromoteSettles, OthersSettle
  <2>6. CASE LogicalStep(c)
    BY <2>6, LogicalSettles
  <2>7. CASE SetStep(c)
    <3>1. cl[c].op # "publish" /\ cl[c].dir \in Dirs
      BY <1>1, <1>5, <2>1, <2>7, StepIsInFlight
         DEF SetStep, SetLoad, SetSave, At, OnTrack, Inv, CallsWellFormed
    <3>2. PICK cfg : \/ Quiet
                     \/ (disk' = [disk EXCEPT ![cl[c].dir].cfg = cfg] /\ UNCHANGED <<srv, db>>)
      BY <2>7 DEF SetStep, SetLoad, SetSave, Save
    <3>3. Settling
      BY <1>1, <3>1, <3>2, SaveSettles
    <3>. QED BY <1>1, <1>5, <3>1, <3>3, OthersSettle
  <2>. QED BY <1>5, <2>2, <2>3, <2>4, <2>5, <2>6, <2>7 DEF ClientStep
<1>. QED BY <1>2, <1>3, <1>4, <1>5, EnvironmentSettles DEF Next

\* However a publish and any number of starts, stops, restarts and other publishes
\* of the sandbox cross, whatever is killed in between and whichever pidfile is
\* unlinked or reused, a server with a publication runs with wal_level=logical
\* (publish.go, Publish).  With a second sandbox the port of
\* the first could lead to that one's server by then; a destroy would take the
\* setting away and leave the publish going.
THEOREM PublishedIsLogical ==
  ASSUME \A d, e \in Dirs : d = e, Ops \cap {"destroy", "standby"} = {}
  PROVE  Spec => []PublicationNeedsLogicalWal
<1>1. Init => WalInv
  <2>1. ASSUME Init PROVE HostWal /\ \A c \in Clients : Restarts(c)
    BY <2>1 DEF Init, HostInit, NoFiles, NoDatabase, Idle, HostWal, Restarts, WalReady
  <2>. QED BY <2>1, InitInv DEF WalInv
<1>2. Offered /\ WalInv /\ [Next]_vars => WalInv'
  BY StepSettles
<1>3. WalInv => PublicationNeedsLogicalWal
  BY DEF WalInv, HostWal, WalReady, PublicationNeedsLogicalWal
<1>. QED BY <1>1, <1>2, <1>3, AlwaysOffered, PTL DEF Spec
=============================================================================
