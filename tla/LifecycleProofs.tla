-------------------------- MODULE LifecycleProofs --------------------------
(***************************************************************************)
(* What a config, a pidfile and a server have to do with each other while  *)
(* operators keep two commands off one sandbox, whatever is killed or      *)
(* fails: for any number of sandboxes and of commands in flight; and what  *)
(* commands do to the databases and the replication slots of others.       *)
(* Each theorem names the commands and faults it cannot do with.           *)
(***************************************************************************)
EXTENDS SandboxProofs, CatalogRefinement

\* No two commands in flight work on one sandbox.
Apart ==
  \A b, c \in Clients :
    b # c /\ InFlight(b) /\ InFlight(c) => cl[b].dir # cl[c].dir

\* A pidfile names a live server where there is one, and there is one only on a
\* whole data directory and on the port its config records: of the files f of a
\* sandbox and the port s of its server.
Coherent(f, s) ==
  /\ s # None <=> f.pid = "live"
  /\ s # None => f.data \in Complete
  /\ f.cfg # None => f.data \in Complete \cup {"torn"}
  /\ "pid" \notin Faults => f.pid # "reused"
  /\ "set" \notin Ops => (s # None /\ f.cfg # None => s = f.cfg.port)

Sane(d) == Coherent(disk[d], srv[d])

OnePerPort == \A d, e \in Dirs : srv[d] # None /\ srv[d] = srv[e] => d = e

\* What a command at some point takes for granted of its sandbox: of its files f
\* and of the port s its server is on.  Nothing but its own steps, and what
\* happens on the machine without any command, can come in between.
Expects(op, at, cfg, port, f, s) ==
  /\ cfg # None => cfg = f.cfg
  /\ op \in DeployOps /\ at \notin {"sub.load", "sub.create", "sub.save"} =>
       f.cfg = None
  /\ op \in DeployOps /\ at \in {"launch", "save"} =>
       f.data = IF op = "standby" THEN "standby" ELSE "primary"
  /\ at = "save" => s \in {None, port}
  /\ at = "start.run" => f.cfg # None /\ port = f.cfg.port
  /\ at = "stop.unlink" => f.pid \in {"dead", "reused"}
  /\ op = "promote" /\ at # "promote.load" => f.cfg # None /\ f.cfg.role = "standby"
  /\ at = "promote.wait" =>
       /\ f.data \in Complete
       /\ s # None => f.data \in {"promoting", "primary"}
       /\ "server" \notin Faults => s # None
  /\ op = "promote" /\ at \in {"slot.load", "slot.drop", "promote.save"}
       /\ "set" \notin Ops =>
       /\ f.data \in Complete
       /\ s # None \/ "server" \notin Faults => f.data = "primary"

Holds(c) ==
  Expects(cl[c].op, cl[c].at, cl[c].cfg, cl[c].port,
          disk[cl[c].dir], srv[cl[c].dir])

LifeInv ==
  /\ Inv /\ Apart /\ OnePerPort
  /\ \A d \in Dirs : Sane(d)
  /\ \A c \in Clients : InFlight(c) => Holds(c)

-----------------------------------------------------------------------------
\* One command moves, and its sandbox with it

\* The server of d may go down, or come up on a port that was free.
Sound(d) ==
  /\ Elsewhere(d) /\ Coherent(disk'[d], srv'[d])
  /\ srv'[d] \in {srv[d], None} \/ ~IsBusy(srv'[d])

LEMMA Ports1 ==
  ASSUME LifeInv, NEW d \in Dirs, Sound(d)
  PROVE  OnePerPort' /\ \A e \in Dirs : Sane(e)'
<1>1. \A e \in Dirs : Sane(e)'
  BY DEF LifeInv, Sound, Elsewhere, Sane, Coherent
<1>2. ASSUME NEW e \in Dirs, NEW f \in Dirs, srv'[e] # None, srv'[e] = srv'[f], e # f
      PROVE  FALSE
  <2>1. CASE e # d /\ f # d
    BY <1>2, <2>1 DEF LifeInv, Sound, Elsewhere, OnePerPort
  <2>2. CASE e = d \/ f = d
    <3>1. PICK g \in Dirs \ {d} : srv'[g] = srv'[d] /\ srv'[d] # None
      BY <1>2, <2>2
    <3>2. srv[g] = srv'[d]
      BY <3>1 DEF Sound, Elsewhere
    <3>3. IsBusy(srv'[d])
      BY <3>2 DEF IsBusy
    <3>. QED BY <3>1, <3>2, <3>3 DEF Sound, LifeInv, OnePerPort
  <2>. QED BY <2>1, <2>2
<1>. QED BY <1>1, <1>2 DEF OnePerPort

LEMMA Stays ==
  ASSUME LifeInv, Inv', NEW c \in Clients, InFlight(c), Sound(cl[c].dir),
         \A b \in Clients \ {c} : cl'[b] = cl[b],
         InFlight(c)' => cl'[c].dir = cl[c].dir /\ Holds(c)'
  PROVE  LifeInv'
<1> DEFINE d == cl[c].dir
<1>1. d \in Dirs
  BY DEF LifeInv, Inv, CallsWellFormed
<1>2. \A b \in Clients \ {c} : InFlight(b) => cl[b].dir \in Dirs \ {d}
  BY DEF LifeInv, Inv, CallsWellFormed, Apart
<1>3. Apart'
  BY <1>2 DEF LifeInv, Apart, InFlight
<1>4. ASSUME NEW b \in Clients, InFlight(b)' PROVE Holds(b)'
  <2>1. CASE b = c
    BY <1>4, <2>1
  <2>2. CASE b # c
    <3>1. cl'[b] = cl[b] /\ InFlight(b)
      BY <1>4, <2>2 DEF InFlight
    <3>2. disk'[cl[b].dir] = disk[cl[b].dir] /\ srv'[cl[b].dir] = srv[cl[b].dir]
      BY <1>2, <2>2, <3>1 DEF Sound, Elsewhere
    <3>3. Holds(b)
      BY <3>1 DEF LifeInv
    <3>. QED BY <3>1, <3>2, <3>3 DEF Holds
  <2>. QED BY <2>1, <2>2
<1>5. OnePerPort' /\ \A e \in Dirs : Sane(e)'
  BY <1>1, Ports1
<1>. QED BY <1>3, <1>4, <1>5 DEF LifeInv, Sound

\* The command exits.
LEMMA ReturnStays ==
  ASSUME LifeInv, Inv', NEW c \in Clients, InFlight(c), Sound(cl[c].dir),
         NEW outcome \in Ends, Return(c, outcome)
  PROVE  LifeInv'
<1>1. cl \in [Clients -> Client]
  BY DEF LifeInv, Inv, TypeOK
<1>2. (\A b \in Clients \ {c} : cl'[b] = cl[b]) /\ ~InFlight(c)'
  BY <1>1 DEF Return, Idle, InFlight
<1>. QED BY <1>2, Stays

\* The command goes on, and finds at the next point what it takes for granted.
LEMMA GoStays ==
  ASSUME LifeInv, Inv', NEW c \in Clients, InFlight(c), Sound(cl[c].dir),
         NEW point, Go(c, point),
         Expects(cl[c].op, point, cl[c].cfg, cl[c].port,
                 disk'[cl[c].dir], srv'[cl[c].dir])
  PROVE  LifeInv'
<1>1. cl \in [Clients -> Client]
  BY DEF LifeInv, Inv, TypeOK
<1>2. \A b \in Clients \ {c} : cl'[b] = cl[b]
  BY <1>1 DEF Go
<1>3. /\ cl'[c].at = point /\ cl'[c].op = cl[c].op /\ cl'[c].dir = cl[c].dir
      /\ cl'[c].cfg = cl[c].cfg /\ cl'[c].port = cl[c].port
  BY <1>1 DEF Go, Client
<1>. QED BY <1>2, <1>3, Stays DEF Holds

\* A step that leaves files and servers alone.
LEMMA UntouchedSound ==
  ASSUME LifeInv, NEW d \in Dirs, UNCHANGED <<disk, srv, strays>>
  PROVE  Sound(d) /\ disk'[d] = disk[d] /\ srv'[d] = srv[d]
BY DEF LifeInv, Sound, Elsewhere, Sane, Coherent

\* What a command brings to its next step.
LEMMA Poised ==
  ASSUME LifeInv, NEW c \in Clients, NEW point \in Points, At(c, point)
  PROVE  /\ InFlight(c) /\ cl[c].at = point
         /\ cl[c].dir \in Dirs /\ cl[c] \in Client
         /\ OnTrack(cl[c].op, point) /\ Knows(cl[c])
         /\ Expects(cl[c].op, point, cl[c].cfg, cl[c].port,
                    disk[cl[c].dir], srv[cl[c].dir])
         /\ Sane(cl[c].dir) /\ disk[cl[c].dir] \in Files
         /\ srv[cl[c].dir] \in Ports \cup {None}
<1>1. /\ InFlight(c) /\ cl[c].at = point /\ HostTypeOK
      /\ cl[c].dir \in Dirs /\ cl[c] \in Client
      /\ OnTrack(cl[c].op, point) /\ Knows(cl[c])
  BY Standing DEF LifeInv
<1>2. Holds(c)
  BY <1>1 DEF LifeInv
<1>. QED BY <1>1, <1>2 DEF LifeInv, Holds, HostTypeOK

LEMMA UntouchedGoes ==
  ASSUME LifeInv, Inv', NEW c \in Clients, InFlight(c), cl[c].dir \in Dirs,
         UNCHANGED <<disk, srv, strays>>, NEW point, Go(c, point),
         Expects(cl[c].op, point, cl[c].cfg, cl[c].port,
                 disk[cl[c].dir], srv[cl[c].dir])
  PROVE  LifeInv'
BY UntouchedSound, GoStays

LEMMA UntouchedReturns ==
  ASSUME LifeInv, Inv', NEW c \in Clients, InFlight(c), cl[c].dir \in Dirs,
         UNCHANGED <<disk, srv, strays>>, NEW outcome \in Ends, Return(c, outcome)
  PROVE  LifeInv'
BY UntouchedSound, ReturnStays

\* A command that reads remembers it and goes on: cfg and port are what it
\* remembers afterwards.
LEMMA ReadsStays ==
  ASSUME LifeInv, Inv', NEW c \in Clients, InFlight(c), cl[c].dir \in Dirs,
         UNCHANGED <<disk, srv, strays>>, NEW k, cl' = [cl EXCEPT ![c] = k],
         k.dir = cl[c].dir, k.op = cl[c].op,
         Expects(cl[c].op, k.at, k.cfg, k.port, disk[cl[c].dir], srv[cl[c].dir])
  PROVE  LifeInv'
<1>1. cl \in [Clients -> Client]
  BY DEF LifeInv, Inv, TypeOK
<1>2. (\A b \in Clients \ {c} : cl'[b] = cl[b]) /\ cl'[c] = k
  BY <1>1
<1>3. Sound(cl[c].dir) /\ disk'[cl[c].dir] = disk[cl[c].dir]
        /\ srv'[cl[c].dir] = srv[cl[c].dir]
  BY UntouchedSound
<1>. QED BY <1>2, <1>3, Stays DEF Holds

-----------------------------------------------------------------------------
\* What PostgreSQL does to one sandbox

LEMMA UpSound ==
  ASSUME LifeInv, NEW d \in Dirs, NEW p \in Ports, CanStart(d, p), ServerUp(d, p),
         disk[d].cfg # None => p = disk[d].cfg.port
  PROVE  /\ Sound(d) /\ srv'[d] = p
         /\ disk'[d].data = disk[d].data /\ disk'[d].cfg = disk[d].cfg
         /\ disk'[d].pid = "live"
<1>1. disk \in [Dirs -> Files] /\ srv \in [Dirs -> Ports \cup {None}]
  BY DEF LifeInv, Inv, TypeOK, HostTypeOK
<1>2. /\ srv'[d] = p /\ disk'[d].pid = "live"
      /\ disk'[d].data = disk[d].data /\ disk'[d].cfg = disk[d].cfg
      /\ Elsewhere(d)
  BY <1>1 DEF ServerUp, Files, Elsewhere
<1>3. Coherent(disk'[d], srv'[d])
  BY <1>2, NoneAssumption DEF Sane, Coherent, CanStart, LifeInv
<1>4. ~IsBusy(srv'[d])
  BY <1>2 DEF CanStart
<1>. QED BY <1>2, <1>3, <1>4 DEF Sound

LEMMA DownSound ==
  ASSUME LifeInv, NEW d \in Dirs, srv[d] # None, NEW pid \in {"none", "dead"},
         ServerDown(d, pid)
  PROVE  /\ Sound(d) /\ srv'[d] = None
         /\ disk'[d].data = Settled(disk[d].data) /\ disk'[d].cfg = disk[d].cfg
         /\ disk'[d].pid = pid
<1>1. disk \in [Dirs -> Files] /\ srv \in [Dirs -> Ports \cup {None}]
  BY DEF LifeInv, Inv, TypeOK, HostTypeOK
<1>2. /\ srv'[d] = None /\ disk'[d].pid = pid
      /\ disk'[d].data = Settled(disk[d].data) /\ disk'[d].cfg = disk[d].cfg
      /\ Elsewhere(d)
  BY <1>1 DEF ServerDown, Files, Elsewhere
<1>3. Coherent(disk'[d], srv'[d])
  BY <1>2 DEF Sane, Coherent, Settled, Complete, LifeInv
<1>. QED BY <1>2, <1>3 DEF Sound

\* A config is written where there is a data directory, and it records the port
\* of the server that runs there.
LEMMA SaveSound ==
  ASSUME LifeInv, NEW d \in Dirs, NEW cfg, disk' = [disk EXCEPT ![d].cfg = cfg],
         UNCHANGED <<srv, strays>>,
         disk[d].data \in Complete \cup {"torn"},
         "set" \notin Ops /\ srv[d] # None => srv[d] = cfg.port
  PROVE  Sound(d) /\ srv'[d] = srv[d] /\ disk'[d] = [disk[d] EXCEPT !.cfg = cfg]
         /\ disk'[d].cfg = cfg /\ disk'[d].data = disk[d].data
<1>1. disk \in [Dirs -> Files] /\ srv \in [Dirs -> Ports \cup {None}]
  BY DEF LifeInv, Inv, TypeOK, HostTypeOK
<1>2. /\ disk'[d] = [disk[d] EXCEPT !.cfg = cfg] /\ Elsewhere(d)
      /\ disk'[d].cfg = cfg /\ disk'[d].data = disk[d].data
      /\ disk'[d].pid = disk[d].pid
  BY <1>1 DEF Files, Elsewhere
<1>3. Coherent(disk'[d], srv'[d])
  BY <1>2 DEF Sane, Coherent, LifeInv
<1>. QED BY <1>2, <1>3 DEF Sound

\* The data directory of a sandbox without a server changes.
LEMMA DataSound ==
  ASSUME LifeInv, NEW d \in Dirs, NEW f \in Files, disk' = [disk EXCEPT ![d] = f],
         UNCHANGED <<srv, strays>>,
         f.pid = disk[d].pid, f.cfg = disk[d].cfg,
         \/ f.data = disk[d].data
         \/ f.data \in Complete
         \/ disk[d].data \notin Complete \cup {"torn"}
  PROVE  Sound(d) /\ srv'[d] = srv[d] /\ disk'[d] = f
<1>1. disk \in [Dirs -> Files] /\ srv \in [Dirs -> Ports \cup {None}]
  BY DEF LifeInv, Inv, TypeOK, HostTypeOK
<1>2. disk'[d] = f /\ Elsewhere(d)
  BY <1>1 DEF Elsewhere
<1>3. Coherent(disk'[d], srv'[d])
  BY <1>2 DEF Sane, Coherent, LifeInv
<1>. QED BY <1>2, <1>3 DEF Sound

-----------------------------------------------------------------------------
\* The steps of each command

LEMMA BeginLife ==
  ASSUME Disciplined, LifeInv, NEW c \in Clients, BeginCall(c)
  PROVE  LifeInv'
<1>1. Inv' /\ Inv /\ cl \in [Clients -> Client]
  BY BeginCallInv DEF LifeInv, Inv, TypeOK
<1>2. ASSUME NEW op, NEW d \in Dirs, NEW src, NEW name, NEW port,
             NEW point \in {"port", "probe", "start.load", "stop.load",
                            "destroy.load", "promote.load", "pub.load",
                            "sub.load", "set.load"},
             op \in DeployOps => disk[d].cfg = None,
             op = "promote" => point = "promote.load",
             Begin(c, op, point, d, src, name, port)
      PROVE  LifeInv'
  <2>1. /\ cl'[c] = [op |-> op, at |-> point, dir |-> d, src |-> src,
                     name |-> name, cfg |-> None, port |-> port,
                     peer |-> None, base |-> PortBase]
        /\ \A b \in Clients \ {c} : cl'[b] = cl[b]
        /\ UNCHANGED <<disk, srv, strays>>
    BY <1>1, <1>2 DEF Begin, Quiet, host
  <2>2. \A b \in Clients \ {c} : InFlight(b) => cl[b].dir # d
    BY <1>2, NoneAssumption DEF Begin, Unshared, Touches
  <2>3. Apart'
    BY <2>1, <2>2 DEF LifeInv, Apart, InFlight
  <2>4. Expects(op, point, None, port, disk[d], srv[d])
    BY <1>2 DEF Expects
  <2>5. Holds(c)'
    BY <2>1, <2>4 DEF Holds
  <2>6. ASSUME NEW b \in Clients, InFlight(b)' PROVE Holds(b)'
    <3>1. CASE b = c
      BY <2>5, <3>1
    <3>2. CASE b # c
      BY <2>1, <2>6, <3>2 DEF LifeInv, Holds, InFlight
    <3>. QED BY <3>1, <3>2
  <2>. QED BY <1>1, <2>1, <2>3, <2>6
       DEF LifeInv, OnePerPort, Sane, Coherent
<1>3. CASE BeginDeploy(c)
  BY <1>2, <1>3 DEF BeginDeploy, DirAvailable
<1>. QED BY <1>2, <1>3
     DEF BeginCall, BeginLifecycle, BeginDestroy, BeginPromote, BeginPublish,
         BeginSubscribe, BeginSet, DeployOps

\* A deploy takes the first free port, or gives up.
LEMMA ResolvePortLife ==
  ASSUME LifeInv, Inv', NEW c \in Clients, InFlight(c), cl[c].dir \in Dirs,
         cl[c].op \in DeployOps, cl[c].cfg = None, Sound(cl[c].dir),
         disk'[cl[c].dir].cfg = None,
         NEW next \in {"init", "base"}, ResolvePort(c, next)
  PROVE  LifeInv'
<1>1. cl \in [Clients -> Client]
  BY DEF LifeInv, Inv, TypeOK
<1>2. CASE Return(c, "fail")
  BY <1>2, ReturnStays DEF Ends
<1>3. ASSUME NEW p \in Ports, cl' = [cl EXCEPT ![c].port = p, ![c].at = next]
      PROVE  LifeInv'
  <2> DEFINE k == [cl[c] EXCEPT !.port = p, !.at = next]
  <2>1. k.at = next /\ k.dir = cl[c].dir /\ k.op = cl[c].op /\ k.cfg = None
    BY <1>1 DEF Client
  <2>2. cl' = [cl EXCEPT ![c] = k]
    BY <1>3
  <2> HIDE DEF k
  <2>3. cl'[c] = k /\ \A b \in Clients \ {c} : cl'[b] = cl[b]
    BY <1>1, <2>2
  <2>4. Holds(c)'
    BY <2>1, <2>3 DEF Holds, Expects, DeployOps
  <2>. QED BY <2>1, <2>3, <2>4, Stays
<1>. QED BY <1>2, <1>3 DEF ResolvePort, FreePort

LEMMA DeployStepLife ==
  ASSUME LifeInv, NEW c \in Clients, DeployStep(c)
  PROVE  LifeInv'
<1> DEFINE d == cl[c].dir
<1>1. Inv' /\ Inv /\ disk \in [Dirs -> Files]
  BY DeployStepInv DEF LifeInv, Inv, TypeOK, HostTypeOK
<1>2. "ok" \in Ends /\ "fail" \in Ends
  BY DEF Ends
\* What a deploy on its way has in front of it.
<1>3. ASSUME NEW point \in {"port", "init", "launch", "save", "probe", "role",
                            "mkrole", "hba", "mkdir", "base"},
             At(c, point)
      PROVE  /\ InFlight(c) /\ d \in Dirs /\ cl[c].op \in DeployOps
             /\ disk[d] \in Files /\ srv[d] \in Ports \cup {None}
             /\ disk[d].cfg = None /\ cl[c].cfg = None
             /\ Expects(cl[c].op, point, cl[c].cfg, cl[c].port, disk[d], srv[d])
             /\ Knows(cl[c]) /\ cl[c] \in Client /\ cl[c].at = point
             /\ OnTrack(cl[c].op, point)
  <2>1. point \in Points
    BY DEF Points
  <2>2. cl[c].op \in DeployOps
    BY <1>3, <2>1, Poised DEF OnTrack, DeployOps
  <2>. QED BY <1>3, <2>1, <2>2, Poised DEF Expects
<1>4. CASE ChoosePort(c)
  <2>1. At(c, "port") /\ UNCHANGED <<disk, srv, strays>> /\ ResolvePort(c, "init")
    BY <1>4 DEF ChoosePort, Quiet, host
  <2>. QED BY <1>1, <1>3, <2>1, UntouchedSound, ResolvePortLife
<1>5. CASE MakeDirChoosePort(c)
  <2> DEFINE f == [disk[d] EXCEPT !.made = TRUE]
  <2>1. /\ At(c, "mkdir") /\ UNCHANGED <<srv, strays>> /\ ResolvePort(c, "base")
        /\ disk' = [disk EXCEPT ![d] = f]
    BY <1>5 DEF MakeDirChoosePort
  <2>2. f \in Files /\ f.pid = disk[d].pid /\ f.cfg = disk[d].cfg /\ f.data = disk[d].data
    BY <1>3, <2>1 DEF Files
  <2> HIDE DEF f
  <2>3. Sound(d) /\ disk'[d] = f
    BY <1>3, <2>1, <2>2, DataSound
  <2>. QED BY <1>1, <1>3, <2>1, <2>2, <2>3, ResolvePortLife
<1>6. CASE InitDb(c)
  <2>1. At(c, "init") /\ UNCHANGED <<srv, strays>>
    BY <1>6 DEF InitDb
  <2> DEFINE f(data) == [disk[d] EXCEPT !.made = TRUE, !.data = data]
  <2>2. ASSUME NEW data \in DataStates, disk' = [disk EXCEPT ![d] = f(data)],
               data = disk[d].data \/ disk[d].data = "absent"
        PROVE  /\ Sound(d) /\ srv'[d] = srv[d]
               /\ disk'[d].data = data /\ disk'[d].cfg = None
    <3>1. /\ f(data) \in Files /\ f(data).data = data
          /\ f(data).pid = disk[d].pid /\ f(data).cfg = disk[d].cfg
      BY <1>3, <2>1 DEF Files
    <3> HIDE DEF f
    <3>2. \/ f(data).data = disk[d].data
          \/ disk[d].data \notin Complete \cup {"torn"}
      BY <2>2, <3>1 DEF Complete
    <3>3. Sound(d) /\ srv'[d] = srv[d] /\ disk'[d] = f(data)
      BY <1>3, <2>1, <2>2, <3>1, <3>2, DataSound
    <3>. QED BY <1>3, <2>1, <3>1, <3>3
  <2>3. disk[d].data \in DataStates /\ {"primary", "partial"} \subseteq DataStates
    BY <1>3, <2>1 DEF Files, DataStates
  <2>4. CASE disk[d].data = "absent" /\ disk' = [disk EXCEPT ![d] = f("primary")]
             /\ Go(c, "launch")
    <3>1. Sound(d) /\ disk'[d].data = "primary" /\ disk'[d].cfg = None
      BY <2>2, <2>3, <2>4
    <3>2. cl[c].op # "standby" /\ cl[c].cfg = None
      BY <1>3, <2>1 DEF OnTrack
    <3>3. Expects(cl[c].op, "launch", cl[c].cfg, cl[c].port, disk'[d], srv'[d])
      BY <2>1, <1>3, <3>1, <3>2 DEF Expects, DeployOps
    <3>. QED BY <1>1, <1>3, <2>1, <2>4, <3>1, <3>3, GoStays
  <2>5. CASE /\ \/ disk[d].data = "absent" /\ disk' = [disk EXCEPT ![d] = f("partial")]
                \/ disk' = [disk EXCEPT ![d] = f(disk[d].data)]
             /\ Return(c, "fail")
    <3>1. Sound(d)
      BY <2>2, <2>3, <2>5
    <3>. QED BY <1>1, <1>2, <1>3, <2>1, <2>5, <3>1, ReturnStays
  <2>. QED BY <1>6, <2>4, <2>5 DEF InitDb
<1>7. CASE LaunchDeployed(c)
  <2>1. At(c, "launch") /\ PgCtlStart(c, Go(c, "save"))
    BY <1>7 DEF LaunchDeployed
  <2>2. CASE UNCHANGED <<disk, srv, strays>> /\ Return(c, "fail")
    BY <1>1, <1>2, <1>3, <2>1, <2>2, UntouchedReturns
  <2>3. CASE CanStart(d, cl[c].port) /\ ServerUp(d, cl[c].port)
             /\ (Go(c, "save") \/ Return(c, "fail"))
    <3>1. cl[c].port \in Ports
      BY <1>3, <2>1 DEF Knows, Client
    <3>2. /\ Sound(d) /\ srv'[d] = cl[c].port
          /\ disk'[d].data = disk[d].data /\ disk'[d].cfg = disk[d].cfg
      BY <1>3, <2>1, <2>3, <3>1, UpSound
    <3>3. CASE Return(c, "fail")
      BY <1>1, <1>2, <1>3, <2>1, <3>2, <3>3, ReturnStays
    <3>4. CASE Go(c, "save")
      <4>1. Expects(cl[c].op, "save", cl[c].cfg, cl[c].port, disk'[d], srv'[d])
        BY <1>3, <2>1, <3>2 DEF Expects, DeployOps
      <4>. QED BY <1>1, <1>3, <2>1, <3>2, <3>4, <4>1, GoStays
    <3>. QED BY <2>3, <3>3, <3>4
  <2>. QED BY <2>1, <2>2, <2>3 DEF PgCtlStart, Quiet, host
<1>8. CASE SaveDeployed(c)
  <2> DEFINE cfg ==
        [port |-> cl[c].port,
         role |-> IF cl[c].op = "standby" THEN "standby" ELSE "primary",
         physical |-> IF cl[c].op = "standby"
                      THEN [src |-> cl[c].src, slot |-> cl[c].name] ELSE None,
         logical |-> None]
  <2>1. /\ At(c, "save")
        /\ \/ /\ disk' = [disk EXCEPT ![d].cfg = cfg] /\ UNCHANGED <<srv, strays>>
              /\ \/ Return(c, "ok") \/ Return(c, "fail")
                 \/ cl[c].op = "subscriber" /\ Go(c, "sub.load")
           \/ UNCHANGED <<disk, srv, strays>> /\ Return(c, "fail")
    BY <1>8 DEF SaveDeployed, Save, Quiet, host
  <2>2. CASE UNCHANGED <<disk, srv, strays>> /\ Return(c, "fail")
    BY <1>1, <1>2, <1>3, <2>1, <2>2, UntouchedReturns
  <2>3. CASE /\ disk' = [disk EXCEPT ![d].cfg = cfg] /\ UNCHANGED <<srv, strays>>
             /\ \/ Return(c, "ok") \/ Return(c, "fail")
                \/ cl[c].op = "subscriber" /\ Go(c, "sub.load")
    <3>1. cfg.port = cl[c].port
      OBVIOUS
    <3>2. disk[d].data \in {"standby", "primary"} /\ srv[d] \in {None, cl[c].port}
      BY <1>3, <2>1 DEF Expects
    <3> HIDE DEF cfg
    <3>3. Sound(d)
      <4>1. /\ d \in Dirs /\ disk[d].data \in Complete \cup {"torn"}
            /\ srv[d] # None => srv[d] = cfg.port
        BY <1>3, <2>1, <3>1, <3>2 DEF Complete
      <4>. QED BY <2>3, <4>1, SaveSound
    <3>4. CASE cl[c].op = "subscriber" /\ Go(c, "sub.load")
      <4>1. Expects(cl[c].op, "sub.load", cl[c].cfg, cl[c].port, disk'[d], srv'[d])
        BY <1>3, <2>1, <3>4 DEF Expects
      <4>. QED BY <1>1, <1>3, <2>1, <3>3, <3>4, <4>1, GoStays
    <3>. QED BY <1>1, <1>2, <1>3, <2>1, <2>3, <3>3, <3>4, ReturnStays
  <2>. QED BY <2>1, <2>2, <2>3
<1>9. ASSUME NEW point \in {"probe", "role", "mkrole", "hba"}, At(c, point),
             UNCHANGED <<disk, srv, strays>>,
             \/ \E next \in {"mkrole", "hba", "mkdir"} : Go(c, next)
             \/ Return(c, "fail")
             \/ cl' = [cl EXCEPT ![c].peer = disk[cl[c].src].cfg.port,
                                 ![c].at = "role"]
      PROVE  LifeInv'
  <2>1. CASE Return(c, "fail")
    BY <1>1, <1>2, <1>3, <1>9, <2>1, UntouchedReturns
  <2>2. ASSUME NEW next \in {"mkrole", "hba", "mkdir"}, Go(c, next)
        PROVE  LifeInv'
    <3>1. Expects(cl[c].op, next, cl[c].cfg, cl[c].port, disk[d], srv[d])
      BY <1>3, <1>9 DEF Expects, DeployOps
    <3>. QED BY <1>1, <1>3, <1>9, <2>2, <3>1, UntouchedGoes
  <2>3. CASE cl' = [cl EXCEPT ![c].peer = disk[cl[c].src].cfg.port,
                              ![c].at = "role"]
    <3> DEFINE k == [cl[c] EXCEPT !.peer = disk[cl[c].src].cfg.port, !.at = "role"]
    <3>1. k.at = "role" /\ k.dir = d /\ k.op = cl[c].op /\ k.cfg = None
      BY <1>3, <1>9 DEF Client
    <3>2. cl' = [cl EXCEPT ![c] = k]
      BY <2>3
    <3> HIDE DEF k
    <3>3. Expects(cl[c].op, k.at, k.cfg, k.port, disk[d], srv[d])
      BY <1>3, <1>9, <3>1 DEF Expects, DeployOps
    <3>. QED BY <1>1, <1>3, <1>9, <3>1, <3>2, <3>3, ReadsStays
  <2>. QED BY <1>9, <2>1, <2>2, <2>3
<1>10. CASE ProbeSource(c) \/ ProbeRole(c) \/ CreateRole(c) \/ EnsureHba(c)
  <2>1. CASE ProbeSource(c)
    BY <1>9, <2>1 DEF ProbeSource, Quiet, host
  <2>2. CASE ProbeRole(c)
    <3>1. Go(c, "hba") \/ Go(c, "mkrole") \/ Return(c, "fail")
      BY <2>2 DEF ProbeRole
    <3>. QED BY <1>9, <2>2, <3>1 DEF ProbeRole, Quiet, host
  <2>3. CASE CreateRole(c)
    BY <1>9, <2>3 DEF CreateRole, Quiet, host
  <2>4. CASE EnsureHba(c)
    BY <1>9, <2>4 DEF EnsureHba, Quiet, host
  <2>. QED BY <1>10, <2>1, <2>2, <2>3, <2>4
<1>11. CASE BaseBackup(c)
  <2>1. At(c, "base") /\ UNCHANGED <<srv, strays>>
    BY <1>11 DEF BaseBackup, Quiet, host
  <2> DEFINE f(data) == [disk[d] EXCEPT !.data = data]
  <2>2. ASSUME NEW data \in DataStates, disk' = [disk EXCEPT ![d] = f(data)],
               disk[d].data = "absent"
        PROVE  /\ Sound(d) /\ srv'[d] = srv[d]
               /\ disk'[d].data = data /\ disk'[d].cfg = None
    <3>1. /\ f(data) \in Files /\ f(data).data = data
          /\ f(data).pid = disk[d].pid /\ f(data).cfg = disk[d].cfg
      BY <1>3, <2>1 DEF Files
    <3> HIDE DEF f
    <3>2. \/ f(data).data = disk[d].data
          \/ disk[d].data \notin Complete \cup {"torn"}
      BY <2>2, <3>1 DEF Complete
    <3>3. Sound(d) /\ srv'[d] = srv[d] /\ disk'[d] = f(data)
      BY <1>3, <2>1, <2>2, <3>1, <3>2, DataSound
    <3>. QED BY <1>3, <2>1, <3>1, <3>3
  <2>3. {"standby", "partial", "absent"} \subseteq DataStates
    BY DEF DataStates
  <2>4. CASE UNCHANGED <<disk, srv, strays>> /\ Return(c, "fail")
    BY <1>1, <1>2, <1>3, <2>1, <2>4, UntouchedReturns
  <2>5. CASE disk[d].data = "absent" /\ disk' = [disk EXCEPT ![d] = f("standby")]
             /\ Go(c, "launch")
    <3>1. Sound(d) /\ disk'[d].data = "standby" /\ disk'[d].cfg = None
      BY <2>2, <2>3, <2>5
    <3>2. cl[c].op = "standby" /\ cl[c].cfg = None
      BY <1>3, <2>1 DEF OnTrack
    <3>3. Expects(cl[c].op, "launch", cl[c].cfg, cl[c].port, disk'[d], srv'[d])
      BY <2>1, <1>3, <3>1, <3>2 DEF Expects, DeployOps
    <3>. QED BY <1>1, <1>3, <2>1, <2>5, <3>1, <3>3, GoStays
  <2>6. CASE /\ disk[d].data = "absent"
             /\ \E data \in {"absent", "partial"} : disk' = [disk EXCEPT ![d] = f(data)]
             /\ Return(c, "fail")
    <3>1. Sound(d)
      BY <2>2, <2>3, <2>6
    <3>. QED BY <1>1, <1>2, <1>3, <2>1, <2>6, <3>1, ReturnStays
  <2>7. Upstream(c) # {} => disk[d].data = "absent"
    BY DEF Upstream
  <2>8. \/ UNCHANGED <<disk, srv, strays>> /\ Return(c, "fail")
        \/ /\ Upstream(c) # {}
           /\ \/ disk' = [disk EXCEPT ![d].data = "standby"] /\ Go(c, "launch")
              \/ disk' = [disk EXCEPT ![d].data = "absent"] /\ Return(c, "fail")
              \/ disk' = [disk EXCEPT ![d].data = "partial"] /\ Return(c, "fail")
    BY <1>11 DEF BaseBackup, Quiet, host
  <2>. QED BY <2>4, <2>5, <2>6, <2>7, <2>8
<1>. QED BY <1>4, <1>5, <1>6, <1>7, <1>8, <1>10, <1>11 DEF DeployStep

\* A pidfile that names no live server is taken away, or comes to name another
\* process.
LEMMA PidSound ==
  ASSUME LifeInv, NEW d \in Dirs, disk[d].pid # "live",
         NEW pid \in {"none", "reused"}, pid = "reused" => "pid" \in Faults,
         disk' = [disk EXCEPT ![d].pid = pid], UNCHANGED <<srv, strays>>
  PROVE  Sound(d) /\ srv'[d] = srv[d] /\ disk'[d].cfg = disk[d].cfg
         /\ disk'[d].data = disk[d].data /\ disk'[d].pid = pid
<1>1. disk \in [Dirs -> Files] /\ srv \in [Dirs -> Ports \cup {None}]
  BY DEF LifeInv, Inv, TypeOK, HostTypeOK
<1>2. /\ disk'[d].cfg = disk[d].cfg /\ disk'[d].data = disk[d].data
      /\ disk'[d].pid = pid /\ Elsewhere(d)
  BY <1>1 DEF Files, Elsewhere
<1>3. srv[d] = None
  BY DEF LifeInv, Sane, Coherent
<1>4. Coherent(disk'[d], srv'[d])
  BY <1>2, <1>3 DEF Sane, Coherent, LifeInv
<1>. QED BY <1>2, <1>4 DEF Sound

\* A command on an existing sandbox takes little for granted at most points.
LEMMA Plain ==
  ASSUME NEW op, op \notin DeployOps \cup {"destroy", "promote"},
         NEW at, at \notin {"save", "start.run", "stop.unlink", "promote.wait"},
         NEW cfg, NEW port, NEW f, NEW s, cfg # None => cfg = f.cfg
  PROVE  Expects(op, at, cfg, port, f, s)
BY DEF Expects

LEMMA LifecycleStepLife ==
  ASSUME LifeInv, NEW c \in Clients, LifecycleStep(c)
  PROVE  LifeInv'
<1> DEFINE d == cl[c].dir
<1>1. Inv' /\ Inv /\ disk \in [Dirs -> Files]
  BY LifecycleStepInv DEF LifeInv, Inv, TypeOK, HostTypeOK
<1>2. "ok" \in Ends /\ "fail" \in Ends
  BY DEF Ends
<1>3. ASSUME NEW point \in {"start.load", "start.run", "stop.load",
                            "stop.unlink", "stop.run"},
             At(c, point)
      PROVE  /\ InFlight(c) /\ d \in Dirs /\ cl[c] \in Client
             /\ cl[c].op \notin DeployOps \cup {"destroy", "promote"}
             /\ disk[d] \in Files /\ Sane(d)
             /\ Expects(cl[c].op, point, cl[c].cfg, cl[c].port, disk[d], srv[d])
             /\ cl[c].cfg # None => cl[c].cfg = disk[d].cfg
             /\ Knows(cl[c]) /\ cl[c].at = point
  <2>1. point \in Points
    BY DEF Points
  <2>2. cl[c].op \notin DeployOps \cup {"destroy", "promote"}
    BY <1>3, <2>1, Poised DEF OnTrack, DeployOps
  <2>. QED BY <1>3, <2>1, <2>2, Poised DEF Expects
\* The end of a start or a stop, whatever it did to the sandbox.
<1>4. ASSUME InFlight(c), cl[c].op \notin DeployOps \cup {"destroy", "promote"},
             Sound(d), cl[c].cfg # None => cl[c].cfg = disk'[d].cfg,
             StartDone(c) \/ StopDone(c)
      PROVE  LifeInv'
  <2>1. Return(c, "ok") \/ Go(c, "pub.create") \/ Go(c, "start.load")
    BY <1>4 DEF StartDone, StopDone
  <2>2. ASSUME NEW point \in {"pub.create", "start.load"}, Go(c, point)
        PROVE  LifeInv'
    <3>1. Expects(cl[c].op, point, cl[c].cfg, cl[c].port, disk'[d], srv'[d])
      BY <1>4, <2>2, Plain
    <3>. QED BY <1>1, <1>4, <2>2, <3>1, GoStays
  <2>3. CASE Return(c, "ok")
    BY <1>1, <1>2, <1>4, <2>3, ReturnStays
  <2>. QED BY <2>1, <2>2, <2>3
<1>5. ASSUME NEW point \in {"start.load", "start.run", "stop.load",
                            "stop.unlink", "stop.run"},
             At(c, point), UNCHANGED <<disk, srv, strays>>,
             StartDone(c) \/ StopDone(c) \/ Return(c, "fail")
      PROVE  LifeInv'
  <2>1. Sound(d) /\ disk'[d] = disk[d]
    BY <1>3, <1>5, UntouchedSound
  <2>2. CASE StartDone(c) \/ StopDone(c)
    BY <1>3, <1>4, <1>5, <2>1, <2>2
  <2>3. CASE Return(c, "fail")
    BY <1>1, <1>2, <1>3, <1>5, <2>3, UntouchedReturns
  <2>. QED BY <1>5, <2>2, <2>3
<1>6. CASE StartLoad(c)
  <2>1. At(c, "start.load") /\ UNCHANGED <<disk, srv, strays>>
    BY <1>6 DEF StartLoad, Quiet, host
  <2>2. CASE StartDone(c) \/ Return(c, "fail")
    BY <1>5, <2>1, <2>2
  <2>3. CASE disk[d].cfg # None /\ cl' = [cl EXCEPT ![c].port = disk[d].cfg.port,
                                                    ![c].at = "start.run"]
    <3> DEFINE k == [cl[c] EXCEPT !.port = disk[d].cfg.port, !.at = "start.run"]
    <3>1. /\ k.at = "start.run" /\ k.dir = d /\ k.op = cl[c].op
          /\ k.cfg = cl[c].cfg /\ k.port = disk[d].cfg.port
      BY <1>3, <2>1 DEF Client
    <3>2. cl' = [cl EXCEPT ![c] = k]
      BY <2>3
    <3> HIDE DEF k
    <3>3. Expects(cl[c].op, k.at, k.cfg, k.port, disk[d], srv[d])
      BY <1>3, <2>1, <2>3, <3>1 DEF Expects
    <3>. QED BY <1>1, <1>3, <2>1, <3>1, <3>2, <3>3, ReadsStays
  <2>. QED BY <1>6, <2>2, <2>3 DEF StartLoad
<1>7. CASE StartRun(c)
  <2>1. At(c, "start.run") /\ PgCtlStart(c, StartDone(c))
    BY <1>7 DEF StartRun
  <2>2. CASE UNCHANGED <<disk, srv, strays>> /\ Return(c, "fail")
    BY <1>5, <2>1, <2>2
  <2>3. CASE CanStart(d, cl[c].port) /\ ServerUp(d, cl[c].port)
             /\ (StartDone(c) \/ Return(c, "fail"))
    <3>1. disk[d].cfg # None /\ cl[c].port = disk[d].cfg.port
      BY <1>3, <2>1 DEF Expects
    <3>2. cl[c].port \in Ports
      BY <1>3, <2>1, <3>1, SentinelAssumption DEF Files, Sandbox
    <3>3. Sound(d) /\ disk'[d].cfg = disk[d].cfg
      BY <1>3, <2>1, <2>3, <3>1, <3>2, UpSound
    <3>4. CASE Return(c, "fail")
      BY <1>1, <1>2, <1>3, <2>1, <3>3, <3>4, ReturnStays
    <3>5. CASE StartDone(c)
      BY <1>3, <1>4, <2>1, <3>3, <3>5
    <3>. QED BY <2>3, <3>4, <3>5
  <2>. QED BY <2>1, <2>2, <2>3 DEF PgCtlStart, Quiet, host
<1>8. CASE StopLoad(c)
  <2>1. At(c, "stop.load") /\ UNCHANGED <<disk, srv, strays>>
    BY <1>8 DEF StopLoad, Quiet, host
  <2>2. CASE StopDone(c) \/ Return(c, "fail")
    BY <1>5, <2>1, <2>2
  <2>3. CASE Go(c, "stop.run")
    <3>1. Expects(cl[c].op, "stop.run", cl[c].cfg, cl[c].port, disk[d], srv[d])
      BY <1>3, <2>1, Plain
    <3>. QED BY <1>1, <1>3, <2>1, <2>3, <3>1, UntouchedGoes
  <2>4. CASE disk[d].pid = "dead" /\ Go(c, "stop.unlink")
    <3>1. Expects(cl[c].op, "stop.unlink", cl[c].cfg, cl[c].port, disk[d], srv[d])
      BY <1>3, <2>1, <2>4 DEF Expects
    <3>. QED BY <1>1, <1>3, <2>1, <2>4, <3>1, UntouchedGoes
  <2>. QED BY <1>8, <2>2, <2>3, <2>4 DEF StopLoad
<1>9. CASE StopUnlink(c)
  <2>1. /\ At(c, "stop.unlink") /\ UNCHANGED <<srv, strays>> /\ StopDone(c)
        /\ disk' = [disk EXCEPT ![d].pid = "none"]
    BY <1>9 DEF StopUnlink
  <2>2. disk[d].pid # "live"
    BY <1>3, <2>1 DEF Expects
  <2>3. Sound(d) /\ disk'[d].cfg = disk[d].cfg
    BY <1>3, <2>1, <2>2, PidSound
  <2>. QED BY <1>3, <1>4, <2>1, <2>3
<1>10. CASE StopRun(c)
  <2>1. At(c, "stop.run")
    BY <1>10 DEF StopRun
  <2>2. CASE UNCHANGED <<disk, srv, strays>> /\ Return(c, "fail")
    BY <1>5, <2>1, <2>2
  <2>3. CASE disk[d].pid = "live" /\ ServerDown(d, "none") /\ StopDone(c)
    <3>1. srv[d] # None
      BY <1>3, <2>1, <2>3 DEF Sane, Coherent
    <3>2. Sound(d) /\ disk'[d].cfg = disk[d].cfg
      BY <1>3, <2>1, <2>3, <3>1, DownSound
    <3>. QED BY <1>3, <1>4, <2>1, <2>3, <3>2
  <2>. QED BY <1>10, <2>2, <2>3 DEF StopRun, Quiet, host
<1>. QED BY <1>6, <1>7, <1>8, <1>9, <1>10 DEF LifecycleStep

\* A directory is emptied, or torn: no server outlives that unless the stop
\* before it may fail.
LEMMA RemoveSound ==
  ASSUME LifeInv, NEW d \in Dirs, NEW f \in Files, Removed(d, f),
         f.pid = "none", f.cfg # None => f.data = "torn"
  PROVE  Sound(d)
<1>1. disk \in [Dirs -> Files] /\ srv \in [Dirs -> Ports \cup {None}]
  BY DEF LifeInv, Inv, TypeOK, HostTypeOK
<1>2. disk'[d] = f /\ srv'[d] = None /\ Elsewhere(d)
  BY <1>1 DEF Removed, Elsewhere
<1>3. Coherent(disk'[d], srv'[d])
  BY <1>2 DEF Sane, Coherent
<1>. QED BY <1>2, <1>3 DEF Sound

\* From the removal of a slot destroy goes on to the removal of the directory,
\* promote to the save of the config.
LEMMA SlotExpects ==
  ASSUME NEW op \in {"destroy", "promote"}, NEW cfg, NEW port, NEW f, NEW s,
         NEW at \in {"slot.load", "slot.drop"}, Expects(op, at, cfg, port, f, s)
  PROVE  /\ Expects(op, "slot.drop", cfg, port, f, s)
         /\ op = "destroy" => Expects(op, "destroy.rm", cfg, port, f, s)
         /\ op = "promote" => Expects(op, "promote.save", cfg, port, f, s)
BY DEF Expects, DeployOps

LEMMA DestroyStepLife ==
  ASSUME LifeInv, NEW c \in Clients, DestroyStep(c)
  PROVE  LifeInv'
<1> DEFINE d == cl[c].dir
<1>1. Inv' /\ Inv /\ disk \in [Dirs -> Files]
  BY DestroyStepInv DEF LifeInv, Inv, TypeOK, HostTypeOK
<1>2. "ok" \in Ends /\ "fail" \in Ends
  BY DEF Ends
<1>3. ASSUME NEW point \in {"destroy.load", "destroy.sub", "destroy.stop",
                            "destroy.rm", "slot.load", "slot.drop"},
             At(c, point)
      PROVE  /\ InFlight(c) /\ d \in Dirs /\ cl[c] \in Client
             /\ cl[c].op \in {"destroy", "promote"}
             /\ point \notin {"slot.load", "slot.drop"} => cl[c].op = "destroy"
             /\ disk[d] \in Files /\ Sane(d)
             /\ Expects(cl[c].op, point, cl[c].cfg, cl[c].port, disk[d], srv[d])
             /\ cl[c].cfg # None => cl[c].cfg = disk[d].cfg
             /\ Knows(cl[c]) /\ cl[c].at = point
  <2>1. point \in Points
    BY DEF Points
  <2>2. cl[c].op \in {"destroy", "promote"}
        /\ (point \notin {"slot.load", "slot.drop"} => cl[c].op = "destroy")
    BY <1>3, <2>1, Poised DEF OnTrack
  <2>. QED BY <1>3, <2>1, <2>2, Poised DEF Expects
\* Before the stop destroy takes for granted only the config it has read.
<1>4. ASSUME NEW at \in {"destroy.sub", "destroy.stop"},
             NEW cfg, NEW port, NEW f, NEW s, cfg # None => cfg = f.cfg
      PROVE  Expects("destroy", at, cfg, port, f, s)
  BY <1>4 DEF Expects, DeployOps
<1>5. CASE DestroyLoad(c)
  <2>1. At(c, "destroy.load") /\ UNCHANGED <<disk, srv, strays>>
    BY <1>5 DEF DestroyLoad, Quiet, host
  <2>2. CASE Return(c, "fail")
    BY <1>1, <1>2, <1>3, <2>1, <2>2, UntouchedReturns
  <2>3. ASSUME NEW at \in {"destroy.sub", "destroy.stop"},
               cl' = [cl EXCEPT ![c].cfg = disk[d].cfg, ![c].at = at]
        PROVE  LifeInv'
    <3> DEFINE k == [cl[c] EXCEPT !.cfg = disk[d].cfg, !.at = at]
    <3>1. k.at = at /\ k.dir = d /\ k.op = cl[c].op /\ k.cfg = disk[d].cfg
      BY <1>3, <2>1 DEF Client
    <3>2. cl' = [cl EXCEPT ![c] = k]
      BY <2>3
    <3> HIDE DEF k
    <3>3. Expects(cl[c].op, k.at, k.cfg, k.port, disk[d], srv[d])
      BY <1>3, <1>4, <2>1, <3>1
    <3>. QED BY <1>1, <1>3, <2>1, <3>1, <3>2, <3>3, ReadsStays
  <2>4. \/ Return(c, "fail")
        \/ \E at \in {"destroy.sub", "destroy.stop"} :
             cl' = [cl EXCEPT ![c].cfg = disk[d].cfg, ![c].at = at]
    BY <1>5 DEF DestroyLoad
  <2>. QED BY <2>2, <2>3, <2>4
<1>6. CASE DropSubscription(c)
  <2>1. /\ At(c, "destroy.sub") /\ Go(c, "destroy.stop")
        /\ UNCHANGED <<disk, srv, strays>>
    BY <1>6 DEF DropSubscription, Quiet, host
  <2>2. Expects(cl[c].op, "destroy.stop", cl[c].cfg, cl[c].port, disk[d], srv[d])
    BY <1>3, <1>4, <2>1
  <2>. QED BY <1>1, <1>3, <2>1, <2>2, UntouchedGoes
<1>7. CASE DestroyStop(c)
  <2>1. /\ At(c, "destroy.stop")
        /\ \/ disk[d].pid = "live" /\ ServerDown(d, "none")
           \/ UNCHANGED <<disk, srv, strays>>
    BY <1>7 DEF DestroyStop, Quiet, host
  <2>2. PICK point \in {"slot.load", "destroy.rm"} : Go(c, point)
    BY <1>7 DEF DestroyStop
  <2>3. Sound(d) /\ disk'[d].cfg = disk[d].cfg
    <3>1. CASE disk[d].pid = "live" /\ ServerDown(d, "none")
      <4>1. srv[d] # None
        BY <1>3, <2>1, <3>1 DEF Sane, Coherent
      <4>. QED BY <1>3, <2>1, <3>1, <4>1, DownSound
    <3>2. CASE UNCHANGED <<disk, srv, strays>>
      BY <1>3, <2>1, <3>2, UntouchedSound
    <3>. QED BY <2>1, <3>1, <3>2
  <2>4. cl[c].cfg # None => cl[c].cfg = disk'[d].cfg
    BY <1>3, <2>1, <2>3
  <2>5. Expects("destroy", point, cl[c].cfg, cl[c].port, disk'[d], srv'[d])
    BY <2>3, <2>4 DEF Expects, DeployOps
  <2>. QED BY <1>1, <1>3, <2>1, <2>2, <2>3, <2>5, GoStays
<1>8. ASSUME NEW point \in {"slot.load", "slot.drop"}, At(c, point),
             UNCHANGED <<disk, srv, strays>>, SlotDone(c)
      PROVE  LifeInv'
  <2>1. \/ cl[c].op = "destroy" /\ Go(c, "destroy.rm")
        \/ cl[c].op = "promote" /\ Go(c, "promote.save")
    BY <1>3, <1>8 DEF SlotDone
  <2>2. cl[c].op = "destroy" =>
          Expects(cl[c].op, "destroy.rm", cl[c].cfg, cl[c].port, disk[d], srv[d])
    BY <1>3, <1>8, SlotExpects
  <2>3. cl[c].op = "promote" =>
          Expects(cl[c].op, "promote.save", cl[c].cfg, cl[c].port, disk[d], srv[d])
    BY <1>3, <1>8, SlotExpects
  <2>. QED BY <1>1, <1>3, <1>8, <2>1, <2>2, <2>3, UntouchedGoes
<1>9. CASE SlotLoad(c)
  <2> DEFINE src == cl[c].cfg.physical.src
  <2>1. At(c, "slot.load") /\ UNCHANGED <<disk, srv, strays>>
    BY <1>9 DEF SlotLoad, Quiet, host
  <2>2. CASE SlotDone(c)
    BY <1>8, <2>1, <2>2
  <2>3. CASE cl' = [cl EXCEPT ![c].peer = disk[src].cfg.port,
                              ![c].at = "slot.drop"]
    <3> DEFINE k == [cl[c] EXCEPT !.peer = disk[src].cfg.port, !.at = "slot.drop"]
    <3>1. /\ k.at = "slot.drop" /\ k.dir = d /\ k.op = cl[c].op
          /\ k.cfg = cl[c].cfg /\ k.port = cl[c].port
      BY <1>3, <2>1 DEF Client
    <3>2. cl' = [cl EXCEPT ![c] = k]
      BY <2>3
    <3> HIDE DEF k
    <3>3. Expects(cl[c].op, k.at, k.cfg, k.port, disk[d], srv[d])
      BY <1>3, <2>1, <3>1, SlotExpects
    <3>. QED BY <1>1, <1>3, <2>1, <3>1, <3>2, <3>3, ReadsStays
  <2>. QED BY <1>9, <2>2, <2>3 DEF SlotLoad
<1>10. CASE SlotDrop(c)
  <2>1. At(c, "slot.drop") /\ SlotDone(c) /\ UNCHANGED <<disk, srv, strays>>
    BY <1>10 DEF SlotDrop, Quiet, host
  <2>. QED BY <1>8, <2>1
<1>11. CASE DestroyRemove(c)
  <2>1. At(c, "destroy.rm")
    BY <1>11 DEF DestroyRemove
  <2>3. PICK f \in Files :
          /\ Removed(d, f) /\ f.pid = "none" /\ (f.cfg # None => f.data = "torn")
          /\ Return(c, "ok") \/ Return(c, "fail")
    <3>1. CASE Removed(d, NoFiles) /\ Return(c, "ok")
      <4>1. NoFiles \in Files /\ NoFiles.pid = "none" /\ NoFiles.cfg = None
        BY DEF NoFiles, Files, DataStates, PidStates
      <4>. QED BY <3>1, <4>1
    <3>2. ASSUME NEW cfg \in {disk[d].cfg, None},
                 Removed(d, [made |-> TRUE, data |-> "torn", pid |-> "none",
                             cfg |-> cfg]),
                 Return(c, "fail")
          PROVE  \E f \in Files :
                   /\ Removed(d, f) /\ f.pid = "none"
                   /\ (f.cfg # None => f.data = "torn")
                   /\ Return(c, "ok") \/ Return(c, "fail")
      <4> DEFINE f == [made |-> TRUE, data |-> "torn", pid |-> "none", cfg |-> cfg]
      <4>1. f \in Files /\ f.pid = "none" /\ f.data = "torn"
        BY <1>3, <2>1 DEF Files, DataStates, PidStates
      <4> HIDE DEF f
      <4>2. Removed(d, f)
        BY <3>2 DEF f
      <4>. QED BY <3>2, <4>1, <4>2
    <3>. QED BY <1>11, <3>1, <3>2 DEF DestroyRemove
  <2>4. Sound(d)
    BY <1>3, <2>1, <2>3, RemoveSound
  <2>. QED BY <1>1, <1>2, <1>3, <2>1, <2>3, <2>4, ReturnStays
<1>. QED BY <1>5, <1>6, <1>7, <1>9, <1>10, <1>11 DEF DestroyStep

\* The last step of a command that saves the config it read: nobody has written
\* the file since.
LEMMA FinalSaveLife ==
  ASSUME LifeInv, Inv', NEW c \in Clients, InFlight(c), cl[c].dir \in Dirs,
         NEW cfg,
         disk[cl[c].dir].cfg # None,
         "set" \notin Ops => cfg.port = disk[cl[c].dir].cfg.port,
         \/ UNCHANGED <<disk, srv, strays>> /\ Return(c, "fail")
         \/ /\ disk' = [disk EXCEPT ![cl[c].dir].cfg = cfg]
            /\ UNCHANGED <<srv, strays>> /\ Return(c, "ok")
  PROVE  LifeInv'
<1> DEFINE d == cl[c].dir
<1>1. "ok" \in Ends /\ "fail" \in Ends
  BY DEF Ends
<1>2. CASE UNCHANGED <<disk, srv, strays>> /\ Return(c, "fail")
  BY <1>1, <1>2, UntouchedReturns
<1>3. CASE /\ disk' = [disk EXCEPT ![d].cfg = cfg]
           /\ UNCHANGED <<srv, strays>> /\ Return(c, "ok")
  <2>1. /\ disk[d].data \in Complete \cup {"torn"}
        /\ "set" \notin Ops /\ srv[d] # None => srv[d] = cfg.port
    BY DEF LifeInv, Sane, Coherent
  <2>2. Sound(d)
    BY <1>3, <2>1, SaveSound
  <2>. QED BY <1>1, <1>3, <2>2, ReturnStays
<1>. QED BY <1>2, <1>3

LEMMA PromoteStepLife ==
  ASSUME LifeInv, NEW c \in Clients, PromoteStep(c)
  PROVE  LifeInv'
<1> DEFINE d == cl[c].dir
<1>1. Inv' /\ Inv /\ disk \in [Dirs -> Files]
  BY PromoteStepInv DEF LifeInv, Inv, TypeOK, HostTypeOK
<1>2. "ok" \in Ends /\ "fail" \in Ends
  BY DEF Ends
<1>3. ASSUME NEW point \in {"promote.load", "promote.run", "promote.wait",
                            "promote.save"},
             At(c, point)
      PROVE  /\ InFlight(c) /\ d \in Dirs /\ cl[c] \in Client
             /\ cl[c].op = "promote" /\ disk[d] \in Files /\ Sane(d)
             /\ srv[d] \in Ports \cup {None}
             /\ Expects(cl[c].op, point, cl[c].cfg, cl[c].port, disk[d], srv[d])
             /\ cl[c].cfg # None => cl[c].cfg = disk[d].cfg
             /\ Knows(cl[c]) /\ cl[c].at = point
  <2>1. point \in Points
    BY DEF Points
  <2>2. cl[c].op = "promote"
    BY <1>3, <2>1, Poised DEF OnTrack
  <2>. QED BY <1>3, <2>1, <2>2, Poised DEF Expects
\* After the first step promote has read the config of a standby, and nobody
\* writes it meanwhile.
<1>4. ASSUME NEW point \in {"promote.run", "promote.wait", "promote.save"},
             At(c, point)
      PROVE  cl[c].cfg # None /\ cl[c].cfg = disk[d].cfg /\ disk[d].cfg # None
             /\ disk[d].cfg.role = "standby"
  BY <1>3, <1>4 DEF Expects, Knows
<1>5. CASE PromoteLoad(c)
  <2> DEFINE cfg == disk[d].cfg
  <2>1. At(c, "promote.load") /\ UNCHANGED <<disk, srv, strays>>
    BY <1>5 DEF PromoteLoad, Quiet, host
  <2>2. CASE Return(c, "fail")
    BY <1>1, <1>2, <1>3, <2>1, <2>2, UntouchedReturns
  <2>3. CASE cfg # None /\ cfg.role = "standby"
             /\ cl' = [cl EXCEPT ![c].cfg = cfg, ![c].at = "promote.run"]
    <3> DEFINE k == [cl[c] EXCEPT !.cfg = cfg, !.at = "promote.run"]
    <3>1. k.at = "promote.run" /\ k.dir = d /\ k.op = cl[c].op /\ k.cfg = cfg
      BY <1>3, <2>1 DEF Client
    <3>2. cl' = [cl EXCEPT ![c] = k]
      BY <2>3
    <3> HIDE DEF k
    <3>3. Expects(cl[c].op, k.at, k.cfg, k.port, disk[d], srv[d])
      BY <1>3, <2>1, <2>3, <3>1 DEF Expects, DeployOps
    <3>. QED BY <1>1, <1>3, <2>1, <3>1, <3>2, <3>3, ReadsStays
  <2>. QED BY <1>5, <2>2, <2>3 DEF PromoteLoad
<1>6. CASE PromoteRun(c)
  <2> DEFINE f == [disk[d] EXCEPT !.data = "promoting"]
  <2>1. At(c, "promote.run")
    BY <1>6 DEF PromoteRun
  <2>2. CASE UNCHANGED <<disk, srv, strays>> /\ Return(c, "fail")
    BY <1>1, <1>2, <1>3, <2>1, <2>2, UntouchedReturns
  <2>3. CASE /\ disk[d].data = "standby" /\ disk[d].pid = "live"
             /\ disk' = [disk EXCEPT ![d] = f] /\ UNCHANGED <<srv, strays>>
             /\ Go(c, "promote.wait") \/ Return(c, "fail")
    <3>1. /\ f \in Files /\ f.data = "promoting" /\ f.data \in Complete
          /\ f.pid = disk[d].pid /\ f.cfg = disk[d].cfg
      BY <1>3, <2>1 DEF Files, DataStates, Complete
    <3> HIDE DEF f
    <3>2. Sound(d) /\ srv'[d] = srv[d] /\ disk'[d] = f
      BY <1>3, <2>1, <2>3, <3>1, DataSound
    <3>3. CASE Return(c, "fail")
      BY <1>1, <1>2, <1>3, <2>1, <3>2, <3>3, ReturnStays
    <3>4. CASE Go(c, "promote.wait")
      <4>1. srv'[d] # None
        BY <1>3, <2>1, <2>3, <3>2 DEF Sane, Coherent
      <4>2. Expects(cl[c].op, "promote.wait", cl[c].cfg, cl[c].port,
                    disk'[d], srv'[d])
        BY <1>3, <1>4, <2>1, <3>1, <3>2, <4>1 DEF Expects, DeployOps
      <4>. QED BY <1>1, <1>3, <2>1, <3>2, <3>4, <4>2, GoStays
    <3>. QED BY <2>3, <3>3, <3>4
  <2>. QED BY <1>6, <2>2, <2>3 DEF PromoteRun, Quiet, host
<1>7. CASE PromoteWait(c)
  <2>1. At(c, "promote.wait") /\ UNCHANGED <<disk, srv, strays>>
    BY <1>7 DEF PromoteWait, Quiet, host
  <2>2. CASE Return(c, "fail")
    BY <1>1, <1>2, <1>3, <2>1, <2>2, UntouchedReturns
  <2>3. ASSUME NEW r \in Serving(cl[c].cfg.port), disk[r].data = "primary",
               NEW point \in {"slot.load", "promote.save"}, Go(c, point)
        PROVE  LifeInv'
    \* The server that says it has left recovery is this sandbox's own, unless
    \* that has gone down.
    <3>1. ASSUME srv[d] # None, "set" \notin Ops
          PROVE  disk[d].data = "primary"
      <4>1. srv[d] # None
        BY <3>1
      <4>2. srv[d] = disk[d].cfg.port /\ cl[c].cfg = disk[d].cfg
        BY <1>3, <1>4, <2>1, <3>1, <4>1 DEF Sane, Coherent
      <4>3. r \in Dirs /\ srv[r] = cl[c].cfg.port
        BY <2>3 DEF Serving
      <4>4. d \in Dirs /\ srv[d] = srv[r]
        BY <1>3, <2>1, <4>2, <4>3
      <4>5. r = d
        BY <4>1, <4>3, <4>4 DEF LifeInv, OnePerPort
      <4>. QED BY <2>3, <4>5
    <3>2. disk[d].data \in Complete /\ ("server" \notin Faults => srv[d] # None)
      BY <1>3, <2>1 DEF Expects
    <3>3. Expects(cl[c].op, point, cl[c].cfg, cl[c].port, disk[d], srv[d])
      BY <1>3, <1>4, <2>1, <3>1, <3>2 DEF Expects, DeployOps
    <3>. QED BY <1>1, <1>3, <2>1, <2>3, <3>3, UntouchedGoes
  <2>4. \/ Return(c, "fail")
        \/ \E r \in Serving(cl[c].cfg.port), point \in {"slot.load", "promote.save"} :
             disk[r].data = "primary" /\ Go(c, point)
    BY <1>7 DEF PromoteWait
  <2>. QED BY <2>2, <2>3, <2>4
<1>8. CASE PromoteSave(c)
  <2> DEFINE cfg == [cl[c].cfg EXCEPT !.role = "primary", !.physical = None]
  <2>1. At(c, "promote.save")
    BY <1>8 DEF PromoteSave
  <2>2. \/ UNCHANGED <<disk, srv, strays>> /\ Return(c, "fail")
        \/ /\ disk' = [disk EXCEPT ![d].cfg = cfg] /\ UNCHANGED <<srv, strays>>
           /\ Return(c, "ok")
    BY <1>8 DEF PromoteSave, Save, Quiet, host
  <2>3. cfg.port = disk[d].cfg.port
    BY <1>3, <1>4, <2>1 DEF Files, Sandbox
  <2> HIDE DEF cfg
  <2>. QED BY <1>1, <1>3, <1>4, <2>1, <2>2, <2>3, FinalSaveLife
<1>. QED BY <1>5, <1>6, <1>7, <1>8 DEF PromoteStep

\* publish, subscribe and the second half of a subscriber's deploy take for
\* granted only the config they have read.
LEMMA LogicalStepLife ==
  ASSUME LifeInv, NEW c \in Clients, LogicalStep(c)
  PROVE  LifeInv'
<1> DEFINE d == cl[c].dir
<1>1. Inv' /\ Inv /\ disk \in [Dirs -> Files]
  BY LogicalStepInv DEF LifeInv, Inv, TypeOK, HostTypeOK
<1>2. "ok" \in Ends /\ "fail" \in Ends
  BY DEF Ends
<1>3. ASSUME NEW point \in {"pub.load", "pub.show", "pub.alter", "pub.create",
                            "sub.load", "sub.create", "sub.save"},
             At(c, point)
      PROVE  /\ InFlight(c) /\ d \in Dirs /\ cl[c] \in Client
             /\ cl[c].op \notin {"destroy", "promote"}
             /\ cl[c].op \in DeployOps =>
                  point \in {"sub.load", "sub.create", "sub.save"}
             /\ disk[d] \in Files /\ Knows(cl[c]) /\ cl[c].at = point
             /\ cl[c].cfg # None => cl[c].cfg = disk[d].cfg
  <2>1. point \in Points
    BY DEF Points
  <2>2. cl[c].op \notin {"destroy", "promote"}
        /\ (cl[c].op \in DeployOps =>
              point \in {"sub.load", "sub.create", "sub.save"})
    BY <1>3, <2>1, Poised DEF OnTrack, DeployOps
  <2>. QED BY <1>3, <2>1, <2>2, Poised DEF Expects
<1>4. ASSUME NEW at \in {"pub.show", "pub.alter", "pub.create", "stop.load",
                         "sub.create", "sub.save"},
             cl[c].op \notin {"destroy", "promote"},
             cl[c].op \in DeployOps => at \in {"sub.create", "sub.save"},
             NEW cfg, NEW port, cfg # None => cfg = disk[d].cfg
      PROVE  Expects(cl[c].op, at, cfg, port, disk[d], srv[d])
  BY <1>4 DEF Expects
<1>5. ASSUME NEW point \in {"pub.load", "pub.show", "pub.alter", "pub.create",
                            "sub.load", "sub.create", "sub.save"},
             At(c, point), UNCHANGED <<disk, srv, strays>>,
             NEW outcome \in Ends, Return(c, outcome)
      PROVE  LifeInv'
  BY <1>1, <1>3, <1>5, UntouchedReturns
<1>6. ASSUME NEW point \in {"pub.show", "pub.alter"}, At(c, point),
             UNCHANGED <<disk, srv, strays>>,
             NEW at \in {"pub.alter", "pub.create", "stop.load"}, Go(c, at)
      PROVE  LifeInv'
  <2>1. Expects(cl[c].op, at, cl[c].cfg, cl[c].port, disk[d], srv[d])
    BY <1>3, <1>4, <1>6
  <2>. QED BY <1>1, <1>3, <1>6, <2>1, UntouchedGoes
<1>7. CASE PublishLoad(c)
  <2>1. At(c, "pub.load") /\ UNCHANGED <<disk, srv, strays>>
    BY <1>7 DEF PublishLoad, Quiet, host
  <2>2. CASE Return(c, "fail")
    BY <1>2, <1>5, <2>1, <2>2
  <2>3. CASE cl' = [cl EXCEPT ![c].cfg = disk[d].cfg, ![c].at = "pub.show"]
    <3> DEFINE k == [cl[c] EXCEPT !.cfg = disk[d].cfg, !.at = "pub.show"]
    <3>1. k.at = "pub.show" /\ k.dir = d /\ k.op = cl[c].op /\ k.cfg = disk[d].cfg
      BY <1>3, <2>1 DEF Client
    <3>2. cl' = [cl EXCEPT ![c] = k]
      BY <2>3
    <3> HIDE DEF k
    <3>3. Expects(cl[c].op, k.at, k.cfg, k.port, disk[d], srv[d])
      BY <1>3, <1>4, <2>1, <3>1
    <3>. QED BY <1>1, <1>3, <2>1, <3>1, <3>2, <3>3, ReadsStays
  <2>. QED BY <1>7, <2>2, <2>3 DEF PublishLoad
<1>8. CASE ShowWalLevel(c)
  <2>1. /\ At(c, "pub.show") /\ UNCHANGED <<disk, srv, strays>>
        /\ \/ Go(c, "pub.create") \/ Go(c, "pub.alter") \/ Go(c, "stop.load")
           \/ Return(c, "fail")
    BY <1>8 DEF ShowWalLevel, Quiet, host
  <2>. QED BY <1>2, <1>5, <1>6, <2>1
<1>9. CASE AlterSystem(c)
  <2>1. /\ At(c, "pub.alter") /\ UNCHANGED <<disk, srv, strays>>
        /\ Go(c, "stop.load") \/ Return(c, "fail")
    BY <1>9 DEF AlterSystem, Quiet, host
  <2>. QED BY <1>2, <1>5, <1>6, <2>1
<1>10. CASE CreatePublication(c)
  <2>1. /\ At(c, "pub.create") /\ UNCHANGED <<disk, srv, strays>>
        /\ Return(c, "ok") \/ Return(c, "fail")
    BY <1>10 DEF CreatePublication, Quiet, host
  <2>. QED BY <1>2, <1>5, <2>1
<1>11. CASE SubscribeLoad(c)
  <2>1. At(c, "sub.load") /\ UNCHANGED <<disk, srv, strays>>
    BY <1>11 DEF SubscribeLoad, Quiet, host
  <2>2. CASE Return(c, "fail")
    BY <1>2, <1>5, <2>1, <2>2
  <2> DEFINE peer == disk[cl[c].src].cfg.port
  <2>3. CASE cl' = [cl EXCEPT ![c].cfg = disk[d].cfg, ![c].peer = peer,
                              ![c].at = "sub.create"]
    <3> DEFINE k == [cl[c] EXCEPT !.cfg = disk[d].cfg, !.peer = peer,
                                  !.at = "sub.create"]
    <3>1. k.at = "sub.create" /\ k.dir = d /\ k.op = cl[c].op /\ k.cfg = disk[d].cfg
      BY <1>3, <2>1 DEF Client
    <3>2. cl' = [cl EXCEPT ![c] = k]
      BY <2>3
    <3> HIDE DEF k
    <3>3. Expects(cl[c].op, k.at, k.cfg, k.port, disk[d], srv[d])
      BY <1>3, <1>4, <2>1, <3>1
    <3>. QED BY <1>1, <1>3, <2>1, <3>1, <3>2, <3>3, ReadsStays
  <2>. QED BY <1>11, <2>2, <2>3 DEF SubscribeLoad
<1>12. CASE CreateSubscription(c)
  <2>1. /\ At(c, "sub.create") /\ UNCHANGED <<disk, srv, strays>>
        /\ Go(c, "sub.save") \/ Return(c, "fail")
    BY <1>12 DEF CreateSubscription, Quiet, host
  <2>2. CASE Go(c, "sub.save")
    <3>1. Expects(cl[c].op, "sub.save", cl[c].cfg, cl[c].port, disk[d], srv[d])
      BY <1>3, <1>4, <2>1
    <3>. QED BY <1>1, <1>3, <2>1, <2>2, <3>1, UntouchedGoes
  <2>. QED BY <1>2, <1>5, <2>1, <2>2
<1>13. CASE SubscribeSave(c)
  <2> DEFINE cfg == [cl[c].cfg EXCEPT !.role = "subscriber",
                       !.logical = [src |-> cl[c].src, sub |-> cl[c].name]]
  <2>1. At(c, "sub.save")
    BY <1>13 DEF SubscribeSave
  <2>2. \/ UNCHANGED <<disk, srv, strays>> /\ Return(c, "fail")
        \/ /\ disk' = [disk EXCEPT ![d].cfg = cfg] /\ UNCHANGED <<srv, strays>>
           /\ Return(c, "ok")
    BY <1>13 DEF SubscribeSave, Save, Quiet, host
  <2>3. disk[d].cfg # None /\ cl[c].cfg = disk[d].cfg
    BY <1>3, <2>1 DEF Knows
  <2>4. cfg.port = disk[d].cfg.port
    BY <1>3, <2>1, <2>3 DEF Files, Sandbox
  <2> HIDE DEF cfg
  <2>. QED BY <1>1, <1>3, <2>1, <2>2, <2>3, <2>4, FinalSaveLife
<1>. QED BY <1>7, <1>8, <1>9, <1>10, <1>11, <1>12, <1>13 DEF LogicalStep

LEMMA SetStepLife ==
  ASSUME LifeInv, NEW c \in Clients, cl[c].op = "set" => "set" \in Ops, SetStep(c)
  PROVE  LifeInv'
<1> DEFINE d == cl[c].dir
<1>1. Inv' /\ Inv /\ disk \in [Dirs -> Files]
  BY SetLoadInv, SetSaveInv DEF SetStep, LifeInv, Inv, TypeOK, HostTypeOK
<1>2. ASSUME NEW point \in {"set.load", "set.save"}, At(c, point)
      PROVE  /\ InFlight(c) /\ d \in Dirs /\ cl[c] \in Client
             /\ cl[c].op = "set" /\ "set" \in Ops
             /\ disk[d] \in Files /\ Knows(cl[c]) /\ cl[c].at = point
             /\ cl[c].cfg # None => cl[c].cfg = disk[d].cfg
  <2>1. point \in Points
    BY DEF Points
  <2>2. cl[c].op = "set"
    BY <1>2, <2>1, Poised DEF OnTrack
  <2>3. "set" \in Ops
    BY <2>2
  <2>. QED BY <1>2, <2>1, <2>2, <2>3, Poised DEF Expects
<1>3. CASE SetLoad(c)
  <2>1. At(c, "set.load") /\ UNCHANGED <<disk, srv, strays>>
    BY <1>3 DEF SetLoad, Quiet, host
  <2>2. CASE Return(c, "fail")
    BY <1>1, <1>2, <2>1, <2>2, UntouchedReturns DEF Ends
  <2>3. CASE cl' = [cl EXCEPT ![c].cfg = disk[d].cfg, ![c].at = "set.save"]
    <3> DEFINE k == [cl[c] EXCEPT !.cfg = disk[d].cfg, !.at = "set.save"]
    <3>1. k.at = "set.save" /\ k.dir = d /\ k.op = cl[c].op /\ k.cfg = disk[d].cfg
      BY <1>2, <2>1 DEF Client
    <3>2. cl' = [cl EXCEPT ![c] = k]
      BY <2>3
    <3> HIDE DEF k
    <3>3. cl[c].op \notin DeployOps \cup {"destroy", "promote"}
      BY <1>2, <2>1 DEF DeployOps
    <3>4. Expects(cl[c].op, k.at, k.cfg, k.port, disk[d], srv[d])
      BY <3>1, <3>3, Plain
    <3>. QED BY <1>1, <1>2, <2>1, <3>1, <3>2, <3>4, ReadsStays
  <2>. QED BY <1>3, <2>2, <2>3 DEF SetLoad
<1>4. CASE SetSave(c)
  <2> DEFINE cfg == [cl[c].cfg EXCEPT !.port = cl[c].port]
  <2>1. At(c, "set.save")
    BY <1>4 DEF SetSave
  <2>2. \/ UNCHANGED <<disk, srv, strays>> /\ Return(c, "fail")
        \/ /\ disk' = [disk EXCEPT ![d].cfg = cfg] /\ UNCHANGED <<srv, strays>>
           /\ Return(c, "ok")
    BY <1>4 DEF SetSave, Save, Quiet, host
  <2>3. disk[d].cfg # None
    BY <1>2, <2>1 DEF Knows
  <2> HIDE DEF cfg
  <2>. QED BY <1>1, <1>2, <2>1, <2>2, <2>3, FinalSaveLife
<1>. QED BY <1>3, <1>4 DEF SetStep

LEMMA ClientStepLife ==
  ASSUME LifeInv, NEW c \in Clients, cl[c].op = "set" => "set" \in Ops, ClientStep(c)
  PROVE  LifeInv'
BY DeployStepLife, LifecycleStepLife, DestroyStepLife, PromoteStepLife,
   LogicalStepLife, SetStepLife DEF ClientStep

-----------------------------------------------------------------------------
\* What happens to commands and sandboxes from outside

LEMMA KillClientLife ==
  ASSUME LifeInv, NEW c \in Clients, KillClient(c)
  PROVE  LifeInv'
<1>1. Inv' /\ InFlight(c) /\ cl[c].dir \in Dirs /\ "fail" \in Ends
  BY KillClientInv DEF LifeInv, Inv, CallsWellFormed, KillClient, Ends
<1>2. UNCHANGED <<disk, srv, strays>> /\ Return(c, "fail")
  BY DEF KillClient, Quiet, host
<1>. QED BY <1>1, <1>2, UntouchedReturns

\* No command moves; one that works on the sandbox still finds it as it takes
\* it to be.
LEMMA OutsideStays ==
  ASSUME LifeInv, Inv', NEW d \in Dirs, Sound(d), UNCHANGED cl,
         ASSUME NEW c \in Clients, InFlight(c), cl[c].dir = d,
                Expects(cl[c].op, cl[c].at, cl[c].cfg, cl[c].port, disk[d], srv[d])
         PROVE  Expects(cl[c].op, cl[c].at, cl[c].cfg, cl[c].port, disk'[d], srv'[d])
  PROVE  LifeInv'
<1>1. ASSUME NEW c \in Clients, InFlight(c)' PROVE Holds(c)'
  <2>1. InFlight(c) /\ cl'[c] = cl[c] /\ cl[c].dir \in Dirs /\ Holds(c)
    BY <1>1 DEF InFlight, LifeInv, Inv, CallsWellFormed
  <2>2. CASE cl[c].dir = d
    BY <2>1, <2>2 DEF Holds
  <2>3. CASE cl[c].dir # d
    <3>1. disk'[cl[c].dir] = disk[cl[c].dir] /\ srv'[cl[c].dir] = srv[cl[c].dir]
      BY <2>1, <2>3 DEF Sound, Elsewhere
    <3>. QED BY <2>1, <3>1 DEF Holds
  <2>. QED BY <2>2, <2>3
<1>2. Apart'
  BY DEF LifeInv, Apart, InFlight
<1>3. OnePerPort' /\ \A e \in Dirs : Sane(e)'
  BY Ports1
<1>. QED BY <1>1, <1>2, <1>3 DEF LifeInv, Sound

LEMMA MachineLife ==
  ASSUME LifeInv, Machine
  PROVE  LifeInv'
<1>1. Inv'
  BY EnvironmentInv DEF LifeInv, Environment
<1>2. ASSUME NEW d \in Dirs, FinishPromotion(d), UNCHANGED cl
      PROVE  LifeInv'
  <2> DEFINE f == [disk[d] EXCEPT !.data = "primary"]
  <2>1. disk \in [Dirs -> Files]
    BY DEF LifeInv, Inv, TypeOK, HostTypeOK
  <2>2. /\ f \in Files /\ f.data = "primary" /\ f.data \in Complete
        /\ f.pid = disk[d].pid /\ f.cfg = disk[d].cfg
    BY <2>1 DEF Files, DataStates, Complete
  <2>3. /\ disk[d].data = "promoting" /\ disk' = [disk EXCEPT ![d] = f]
        /\ UNCHANGED <<srv, strays>>
    BY <1>2 DEF FinishPromotion
  <2> HIDE DEF f
  <2>4. Sound(d) /\ srv'[d] = srv[d] /\ disk'[d] = f
    BY <2>2, <2>3, DataSound
  <2>5. ASSUME NEW c \in Clients, InFlight(c), cl[c].dir = d,
               Expects(cl[c].op, cl[c].at, cl[c].cfg, cl[c].port, disk[d], srv[d])
        PROVE  Expects(cl[c].op, cl[c].at, cl[c].cfg, cl[c].port, disk'[d], srv'[d])
    BY <2>2, <2>3, <2>4, <2>5 DEF Expects, Complete
  <2>. QED BY <1>1, <1>2, <2>4, <2>5, OutsideStays
<1>3. ASSUME NEW d \in Dirs, "server" \in Faults, KillServer(d), UNCHANGED cl
      PROVE  LifeInv'
  <2>1. srv[d] # None /\ disk[d].pid = "live" /\ ServerDown(d, "dead")
    BY <1>3 DEF KillServer, LifeInv, Sane, Coherent
  <2>2. /\ Sound(d) /\ srv'[d] = None /\ disk'[d].data = Settled(disk[d].data)
        /\ disk'[d].cfg = disk[d].cfg /\ disk'[d].pid = "dead"
    BY <2>1, DownSound
  <2>3. ASSUME NEW c \in Clients, InFlight(c), cl[c].dir = d,
               Expects(cl[c].op, cl[c].at, cl[c].cfg, cl[c].port, disk[d], srv[d])
        PROVE  Expects(cl[c].op, cl[c].at, cl[c].cfg, cl[c].port, disk'[d], srv'[d])
    BY <1>3, <2>1, <2>2, <2>3 DEF Expects, Settled, Complete
  <2>. QED BY <1>1, <1>3, <2>2, <2>3, OutsideStays
<1>4. ASSUME NEW d \in Dirs, "pid" \in Faults, ReusePid(d), UNCHANGED cl
      PROVE  LifeInv'
  <2>1. /\ disk[d].pid = "dead" /\ disk' = [disk EXCEPT ![d].pid = "reused"]
        /\ UNCHANGED <<srv, strays>>
    BY <1>4 DEF ReusePid
  <2>2. /\ Sound(d) /\ srv'[d] = srv[d] /\ disk'[d].data = disk[d].data
        /\ disk'[d].cfg = disk[d].cfg /\ disk'[d].pid = "reused"
    BY <1>4, <2>1, PidSound
  <2>3. ASSUME NEW c \in Clients, InFlight(c), cl[c].dir = d,
               Expects(cl[c].op, cl[c].at, cl[c].cfg, cl[c].port, disk[d], srv[d])
        PROVE  Expects(cl[c].op, cl[c].at, cl[c].cfg, cl[c].port, disk'[d], srv'[d])
    BY <2>2, <2>3 DEF Expects
  <2>. QED BY <1>1, <1>4, <2>2, <2>3, OutsideStays
\* A live server has its pidfile.
<1>5. ASSUME NEW d \in Dirs, LocklessExit(d) PROVE FALSE
  BY <1>5 DEF LocklessExit, LifeInv, Sane, Coherent
<1>6. ASSUME NEW p \in Ports, StrayExit(p), UNCHANGED cl PROVE LifeInv'
  BY <1>1, <1>6 DEF StrayExit, LifeInv, Apart, InFlight, OnePerPort,
     Sane, Coherent, Holds
<1>. QED BY <1>2, <1>3, <1>4, <1>5, <1>6 DEF Machine, MayFail

\* Nothing runs after a reboot, and no command is in flight.
LEMMA RebootLife ==
  ASSUME LifeInv, Reboot
  PROVE  LifeInv'
<1>1. Inv' /\ disk \in [Dirs -> Files] /\ cl \in [Clients -> Client]
  BY RebootInv DEF LifeInv, Inv, TypeOK, HostTypeOK
<1>2. ASSUME NEW d \in Dirs
      PROVE  /\ srv'[d] = None /\ disk'[d].data = Settled(disk[d].data)
             /\ disk'[d].cfg = disk[d].cfg
             /\ disk'[d].pid = IF disk[d].pid = "live" THEN "dead" ELSE disk[d].pid
  BY <1>1 DEF Reboot, Files
<1>3. ASSUME NEW d \in Dirs PROVE Sane(d)'
  <2>1. Sane(d)
    BY DEF LifeInv
  <2>. QED BY <1>2, <2>1 DEF Sane, Coherent, Settled, Complete
<1>4. ASSUME NEW c \in Clients PROVE ~InFlight(c)'
  BY DEF Reboot, InFlight, Idle, Ends
<1>5. Apart' /\ OnePerPort'
  BY <1>2, <1>4 DEF Apart, OnePerPort
<1>. QED BY <1>1, <1>3, <1>4, <1>5 DEF LifeInv

LEMMA InitLife == Init => LifeInv
<1> SUFFICES ASSUME Init PROVE LifeInv
  OBVIOUS
<1>1. Inv
  BY InitInv
<1>2. \A c \in Clients : ~InFlight(c)
  BY DEF Init, Idle, InFlight, Ends
<1>3. \A d \in Dirs : srv[d] = None /\ disk[d].pid = "none" /\ disk[d].cfg = None
  BY DEF Init, HostInit, NoFiles
<1>4. \A d \in Dirs : Sane(d)
  BY <1>3 DEF Sane, Coherent
<1>5. Apart /\ OnePerPort
  BY <1>2, <1>3 DEF Apart, OnePerPort
<1>. QED BY <1>1, <1>2, <1>4, <1>5 DEF LifeInv

LEMMA StepLife ==
  ASSUME Disciplined, LifeInv, Offered, [Next]_vars
  PROVE  LifeInv'
<1>1. CASE UNCHANGED vars
  <2>1. Inv'
    BY <1>1, StepInv DEF LifeInv
  <2>. QED BY <1>1, <2>1 DEF vars, LifeInv, Apart, InFlight, OnePerPort,
       Sane, Coherent, Holds
<1>2. ASSUME NEW c \in Clients, ClientStep(c) PROVE LifeInv'
  BY <1>2, ClientStepLife, StepIsInFlight DEF Offered
<1>. QED BY <1>1, <1>2, BeginLife, KillClientLife, MachineLife, RebootLife
     DEF Next, Environment

LEMMA AlwaysLife == ASSUME Disciplined PROVE Spec => []LifeInv
<1>1. Init => LifeInv
  BY InitLife
<1>2. LifeInv /\ Offered /\ [Next]_vars => LifeInv'
  BY StepLife
<1>. QED BY <1>1, <1>2, AlwaysOffered, PTL DEF Spec

-----------------------------------------------------------------------------
\* What follows for the sandboxes

\* Operators who keep two commands off one sandbox find a config only where a
\* data directory was built to the end, whatever is killed or fails
\* (deploy.go:134, "the deploy-completed marker").
THEOREM ConfigMarksDeployed ==
  ASSUME Disciplined PROVE Spec => []ConfigMeansDeployed
<1>1. LifeInv => ConfigMeansDeployed
  BY DEF LifeInv, Sane, Coherent, ConfigMeansDeployed
<1>. QED BY <1>1, AlwaysLife, PTL

\* As long as no config set port= runs, a live server is on the port its
\* sandbox's config records, after any number of restarts, crashes and reboots
\* (lifecycle.go re-supplies -p on every start).
THEOREM PortsStayRecorded ==
  ASSUME Disciplined, "set" \notin Ops PROVE Spec => []RecordedPortIsServed
<1>1. LifeInv => RecordedPortIsServed
  BY DEF LifeInv, Sane, Coherent, RecordedPortIsServed
<1>. QED BY <1>1, AlwaysLife, PTL

\* A start or a restart stands at a point of its own.
LEMMA StartsOwnStep ==
  ASSUME Inv, NEW c \in Clients, InFlight(c), cl[c].op \in {"start", "restart"},
         ClientStep(c)
  PROVE  LifecycleStep(c)
<1>1. cl[c].at \in {"start.load", "start.run", "stop.load", "stop.unlink", "stop.run"}
  BY DEF Inv, CallsWellFormed, OnTrack
<1>2. ~DeployStep(c)
  BY <1>1 DEF DeployStep, ChoosePort, MakeDirChoosePort, InitDb, LaunchDeployed,
     SaveDeployed, ProbeSource, ProbeRole, CreateRole, EnsureHba, BaseBackup, At
<1>3. ~DestroyStep(c) /\ ~PromoteStep(c) /\ ~SetStep(c)
  BY <1>1 DEF DestroyStep, DestroyLoad, DropSubscription, DestroyStop, SlotLoad,
     SlotDrop, DestroyRemove, PromoteStep, PromoteLoad, PromoteRun, PromoteWait,
     PromoteSave, SetStep, SetLoad, SetSave, At
<1>4. ~LogicalStep(c)
  BY <1>1 DEF LogicalStep, PublishLoad, ShowWalLevel, AlterSystem,
     CreatePublication, SubscribeLoad, CreateSubscription, SubscribeSave, At
<1>. QED BY <1>2, <1>3, <1>4 DEF ClientStep

\* In the step in which a start or restart exits 0 its sandbox has its server on
\* the recorded port: either it was found running, and then the pidfile names
\* that server, or pg_ctl has just started it there.
LEMMA StartServes ==
  ASSUME LifeInv, "set" \notin Ops, "pid" \notin Faults, [Next]_vars,
         NEW c \in Clients, Returns(c, "ok"), cl[c].op \in {"start", "restart"}
  PROVE  disk'[cl[c].dir].cfg # None
         /\ srv'[cl[c].dir] = disk'[cl[c].dir].cfg.port
<1> DEFINE d == cl[c].dir
<1>1. /\ Inv /\ InFlight(c) /\ cl'[c].at = "ok" /\ d \in Dirs
      /\ cl \in [Clients -> Client] /\ disk \in [Dirs -> Files] /\ Sane(d)
      /\ srv \in [Dirs -> Ports \cup {None}]
  BY DEF Returns, LifeInv, Inv, TypeOK, HostTypeOK, CallsWellFormed
<1>2. cl'[c] # cl[c]
  BY <1>1 DEF InFlight, Ends
<1>3. ~Environment
  <2>1. Reboot => cl'[c].at = "fail"
    BY <1>1 DEF Reboot, Idle
  <2>. QED BY <1>1, <1>2, <2>1 DEF Environment, Machine
<1>4. ~BeginCall(c) /\ ~KillClient(c)
  BY <1>1 DEF BeginCall, BeginDeploy, BeginLifecycle, BeginDestroy, BeginPromote,
     BeginPublish, BeginSubscribe, BeginSet, Begin, KillClient, Return, Idle
<1>5. LifecycleStep(c)
  <2>1. PICK b \in Clients : BeginCall(b) \/ ClientStep(b) \/ KillClient(b)
    BY <1>2, <1>3 DEF Next, vars
  <2>2. ASSUME b # c PROVE cl'[c] = cl[c]
    <3>1. CASE BeginCall(b)
      BY <1>1, <2>2, <3>1 DEF BeginCall, BeginDeploy, BeginLifecycle, BeginDestroy,
         BeginPromote, BeginPublish, BeginSubscribe, BeginSet, Begin
    <3>2. CASE ClientStep(b)
      BY <1>1, <2>2, <3>2, OneMoves
    <3>3. CASE KillClient(b)
      BY <1>1, <2>2, <3>3 DEF KillClient, Return
    <3>. QED BY <2>1, <3>1, <3>2, <3>3
  <2>3. b = c
    BY <1>2, <2>2
  <2>. QED BY <1>1, <1>4, <2>1, <2>3, StartsOwnStep
<1>6. /\ ~Return(c, "fail")
      /\ \A at \in {"start.load", "start.run", "stop.unlink", "stop.run"} :
           ~Go(c, at)
  BY <1>1 DEF Return, Idle, Go, Client
<1>7. CASE StartLoad(c)
  <2> DEFINE p == disk[d].cfg.port
  <2>1. ~(cl' = [cl EXCEPT ![c].port = p, ![c].at = "start.run"])
    BY <1>1 DEF Client
  <2>2. disk[d].cfg # None /\ IsRunning(d) /\ UNCHANGED <<disk, srv>>
    BY <1>6, <1>7, <2>1 DEF StartLoad, Quiet, host
  <2>3. srv[d] # None
    BY <1>1, <2>2 DEF IsRunning, Sane, Coherent
  <2>. QED BY <1>1, <2>2, <2>3 DEF Sane, Coherent
<1>8. CASE StartRun(c)
  <2>1. At(c, "start.run") /\ CanStart(d, cl[c].port) /\ ServerUp(d, cl[c].port)
    BY <1>6, <1>8 DEF StartRun, PgCtlStart
  <2>2. "start.run" \in Points
    BY DEF Points
  <2>3. disk[d].cfg # None /\ cl[c].port = disk[d].cfg.port
    BY <2>1, <2>2, Poised DEF Expects
  <2>. QED BY <1>1, <2>1, <2>3 DEF ServerUp, Files
<1>9. CASE StopLoad(c) \/ StopUnlink(c) \/ StopRun(c)
  <2>1. cl[c].op = "restart"
    BY <1>1, <1>9 DEF StopLoad, StopUnlink, StopRun, At, Inv, CallsWellFormed,
       OnTrack
  <2>. QED BY <1>6, <1>9, <2>1 DEF StopLoad, StopUnlink, StopRun, StopDone
<1>. QED BY <1>5, <1>7, <1>8, <1>9 DEF LifecycleStep

\* start and restart report what they did: exit 0 means a server on the recorded
\* port.  A recycled PID in a stale pidfile would pass for the server, and a
\* config set would change what is recorded.
THEOREM StartTellsTheTruth ==
  ASSUME Disciplined, "set" \notin Ops, "pid" \notin Faults
  PROVE  Spec => StartOkMeansServing
<1>1. LifeInv /\ [Next]_vars =>
        [\A c \in Clients :
           Returns(c, "ok") /\ cl[c].op \in {"start", "restart"} =>
             LET d == cl[c].dir IN
             disk'[d].cfg # None /\ srv'[d] = disk'[d].cfg.port]_vars
  BY StartServes
<1>. QED BY <1>1, AlwaysLife, PTL DEF Spec, StartOkMeansServing

-----------------------------------------------------------------------------
\* What destroy removes has been stopped

\* Past its stop a destroy takes for granted that no server runs.
HasStopped(c) ==
  InFlight(c) /\ cl[c].op = "destroy"
    /\ cl[c].at \in {"slot.load", "slot.drop", "destroy.rm"} =>
    srv[cl[c].dir] = None

Stopped == \A c \in Clients : HasStopped(c)

\* A destroy stands at a point of its own.
LEMMA DestroysOwnStep ==
  ASSUME Inv, NEW c \in Clients, InFlight(c), cl[c].op = "destroy", ClientStep(c)
  PROVE  DestroyStep(c)
<1>1. cl[c].at \in {"destroy.load", "destroy.sub", "destroy.stop", "slot.load",
                    "slot.drop", "destroy.rm"}
  BY DEF Inv, CallsWellFormed, OnTrack
<1>2. ~DeployStep(c)
  BY <1>1 DEF DeployStep, ChoosePort, MakeDirChoosePort, InitDb, LaunchDeployed,
     SaveDeployed, ProbeSource, ProbeRole, CreateRole, EnsureHba, BaseBackup, At
<1>3. ~LifecycleStep(c) /\ ~PromoteStep(c) /\ ~SetStep(c)
  BY <1>1 DEF LifecycleStep, StartLoad, StartRun, StopLoad, StopUnlink, StopRun,
     PromoteStep, PromoteLoad, PromoteRun, PromoteWait, PromoteSave,
     SetStep, SetLoad, SetSave, At
<1>4. ~LogicalStep(c)
  BY <1>1 DEF LogicalStep, PublishLoad, ShowWalLevel, AlterSystem,
     CreatePublication, SubscribeLoad, CreateSubscription, SubscribeSave, At
<1>. QED BY <1>2, <1>3, <1>4 DEF ClientStep

\* One destroy's way to the removal of its directory.
LEMMA StopsFirst ==
  ASSUME "child" \notin Faults, LifeInv, NEW c \in Clients, HasStopped(c), DestroyStep(c)
  PROVE  /\ ~Return(c, "ok") /\ ~Return(c, "fail") =>
              (cl'[c].at \in {"slot.load", "slot.drop", "destroy.rm"}
                 /\ cl[c].op = "destroy" => srv'[cl[c].dir] = None)
         /\ strays' = strays
<1> DEFINE d == cl[c].dir
<1>1. cl \in [Clients -> Client] /\ srv \in [Dirs -> Ports \cup {None}]
  BY DEF LifeInv, Inv, TypeOK, HostTypeOK
<1>2. ASSUME NEW point \in {"destroy.load", "destroy.sub", "destroy.stop",
                            "destroy.rm", "slot.load", "slot.drop"},
             At(c, point)
      PROVE  /\ InFlight(c) /\ d \in Dirs /\ cl[c] \in Client /\ Sane(d)
             /\ cl[c].at = point
             /\ point = "destroy.rm" => cl[c].op = "destroy"
             /\ cl[c].op = "destroy" /\ point \in {"slot.load", "slot.drop", "destroy.rm"}
                  => srv[d] = None
  <2>1. point \in Points
    BY DEF Points
  <2>2. point = "destroy.rm" => cl[c].op = "destroy"
    BY <1>2, <2>1, Poised DEF OnTrack
  <2>. QED BY <1>2, <2>1, <2>2, Poised DEF HasStopped
<1>3. CASE DestroyLoad(c)
  <2>1. At(c, "destroy.load") /\ UNCHANGED strays
    BY <1>3 DEF DestroyLoad, Quiet, host
  <2>2. \/ Return(c, "fail")
        \/ \E at \in {"destroy.sub", "destroy.stop"} :
             cl' = [cl EXCEPT ![c].cfg = disk[d].cfg, ![c].at = at]
    BY <1>3 DEF DestroyLoad
  <2>3. ASSUME NEW at \in {"destroy.sub", "destroy.stop"},
               cl' = [cl EXCEPT ![c].cfg = disk[d].cfg, ![c].at = at]
        PROVE  cl'[c].at = at
    BY <1>1, <2>3 DEF Client
  <2>. QED BY <2>1, <2>2, <2>3
<1>4. CASE DropSubscription(c)
  BY <1>1, <1>4 DEF DropSubscription, Go, Client, Quiet, host
<1>5. CASE DestroyStop(c)
  <2>1. At(c, "destroy.stop") /\ UNCHANGED strays
        /\ \/ ServerDown(d, "none")
           \/ disk[d].pid # "live" /\ UNCHANGED srv
    BY <1>5 DEF DestroyStop, ServerDown, Quiet, host, MayFail
  <2>2. srv'[d] = None
    BY <1>1, <1>2, <2>1 DEF ServerDown, Sane, Coherent
  <2>. QED BY <2>1, <2>2
<1>6. CASE SlotLoad(c)
  <2>1. At(c, "slot.load") /\ UNCHANGED <<srv, strays>>
    BY <1>6 DEF SlotLoad, Quiet, host
  <2>. QED BY <1>2, <2>1
<1>7. CASE SlotDrop(c)
  <2>1. At(c, "slot.drop") /\ UNCHANGED <<srv, strays>>
    BY <1>7 DEF SlotDrop, Quiet, host
  <2>. QED BY <1>2, <2>1
<1>8. CASE DestroyRemove(c)
  <2>1. /\ At(c, "destroy.rm")
        /\ Return(c, "ok") \/ Return(c, "fail")
        /\ strays' = strays \cup ({srv[d]} \ {None})
    BY <1>8 DEF DestroyRemove, Removed
  <2>. QED BY <1>2, <2>1
<1>. QED BY <1>3, <1>4, <1>5, <1>6, <1>7, <1>8 DEF DestroyStep

LEMMA StepStopped ==
  ASSUME "child" \notin Faults, LifeInv, Stopped, NEW c \in Clients, ClientStep(c)
  PROVE  Stopped' /\ strays' \subseteq strays
<1> DEFINE d == cl[c].dir
<1>1. /\ InFlight(c) /\ d \in Dirs /\ HostTypeOK /\ Inv /\ cl \in [Clients -> Client]
      /\ \A b \in Clients \ {c} : cl'[b] = cl[b]
      /\ InFlight(c)' => cl'[c].op = cl[c].op /\ cl'[c].dir = d
  BY StepIsInFlight, OneMoves DEF LifeInv, Inv, TypeOK, CallsWellFormed
<1>2. Elsewhere(d) /\ (~DestroyRemove(c) => UNCHANGED strays)
  BY <1>1, OwnSandboxOnly
<1>3. HasStopped(c) /\ strays' = strays
  BY <1>2, StopsFirst DEF DestroyStep, Stopped
<1>4. ASSUME NEW b \in Clients, InFlight(b)', cl'[b].op = "destroy",
             cl'[b].at \in {"slot.load", "slot.drop", "destroy.rm"}
      PROVE  srv'[cl'[b].dir] = None
  <2>1. CASE b = c
    <3>1. ~Return(c, "ok") /\ ~Return(c, "fail")
      BY <1>1, <1>4, <2>1 DEF Return, Idle, InFlight, Ends
    <3>2. DestroyStep(c)
      BY <1>1, <1>4, <2>1, DestroysOwnStep
    <3>. QED BY <1>1, <1>3, <1>4, <2>1, <3>1, <3>2, StopsFirst
  <2>2. CASE b # c
    <3>1. InFlight(b) /\ cl'[b] = cl[b] /\ cl[b].dir \in Dirs \ {d}
      BY <1>1, <1>4, <2>2 DEF InFlight, LifeInv, Inv, CallsWellFormed, Apart
    <3>2. srv[cl[b].dir] = None
      BY <1>4, <3>1 DEF Stopped, HasStopped
    <3>. QED BY <1>2, <3>1, <3>2 DEF Elsewhere
  <2>. QED BY <2>1, <2>2
<1>. QED BY <1>3, <1>4 DEF Stopped, HasStopped

\* What begins or ends a command, and what happens without any, starts no server.
LEMMA OutsideStopped ==
  ASSUME LifeInv, Stopped,
         Environment \/ \E c \in Clients : BeginCall(c) \/ KillClient(c)
  PROVE  Stopped' /\ strays' \subseteq strays
<1>1. cl \in [Clients -> Client] /\ srv \in [Dirs -> Ports \cup {None}]
      /\ Inv /\ \A c \in Clients : InFlight(c) => cl[c].dir \in Dirs
  BY DEF LifeInv, Inv, TypeOK, HostTypeOK, CallsWellFormed
<1>2. ASSUME NEW c \in Clients, BeginCall(c) PROVE Stopped' /\ UNCHANGED strays
  <2>1. ASSUME NEW op, NEW d, NEW src, NEW name, NEW port,
               NEW point, point \notin {"slot.load", "slot.drop", "destroy.rm"},
               Begin(c, op, point, d, src, name, port)
        PROVE  Stopped' /\ UNCHANGED strays
    BY <1>1, <2>1 DEF Begin, Quiet, host, Stopped, HasStopped, InFlight
  <2>. QED BY <1>2, <2>1 DEF BeginCall, BeginDeploy, BeginLifecycle, BeginDestroy,
       BeginPromote, BeginPublish, BeginSubscribe, BeginSet
<1>3. ASSUME NEW c \in Clients, KillClient(c) PROVE Stopped' /\ UNCHANGED strays
  BY <1>1, <1>3 DEF KillClient, Return, Idle, Quiet, host, Stopped, HasStopped, InFlight
<1>4. CASE Machine
  <2>1. UNCHANGED cl /\ strays' \subseteq strays
        /\ \A d \in Dirs : srv'[d] \in {srv[d], None}
    BY <1>1, <1>4 DEF Machine, FinishPromotion, KillServer, ReusePid, LocklessExit,
       ServerDown, StrayExit
  <2>. QED BY <1>1, <2>1 DEF Stopped, HasStopped, InFlight
<1>5. CASE Reboot
  BY <1>1, <1>5 DEF Reboot, Stopped, HasStopped, Idle, InFlight, Ends
<1>. QED BY <1>2, <1>3, <1>4, <1>5 DEF Environment

\* A pg_ctl stop that does what it reports is enough for destroy to leave no
\* server behind (destroy.go stops before it removes).
THEOREM DestroyLeavesNoServer ==
  ASSUME Disciplined, "child" \notin Faults PROVE Spec => []NoStrayServer
<1>1. Init => Stopped /\ NoStrayServer
  BY DEF Init, HostInit, Idle, Stopped, HasStopped, NoStrayServer
<1>2. LifeInv /\ Stopped /\ NoStrayServer /\ [Next]_vars => (Stopped /\ NoStrayServer)'
  <2>1. LifeInv /\ Stopped /\ NoStrayServer /\ UNCHANGED vars
          => (Stopped /\ NoStrayServer)'
    BY DEF vars, Stopped, HasStopped, NoStrayServer, InFlight
  <2>2. LifeInv /\ Stopped /\ NoStrayServer /\ Next => (Stopped /\ NoStrayServer)'
    BY StepStopped, OutsideStopped DEF Next, NoStrayServer
  <2>. QED BY <2>1, <2>2
<1>. QED BY <1>1, <1>2, AlwaysLife, PTL DEF Spec

-----------------------------------------------------------------------------
\* The catalogue, and what each of its actions asks of a step

AllBoxes == [d \in Dirs |-> BoxOf(d)]

Card(role, port, state, recovering) ==
  [role |-> role, port |-> port, state |-> state, recovering |-> recovering]

LEMMA Cards ==
  ASSUME NEW role, NEW port, NEW state, NEW recovering, NEW x
  PROVE  /\ Card(role, port, state, recovering).role = role
         /\ Card(role, port, state, recovering).port = port
         /\ Card(role, port, state, recovering).state = state
         /\ Card(role, port, state, recovering).recovering = recovering
         /\ [Card(role, port, state, recovering) EXCEPT !.role = x]
              = Card(x, port, state, recovering)
         /\ [Card(role, port, state, recovering) EXCEPT !.state = x]
              = Card(role, port, x, recovering)
         /\ [Card(role, port, state, recovering) EXCEPT !.recovering = x]
              = Card(role, port, state, x)
BY DEF Card

LEMMA OneBox ==
  ASSUME NEW d \in Dirs, Elsewhere(d)
  PROVE  AllBoxes' = [AllBoxes EXCEPT ![d] = BoxOf(d)']
<1>1. \A e \in Dirs \ {d} : BoxOf(e)' = BoxOf(e)
  BY DEF Elsewhere, BoxOf
<1>. QED BY <1>1 DEF AllBoxes

LEMMA SameBox ==
  ASSUME NEW d \in Dirs, Elsewhere(d), BoxOf(d)' = BoxOf(d)
  PROVE  AllBoxes' = AllBoxes
BY OneBox DEF AllBoxes

\* A step that leaves files and servers alone, or works on a directory without
\* a config and writes none.
LEMMA SameHost == ASSUME UNCHANGED <<disk, srv>> PROVE AllBoxes' = AllBoxes
BY DEF AllBoxes, BoxOf

LEMMA NoBox ==
  ASSUME NEW d \in Dirs, Elsewhere(d), disk[d].cfg = None, disk'[d].cfg = None
  PROVE  AllBoxes' = AllBoxes
<1>1. BoxOf(d)' = BoxOf(d)
  BY DEF BoxOf
<1>. QED BY <1>1, SameBox

LEMMA AsDeploy ==
  ASSUME NEW d \in Dirs, Elsewhere(d), BoxOf(d) = None,
         NEW role \in {"primary", "standby"}, NEW p \in Ports,
         NEW state \in {"up", "down"}, NEW recovering,
         state = "up" => \A e \in Dirs \ {d} : srv[e] # p,
         BoxOf(d)' = Card(role, p, state, recovering)
  PROVE  recovering = (role = "standby") => Catalog!CatalogNext
<1>1. AllBoxes' = [AllBoxes EXCEPT ![d] = Card(role, p, state, recovering)]
  BY OneBox
<1>2. ~Catalog!Exists(d)
  BY DEF Catalog!Exists
<1>3. state = "up" => Catalog!PortOf(d, p)
  BY DEF Catalog!PortOf, Catalog!Up, Catalog!Exists, BoxOf
<1>4. Catalog!Becomes(d, Card(role, p, state, recovering))
  BY <1>1 DEF Catalog!Becomes, AllBoxes
<1>5. ASSUME recovering = (role = "standby") PROVE Catalog!Deploy(d)
  <2>1. Catalog!Becomes(d, [role |-> role, port |-> p, state |-> state,
                            recovering |-> role = "standby"])
    BY <1>4, <1>5 DEF Card
  <2>2. Card(role, p, state, recovering) # None
    <3>1. recovering \in BOOLEAN /\ role \in Roles
      BY <1>5, Zenon DEF Roles
    <3>. QED BY <3>1, BoxAssumption DEF Card
  <2>3. AllBoxes'[d] # None
    BY <2>2 DEF AllBoxes
  <2>. QED BY <1>2, <1>3, <2>1, <2>3 DEF Catalog!Deploy, AllBoxes
<1>. QED BY <1>5 DEF Catalog!CatalogNext

LEMMA BecomesCard ==
  ASSUME NEW d \in Dirs, Elsewhere(d), NEW b, BoxOf(d)' = b
  PROVE  Catalog!Becomes(d, b) /\ AllBoxes[d] = BoxOf(d)
BY OneBox DEF Catalog!Becomes, AllBoxes

LEMMA AsStart ==
  ASSUME NEW d \in Dirs, Elsewhere(d), NEW role, NEW p, NEW recovering,
         Card(role, p, "down", recovering) # None,
         BoxOf(d) = Card(role, p, "down", recovering),
         \A e \in Dirs \ {d} : srv[e] # p,
         BoxOf(d)' = Card(role, p, "up", recovering)
  PROVE  Catalog!CatalogNext
<1>1. AllBoxes[d] = Card(role, p, "down", recovering)
        /\ Catalog!Becomes(d, Card(role, p, "up", recovering))
  BY BecomesCard
<1>2. /\ AllBoxes[d].port = p /\ AllBoxes[d].state = "down"
      /\ [AllBoxes[d] EXCEPT !.state = "up"] = Card(role, p, "up", recovering)
  BY <1>1, Cards
<1>3. Catalog!PortOf(d, AllBoxes[d].port)
  BY <1>2 DEF Catalog!PortOf, Catalog!Up, Catalog!Exists, BoxOf
<1>4. Catalog!Becomes(d, [AllBoxes[d] EXCEPT !.state = "up"])
  BY <1>1, <1>2
<1>5. Catalog!Exists(d)
  BY <1>1 DEF Catalog!Exists, AllBoxes
<1>6. Catalog!Start(d)
  BY <1>2, <1>3, <1>4, <1>5 DEF Catalog!Start, AllBoxes
<1>. QED BY <1>6 DEF Catalog!CatalogNext

LEMMA AsLeaveRecovery ==
  ASSUME NEW d \in Dirs, Elsewhere(d), NEW role, NEW p, NEW before, NEW after,
         Card(role, p, "up", before) # None,
         BoxOf(d) = Card(role, p, "up", before),
         BoxOf(d)' = Card(role, p, "up", after)
  PROVE  before = TRUE /\ after = FALSE => Catalog!CatalogNext
<1>1. AllBoxes[d] = Card(role, p, "up", before)
        /\ Catalog!Becomes(d, Card(role, p, "up", after))
  BY BecomesCard
<1>2. AllBoxes[d].state = "up" /\ AllBoxes[d].recovering = before
  BY <1>1, Cards
<1>3. [AllBoxes[d] EXCEPT !.recovering = after] = Card(role, p, "up", after)
  BY <1>1 DEF Card
<1>4. Catalog!Becomes(d, [AllBoxes[d] EXCEPT !.recovering = after])
  BY <1>1, <1>3
<1>5. Catalog!Up(d)
  BY <1>1, <1>2 DEF Catalog!Up, Catalog!Exists, AllBoxes
<1>6. ASSUME before = TRUE, after = FALSE PROVE Catalog!LeaveRecovery(d)
  <2>1. Catalog!Becomes(d, [AllBoxes[d] EXCEPT !.recovering = FALSE])
    BY <1>4, <1>6
  <2>2. AllBoxes[d].recovering
    BY <1>2, <1>6
  <2>. QED BY <1>5, <2>1, <2>2 DEF Catalog!LeaveRecovery, AllBoxes
<1>. QED BY <1>6 DEF Catalog!CatalogNext

LEMMA AsPromote ==
  ASSUME NEW d \in Dirs, Elsewhere(d), NEW p, NEW state \in {"up", "down"},
         NEW recovering, state = "up" => ~recovering,
         Card("standby", p, state, recovering) # None,
         BoxOf(d) = Card("standby", p, state, recovering),
         BoxOf(d)' = Card("primary", p, state, recovering)
  PROVE  Catalog!CatalogNext
<1>1. AllBoxes[d] = Card("standby", p, state, recovering)
        /\ Catalog!Becomes(d, Card("primary", p, state, recovering))
  BY BecomesCard
<1>2. /\ AllBoxes[d].role = "standby"
      /\ \/ AllBoxes[d].state = "up" /\ ~AllBoxes[d].recovering
         \/ AllBoxes[d].state = "down"
      /\ [AllBoxes[d] EXCEPT !.role = "primary"]
           = Card("primary", p, state, recovering)
  BY <1>1, Cards
<1>3. Catalog!Becomes(d, [AllBoxes[d] EXCEPT !.role = "primary"])
  BY <1>1, <1>2
<1>4. Catalog!Exists(d)
  BY <1>1 DEF Catalog!Exists, AllBoxes
<1>5. Catalog!Promote(d)
  BY <1>2, <1>3, <1>4 DEF Catalog!Promote, AllBoxes
<1>. QED BY <1>5 DEF Catalog!CatalogNext

LEMMA AsDestroy ==
  ASSUME NEW d \in Dirs, Elsewhere(d), BoxOf(d) # None, BoxOf(d)' = None
  PROVE  Catalog!CatalogNext
<1>1. Catalog!Becomes(d, None)
  BY BecomesCard
<1>2. Catalog!Destroy(d)
  BY <1>1 DEF Catalog!Destroy, Catalog!Exists
<1>. QED BY <1>2 DEF Catalog!CatalogNext

LEMMA AsDamage ==
  ASSUME NEW d \in Dirs, Elsewhere(d), NEW role, NEW p, NEW state, NEW before,
         NEW after, Card(role, p, state, before) # None,
         BoxOf(d) = Card(role, p, state, before),
         BoxOf(d)' = Card(role, p, "damaged", after)
  PROVE  after = FALSE => Catalog!CatalogNext
<1> DEFINE k == [AllBoxes[d] EXCEPT !.state = "damaged"]
<1>1. AllBoxes[d] = Card(role, p, state, before)
        /\ Catalog!Becomes(d, Card(role, p, "damaged", after))
  BY BecomesCard
<1>2. k = Card(role, p, "damaged", before)
  BY <1>1 DEF Card
<1>3. [AllBoxes[d] EXCEPT !.state = "damaged", !.recovering = after]
        = [k EXCEPT !.recovering = after]
  OBVIOUS
<1> HIDE DEF k
<1>4. [k EXCEPT !.recovering = after] = Card(role, p, "damaged", after)
  BY <1>2 DEF Card
<1>5. Catalog!Becomes(d, [AllBoxes[d] EXCEPT !.state = "damaged",
                                          !.recovering = after])
  BY <1>1, <1>3, <1>4
<1>6. Catalog!Exists(d)
  BY <1>1 DEF Catalog!Exists, AllBoxes
<1>7. ASSUME after = FALSE PROVE Catalog!Damage(d)
  <2>1. Catalog!Becomes(d, [AllBoxes[d] EXCEPT !.state = "damaged",
                                            !.recovering = FALSE])
    BY <1>5, <1>7
  <2>. QED BY <1>6, <2>1 DEF Catalog!Damage, AllBoxes
<1>. QED BY <1>7 DEF Catalog!CatalogNext

\* Any number of servers at once, in a reboot.
LEMMA AsGoDown ==
  ASSUME NEW D \in SUBSET Dirs, D # {},
         \A d \in D : AllBoxes[d] # None /\ AllBoxes[d].state = "up"
                       /\ BoxOf(d)' = [AllBoxes[d] EXCEPT !.state = "down"],
         \A d \in Dirs \ D : BoxOf(d)' = AllBoxes[d]
  PROVE  Catalog!CatalogNext
<1>1. \A d \in D : Catalog!Up(d)
  BY DEF Catalog!Up, Catalog!Exists, AllBoxes
<1>2. AllBoxes' = [d \in Dirs |->
        IF d \in D THEN [AllBoxes[d] EXCEPT !.state = "down"] ELSE AllBoxes[d]]
  BY DEF AllBoxes
<1>3. Catalog!GoDown(D)
  BY <1>1, <1>2 DEF Catalog!GoDown, AllBoxes
<1>. QED BY <1>3 DEF Catalog!CatalogNext


-----------------------------------------------------------------------------
\* Every step is a step of the catalogue, or none of its business

Maps == Catalog!CatalogNext \/ AllBoxes' = AllBoxes

BoxState(data, s) ==
  IF data \notin Complete THEN "damaged" ELSE IF s # None THEN "up" ELSE "down"

Recovers(data) == data \in {"standby", "promoting"}

LEMMA CardIsBox ==
  ASSUME NEW role \in Roles, NEW port \in Ports, NEW data, NEW s
  PROVE  Card(role, port, BoxState(data, s), Recovers(data)) # None
<1>1. BoxState(data, s) \in {"up", "down", "damaged"} /\ Recovers(data) \in BOOLEAN
  BY DEF BoxState, Recovers
<1> DEFINE state == BoxState(data, s)
           recovering == Recovers(data)
<1> HIDE DEF state, recovering
<1>2. Card(role, port, state, recovering) \in
        [role : Roles, port : Ports, state : {"up", "down", "damaged"},
         recovering : BOOLEAN]
  BY <1>1 DEF Card, state, recovering
<1>3. Card(role, port, state, recovering) # None
  BY <1>2, BoxAssumption
<1>. QED BY <1>3 DEF state, recovering

\* With a config a sandbox is what its config, data directory and server say.
LEMMA BoxHere ==
  ASSUME LifeInv, "set" \notin Ops, NEW d \in Dirs, disk[d].cfg # None
  PROVE  LET cfg == disk[d].cfg
             data == disk[d].data IN
         /\ BoxOf(d) = Card(cfg.role, cfg.port, BoxState(data, srv[d]), Recovers(data))
         /\ BoxOf(d) # None
<1>1. disk[d].cfg \in Sandbox
  BY DEF LifeInv, Inv, TypeOK, HostTypeOK, Files
<1>2. disk[d].cfg.role \in Roles /\ disk[d].cfg.port \in Ports
  BY <1>1 DEF Sandbox
<1>3. srv[d] # None => srv[d] = disk[d].cfg.port
  BY DEF LifeInv, Sane, Coherent
<1>4. BoxOf(d) = Card(disk[d].cfg.role, disk[d].cfg.port,
                      BoxState(disk[d].data, srv[d]), Recovers(disk[d].data))
  BY <1>3 DEF BoxOf, Card, BoxState, Recovers
<1>. QED BY <1>2, <1>4, CardIsBox

LEMMA BoxThere ==
  ASSUME LifeInv', "set" \notin Ops, NEW d \in Dirs, disk'[d].cfg # None
  PROVE  LET cfg == disk'[d].cfg
             data == disk'[d].data IN
         /\ BoxOf(d)' = Card(cfg.role, cfg.port, BoxState(data, srv'[d]), Recovers(data))
         /\ BoxOf(d)' # None
<1>1. disk'[d].cfg \in Sandbox
  BY DEF LifeInv, Inv, TypeOK, HostTypeOK, Files
<1>2. disk'[d].cfg.role \in Roles /\ disk'[d].cfg.port \in Ports
  BY <1>1 DEF Sandbox
<1>3. srv'[d] # None => srv'[d] = disk'[d].cfg.port
  BY DEF LifeInv, Sane, Coherent
<1>4. BoxOf(d)' = Card(disk'[d].cfg.role, disk'[d].cfg.port,
                       BoxState(disk'[d].data, srv'[d]), Recovers(disk'[d].data))
  BY <1>3 DEF BoxOf, Card, BoxState, Recovers
<1>. QED BY <1>2, <1>4, CardIsBox

\* Neither the pidfile nor a promotion under way shows.
LEMMA SameFace ==
  ASSUME NEW d \in Dirs, Elsewhere(d), srv'[d] = srv[d],
         disk'[d].cfg = disk[d].cfg,
         \/ disk'[d].data = disk[d].data
         \/ disk[d].data = "standby" /\ disk'[d].data = "promoting"
  PROVE  AllBoxes' = AllBoxes
<1>1. BoxOf(d)' = BoxOf(d)
  BY DEF BoxOf, Complete
<1>. QED BY <1>1, SameBox

\* A server that goes down.
LEMMA DownMaps ==
  ASSUME LifeInv, LifeInv', "set" \notin Ops, NEW d \in Dirs, srv[d] # None,
         NEW pid \in {"none", "dead"}, ServerDown(d, pid)
  PROVE  Maps
<1>1. /\ Elsewhere(d) /\ srv'[d] = None /\ disk'[d].cfg = disk[d].cfg
      /\ disk'[d].data = Settled(disk[d].data)
  BY DownSound DEF Sound
<1>2. CASE disk[d].cfg = None
  BY <1>1, <1>2, NoBox DEF Maps
<1>3. CASE disk[d].cfg # None
  <2> DEFINE role == disk[d].cfg.role
             port == disk[d].cfg.port
  <2>1. /\ BoxState(disk[d].data, srv[d]) = "up"
        /\ BoxState(disk'[d].data, srv'[d]) = "down"
        /\ Recovers(disk'[d].data) = Recovers(disk[d].data)
    BY <1>1 DEF BoxState, Recovers, Settled, Complete, LifeInv, Sane, Coherent
  <2> DEFINE recovering == Recovers(disk[d].data)
  <2>2. /\ AllBoxes[d] = Card(role, port, "up", recovering) /\ AllBoxes[d] # None
        /\ BoxOf(d)' = Card(role, port, "down", recovering)
    BY <1>1, <1>3, <2>1, BoxHere, BoxThere DEF AllBoxes
  <2> HIDE DEF recovering, role, port
  <2>3. AllBoxes[d].state = "up"
        /\ [AllBoxes[d] EXCEPT !.state = "down"] = Card(role, port, "down", recovering)
    BY <2>2, Cards
  <2>4. \A e \in Dirs \ {d} : BoxOf(e)' = AllBoxes[e]
    BY <1>1 DEF Elsewhere, BoxOf, AllBoxes
  <2> DEFINE D == {d}
  <2>5. D \in SUBSET Dirs /\ D # {} /\ (\A e \in D : e = d) /\ Dirs \ D = Dirs \ {d}
    OBVIOUS
  <2> HIDE DEF D
  <2>6. \A e \in D : /\ AllBoxes[e] # None /\ AllBoxes[e].state = "up"
                     /\ BoxOf(e)' = [AllBoxes[e] EXCEPT !.state = "down"]
    BY <2>2, <2>3, <2>5
  <2>7. Catalog!CatalogNext
    BY <2>4, <2>5, <2>6, AsGoDown
  <2>. QED BY <2>7 DEF Maps
<1>. QED BY <1>2, <1>3

\* A server that comes up on the recorded port.
LEMMA UpMaps ==
  ASSUME LifeInv, LifeInv', "set" \notin Ops, NEW d \in Dirs, NEW p \in Ports,
         CanStart(d, p), ServerUp(d, p), disk[d].cfg # None, p = disk[d].cfg.port
  PROVE  Maps
<1>1. /\ Elsewhere(d) /\ srv'[d] = p /\ disk'[d].cfg = disk[d].cfg
      /\ disk'[d].data = disk[d].data
  BY UpSound DEF Sound
<1> DEFINE role == disk[d].cfg.role
<1>2. /\ BoxState(disk[d].data, srv[d]) = "down"
      /\ BoxState(disk'[d].data, srv'[d]) = "up"
  BY <1>1, NoneAssumption DEF BoxState, CanStart
<1> DEFINE recovering == Recovers(disk[d].data)
<1>3. /\ BoxOf(d) = Card(role, p, "down", recovering) /\ BoxOf(d) # None
      /\ BoxOf(d)' = Card(role, p, "up", recovering)
  BY <1>1, <1>2, BoxHere, BoxThere
<1> HIDE DEF recovering, role
<1>4. \A e \in Dirs \ {d} : srv[e] # p
  BY DEF CanStart, IsBusy
<1>5. Catalog!CatalogNext
  BY <1>1, <1>3, <1>4, AsStart
<1>. QED BY <1>5 DEF Maps

\* The config of a sandbox is written for the first time.
LEMMA AppearMaps ==
  ASSUME LifeInv', "set" \notin Ops, NEW d \in Dirs, Elsewhere(d), UNCHANGED srv,
         disk[d].cfg = None, disk'[d].cfg # None, disk'[d].data = disk[d].data,
         NEW role \in {"primary", "standby"}, NEW p \in Ports,
         disk'[d].cfg.role = role, disk'[d].cfg.port = p,
         disk[d].data = role, srv[d] \in {None, p}
  PROVE  Maps
<1> DEFINE state == BoxState(disk[d].data, srv[d])
           recovering == Recovers(disk[d].data)
<1>1. state \in {"up", "down"} /\ (state = "up" => srv[d] = p)
        /\ recovering = (role = "standby")
  BY DEF BoxState, Complete, Recovers
<1>2. BoxOf(d)' = Card(role, p, state, recovering)
  <2>1. BoxOf(d)' = Card(disk'[d].cfg.role, disk'[d].cfg.port,
                         BoxState(disk'[d].data, srv'[d]), Recovers(disk'[d].data))
    BY BoxThere
  <2>. QED BY <2>1
<1>3. BoxOf(d) = None
  BY DEF BoxOf
<1> HIDE DEF state, recovering
<1>4. state = "up" => \A e \in Dirs \ {d} : srv[e] # p
  BY <1>1, NoneAssumption DEF LifeInv, OnePerPort
<1>5. Catalog!CatalogNext
  BY <1>1, <1>2, <1>3, <1>4, AsDeploy
<1>. QED BY <1>5 DEF Maps

\* A deploy is not seen before its config is written.
LEMMA DeployStepMaps ==
  ASSUME LifeInv, LifeInv', "set" \notin Ops, NEW c \in Clients, DeployStep(c)
  PROVE  Maps
<1> DEFINE d == cl[c].dir
<1>1. /\ disk \in [Dirs -> Files] /\ srv \in [Dirs -> Ports \cup {None}]
      /\ cl \in [Clients -> Client]
  BY DEF LifeInv, Inv, TypeOK, HostTypeOK
<1>2. ASSUME NEW point \in {"port", "init", "launch", "save", "probe", "role",
                            "mkrole", "hba", "mkdir", "base"},
             At(c, point)
      PROVE  /\ d \in Dirs /\ cl[c].op \in DeployOps
             /\ disk[d] \in Files /\ srv[d] \in Ports \cup {None}
             /\ disk[d].cfg = None /\ Knows(cl[c]) /\ cl[c] \in Client
             /\ cl[c].at = point
             /\ Expects(cl[c].op, point, cl[c].cfg, cl[c].port, disk[d], srv[d])
  <2>1. point \in Points
    BY DEF Points
  <2>2. cl[c].op \in DeployOps
    BY <1>2, <2>1, Poised DEF OnTrack, DeployOps
  <2>. QED BY <1>2, <2>1, <2>2, Poised DEF Expects
\* Only the files of d change, and not its config.
<1>3. ASSUME d \in Dirs, disk[d].cfg = None, UNCHANGED srv, NEW f \in Files,
             disk' = [disk EXCEPT ![d] = f], f.cfg = disk[d].cfg
      PROVE  Maps
  <2>1. Elsewhere(d) /\ disk'[d].cfg = None
    BY <1>1, <1>3 DEF Elsewhere
  <2>. QED BY <1>3, <2>1, NoBox DEF Maps
<1>4. CASE UNCHANGED <<disk, srv>>
  BY <1>4, SameHost DEF Maps
<1>5. CASE MakeDirChoosePort(c)
  <2> DEFINE f == [disk[d] EXCEPT !.made = TRUE]
  <2>1. At(c, "mkdir") /\ UNCHANGED srv /\ disk' = [disk EXCEPT ![d] = f]
    BY <1>5 DEF MakeDirChoosePort
  <2>2. f \in Files /\ f.cfg = disk[d].cfg
    BY <1>2, <2>1 DEF Files
  <2> HIDE DEF f
  <2>. QED BY <1>2, <1>3, <2>1, <2>2
<1>6. CASE InitDb(c)
  <2> DEFINE f(data) == [disk[d] EXCEPT !.made = TRUE, !.data = data]
  <2>1. At(c, "init") /\ UNCHANGED srv
        /\ \E data \in {"primary", "partial", disk[d].data} :
             disk' = [disk EXCEPT ![d] = f(data)]
    BY <1>6 DEF InitDb
  <2>2. PICK data \in DataStates : disk' = [disk EXCEPT ![d] = f(data)]
    BY <1>2, <2>1 DEF Files, DataStates
  <2>3. f(data) \in Files /\ f(data).cfg = disk[d].cfg
    BY <1>2, <2>1 DEF Files
  <2> HIDE DEF f
  <2>. QED BY <1>2, <1>3, <2>1, <2>2, <2>3
<1>7. CASE BaseBackup(c)
  <2> DEFINE f(data) == [disk[d] EXCEPT !.data = data]
  <2>1. At(c, "base") /\ UNCHANGED srv
        /\ \/ UNCHANGED disk
           \/ \E data \in {"standby", "absent", "partial"} :
                disk' = [disk EXCEPT ![d] = f(data)]
    BY <1>7 DEF BaseBackup, Quiet, host
  <2>2. ASSUME NEW data \in DataStates, disk' = [disk EXCEPT ![d] = f(data)]
        PROVE  Maps
    <3>1. f(data) \in Files /\ f(data).cfg = disk[d].cfg
      BY <1>2, <2>1 DEF Files
    <3> HIDE DEF f
    <3>. QED BY <1>2, <1>3, <2>1, <2>2, <3>1
  <2>. QED BY <1>4, <2>1, <2>2 DEF DataStates
<1>8. CASE LaunchDeployed(c)
  <2>1. At(c, "launch")
        /\ \/ UNCHANGED <<disk, srv>>
           \/ CanStart(d, cl[c].port) /\ ServerUp(d, cl[c].port)
    BY <1>8 DEF LaunchDeployed, PgCtlStart, Quiet, host
  <2>2. CASE CanStart(d, cl[c].port) /\ ServerUp(d, cl[c].port)
    <3>1. cl[c].port \in Ports
      BY <1>2, <2>1 DEF Knows, Client
    <3>2. Elsewhere(d) /\ disk'[d].cfg = None
      BY <1>2, <2>1, <2>2, <3>1, UpSound DEF Sound
    <3>. QED BY <1>2, <2>1, <3>2, NoBox DEF Maps
  <2>. QED BY <1>4, <2>1, <2>2
<1>9. CASE SaveDeployed(c)
  <2> DEFINE role == IF cl[c].op = "standby" THEN "standby" ELSE "primary"
             cfg ==
        [port |-> cl[c].port,
         role |-> IF cl[c].op = "standby" THEN "standby" ELSE "primary",
         physical |-> IF cl[c].op = "standby"
                      THEN [src |-> cl[c].src, slot |-> cl[c].name] ELSE None,
         logical |-> None]
  <2>1. /\ At(c, "save") /\ UNCHANGED srv
        /\ UNCHANGED disk \/ disk' = [disk EXCEPT ![d].cfg = cfg]
    BY <1>9 DEF SaveDeployed, Save, Quiet, host
  <2>2. CASE disk' = [disk EXCEPT ![d].cfg = cfg]
    <3>0. d \in Dirs /\ disk[d].cfg = None
      BY <1>2, <2>1
    <3>1. cfg.port = cl[c].port /\ cfg.role = role
      OBVIOUS
    <3>2. cfg # None
      <4>1. cl[c].port \in Ports
        BY <1>2, <2>1 DEF Knows, Client
      <4>2. cl[c].op = "standby" =>
              [src |-> cl[c].src, slot |-> cl[c].name] \in Physical
        BY <1>2, <2>1 DEF Knows, Client, Physical
      <4>3. cfg \in Sandbox
        BY <4>1, <4>2 DEF Sandbox, Roles
      <4>. QED BY <4>3, SentinelAssumption
    <3> HIDE DEF cfg
    <3>3. /\ disk'[d].cfg = cfg /\ disk'[d].data = disk[d].data /\ Elsewhere(d)
      BY <1>1, <1>2, <2>1, <2>2 DEF Files, Elsewhere
    <3>4. disk[d].data = role /\ srv[d] \in {None, cl[c].port} /\ cl[c].port \in Ports
      BY <1>2, <2>1 DEF Expects, Knows, Client
    <3>5. role \in {"primary", "standby"}
      OBVIOUS
    <3> HIDE DEF role
    <3>. QED BY <2>1, <3>0, <3>1, <3>2, <3>3, <3>4, <3>5, AppearMaps
  <2>. QED BY <1>4, <2>1, <2>2
<1>10. CASE ChoosePort(c) \/ ProbeSource(c) \/ ProbeRole(c) \/ CreateRole(c)
            \/ EnsureHba(c)
  <2>1. UNCHANGED <<disk, srv>>
    BY <1>10 DEF ChoosePort, ProbeSource, ProbeRole, CreateRole, EnsureHba, Quiet,
       host
  <2>. QED BY <1>4, <2>1
<1>. QED BY <1>5, <1>6, <1>7, <1>8, <1>9, <1>10 DEF DeployStep

\* A start or a stop shows when the server comes up or goes down.
LEMMA LifecycleStepMaps ==
  ASSUME LifeInv, LifeInv', "set" \notin Ops, NEW c \in Clients, LifecycleStep(c)
  PROVE  Maps
<1> DEFINE d == cl[c].dir
<1>1. disk \in [Dirs -> Files]
  BY DEF LifeInv, Inv, TypeOK, HostTypeOK
<1>2. ASSUME NEW point \in {"start.run", "stop.unlink", "stop.run"}, At(c, point)
      PROVE  /\ d \in Dirs /\ disk[d] \in Files /\ Sane(d)
             /\ Expects(cl[c].op, point, cl[c].cfg, cl[c].port, disk[d], srv[d])
  <2>1. point \in Points
    BY DEF Points
  <2>. QED BY <1>2, <2>1, Poised
<1>3. CASE UNCHANGED <<disk, srv>>
  BY <1>3, SameHost DEF Maps
<1>4. CASE StartRun(c)
  <2>1. At(c, "start.run")
        /\ \/ UNCHANGED <<disk, srv>>
           \/ CanStart(d, cl[c].port) /\ ServerUp(d, cl[c].port)
    BY <1>4 DEF StartRun, PgCtlStart, Quiet, host
  <2>2. CASE CanStart(d, cl[c].port) /\ ServerUp(d, cl[c].port)
    <3>1. d \in Dirs /\ disk[d].cfg # None /\ cl[c].port = disk[d].cfg.port
      BY <1>2, <2>1 DEF Expects
    <3>2. cl[c].port \in Ports
      BY <1>2, <2>1, <3>1, SentinelAssumption DEF Files, Sandbox
    <3>. QED BY <2>2, <3>1, <3>2, UpMaps
  <2>. QED BY <1>3, <2>1, <2>2
<1>5. CASE StopUnlink(c)
  <2>1. /\ At(c, "stop.unlink") /\ UNCHANGED srv
        /\ disk' = [disk EXCEPT ![d].pid = "none"]
    BY <1>5 DEF StopUnlink
  <2>2. /\ d \in Dirs /\ Elsewhere(d)
        /\ disk'[d].cfg = disk[d].cfg /\ disk'[d].data = disk[d].data
    BY <1>1, <1>2, <2>1 DEF Files, Elsewhere
  <2>. QED BY <2>1, <2>2, SameFace DEF Maps
<1>6. CASE StopRun(c)
  <2>1. At(c, "stop.run")
        /\ \/ UNCHANGED <<disk, srv>>
           \/ disk[d].pid = "live" /\ ServerDown(d, "none")
    BY <1>6 DEF StopRun, Quiet, host
  <2>2. CASE disk[d].pid = "live" /\ ServerDown(d, "none")
    <3>1. d \in Dirs /\ srv[d] # None
      BY <1>2, <2>1, <2>2 DEF Sane, Coherent
    <3>. QED BY <2>2, <3>1, DownMaps
  <2>. QED BY <1>3, <2>1, <2>2
<1>7. CASE StartLoad(c) \/ StopLoad(c)
  BY <1>3, <1>7 DEF StartLoad, StopLoad, Quiet, host
<1>. QED BY <1>4, <1>5, <1>6, <1>7 DEF LifecycleStep

\* The config of a sandbox, if it had one, goes with its directory or stays
\* behind in what is left of it.
LEMMA RemoveMaps ==
  ASSUME LifeInv, LifeInv', "set" \notin Ops, NEW d \in Dirs, disk[d].cfg # None,
         Elsewhere(d), disk'[d].cfg \in {None, disk[d].cfg},
         disk'[d].cfg # None => disk'[d].data = "torn"
  PROVE  Maps
<1> DEFINE role == disk[d].cfg.role
           port == disk[d].cfg.port
           state == BoxState(disk[d].data, srv[d])
           before == Recovers(disk[d].data)
           after == Recovers(disk'[d].data)
<1>1. BoxOf(d) = Card(role, port, state, before) /\ BoxOf(d) # None
  BY BoxHere
<1>2. CASE disk'[d].cfg = None
  <2>1. BoxOf(d)' = None
    BY <1>2 DEF BoxOf
  <2>2. Catalog!CatalogNext
    BY <1>1, <2>1, AsDestroy
  <2>. QED BY <2>2 DEF Maps
<1>3. CASE disk'[d].cfg # None
  <2>1. BoxState(disk'[d].data, srv'[d]) = "damaged" /\ after = FALSE
    BY <1>3 DEF BoxState, Recovers, Complete
  <2>2. BoxOf(d)' = Card(role, port, "damaged", after)
    BY <1>3, <2>1, BoxThere
  <2> HIDE DEF role, port, state, before, after
  <2>3. Catalog!CatalogNext
    BY <1>1, <2>1, <2>2, AsDamage
  <2>. QED BY <2>3 DEF Maps
<1>. QED BY <1>2, <1>3

\* destroy shows when the server goes down and when the directory goes.
LEMMA DestroyStepMaps ==
  ASSUME LifeInv, LifeInv', "set" \notin Ops, NEW c \in Clients, DestroyStep(c)
  PROVE  Maps
<1> DEFINE d == cl[c].dir
<1>1. disk \in [Dirs -> Files] /\ srv \in [Dirs -> Ports \cup {None}]
  BY DEF LifeInv, Inv, TypeOK, HostTypeOK
<1>2. ASSUME NEW point \in {"destroy.stop", "destroy.rm"}, At(c, point)
      PROVE  d \in Dirs /\ Sane(d) /\ disk[d].cfg # None
  <2>1. point \in Points
    BY DEF Points
  <2>. QED BY <1>2, <2>1, Poised DEF Knows, Expects
<1>3. CASE UNCHANGED <<disk, srv>>
  BY <1>3, SameHost DEF Maps
<1>4. CASE DestroyStop(c)
  <2>1. At(c, "destroy.stop")
        /\ \/ UNCHANGED <<disk, srv>>
           \/ disk[d].pid = "live" /\ ServerDown(d, "none")
    BY <1>4 DEF DestroyStop, Quiet, host
  <2>2. CASE disk[d].pid = "live" /\ ServerDown(d, "none")
    <3>1. d \in Dirs /\ srv[d] # None
      BY <1>2, <2>1, <2>2 DEF Sane, Coherent
    <3>. QED BY <2>2, <3>1, DownMaps
  <2>. QED BY <1>3, <2>1, <2>2
<1>5. CASE DestroyRemove(c)
  <2>1. /\ At(c, "destroy.rm")
        /\ \/ Removed(d, NoFiles)
           \/ \E cfg \in {disk[d].cfg, None} :
                Removed(d, [made |-> TRUE, data |-> "torn", pid |-> "none",
                            cfg |-> cfg])
    BY <1>5 DEF DestroyRemove
  <2>2. d \in Dirs /\ disk[d].cfg # None
    BY <1>2, <2>1
  <2>3. /\ Elsewhere(d) /\ disk'[d].cfg \in {None, disk[d].cfg}
        /\ disk'[d].cfg # None => disk'[d].data = "torn"
    <3>1. CASE Removed(d, NoFiles)
      BY <1>1, <2>2, <3>1 DEF Removed, NoFiles, Elsewhere
    <3>2. ASSUME NEW cfg \in {disk[d].cfg, None},
                 Removed(d, [made |-> TRUE, data |-> "torn", pid |-> "none",
                             cfg |-> cfg])
          PROVE  /\ Elsewhere(d) /\ disk'[d].cfg \in {None, disk[d].cfg}
                 /\ disk'[d].cfg # None => disk'[d].data = "torn"
      BY <1>1, <2>2, <3>2 DEF Removed, Elsewhere
    <3>. QED BY <2>1, <3>1, <3>2
  <2>. QED BY <2>2, <2>3, RemoveMaps
<1>6. CASE DestroyLoad(c) \/ DropSubscription(c) \/ SlotLoad(c) \/ SlotDrop(c)
  BY <1>3, <1>6 DEF DestroyLoad, DropSubscription, SlotLoad, SlotDrop, Quiet, host
<1>. QED BY <1>4, <1>5, <1>6 DEF DestroyStep

\* A config that called its sandbox a standby calls it a primary.
LEMMA PromoteMaps ==
  ASSUME LifeInv, LifeInv', "set" \notin Ops, NEW d \in Dirs, Elsewhere(d),
         UNCHANGED srv, disk[d].cfg # None, disk[d].cfg.role = "standby",
         disk[d].data \in Complete, srv[d] # None => disk[d].data = "primary",
         disk'[d].data = disk[d].data, disk'[d].cfg # None,
         disk'[d].cfg.role = "primary",
         disk'[d].cfg.port = disk[d].cfg.port
  PROVE  Maps
<1> DEFINE port == disk[d].cfg.port
           state == BoxState(disk[d].data, srv[d])
           recovering == Recovers(disk[d].data)
<1>1. state \in {"up", "down"} /\ (state = "up" => ~recovering)
  BY DEF BoxState, Complete, Recovers
<1>2. BoxOf(d) = Card("standby", port, state, recovering) /\ BoxOf(d) # None
  BY BoxHere
<1>3. BoxOf(d)' = Card("primary", port, state, recovering)
  <2>1. BoxOf(d)' = Card(disk'[d].cfg.role, disk'[d].cfg.port,
                         BoxState(disk'[d].data, srv'[d]), Recovers(disk'[d].data))
    BY BoxThere
  <2>. QED BY <2>1
<1> HIDE DEF port, state, recovering
<1>4. Catalog!CatalogNext
  BY <1>1, <1>2, <1>3, AsPromote
<1>. QED BY <1>4 DEF Maps

\* A promote shows once, when its config says so: the sandbox's own server has
\* left recovery by then, or has gone down.
LEMMA PromoteStepMaps ==
  ASSUME LifeInv, LifeInv', Offered, "set" \notin Ops,
         NEW c \in Clients, PromoteStep(c)
  PROVE  Maps
<1> DEFINE d == cl[c].dir
<1>1. disk \in [Dirs -> Files]
  BY DEF LifeInv, Inv, TypeOK, HostTypeOK
<1>2. ASSUME NEW point \in {"promote.run", "promote.save"}, At(c, point)
      PROVE  /\ d \in Dirs /\ disk[d] \in Files
             /\ cl[c].op = "promote" /\ "promote" \in Ops
             /\ cl[c].cfg # None /\ cl[c].cfg = disk[d].cfg
             /\ disk[d].cfg.role = "standby"
             /\ Expects(cl[c].op, point, cl[c].cfg, cl[c].port, disk[d], srv[d])
  <2>1. point \in Points
    BY DEF Points
  <2>2. cl[c].op = "promote"
    BY <1>2, <2>1, Poised DEF OnTrack
  <2>3. /\ d \in Dirs /\ disk[d] \in Files /\ "promote" \in Ops
        /\ Knows(cl[c]) /\ cl[c].at = point
        /\ Expects(cl[c].op, point, cl[c].cfg, cl[c].port, disk[d], srv[d])
    BY <1>2, <2>1, <2>2, Poised DEF Offered
  <2>. QED BY <1>2, <2>2, <2>3 DEF Knows, Expects
<1>3. CASE UNCHANGED <<disk, srv>>
  BY <1>3, SameHost DEF Maps
<1>4. CASE PromoteRun(c)
  <2>1. At(c, "promote.run") /\ UNCHANGED srv
        /\ \/ UNCHANGED disk
           \/ disk[d].data = "standby" /\ disk' = [disk EXCEPT ![d].data = "promoting"]
    BY <1>4 DEF PromoteRun, Quiet, host
  <2>2. CASE disk[d].data = "standby" /\ disk' = [disk EXCEPT ![d].data = "promoting"]
    <3>1. /\ d \in Dirs /\ Elsewhere(d) /\ disk'[d].cfg = disk[d].cfg
          /\ disk'[d].data = "promoting"
      BY <1>1, <1>2, <2>1, <2>2 DEF Files, Elsewhere
    <3>. QED BY <2>1, <2>2, <3>1, SameFace DEF Maps
  <2>. QED BY <1>3, <2>1, <2>2
<1>5. CASE PromoteSave(c)
  <2> DEFINE cfg == [cl[c].cfg EXCEPT !.role = "primary", !.physical = None]
  <2>1. /\ At(c, "promote.save") /\ UNCHANGED srv
        /\ UNCHANGED disk \/ disk' = [disk EXCEPT ![d].cfg = cfg]
    BY <1>5 DEF PromoteSave, Save, Quiet, host
  <2>2. CASE disk' = [disk EXCEPT ![d].cfg = cfg]
    <3>1. disk[d].data \in Complete /\ (srv[d] # None => disk[d].data = "primary")
      BY <1>2, <2>1 DEF Expects
    <3>2. cl[c].cfg \in Sandbox
      BY <1>2, <2>1 DEF Files
    <3>3. cfg \in Sandbox /\ cfg.role = "primary" /\ cfg.port = cl[c].cfg.port
      BY <3>2 DEF Sandbox, Roles
    <3> HIDE DEF cfg
    <3>4. cfg # None
      BY <3>3, SentinelAssumption
    <3>5. /\ d \in Dirs /\ disk[d].cfg # None /\ disk[d].cfg.role = "standby"
          /\ cl[c].cfg = disk[d].cfg
      BY <1>2, <2>1
    <3>6. disk'[d].cfg = cfg /\ disk'[d].data = disk[d].data /\ Elsewhere(d)
      BY <1>1, <2>1, <2>2, <3>5 DEF Files, Elsewhere
    <3>. QED BY <2>1, <3>1, <3>3, <3>4, <3>5, <3>6, PromoteMaps
  <2>. QED BY <1>3, <2>1, <2>2
<1>6. CASE PromoteLoad(c) \/ PromoteWait(c)
  BY <1>3, <1>6 DEF PromoteLoad, PromoteWait, Quiet, host
<1>. QED BY <1>4, <1>5, <1>6 DEF PromoteStep

\* publish changes what is in a database, and nothing of the sandbox itself but
\* through the stop and the start in between.
LEMMA LogicalStepMaps ==
  ASSUME LifeInv, Offered, "subscriber" \notin Ops, "subscribe" \notin Ops,
         NEW c \in Clients, LogicalStep(c)
  PROVE  Maps
<1>1. CASE UNCHANGED <<disk, srv>>
  BY <1>1, SameHost DEF Maps
<1>2. ASSUME SubscribeSave(c) PROVE FALSE
  <2>1. At(c, "sub.save") /\ "sub.save" \in Points
    BY <1>2 DEF SubscribeSave, Points
  <2>2. cl[c].op \in Ops /\ OnTrack(cl[c].op, "sub.save")
    BY <2>1, Poised DEF Offered
  <2>. QED BY <2>2 DEF OnTrack
<1>3. CASE PublishLoad(c) \/ ShowWalLevel(c) \/ AlterSystem(c)
           \/ CreatePublication(c) \/ SubscribeLoad(c) \/ CreateSubscription(c)
  BY <1>1, <1>3 DEF PublishLoad, ShowWalLevel, AlterSystem, CreatePublication,
     SubscribeLoad, CreateSubscription, Quiet, host
<1>. QED BY <1>2, <1>3 DEF LogicalStep

LEMMA SetStepMaps ==
  ASSUME LifeInv, Offered, "set" \notin Ops, NEW c \in Clients, SetStep(c)
  PROVE  Maps
<1>1. PICK point \in {"set.load", "set.save"} : At(c, point)
  BY DEF SetStep, SetLoad, SetSave
<1>2. point \in Points
  BY DEF Points
<1>3. cl[c].op \in Ops /\ OnTrack(cl[c].op, point)
  BY <1>1, <1>2, Poised DEF Offered
<1>. QED BY <1>1, <1>3 DEF OnTrack

LEMMA MachineMaps ==
  ASSUME LifeInv, LifeInv', "set" \notin Ops, Machine
  PROVE  Maps
<1>1. disk \in [Dirs -> Files]
  BY DEF LifeInv, Inv, TypeOK, HostTypeOK
<1>2. ASSUME NEW d \in Dirs, FinishPromotion(d) PROVE Maps
  <2>1. /\ disk[d].data = "promoting" /\ srv[d] # None /\ UNCHANGED srv
        /\ disk' = [disk EXCEPT ![d].data = "primary"]
    BY <1>2 DEF FinishPromotion
  <2>2. Elsewhere(d) /\ disk'[d].cfg = disk[d].cfg /\ disk'[d].data = "primary"
    BY <1>1, <2>1 DEF Files, Elsewhere
  <2>3. CASE disk[d].cfg = None
    BY <2>2, <2>3, NoBox DEF Maps
  <2>4. CASE disk[d].cfg # None
    <3> DEFINE role == disk[d].cfg.role
               port == disk[d].cfg.port
               before == Recovers(disk[d].data)
               after == Recovers(disk'[d].data)
    <3>1. /\ BoxState(disk[d].data, srv[d]) = "up"
          /\ BoxState(disk'[d].data, srv'[d]) = "up"
          /\ before = TRUE /\ after = FALSE
      BY <2>1, <2>2 DEF BoxState, Recovers, Complete
    <3>2. /\ BoxOf(d) = Card(role, port, "up", before) /\ BoxOf(d) # None
          /\ BoxOf(d)' = Card(role, port, "up", after)
      BY <2>2, <2>4, <3>1, BoxHere, BoxThere
    <3> HIDE DEF role, port, before, after
    <3>3. Catalog!CatalogNext
      BY <2>2, <3>1, <3>2, AsLeaveRecovery
    <3>. QED BY <3>3 DEF Maps
  <2>. QED BY <2>3, <2>4
<1>3. ASSUME NEW d \in Dirs, KillServer(d) PROVE Maps
  <2>1. srv[d] # None /\ ServerDown(d, "dead")
    BY <1>3 DEF KillServer, LifeInv, Sane, Coherent
  <2>. QED BY <2>1, DownMaps
<1>4. ASSUME NEW d \in Dirs, ReusePid(d) PROVE Maps
  <2>1. UNCHANGED srv /\ disk' = [disk EXCEPT ![d].pid = "reused"]
    BY <1>4 DEF ReusePid
  <2>2. /\ Elsewhere(d) /\ disk'[d].cfg = disk[d].cfg
        /\ disk'[d].data = disk[d].data
    BY <1>1, <2>1 DEF Files, Elsewhere
  <2>. QED BY <2>1, <2>2, SameFace DEF Maps
<1>5. ASSUME NEW d \in Dirs, LocklessExit(d) PROVE FALSE
  BY <1>5 DEF LocklessExit, LifeInv, Sane, Coherent
<1>6. ASSUME NEW p \in Ports, StrayExit(p) PROVE Maps
  BY <1>6, SameHost DEF StrayExit, Maps
<1>. QED BY <1>2, <1>3, <1>4, <1>5, <1>6 DEF Machine

\* Every server goes down at once.
LEMMA RebootMaps ==
  ASSUME LifeInv, LifeInv', "set" \notin Ops, Reboot
  PROVE  Maps
<1> DEFINE D == {d \in Dirs : disk[d].cfg # None /\ srv[d] # None}
<1>1. disk \in [Dirs -> Files]
  BY DEF LifeInv, Inv, TypeOK, HostTypeOK
<1>2. ASSUME NEW d \in Dirs
      PROVE  /\ srv'[d] = None /\ disk'[d].data = Settled(disk[d].data)
             /\ disk'[d].cfg = disk[d].cfg
  BY <1>1 DEF Reboot, Files
<1>3. D \in SUBSET Dirs /\ \A d \in D : disk[d].cfg # None /\ srv[d] # None
  OBVIOUS
<1>4. ASSUME NEW d \in Dirs, d \notin D PROVE BoxOf(d)' = AllBoxes[d]
  <2>1. CASE disk[d].cfg = None
    BY <1>2, <2>1 DEF BoxOf, AllBoxes
  <2>2. CASE srv[d] = None
    BY <1>2, <2>2 DEF BoxOf, AllBoxes, Settled, Complete
  <2>. QED BY <1>4, <2>1, <2>2
<1> HIDE DEF D
<1>5. ASSUME NEW d \in D
      PROVE  /\ AllBoxes[d] # None /\ AllBoxes[d].state = "up"
             /\ BoxOf(d)' = [AllBoxes[d] EXCEPT !.state = "down"]
  <2> DEFINE role == disk[d].cfg.role
             port == disk[d].cfg.port
             recovering == Recovers(disk[d].data)
  <2>1. d \in Dirs /\ disk[d].cfg # None /\ srv[d] # None
    BY <1>3
  <2>2. /\ BoxState(disk[d].data, srv[d]) = "up"
        /\ BoxState(disk'[d].data, srv'[d]) = "down"
        /\ Recovers(disk'[d].data) = Recovers(disk[d].data)
    BY <1>2, <2>1 DEF BoxState, Recovers, Settled, Complete, LifeInv, Sane, Coherent
  <2>3. /\ AllBoxes[d] = Card(role, port, "up", recovering) /\ AllBoxes[d] # None
        /\ BoxOf(d)' = Card(role, port, "down", recovering)
    BY <1>2, <2>1, <2>2, BoxHere, BoxThere DEF AllBoxes
  <2> HIDE DEF role, port, recovering
  <2>. QED BY <2>3, Cards
<1>6. CASE D = {}
  BY <1>4, <1>6 DEF AllBoxes, Maps
<1>7. CASE D # {}
  BY <1>3, <1>4, <1>5, <1>7, AsGoDown DEF Maps
<1>. QED BY <1>6, <1>7

LEMMA StepMaps ==
  ASSUME LifeInv, LifeInv', Offered, "set" \notin Ops,
         "subscriber" \notin Ops, "subscribe" \notin Ops, [Next]_vars
  PROVE  Maps
<1>1. CASE UNCHANGED vars
  BY <1>1, SameHost DEF vars, Maps
<1>2. ASSUME NEW c \in Clients, BeginCall(c) \/ KillClient(c) PROVE Maps
  <2>1. UNCHANGED <<disk, srv>>
    BY <1>2 DEF BeginCall, BeginDeploy, BeginLifecycle, BeginDestroy, BeginPromote,
       BeginPublish, BeginSubscribe, BeginSet, Begin, KillClient, Quiet, host
  <2>. QED BY <2>1, SameHost DEF Maps
<1>3. ASSUME NEW c \in Clients, ClientStep(c) PROVE Maps
  BY <1>3, DeployStepMaps, LifecycleStepMaps, DestroyStepMaps, PromoteStepMaps,
     LogicalStepMaps, SetStepMaps DEF ClientStep
<1>. QED BY <1>1, <1>2, <1>3, MachineMaps, RebootMaps DEF Next, Environment

LEMMA InitMaps == Init => Catalog!CatalogInit
BY DEF Init, HostInit, NoFiles, Catalog!CatalogInit, BoxOf

\* However many commands are in flight, are killed or fail, and whatever crashes
\* with them, what an operator sees of the sandboxes is the catalogue.  A config
\* set port= moves a sandbox to a port the catalogue does not know it by, and a
\* subscribe gives it a role the catalogue does not have.
THEOREM SandboxesImplementCatalog ==
  ASSUME Disciplined, "set" \notin Ops,
         "subscriber" \notin Ops, "subscribe" \notin Ops
  PROVE  Spec => ImplementsCatalog
<1>1. Init => Catalog!CatalogInit
  BY InitMaps
<1>2. LifeInv /\ LifeInv' /\ Offered /\ [Next]_vars =>
        Catalog!CatalogNext \/ UNCHANGED [d \in Dirs |-> BoxOf(d)]
  BY StepMaps DEF Maps, AllBoxes
<1>3. Spec => []LifeInv
  BY AlwaysLife
<1>. QED BY <1>1, <1>2, <1>3, AlwaysOffered, PTL
     DEF Spec, ImplementsCatalog, Catalog!CatalogSpec

-----------------------------------------------------------------------------
\* psql and pg_basebackup reach the sandbox they are meant for

\* No command works on a sandbox that another one reads as its source.
Unread ==
  \A b, c \in Clients :
    b # c /\ InFlight(b) /\ InFlight(c) => cl[b].dir # cl[c].src

OnPort(d, p) == d \in Dirs /\ p \in Ports /\ srv[d] = p

\* Where a command holds the port of its source, and where it takes its own
\* server to be up.
Reading == {"role", "mkrole", "hba", "mkdir", "base", "slot.drop", "sub.create"}

OwnServerUp(op, at) ==
  \/ at \in {"pub.show", "pub.alter", "pub.create", "destroy.sub"}
  \/ op = "subscriber" /\ at \in {"save", "sub.load", "sub.create"}

\* What holds of an invocation k in flight on account of it.
Reaches(k) ==
  /\ k.at \in Reading => OnPort(k.src, k.peer)
  /\ OwnServerUp(k.op, k.at) => srv[k.dir] # None
  /\ k.op = "publish" /\ k.at # "pub.load" => k.cfg # None
  /\ k.op \in {"destroy", "promote"} => k.src = SourceOf(k.dir)

ReachInv ==
  LifeInv /\ Unread /\ \A c \in Clients : InFlight(c) => Reaches(cl[c])

LEMMA OneServes ==
  ASSUME OnePerPort, NEW d, NEW p, OnPort(d, p)
  PROVE  Serving(p) = {d}
BY NoneAssumption DEF OnePerPort, OnPort, Serving

\* A pidfile with a live process is that of the server, and it is on the port
\* its config records.
LEMMA RunningOnPort ==
  ASSUME LifeInv, "set" \notin Ops, "pid" \notin Faults, NEW d \in Dirs,
         disk[d].cfg # None, IsRunning(d)
  PROVE  OnPort(d, disk[d].cfg.port)
<1>1. srv[d] \in Ports \cup {None} /\ Sane(d)
  BY DEF LifeInv, Inv, TypeOK, HostTypeOK
<1>2. srv[d] # None
  BY <1>1 DEF Sane, Coherent, IsRunning
<1>. QED BY <1>1, <1>2 DEF Sane, Coherent, OnPort

\* Its own server is on the port a command remembers.
LEMMA OwnOnPort ==
  ASSUME LifeInv, "set" \notin Ops, NEW c \in Clients, InFlight(c),
         cl[c].cfg # None, srv[cl[c].dir] # None
  PROVE  OnPort(cl[c].dir, cl[c].cfg.port)
<1>1. cl[c].dir \in Dirs /\ srv \in [Dirs -> Ports \cup {None}]
  BY DEF LifeInv, Inv, TypeOK, HostTypeOK, CallsWellFormed
<1>2. cl[c].cfg = disk[cl[c].dir].cfg /\ Sane(cl[c].dir)
  BY <1>1 DEF LifeInv, Holds, Expects
<1>. QED BY <1>1, <1>2 DEF Sane, Coherent, OnPort

\* A step of one command, which still has in reach what it needs, leaves to the
\* others what they need.
LEMMA StaysReaching ==
  ASSUME ReachInv, LifeInv', NEW c \in Clients, ClientStep(c),
         InFlight(c)' => Reaches(cl[c])'
  PROVE  ReachInv'
<1> DEFINE d == cl[c].dir
<1>1. /\ HostTypeOK /\ cl \in [Clients -> Client] /\ InFlight(c) /\ d \in Dirs
      /\ \A b \in Clients : InFlight(b) => cl[b].dir \in Dirs
  BY StepIsInFlight DEF ReachInv, LifeInv, Inv, TypeOK, CallsWellFormed
<1>2. /\ \A b \in Clients \ {c} : cl'[b] = cl[b]
      /\ InFlight(c)' => cl'[c].dir = d /\ cl'[c].src = cl[c].src
  BY <1>1, OneMoves
<1>3. Elsewhere(d)
  BY <1>1, OwnSandboxOnly
<1>4. Unread'
  BY <1>1, <1>2 DEF ReachInv, Unread, InFlight
<1>5. ASSUME NEW b \in Clients, InFlight(b)' PROVE Reaches(cl[b])'
  <2>1. CASE b = c
    BY <1>5, <2>1
  <2>2. CASE b # c
    <3>1. cl'[b] = cl[b] /\ InFlight(b) /\ Reaches(cl[b])
      BY <1>2, <1>5, <2>2 DEF ReachInv, InFlight
    <3>2. cl[b].dir \in Dirs \ {d} /\ cl[b].src # d
      BY <1>1, <2>2, <3>1 DEF ReachInv, LifeInv, Apart, Unread
    <3>3. disk'[cl[b].dir] = disk[cl[b].dir] /\ srv'[cl[b].dir] = srv[cl[b].dir]
      BY <1>3, <3>2 DEF Elsewhere
    <3>4. SourceOf(cl[b].dir)' = SourceOf(cl[b].dir)
      BY <3>1, <3>3 DEF SourceOf
    <3>5. OnPort(cl[b].src, cl[b].peer) => OnPort(cl[b].src, cl[b].peer)'
      BY <1>3, <3>1, <3>2 DEF Elsewhere, OnPort
    <3>. QED BY <3>1, <3>3, <3>4, <3>5 DEF Reaches
  <2>. QED BY <2>1, <2>2
<1>. QED BY <1>4, <1>5 DEF ReachInv

\* The command goes on to a point where what it needs is in reach.
LEMMA GoReaches ==
  ASSUME ReachInv, NEW c \in Clients, InFlight(c), NEW point, Go(c, point),
         point \in Reading => cl[c].at \in Reading /\ srv' = srv,
         OwnServerUp(cl[c].op, point) => srv'[cl[c].dir] # None,
         cl[c].op = "publish" => cl[c].at # "pub.load",
         cl[c].op \in {"destroy", "promote"} =>
           disk'[cl[c].dir].cfg = disk[cl[c].dir].cfg
  PROVE  Reaches(cl[c])'
<1>1. cl \in [Clients -> Client] /\ Reaches(cl[c])
  BY DEF ReachInv, LifeInv, Inv, TypeOK
<1>2. /\ cl'[c].at = point /\ cl'[c].op = cl[c].op /\ cl'[c].dir = cl[c].dir
      /\ cl'[c].cfg = cl[c].cfg /\ cl'[c].src = cl[c].src
      /\ cl'[c].peer = cl[c].peer
  BY <1>1 DEF Go, Client
<1>3. point \in Reading => OnPort(cl[c].src, cl[c].peer)'
  BY <1>1, <1>2 DEF Reaches, OnPort
<1>4. cl[c].op \in {"destroy", "promote"} =>
        SourceOf(cl[c].dir)' = SourceOf(cl[c].dir)
  BY <1>2 DEF SourceOf
<1>. QED BY <1>1, <1>2, <1>3, <1>4 DEF Reaches

LEMMA ReturnedGone ==
  ASSUME LifeInv, NEW c \in Clients, NEW outcome \in Ends, Return(c, outcome)
  PROVE  ~InFlight(c)'
BY DEF LifeInv, Inv, TypeOK, Return, Idle, InFlight

LEMMA DeployReaches ==
  ASSUME ReachInv, "set" \notin Ops, "pid" \notin Faults, NEW c \in Clients,
         DeployStep(c), InFlight(c)'
  PROVE  Reaches(cl[c])'
<1> DEFINE d == cl[c].dir
<1>1. /\ LifeInv /\ HostTypeOK /\ cl \in [Clients -> Client] /\ cl[c] \in Client
      /\ InFlight(c) /\ d \in Dirs /\ Reaches(cl[c])
      /\ OnTrack(cl[c].op, cl[c].at) /\ Knows(cl[c])
  BY StepIsInFlight DEF ReachInv, LifeInv, Inv, TypeOK, CallsWellFormed, ClientStep
<1>2. cl[c].op \in DeployOps
  BY <1>1 DEF DeployStep, ChoosePort, MakeDirChoosePort, InitDb, LaunchDeployed,
     SaveDeployed, ProbeSource, ProbeRole, CreateRole, EnsureHba, BaseBackup, At,
     OnTrack, DeployOps
<1>3. \A outcome \in Ends : ~Return(c, outcome)
  BY <1>1, ReturnedGone
<1>4. ASSUME NEW point \in {"hba", "mkrole", "mkdir", "launch"}, Go(c, point),
             point # "launch" => cl[c].at \in Reading /\ srv' = srv
      PROVE  Reaches(cl[c])'
  <2>1. cl[c].op \notin {"publish", "destroy", "promote"}
    BY <1>2 DEF DeployOps
  <2>. QED BY <1>1, <1>4, <2>1, GoReaches DEF Reading, OwnServerUp
<1>5. CASE ChoosePort(c) \/ MakeDirChoosePort(c)
  <2>1. /\ srv' = srv
        /\ \/ cl[c].at = "port" /\ ResolvePort(c, "init")
           \/ cl[c].at = "mkdir" /\ ResolvePort(c, "base")
    BY <1>5 DEF ChoosePort, MakeDirChoosePort, Quiet, host, At
  <2>2. PICK next \in {"init", "base"} :
          /\ \E p : cl' = [cl EXCEPT ![c].port = p, ![c].at = next]
          /\ next = "base" => cl[c].at = "mkdir"
    BY <1>3, <2>1 DEF ResolvePort, Ends
  <2>3. /\ cl'[c].at = next /\ cl'[c].op = cl[c].op /\ cl'[c].dir = d
        /\ cl'[c].src = cl[c].src /\ cl'[c].peer = cl[c].peer
    BY <1>1, <2>2 DEF Client
  <2>. QED BY <1>1, <1>2, <2>1, <2>2, <2>3
       DEF Reaches, Reading, OwnServerUp, OnPort, DeployOps
<1>6. CASE InitDb(c)
  <2>1. Go(c, "launch")
    BY <1>3, <1>6 DEF InitDb, Ends
  <2>. QED BY <1>4, <2>1
<1>7. CASE LaunchDeployed(c)
  <2>1. cl[c].at = "launch" /\ ServerUp(d, cl[c].port) /\ Go(c, "save")
    BY <1>3, <1>7 DEF LaunchDeployed, PgCtlStart, At, Ends
  <2>2. srv'[d] # None
    BY <1>1, <2>1 DEF ServerUp, HostTypeOK, Knows
  <2>3. cl[c].op \notin {"publish", "destroy", "promote"}
    BY <1>2 DEF DeployOps
  <2>. QED BY <1>1, <2>1, <2>2, <2>3, GoReaches DEF Reading
<1>8. CASE SaveDeployed(c)
  <2>1. /\ cl[c].at = "save" /\ cl[c].op = "subscriber" /\ Go(c, "sub.load")
        /\ srv' = srv
    BY <1>3, <1>8 DEF SaveDeployed, Save, At, Ends
  <2>2. srv[d] # None
    BY <1>1, <2>1 DEF Reaches, OwnServerUp
  <2>. QED BY <1>1, <2>1, <2>2, GoReaches DEF Reading
<1>9. CASE ProbeSource(c)
  <2> DEFINE p == disk[cl[c].src].cfg.port
  <2>1. /\ Reachable(cl[c].src) /\ srv' = srv
        /\ cl' = [cl EXCEPT ![c].peer = p, ![c].at = "role"]
    BY <1>3, <1>9 DEF ProbeSource, Quiet, host, Ends
  <2>2. OnPort(cl[c].src, p)
    BY <1>1, <2>1, RunningOnPort DEF Reachable
  <2> HIDE DEF p
  <2>3. /\ cl'[c].at = "role" /\ cl'[c].op = cl[c].op /\ cl'[c].dir = d
        /\ cl'[c].src = cl[c].src /\ cl'[c].peer = p
    BY <1>1, <2>1 DEF Client
  <2>4. OnPort(cl[c].src, cl[c].peer)'
    BY <2>1, <2>2, <2>3 DEF OnPort
  <2>. QED BY <1>2, <2>3, <2>4 DEF Reaches, Reading, OwnServerUp, DeployOps
<1>10. CASE ProbeRole(c) \/ CreateRole(c) \/ EnsureHba(c)
  <2>1. /\ cl[c].at \in Reading /\ srv' = srv
        /\ Go(c, "hba") \/ Go(c, "mkrole") \/ Go(c, "mkdir")
    BY <1>3, <1>10 DEF ProbeRole, CreateRole, EnsureHba, Quiet, host, At, Ends,
       Reading
  <2>. QED BY <1>4, <2>1
<1>11. CASE BaseBackup(c)
  <2>1. Go(c, "launch")
    BY <1>3, <1>11 DEF BaseBackup, Ends
  <2>. QED BY <1>4, <2>1
<1>. QED BY <1>5, <1>6, <1>7, <1>8, <1>9, <1>10, <1>11 DEF DeployStep

LEMMA LifecycleReaches ==
  ASSUME ReachInv, "pid" \notin Faults, NEW c \in Clients, LifecycleStep(c),
         InFlight(c)'
  PROVE  Reaches(cl[c])'
<1> DEFINE d == cl[c].dir
<1>1. /\ LifeInv /\ HostTypeOK /\ cl \in [Clients -> Client] /\ cl[c] \in Client
      /\ InFlight(c) /\ d \in Dirs /\ Reaches(cl[c]) /\ Sane(d)
      /\ OnTrack(cl[c].op, cl[c].at) /\ Holds(c)
  BY StepIsInFlight DEF ReachInv, LifeInv, Inv, TypeOK, CallsWellFormed, ClientStep
<1>2. /\ cl[c].op \in {"start", "stop", "restart", "publish"}
      /\ cl[c].at \in {"start.load", "start.run", "stop.load", "stop.unlink",
                       "stop.run"}
  BY <1>1 DEF LifecycleStep, StartLoad, StartRun, StopLoad, StopUnlink, StopRun, At,
     OnTrack
<1>3. \A outcome \in Ends : ~Return(c, outcome)
  BY <1>1, ReturnedGone
<1>4. ASSUME NEW point \in {"start.load", "stop.unlink", "stop.run", "pub.create"},
             Go(c, point), point = "pub.create" => srv'[d] # None
      PROVE  Reaches(cl[c])'
  <2>1. OwnServerUp(cl[c].op, point) => srv'[d] # None
    BY <1>2, <1>4 DEF OwnServerUp
  <2>. QED BY <1>1, <1>2, <1>4, <2>1, GoReaches DEF Reading
<1>5. CASE StartLoad(c)
  <2>1. srv' = srv
    BY <1>5 DEF StartLoad, Quiet, host
  <2>2. CASE IsRunning(d) /\ StartDone(c)
    <3>1. srv[d] # None
      BY <1>1, <2>2 DEF IsRunning, Sane, Coherent
    <3>. QED BY <1>3, <1>4, <2>1, <2>2, <3>1 DEF StartDone, Ends
  <2> DEFINE p == disk[d].cfg.port
  <2>3. CASE cl' = [cl EXCEPT ![c].port = p, ![c].at = "start.run"]
    <3>1. /\ cl'[c].at = "start.run" /\ cl'[c].op = cl[c].op /\ cl'[c].dir = d
          /\ cl'[c].cfg = cl[c].cfg
      BY <1>1, <2>3 DEF Client
    <3>. QED BY <1>1, <1>2, <3>1 DEF Reaches, Reading, OwnServerUp
  <2>. QED BY <1>3, <1>5, <2>2, <2>3 DEF StartLoad, Ends
<1>6. CASE StartRun(c)
  <2>1. ServerUp(d, cl[c].port) /\ StartDone(c) /\ cl[c].at = "start.run"
    BY <1>3, <1>6 DEF StartRun, PgCtlStart, At, Ends
  <2>2. cl[c].port = disk[d].cfg.port /\ disk[d].cfg \in Sandbox
    BY <1>1, <2>1 DEF Holds, Expects, HostTypeOK, Files
  <2>3. srv'[d] # None
    BY <1>1, <2>1, <2>2, NoneAssumption DEF ServerUp, HostTypeOK, Sandbox
  <2>. QED BY <1>3, <1>4, <2>1, <2>3 DEF StartDone, Ends
<1>7. CASE StopLoad(c) \/ StopUnlink(c) \/ StopRun(c)
  <2>1. Go(c, "stop.run") \/ Go(c, "stop.unlink") \/ Go(c, "start.load")
    BY <1>3, <1>7 DEF StopLoad, StopUnlink, StopRun, StopDone, Ends
  <2>. QED BY <1>4, <2>1
<1>. QED BY <1>5, <1>6, <1>7 DEF LifecycleStep

LEMMA DestroyReaches ==
  ASSUME ReachInv, "set" \notin Ops, "pid" \notin Faults, NEW c \in Clients,
         DestroyStep(c), InFlight(c)'
  PROVE  Reaches(cl[c])'
<1> DEFINE d == cl[c].dir
<1>1. /\ LifeInv /\ HostTypeOK /\ cl \in [Clients -> Client] /\ cl[c] \in Client
      /\ InFlight(c) /\ d \in Dirs /\ Reaches(cl[c]) /\ Sane(d)
      /\ OnTrack(cl[c].op, cl[c].at) /\ Knows(cl[c]) /\ Holds(c)
  BY StepIsInFlight DEF ReachInv, LifeInv, Inv, TypeOK, CallsWellFormed, ClientStep
<1>2. cl[c].op \in {"destroy", "promote"} /\ cl[c].src = SourceOf(d)
  <2>1. cl[c].op \in {"destroy", "promote"}
    BY <1>1 DEF DestroyStep, DestroyLoad, DropSubscription, DestroyStop, SlotLoad,
       SlotDrop, DestroyRemove, At, OnTrack
  <2>. QED BY <1>1, <2>1 DEF Reaches
<1>3. \A outcome \in Ends : ~Return(c, outcome)
  BY <1>1, ReturnedGone
<1>4. ASSUME NEW point \in {"destroy.stop", "slot.load", "destroy.rm", "promote.save"},
             Go(c, point), disk'[d].cfg = disk[d].cfg
      PROVE  Reaches(cl[c])'
  <2>1. ~OwnServerUp(cl[c].op, point)
    BY <1>2 DEF OwnServerUp
  <2>. QED BY <1>1, <1>2, <1>4, <2>1, GoReaches DEF Reading
<1>5. CASE DestroyLoad(c)
  <2> DEFINE cfg == disk[d].cfg
             at == IF cfg.logical # None /\ IsRunning(d) THEN "destroy.sub"
                   ELSE "destroy.stop"
  <2>1. /\ cfg # None /\ UNCHANGED <<disk, srv>>
        /\ cl' = [cl EXCEPT ![c].cfg = cfg, ![c].at = at]
    BY <1>3, <1>5 DEF DestroyLoad, Quiet, host, Ends
  <2>2. at \in {"destroy.sub", "destroy.stop"} /\ (at = "destroy.sub" => IsRunning(d))
    OBVIOUS
  <2> HIDE DEF at, cfg
  <2>3. /\ cl'[c].at = at /\ cl'[c].op = cl[c].op /\ cl'[c].dir = d
        /\ cl'[c].src = cl[c].src
    BY <1>1, <2>1 DEF Client
  <2>4. IsRunning(d) => srv[d] # None
    BY <1>1 DEF IsRunning, Sane, Coherent
  <2>5. SourceOf(d)' = SourceOf(d)
    BY <2>1, <2>3 DEF SourceOf
  <2>. QED BY <1>2, <2>1, <2>2, <2>3, <2>4, <2>5 DEF Reaches, Reading, OwnServerUp
<1>6. CASE DropSubscription(c)
  <2>1. Go(c, "destroy.stop") /\ disk' = disk
    BY <1>6 DEF DropSubscription, Quiet, host
  <2>. QED BY <1>4, <2>1
<1>7. CASE DestroyStop(c)
  <2>1. /\ Go(c, "slot.load") \/ Go(c, "destroy.rm")
        /\ ServerDown(d, "none") \/ disk' = disk
    BY <1>7 DEF DestroyStop, Quiet, host
  <2>2. disk'[d].cfg = disk[d].cfg
    BY <1>1, <2>1 DEF ServerDown, HostTypeOK, Files
  <2>. QED BY <1>4, <2>1, <2>2
<1>8. CASE SlotLoad(c)
  <2> DEFINE src == cl[c].cfg.physical.src
             p == disk[src].cfg.port
  <2>1. UNCHANGED <<disk, srv>> /\ cl[c].at = "slot.load"
    BY <1>8 DEF SlotLoad, Quiet, host, At
  <2>2. CASE SlotDone(c)
    BY <1>4, <2>1, <2>2 DEF SlotDone
  <2>3. CASE Reachable(src) /\ cl' = [cl EXCEPT ![c].peer = p, ![c].at = "slot.drop"]
    <3>1. cl[c].cfg # None /\ cl[c].cfg = disk[d].cfg /\ cl[c].cfg.physical # None
      BY <1>1, <2>1 DEF Knows, Holds, Expects
    <3>2. src = cl[c].src
      BY <1>2, <3>1 DEF SourceOf
    <3>3. OnPort(cl[c].src, p)
      BY <1>1, <2>3, <3>2, RunningOnPort DEF Reachable
    <3> HIDE DEF p, src
    <3>4. /\ cl'[c].at = "slot.drop" /\ cl'[c].op = cl[c].op /\ cl'[c].dir = d
          /\ cl'[c].src = cl[c].src /\ cl'[c].peer = p
      BY <1>1, <2>3 DEF Client
    <3>5. OnPort(cl[c].src, cl[c].peer)' /\ SourceOf(d)' = SourceOf(d)
      BY <2>1, <3>3, <3>4 DEF OnPort, SourceOf
    <3>. QED BY <1>2, <3>4, <3>5 DEF Reaches, OwnServerUp
  <2>. QED BY <1>8, <2>2, <2>3 DEF SlotLoad
<1>9. CASE SlotDrop(c)
  <2>1. SlotDone(c) /\ disk' = disk
    BY <1>9 DEF SlotDrop, Quiet, host
  <2>. QED BY <1>4, <2>1 DEF SlotDone
<1>10. CASE DestroyRemove(c)
  BY <1>3, <1>10 DEF DestroyRemove, Ends
<1>. QED BY <1>5, <1>6, <1>7, <1>8, <1>9, <1>10 DEF DestroyStep

LEMMA PromoteReaches ==
  ASSUME ReachInv, NEW c \in Clients, PromoteStep(c), InFlight(c)'
  PROVE  Reaches(cl[c])'
<1> DEFINE d == cl[c].dir
<1>1. /\ LifeInv /\ HostTypeOK /\ cl \in [Clients -> Client] /\ cl[c] \in Client
      /\ InFlight(c) /\ d \in Dirs /\ Reaches(cl[c]) /\ OnTrack(cl[c].op, cl[c].at)
  BY StepIsInFlight DEF ReachInv, LifeInv, Inv, TypeOK, CallsWellFormed, ClientStep
<1>2. cl[c].op = "promote" /\ cl[c].src = SourceOf(d)
  <2>1. cl[c].op = "promote"
    BY <1>1 DEF PromoteStep, PromoteLoad, PromoteRun, PromoteWait, PromoteSave, At,
       OnTrack
  <2>. QED BY <1>1, <2>1 DEF Reaches
<1>3. \A outcome \in Ends : ~Return(c, outcome)
  BY <1>1, ReturnedGone
<1>4. ASSUME NEW point \in {"promote.wait", "slot.load", "promote.save"},
             Go(c, point), disk'[d].cfg = disk[d].cfg
      PROVE  Reaches(cl[c])'
  BY <1>1, <1>2, <1>4, GoReaches DEF OwnServerUp, Reading
<1>5. CASE PromoteLoad(c)
  <2> DEFINE cfg == disk[d].cfg
  <2>1. /\ UNCHANGED <<disk, srv>>
        /\ cl' = [cl EXCEPT ![c].cfg = cfg, ![c].at = "promote.run"]
    BY <1>3, <1>5 DEF PromoteLoad, Quiet, host, Ends
  <2> HIDE DEF cfg
  <2>2. /\ cl'[c].at = "promote.run" /\ cl'[c].op = cl[c].op /\ cl'[c].dir = d
        /\ cl'[c].src = cl[c].src
    BY <1>1, <2>1 DEF Client
  <2>3. SourceOf(d)' = SourceOf(d)
    BY <2>1, <2>2 DEF SourceOf
  <2>. QED BY <1>2, <2>2, <2>3 DEF Reaches, Reading, OwnServerUp
<1>6. CASE PromoteRun(c)
  <2>1. /\ Go(c, "promote.wait")
        /\ disk' = [disk EXCEPT ![d].data = "promoting"]
    BY <1>3, <1>6 DEF PromoteRun, Ends
  <2>2. disk'[d].cfg = disk[d].cfg
    BY <1>1, <2>1 DEF HostTypeOK, Files
  <2>. QED BY <1>4, <2>1, <2>2
<1>7. CASE PromoteWait(c)
  <2>1. disk' = disk /\ (Go(c, "slot.load") \/ Go(c, "promote.save"))
    BY <1>3, <1>7 DEF PromoteWait, Quiet, host, Ends
  <2>. QED BY <1>4, <2>1
<1>8. CASE PromoteSave(c)
  BY <1>3, <1>8 DEF PromoteSave, Save, Ends
<1>. QED BY <1>5, <1>6, <1>7, <1>8 DEF PromoteStep

LEMMA LogicalReaches ==
  ASSUME ReachInv, "set" \notin Ops, "pid" \notin Faults, NEW c \in Clients,
         LogicalStep(c), InFlight(c)'
  PROVE  Reaches(cl[c])'
<1> DEFINE d == cl[c].dir
<1>1. /\ LifeInv /\ HostTypeOK /\ cl \in [Clients -> Client] /\ cl[c] \in Client
      /\ InFlight(c) /\ d \in Dirs /\ Reaches(cl[c]) /\ OnTrack(cl[c].op, cl[c].at)
  BY StepIsInFlight DEF ReachInv, LifeInv, Inv, TypeOK, CallsWellFormed, ClientStep
<1>2. cl[c].op \in {"publish", "subscribe", "subscriber"}
  BY <1>1 DEF LogicalStep, PublishLoad, ShowWalLevel, AlterSystem, CreatePublication,
     SubscribeLoad, CreateSubscription, SubscribeSave, At, OnTrack
<1>3. \A outcome \in Ends : ~Return(c, outcome)
  BY <1>1, ReturnedGone
<1>4. CASE PublishLoad(c)
  <2> DEFINE cfg == disk[d].cfg
  <2>1. /\ Reachable(d) /\ UNCHANGED <<disk, srv>> /\ cl[c].op = "publish"
        /\ cl' = [cl EXCEPT ![c].cfg = cfg, ![c].at = "pub.show"]
    BY <1>1, <1>3, <1>4 DEF PublishLoad, Quiet, host, Ends, At, OnTrack
  <2>2. OnPort(d, cfg.port) /\ cfg # None
    BY <1>1, <2>1, RunningOnPort DEF Reachable
  <2> HIDE DEF cfg
  <2>3. /\ cl'[c].at = "pub.show" /\ cl'[c].op = "publish" /\ cl'[c].dir = d
        /\ cl'[c].cfg = cfg
    BY <1>1, <2>1 DEF Client
  <2>4. srv'[d] # None
    BY <2>1, <2>2, NoneAssumption DEF OnPort
  <2>. QED BY <2>2, <2>3, <2>4 DEF Reaches, Reading
<1>5. CASE ShowWalLevel(c) \/ AlterSystem(c)
  <2>1. /\ srv' = srv /\ cl[c].op = "publish" /\ cl[c].at \in {"pub.show", "pub.alter"}
        /\ Go(c, "pub.create") \/ Go(c, "pub.alter") \/ Go(c, "stop.load")
    BY <1>1, <1>3, <1>5
    DEF ShowWalLevel, AlterSystem, Quiet, host, Ends, At, OnTrack
  <2>2. srv[d] # None
    BY <1>1, <2>1 DEF Reaches, OwnServerUp
  <2>. QED BY <1>1, <2>1, <2>2, GoReaches DEF Reading
<1>6. CASE CreatePublication(c)
  BY <1>3, <1>6 DEF CreatePublication, Ends
<1>7. CASE SubscribeLoad(c)
  <2> DEFINE p == disk[cl[c].src].cfg.port
             cfg == disk[d].cfg
  <2>1. /\ Reachable(cl[c].src) /\ srv' = srv /\ cl[c].at = "sub.load"
        /\ cl' = [cl EXCEPT ![c].cfg = cfg, ![c].peer = p, ![c].at = "sub.create"]
    BY <1>3, <1>7 DEF SubscribeLoad, Quiet, host, Ends, At
  <2>2. OnPort(cl[c].src, p)
    BY <1>1, <2>1, RunningOnPort DEF Reachable
  <2> HIDE DEF p, cfg
  <2>3. /\ cl'[c].at = "sub.create" /\ cl'[c].op = cl[c].op /\ cl'[c].dir = d
        /\ cl'[c].src = cl[c].src /\ cl'[c].peer = p
    BY <1>1, <2>1 DEF Client
  <2>4. OnPort(cl[c].src, cl[c].peer)'
    BY <2>1, <2>2, <2>3 DEF OnPort
  <2>5. cl[c].op = "subscriber" => srv'[d] # None
    BY <1>1, <2>1 DEF Reaches, OwnServerUp
  <2>6. cl[c].op # "publish"
    BY <1>1, <2>1 DEF OnTrack
  <2>. QED BY <1>2, <2>3, <2>4, <2>5, <2>6 DEF Reaches, OwnServerUp
<1>8. CASE CreateSubscription(c)
  <2>1. Go(c, "sub.save") /\ cl[c].op # "publish"
    BY <1>1, <1>3, <1>8 DEF CreateSubscription, Ends, At, OnTrack
  <2>. QED BY <1>1, <1>2, <2>1, GoReaches DEF Reading, OwnServerUp
<1>9. CASE SubscribeSave(c)
  BY <1>3, <1>9 DEF SubscribeSave, Save, Ends
<1>. QED BY <1>4, <1>5, <1>6, <1>7, <1>8, <1>9 DEF LogicalStep

LEMMA ClientReaches ==
  ASSUME ReachInv, "set" \notin Ops, "pid" \notin Faults, NEW c \in Clients,
         cl[c].op # "set", ClientStep(c)
  PROVE  ReachInv'
<1>1. LifeInv /\ InFlight(c) /\ OnTrack(cl[c].op, cl[c].at)
  BY StepIsInFlight DEF ReachInv, LifeInv, Inv, CallsWellFormed
<1>2. LifeInv'
  BY <1>1, ClientStepLife
<1>3. ~SetStep(c)
  BY <1>1 DEF SetStep, SetLoad, SetSave, At, OnTrack
<1>4. InFlight(c)' => Reaches(cl[c])'
  BY <1>3, DeployReaches, LifecycleReaches, DestroyReaches, PromoteReaches,
     LogicalReaches DEF ClientStep
<1>. QED BY <1>2, <1>4, StaysReaching

LEMMA BeginReaches ==
  ASSUME Disciplined, ReachInv, NEW c \in Clients, BeginCall(c)
  PROVE  ReachInv'
<1>1. LifeInv' /\ HostTypeOK /\ cl \in [Clients -> Client] /\ ~InFlight(c)
      /\ \A b \in Clients : InFlight(b) => cl[b].dir \in Dirs
  BY BeginLife DEF ReachInv, LifeInv, Inv, TypeOK, CallsWellFormed, BeginCall,
     BeginDeploy, BeginLifecycle, BeginDestroy, BeginPromote, BeginPublish,
     BeginSubscribe, BeginSet, Begin
<1>2. ASSUME NEW op, NEW d \in Dirs, NEW src, NEW name, NEW port,
             NEW point \in {"port", "probe", "start.load", "stop.load",
                            "destroy.load", "promote.load", "pub.load",
                            "sub.load", "set.load"},
             op = "subscriber" => point = "port",
             op = "publish" => point = "pub.load",
             op \in {"destroy", "promote"} => src = SourceOf(d),
             Begin(c, op, point, d, src, name, port)
      PROVE  ReachInv'
  <2>1. /\ cl'[c].op = op /\ cl'[c].at = point /\ cl'[c].dir = d /\ cl'[c].src = src
        /\ \A b \in Clients \ {c} : cl'[b] = cl[b]
        /\ UNCHANGED <<disk, srv>>
    BY <1>1, <1>2 DEF Begin, Quiet, host
  <2>2. \A b \in Clients \ {c} :
          InFlight(b) => cl[b].dir # src /\ cl[b].src # d
    BY <1>2, NoneAssumption DEF Begin, Unshared, Touches
  <2>3. Unread'
    BY <2>1, <2>2 DEF ReachInv, Unread, InFlight
  <2>4. SourceOf(d)' = SourceOf(d) /\ \A e : SourceOf(e)' = SourceOf(e)
    BY <2>1 DEF SourceOf
  <2>5. Reaches(cl[c])'
    BY <1>2, <2>1, <2>4 DEF Reaches, Reading, OwnServerUp
  <2>6. ASSUME NEW b \in Clients \ {c}, InFlight(b)' PROVE Reaches(cl[b])'
    BY <2>1, <2>4, <2>6 DEF ReachInv, Reaches, OnPort, InFlight
  <2>. QED BY <1>1, <2>3, <2>5, <2>6 DEF ReachInv
<1>. QED BY <1>2
     DEF BeginCall, BeginDeploy, BeginLifecycle, BeginDestroy, BeginPromote,
         BeginPublish, BeginSubscribe, BeginSet, DeployOps

LEMMA InitReaches == Init => ReachInv
BY InitLife DEF ReachInv, Unread, Init, Idle, InFlight, Ends

LEMMA StepReaches ==
  ASSUME Disciplined, "set" \notin Ops, Faults \cap {"server", "pid"} = {},
         ReachInv, Offered, [Next]_vars
  PROVE  ReachInv'
<1>1. LifeInv'
  BY StepLife DEF ReachInv
<1>2. ASSUME UNCHANGED <<cl, srv>>, \A d \in Dirs : disk'[d].cfg = disk[d].cfg
      PROVE  ReachInv'
  <2>1. Unread'
    BY <1>2 DEF ReachInv, Unread, InFlight
  <2>2. ASSUME NEW c \in Clients, InFlight(c)' PROVE Reaches(cl[c])'
    <3>1. InFlight(c) /\ Reaches(cl[c]) /\ cl[c].dir \in Dirs
      BY <1>2, <2>2 DEF ReachInv, LifeInv, Inv, CallsWellFormed, InFlight
    <3>2. SourceOf(cl[c].dir)' = SourceOf(cl[c].dir)
      BY <1>2, <3>1 DEF SourceOf
    <3>. QED BY <1>2, <3>1, <3>2 DEF Reaches, OnPort
  <2>. QED BY <1>1, <2>1, <2>2 DEF ReachInv
<1>3. CASE UNCHANGED vars
  BY <1>2, <1>3 DEF vars
<1>4. ASSUME NEW c \in Clients, KillClient(c) PROVE ReachInv'
  <2>1. /\ cl \in [Clients -> Client] /\ UNCHANGED <<disk, srv>> /\ Return(c, "fail")
    BY <1>4 DEF ReachInv, LifeInv, Inv, TypeOK, KillClient, Quiet, host
  <2>2. ~InFlight(c)' /\ \A b \in Clients \ {c} : cl'[b] = cl[b]
    BY <2>1 DEF Return, Idle, InFlight, Ends
  <2>3. Unread'
    BY <2>2 DEF ReachInv, Unread, InFlight
  <2>4. ASSUME NEW b \in Clients, InFlight(b)' PROVE Reaches(cl[b])'
    <3>1. cl'[b] = cl[b] /\ InFlight(b) /\ Reaches(cl[b])
      BY <2>2, <2>4 DEF ReachInv, InFlight
    <3>2. SourceOf(cl[b].dir)' = SourceOf(cl[b].dir)
      BY <2>1, <3>1 DEF SourceOf
    <3>. QED BY <2>1, <3>1, <3>2 DEF Reaches, OnPort
  <2>. QED BY <1>1, <2>3, <2>4 DEF ReachInv
<1>5. CASE Machine
  <2>1. disk \in [Dirs -> Files]
    BY DEF ReachInv, LifeInv, Inv, TypeOK, HostTypeOK
  <2>2. ASSUME NEW d \in Dirs, FinishPromotion(d), UNCHANGED cl PROVE ReachInv'
    BY <1>2, <2>1, <2>2 DEF FinishPromotion, Files
  <2>3. \A d \in Dirs : ~LocklessExit(d)
    BY DEF LocklessExit, ReachInv, LifeInv, Sane, Coherent
  <2>4. ASSUME NEW p, StrayExit(p), UNCHANGED cl PROVE ReachInv'
    BY <1>2, <2>4 DEF StrayExit
  <2>. QED BY <1>5, <2>2, <2>3, <2>4 DEF Machine, MayFail
<1>6. CASE Reboot
  BY <1>1, <1>6 DEF Reboot, ReachInv, Unread, Idle, InFlight, Ends
<1>7. ASSUME NEW c \in Clients, ClientStep(c) PROVE ReachInv'
  BY <1>7, ClientReaches, StepIsInFlight DEF Offered
<1>. QED BY <1>3, <1>4, <1>5, <1>6, <1>7, BeginReaches DEF Next, Environment

LEMMA AlwaysReaches ==
  ASSUME Disciplined, "set" \notin Ops, Faults \cap {"server", "pid"} = {}
  PROVE  Spec => []ReachInv
<1>1. ReachInv /\ Offered /\ [Next]_vars => ReachInv'
  BY StepReaches
<1>. QED BY <1>1, InitReaches, AlwaysOffered, PTL DEF Spec

\* What each command changes in databases lies where it is meant to.
LEMMA OwnDatabases ==
  ASSUME ReachInv, "set" \notin Ops, NEW c \in Clients, cl[c].op # "subscribe",
         ClientStep(c)
  PROVE  \A e \in Dirs \ Touches(c) : db'[e] = db[e]
<1> DEFINE d == cl[c].dir
           src == cl[c].src
           Within == \A e \in Dirs \ Touches(c) : db'[e] = db[e]
<1>1. /\ LifeInv /\ HostTypeOK /\ InFlight(c) /\ d \in Dirs /\ Reaches(cl[c])
      /\ OnTrack(cl[c].op, cl[c].at) /\ Knows(cl[c]) /\ OnePerPort
      /\ db \in [Dirs -> Database]
  BY StepIsInFlight
  DEF ReachInv, LifeInv, Inv, TypeOK, HostTypeOK, CallsWellFormed
<1>2. \A e \in Dirs \ Touches(c) : e # d /\ e # src
  BY NoneAssumption DEF Touches
<1>3. db' = db => Within
  OBVIOUS
<1>4. cl[c].at \in Reading => Serving(cl[c].peer) = {src}
  BY <1>1, OneServes DEF Reaches
<1>5. cl[c].cfg # None /\ OwnServerUp(cl[c].op, cl[c].at) =>
        Serving(cl[c].cfg.port) = {d}
  BY <1>1, OwnOnPort, OneServes DEF Reaches
<1>6. CASE DeployStep(c)
  <2>1. CASE CreateRole(c)
    <3>1. cl[c].at \in Reading
      BY <2>1 DEF CreateRole, At, Reading
    <3>2. db' = db \/ db' = [db EXCEPT ![src].repl = TRUE]
      BY <1>4, <2>1, <3>1 DEF CreateRole, Quiet, host
    <3>. QED BY <1>1, <1>2, <3>2
  <2>2. CASE EnsureHba(c)
    <3>1. db' = db \/ db' = [db EXCEPT ![src].hba = TRUE]
      BY <2>2 DEF EnsureHba, Quiet, host
    <3>. QED BY <1>1, <1>2, <3>1
  <2>3. CASE BaseBackup(c)
    <3>1. cl[c].at \in Reading
      BY <2>3 DEF BaseBackup, At, Reading
    <3>2. CASE db' = db
      BY <3>2
    <3>3. Upstream(c) \subseteq {src}
      BY <1>4, <3>1 DEF Upstream
    <3> DEFINE new == {[name |-> cl[c].name, owner |-> d]}
               got(x) == [db EXCEPT ![d] = x]
    <3>4. \/ db' = db
          \/ db' = [db EXCEPT ![src].slots = @ \cup new]
          \/ \E x : db' = [got(x) EXCEPT ![src].slots = @ \cup new]
      BY <2>3, <3>3 DEF BaseBackup, Quiet, host
    <3> HIDE DEF new
    <3>5. ASSUME NEW x, db' = [got(x) EXCEPT ![src].slots = @ \cup new] PROVE Within
      <4>1. \A e \in Dirs \ {d} : got(x)[e] = db[e]
        BY <1>1
      <4>2. \A e \in Dirs \ {src} : db'[e] = got(x)[e]
        BY <1>1, <3>5
      <4>. QED BY <1>2, <4>1, <4>2
    <3>. QED BY <1>1, <1>2, <3>4, <3>5
  <2>4. CASE LaunchDeployed(c)
    <3>1. db' = db \/ db' = [db EXCEPT ![d].walLive = db[d].walConf]
      BY <2>4 DEF LaunchDeployed, PgCtlStart, ServerUp, Quiet, host
    <3>. QED BY <1>1, <1>2, <3>1
  <2>5. CASE ChoosePort(c) \/ MakeDirChoosePort(c) \/ InitDb(c) \/ SaveDeployed(c)
             \/ ProbeSource(c) \/ ProbeRole(c)
    BY <2>5 DEF ChoosePort, MakeDirChoosePort, InitDb, SaveDeployed, Save,
       ProbeSource, ProbeRole, Quiet, host
  <2>. QED BY <1>6, <2>1, <2>2, <2>3, <2>4, <2>5 DEF DeployStep
<1>7. CASE LifecycleStep(c)
  <2>1. \/ db' = db
        \/ db' = [db EXCEPT ![d].walLive = db[d].walConf]
        \/ db' = [db EXCEPT ![d].walLive = FALSE]
    BY <1>7 DEF LifecycleStep, StartLoad, StartRun, StopLoad, StopUnlink, StopRun,
       PgCtlStart, ServerUp, ServerDown, Quiet, host
  <2>. QED BY <1>1, <1>2, <2>1
<1>8. CASE DestroyStep(c)
  <2>1. CASE DropSubscription(c)
    <3>1. cl[c].cfg # None /\ OwnServerUp(cl[c].op, cl[c].at)
      BY <1>1, <2>1 DEF DropSubscription, At, OwnServerUp, Knows
    <3> DEFINE sub == cl[c].cfg.logical.sub
    <3>2. db' = db \/ db' = [db EXCEPT ![d].subs = {s \in @ : s.name # sub}]
      BY <1>5, <2>1, <3>1 DEF DropSubscription, Quiet, host
    <3>. QED BY <1>1, <1>2, <3>2
  <2>2. CASE SlotDrop(c)
    <3>1. cl[c].at \in Reading
      BY <2>2 DEF SlotDrop, At, Reading
    <3> DEFINE slot == cl[c].cfg.physical.slot
    <3>2. db' = db \/ db' = [db EXCEPT ![src].slots = {s \in @ : s.name # slot}]
      BY <1>4, <2>2, <3>1 DEF SlotDrop, Quiet, host
    <3>. QED BY <1>1, <1>2, <3>2
  <2>3. CASE DestroyStop(c)
    <3>1. db' = db \/ db' = [db EXCEPT ![d].walLive = FALSE]
      BY <2>3 DEF DestroyStop, ServerDown, Quiet, host
    <3>. QED BY <1>1, <1>2, <3>1
  <2>4. CASE DestroyRemove(c)
    <3>1. db' = [db EXCEPT ![d] = NoDatabase]
      BY <2>4 DEF DestroyRemove, Removed
    <3>. QED BY <1>1, <1>2, <3>1
  <2>5. CASE DestroyLoad(c) \/ SlotLoad(c)
    BY <2>5 DEF DestroyLoad, SlotLoad, Quiet, host
  <2>. QED BY <1>8, <2>1, <2>2, <2>3, <2>4, <2>5 DEF DestroyStep
<1>9. CASE PromoteStep(c)
  BY <1>9 DEF PromoteStep, PromoteLoad, PromoteRun, PromoteWait, PromoteSave, Save,
     Quiet, host
<1>10. CASE LogicalStep(c)
  <2>1. CASE AlterSystem(c) \/ CreatePublication(c)
    <3>1. cl[c].cfg # None /\ OwnServerUp(cl[c].op, cl[c].at)
      BY <1>1, <2>1
      DEF AlterSystem, CreatePublication, At, OwnServerUp, OnTrack, Reaches
    <3>2. \/ db' = db
          \/ db' = [db EXCEPT ![d].walConf = TRUE]
          \/ db' = [db EXCEPT ![d].pub = TRUE]
      BY <1>5, <2>1, <3>1 DEF AlterSystem, CreatePublication, Quiet, host
    <3>. QED BY <1>1, <1>2, <3>2
  <2>2. CASE CreateSubscription(c)
    <3>1. /\ cl[c].cfg # None /\ cl[c].at \in Reading
          /\ OwnServerUp(cl[c].op, cl[c].at)
      BY <1>1, <2>2 DEF CreateSubscription, At, OwnServerUp, OnTrack, Knows, Reading
    <3> DEFINE sub(r) == {[name |-> cl[c].name, pub |-> r]}
               slot(r) == {[name |-> cl[c].name, owner |-> r]}
    <3>2. \/ db' = db
          \/ \E rp \in {d} \X {src} :
               db' = [db EXCEPT ![rp[1]].subs = @ \cup sub(rp[2]),
                                ![rp[2]].slots = @ \cup slot(rp[1])]
      BY <1>4, <1>5, <2>2, <3>1 DEF CreateSubscription, Quiet, host
    <3> HIDE DEF sub, slot
    <3>3. \/ db' = db
          \/ db' = [db EXCEPT ![d].subs = @ \cup sub(src),
                              ![src].slots = @ \cup slot(d)]
      BY <3>2
    <3>. QED BY <1>1, <1>2, <3>3
  <2>3. CASE PublishLoad(c) \/ ShowWalLevel(c) \/ SubscribeLoad(c) \/ SubscribeSave(c)
    BY <2>3 DEF PublishLoad, ShowWalLevel, SubscribeLoad, SubscribeSave, Save, Quiet,
       host
  <2>. QED BY <1>10, <2>1, <2>2, <2>3 DEF LogicalStep
<1>11. CASE SetStep(c)
  BY <1>11 DEF SetStep, SetLoad, SetSave, Save, Quiet, host
<1>. QED BY <1>6, <1>7, <1>8, <1>9, <1>10, <1>11 DEF ClientStep

\* A step in which an invocation in flight moves is its own, or an end put to it.
LEMMA WhoMoves ==
  ASSUME cl \in [Clients -> Client], NEW c \in Clients, InFlight(c), cl'[c] # cl[c],
         [Next]_vars
  PROVE  ClientStep(c) \/ KillClient(c) \/ Reboot
<1>1. ~BeginCall(c) /\ (\A b \in Clients \ {c} : BeginCall(b) => cl'[c] = cl[c])
  BY DEF BeginCall, BeginDeploy, BeginLifecycle, BeginDestroy, BeginPromote,
     BeginPublish, BeginSubscribe, BeginSet, Begin
<1>2. ASSUME NEW b \in Clients \ {c}, ClientStep(b) PROVE FALSE
  BY <1>2, OneMoves
<1>3. ASSUME NEW b \in Clients \ {c}, KillClient(b) PROVE FALSE
  BY <1>3 DEF KillClient, Return
<1>4. ~Machine /\ ~(UNCHANGED vars)
  BY DEF Machine, vars
<1>. QED BY <1>1, <1>2, <1>3, <1>4 DEF Next, Environment

\* Commands change the databases of the sandboxes they were given only, although
\* psql and pg_basebackup know ports and no directories.  config set port= leads
\* them elsewhere, as does a server that dies and leaves its port to another, or
\* whose pidfile comes to name another process, and a subscribe to a sandbox that
\* is down (subscribe.go:190).
THEOREM ServersOfItsOwn ==
  ASSUME Disciplined, Ops \cap {"set", "subscribe"} = {},
         Faults \cap {"server", "pid"} = {}
  PROVE  Spec => OwnServersOnly
<1>1. ASSUME ReachInv, Offered, [Next]_vars, NEW c \in Clients, InFlight(c),
             cl'[c] # cl[c], NEW d \in Dirs \ Touches(c)
      PROVE  [db'[d] EXCEPT !.walLive = FALSE] = [db[d] EXCEPT !.walLive = FALSE]
  <2>1. cl \in [Clients -> Client] /\ db \in [Dirs -> Database]
    BY <1>1 DEF ReachInv, LifeInv, Inv, TypeOK, HostTypeOK
  <2>2. CASE ClientStep(c)
    <3>1. cl[c].op # "subscribe"
      BY <1>1 DEF Offered
    <3>. QED BY <1>1, <2>2, <3>1, OwnDatabases
  <2>3. CASE KillClient(c)
    BY <2>3 DEF KillClient, Quiet, host
  <2>4. CASE Reboot
    BY <2>1, <2>4 DEF Reboot, Database
  <2>. QED BY <1>1, <2>1, <2>2, <2>3, <2>4, WhoMoves
<1>2. ReachInv /\ Offered /\ [Next]_vars =>
        [\A c \in Clients : InFlight(c) /\ cl'[c] # cl[c] =>
           \A d \in Dirs \ Touches(c) :
             [db'[d] EXCEPT !.walLive = FALSE]
               = [db[d] EXCEPT !.walLive = FALSE]]_vars
  BY <1>1
<1>3. Spec => []ReachInv
  BY AlwaysReaches
<1>. QED BY <1>2, <1>3, AlwaysOffered, PTL DEF Spec, OwnServersOnly

-----------------------------------------------------------------------------
\* A slot stays as long as its standby needs it

HasSlot(d, r, name) == [name |-> name, owner |-> d] \in db[r].slots

\* pg_basebackup copies into an empty directory only, so no slots are lost.
Bare == \A d \in Dirs : disk[d].data = "absent" => db[d].slots = {}

Distinct == \A d \in Dirs : \A s, t \in db[d].slots : s.name = t.name => s = t

\* A deploy about to record its slot has it, and so has a promote about to drop
\* it.
Keeps(k) ==
  /\ k.op = "standby" /\ k.at \in {"launch", "save"} =>
       k.src \in Dirs /\ HasSlot(k.dir, k.src, k.name)
  /\ k.op = "promote" /\ k.at \in {"promote.wait", "slot.load", "slot.drop"}
       /\ k.cfg.physical # None =>
       HasSlot(k.dir, k.cfg.physical.src, k.cfg.physical.slot)

SlotInv ==
  /\ ReachInv /\ Bare /\ Distinct /\ InRecoveryHasSlot
  /\ \A c \in Clients : InFlight(c) => Keeps(cl[c])

\* The slots of d do not grow fewer.
Grows(d) == db[d].slots \subseteq db'[d].slots

LEMMA BackupGrows ==
  ASSUME SlotInv, NEW c \in Clients, BaseBackup(c)
  PROVE  /\ \A r \in Dirs : Grows(r)
         /\ \/ Quiet /\ Return(c, "fail")
            \/ /\ cl[c].src \in Dirs \ {cl[c].dir} /\ disk[cl[c].dir].data = "absent"
               /\ srv[cl[c].src] # None
               /\ \A s \in db[cl[c].src].slots : s.name # cl[c].name
               /\ \E data \in {"standby", "absent", "partial"} :
                    disk' = [disk EXCEPT ![cl[c].dir].data = data]
               /\ db'[cl[c].src].slots =
                    db[cl[c].src].slots \cup {[name |-> cl[c].name, owner |-> cl[c].dir]}
               /\ \A r \in Dirs \ {cl[c].src} : db'[r].slots = db[r].slots
               /\ Go(c, "launch") \/ Return(c, "fail")
<1> DEFINE d == cl[c].dir
           src == cl[c].src
           slot == [name |-> cl[c].name, owner |-> d]
<1>1. /\ LifeInv /\ InFlight(c) /\ d \in Dirs /\ Reaches(cl[c]) /\ OnePerPort
      /\ db \in [Dirs -> Database] /\ Sane(src)
      /\ OnPort(src, cl[c].peer) /\ Serving(cl[c].peer) = {src}
  <2>1. LifeInv /\ InFlight(c) /\ Reaches(cl[c]) /\ cl[c].at = "base" /\ OnePerPort
    BY StepIsInFlight DEF ClientStep, DeployStep, BaseBackup, At, SlotInv, ReachInv,
       LifeInv
  <2>2. OnPort(src, cl[c].peer)
    BY <2>1 DEF Reaches, Reading
  <2>. QED BY <2>1, <2>2, OneServes
       DEF OnPort, LifeInv, Inv, TypeOK, HostTypeOK, CallsWellFormed
<1>2. CASE Quiet /\ Return(c, "fail")
  BY <1>2 DEF Quiet, host, Grows
<1>3. CASE ~(Quiet /\ Return(c, "fail"))
  <2> DEFINE Copied(data) ==
        IF data = "standby"
        THEN [db EXCEPT ![d] = [db[src] EXCEPT !.slots = {}, !.walLive = FALSE]]
        ELSE db
  <2>1. /\ src \in Upstream(c)
        /\ \E data \in {"standby", "absent", "partial"} :
             /\ disk' = [disk EXCEPT ![d].data = data]
             /\ db' = [Copied(data) EXCEPT ![src].slots = @ \cup {slot}]
        /\ Go(c, "launch") \/ Return(c, "fail")
    <3>1. Upstream(c) \subseteq {src}
      BY <1>1 DEF Upstream
    <3>. QED BY <1>3, <3>1 DEF BaseBackup
  <2>2. /\ disk[d].data = "absent" /\ \A s \in db[src].slots : s.name # cl[c].name
    BY <2>1 DEF Upstream
  <2>3. src \in Dirs \ {d} /\ srv[src] # None
    <3>1. srv[src] # None /\ src \in Dirs
      BY <1>1, NoneAssumption DEF OnPort
    <3>2. disk[src].data \in Complete
      BY <1>1, <3>1 DEF Sane, Coherent
    <3>. QED BY <2>2, <3>1, <3>2 DEF Complete
  <2>4. db[d].slots = {}
    BY <1>1, <2>2 DEF SlotInv, Bare
  <2>5. PICK data \in {"standby", "absent", "partial"} :
          db' = [Copied(data) EXCEPT ![src].slots = @ \cup {slot}]
    BY <2>1
  <2>6. /\ Copied(data) \in [Dirs -> Database] /\ Copied(data)[d].slots = {}
        /\ \A r \in Dirs \ {d} : Copied(data)[r] = db[r]
    <3> DEFINE copy == [db[src] EXCEPT !.slots = {}, !.walLive = FALSE]
    <3>1. copy \in Database /\ copy.slots = {}
      <4>1. db[src] \in Database
        BY <1>1, <2>3
      <4> HIDE DEF src
      <4>. QED BY <4>1 DEF Database
    <3> HIDE DEF copy
    <3>2. CASE data = "standby"
      <4>1. Copied(data) = [db EXCEPT ![d] = copy]
        BY <3>2 DEF copy
      <4> HIDE DEF Copied
      <4>. QED BY <1>1, <3>1, <4>1
    <3>3. CASE data # "standby"
      BY <1>1, <2>4, <3>3
    <3>. QED BY <3>2, <3>3
  <2> HIDE DEF Copied
  <2>7. /\ db'[src].slots = db[src].slots \cup {slot}
        /\ \A r \in Dirs \ {src} : db'[r].slots = db[r].slots
    BY <1>1, <2>3, <2>4, <2>5, <2>6 DEF Database
  <2>8. \A r \in Dirs : Grows(r)
    BY <2>7 DEF Grows
  <2>. QED BY <2>1, <2>2, <2>3, <2>7, <2>8
<1>. QED BY <1>2, <1>3

LEMMA SubscriptionGrows ==
  ASSUME SlotInv, NEW c \in Clients, CreateSubscription(c)
  PROVE  /\ \A r \in Dirs : Grows(r)
         /\ UNCHANGED <<disk, srv>>
         /\ \A r \in Dirs : \A s \in db'[r].slots \ db[r].slots :
              /\ srv[r] # None /\ \A t \in db'[r].slots : t.name = s.name => t = s
<1> DEFINE name == cl[c].name
           sub(r) == {[name |-> name, pub |-> r]}
           slot(r) == [name |-> name, owner |-> r]
<1>1. db \in [Dirs -> Database]
  BY DEF SlotInv, ReachInv, LifeInv, Inv, TypeOK, HostTypeOK
<1>2. CASE db' = db
  BY <1>2 DEF Grows, CreateSubscription, Quiet, host
<1>3. ASSUME NEW p \in Dirs, NEW r \in Dirs, p # r, r \in Serving(cl[c].peer),
             \A s \in db[r].slots : s.name # name,
             db' = [db EXCEPT ![p].subs = @ \cup sub(r),
                              ![r].slots = @ \cup {slot(p)}]
      PROVE  /\ \A e \in Dirs : Grows(e)
             /\ \A e \in Dirs : \A s \in db'[e].slots \ db[e].slots :
                  srv[e] # None /\ \A t \in db'[e].slots : t.name = s.name => t = s
  <2> HIDE DEF sub
  <2>1. /\ db'[r].slots = db[r].slots \cup {slot(p)}
        /\ \A e \in Dirs \ {r} : db'[e].slots = db[e].slots
    BY <1>1, <1>3 DEF Database
  <2>2. srv[r] # None
    <3>1. cl[c].peer \in Ports
      BY StepIsInFlight DEF ClientStep, LogicalStep, CreateSubscription, At,
         SlotInv, ReachInv, Reaches, Reading, OnPort
    <3>. QED BY <1>3, <3>1, NoneAssumption DEF Serving
  <2>3. slot(p).name = name
    OBVIOUS
  <2> HIDE DEF slot
  <2>4. ASSUME NEW e \in Dirs, NEW s \in db'[e].slots \ db[e].slots
        PROVE  srv[e] # None /\ \A t \in db'[e].slots : t.name = s.name => t = s
    <3>1. e = r /\ s = slot(p)
      BY <2>1, <2>4
    <3>. QED BY <1>3, <2>1, <2>2, <2>3, <3>1
  <2>. QED BY <2>1, <2>4 DEF Grows
<1>4. \/ db' = db
      \/ \E p, r \in Dirs :
           /\ p # r /\ r \in Serving(cl[c].peer)
           /\ \A s \in db[r].slots : s.name # name
           /\ db' = [db EXCEPT ![p].subs = @ \cup sub(r),
                               ![r].slots = @ \cup {slot(p)}]
  <2> DEFINE Pairs == {rp \in Serving(cl[c].cfg.port) \X Serving(cl[c].peer) :
                  /\ rp[1] # rp[2]
                  /\ disk[rp[1]].data = "primary"
                  /\ db[rp[2]].walLive
                  /\ \A s \in db[rp[1]].subs : s.name # name
                  /\ \A s \in db[rp[2]].slots : s.name # name}
  <2>1. \/ db' = db
        \/ \E rp \in Pairs :
             db' = [db EXCEPT ![rp[1]].subs = @ \cup sub(rp[2]),
                              ![rp[2]].slots = @ \cup {slot(rp[1])}]
    BY DEF CreateSubscription, Quiet, host
  <2> HIDE DEF sub, slot
  <2>2. ASSUME NEW rp \in Pairs
        PROVE  /\ rp[1] \in Dirs /\ rp[2] \in Dirs /\ rp[1] # rp[2]
               /\ rp[2] \in Serving(cl[c].peer)
               /\ \A s \in db[rp[2]].slots : s.name # name
    BY DEF Serving
  <2> HIDE DEF Pairs
  <2>. QED BY <2>1, <2>2
<1>5. UNCHANGED <<disk, srv>>
  BY DEF CreateSubscription, Quiet, host
<1> HIDE DEF sub, slot
<1>. QED BY <1>2, <1>3, <1>4, <1>5

\* The slot a promote drops is that of its own sandbox.
LEMMA DropIsOwn ==
  ASSUME SlotInv, NEW c \in Clients, cl[c].op # "destroy", SlotDrop(c)
  PROVE  /\ cl[c].op = "promote" /\ UNCHANGED <<disk, srv>>
         /\ \A r \in Dirs : /\ db'[r].slots \subseteq db[r].slots
                            /\ \A s \in db[r].slots \ db'[r].slots : s.owner = cl[c].dir
<1> DEFINE d == cl[c].dir
           src == cl[c].src
           slot == cl[c].cfg.physical.slot
<1>1. /\ LifeInv /\ InFlight(c) /\ d \in Dirs /\ Reaches(cl[c]) /\ OnePerPort
      /\ db \in [Dirs -> Database] /\ cl[c].at = "slot.drop" /\ Keeps(cl[c])
      /\ OnTrack(cl[c].op, "slot.drop") /\ Knows(cl[c]) /\ Holds(c)
  BY StepIsInFlight DEF ClientStep, DestroyStep, SlotDrop, At, SlotInv, ReachInv,
     LifeInv, Inv, TypeOK, HostTypeOK, CallsWellFormed
<1>2. cl[c].op = "promote" /\ UNCHANGED <<disk, srv>>
  BY <1>1 DEF OnTrack, SlotDrop, Quiet, host
<1>3. OnPort(src, cl[c].peer) /\ Serving(cl[c].peer) = {src}
  BY <1>1, OneServes DEF Reaches, Reading
<1>4. /\ cl[c].cfg # None /\ cl[c].cfg.physical # None
      /\ cl[c].cfg = disk[d].cfg
  BY <1>1 DEF Knows, Holds, Expects
<1>5. src = cl[c].cfg.physical.src /\ HasSlot(d, src, slot)
  BY <1>1, <1>2, <1>4 DEF Reaches, SourceOf, Keeps
<1>6. db' = db \/ db' = [db EXCEPT ![src].slots = {s \in @ : s.name # slot}]
  BY <1>3 DEF SlotDrop, Quiet, host
<1>7. ASSUME NEW s \in db[src].slots, s.name = slot PROVE s.owner = d
  <2>1. s = [name |-> slot, owner |-> d]
    BY <1>3, <1>5, <1>7 DEF OnPort, HasSlot, SlotInv, Distinct
  <2>. QED BY <2>1
<1> HIDE DEF slot
<1>8. src \in Dirs
  BY <1>3 DEF OnPort
<1>9. CASE db' = [db EXCEPT ![src].slots = {s \in @ : s.name # slot}]
  <2>1. /\ db'[src].slots = {s \in db[src].slots : s.name # slot}
        /\ \A r \in Dirs \ {src} : db'[r].slots = db[r].slots
    BY <1>1, <1>8, <1>9 DEF Database
  <2>. QED BY <1>2, <1>7, <2>1
<1>. QED BY <1>2, <1>6, <1>9

\* Of all other steps none but destroy's changes slots.
LEMMA SlotsAlone ==
  ASSUME db \in [Dirs -> Database], NEW c \in Clients, ClientStep(c),
         ~BaseBackup(c), ~CreateSubscription(c), ~SlotDrop(c), ~DestroyRemove(c)
  PROVE  \A r \in Dirs : db'[r].slots = db[r].slots
<1>1. CASE DeployStep(c)
  <2>1. \/ db' = db
        \/ \E r : db' = [db EXCEPT ![r].repl = TRUE]
        \/ \E r : db' = [db EXCEPT ![r].hba = TRUE]
        \/ \E r : db' = [db EXCEPT ![r].walLive = db[r].walConf]
    BY <1>1 DEF DeployStep, ChoosePort, MakeDirChoosePort, InitDb, LaunchDeployed,
       PgCtlStart, ServerUp, SaveDeployed, Save, ProbeSource, ProbeRole, CreateRole,
       EnsureHba, Quiet, host
  <2>. QED BY <2>1 DEF Database
<1>2. CASE LifecycleStep(c)
  <2>1. \/ db' = db
        \/ \E r : db' = [db EXCEPT ![r].walLive = db[r].walConf]
        \/ \E r : db' = [db EXCEPT ![r].walLive = FALSE]
    BY <1>2 DEF LifecycleStep, StartLoad, StartRun, StopLoad, StopUnlink, StopRun,
       PgCtlStart, ServerUp, ServerDown, Quiet, host
  <2>. QED BY <2>1 DEF Database
<1>3. CASE DestroyStep(c)
  <2> DEFINE sub == cl[c].cfg.logical.sub
  <2>1. \/ db' = db
        \/ \E r : db' = [db EXCEPT ![r].subs = {s \in @ : s.name # sub}]
        \/ \E r : db' = [db EXCEPT ![r].walLive = FALSE]
    BY <1>3 DEF DestroyStep, DestroyLoad, DropSubscription, DestroyStop, SlotLoad,
       ServerDown, Quiet, host
  <2>. QED BY <2>1 DEF Database
<1>4. CASE PromoteStep(c)
  BY <1>4 DEF PromoteStep, PromoteLoad, PromoteRun, PromoteWait, PromoteSave, Save,
     Quiet, host
<1>5. CASE LogicalStep(c)
  <2>1. \/ db' = db
        \/ \E r : db' = [db EXCEPT ![r].walConf = TRUE]
        \/ \E r : db' = [db EXCEPT ![r].pub = TRUE]
    BY <1>5 DEF LogicalStep, PublishLoad, ShowWalLevel, AlterSystem,
       CreatePublication, SubscribeLoad, SubscribeSave, Save, Quiet, host
  <2>. QED BY <2>1 DEF Database
<1>6. CASE SetStep(c)
  BY <1>6 DEF SetStep, SetLoad, SetSave, Save, Quiet, host
<1>. QED BY <1>1, <1>2, <1>3, <1>4, <1>5, <1>6 DEF ClientStep

\* What a step does not take from a sandbox it does not work on.
LEMMA LosesOwnOnly ==
  ASSUME SlotInv, NEW c \in Clients, cl[c].op # "destroy", ClientStep(c)
  PROVE  \A r \in Dirs : \A s \in db[r].slots \ db'[r].slots :
           SlotDrop(c) /\ s.owner = cl[c].dir
<1>1. db \in [Dirs -> Database] /\ InFlight(c) /\ OnTrack(cl[c].op, cl[c].at)
  BY StepIsInFlight DEF SlotInv, ReachInv, LifeInv, Inv, TypeOK, HostTypeOK,
     CallsWellFormed
<1>2. ~DestroyRemove(c)
  BY <1>1 DEF DestroyRemove, At, OnTrack
<1>. QED BY <1>1, <1>2, BackupGrows, SubscriptionGrows, DropIsOwn, SlotsAlone DEF Grows

\* How a sandbox comes to be in recovery, and what its config says while it is.
LEMMA RecoveryStep ==
  ASSUME SlotInv, "server" \notin Faults, "set" \notin Ops, NEW c \in Clients,
         cl[c].op \notin {"destroy", "set"}, ClientStep(c)
  PROVE  LET d == cl[c].dir IN
         /\ disk'[d].data = "absent" => disk[d].data = "absent"
         /\ Recovers(disk'[d].data) =>
              \/ /\ BaseBackup(c) /\ Go(c, "launch") /\ disk'[d].cfg = None
              \/ /\ cl[c].op = "standby" /\ cl[c].at = "save"
                 /\ disk'[d].cfg # None =>
                      disk'[d].cfg.physical = [src |-> cl[c].src, slot |-> cl[c].name]
              \/ /\ Recovers(disk[d].data) /\ ~SlotDrop(c)
                 /\ disk'[d].cfg # None =>
                      /\ disk[d].cfg # None
                      /\ disk'[d].cfg.physical = disk[d].cfg.physical
<1> DEFINE d == cl[c].dir
           Steady == /\ ~SlotDrop(c) /\ disk'[d].cfg = disk[d].cfg
                     /\ disk'[d].data = "absent" => disk[d].data = "absent"
                     /\ Recovers(disk'[d].data) => Recovers(disk[d].data)
<1>1. /\ LifeInv /\ InFlight(c) /\ d \in Dirs /\ OnTrack(cl[c].op, cl[c].at)
      /\ Knows(cl[c]) /\ Holds(c) /\ cl[c] \in Client
      /\ disk \in [Dirs -> Files] /\ disk[d] \in Files
  BY StepIsInFlight DEF SlotInv, ReachInv, LifeInv, Inv, TypeOK, HostTypeOK,
     CallsWellFormed
<1>2. SlotDrop(c) => ~Recovers(disk'[d].data) /\ disk' = disk
  <2>1. SlotDrop(c) => cl[c].at = "slot.drop" /\ cl[c].op = "promote" /\ disk' = disk
    BY <1>1 DEF SlotDrop, At, OnTrack, Quiet, host
  <2>. QED BY <1>1, <2>1 DEF Holds, Expects, Recovers
<1>3. CASE SaveDeployed(c)
  <2> DEFINE cfg ==
        [port |-> cl[c].port,
         role |-> IF cl[c].op = "standby" THEN "standby" ELSE "primary",
         physical |-> IF cl[c].op = "standby"
                      THEN [src |-> cl[c].src, slot |-> cl[c].name] ELSE None,
         logical |-> None]
  <2>1. /\ cl[c].at = "save"
        /\ disk' = [disk EXCEPT ![d].cfg = cfg] \/ disk' = disk
    BY <1>3 DEF SaveDeployed, Save, Quiet, host, At
  <2>2. cfg.physical = IF cl[c].op = "standby"
                       THEN [src |-> cl[c].src, slot |-> cl[c].name] ELSE None
    OBVIOUS
  <2>3. disk[d].cfg = None /\ (Recovers(disk[d].data) => cl[c].op = "standby")
    BY <1>1, <2>1 DEF Holds, Expects, Recovers, OnTrack, DeployOps
  <2> HIDE DEF cfg
  <2>4. disk'[d].data = disk[d].data /\ disk'[d].cfg \in {cfg, disk[d].cfg}
    BY <1>1, <2>1 DEF Files
  <2>. QED BY <2>1, <2>2, <2>3, <2>4
<1>4. CASE BaseBackup(c)
  <2>1. /\ disk[d].cfg = None /\ cl[c].at = "base"
    BY <1>1, <1>4 DEF BaseBackup, At, Holds, Expects, OnTrack, DeployOps
  <2>2. CASE Quiet
    <3>1. ~SlotDrop(c)
      BY <2>1 DEF SlotDrop, At
    <3>. QED BY <2>2, <3>1 DEF Quiet, host
  <2>3. CASE /\ disk[d].data = "absent"
             /\ \/ disk' = [disk EXCEPT ![d].data = "standby"] /\ Go(c, "launch")
                \/ disk' = [disk EXCEPT ![d].data = "absent"]
                \/ disk' = [disk EXCEPT ![d].data = "partial"]
    <3>1. disk'[d].cfg = disk[d].cfg /\ disk'[d].data \in {"standby", "absent", "partial"}
          /\ (disk'[d].data = "standby" => Go(c, "launch"))
      BY <1>1, <2>3 DEF Files
    <3>. QED BY <1>4, <2>1, <2>3, <3>1 DEF Recovers
  <2>4. Upstream(c) # {} => disk[d].data = "absent"
    BY DEF Upstream
  <2>. QED BY <1>4, <2>2, <2>3, <2>4 DEF BaseBackup
<1>5. CASE SubscribeSave(c)
  <2> DEFINE cfg == [cl[c].cfg EXCEPT !.role = "subscriber",
                       !.logical = [src |-> cl[c].src, sub |-> cl[c].name]]
  <2>1. /\ cl[c].at = "sub.save"
        /\ disk' = [disk EXCEPT ![d].cfg = cfg] \/ disk' = disk
    BY <1>5 DEF SubscribeSave, Save, Quiet, host, At
  <2>2. cl[c].cfg # None /\ cl[c].cfg = disk[d].cfg
    BY <1>1, <2>1 DEF Knows, Holds, Expects
  <2>3. cfg.physical = disk[d].cfg.physical
    BY <1>1, <2>2 DEF Files, Sandbox
  <2> HIDE DEF cfg
  <2>4. disk'[d].data = disk[d].data /\ disk'[d].cfg \in {cfg, disk[d].cfg}
    BY <1>1, <2>1 DEF Files
  <2>5. ~SlotDrop(c)
    BY <2>1 DEF SlotDrop, At
  <2>. QED BY <2>2, <2>3, <2>4, <2>5
<1>6. CASE PromoteSave(c)
  <2> DEFINE cfg == [cl[c].cfg EXCEPT !.role = "primary", !.physical = None]
  <2>1. /\ cl[c].at = "promote.save"
        /\ disk' = [disk EXCEPT ![d].cfg = cfg] \/ disk' = disk
    BY <1>6 DEF PromoteSave, Save, Quiet, host, At
  <2>2. disk[d].data = "primary"
    BY <1>1, <2>1 DEF Holds, Expects, OnTrack
  <2> HIDE DEF cfg
  <2>3. disk'[d].data = disk[d].data
    BY <1>1, <2>1 DEF Files
  <2>. QED BY <2>2, <2>3 DEF Recovers
<1>7. CASE InitDb(c)
  <2>1. /\ cl[c].at = "init"
        /\ \/ disk' = [disk EXCEPT ![d].made = TRUE, ![d].data = "primary"]
           \/ disk' = [disk EXCEPT ![d].made = TRUE, ![d].data = "partial"]
           \/ disk' = [disk EXCEPT ![d].made = TRUE, ![d].data = disk[d].data]
    BY <1>7 DEF InitDb, At
  <2>2. /\ disk'[d].cfg = disk[d].cfg
        /\ disk'[d].data \in {"primary", "partial", disk[d].data}
    BY <1>1, <2>1 DEF Files
  <2>3. ~SlotDrop(c)
    BY <2>1 DEF SlotDrop, At
  <2>. QED BY <2>2, <2>3 DEF Recovers
<1>8. CASE SlotDrop(c)
  BY <1>2, <1>8
<1>9. CASE DeployStep(c) /\ ~SaveDeployed(c) /\ ~BaseBackup(c) /\ ~InitDb(c)
  <2>1. /\ cl[c].at # "slot.drop"
        /\ \/ disk' = disk
           \/ disk' = [disk EXCEPT ![d].made = TRUE]
           \/ disk' = [disk EXCEPT ![d].pid = "live"]
    BY <1>9 DEF DeployStep, ChoosePort, MakeDirChoosePort, LaunchDeployed, PgCtlStart,
       ServerUp, ProbeSource, ProbeRole, CreateRole, EnsureHba, Quiet, host, At
  <2>2. disk'[d].cfg = disk[d].cfg /\ disk'[d].data = disk[d].data
    BY <1>1, <2>1 DEF Files
  <2>. QED BY <2>1, <2>2 DEF SlotDrop, At
<1>10. CASE LifecycleStep(c)
  <2>1. /\ cl[c].at # "slot.drop"
        /\ \/ disk' = disk
           \/ disk' = [disk EXCEPT ![d].pid = "none"]
           \/ disk' = [disk EXCEPT ![d].pid = "live"]
           \/ disk' = [disk EXCEPT ![d].pid = "none", ![d].data = Settled(disk[d].data)]
    BY <1>10 DEF LifecycleStep, StartLoad, StartRun, StopLoad, StopUnlink, StopRun,
       PgCtlStart, ServerUp, ServerDown, Quiet, host, At
  <2>2. /\ disk'[d].cfg = disk[d].cfg
        /\ disk'[d].data \in {disk[d].data, Settled(disk[d].data)}
    BY <1>1, <2>1 DEF Files
  <2>. QED BY <2>1, <2>2 DEF SlotDrop, At, Settled, Recovers
<1>11. CASE DestroyStep(c) /\ ~SlotDrop(c)
  <2>1. disk' = disk
    BY <1>1, <1>11 DEF DestroyStep, DestroyLoad, DropSubscription, DestroyStop,
       SlotLoad, DestroyRemove, At, OnTrack, Quiet, host
  <2>. QED BY <1>11, <2>1
<1>12. CASE PromoteStep(c) /\ ~PromoteSave(c)
  <2>1. /\ cl[c].at # "slot.drop"
        /\ \/ disk' = disk
           \/ /\ disk[d].data = "standby"
              /\ disk' = [disk EXCEPT ![d].data = "promoting"]
    BY <1>12 DEF PromoteStep, PromoteLoad, PromoteRun, PromoteWait, Quiet, host, At
  <2>2. /\ disk'[d].cfg = disk[d].cfg
        /\ \/ disk'[d].data = disk[d].data
           \/ disk[d].data = "standby" /\ disk'[d].data = "promoting"
    BY <1>1, <2>1 DEF Files
  <2>. QED BY <2>1, <2>2 DEF SlotDrop, At, Recovers
<1>13. CASE LogicalStep(c) /\ ~SubscribeSave(c)
  <2>1. cl[c].at # "slot.drop" /\ disk' = disk
    BY <1>13 DEF LogicalStep, PublishLoad, ShowWalLevel, AlterSystem,
       CreatePublication, SubscribeLoad, CreateSubscription, Quiet, host, At
  <2>. QED BY <2>1 DEF SlotDrop, At
<1>14. ~SetStep(c)
  BY <1>1 DEF SetStep, SetLoad, SetSave, At, OnTrack
<1>. QED BY <1>3, <1>4, <1>5, <1>6, <1>7, <1>8, <1>9, <1>10, <1>11, <1>12, <1>13, <1>14
     DEF ClientStep

LEMMA BareStep ==
  ASSUME SlotInv, "server" \notin Faults, "set" \notin Ops, NEW c \in Clients,
         cl[c].op \notin {"destroy", "set"}, ClientStep(c)
  PROVE  Bare' /\ Distinct'
<1> DEFINE d == cl[c].dir
<1>1. /\ d \in Dirs /\ HostTypeOK /\ OnTrack(cl[c].op, cl[c].at) /\ Bare /\ Distinct
      /\ \A e \in Dirs : Sane(e)
  BY StepIsInFlight DEF SlotInv, ReachInv, LifeInv, Inv, TypeOK, CallsWellFormed
<1>2. Elsewhere(d)
  BY <1>1, OwnSandboxOnly
<1>3. \A e \in Dirs : disk'[e].data = "absent" => disk[e].data = "absent"
  BY <1>1, <1>2, RecoveryStep DEF Elsewhere
<1>4. \A e \in Dirs : srv[e] # None => disk[e].data # "absent"
  BY <1>1 DEF Sane, Coherent, Complete
<1>5. CASE BaseBackup(c)
  <2> DEFINE src == cl[c].src
             slot == [name |-> cl[c].name, owner |-> d]
  <2>1. CASE Quiet
    BY <1>1, <2>1 DEF Bare, Distinct, Quiet, host
  <2>2. CASE ~Quiet
    <3>1. /\ src \in Dirs /\ srv[src] # None
          /\ \A s \in db[src].slots : s.name # cl[c].name
          /\ db'[src].slots = db[src].slots \cup {slot}
          /\ \A r \in Dirs \ {src} : db'[r].slots = db[r].slots
      BY <1>5, <2>2, BackupGrows
    <3>2. slot.name = cl[c].name
      OBVIOUS
    <3> HIDE DEF slot, src
    <3>3. Bare'
      BY <1>1, <1>3, <1>4, <3>1 DEF Bare
    <3>4. Distinct'
      BY <1>1, <3>1, <3>2 DEF Distinct
    <3>. QED BY <3>3, <3>4
  <2>. QED BY <2>1, <2>2
<1>6. CASE CreateSubscription(c)
  <2>1. Bare'
    BY <1>1, <1>3, <1>4, <1>6, SubscriptionGrows DEF Bare
  <2>2. Distinct'
    BY <1>1, <1>6, SubscriptionGrows DEF Distinct
  <2>. QED BY <2>1, <2>2
<1>7. CASE SlotDrop(c)
  BY <1>1, <1>3, <1>7, DropIsOwn DEF Bare, Distinct
<1>8. CASE ~BaseBackup(c) /\ ~CreateSubscription(c) /\ ~SlotDrop(c)
  <2>1. ~DestroyRemove(c)
    BY <1>1 DEF DestroyRemove, At, OnTrack
  <2>2. \A e \in Dirs : db'[e].slots = db[e].slots
    BY <1>1, <1>8, <2>1, SlotsAlone DEF HostTypeOK
  <2>. QED BY <1>1, <1>3, <2>2 DEF Bare, Distinct
<1>. QED BY <1>5, <1>6, <1>7, <1>8

\* The command itself has the slot it is going to record or to drop.
LEMMA OwnKeeps ==
  ASSUME SlotInv, NEW c \in Clients, cl[c].op \notin {"destroy", "set"},
         ClientStep(c), InFlight(c)'
  PROVE  Keeps(cl[c])'
<1> DEFINE d == cl[c].dir
<1>1. /\ LifeInv /\ InFlight(c) /\ d \in Dirs /\ OnTrack(cl[c].op, cl[c].at)
      /\ Knows(cl[c]) /\ Holds(c) /\ cl[c] \in Client /\ Keeps(cl[c])
      /\ cl \in [Clients -> Client] /\ db \in [Dirs -> Database]
      /\ disk \in [Dirs -> Files]
  BY StepIsInFlight DEF SlotInv, ReachInv, LifeInv, Inv, TypeOK, HostTypeOK,
     CallsWellFormed
<1>2. /\ cl'[c].op = cl[c].op /\ cl'[c].dir = d
      /\ cl'[c].src = cl[c].src /\ cl'[c].name = cl[c].name
  BY <1>1, OneMoves
<1>3. \A outcome \in Ends : ~Return(c, outcome)
  BY <1>1, ReturnedGone
<1>4. ASSUME cl[c].at \in {"launch", "save", "promote.run", "promote.wait", "slot.load"}
      PROVE  \A r \in Dirs : db'[r].slots = db[r].slots
  BY <1>1, <1>4, SlotsAlone
  DEF BaseBackup, CreateSubscription, SlotDrop, DestroyRemove, At
<1>5. CASE cl[c].op = "standby" /\ cl'[c].at \in {"launch", "save"}
  <2>1. DeployStep(c)
    BY <1>1, <1>5 DEF ClientStep, LifecycleStep, DestroyStep, PromoteStep, LogicalStep,
       SetStep, StartLoad, StartRun, StopLoad, StopUnlink, StopRun, DestroyLoad,
       DropSubscription, DestroyStop, SlotLoad, SlotDrop, DestroyRemove, PromoteLoad,
       PromoteRun, PromoteWait, PromoteSave, PublishLoad, ShowWalLevel, AlterSystem,
       CreatePublication, SubscribeLoad, CreateSubscription, SubscribeSave, SetLoad,
       SetSave, At, OnTrack
  <2>2. CASE BaseBackup(c)
    <3>1. /\ cl[c].src \in Dirs
          /\ HasSlot(d, cl[c].src, cl[c].name)'
      BY <1>2, <1>3, <2>2, BackupGrows DEF HasSlot, Ends
    <3>. QED BY <1>2, <1>5, <3>1 DEF Keeps, HasSlot
  <2>3. CASE cl[c].at = "launch"
    <3>1. cl[c].src \in Dirs /\ HasSlot(d, cl[c].src, cl[c].name)
      BY <1>1, <1>5, <2>3 DEF Keeps
    <3>2. HasSlot(d, cl[c].src, cl[c].name)'
      BY <1>2, <1>4, <2>3, <3>1 DEF HasSlot
    <3>. QED BY <1>2, <1>5, <3>1, <3>2 DEF Keeps, HasSlot
  <2>4. BaseBackup(c) \/ cl[c].at = "launch"
    <3>1. ASSUME NEW point \in {"hba", "mkrole", "mkdir"}, Go(c, point) PROVE FALSE
      BY <1>1, <1>5, <3>1 DEF Go
    <3>2. ASSUME NEW next \in {"init", "base"}, ResolvePort(c, next) PROVE FALSE
      BY <1>1, <1>3, <1>5, <3>2 DEF ResolvePort, Ends, Client
    <3>3. ~ProbeSource(c)
      BY <1>1, <1>3, <1>5 DEF ProbeSource, Ends, Client
    <3>4. ~ProbeRole(c) /\ ~CreateRole(c) /\ ~EnsureHba(c)
      BY <1>3, <3>1 DEF ProbeRole, CreateRole, EnsureHba, Ends
    <3>5. ~ChoosePort(c) /\ ~MakeDirChoosePort(c)
      BY <3>2 DEF ChoosePort, MakeDirChoosePort
    <3>6. ~InitDb(c)
      BY <1>1, <1>5 DEF InitDb, At, OnTrack
    <3>7. ~SaveDeployed(c)
      BY <1>3, <1>5 DEF SaveDeployed, Save, Ends
    <3>. QED BY <2>1, <3>3, <3>4, <3>5, <3>6, <3>7 DEF DeployStep, LaunchDeployed, At
  <2>. QED BY <2>2, <2>3, <2>4
<1>6. CASE /\ cl[c].op = "promote" /\ cl'[c].cfg.physical # None
           /\ cl'[c].at \in {"promote.wait", "slot.load", "slot.drop"}
  <2>1. /\ cl[c].at \in {"promote.run", "promote.wait", "slot.load"}
        /\ cl'[c].cfg = cl[c].cfg
        /\ cl[c].at = "promote.run" => PromoteRun(c)
    <3>1. PromoteStep(c) \/ SlotLoad(c) \/ SlotDrop(c)
      BY <1>1, <1>6 DEF ClientStep, LifecycleStep, DestroyStep, DeployStep, LogicalStep,
         SetStep, StartLoad, StartRun, StopLoad, StopUnlink, StopRun, DestroyLoad,
         DropSubscription, DestroyStop, DestroyRemove, ChoosePort, MakeDirChoosePort,
         InitDb, LaunchDeployed, SaveDeployed, ProbeSource, ProbeRole, CreateRole,
         EnsureHba, BaseBackup, PublishLoad, ShowWalLevel, AlterSystem,
         CreatePublication, SubscribeLoad, CreateSubscription, SubscribeSave, SetLoad,
         SetSave, At, OnTrack
    <3>2. ~PromoteLoad(c)
      BY <1>1, <1>3, <1>6 DEF PromoteLoad, Ends, Client
    <3>3. ~PromoteSave(c)
      BY <1>3 DEF PromoteSave, Save, Ends
    <3>4. ~SlotDrop(c)
      BY <1>1, <1>6 DEF SlotDrop, SlotDone, Go, Client
    <3>5. CASE PromoteRun(c)
      <4>1. cl[c].at = "promote.run" /\ Go(c, "promote.wait")
        BY <1>3, <3>5 DEF PromoteRun, At, Ends
      <4>. QED BY <1>1, <3>5, <4>1 DEF Go, Client
    <3>6. CASE PromoteWait(c)
      <4>1. cl[c].at = "promote.wait" /\ (Go(c, "slot.load") \/ Go(c, "promote.save"))
        BY <1>3, <3>6 DEF PromoteWait, At, Ends
      <4>. QED BY <1>1, <4>1 DEF Go, Client
    <3>7. CASE SlotLoad(c)
      <4>1. /\ cl[c].at = "slot.load"
            /\ \/ Go(c, "promote.save")
               \/ \E p : cl' = [cl EXCEPT ![c].peer = p, ![c].at = "slot.drop"]
        BY <1>6, <3>7 DEF SlotLoad, SlotDone, At
      <4>. QED BY <1>1, <4>1 DEF Go, Client
    <3>. QED BY <3>1, <3>2, <3>3, <3>4, <3>5, <3>6, <3>7 DEF PromoteStep
  <2>2. /\ cl[c].cfg # None /\ cl[c].cfg = disk[d].cfg /\ cl[c].cfg \in Sandbox
    BY <1>1, <1>6, <2>1 DEF Knows, Holds, Expects, Client
  <2>3. /\ cl[c].cfg.physical \in Physical /\ cl[c].cfg.physical # None
        /\ cl[c].cfg.physical.src \in Dirs
    BY <1>6, <2>1, <2>2 DEF Sandbox, Physical
  <2>4. HasSlot(d, cl[c].cfg.physical.src, cl[c].cfg.physical.slot)
    <3>1. CASE cl[c].at = "promote.run"
      <4>1. disk[d].data = "standby"
        BY <1>3, <2>1, <3>1 DEF PromoteRun, Ends
      <4>2. PICK r \in Dirs, s \in Slot :
              /\ s \in db[r].slots /\ s.owner = d
              /\ disk[d].cfg.physical = [src |-> r, slot |-> s.name]
        <5>1. InRecoveryHasSlot
          BY DEF SlotInv
        <5>2. PICK r \in Dirs, s \in Slot :
                /\ s \in db[r].slots /\ s.owner = d
                /\ disk[d].cfg # None =>
                     disk[d].cfg.physical = [src |-> r, slot |-> s.name]
          BY <1>1, <4>1, <5>1 DEF InRecoveryHasSlot
        <5>. QED BY <2>2, <5>2
      <4>3. s = [name |-> s.name, owner |-> d]
        BY <4>2 DEF Slot
      <4>4. cl[c].cfg.physical.src = r /\ cl[c].cfg.physical.slot = s.name
        BY <2>2, <4>2
      <4>. QED BY <4>2, <4>3, <4>4 DEF HasSlot
    <3>2. CASE cl[c].at # "promote.run"
      BY <1>1, <1>6, <2>1, <2>3, <3>2 DEF Keeps
    <3>. QED BY <3>1, <3>2
  <2>5. HasSlot(d, cl[c].cfg.physical.src, cl[c].cfg.physical.slot)'
    BY <1>2, <1>4, <2>1, <2>3, <2>4 DEF HasSlot
  <2>. QED BY <1>2, <1>6, <2>1, <2>5 DEF Keeps, HasSlot
<1>. QED BY <1>2, <1>5, <1>6 DEF Keeps

\* A step of one command does not take from another one the slot it relies on.
LEMMA OthersKeep ==
  ASSUME SlotInv, NEW c \in Clients, cl[c].op # "destroy", ClientStep(c),
         NEW b \in Clients \ {c}, InFlight(b)
  PROVE  Keeps(cl[b])'
<1>1. /\ LifeInv /\ InFlight(c) /\ cl[b].dir # cl[c].dir /\ Keeps(cl[b])
      /\ OnTrack(cl[b].op, cl[b].at) /\ Knows(cl[b]) /\ cl[b] \in Client
      /\ cl \in [Clients -> Client]
  BY StepIsInFlight DEF SlotInv, ReachInv, LifeInv, Inv, TypeOK, CallsWellFormed, Apart
<1>2. cl'[b] = cl[b]
  BY <1>1, OneMoves
<1>3. ASSUME NEW r \in Dirs, NEW name, HasSlot(cl[b].dir, r, name)
      PROVE  [name |-> name, owner |-> cl[b].dir] \in db'[r].slots
  BY <1>1, <1>3, LosesOwnOnly DEF HasSlot
<1>4. ASSUME cl[b].op = "promote", cl[b].cfg.physical # None,
             cl[b].at \in {"promote.wait", "slot.load", "slot.drop"}
      PROVE  cl[b].cfg.physical.src \in Dirs
  <2>1. cl[b].cfg \in Sandbox
    BY <1>1, <1>4 DEF Knows, Client
  <2>. QED BY <1>4, <2>1 DEF Sandbox, Physical
<1>. QED BY <1>1, <1>2, <1>3, <1>4 DEF Keeps, HasSlot

LEMMA RecoveryKeepsSlot ==
  ASSUME SlotInv, "server" \notin Faults, "set" \notin Ops, NEW c \in Clients,
         cl[c].op \notin {"destroy", "set"}, ClientStep(c)
  PROVE  InRecoveryHasSlot'
<1> DEFINE d == cl[c].dir
<1>1. /\ d \in Dirs /\ HostTypeOK /\ OnTrack(cl[c].op, cl[c].at) /\ Knows(cl[c])
      /\ cl[c] \in Client /\ Keeps(cl[c]) /\ LifeInv /\ InFlight(c)
  BY StepIsInFlight DEF SlotInv, ReachInv, LifeInv, Inv, TypeOK, CallsWellFormed
<1>2. Elsewhere(d)
  BY <1>1, OwnSandboxOnly
<1>3. SUFFICES ASSUME NEW e \in Dirs, Recovers(disk'[e].data)
               PROVE  \E r \in Dirs, s \in Slot :
                        /\ s \in db'[r].slots /\ s.owner = e
                        /\ disk'[e].cfg # None =>
                             disk'[e].cfg.physical = [src |-> r, slot |-> s.name]
  BY DEF InRecoveryHasSlot, Recovers
<1>4. ASSUME Recovers(disk[e].data), e = d => ~SlotDrop(c),
             disk'[e].cfg # None =>
               disk[e].cfg # None /\ disk'[e].cfg.physical = disk[e].cfg.physical
      PROVE  \E r \in Dirs, s \in Slot :
               /\ s \in db'[r].slots /\ s.owner = e
               /\ disk'[e].cfg # None =>
                    disk'[e].cfg.physical = [src |-> r, slot |-> s.name]
  <2>1. PICK r \in Dirs, s \in Slot :
          /\ s \in db[r].slots /\ s.owner = e
          /\ disk[e].cfg # None => disk[e].cfg.physical = [src |-> r, slot |-> s.name]
    BY <1>4 DEF SlotInv, InRecoveryHasSlot, Recovers
  <2>2. s \in db'[r].slots
    BY <1>4, <2>1, LosesOwnOnly
  <2>. QED BY <1>4, <2>1, <2>2
<1>5. CASE e # d
  BY <1>2, <1>3, <1>4, <1>5 DEF Elsewhere
<1>6. CASE e = d
  <2>1. ASSUME cl[c].src \in Dirs, cl[c].name \in Names,
               [name |-> cl[c].name, owner |-> d] \in db'[cl[c].src].slots,
               disk'[d].cfg # None =>
                 disk'[d].cfg.physical = [src |-> cl[c].src, slot |-> cl[c].name]
        PROVE  \E r \in Dirs, s \in Slot :
                 /\ s \in db'[r].slots /\ s.owner = e
                 /\ disk'[e].cfg # None =>
                      disk'[e].cfg.physical = [src |-> r, slot |-> s.name]
    <3> DEFINE s == [name |-> cl[c].name, owner |-> d]
    <3>1. s \in Slot /\ s.owner = d /\ s.name = cl[c].name
      BY <1>1, <2>1 DEF Slot
    <3> HIDE DEF s
    <3>2. s \in db'[cl[c].src].slots
      BY <2>1 DEF s
    <3>. QED BY <1>6, <2>1, <3>1, <3>2
  <2>2. cl[c].op = "standby" => cl[c].name \in Names
    BY <1>1 DEF Knows, Client
  <2>3. CASE BaseBackup(c) /\ Go(c, "launch") /\ disk'[d].cfg = None
    <3>1. cl[c].op = "standby"
      BY <1>1, <2>3 DEF BaseBackup, At, OnTrack
    <3>2. ~Return(c, "fail")
      BY <1>1, <2>3 DEF Go, Return, Idle, LifeInv, Inv, TypeOK
    <3>3. /\ cl[c].src \in Dirs
          /\ [name |-> cl[c].name, owner |-> d] \in db'[cl[c].src].slots
      BY <2>3, <3>2, BackupGrows
    <3>. QED BY <2>1, <2>2, <2>3, <3>1, <3>3
  <2>4. CASE /\ cl[c].op = "standby" /\ cl[c].at = "save"
             /\ disk'[d].cfg # None =>
                  disk'[d].cfg.physical = [src |-> cl[c].src, slot |-> cl[c].name]
    <3>1. cl[c].src \in Dirs /\ HasSlot(d, cl[c].src, cl[c].name)
      BY <1>1, <2>4 DEF Keeps
    <3>2. ~SlotDrop(c)
      BY <2>4 DEF SlotDrop, At
    <3>3. [name |-> cl[c].name, owner |-> d] \in db'[cl[c].src].slots
      BY <3>1, <3>2, LosesOwnOnly DEF HasSlot
    <3>. QED BY <2>1, <2>2, <2>4, <3>1, <3>3
  <2>5. CASE /\ Recovers(disk[d].data) /\ ~SlotDrop(c)
             /\ disk'[d].cfg # None =>
                  /\ disk[d].cfg # None
                  /\ disk'[d].cfg.physical = disk[d].cfg.physical
    BY <1>4, <1>6, <2>5
  <2>. QED BY <1>3, <1>6, <2>3, <2>4, <2>5, RecoveryStep
<1>. QED BY <1>5, <1>6

\* No slot moves, no sandbox enters recovery, and no command comes to rely on one.
LEMMA SlotsRest ==
  ASSUME SlotInv, ReachInv', \A d \in Dirs : db'[d].slots = db[d].slots,
         \A d \in Dirs : /\ disk'[d].cfg = disk[d].cfg
                         /\ Recovers(disk'[d].data) => Recovers(disk[d].data)
                         /\ disk'[d].data = "absent" => disk[d].data = "absent",
         \A c \in Clients : InFlight(c)' =>
           \/ InFlight(c) /\ cl'[c] = cl[c]
           \/ cl'[c].at \notin {"launch", "save", "promote.wait", "slot.load", "slot.drop"}
  PROVE  SlotInv'
<1>1. Bare' /\ Distinct'
  BY DEF SlotInv, Bare, Distinct
<1>2. InRecoveryHasSlot'
  <2>1. SUFFICES ASSUME NEW d \in Dirs, Recovers(disk'[d].data)
                 PROVE  \E r \in Dirs, s \in Slot :
                          /\ s \in db'[r].slots /\ s.owner = d
                          /\ disk'[d].cfg # None =>
                               disk'[d].cfg.physical = [src |-> r, slot |-> s.name]
    BY DEF InRecoveryHasSlot, Recovers
  <2>2. PICK r \in Dirs, s \in Slot :
          /\ s \in db[r].slots /\ s.owner = d
          /\ disk[d].cfg # None => disk[d].cfg.physical = [src |-> r, slot |-> s.name]
    BY <2>1 DEF SlotInv, InRecoveryHasSlot, Recovers
  <2>. QED BY <2>2
<1>3. ASSUME NEW c \in Clients, InFlight(c)' PROVE Keeps(cl[c])'
  <2>1. CASE InFlight(c) /\ cl'[c] = cl[c]
    <3>1. /\ Keeps(cl[c]) /\ cl[c] \in Client /\ Knows(cl[c])
      BY <2>1 DEF SlotInv, ReachInv, LifeInv, Inv, TypeOK, CallsWellFormed
    <3>2. \A r \in Dirs : \A name :
            HasSlot(cl[c].dir, r, name) =>
              [name |-> name, owner |-> cl[c].dir] \in db'[r].slots
      BY DEF HasSlot
    <3>3. ASSUME cl[c].op = "promote", cl[c].cfg.physical # None,
                 cl[c].at \in {"promote.wait", "slot.load", "slot.drop"}
          PROVE  cl[c].cfg.physical.src \in Dirs
      <4>1. cl[c].cfg \in Sandbox
        BY <3>1, <3>3 DEF Knows, Client
      <4>. QED BY <3>3, <4>1 DEF Sandbox, Physical
    <3>. QED BY <2>1, <3>1, <3>2, <3>3 DEF Keeps, HasSlot
  <2>. QED BY <1>3, <2>1 DEF Keeps
<1>. QED BY <1>1, <1>2, <1>3 DEF SlotInv

LEMMA StepKeeps ==
  ASSUME Disciplined, Ops \cap {"destroy", "set"} = {},
         Faults \cap {"server", "pid"} = {}, SlotInv, Offered, [Next]_vars
  PROVE  SlotInv'
<1>1. ReachInv' /\ HostTypeOK /\ cl \in [Clients -> Client]
  BY StepReaches DEF SlotInv, ReachInv, LifeInv, Inv, TypeOK
<1>2. CASE UNCHANGED vars
  BY <1>1, <1>2, SlotsRest DEF vars, InFlight
<1>3. ASSUME NEW c \in Clients, BeginCall(c) PROVE SlotInv'
  <2>1. ASSUME NEW op, NEW d, NEW src, NEW name, NEW port,
               NEW point \in {"port", "probe", "start.load", "stop.load",
                              "destroy.load", "promote.load", "pub.load",
                              "sub.load", "set.load"},
               Begin(c, op, point, d, src, name, port)
        PROVE  SlotInv'
    <3>1. /\ cl'[c].at = point /\ \A b \in Clients \ {c} : cl'[b] = cl[b]
          /\ UNCHANGED <<disk, db>>
      BY <1>1, <2>1 DEF Begin, Quiet, host
    <3>. QED BY <1>1, <3>1, SlotsRest DEF InFlight
  <2>. QED BY <1>3, <2>1
       DEF BeginCall, BeginDeploy, BeginLifecycle, BeginDestroy, BeginPromote,
           BeginPublish, BeginSubscribe, BeginSet
<1>4. ASSUME NEW c \in Clients, ClientStep(c) PROVE SlotInv'
  <2>1. cl[c].op \notin {"destroy", "set"} /\ "server" \notin Faults /\ "set" \notin Ops
    BY <1>4, StepIsInFlight DEF Offered
  <2>2. Bare' /\ Distinct'
    BY <1>4, <2>1, BareStep
  <2>3. InRecoveryHasSlot'
    BY <1>4, <2>1, RecoveryKeepsSlot
  <2>4. ASSUME NEW b \in Clients, InFlight(b)' PROVE Keeps(cl[b])'
    <3>1. CASE b = c
      BY <1>4, <2>1, <2>4, <3>1, OwnKeeps
    <3>2. CASE b # c
      <4>1. InFlight(b)
        BY <1>1, <1>4, <2>4, <3>2, OneMoves DEF InFlight
      <4>. QED BY <1>4, <2>1, <3>2, <4>1, OthersKeep
    <3>. QED BY <3>1, <3>2
  <2>. QED BY <1>1, <2>2, <2>3, <2>4 DEF SlotInv
<1>5. ASSUME NEW c \in Clients, KillClient(c) PROVE SlotInv'
  <2>1. UNCHANGED <<disk, db>> /\ Return(c, "fail")
    BY <1>5 DEF KillClient, Quiet, host
  <2>2. ~InFlight(c)' /\ \A b \in Clients \ {c} : cl'[b] = cl[b]
    BY <1>1, <2>1 DEF Return, Idle, InFlight, Ends
  <2>. QED BY <1>1, <2>1, <2>2, SlotsRest DEF InFlight
<1>6. CASE Machine
  <2>1. \A d \in Dirs : ~LocklessExit(d)
    BY DEF LocklessExit, SlotInv, ReachInv, LifeInv, Sane, Coherent
  <2>2. ASSUME NEW d \in Dirs, FinishPromotion(d), UNCHANGED cl PROVE SlotInv'
    <3>1. \A e \in Dirs : /\ disk'[e].cfg = disk[e].cfg
                          /\ disk'[e].data \in {disk[e].data, "primary"}
      BY <1>1, <2>2 DEF FinishPromotion, HostTypeOK, Files
    <3>2. db' = db
      BY <2>2 DEF FinishPromotion
    <3>. QED BY <1>1, <2>2, <3>1, <3>2, SlotsRest DEF InFlight, Recovers
  <2>3. ASSUME NEW p, StrayExit(p), UNCHANGED cl PROVE SlotInv'
    BY <1>1, <2>3, SlotsRest DEF StrayExit, InFlight
  <2>. QED BY <1>6, <2>1, <2>2, <2>3 DEF Machine, MayFail
<1>7. CASE Reboot
  <2>1. \A d \in Dirs : /\ disk'[d].cfg = disk[d].cfg
                        /\ disk'[d].data = Settled(disk[d].data)
                        /\ db'[d].slots = db[d].slots
    BY <1>1, <1>7 DEF Reboot, HostTypeOK, Files, Database
  <2>2. \A c \in Clients : ~InFlight(c)'
    BY <1>1, <1>7 DEF Reboot, Idle, InFlight, Ends
  <2>. QED BY <1>1, <2>1, <2>2, SlotsRest DEF Settled, Recovers
<1>. QED BY <1>2, <1>3, <1>4, <1>5, <1>6, <1>7 DEF Next, Environment

LEMMA InitKeeps == Init => SlotInv
<1>. SUFFICES ASSUME Init PROVE SlotInv
  OBVIOUS
<1>1. \A d \in Dirs : disk[d].data = "absent" /\ db[d].slots = {}
  BY DEF Init, HostInit, NoFiles, NoDatabase
<1>2. \A c \in Clients : ~InFlight(c)
  BY DEF Init, Idle, InFlight, Ends
<1>. QED BY <1>1, <1>2, InitReaches
     DEF SlotInv, Bare, Distinct, InRecoveryHasSlot

LEMMA AlwaysKeeps ==
  ASSUME Disciplined, Ops \cap {"destroy", "set"} = {},
         Faults \cap {"server", "pid"} = {}
  PROVE  Spec => []SlotInv
<1>1. SlotInv /\ Offered /\ [Next]_vars => SlotInv'
  BY StepKeeps
<1>. QED BY <1>1, InitKeeps, AlwaysOffered, PTL DEF Spec

\* A standby has its slot on its source from before pg_basebackup has copied
\* anything until it is out of recovery, so promote asks pg_is_in_recovery first
\* and drops the slot afterwards.  A postmaster killed during the promotion
\* returns to recovery with its slot gone.
THEOREM StandbyKeepsItsSlot ==
  ASSUME Disciplined, Ops \cap {"destroy", "set"} = {},
         Faults \cap {"server", "pid"} = {}
  PROVE  Spec => []InRecoveryHasSlot
<1>1. SlotInv => InRecoveryHasSlot
  BY DEF SlotInv
<1>. QED BY <1>1, AlwaysKeeps, PTL

\* Where no source is ever destroyed, a name on a source is one standby's, and
\* the slot a promote drops by name is that of the sandbox it was given.
THEOREM SlotsOfItsOwn ==
  ASSUME Disciplined, Ops \cap {"destroy", "set"} = {},
         Faults \cap {"server", "pid"} = {}
  PROVE  Spec => OnlyOwnSlotDropped
<1>1. ASSUME SlotInv, Offered, [Next]_vars, NEW r \in Dirs,
             NEW s \in db[r].slots \ db'[r].slots
      PROVE  \E c \in Clients : cl'[c] # cl[c] /\ cl[c].dir = s.owner
  <2>1. /\ cl \in [Clients -> Client] /\ HostTypeOK
        /\ \A d \in Dirs : ~LocklessExit(d)
    BY <1>1 DEF SlotInv, ReachInv, LifeInv, Inv, TypeOK, LocklessExit, Sane, Coherent
  <2>2. ASSUME NEW c \in Clients, ClientStep(c)
        PROVE  cl'[c] # cl[c] /\ cl[c].dir = s.owner
    <3>1. cl[c].op # "destroy"
      BY <1>1, <2>2, StepIsInFlight DEF Offered
    <3>2. SlotDrop(c) /\ s.owner = cl[c].dir
      BY <1>1, <2>2, <3>1, LosesOwnOnly
    <3>3. cl[c].at = "slot.drop" /\ cl'[c].at \in {"destroy.rm", "promote.save"}
      BY <2>1, <3>2 DEF SlotDrop, SlotDone, Go, At
    <3>. QED BY <3>2, <3>3
  <2>3. ASSUME NEW c \in Clients, BeginCall(c) PROVE db' = db
    BY <2>3 DEF BeginCall, BeginDeploy, BeginLifecycle, BeginDestroy, BeginPromote,
       BeginPublish, BeginSubscribe, BeginSet, Begin, Quiet, host
  <2>4. ASSUME NEW c \in Clients, KillClient(c) PROVE db' = db
    BY <2>4 DEF KillClient, Quiet, host
  <2>5. Machine => db' = db
    BY <2>1 DEF Machine, MayFail, FinishPromotion, StrayExit, ReusePid
  <2>6. ASSUME Reboot PROVE db'[r].slots = db[r].slots
    <3>1. db[r] \in Database /\ db'[r] = [db[r] EXCEPT !.walLive = FALSE]
      BY <2>1, <2>6 DEF Reboot, HostTypeOK
    <3>. QED BY <3>1 DEF Database
  <2>. QED BY <1>1, <2>2, <2>3, <2>4, <2>5, <2>6 DEF Next, Environment, vars
<1>2. SlotInv /\ Offered /\ [Next]_vars =>
        [\A r \in Dirs : srv[r] # None /\ srv'[r] # None =>
           \A s \in db[r].slots \ db'[r].slots :
             \E c \in Clients : cl'[c] # cl[c] /\ cl[c].dir = s.owner]_vars
  BY <1>1
<1>. QED BY <1>2, AlwaysKeeps, AlwaysOffered, PTL DEF Spec, OnlyOwnSlotDropped
=============================================================================
