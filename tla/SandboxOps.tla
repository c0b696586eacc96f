----------------------------- MODULE SandboxOps -----------------------------
(***************************************************************************)
(* The sandbox commands of pg_sandbox: deploy (standalone, standby and     *)
(* subscriber), start, stop, restart, destroy, promote, publish, subscribe *)
(* and config set, run by several invocations at once on one machine.      *)
(*                                                                         *)
(* An invocation is a program with no shared memory and no lock.  Each     *)
(* action below is what it does between two points where another           *)
(* invocation, a crash or PostgreSQL may step in: one child process, one   *)
(* file operation, or a run of reads.  An invocation that the code rejects *)
(* before it has read or written anything is not modelled.                 *)
(*                                                                         *)
(* An operator named X_bug is X as a mistake would have it; the model does *)
(* not use it.  Each shows that some property notices the mistake.         *)
(***************************************************************************)
EXTENDS PgHost

CONSTANTS
  Clients,      \* invocations that can be in flight together
  Ops,          \* the commands of this instance
  Faults,       \* what may go wrong in this instance
  Disciplined,  \* operators keep two commands off one sandbox
  PortBase,     \* where a deploy given no other base starts to scan for a port
  PortRange,    \* how many ports it scans
  Asked,        \* ports an operator names on a command line
  MaxCalls      \* bound on the number of invocations

DeployOps == {"deploy", "standby", "subscriber"}

AllOps == DeployOps \cup {"start", "stop", "restart", "destroy", "promote",
                          "publish", "subscribe", "set"}

\* cli: an invocation is killed; server: a postmaster is killed; pid: a PID is
\* recycled; child: a program fails for reasons of its own; slow: pg_ctl gives
\* up waiting for what still happens; rm: a removal stops half-way; reboot.
AllFaults == {"cli", "server", "pid", "child", "slow", "rm", "reboot"}

ASSUME OpsAssumption == Ops \subseteq AllOps /\ Faults \subseteq AllFaults
ASSUME BoundsAssumption ==
  /\ Disciplined \in BOOLEAN
  /\ PortBase \in Nat /\ PortRange \in Nat /\ MaxCalls \in Nat
  /\ Asked \subseteq Ports
ASSUME SentinelAssumption == None \notin Sandbox \cup Physical \cup Logical

VARIABLES
  cl,           \* cl[c]: where invocation c stands and what it remembers
  calls         \* invocations begun so far

vars == <<disk, srv, db, strays, cl, calls>>

\* Where an invocation can stand; "ok" and "fail" are its exit.
Ends == {"ok", "fail"}

Points == {"port", "init", "launch", "save", "probe", "role", "mkrole", "hba",
           "mkdir", "base", "start.load", "start.run", "stop.load",
           "stop.unlink", "stop.run", "destroy.load", "destroy.sub",
           "destroy.stop", "destroy.rm", "slot.load", "slot.drop",
           "promote.load", "promote.run", "promote.wait", "promote.save",
           "pub.load", "pub.show", "pub.alter", "pub.create", "sub.load", "sub.create",
           "sub.save", "set.load", "set.save"}

\* cfg: this sandbox's config as the invocation read it.  port: the port it
\* will start or record.  peer: the port of the source, as read from its config.
\* base: where a deploy starts to scan for a port.
Client == [op : AllOps \cup {None}, at : Points \cup Ends,
           dir : Dirs \cup {None}, src : Dirs \cup {None},
           name : Names \cup {None}, cfg : Sandbox \cup {None},
           port : Ports \cup {None}, peer : Ports \cup {None}, base : Nat]

TypeOK ==
  /\ HostTypeOK
  /\ cl \in [Clients -> Client]
  /\ calls \in Nat

Idle == [op |-> None, at |-> "ok", dir |-> None, src |-> None, name |-> None,
         cfg |-> None, port |-> None, peer |-> None, base |-> PortBase]

Init ==
  /\ HostInit
  /\ cl = [c \in Clients |-> Idle]
  /\ calls = 0

-----------------------------------------------------------------------------
\* Moving an invocation

At(c, point) == cl[c].at = point /\ UNCHANGED calls

Go(c, point) == cl' = [cl EXCEPT ![c].at = point]

Return(c, outcome) == cl' = [cl EXCEPT ![c] = [Idle EXCEPT !.at = outcome]]

InFlight(c) == cl[c].at \notin Ends

Quiet == UNCHANGED host

MayFail(kind) == kind \in Faults

\* The sandboxes c works on: its own, and the one it reads as a source.
Touches(c) == {cl[c].dir, cl[c].src} \ {None}

\* No other invocation is changing d or src, and none reads d as its source.
Unshared(c, d, src) ==
  \A b \in Clients \ {c} :
     InFlight(b) => /\ d \notin Touches(b)
                    /\ cl[b].dir # src

Begin(c, op, point, d, src, name, port) ==
  /\ op \in Ops /\ calls < MaxCalls
  /\ ~InFlight(c)
  /\ Disciplined => Unshared(c, d, src)
  /\ calls' = calls + 1
  /\ cl' = [cl EXCEPT ![c] = [op |-> op, at |-> point, dir |-> d, src |-> src,
                             name |-> name, cfg |-> None, port |-> port,
                             peer |-> None, base |-> PortBase]]
  /\ Quiet

\* config.SaveSandbox: a temporary file renamed over pg_sandbox.json; the
\* directory has to exist.  done is what follows.
Save(c, cfg, done) ==
  \/ /\ disk[cl[c].dir].made
     /\ disk' = [disk EXCEPT ![cl[c].dir].cfg = cfg]
     /\ UNCHANGED <<srv, db, strays>>
     /\ done
  \/ /\ ~disk[cl[c].dir].made \/ MayFail("child")
     /\ Quiet
     /\ Return(c, "fail")

\* pg_ctl start -D data -o "-h host -p port" -w.
PgCtlStart(c, done) ==
  LET d == cl[c].dir
      p == cl[c].port IN
  \/ CanStart(d, p) /\ ServerUp(d, p) /\ done
  \/ CanStart(d, p) /\ MayFail("slow") /\ ServerUp(d, p) /\ Return(c, "fail")
  \/ (~CanStart(d, p) \/ MayFail("child")) /\ Quiet /\ Return(c, "fail")

\* The pidfile is not looked at.
Reachable_bug(src) ==
  /\ src \in Dirs /\ disk[src].cfg # None
  /\ IsBusy(disk[src].cfg.port)

\* The source sandbox is loadable, its pidfile names a live process and
\* something listens on its port.
Reachable(src) ==
  /\ src \in Dirs /\ disk[src].cfg # None
  /\ IsRunning(src) /\ IsBusy(disk[src].cfg.port)

-----------------------------------------------------------------------------
\* deploy

BeginDeploy(c) ==
  \E op \in DeployOps, d \in Dirs, port \in Asked \cup {None} :
    /\ DirAvailable(d)
    /\ \/ op = "deploy" /\ Begin(c, op, "port", d, None, None, port)
       \/ \E src \in Dirs, name \in Names :
            \/ op = "standby" /\ Begin(c, op, "probe", d, src, name, port)
            \/ op = "subscriber" /\ Begin(c, op, "port", d, src, name, port)

\* An explicit port has to bind; without one the first that does is taken.
ResolvePort(c, next) ==
  LET Candidates == IF cl[c].port # None
                    THEN {p \in Ports : p = cl[c].port /\ ~IsBusy(p)}
                    ELSE FreePort(cl[c].base, PortRange) IN
  \/ \E p \in Candidates : cl' = [cl EXCEPT ![c].port = p, ![c].at = next]
  \/ Candidates = {} /\ Return(c, "fail")

\* Standalone: the port is chosen before anything is written.
ChoosePort(c) == At(c, "port") /\ Quiet /\ ResolvePort(c, "init")

\* Standby: mkdir comes first, so a port failure leaves an empty directory.
MakeDirChoosePort(c) ==
  /\ At(c, "mkdir")
  /\ disk' = [disk EXCEPT ![cl[c].dir].made = TRUE]
  /\ UNCHANGED <<srv, db, strays>>
  /\ ResolvePort(c, "base")

\* An existing data directory is taken over.
InitDb_bug(c) ==
  /\ At(c, "init")
  /\ disk' = [disk EXCEPT ![cl[c].dir].made = TRUE, ![cl[c].dir].data = "primary"]
  /\ UNCHANGED <<srv, db, strays>>
  /\ Go(c, "launch")

\* mkdir and initdb.  initdb refuses a data directory with content, and
\* removes what it wrote when it fails, but not when it is killed.
InitDb(c) ==
  LET d == cl[c].dir
      Becomes(data) ==
        /\ disk' = [disk EXCEPT ![d].made = TRUE, ![d].data = data]
        /\ UNCHANGED <<srv, db, strays>> IN
  /\ At(c, "init")
  /\ \/ disk[d].data = "absent" /\ Becomes("primary") /\ Go(c, "launch")
     \/ /\ disk[d].data = "absent" /\ MayFail("cli")
        /\ Becomes("partial") /\ Return(c, "fail")
     \/ /\ disk[d].data # "absent" \/ MayFail("child")
        /\ Becomes(disk[d].data) /\ Return(c, "fail")

LaunchDeployed(c) == At(c, "launch") /\ PgCtlStart(c, Go(c, "save"))

\* The config is written once the server has started, and the scripts after
\* it; deploy fails when they cannot be written.
SaveDeployed(c) ==
  LET standby == cl[c].op = "standby"
      cfg == [port |-> cl[c].port,
              role |-> IF standby THEN "standby" ELSE "primary",
              physical |-> IF standby THEN [src |-> cl[c].src, slot |-> cl[c].name]
                           ELSE None,
              logical |-> None] IN
  /\ At(c, "save")
  /\ Save(c, cfg, \/ cl[c].op # "subscriber" /\ Return(c, "ok")
                  \/ cl[c].op = "subscriber" /\ Go(c, "sub.load")
                  \/ MayFail("child") /\ Return(c, "fail"))

-----------------------------------------------------------------------------
\* deploy --replicate-from

ProbeSource(c) ==
  /\ At(c, "probe") /\ Quiet
  /\ IF Reachable(cl[c].src)
     THEN cl' = [cl EXCEPT ![c].peer = disk[cl[c].src].cfg.port,
                           ![c].at = "role"]
     ELSE Return(c, "fail")

\* ensureReplicatorRole asks first and creates in a second connection.
ProbeRole(c) ==
  /\ At(c, "role") /\ Quiet
  /\ \/ \E r \in Serving(cl[c].peer) :
          Go(c, IF db[r].repl THEN "hba" ELSE "mkrole")
     \/ Serving(cl[c].peer) = {} /\ Return(c, "fail")

CreateRole(c) ==
  LET Fresh == {r \in Serving(cl[c].peer) :
                  ~db[r].repl /\ disk[r].data = "primary"} IN
  /\ At(c, "mkrole")
  /\ \/ \E r \in Fresh :
          /\ db' = [db EXCEPT ![r].repl = TRUE]
          /\ UNCHANGED <<disk, srv, strays>>
          /\ Go(c, "hba")
     \/ Fresh = {} /\ Quiet /\ Return(c, "fail")

\* The line is appended to the file in the source's data directory, whatever
\* server the role was created in; a failed reload leaves it there.
EnsureHba(c) ==
  LET s == cl[c].src IN
  /\ At(c, "hba")
  /\ \/ db[s].hba /\ Quiet /\ Go(c, "mkdir")
     \/ /\ ~db[s].hba /\ disk[s].data \in Complete
        /\ db' = [db EXCEPT ![s].hba = TRUE]
        /\ UNCHANGED <<disk, srv, strays>>
        /\ \/ IsRunning(s) /\ Go(c, "mkdir")
           \/ (disk[s].pid # "live" \/ MayFail("child")) /\ Return(c, "fail")
     \/ disk[s].data \notin Complete /\ Quiet /\ Return(c, "fail")

\* Without -C: a slot that is there already is used.
Upstream_bug(c) ==
  {r \in Serving(cl[c].peer) : disk[cl[c].dir].data = "absent" /\ db[r].repl}

\* The servers pg_basebackup -C --slot would copy from: it wants an empty data
\* directory, the role it connects as, and a slot name not in use.
Upstream(c) ==
  {r \in Serving(cl[c].peer) :
     /\ disk[cl[c].dir].data = "absent" /\ db[r].repl
     /\ \A s \in db[r].slots : s.name # cl[c].name}

\* It creates the slot, then copies.  Failing while copying it empties the
\* directory and leaves the slot; killed, it leaves both.
BaseBackup(c) ==
  LET d == cl[c].dir
      Copied(r, data) ==
        IF data = "standby"
        THEN [db EXCEPT ![d] = [db[r] EXCEPT !.slots = {}, !.walLive = FALSE]]
        ELSE db
      Copy(r, data) ==
        /\ db' = [Copied(r, data) EXCEPT
                   ![r].slots = @ \cup {[name |-> cl[c].name, owner |-> d]}]
        /\ disk' = [disk EXCEPT ![d].data = data]
        /\ UNCHANGED <<srv, strays>> IN
  /\ At(c, "base")
  /\ \/ \E r \in Upstream(c) :
          \/ Copy(r, "standby") /\ Go(c, "launch")
          \/ MayFail("child") /\ Copy(r, "absent") /\ Return(c, "fail")
          \/ MayFail("cli") /\ Copy(r, "partial") /\ Return(c, "fail")
     \/ (Upstream(c) = {} \/ MayFail("child")) /\ Quiet /\ Return(c, "fail")

-----------------------------------------------------------------------------
\* start, stop, restart.  publish stops and starts the sandbox the same way.

BeginLifecycle(c) ==
  \E d \in Dirs :
    \/ Begin(c, "start", "start.load", d, None, None, None)
    \/ \E op \in {"stop", "restart"} :
         Begin(c, op, "stop.load", d, None, None, None)

StartDone(c) ==
  IF cl[c].op = "publish" THEN Go(c, "pub.create") ELSE Return(c, "ok")

\* The port of the config is not passed on, and postgres uses its default.
StartLoad_bug(c) ==
  LET d == cl[c].dir IN
  /\ At(c, "start.load") /\ Quiet
  /\ \/ disk[d].cfg = None /\ Return(c, "fail")
     \/ disk[d].cfg # None /\ IsRunning(d) /\ StartDone(c)
     \/ /\ disk[d].cfg # None /\ ~IsRunning(d)
        /\ cl' = [cl EXCEPT ![c].port = PortBase, ![c].at = "start.run"]

StartLoad(c) ==
  LET d == cl[c].dir IN
  /\ At(c, "start.load") /\ Quiet
  /\ \/ disk[d].cfg = None /\ Return(c, "fail")
     \/ disk[d].cfg # None /\ IsRunning(d) /\ StartDone(c)
     \/ /\ disk[d].cfg # None /\ ~IsRunning(d)
        /\ cl' = [cl EXCEPT ![c].port = disk[d].cfg.port,
                            ![c].at = "start.run"]

StartRun(c) == At(c, "start.run") /\ PgCtlStart(c, StartDone(c))

StopDone(c) ==
  IF cl[c].op = "stop" THEN Return(c, "ok") ELSE Go(c, "start.load")

StopLoad(c) ==
  LET d == cl[c].dir IN
  /\ At(c, "stop.load") /\ Quiet
  /\ \/ disk[d].cfg = None /\ Return(c, "fail")
     \/ disk[d].cfg # None /\ IsRunning(d) /\ Go(c, "stop.run")
     \/ disk[d].cfg # None /\ disk[d].pid = "dead" /\ Go(c, "stop.unlink")
     \/ disk[d].cfg # None /\ disk[d].pid = "none" /\ StopDone(c)

\* The pidfile found stale is unlinked without a second look at it.
StopUnlink(c) ==
  /\ At(c, "stop.unlink")
  /\ disk' = [disk EXCEPT ![cl[c].dir].pid = "none"]
  /\ UNCHANGED <<srv, db, strays>>
  /\ StopDone(c)

StopRun(c) ==
  LET d == cl[c].dir IN
  /\ At(c, "stop.run")
  /\ \/ disk[d].pid = "live" /\ ServerDown(d, "none") /\ StopDone(c)
     \/ /\ disk[d].pid # "live" \/ MayFail("child")
        /\ Quiet /\ Return(c, "fail")

-----------------------------------------------------------------------------
\* destroy, and the slot removal it shares with promote

\* The block instead of the sandbox it names.
SourceOf_bug(d) ==
  IF disk[d].cfg # None THEN disk[d].cfg.physical ELSE None

\* The source a sandbox's config names, if any.
SourceOf(d) ==
  IF disk[d].cfg # None
  THEN IF disk[d].cfg.physical # None THEN disk[d].cfg.physical.src ELSE None
  ELSE None

BeginDestroy(c) ==
  \E d \in Dirs :
    Begin(c, "destroy", "destroy.load", d, SourceOf(d), None, None)

DestroyLoad(c) ==
  LET d == cl[c].dir
      subscribed == disk[d].cfg # None /\ disk[d].cfg.logical # None IN
  /\ At(c, "destroy.load") /\ Quiet
  /\ IF disk[d].cfg = None THEN Return(c, "fail")
     ELSE cl' = [cl EXCEPT ![c].cfg = disk[d].cfg,
                   ![c].at = IF subscribed /\ IsRunning(d) THEN "destroy.sub"
                             ELSE "destroy.stop"]

\* ALTER ... SET (slot_name = NONE), then DROP SUBSCRIPTION: the publisher's
\* slot stays.  Any failure is a warning.
DropSubscription(c) ==
  LET sub == cl[c].cfg.logical.sub
      Target == {r \in Serving(cl[c].cfg.port) : disk[r].data = "primary"} IN
  /\ At(c, "destroy.sub") /\ Go(c, "destroy.stop")
  /\ \/ \E r \in Target :
          /\ db' = [db EXCEPT ![r].subs = {s \in @ : s.name # sub}]
          /\ UNCHANGED <<disk, srv, strays>>
     \/ (Target = {} \/ MayFail("child")) /\ Quiet

\* Only standbys are stopped before they are removed.
DestroyStop_bug(c) ==
  LET d == cl[c].dir IN
  /\ At(c, "destroy.stop")
  /\ \/ /\ cl[c].cfg.physical # None /\ Go(c, "slot.load")
        /\ disk[d].pid = "live" /\ ServerDown(d, "none")
     \/ cl[c].cfg.physical = None /\ Quiet /\ Go(c, "destroy.rm")

\* The slot removal does not ask whether there is a physical block.
DestroyStop_unasked(c) ==
  LET d == cl[c].dir IN
  /\ At(c, "destroy.stop") /\ Go(c, "slot.load")
  /\ \/ disk[d].pid = "live" /\ ServerDown(d, "none")
     \/ disk[d].pid # "live" /\ Quiet

\* pg_ctl stop -m immediate when the pidfile names a live process; its failure
\* is ignored.
DestroyStop(c) ==
  LET d == cl[c].dir IN
  /\ At(c, "destroy.stop")
  /\ Go(c, IF cl[c].cfg.physical # None THEN "slot.load" ELSE "destroy.rm")
  /\ \/ disk[d].pid = "live" /\ ServerDown(d, "none")
     \/ (disk[d].pid # "live" \/ MayFail("child")) /\ Quiet

SlotDone(c) ==
  Go(c, IF cl[c].op = "destroy" THEN "destroy.rm" ELSE "promote.save")

SlotLoad(c) ==
  LET src == cl[c].cfg.physical.src IN
  /\ At(c, "slot.load") /\ Quiet
  /\ IF Reachable(src)
     THEN cl' = [cl EXCEPT ![c].peer = disk[src].cfg.port,
                           ![c].at = "slot.drop"]
     ELSE SlotDone(c)

\* A walsender is on the slot: the standby, or the subscription, it was created
\* for is up.  Such a slot cannot be dropped.
InUse(s) ==
  \/ srv[s.owner] # None /\ disk[s.owner].data # "primary"
  \/ \E l \in db[s.owner].subs : srv[s.owner] # None /\ l.name = s.name

\* pg_drop_replication_slot(name) where it exists; a failure is a warning.
SlotDrop(c) ==
  LET slot == cl[c].cfg.physical.slot
      Target == {r \in Serving(cl[c].peer) :
                   \A s \in db[r].slots : s.name = slot => ~InUse(s)} IN
  /\ At(c, "slot.drop") /\ SlotDone(c)
  /\ \/ \E r \in Target :
          /\ db' = [db EXCEPT ![r].slots = {s \in @ : s.name # slot}]
          /\ UNCHANGED <<disk, srv, strays>>
     \/ (Target = {} \/ MayFail("child")) /\ Quiet

\* The data directory is removed instead of the sandbox directory.
DestroyRemove_bug(c) ==
  LET d == cl[c].dir IN
  /\ At(c, "destroy.rm")
  /\ Removed(d, [NoFiles EXCEPT !.made = TRUE, !.cfg = disk[d].cfg])
  /\ Return(c, "ok")

\* os.RemoveAll.  Stopped half-way it leaves a torn directory, with or without
\* its config.
DestroyRemove(c) ==
  LET d == cl[c].dir IN
  /\ At(c, "destroy.rm")
  /\ \/ Removed(d, NoFiles) /\ Return(c, "ok")
     \/ /\ MayFail("rm")
        /\ \E cfg \in {disk[d].cfg, None} :
             Removed(d, [made |-> TRUE, data |-> "torn", pid |-> "none",
                         cfg |-> cfg])
        /\ Return(c, "fail")

-----------------------------------------------------------------------------
\* promote

BeginPromote(c) ==
  \E d \in Dirs :
    Begin(c, "promote", "promote.load", d, SourceOf(d), None, None)

PromoteLoad(c) ==
  LET cfg == disk[cl[c].dir].cfg IN
  /\ At(c, "promote.load") /\ Quiet
  /\ \/ /\ cfg # None /\ cfg.role = "standby" /\ IsRunning(cl[c].dir)
        /\ cl' = [cl EXCEPT ![c].cfg = cfg, ![c].at = "promote.run"]
     \/ /\ \/ cfg = None
           \/ cfg # None /\ (cfg.role # "standby" \/ ~IsRunning(cl[c].dir))
        /\ Return(c, "fail")

\* The wait for recovery to end is skipped.
PromoteRun_bug(c) ==
  LET d == cl[c].dir IN
  /\ At(c, "promote.run")
  /\ disk[d].data = "standby" /\ disk[d].pid = "live"
  /\ disk' = [disk EXCEPT ![d].data = "promoting"]
  /\ UNCHANGED <<srv, db, strays>>
  /\ Go(c, "slot.load")

\* pg_ctl promote -w.  When it gives up waiting the request stands.
PromoteRun(c) ==
  LET d == cl[c].dir
      ready == disk[d].data = "standby" /\ disk[d].pid = "live" IN
  /\ At(c, "promote.run")
  /\ \/ /\ ready
        /\ disk' = [disk EXCEPT ![d].data = "promoting"]
        /\ UNCHANGED <<srv, db, strays>>
        /\ \/ Go(c, "promote.wait")
           \/ MayFail("slow") /\ Return(c, "fail")
     \/ (~ready \/ MayFail("child")) /\ Quiet /\ Return(c, "fail")

\* No deadline: only a server that has left recovery ends the wait.
PromoteWait_bug(c) ==
  /\ At(c, "promote.wait") /\ Quiet
  /\ \E r \in Serving(cl[c].cfg.port) : disk[r].data = "primary"
  /\ Go(c, "slot.load")

\* SELECT pg_is_in_recovery() until it says f, or for 10 seconds.
PromoteWait(c) ==
  LET Left == {r \in Serving(cl[c].cfg.port) : disk[r].data = "primary"} IN
  /\ At(c, "promote.wait") /\ Quiet
  /\ \/ /\ Left # {}
        /\ Go(c, IF cl[c].cfg.physical # None THEN "slot.load"
                 ELSE "promote.save")
     \/ Left = {} /\ Return(c, "fail")

\* The source is forgotten and the role left alone.
PromoteSave_bug(c) ==
  /\ At(c, "promote.save")
  /\ Save(c, [cl[c].cfg EXCEPT !.physical = None], Return(c, "ok"))

\* The config read at the start, with the two fields changed, is written back.
PromoteSave(c) ==
  /\ At(c, "promote.save")
  /\ Save(c, [cl[c].cfg EXCEPT !.role = "primary", !.physical = None],
          Return(c, "ok"))

-----------------------------------------------------------------------------
\* publish

BeginPublish(c) ==
  \E d \in Dirs : Begin(c, "publish", "pub.load", d, None, None, None)

PublishLoad(c) ==
  LET d == cl[c].dir IN
  /\ At(c, "pub.load") /\ Quiet
  /\ IF Reachable(d)
     THEN cl' = [cl EXCEPT ![c].cfg = disk[d].cfg, ![c].at = "pub.show"]
     ELSE Return(c, "fail")

\* SHOW wal_level.  Where it is logical already, the limits of slots and senders,
\* which the model does not have, may still be too low: they are raised, or cannot
\* be, and the sandbox is restarted for them.
ShowWalLevel(c) ==
  LET Answering == Serving(cl[c].cfg.port) IN
  /\ At(c, "pub.show") /\ Quiet
  /\ \/ \E r \in Answering : ~db[r].walLive /\ Go(c, "pub.alter")
     \/ \E r \in Answering :
          db[r].walLive /\ (Go(c, "pub.create") \/ Go(c, "stop.load"))
     \/ (Answering = {} \/ MayFail("child")) /\ Return(c, "fail")

\* wal_level is raised without a restart.
AlterSystem_bug(c) ==
  /\ At(c, "pub.alter")
  /\ \E r \in Serving(cl[c].cfg.port) : db' = [db EXCEPT ![r].walConf = TRUE]
  /\ UNCHANGED <<disk, srv, strays>>
  /\ Go(c, "pub.create")

\* ALTER SYSTEM, then a restart of the sandbox by Stop and Start.  A failure may
\* come after wal_level was set, when it is another setting that cannot be.
AlterSystem(c) ==
  LET Answering == Serving(cl[c].cfg.port) IN
  /\ At(c, "pub.alter")
  /\ \/ \E r \in Answering :
          /\ db' = [db EXCEPT ![r].walConf = TRUE]
          /\ UNCHANGED <<disk, srv, strays>>
          /\ \/ Go(c, "stop.load")
             \/ MayFail("child") /\ Return(c, "fail")
     \/ (Answering = {} \/ MayFail("child")) /\ Quiet /\ Return(c, "fail")

CreatePublication(c) ==
  LET Target == {r \in Serving(cl[c].cfg.port) :
                   disk[r].data = "primary" /\ ~db[r].pub} IN
  /\ At(c, "pub.create")
  /\ \/ \E r \in Target :
          /\ db' = [db EXCEPT ![r].pub = TRUE]
          /\ UNCHANGED <<disk, srv, strays>>
          /\ Return(c, "ok")
     \/ (Target = {} \/ MayFail("child")) /\ Quiet /\ Return(c, "fail")

-----------------------------------------------------------------------------
\* subscribe, also the second half of deploy --subscribe-to

BeginSubscribe(c) ==
  \E d \in Dirs, src \in Dirs, name \in Names :
    Begin(c, "subscribe", "sub.load", d, src, name, None)

SubscribeLoad(c) ==
  LET d == cl[c].dir
      src == cl[c].src IN
  /\ At(c, "sub.load") /\ Quiet
  /\ IF disk[d].cfg # None /\ Reachable(src)
     THEN cl' = [cl EXCEPT ![c].cfg = disk[d].cfg,
                           ![c].peer = disk[src].cfg.port,
                           ![c].at = "sub.create"]
     ELSE Return(c, "fail")

\* CREATE SUBSCRIPTION in whatever server listens on the subscriber's port; it
\* connects to the publisher's port and creates a slot of its own name there.
\* When both ports lead to one server the statement waits for its own
\* transaction, until the server goes down.
CreateSubscription(c) ==
  LET name == cl[c].name
      Hung == \E r \in Serving(cl[c].cfg.port) \cap Serving(cl[c].peer) :
                /\ disk[r].data = "primary" /\ db[r].walLive
                /\ \A s \in db[r].slots : s.name # name
      Pairs == {rp \in Serving(cl[c].cfg.port) \X Serving(cl[c].peer) :
                  /\ rp[1] # rp[2]
                  /\ disk[rp[1]].data = "primary"
                  /\ db[rp[2]].walLive
                  /\ \A s \in db[rp[1]].subs : s.name # name
                  /\ \A s \in db[rp[2]].slots : s.name # name} IN
  /\ At(c, "sub.create")
  /\ \/ \E rp \in Pairs :
          /\ db' = [db EXCEPT
               ![rp[1]].subs = @ \cup {[name |-> name, pub |-> rp[2]]},
               ![rp[2]].slots = @ \cup {[name |-> name, owner |-> rp[1]]}]
          /\ UNCHANGED <<disk, srv, strays>>
          /\ Go(c, "sub.save")
     \/ (Pairs = {} \/ MayFail("child")) /\ ~Hung /\ Quiet /\ Return(c, "fail")

SubscribeSave(c) ==
  /\ At(c, "sub.save")
  /\ Save(c, [cl[c].cfg EXCEPT !.role = "subscriber",
                !.logical = [src |-> cl[c].src, sub |-> cl[c].name]],
          Return(c, "ok"))

-----------------------------------------------------------------------------
\* config set port=p

BeginSet(c) ==
  \E d \in Dirs, p \in Asked : Begin(c, "set", "set.load", d, None, None, p)

SetLoad(c) ==
  LET cfg == disk[cl[c].dir].cfg IN
  /\ At(c, "set.load") /\ Quiet
  /\ IF cfg = None THEN Return(c, "fail")
     ELSE cl' = [cl EXCEPT ![c].cfg = cfg, ![c].at = "set.save"]

SetSave(c) ==
  /\ At(c, "set.save")
  /\ Save(c, [cl[c].cfg EXCEPT !.port = cl[c].port], Return(c, "ok"))

-----------------------------------------------------------------------------

BeginCall(c) ==
  \/ BeginDeploy(c) \/ BeginLifecycle(c) \/ BeginDestroy(c)
  \/ BeginPromote(c) \/ BeginPublish(c) \/ BeginSubscribe(c) \/ BeginSet(c)

DeployStep(c) ==
  \/ ChoosePort(c) \/ MakeDirChoosePort(c) \/ InitDb(c)
  \/ LaunchDeployed(c) \/ SaveDeployed(c)
  \/ ProbeSource(c) \/ ProbeRole(c) \/ CreateRole(c) \/ EnsureHba(c)
  \/ BaseBackup(c)

LifecycleStep(c) ==
  \/ StartLoad(c) \/ StartRun(c) \/ StopLoad(c) \/ StopUnlink(c) \/ StopRun(c)

DestroyStep(c) ==
  \/ DestroyLoad(c) \/ DropSubscription(c) \/ DestroyStop(c)
  \/ SlotLoad(c) \/ SlotDrop(c) \/ DestroyRemove(c)

PromoteStep(c) ==
  \/ PromoteLoad(c) \/ PromoteRun(c) \/ PromoteWait(c) \/ PromoteSave(c)

LogicalStep(c) ==
  \/ PublishLoad(c) \/ ShowWalLevel(c) \/ AlterSystem(c) \/ CreatePublication(c)
  \/ SubscribeLoad(c) \/ CreateSubscription(c) \/ SubscribeSave(c)

SetStep(c) == SetLoad(c) \/ SetSave(c)

ClientStep(c) ==
  \/ DeployStep(c) \/ LifecycleStep(c) \/ DestroyStep(c)
  \/ PromoteStep(c) \/ LogicalStep(c) \/ SetStep(c)

\* SIGKILL, or a signal between two steps.
KillClient(c) ==
  /\ MayFail("cli") /\ InFlight(c)
  /\ Return(c, "fail") /\ Quiet /\ UNCHANGED calls

Reboot ==
  /\ MayFail("reboot")
  /\ disk' = [d \in Dirs |->
       [disk[d] EXCEPT !.data = Settled(@),
                       !.pid = IF @ = "live" THEN "dead" ELSE @]]
  /\ srv' = [d \in Dirs |-> None]
  /\ db' = [d \in Dirs |-> [db[d] EXCEPT !.walLive = FALSE]]
  /\ strays' = {}
  /\ cl' = [c \in Clients |-> IF InFlight(c) THEN [Idle EXCEPT !.at = "fail"]
                              ELSE cl[c]]
  /\ UNCHANGED calls

Machine ==
  \/ \E d \in Dirs :
       /\ UNCHANGED <<cl, calls>>
       /\ \/ FinishPromotion(d)
          \/ MayFail("server") /\ KillServer(d)
          \/ MayFail("pid") /\ ReusePid(d)
          \/ LocklessExit(d)
  \/ \E p \in Ports : StrayExit(p) /\ UNCHANGED <<cl, calls>>

Environment == Machine \/ Reboot

Next ==
  \/ \E c \in Clients : BeginCall(c) \/ ClientStep(c) \/ KillClient(c)
  \/ Environment

Spec == Init /\ [][Next]_vars

\* Every step of an invocation is taken by a scheduled process, and every
\* program it waits for returns: pg_ctl -w, psql and the recovery wait all
\* have a deadline.
FairSpec == Spec /\ \A c \in Clients : WF_vars(ClientStep(c))
=============================================================================
