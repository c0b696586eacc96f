------------------------------- MODULE PgHost -------------------------------
(***************************************************************************)
(* The machine every pg_sandbox invocation works on: sandbox directories   *)
(* on disk, the PostgreSQL servers started from them, the content of their *)
(* databases that outlives a server, and the TCP ports they listen on.     *)
(*                                                                         *)
(* pg_sandbox keeps nothing in memory between two invocations.  What one   *)
(* invocation knows of another is what this module holds, read through a   *)
(* config file, a pidfile, a bind test of a port or a SQL connection.      *)
(*                                                                         *)
(* PostgreSQL itself (initdb, pg_ctl, postgres, psql, pg_basebackup) is    *)
(* not under the repository; it is modelled here by the effects the Go     *)
(* code relies on.                                                         *)
(***************************************************************************)
EXTENDS Naturals

CONSTANTS
  Dirs,      \* sandbox directories, siblings under one root
  Ports,     \* TCP ports of the one listen host
  Names,     \* replication slot and subscription names
  None       \* absent config, block, port or directory

ASSUME PortsAssumption == Ports \subseteq Nat
ASSUME NoneAssumption == None \notin Dirs \cup Ports \cup Names

VARIABLES
  disk,      \* disk[d]: the files of sandbox directory d
  srv,       \* srv[d]: the port the live server of d listens on, or None
  db,        \* db[d]: what d's data directory holds that other sandboxes use
  strays     \* ports held by servers whose data directory was removed

host == <<disk, srv, db, strays>>

-----------------------------------------------------------------------------
\* Types

\* "partial": initdb or pg_basebackup was killed half-way.  "torn": a removal
\* of the directory was.  "standby" has a standby.signal and is in recovery;
\* "promoting" was asked to leave recovery and has not yet done so.
DataStates == {"absent", "partial", "primary", "promoting", "standby", "torn"}

\* A data directory postgres can run on.
Complete == {"primary", "promoting", "standby"}

\* postmaster.pid: no file, the PID of d's server, the PID of a process that
\* died without removing it, or such a PID that now belongs to another process.
PidStates == {"none", "live", "dead", "reused"}

Roles == {"primary", "standby", "subscriber"}

Physical == [src : Dirs, slot : Names]

Logical == [src : Dirs, sub : Names]

\* pg_sandbox.json
Sandbox == [port : Ports, role : Roles,
            physical : Physical \cup {None}, logical : Logical \cup {None}]

\* A replication slot and the sandbox it was created for.
Slot == [name : Names, owner : Dirs]

Subscription == [name : Names, pub : Dirs]

\* pub: the publication exists.  walConf: wal_level=logical is written to
\* postgresql.auto.conf.  walLive: the running server started with it.
\* repl, hba: the replicator role and its pg_hba.conf line are present.
Database == [slots : SUBSET Slot, subs : SUBSET Subscription, pub : BOOLEAN,
             walConf : BOOLEAN, walLive : BOOLEAN,
             repl : BOOLEAN, hba : BOOLEAN]

Files == [made : BOOLEAN, data : DataStates, pid : PidStates,
          cfg : Sandbox \cup {None}]

HostTypeOK ==
  /\ disk \in [Dirs -> Files]
  /\ srv \in [Dirs -> Ports \cup {None}]
  /\ db \in [Dirs -> Database]
  /\ strays \subseteq Ports

NoFiles == [made |-> FALSE, data |-> "absent", pid |-> "none", cfg |-> None]

NoDatabase == [slots |-> {}, subs |-> {}, pub |-> FALSE, walConf |-> FALSE,
               walLive |-> FALSE, repl |-> FALSE, hba |-> FALSE]

HostInit ==
  /\ disk = [d \in Dirs |-> NoFiles]
  /\ srv = [d \in Dirs |-> None]
  /\ db = [d \in Dirs |-> NoDatabase]
  /\ strays = {}

-----------------------------------------------------------------------------
\* What an invocation can observe

\* A bind test: some process holds the port.
IsBusy(p) == p \in strays \/ \E d \in Dirs : srv[d] = p

\* A mistake no definition uses: the pidfile is there, its PID is not probed.
IsRunning_bug(d) == disk[d].pid # "none"

\* pidfile present and its PID alive; a recycled PID passes too.
IsRunning(d) == disk[d].pid \in {"live", "reused"}

\* The sandboxes whose server answers a connection to port p.  psql and
\* pg_basebackup are given a port, never a data directory.
Serving(p) == {d \in Dirs : srv[d] = p}

\* The scan of FreePort(host, base, scanRange) stops at the first port that
\* binds: the set is empty when there is none, and a singleton otherwise.
FreePort(base, range) ==
  LET free == {p \in Ports : p \in base .. (base + range - 1) /\ ~IsBusy(p)} IN
  {p \in free : \A q \in free : p <= q}

\* The directory is missing or has no entries.
DirAvailable(d) ==
  disk[d].data = "absent" /\ disk[d].pid = "none" /\ disk[d].cfg = None

-----------------------------------------------------------------------------
\* Effects of PostgreSQL programs

CanStart(d, p) ==
  /\ disk[d].data \in Complete
  /\ srv[d] = None
  /\ disk[d].pid \in {"none", "dead"}
  /\ ~IsBusy(p)

ServerUp(d, p) ==
  /\ disk' = [disk EXCEPT ![d].pid = "live"]
  /\ srv' = [srv EXCEPT ![d] = p]
  /\ db' = [db EXCEPT ![d].walLive = db[d].walConf]
  /\ UNCHANGED strays

\* A promotion under way when the server goes down is forgotten.
Settled(data) == IF data = "promoting" THEN "standby" ELSE data

\* pid is what the server leaves in its pidfile.
ServerDown(d, pid) ==
  /\ disk' = [disk EXCEPT ![d].pid = pid, ![d].data = Settled(disk[d].data)]
  /\ srv' = [srv EXCEPT ![d] = None]
  /\ db' = [db EXCEPT ![d].walLive = FALSE]
  /\ UNCHANGED strays

\* The files of d become f; a server still running on them is left without a
\* data directory.
Removed(d, f) ==
  /\ disk' = [disk EXCEPT ![d] = f]
  /\ srv' = [srv EXCEPT ![d] = None]
  /\ db' = [db EXCEPT ![d] = NoDatabase]
  /\ strays' = strays \cup ({srv[d]} \ {None})

-----------------------------------------------------------------------------
\* What happens on the machine without any command

FinishPromotion(d) ==
  /\ disk[d].data = "promoting" /\ srv[d] # None
  /\ disk' = [disk EXCEPT ![d].data = "primary"]
  /\ UNCHANGED <<srv, db, strays>>

\* kill -9 of the postmaster: the pidfile stays.  A server that had already
\* lost its pidfile leaves none.
KillServer(d) ==
  /\ srv[d] # None
  /\ ServerDown(d, IF disk[d].pid = "live" THEN "dead" ELSE disk[d].pid)

ReusePid(d) ==
  /\ disk[d].pid = "dead"
  /\ disk' = [disk EXCEPT ![d].pid = "reused"]
  /\ UNCHANGED <<srv, db, strays>>

\* postgres polls its pidfile and shuts down when it is gone.
LocklessExit(d) ==
  /\ srv[d] # None /\ disk[d].pid = "none"
  /\ ServerDown(d, "none")

StrayExit(p) ==
  /\ p \in strays
  /\ strays' = strays \ {p}
  /\ UNCHANGED <<disk, srv, db>>
=============================================================================
