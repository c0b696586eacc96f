---------------------------- MODULE SandboxProps ----------------------------
(***************************************************************************)
(* What the sandbox commands are supposed to keep true.  Each property     *)
(* says under which commands, faults and discipline it is meant to hold;   *)
(* the runs choose them.                                                   *)
(***************************************************************************)
EXTENDS SandboxOps

\* Invocation c ends in this step.
Returns(c, outcome) == InFlight(c) /\ cl'[c].at = outcome

-----------------------------------------------------------------------------
\* One sandbox

\* The config file is "the deploy-completed marker" (deploy.go): where it is
\* present the data directory was built to the end, and can only have been
\* damaged by a removal since.  Two writers of one sandbox break it, because
\* promote and subscribe save a config they read long before.
ConfigMeansDeployed ==
  \A d \in Dirs :
    disk[d].cfg # None => disk[d].data \in Complete \cup {"torn"}

\* The start, stop and psql commands find a server through the port in its
\* config: a live server listens there (lifecycle.go re-supplies -p on every
\* start).  Nothing holds this together across a config set port=.
RecordedPortIsServed ==
  \A d \in Dirs :
    srv[d] # None /\ disk[d].cfg # None => srv[d] = disk[d].cfg.port

\* start and restart exit 0 only when the sandbox serves its recorded port,
\* whatever pidfiles crashes and reboots have left.
StartOkMeansServing ==
  [][\A c \in Clients :
       Returns(c, "ok") /\ cl[c].op \in {"start", "restart"} =>
         LET d == cl[c].dir IN
         disk'[d].cfg # None /\ srv'[d] = disk'[d].cfg.port]_vars

\* No server is left running, holding its port, on a directory that destroy took
\* away: it was stopped first, and "any stop failure is moot" (destroy.go:65-67).
\* It is not where pg_ctl stop fails: destroy goes on, and no child fails here.
NoStrayServer == strays = {}

\* Of several deploys into one directory, one at most gets past initdb or
\* pg_basebackup, and so one at most starts a server and writes a config:
\* checkSandboxDirAvailable alone does not ensure it, it runs too early.
OneDeployerPerDirectory ==
  \A b, c \in Clients :
    /\ cl[b].op \in DeployOps /\ cl[b].at \in {"launch", "save"}
    /\ cl[c].op \in DeployOps /\ cl[c].at \in {"launch", "save"}
    /\ cl[b].dir = cl[c].dir
    => b = c

-----------------------------------------------------------------------------
\* Configs

\* What config.Validate asks between fields.
ValidConfig(cfg) ==
  /\ cfg.role = "standby" => cfg.physical # None
  /\ cfg.role = "subscriber" => cfg.logical # None

\* It survives every interleaving of commands that write back configs they read
\* earlier: a standby has its physical block, a subscriber its logical one.
RecordedConfigIsValid ==
  \A d \in Dirs : disk[d].cfg # None => ValidConfig(disk[d].cfg)

\* The points a command passes through.
OnTrack(op, at) ==
  \/ op = "deploy" /\ at \in {"port", "init", "launch", "save"}
  \/ op = "standby" /\ at \in {"probe", "role", "mkrole", "hba", "mkdir", "base",
                               "launch", "save"}
  \/ op = "subscriber" /\ at \in {"port", "init", "launch", "save", "sub.load",
                                  "sub.create", "sub.save"}
  \/ op = "start" /\ at \in {"start.load", "start.run"}
  \/ op = "stop" /\ at \in {"stop.load", "stop.unlink", "stop.run"}
  \/ op = "restart" /\ at \in {"stop.load", "stop.unlink", "stop.run",
                               "start.load", "start.run"}
  \/ op = "destroy" /\ at \in {"destroy.load", "destroy.sub", "destroy.stop",
                               "slot.load", "slot.drop", "destroy.rm"}
  \/ op = "promote" /\ at \in {"promote.load", "promote.run", "promote.wait",
                               "slot.load", "slot.drop", "promote.save"}
  \/ op = "publish" /\ at \in {"pub.load", "pub.show", "pub.alter", "stop.load",
                               "stop.unlink", "stop.run", "start.load",
                               "start.run", "pub.create"}
  \/ op = "subscribe" /\ at \in {"sub.load", "sub.create", "sub.save"}
  \/ op = "set" /\ at \in {"set.load", "set.save"}

\* What a command at some point has to know to go on.
Knows(k) ==
  /\ k.at \in {"init", "base", "launch", "save", "set.load", "set.save"}
       => k.port # None
  /\ k.op \in {"standby", "subscriber", "subscribe"}
       => k.src # None /\ k.name # None
  /\ k.at \in {"destroy.stop", "destroy.rm", "promote.run", "promote.wait",
               "promote.save", "pub.show", "pub.alter", "sub.create", "sub.save",
               "set.save"}
       => k.cfg # None
  /\ k.at = "destroy.sub" => k.cfg # None /\ k.cfg.logical # None
  /\ k.at \in {"slot.load", "slot.drop"}
       => k.cfg # None /\ k.cfg.physical # None

\* An invocation never looks into a physical or logical block that its copy of
\* the config does not have (cfg.Physical and cfg.Logical are nil then), nor
\* records a port or a source it was not given, whatever other invocations do
\* to the file meanwhile.
CallsWellFormed ==
  \A c \in Clients : InFlight(c) =>
    /\ cl[c].dir \in Dirs
    /\ OnTrack(cl[c].op, cl[c].at)
    /\ Knows(cl[c])

-----------------------------------------------------------------------------
\* Several sandboxes

\* psql is sent to a port, and the port must lead to a sandbox the command
\* was given: its own, or the source named by its config or command line.
OwnServersOnly ==
  [][\A c \in Clients : InFlight(c) /\ cl'[c] # cl[c] =>
       \A d \in Dirs \ Touches(c) :
         [db'[d] EXCEPT !.walLive = FALSE] = [db[d] EXCEPT !.walLive = FALSE]]_vars

\* A sandbox still in recovery has its replication slot on its source, so the
\* source keeps the WAL it needs: promote drops the slot only afterwards.
\* Removing a source takes the slots away; no run of this has destroy.
InRecoveryHasSlot ==
  \A d \in Dirs : disk[d].data \in {"standby", "promoting"} =>
    \E r \in Dirs, s \in Slot :
      /\ s \in db[r].slots /\ s.owner = d
      /\ disk[d].cfg # None =>
           disk[d].cfg.physical = [src |-> r, slot |-> s.name]

\* A command drops a slot of a running server only for the sandbox the slot
\* was created for ("drop its slot on the source", destroy.go:5-6).  A source that
\* was destroyed and deployed again breaks it.
OnlyOwnSlotDropped ==
  [][\A r \in Dirs : srv[r] # None /\ srv'[r] # None =>
       \A s \in db[r].slots \ db'[r].slots :
         \E c \in Clients : cl'[c] # cl[c] /\ cl[c].dir = s.owner]_vars

\* A server with a publication runs with wal_level=logical: publish restarts
\* it between ALTER SYSTEM and CREATE PUBLICATION, and no interleaving with
\* start, stop, restart or another publish lets it skip that.
PublicationNeedsLogicalWal ==
  \A d \in Dirs : db[d].pub /\ srv[d] # None => db[d].walLive

-----------------------------------------------------------------------------
\* Promotion


-----------------------------------------------------------------------------
\* Progress

\* Every invocation exits, whatever the servers it waits for do: promote gives
\* up on a server that never leaves recovery.  Some invocation is the last to begin
\* (MaxCalls), so this says that in the end all have exited.  The one exception is a
\* CREATE SUBSCRIPTION whose publisher is its own server, which waits for itself.
EveryCommandReturns ==
  <>[](\A c \in Clients : ~InFlight(c) \/ cl[c].at = "sub.create")
=============================================================================
