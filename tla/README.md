# pg_sandbox in TLA+

`pg_sandbox` is a command-line tool that deploys and manages throw-away PostgreSQL servers
("sandboxes") on one machine. It has no daemon. Every command is a short process that reads
a JSON config from the sandbox directory, looks at a pidfile and a TCP port, runs PostgreSQL's
own programs (`initdb`, `pg_ctl`, `psql`, `pg_basebackup`), and writes the config back. There
are no locks. What is hard is therefore not in one function but between two steps of several
processes: another command, a crash, a reboot or a PostgreSQL server that takes its time.

This directory models those steps, checks them with TLC and proves what TLC can only sample.

## Inventory

Paths are under `src/internal/` unless they start with `cmd/`.

| part | state it keeps | operations | interacts with |
| --- | --- | --- | --- |
| deploy (`sandbox/deploy*.go`, `scripts.go`) | the sandbox directory | standalone, `--replicate-from`, `--subscribe-to` | port allocation, config store, source sandbox by port |
| lifecycle (`sandbox/lifecycle.go`) | `postmaster.pid` (PostgreSQL's) | start, stop, restart | config store, `pg_ctl` |
| destroy (`sandbox/destroy.go`, `source_resolve.go`) | removes everything | destroy | own server by port, source by path and port |
| promote (`sandbox/promote.go`) | `role`, `physical` of the config | promote | own server by port, source's slot |
| publish, subscribe (`sandbox/publish.go`, `subscribe.go`) | `logical` of the config, databases | publish, subscribe | lifecycle (restart), publisher by port |
| config store (`config/load_save.go`, `schema.go`, `validate.go`) | `pg_sandbox.json`, cluster manifest | load, atomic save, validate | every command |
| port allocation (`portalloc/`) | none | bind test, scan | the kernel |
| config command (`cmd/pg_sandbox/config.go`, `config/resolve.go`, `env.go`, `migrate.go`) | `pg_sandbox.json`, the host-wide file, a legacy `pg_sandbox.env` | set, show, get, validate, migrate | config store |
| status, global status (`sandbox/status.go`, `global_status.go`) | none | classify, walk | pidfile, port, SQL |
| cluster (`cluster/`) | the manifest | deploy, destroy, status | every sandbox operation |
| cleanup (`cleanup/`) | install directories | plan, confirm, apply | walk of all configs, builds, deploys |
| build (`build/`) | install prefix, tarball cache | download, configure, make, install | the network |
| report (`report/`) | a throw-away sandbox | deploy, run SQL, destroy | deploy, destroy |
| use, run (`sandbox/use.go`, `run.go`) | none | exec psql or another program | config store |
| output, paths, quoting, child processes (`ui/`, `fsutil/`, `sandbox/sqlquote.go`, `pgexec/`) | none | | |

`replication/` has a doc comment only.

### Behaviours that are hard

* **Two commands at once.** The empty-directory check, the bind test, the pidfile check and the
  read of a config are each followed, some calls later, by an act that relies on them.
* **Ports as addresses.** `psql` and `pg_basebackup` get a port. Whoever listens there answers.
* **Names as references.** A standby knows its source by directory name and its slot by name.
  Both can be reused.
* **Stale pidfiles.** A kill -9 or a reboot leaves one; its PID may be given to another process.
* **Partial failure.** `initdb` killed, `pg_basebackup` failed after it made the slot,
  `pg_ctl -w` giving up on a server that comes up later, `RemoveAll` stopping half-way, a
  failure that destroy ignores.
* **Signals.** SIGINT and SIGTERM cancel a context: the child that runs is killed, no other can
  be started, and the Go code and its file operations go on.
* **Shared work space.** Builds share a tarball cache and a source tree; cleanup removes what a
  deploy may be about to use.
* **Walking a tree that changes.** global_status and cleanup read directories one by one.
* **Waiting.** promote polls recovery for ten seconds; `CREATE SUBSCRIPTION` can wait for itself.

### What makes each part correct

* deploy: the config file marks a built sandbox; one directory is built once; the chosen port is
  the one served.
* lifecycle: exit 0 of start means a server on the recorded port; stop touches only its own
  server.
* destroy: no server survives its directory; only the sandbox's own slot goes away.
* promote: the role follows recovery, the slot outlives it, the command returns.
* publish, subscribe: the publication is served with `wal_level=logical`; SQL reaches the
  sandboxes named on the command line.
* all of these together: an operator sees sandboxes appear, go up and down, leave recovery and
  disappear, and nothing of the steps in between.
* config: nobody reads half a file; no interleaving of read-modify-write commands leaves an
  invalid config; a set touches its keys only; a migration loses nothing; provenance is true.
* cluster: the manifest lists what exists and outlives it; members are attached and have ports of
  their own; the primary goes last; a failed deploy or destroy can be cleaned up.
* cleanup: no install in use is removed. build: nothing is compiled from unverified bytes; exit 0
  means a whole install.
* report: a page shows its own capture; what is left of a throwaway is named.
* status: every sandbox is listed once, and a state that is shown was true.

## Modules

```
PgHost -> SandboxOps -> SandboxProps -> ClusterOps -> ClusterProps -> StatusOps -> StatusProps
                             |-> ReportOps -> ReportProps
                             |-> CatalogRefinement  ==implements==>  SandboxCatalog
Installs -> InstallsProps          ConfigStore -> ConfigProps
```

Each chain ends in an MC module (`MCSandboxOps`, `MCClusterOps`, `MCStatus`, `MCReportOps`,
`MCInstalls`, `MCConfig`), which gives the model values their names and symmetry; the `.cfg` files
are the instances. The modules named `...Proofs` hold the theorems:

```
SandboxProofs                                               (over SandboxProps)
      |-> LifecycleProofs -> ClusterProofs -> MembersProofs -> StatusProofs
                         |-> ReportProofs
InstallsProofs (over InstallsProps)      ConfigProofs (over ConfigProps)
```

**`PgHost`**: the machine. `disk[d]` is what lies in directory `d`: whether it exists, the state
of its data directory, its pidfile and its config; `srv[d]` is the port its live server holds;
`db[d]` is the part of its database that other sandboxes use (slots, subscriptions,
publication, `wal_level` configured and in effect, the replicator role and its `pg_hba.conf`
line); `strays` are ports held by servers whose directory was removed. What a command can
observe is an operator here: `IsBusy` and `FreePort` (`portalloc.go`), `IsRunning`
(`lifecycle.go`, a pidfile with a live PID, a recycled one included), `DirAvailable`
(`deploy.go`), and `Serving(p)`, the server a connection to port `p` reaches. PostgreSQL itself
is not under `src/`; its effects (`CanStart`, `ServerUp`, `KillServer`, ...) are marked external.

**`SandboxOps`**: the commands. `cl[c]` is invocation `c`: its command, the point it stands at
and what it remembers (the config it read, the port it chose, its source's port). Each action is
the code between two points at which somebody else may act:

| command | actions, in order |
| --- | --- |
| deploy | `BeginDeploy ChoosePort InitDb LaunchDeployed SaveDeployed` |
| deploy --replicate-from | `BeginDeploy ProbeSource ProbeRole CreateRole EnsureHba MakeDirChoosePort BaseBackup LaunchDeployed SaveDeployed` |
| deploy --subscribe-to | as deploy, then as subscribe |
| start | `BeginLifecycle StartLoad StartRun` |
| stop | `BeginLifecycle StopLoad`, then `StopUnlink` or `StopRun` |
| restart | stop, then start |
| destroy | `BeginDestroy DestroyLoad DropSubscription DestroyStop SlotLoad SlotDrop DestroyRemove` |
| promote | `BeginPromote PromoteLoad PromoteRun PromoteWait SlotLoad SlotDrop PromoteSave` |
| publish | `BeginPublish PublishLoad ShowWalLevel AlterSystem`, stop, start, `CreatePublication` |
| subscribe | `BeginSubscribe SubscribeLoad CreateSubscription SubscribeSave` |
| config set port= | `BeginSet SetLoad SetSave` |

A command may be killed at any point (`KillClient`); `Environment` ends recovery, kills servers,
reuses PIDs, lets a server that lost its pidfile exit, and reboots. `Faults` says which of these
an instance has.

`Disciplined` is the operator's part. Where it is TRUE, a command begins only while no other
works on the same sandbox, reads it as its source, or works on the sandbox this one reads as its
source. Several properties are meant under that discipline only, since the tool has no lock; the
others are checked without it.

**`SandboxProps`**: the properties of the sandbox commands. **`SandboxCatalog`**: what an operator
is promised, without commands, processes or files: a sandbox is there or not, has a role and a
port, is up, down or damaged, and is in recovery or has left it. **`CatalogRefinement`** says how a
sandbox is read off the machine (`BoxOf`: its config, its data directory, its server) and that
`SandboxOps` implements the catalogue. Of the five to ten steps of a deploy exactly the write of the
config is `Deploy`; a promote is `LeaveRecovery` in the server and, later, `Promote` in the config;
a destroy is `GoDown`, perhaps `Damage`, and `Destroy`. The catalogue has no step for a server that
serves a port other than the recorded one, for a standby that is called a primary while it is up and
in recovery, or for a half-built sandbox. A standby that is down may be called a primary whatever its
data directory says: promote asks a port, and when its standby crashes under it another sandbox may
answer (`v_promote_port`).

**`ClusterOps`**: `cluster deploy` and `cluster destroy`. The process is the invocation `Conductor`
of `SandboxOps`: it runs the very actions of deploy, publish and destroy for one member after the
other (`Call`, `MemberStep`), and `clu` is what it keeps between them. `manifest` is
`pgs_cluster.json`. Other invocations run single-sandbox commands on the members.

| command | actions, in order |
| --- | --- |
| cluster deploy | `BeginClusterDeploy`, then per member `MemberStep... MemberDeployed` (or `MemberFailed`); after the primary `Published`, `InitSql`; `DeploySave` |
| cluster destroy | `BeginClusterDestroy`, then per member, last first, `DestroyMember MemberStep... MemberDestroyed` or `StubStop StubRemove`; `FinishDestroy` |

`clu.tools` is whether `pg_ctl` can be run: the destroy takes the bin directory from the config of
the primary, and where there is none, from `PATH` (`OnPath`). Without it every program fails and
the destroy goes on (`WithoutTools`).

**`StatusOps`**: `status`, `cluster status` and `global_status` as one reader beside all of
`ClusterOps`, each directory entry, config, pidfile, port and query read in a step of its own.
`steady` and `past` are histories: the sandboxes that were in place all along, and what the server
looked at has been since its config was read.

**`ReportOps`**: `report`, over `SandboxOps`: any invocation can be one; the deploy and the destroy
of its throwaway are the actions of those commands, `Load`, `Render` and `Write` its own.
`loaded[d]` is the capture last loaded into the databases of `d`, `page[c]` what the output file of
`c` shows. `Interrupt` cancels the context; `CutStep` is what called code does under a cancelled
one.

**`Installs`**: `build` (`RemoveInstall LookInCache VerifyCached` or `FetchSum FetchTarball
StoreSum`, then `CleanTree Extract Configure Make MakeInstall Make ContribInstall Tidy`) and
`cleanup-install-versions` (`BeginCleanup WalkAndPlan Confirm Recheck RemoveUnused FinishCleanup`),
with deploys and destroys reduced to the install they use, a symlink that references may go
through, and a cache whose files the operator or the disk may change.

**`ConfigStore`**: the `config` command on one sandbox and the host-wide file. A save is `WriteTemp`
and `Rename`; `set` is `SetLoad` and a save, `migrate` is `MigrateScan MigrateLoad`, a save, and
`MigrateUnlink`; `show` reads the two files at two moments.

An operator called `X_bug` (or `X_untyped`, `X_unasked`) is `X` with a mistake. Nothing uses it; it
shows that the property it is paired with in `PROJECT.json` notices that mistake.

### Abstractions

* A name, a config and a message are members of small sets; a config keeps the fields that a
  command decides on. All sandboxes are siblings on one listen host, so resolution of a source
  name is the directory itself.
* What is written to a source after a standby copied it does not reach the standby's `db`.
* `max_replication_slots` and `max_wal_senders` are not separate settings: whether they have to be
  raised, and the restart that takes, is a choice of `ShowWalLevel` where `wal_level` is logical
  already; otherwise raising them can fail after `wal_level` was set, a failure of `AlterSystem`.
* The schema copy of subscribe precedes anything the properties see; its failure is that of
  `CreateSubscription`.
* Writing the convenience scripts is folded into `SaveDeployed`, which may fail after the config
  was written.
* The `pg_hba.conf` line is appended and reloaded in one action with the outcome in between.
  `initdb`'s trust lines admit replication connections anyway, so `Upstream` asks for the role.
* A directory removed half-way has no pidfile left, and no data directory PostgreSQL would run on.
* A cluster's slots and subscriptions carry the member's name (`slotPrefix` empty). There is one
  cluster directory; the sandboxes beside it are those of `Dirs` that are no members.
* Of a sandbox's config `ConfigStore` keeps two keys, one with a host-wide counterpart (`binDir`)
  and one without (`port`); all others have one of the two shapes. `config get` and `validate` read
  what `ShowLoad` reads.
* The bytes of a tarball are good (upstream's) or bad; a source tree knows whether it is whole,
  good, and for which prefix it was configured.
* `Interrupt` cancels the context of the Go program. A Ctrl-C typed at a terminal also goes to the
  children of its process group, `pg_ctl` among them; what a child does of it is not modelled beyond
  its being killed with its step.
* A command rejected before it reads or writes anything (usage errors, declined confirmation, a
  capture that does not pass its scan) is no step.

## Runs

`CHECK_DEADLOCK FALSE` everywhere: once `MaxCalls` invocations have ended, nothing has to happen.
The bounds are `MaxCalls` (`MaxJobs`), the invocations ever begun; the number of invocations in
flight (`Clients`, `Builders`, `Users`); the sandboxes and the ports. Two sandboxes are enough for a
port to change hands or for a source and its standby; three where a slot of another standby
matters, or a third that takes the port of a standby whose source holds the other. Ports are as many
as the sandboxes that can be up, so that a scan can both succeed and find a port reused.

| run | instance | distinct states | shows |
| --- | --- | --- | --- |
| `lifecycle` | 3 sandboxes, 2 ports, 5 calls, 2 at a time, disciplined; kills of commands and servers, slow starts, half-way removals, reboots | 360,000 | `ConfigMeansDeployed`, `RecordedPortIsServed`, `NoStrayServer`, `StartOkMeansServing`, and the refinement `ImplementsCatalog`, with ports that pass from one sandbox to another |
| `everything` | 2 sandboxes, one a publisher from the start, 3 calls, 2 at a time, every command, no discipline, fairness, no symmetry; commands and servers killed, programs failing or slow, half-way removals | 566,000 | `TypeOK`, `CallsWellFormed`, `RecordedConfigIsValid`, `EveryCommandReturns` |
| `sources` | 3 sandboxes, 2 ports, 1 slot name, 6 calls, disciplined, no destroy; commands killed, programs failing or slow | 815,000 | `InRecoveryHasSlot`, `OnlyOwnSlotDropped`, `OwnServersOnly` |
| `one_sandbox` | 1 sandbox, 3 commands at once, 5 calls, no discipline; every fault of a server or a command | 40,000 | `PublicationNeedsLogicalWal`, `OneDeployerPerDirectory` |
| `cluster` | 3 members, 4 ports, 4 calls, disciplined, fairness; single stops, destroys and promotes of members; kills, slow starts, half-way and failing removals, reboots; nothing on `PATH` | 461,000 | `ManifestListsRemains`, `MemberPortsIncrease`, `DeployOkMeansAttached`, `ClusterLeavesNoStray`, `PrimaryGoesLast`, `ManifestOutlivesSandboxes`, `ClusterCommandReturns` |
| `installs` | 2 versions, one without upstream checksum, 2 prefixes, a symlink, 1 sandbox, 2 builds at a time, 2 jobs; every fault | 902,000 | `SourceIsGenuine`, `OlderSandboxKeepsInstall`, `BuildOkMeansInstalled` |
| `report` | 2 directories, 2 ports, 2 invocations at a time, 3 calls; signals, kills, slow starts, half-way removals, reboots | 1,250,000 | `ReportIsOwn`, `LoadsOwnThrowaway`, `LeftoverIsNamed`, `FailureCleansUp` |
| `config` | 2 invocations, 2 acceptable values beside the bad and the missing, any initial files, keys missing or bad; kills and failing file operations | 2,938,000 | `FilesStayWhole`, `ShownIsStrongest`, `OnlyValidSaved`, `SettingsSurviveMigration`, `SetTouchesOnlyItsKeys` |
| `status` | a cluster of 2 and a sandbox beside it, 3 ports, 2 calls; killed servers | 893,000 | `ListedOnce`, `ShownWasTrue` |

Every chain also has its type invariant in its run. With 4 calls a cluster can be deployed,
changed behind its back by one or two commands, and destroyed, or destroyed twice; three members
are the least with one that is neither first nor last. Two jobs are enough for two builds to meet
in cache, tree and prefix and for a cleanup to meet a deploy, since installs and a sandbox may
exist from the start. `everything` begins with what a deploy and a publish leave (`PublisherInit`), so
that its three calls are enough for a standby or a subscriber and two commands on it at once; it has no
symmetry, which liveness would not allow.

What these runs leave out on purpose, because the code does not promise it there:

* `lifecycle` has no PID reuse, no `config set` and no `child` fault, since destroy removes the
  directory of a server it failed to stop. `cluster` leaves the `child` fault out for the same reason.
* `sources` has no killed servers: a server killed between the check of a port and its use can
  always be replaced by another. It has no destroy, since removing a source takes its slots away
  (and leads to what the list below has of `destroy`), no `subscribe` and no `config set`.
* `one_sandbox` has a single sandbox, so that the port of the publisher can only be its own.
* `report` has no killed servers: `ReportIsOwn` needs the throwaway to keep its port.
* In `installs`, `BuildOkMeansInstalled` is stated for a build that was alone and
  `OlderSandboxKeepsInstall` for sandboxes older than the operator's yes: a younger one
  can lose its install, as the list below says.
* `status` has no PID reuse: the pidfile of a dead server would pass for that of a live one.
* `config` says nothing of lost updates: of two sets at once one is lost (`code_review.md`, LOW-10).

### Where the code does not keep what it says

Three runs check a statement of the repository that the program breaks.

| run | statement | what happens |
| --- | --- | --- |
| `v_cluster_rerun` | cluster destroy leaves the manifest so that it can be run again, and removes it when "every member subdir was rm -rf'd" (`cluster/destroy.go:143-153`) | a member removed half-way has no config; the rerun skips it and removes the manifest with the directory in place |
| `v_report_orphan` | a failed deploy leaves nothing behind (`report.go:254`), and `--destroy-on-failure` destroys "even if report generation fails" | the throwaway's directory, and a server that came up late, stay; only an INFO line from before the deploy has named the directory |
| `v_promote_port` | promote "waits for the instance to leave recovery, then updates the sandbox config" (`promote.go:56`) | the standby crashes during the wait, another sandbox takes its port and answers for it; the config says primary of one still in recovery (`promote.go:136`) |

Deviations seen with the model while it was written; no run is kept for them:

* `destroy` removes the directory of a server whose `pg_ctl stop` failed: "we are about to rm -rf the
  data dir, and any stop failure is moot" (`destroy.go:65-69`). It is not: the server runs on and holds
  its port. Add the fault `child` to `lifecycle` and TLC finds `NoStrayServer` violated.
* `deploy --subscribe-to` writes the config before it subscribes, although "a present config file
  means fully deployed" (`deploy.go:26`, `SPEC.md:281`).
* After a kill -9 and the reuse of the PID, `start` exits 0 without a server (`lifecycle.go:43-50`);
  `status` then says `crashed`. After a kill -9 without reuse it says `stopped`, where the comment
  of the state (`status.go:53-57`) has `crashed`: a dead PID counts as no pidfile.
* `stop` decides that a pidfile is stale and then unlinks whatever file is there; a concurrent
  start's live one goes (`lifecycle.go:85-92`).
* `destroy` drops the slot of the recorded name at the recorded path; when the source was destroyed
  and redeployed it can be another standby's (`destroy.go:150`). With three sandboxes and ports, seven
  calls and destroys TLC finds `OnlyOwnSlotDropped` violated in this way.
* `subscribe` does not check that the subscriber runs; its port may be another sandbox's by then
  (`subscribe.go:190`).
* Two deploys can choose one port: the bind test races against the server it makes room for
  (`portalloc.go:13-17`). One of them fails; no sandbox is harmed.
* After `config set port=` on a live standby, `promote` asks the server at the new port whether
  recovery has ended (`promote.go:136`).
* `cleanup-install-versions` walks once before all removals (`cleanup.go:443`), not before each as a
  comment of the command says (`cleanup_install_versions.go:121`); a deploy that finishes after that
  walk loses its install, as does one whose config is not written yet. Sandboxes outside the root, or
  with a config that cannot be loaded, do not count.
* `build --force` removes the old install before the new one is even downloaded, and goes by the
  name of the directory, whatever is installed in it.
* Two concurrent builds of a version share its source tree; the one that configures last decides on
  the prefix of both.
* If the throwaway's server is killed and its port taken by another report's, a page can show the
  other capture.
* Two `config migrate` of one sandbox both find no target, and the second overwrites the first's
  result, in spite of "refusing to overwrite" (`config.go:776`).
* A SIGINT between the page and the final destroy of `report` leaves the server running without its
  directory: that destroy is not detached from the context.
* The manifest is not updated when a cluster member is promoted or destroyed on its own (`SPEC.md`
  6.3, step 5); global_status skips a sandbox whose config cannot be parsed, where
  `global_status.go:62-66` says it is emitted; `defaultPortBase` and `defaultPortRange` can be set
  and are used nowhere.

### Fairness

`FairSpec` adds weak fairness of `ClientStep(c)` for each invocation: a process that can take a
step is scheduled, and the program it waits for ends. `pg_ctl -w` has a time-out, the recovery
wait a deadline, and `psql` of a short statement ends with its server. Nothing is assumed of the
environment: recovery may never end and servers may die at any time. The one wait without a limit
is a `CREATE SUBSCRIPTION` whose publisher is the subscriber itself, which waits for its own
transaction; the model gives it no step, and `EveryCommandReturns` excepts that statement. The hang
is listed as a hazard. Since the number of invocations is bounded, that every one of them returns is
that in the end all have.

`FairClusterSpec` is weak fairness of `ClusterStep`, the steps of the one cluster process,
those of the code it calls included. A subscriber of a cluster subscribes to another member, on a
port above the primary's (`MemberPortsIncrease`), so the wait without a limit does not occur.

## Theorems

TLAPS checks them for every value of the constants: any number of sandboxes, ports, members,
builds and invocations. They rest on the named assumptions only: those of `PgHost`, `SandboxOps`,
`ClusterOps`, `ReportOps`, `Installs` and `ConfigStore` (ports and bounds are numbers; commands and faults are
those listed; the members of a cluster are distinct directories, two at least, and its invocation
is one of the clients), and that `None` and the values of a key are none of the things they stand
beside (`NoneAssumption`, `SentinelAssumption`, `BoxAssumption`, `SentinelsAssumption`,
`CaptureAssumption`). The runs evaluate all of them.

| module | theorems | hypotheses |
| --- | --- | --- |
| `SandboxProofs` | `TypeCorrect`, `NoNilBlock` (`CallsWellFormed`), `ConfigsStayValid` (`RecordedConfigIsValid`) | none |
| | `DeploysExclude` (`OneDeployerPerDirectory`) | no destroy |
| | `PublishedIsLogical` (`PublicationNeedsLogicalWal`) | one sandbox, no destroy or standby deploy |
| `LifecycleProofs` | `ConfigMarksDeployed` (`ConfigMeansDeployed`) | discipline |
| | `PortsStayRecorded` (`RecordedPortIsServed`) | discipline, no set |
| | `StartTellsTheTruth` (`StartOkMeansServing`) | discipline, no set, no PID reused |
| | `DestroyLeavesNoServer` (`NoStrayServer`) | discipline, no failing child |
| | `ServersOfItsOwn` (`OwnServersOnly`) | discipline, no set or subscribe, no killed server, no PID reused |
| | `StandbyKeepsItsSlot` (`InRecoveryHasSlot`), `SlotsOfItsOwn` (`OnlyOwnSlotDropped`) | discipline, no set or destroy, no killed server, no PID reused |
| | `SandboxesImplementCatalog` (`ImplementsCatalog`) | discipline, no set or subscription |
| `ClusterProofs` | `ClusterTyped` (`ClusterTypeOK`) | none |
| `MembersProofs` | `ManifestComplete` (`ManifestListsRemains`), `StandbysGoFirst` (`PrimaryGoesLast`) | discipline, no single deploys |
| | `PortsClimb` (`MemberPortsIncrease`) | discipline, no single deploys, no set |
| | `ManifestGoesLast` (`ManifestOutlivesSandboxes`) | discipline |
| | `ClusterStopsFirst` (`ClusterLeavesNoStray`) | discipline, no failing child |
| `StatusProofs` | `StatusTyped` (`StatusTypeOK`) | none |
| | `GlobalStatusListsOnce` (`ListedOnce`) | discipline |
| | `StatusSawIt` (`ShownWasTrue`) | discipline, no PID reused |
| `ReportProofs` | `ReportTyped` (`ReportTypeOK`) | none |
| | `PagesAreOwn` (`ReportIsOwn`), `LoadsGoToOwn` (`LoadsOwnThrowaway`) | discipline, no killed server |
| | `LeftoversAreNamed` (`LeftoverIsNamed`) | discipline |
| | `FailuresCleanUp` (`FailureCleansUp`) | discipline, no failing child |
| `InstallsProofs` | `InstallsTyped` (`InstallsTypeOK`), `GenuineSource` (`SourceIsGenuine`), `BuildOkIsWhole` (`BuildOkMeansInstalled`), `CleanupSpares` (`OlderSandboxKeepsInstall`) | none |
| `ConfigProofs` | `ConfigTyped`, `FilesAreWhole`, `SavedIsValid`, `LegacySurvives`, `SetWritesItsKeys`, `ShownIsTrue` (`ShownIsStrongest`) | none |

Every fault that a hypothesis does not name is allowed, in whatever number.

### The hypotheses

* *Discipline*: `Disciplined` is TRUE, two commands are kept off one sandbox. Without it two writers
  of one config break most of these (see `SandboxOps` above), the four properties of report included.
* *No set*: `config set port=` changes what is recorded under a running server.
* *No PID reused*: a reused PID in a stale pidfile passes for the server. All other faults, the
  `kill -9` that leaves the pidfile included, are allowed.
* *No failing child*: destroy removes the directory of a server whose `pg_ctl stop` failed, by
  design; so does the cleanup of a report. A `pg_ctl` that gives up waiting (`slow`) is allowed.
* *No killed server* (pages and loads of a report): psql goes to a port, and another sandbox can take
  the port of a server that was killed. TLC finds the violation of both properties.
* *No set or subscribe, no killed server, no PID reused* (servers and slots): each leads a command to a
  port that is no longer its sandbox's. subscribe is the odd one: it does not ask whether the
  subscriber it was given runs (`subscribe.go:190`), so another sandbox on that port gets the
  subscription. Reboots, killed commands and failing children, `rm` and `deploy --subscriber` are
  allowed. TLC finds `OwnServersOnly` violated once any of the four is added (a reused PID together
  with a reboot), and `InRecoveryHasSlot` by a killed server: what was being promoted returns to
  recovery, its slot already dropped.
* *No destroy* (`StandbyKeepsItsSlot`, `SlotsOfItsOwn`): a destroyed source takes its slots along, and
  one deployed in its place may hold a slot of the same name for another standby. TLC finds both.
* *One sandbox* (`PublishedIsLogical`): publish, too, sends its SQL to a port, where the server of a
  second sandbox can be by then; and a destroy, whose deploy begins from nothing, takes the setting
  away under a publish. TLC finds each of these. The theorem is about what may overlap on a sandbox:
  publish with start, stop, restart, promote, set and with itself, under every fault.
* *No destroy* (`DeploysExclude`): a destroy that read the config in an earlier life of the directory
  can remove what the first deploy has built, and let a second one in.
* *No single deploys*: a member destroyed on its own and deployed again by the plain command gets a
  port of its own choice, and what that deploy leaves is not in the manifest. The cluster's own
  deploys are not meant: `Ops` are the commands of the other invocations.
* *No subscription* (`SandboxesImplementCatalog`): the catalogue knows primaries and standbys. Killed
  servers are allowed: the proof has a promote whose probe was answered by another sandbox go on with a
  standby that is down, and it is down because `Apart` lets nobody start it meanwhile.

### The arguments

None of the properties is inductive. Each theorem names the invariant that is.

* **`Inv == TypeOK /\ CallsWellFormed`**, for the sandbox commands. `CallsWellFormed` needs the types,
  since the facts about a remembered config come from the file it was read from. That `OnTrack` is in
  it matters: `SlotDone` sends destroy and promote to different points, and `StartDone` and `StopDone`
  serve start, restart and publish, so what is known at a point depends on the command that got there.
  `ValidInv` adds that the config a command remembers is as valid as the file was, because promote,
  subscribe and set write back what they read long before.
* **`DeploysExclude`** rests on `LaunchedIsBuilt`: a deploy past `initdb` or `pg_basebackup` has its
  data directory, no step but those of destroy takes one away (`DataRemains`), and only the two building
  steps let a deploy in, each of which wants the directory to be empty.
* **`WalInv`**, for publish among the other commands on its sandbox: `HostWal` (where there is a publication,
  `wal_level` is `logical`, configured and, if the server is up, in effect) and `Restarts(c)`, what a publish relies on from
  `ALTER SYSTEM` to `CREATE PUBLICATION`. Between its stop and its start anybody may start or stop the
  server. A server without a pidfile passes for a stopped one and still runs with the old `wal_level`;
  but it holds its data directory, so that nothing can be started there until it is gone, and what is
  started then reads the new one.
* **`LifeInv`**, for the disciplined sandbox. `Apart`: two commands in flight are not on one sandbox.
  `Sane(d)`: pidfile, server, data directory and config agree. `OnePerPort`: no two servers share a
  port. `Holds(c)`: what a command takes for granted at its point is still so, that the config
  it remembers is the one on disk above all. `Apart` is why `Holds(c)` survives the steps of the others,
  `Holds(c)` why the write at the end of a command leaves its sandbox sane. Each command has a lemma
  that its steps leave all other sandboxes alone and its own coherent (`Sound`); `ConfigMeansDeployed`
  and `RecordedPortIsServed` are conjuncts of `Sane`. `Stopped` (past its stop a destroy has no server, `HasStopped(c)`)
  gives `NoStrayServer`.
* **`ReachInv`** follows the ports. `Reaches(c)`: where a command is about to use the port of its source, that
  is where the source's server is, and its own server is up where it takes it to be; with
  `OnePerPort` psql can then reach no other. `Unread`: nobody stops the server a command reads from.
* **`SlotInv`** adds to it what makes a slot a standby's. `Keeps(c)`: the command that builds or promotes
  a standby has, or has not yet, its slot on the source, point by point, and `slot.drop` is reached
  with recovery ended only. `Distinct`: a name on a source is one slot, so that a drop by name hits
  that of its own standby. `Bare`: a directory without data has no slots, so a new source begins
  with none.
* **The refinement**: initial states map to initial states, and each action of `SandboxOps` to one of
  the catalogue (`AsDeploy`, `AsPromote`, ...) or to none. Which one is a matter of what changed of the
  one sandbox the command is on; `LifeInv` excludes the changes the catalogue does not know. `Expects(c)`
  is what a promote and a slot drop know of their data directory: complete all along, and of a primary
  once the wait is over, unless the server has died on the way.
* **`CluInv`**, for the cluster process: it calls the command its stage says, on the member its index
  says, and its list has the members up to there (`Conducts`, `Reached`). **`AloneInv`** adds `LifeInv`
  and that no other command is in flight while a cluster command is (`Alone`), that every entry
  of a sandbox stands in a directory that was made (`Marked`), and that a deploy finds nothing in
  the directories of the members to come (`Ahead`). `AloneStep` has it preserved once for all of what
  follows, so that each property adds only what it is about:
  `ListsAll` (what there is of the members is listed at every moment, for `ManifestComplete`);
  `Climbs` (the port of the last member is the highest recorded, and the next scans above it);
  `Cleared` (a member a destroy has gone past has no config or is a survivor);
  `Halted` (what is to be removed has been stopped, by pg_ctl of the destroy or of the stub);
  `Accounted` (a server without a config is that of a member listed as failed) and, on top of it,
  `Downed` (the members a destroy has gone past are down, survivors included). `Accounted` is what makes
  `PrimaryGoesLast` true of members that destroy skips: they have no config, so they have no server.
* **`CountInv`**, for global_status: a sandbox in place all along has one row, or none yet and exactly
  one way it will still be found, through the cluster directory, its manifest, an entry or at hand
  (`Course`, `Counted`). The delicate moment is a manifest that goes between the look at the directory
  and the load of it: `Promised` says that as long as a member is still in place the manifest is there,
  which is `ManifestGoesEmpty`, the core of `ManifestGoesLast`: the order in which cluster destroy
  removes things is what makes the walk correct.
  **`ShowInv`** has between the two questions of status that what the pidfile said was so (`Witnessed`,
  from `Sane`).
* **`OwnInv`**, for report: `LifeInv` holds of the commands that a report calls as of any others, and
  each throwaway is worked on by its own report only (`ReportsApart`), which is what discipline comes
  to for a command that picks its directory itself. **`PageInv`** adds `Delivered(c)`: between the
  deploy and the end of the queries the throwaway's server is up, on the port the report was told, so
  that `OnePerPort` has psql reach no other; what is loaded there, and what is in the page, is the
  report's own capture. **`GoneInv`** adds `Gone(c)`: a destroy that succeeded has left nothing of the
  throwaway, and a cleanup past its stop has no server; so a report may keep silent about it.
* **`GenuineInv`**, for the builds: from its verification to its extraction a tarball is upstream's
  (`Vetted`), although another build may replace it at any time, since the other one verified it too.
  `Undisturbed` is what a build that is alone has behind it at each of its points. `Remembered`: cleanup
  knows where every older sandbox it can see leads when it removes.
* **`ConfigInv`**, for the config store: what a `Rename` puts in place was made by an earlier step, so
  `Prepared(p)` says that what is about to be saved for a sandbox is valid, and for a set is the file it
  read with its pairs applied; and a migrate about to unlink the legacy file stands before a readable
  config, which nobody can take away since every save is readable.

Each invariant has one lemma per action or group of actions, combined per command and then over the
next-state relation; action properties follow from the invariant and one step.

### Only model-checked

* `EveryCommandReturns` and `ClusterCommandReturns`: liveness under fairness is beyond the prover.
* `DeployOkMeansAttached`, which takes `SlotInv` across all the calls of a cluster deploy. It has no proof
  yet.

## Not modelled

* SQL quoting, rendering of tables, JSON and HTML, flag parsing, help and argument reordering, exit
  codes beyond success and failure: no state, no concurrency, and unit tests reach all of it.
* `use` and `run`: they read a config and replace the process.
* Resolution of the bin directory, of the sandbox root and of names on the command line
  (`cmd/pg_sandbox/resolve.go`), and path expansion: pure functions of the environment.
* The scan of a pg_gather capture and the search for its scripts: they come before any change.
* Depth bounds of the walks, unreadable directories, ownership checks of the build directory.
* PostgreSQL itself, beyond the effects marked external in `PROJECT.json`.
