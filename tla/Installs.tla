------------------------------ MODULE Installs ------------------------------
(***************************************************************************)
(* The PostgreSQL installs that sandboxes run on: build compiles one from  *)
(* source, cleanup-install-versions removes those that no sandbox uses.    *)
(*                                                                         *)
(* Builds share the cached tarball, its stored checksum and the source     *)
(* tree of their version; cleanup shares the install directories with      *)
(* builds and with the sandboxes being deployed and destroyed meanwhile.   *)
(* There is no lock.                                                       *)
(***************************************************************************)
EXTENDS Naturals, FiniteSets

CONSTANTS
  Versions,   \* PostgreSQL releases
  Unsigned,   \* those for which upstream publishes no .sha256
  Prefixes,   \* install directories
  Named,      \* Named[p]: the version that the name of directory p says
  Root,       \* the directories below the install root that cleanup prunes
  Latest,     \* a symlink in the install root, which sandboxes can refer to
  Boxes,      \* sandboxes
  Builders,   \* build invocations that can be in flight together
  None,
  Faults,     \* what may go wrong in this instance
  MaxJobs     \* bound on the number of builds, cleanups and deploys

\* cli: an invocation is killed; child: a program or a file operation fails;
\* net: a download fails or delivers other bytes; disk: a cached file changes;
\* unseen: a sandbox lies elsewhere, or its config cannot be loaded.
ASSUME InstallsAssumption ==
  /\ Unsigned \subseteq Versions /\ Root \subseteq Prefixes
  /\ Named \in [Prefixes -> Versions]
  /\ Faults \subseteq {"cli", "child", "net", "disk", "unseen"}
  /\ None \notin Prefixes \cup Versions /\ Latest \notin Prefixes
  /\ MaxJobs \in Nat

VARIABLES
  inst,       \* inst[p]: what is installed in directory p, or None
  tree,       \* tree[v]: the extracted source of v, or None
  cache,      \* cache[v]: the cached tarball of v and its stored checksum
  job,        \* job[b]: the build that b runs
  box,        \* box[s]: sandbox s
  latest,     \* the directory Latest points to, or None
  clean,      \* the cleanup in flight
  jobs        \* builds, cleanups and deploys begun so far

vars == <<inst, tree, cache, job, box, latest, clean, jobs>>

Ends == {"ok", "fail"}

Parts == {"server", "contrib"}

\* An install without parts is a directory with remains in it.
Install == [ver : Versions, parts : SUBSET Parts]

\* whole: extracted to the end.  good: from the tarball upstream published.
\* prefix: what it is configured for.
Source == [whole : BOOLEAN, good : BOOLEAN, prefix : Prefixes \cup {None}]

\* None is no install and no source tree.
ASSUME NoneAssumption == None \notin Install \cup Source

Cache == [tar : {"none", "good", "bad"}, sum : {"none", "good", "torn"}]

BuildPoints == {"rm", "cached", "verify", "fetch.sum", "fetch.tar", "store.sum",
                "clean", "extract", "configure", "make", "install",
                "contrib.make", "contrib.install", "tidy"}

\* want: upstream's digest is known.  alone: no other build and no cleanup has
\* run since this one began (the code does not know).
Job == [at : BuildPoints \cup Ends, ver : Versions \cup {None},
        prefix : Prefixes \cup {None}, want : BOOLEAN, alone : BOOLEAN]

\* ref: where its binDir leads.  seen: cleanup finds its config and can load it.
Box == [at : {"none", "deploying", "ready"}, ref : Prefixes \cup {Latest, None},
        seen : BOOLEAN]

\* plan: the candidates found unused.  refs: the last walk of the sandbox root.
\* before: the sandboxes that were there when the operator said yes (the code
\* does not know).
Cleanup == [at : {"walk", "prompt", "recheck", "remove"} \cup Ends,
            plan : SUBSET Prefixes,
            refs : [Boxes -> Prefixes \cup {Latest, None}], before : SUBSET Boxes]

InstallsTypeOK ==
  /\ inst \in [Prefixes -> Install \cup {None}]
  /\ tree \in [Versions -> Source \cup {None}]
  /\ cache \in [Versions -> Cache]
  /\ job \in [Builders -> Job]
  /\ box \in [Boxes -> Box]
  /\ latest \in Prefixes \cup {None}
  /\ clean \in Cleanup
  /\ jobs \in 0 .. MaxJobs

NoJob == [at |-> "ok", ver |-> None, prefix |-> None, want |-> FALSE,
          alone |-> FALSE]

NoBox == [at |-> "none", ref |-> None, seen |-> FALSE]

NoCleanup == [at |-> "ok", plan |-> {}, refs |-> [s \in Boxes |-> None],
              before |-> {}]

MayFail(kind) == kind \in Faults

Leads(ref) == IF ref = Latest THEN latest ELSE ref

HasServer(ref) ==
  LET p == Leads(ref) IN
  p # None /\ inst[p] # None /\ "server" \in inst[p].parts

\* There may be installs and sandboxes from before.
Init ==
  /\ inst \in [Prefixes -> {None} \cup [ver : Versions, parts : {Parts}]]
  /\ \A p \in Prefixes : inst[p] # None => inst[p].ver = Named[p]
  /\ latest \in {p \in Prefixes : inst[p] # None} \cup {None}
  /\ box \in [Boxes -> {NoBox} \cup
       [at : {"ready"}, ref : Prefixes \cup {Latest}, seen : {TRUE, ~MayFail("unseen")}]]
  /\ \A s \in Boxes : box[s] # NoBox => HasServer(box[s].ref)
  /\ tree = [v \in Versions |-> None]
  /\ cache = [v \in Versions |-> [tar |-> "none", sum |-> "none"]]
  /\ job = [b \in Builders |-> NoJob]
  /\ clean = NoCleanup
  /\ jobs = 0

Building(b) == job[b].at \notin Ends

Cleaning == clean.at \notin Ends

NewJob == jobs < MaxJobs /\ jobs' = jobs + 1

-----------------------------------------------------------------------------
\* build

At(b, point) == job[b].at = point /\ UNCHANGED <<box, latest, clean, jobs>>

Go(b, point) == job' = [job EXCEPT ![b].at = point]

Return(b, outcome) == job' = [job EXCEPT ![b] = [NoJob EXCEPT !.at = outcome]]

\* A program of the build, or a request, fails and leaves nothing behind.
Fails(b, kind) ==
  MayFail(kind) /\ Return(b, "fail") /\ UNCHANGED <<inst, tree, cache>>

\* An install of the directory's own version is replaced with --force, one in a
\* directory named after another version never.
Replaceable(p, v, force) == force /\ Named[p] = v

\* A build that finds the directory taken exits at once; that is not modelled.
BeginBuild(b) ==
  \E v \in Versions, p \in Prefixes, force \in BOOLEAN :
    LET alone == ~Cleaning /\ \A o \in Builders : ~Building(o) IN
    /\ ~Building(b) /\ NewJob
    /\ inst[p] = None \/ Replaceable(p, v, force)
    /\ job' = [o \in Builders |->
                 IF o = b
                 THEN [at |-> IF inst[p] = None THEN "cached" ELSE "rm", ver |-> v,
                       prefix |-> p, want |-> FALSE,
                       alone |-> alone]
                 ELSE [job[o] EXCEPT !.alone = FALSE]]
    /\ UNCHANGED <<inst, tree, cache, box, latest, clean>>

RemoveInstall(b) ==
  LET p == job[b].prefix IN
  /\ At(b, "rm") /\ UNCHANGED <<tree, cache>>
  /\ \/ inst' = [inst EXCEPT ![p] = None] /\ Go(b, "cached")
     \/ /\ MayFail("child") /\ inst[p] # None
        /\ inst' = [inst EXCEPT ![p].parts = {}] /\ Return(b, "fail")

\* A file that is there already is verified, not fetched.
LookInCache(b) ==
  /\ At(b, "cached")
  /\ Go(b, IF cache[job[b].ver].tar = "none" THEN "fetch.sum" ELSE "verify")
  /\ UNCHANGED <<inst, tree, cache>>

\* The cached tarball is used as it is.
VerifyCached_bug(b) ==
  At(b, "verify") /\ Go(b, "clean") /\ UNCHANGED <<inst, tree, cache>>

\* The digest comes from the stored checksum, else from upstream, which may
\* have none: then the file is taken as it is.
VerifyCached(b) ==
  LET v == job[b].ver IN
  /\ At(b, "verify") /\ UNCHANGED <<inst, tree, cache>>
  /\ \/ cache[v].sum = "torn" /\ Return(b, "fail")
     \/ cache[v].sum = "none" /\ v \in Unsigned /\ Go(b, "clean")
     \/ cache[v].sum = "none" /\ MayFail("net") /\ Return(b, "fail")
     \/ /\ cache[v].sum = "good" \/ (cache[v].sum = "none" /\ v \notin Unsigned)
        /\ IF cache[v].tar = "good"
           THEN Go(b, IF cache[v].sum = "good" THEN "clean" ELSE "store.sum")
           ELSE Return(b, "fail")

\* A checksum that cannot be fetched is a failure; one that is not there is not.
FetchSum(b) ==
  /\ At(b, "fetch.sum")
  /\ \/ /\ job' = [job EXCEPT ![b].want = job[b].ver \notin Unsigned,
                             ![b].at = "fetch.tar"]
        /\ UNCHANGED <<inst, tree, cache>>
     \/ Fails(b, "net")

\* The bytes go to a temporary file, which is renamed if they match.
FetchTarball(b) ==
  /\ At(b, "fetch.tar")
  /\ \/ \E got \in {"good"} \cup (IF MayFail("net") THEN {"bad"} ELSE {}) :
          /\ UNCHANGED <<inst, tree>>
          /\ IF job[b].want /\ got = "bad"
             THEN Return(b, "fail") /\ UNCHANGED cache
             ELSE /\ cache' = [cache EXCEPT ![job[b].ver].tar = got]
                  /\ Go(b, IF job[b].want THEN "store.sum" ELSE "clean")
     \/ Fails(b, "net")

\* The checksum file is written in place.  A failure is a warning.
StoreSum(b) ==
  LET v == job[b].ver
      Stored(sum) == cache' = [cache EXCEPT ![v].sum = sum] IN
  /\ At(b, "store.sum") /\ UNCHANGED <<inst, tree>>
  /\ \/ Stored("good") /\ Go(b, "clean")
     \/ /\ MayFail("child") /\ Go(b, "clean")
        /\ \E sum \in {cache[v].sum, "torn"} : Stored(sum)

\* What an earlier build left is removed, or cannot be removed to its end.
CleanTree(b) ==
  LET v == job[b].ver IN
  /\ At(b, "clean") /\ UNCHANGED <<inst, cache>>
  /\ \/ tree' = [tree EXCEPT ![v] = None] /\ Go(b, "extract")
     \/ /\ MayFail("child") /\ tree[v] # None
        /\ tree' = [tree EXCEPT ![v].whole = FALSE] /\ Return(b, "fail")

\* tar extracts over a tree that another build has extracted meanwhile.
Extract(b) ==
  LET v == job[b].ver
      Extracted(whole) ==
        tree' = [tree EXCEPT ![v] =
          [whole |-> whole, good |-> cache[v].tar = "good",
           prefix |-> IF @ = None THEN None ELSE @.prefix]] IN
  /\ At(b, "extract") /\ UNCHANGED <<inst, cache>>
  /\ \/ cache[v].tar # "none" /\ Extracted(TRUE) /\ Go(b, "configure")
     \/ /\ cache[v].tar = "bad" \/ MayFail("child")
        /\ Extracted(FALSE) /\ Return(b, "fail")
     \/ cache[v].tar = "none" /\ UNCHANGED tree /\ Return(b, "fail")

Ready(v) == tree[v] # None /\ tree[v].whole

Configured(v) == Ready(v) /\ tree[v].prefix # None

\* --prefix is given the version.
Configure_bug(b) ==
  LET v == job[b].ver IN
  /\ At(b, "configure") /\ Ready(v) /\ Go(b, "make")
  /\ tree' = [tree EXCEPT ![v].prefix = v]
  /\ UNCHANGED <<inst, cache>>

Configure(b) ==
  LET v == job[b].ver IN
  /\ At(b, "configure")
  /\ \/ /\ Ready(v) /\ Go(b, "make")
        /\ tree' = [tree EXCEPT ![v].prefix = job[b].prefix]
        /\ UNCHANGED <<inst, cache>>
     \/ /\ ~Ready(v) \/ MayFail("child")
        /\ Return(b, "fail") /\ UNCHANGED <<inst, tree, cache>>

\* make and make install start what is missing themselves, from the tree as it
\* is and for the directory it is configured for.
Make(b, point, next) ==
  /\ At(b, point) /\ UNCHANGED <<inst, tree, cache>>
  /\ \/ Configured(job[b].ver) /\ Go(b, next)
     \/ /\ ~Configured(job[b].ver) \/ MayFail("child")
        /\ Return(b, "fail")

MakeInstall(b, point, part, next) ==
  LET v == job[b].ver
      p == tree[v].prefix
      old == IF inst[p] = None THEN {} ELSE inst[p].parts
      Installed(parts) ==
        /\ inst' = [inst EXCEPT ![p] = [ver |-> v, parts |-> parts]]
        /\ UNCHANGED <<tree, cache>> IN
  /\ At(b, point)
  /\ \/ Configured(v) /\ Installed(old \cup {part}) /\ Go(b, next)
     \/ /\ Configured(v) /\ MayFail("child")
        /\ Installed(old \ {part}) /\ Return(b, "fail")
     \/ ~Configured(v) /\ Return(b, "fail") /\ UNCHANGED <<inst, tree, cache>>

\* contrib is optional.
ContribInstall_bug(b) ==
  \/ MakeInstall(b, "contrib.install", "contrib", "tidy")
  \/ At(b, "contrib.install") /\ Go(b, "tidy") /\ UNCHANGED <<inst, tree, cache>>

ContribInstall(b) == MakeInstall(b, "contrib.install", "contrib", "tidy")

Tidy(b) ==
  /\ At(b, "tidy") /\ UNCHANGED <<inst, cache>>
  /\ tree' = [tree EXCEPT ![job[b].ver] = None] /\ Return(b, "ok")

BuildStep(b) ==
  \/ RemoveInstall(b)
  \/ LookInCache(b) \/ VerifyCached(b)
  \/ FetchSum(b) \/ FetchTarball(b) \/ StoreSum(b)
  \/ CleanTree(b) \/ Extract(b) \/ Configure(b)
  \/ Make(b, "make", "install")
  \/ MakeInstall(b, "install", "server", "contrib.make")
  \/ Make(b, "contrib.make", "contrib.install")
  \/ ContribInstall(b)
  \/ Tidy(b)

KillBuild(b) ==
  /\ MayFail("cli") /\ Building(b) /\ Return(b, "fail")
  /\ UNCHANGED <<inst, tree, cache, box, latest, clean, jobs>>

-----------------------------------------------------------------------------
\* cleanup-install-versions

Quiet == UNCHANGED <<inst, tree, cache, box, latest>>

\* The symlink is not followed.
PathForms_bug(ref) == {ref}

\* A binDir as it is written, and where it leads if there is something there.
PathForms(ref) ==
  {ref} \cup (IF ref = Latest /\ latest # None /\ inst[latest] # None
              THEN IF inst[latest].parts # {} THEN {latest} ELSE {}
              ELSE {})

UsedBy(p, refs) == {s \in Boxes : p \in PathForms(refs[s])}

\* collectSandboxBinDirs
Walk == [s \in Boxes |-> IF box[s].at = "ready" /\ box[s].seen THEN box[s].ref
                         ELSE None]

\* only: the versions named on the command line, or all.
BeginCleanup ==
  \E only \in SUBSET Root :
    LET Candidates == {p \in Root : inst[p] # None} IN
    /\ ~Cleaning /\ NewJob
    /\ only = Root \/ only \subseteq Candidates
    /\ clean' = [NoCleanup EXCEPT !.at = "walk", !.plan = Candidates \cap only]
    /\ job' = [b \in Builders |-> [job[b] EXCEPT !.alone = FALSE]]
    /\ Quiet

WalkAndPlan ==
  LET unused == {p \in clean.plan : UsedBy(p, Walk) = {}} IN
  /\ clean.at = "walk"
  /\ clean' = IF unused = {} THEN NoCleanup
              ELSE [clean EXCEPT !.at = "prompt", !.plan = unused, !.refs = Walk]
  /\ Quiet /\ UNCHANGED <<job, jobs>>

\* The prompt may stay open for long.
Confirm ==
  /\ clean.at = "prompt"
  /\ \/ clean' = NoCleanup
     \/ clean' = [clean EXCEPT !.at = "recheck",
                    !.before = {s \in Boxes : box[s].at = "ready"}]
  /\ Quiet /\ UNCHANGED <<job, jobs>>

\* Apply trusts the plan.
Recheck_bug ==
  /\ clean.at = "recheck" /\ clean' = [clean EXCEPT !.at = "remove"]
  /\ Quiet /\ UNCHANGED <<job, jobs>>

\* One walk before the first removal.
Recheck ==
  /\ clean.at = "recheck"
  /\ clean' = [clean EXCEPT !.at = "remove", !.refs = Walk]
  /\ Quiet /\ UNCHANGED <<job, jobs>>

\* A directory that cannot be removed to its end does not stop the others.
RemoveUnused ==
  \E p \in clean.plan :
    /\ clean.at = "remove"
    /\ clean' = [clean EXCEPT !.plan = @ \ {p}]
    /\ \/ UsedBy(p, clean.refs) # {} /\ UNCHANGED inst
       \/ /\ UsedBy(p, clean.refs) = {}
          /\ \/ inst' = [inst EXCEPT ![p] = None]
             \/ /\ MayFail("child") /\ inst[p] # None
                /\ inst' = [inst EXCEPT ![p].parts = {}]
    /\ UNCHANGED <<tree, cache, box, latest, job, jobs>>

FinishCleanup ==
  /\ clean.at = "remove" /\ clean.plan = {}
  /\ clean' = NoCleanup /\ Quiet /\ UNCHANGED <<job, jobs>>

KillCleanup ==
  /\ MayFail("cli") /\ Cleaning
  /\ clean' = [NoCleanup EXCEPT !.at = "fail"] /\ Quiet /\ UNCHANGED <<job, jobs>>

CleanupStep == WalkAndPlan \/ Confirm \/ Recheck \/ RemoveUnused \/ FinishCleanup

-----------------------------------------------------------------------------
\* Sandboxes and the operator

Machine == UNCHANGED <<inst, tree, cache, job>>

\* initdb runs from the install; the config that names it comes at the end.
BeginDeploy(s) ==
  \E ref \in Prefixes \cup {Latest}, seen \in {TRUE, ~MayFail("unseen")} :
    /\ box[s].at = "none" /\ NewJob
    /\ HasServer(ref)
    /\ box' = [box EXCEPT ![s] = [at |-> "deploying", ref |-> ref, seen |-> seen]]
    /\ Machine /\ UNCHANGED <<latest, clean>>

FinishDeploy(s) ==
  /\ box[s].at = "deploying"
  /\ \/ HasServer(box[s].ref) /\ box' = [box EXCEPT ![s].at = "ready"]
     \/ ~HasServer(box[s].ref) /\ box' = [box EXCEPT ![s] = NoBox]
  /\ Machine /\ UNCHANGED <<latest, clean, jobs>>

DestroyBox(s) ==
  /\ box[s].at = "ready"
  /\ box' = [box EXCEPT ![s] = NoBox]
  /\ clean' = [clean EXCEPT !.before = @ \ {s}]
  /\ Machine /\ UNCHANGED <<latest, jobs>>

\* The operator who is asked to confirm does not move the link meanwhile.
Relink ==
  \E p \in Prefixes :
    /\ ~Cleaning /\ inst[p] # None /\ p # latest
    /\ latest' = p
    /\ Machine /\ UNCHANGED <<box, clean, jobs>>

\* "delete ... and retry" is what a build says of a file it does not trust.
EmptyCache ==
  \E v \in Versions :
    /\ \A b \in Builders : Building(b) => job[b].ver # v
    /\ cache[v] # [tar |-> "none", sum |-> "none"]
    /\ cache' = [cache EXCEPT ![v] = [tar |-> "none", sum |-> "none"]]
    /\ UNCHANGED <<inst, tree, job, box, latest, clean, jobs>>

\* While no build of the version is at work.
Corrupt ==
  \E v \in Versions :
    /\ MayFail("disk")
    /\ \A b \in Builders : Building(b) => job[b].ver # v
    /\ cache[v].tar = "good"
    /\ cache' = [cache EXCEPT ![v].tar = "bad"]
    /\ UNCHANGED <<inst, tree, job, box, latest, clean, jobs>>

Next ==
  \/ \E b \in Builders : BeginBuild(b) \/ BuildStep(b) \/ KillBuild(b)
  \/ BeginCleanup \/ CleanupStep \/ KillCleanup
  \/ \E s \in Boxes : BeginDeploy(s) \/ FinishDeploy(s) \/ DestroyBox(s)
  \/ Relink \/ EmptyCache \/ Corrupt

Spec == Init /\ [][Next]_vars
=============================================================================
