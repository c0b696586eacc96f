--------------------------- MODULE InstallsProofs ---------------------------
(***************************************************************************)
(* For any number of concurrent builds, versions, directories and          *)
(* sandboxes, and whatever fails: what is compiled is what upstream        *)
(* published, a build that was alone and exits 0 has installed everything, *)
(* and a cleanup spares the sandboxes it had the time to see.              *)
(***************************************************************************)
EXTENDS InstallsProps, TLAPS

\* A build in flight knows its version and its directory.
Grounded(j) == j.at \notin Ends => j.ver \in Versions /\ j.prefix \in Prefixes

TypeInv == InstallsTypeOK /\ \A b \in Builders : Grounded(job[b])

-----------------------------------------------------------------------------
\* Moving a build

LEMMA JobMoves ==
  ASSUME TypeInv, NEW b \in Builders, NEW k \in Job, Grounded(k),
         job' = [job EXCEPT ![b] = k]
  PROVE  job' \in [Builders -> Job] /\ \A o \in Builders : Grounded(job'[o])
  <1>1. job \in [Builders -> Job]
    BY DEF TypeInv, InstallsTypeOK
  <1>2. ASSUME NEW o \in Builders PROVE Grounded(job'[o])
    <2>1. CASE o = b
      BY <1>1, <2>1
    <2>2. CASE o # b
      BY <1>1, <2>2 DEF TypeInv
    <2> QED
      BY <2>1, <2>2
  <1> QED
    BY <1>1, <1>2

LEMMA GoMoves ==
  ASSUME TypeInv, NEW b \in Builders, Building(b), NEW point \in BuildPoints,
         Go(b, point)
  PROVE  job' \in [Builders -> Job] /\ \A o \in Builders : Grounded(job'[o])
  <1> DEFINE k == [job[b] EXCEPT !.at = point]
  <1>1. job[b] \in Job /\ Grounded(job[b])
    BY DEF TypeInv, InstallsTypeOK
  <1>2. k \in Job /\ Grounded(k)
    BY <1>1 DEF Job, Grounded, Building
  <1>3. job' = [job EXCEPT ![b] = k]
    BY DEF Go
  <1> HIDE DEF k
  <1> QED
    BY <1>2, <1>3, JobMoves

LEMMA ReturnMoves ==
  ASSUME TypeInv, NEW b \in Builders, NEW outcome \in Ends, Return(b, outcome)
  PROVE  job' \in [Builders -> Job] /\ \A o \in Builders : Grounded(job'[o])
  <1> DEFINE k == [NoJob EXCEPT !.at = outcome]
  <1>1. k \in Job /\ Grounded(k)
    BY DEF NoJob, Job, Grounded, Ends
  <1>2. job' = [job EXCEPT ![b] = k]
    BY DEF Return
  <1> HIDE DEF k
  <1> QED
    BY <1>1, <1>2, JobMoves

\* What a build brings to its next step.
LEMMA Standing ==
  ASSUME TypeInv, NEW b \in Builders, NEW point \in BuildPoints, At(b, point)
  PROVE  /\ Building(b) /\ job[b] \in Job
         /\ job[b].ver \in Versions /\ job[b].prefix \in Prefixes
         /\ UNCHANGED <<box, latest, clean, jobs>>
         /\ inst \in [Prefixes -> Install \cup {None}]
         /\ tree \in [Versions -> Source \cup {None}]
         /\ cache \in [Versions -> Cache]
  BY DEF At, TypeInv, InstallsTypeOK, Grounded, Building, Ends, BuildPoints

\* Typing what is left of the state when a build has moved.
LEMMA BuildTyped ==
  ASSUME TypeInv, UNCHANGED <<box, latest, clean, jobs>>,
         job' \in [Builders -> Job], \A o \in Builders : Grounded(job'[o]),
         inst' \in [Prefixes -> Install \cup {None}],
         tree' \in [Versions -> Source \cup {None}],
         cache' \in [Versions -> Cache]
  PROVE  TypeInv'
  BY DEF TypeInv, InstallsTypeOK

LEMMA CacheTyped ==
  ASSUME cache \in [Versions -> Cache], NEW v \in Versions,
         NEW tar \in {"none", "good", "bad"}, NEW sum \in {"none", "good", "torn"},
         \/ cache' = [cache EXCEPT ![v].tar = tar]
         \/ cache' = [cache EXCEPT ![v].sum = sum]
  PROVE  cache' \in [Versions -> Cache]
  BY DEF Cache

-----------------------------------------------------------------------------
\* Every step keeps the types

LEMMA BuildStepTyped ==
  ASSUME TypeInv, NEW b \in Builders, BuildStep(b)
  PROVE  TypeInv'
  <1> DEFINE v == job[b].ver
             p == job[b].prefix
  <1>1. CASE RemoveInstall(b)
    <2>1. At(b, "rm") /\ "rm" \in BuildPoints
      BY <1>1 DEF RemoveInstall, BuildPoints
    <2>2. Go(b, "cached") \/ Return(b, "fail")
      BY <1>1 DEF RemoveInstall
    <2>3. inst' \in [Prefixes -> Install \cup {None}]
      BY <1>1, <2>1, Standing DEF RemoveInstall, Install
    <2> QED
      BY <1>1, <2>1, <2>2, <2>3, Standing, GoMoves, ReturnMoves, BuildTyped
      DEF RemoveInstall, BuildPoints, Ends
  <1>2. CASE LookInCache(b)
    <2>1. At(b, "cached") /\ "cached" \in BuildPoints
      BY <1>2 DEF LookInCache, BuildPoints
    <2>2. Go(b, "fetch.sum") \/ Go(b, "verify")
      BY <1>2 DEF LookInCache
    <2> QED
      BY <1>2, <2>1, <2>2, Standing, GoMoves, BuildTyped
      DEF LookInCache, BuildPoints
  <1>3. CASE VerifyCached(b)
    <2>1. At(b, "verify") /\ "verify" \in BuildPoints
      BY <1>3 DEF VerifyCached, BuildPoints
    <2>2. Go(b, "clean") \/ Go(b, "store.sum") \/ Return(b, "fail")
      BY <1>3 DEF VerifyCached
    <2> QED
      BY <1>3, <2>1, <2>2, Standing, GoMoves, ReturnMoves, BuildTyped
      DEF VerifyCached, BuildPoints, Ends
  <1>4. CASE FetchSum(b)
    <2> DEFINE k == [job[b] EXCEPT !.want = v \notin Unsigned, !.at = "fetch.tar"]
    <2>1. At(b, "fetch.sum") /\ "fetch.sum" \in BuildPoints
      BY <1>4 DEF FetchSum, BuildPoints
    <2>2. UNCHANGED <<inst, tree, cache>>
      BY <1>4 DEF FetchSum, Fails
    <2>3. CASE job' = [job EXCEPT ![b].want = v \notin Unsigned, ![b].at = "fetch.tar"]
      <3>1. k \in Job /\ Grounded(k)
        BY <2>1, Standing DEF Job, Grounded, BuildPoints
      <3>2. job' = [job EXCEPT ![b] = k]
        BY <2>3
      <3> HIDE DEF k
      <3> QED
        BY <2>1, <2>2, <3>1, <3>2, Standing, JobMoves, BuildTyped
    <2>4. CASE Return(b, "fail")
      BY <2>1, <2>2, <2>4, Standing, ReturnMoves, BuildTyped DEF Ends
    <2> QED
      BY <1>4, <2>3, <2>4 DEF FetchSum, Fails
  <1>5. CASE FetchTarball(b)
    <2>1. At(b, "fetch.tar") /\ "fetch.tar" \in BuildPoints
      BY <1>5 DEF FetchTarball, BuildPoints
    <2>2. Go(b, "clean") \/ Go(b, "store.sum") \/ Return(b, "fail")
      BY <1>5 DEF FetchTarball, Fails
    <2>3. \/ UNCHANGED cache
          \/ \E got \in {"good", "bad"} : cache' = [cache EXCEPT ![v].tar = got]
      BY <1>5 DEF FetchTarball, Fails
    <2>4. cache' \in [Versions -> Cache]
      BY <2>1, <2>3, Standing, CacheTyped
    <2> QED
      BY <1>5, <2>1, <2>2, <2>4, Standing, GoMoves, ReturnMoves, BuildTyped
      DEF FetchTarball, Fails, BuildPoints, Ends
  <1>6. CASE StoreSum(b)
    <2>1. At(b, "store.sum") /\ "store.sum" \in BuildPoints
      BY <1>6 DEF StoreSum, BuildPoints
    <2>2. Go(b, "clean") /\ UNCHANGED <<inst, tree>>
      BY <1>6 DEF StoreSum
    <2>3. cache[v].sum \in {"none", "good", "torn"}
      BY <2>1, Standing DEF Cache
    <2>4. \E sum \in {"good", "torn", cache[v].sum} :
             cache' = [cache EXCEPT ![v].sum = sum]
      BY <1>6 DEF StoreSum
    <2>5. cache' \in [Versions -> Cache]
      BY <2>1, <2>3, <2>4, Standing DEF Cache
    <2> QED
      BY <2>1, <2>2, <2>5, Standing, GoMoves, BuildTyped DEF BuildPoints
  <1>7. CASE CleanTree(b)
    <2>1. At(b, "clean") /\ "clean" \in BuildPoints
      BY <1>7 DEF CleanTree, BuildPoints
    <2>2. /\ \/ tree' = [tree EXCEPT ![v] = None]
             \/ tree[v] # None /\ tree' = [tree EXCEPT ![v].whole = FALSE]
          /\ Go(b, "extract") \/ Return(b, "fail")
      BY <1>7 DEF CleanTree
    <2> DEFINE half == [tree[v] EXCEPT !.whole = FALSE]
    <2>3. tree[v] # None => half \in Source
      BY <2>1, Standing DEF Source
    <2>4. tree' = [tree EXCEPT ![v] = None]
          \/ (tree[v] # None /\ tree' = [tree EXCEPT ![v] = half])
      BY <2>2
    <2> HIDE DEF half
    <2>5. tree' \in [Versions -> Source \cup {None}]
      BY <2>1, <2>3, <2>4, Standing
    <2> QED
      BY <1>7, <2>1, <2>2, <2>5, Standing, GoMoves, ReturnMoves, BuildTyped
      DEF CleanTree, BuildPoints, Ends
  <1>8. CASE Extract(b)
    <2> DEFINE new(whole) == [whole |-> whole, good |-> cache[v].tar = "good",
                              prefix |-> IF tree[v] = None THEN None
                                         ELSE tree[v].prefix]
    <2>1. At(b, "extract") /\ "extract" \in BuildPoints
      BY <1>8 DEF Extract, BuildPoints
    <2>2. \A whole \in BOOLEAN : new(whole) \in Source
      BY <2>1, Standing DEF Source
    <2>3. \/ UNCHANGED tree
          \/ \E whole \in BOOLEAN : tree' = [tree EXCEPT ![v] = new(whole)]
      BY <1>8 DEF Extract
    <2> HIDE DEF new
    <2>4. tree' \in [Versions -> Source \cup {None}]
      BY <2>1, <2>2, <2>3, Standing
    <2>5. Go(b, "configure") \/ Return(b, "fail")
      BY <1>8 DEF Extract
    <2> QED
      BY <1>8, <2>1, <2>4, <2>5, Standing, GoMoves, ReturnMoves, BuildTyped
      DEF Extract, BuildPoints, Ends
  <1>9. CASE Configure(b)
    <2>1. At(b, "configure") /\ "configure" \in BuildPoints
      BY <1>9 DEF Configure, BuildPoints
    <2>2. \/ UNCHANGED tree
          \/ tree[v] # None /\ tree' = [tree EXCEPT ![v].prefix = p]
      BY <1>9 DEF Configure, Ready
    <2>3. tree' \in [Versions -> Source \cup {None}]
      BY <2>1, <2>2, Standing DEF Source
    <2>4. Go(b, "make") \/ Return(b, "fail")
      BY <1>9 DEF Configure
    <2> QED
      BY <1>9, <2>1, <2>3, <2>4, Standing, GoMoves, ReturnMoves, BuildTyped
      DEF Configure, BuildPoints, Ends
  <1>10. ASSUME NEW point \in BuildPoints, NEW next \in BuildPoints,
                Make(b, point, next)
         PROVE  TypeInv'
    <2>1. (Go(b, next) \/ Return(b, "fail")) /\ UNCHANGED <<inst, tree, cache>>
      BY <1>10 DEF Make
    <2> QED
      BY <1>10, <2>1, Standing, GoMoves, ReturnMoves, BuildTyped DEF Make, Ends
  <1>11. ASSUME NEW point \in BuildPoints, NEW part \in Parts,
                NEW next \in BuildPoints, MakeInstall(b, point, part, next)
         PROVE  TypeInv'
    <2> DEFINE q == tree[v].prefix
               old == IF inst[q] = None THEN {} ELSE inst[q].parts
    <2>1. \/ UNCHANGED inst
          \/ /\ Configured(v)
             /\ \E parts \in {old \cup {part}, old \ {part}} :
                  inst' = [inst EXCEPT ![q] = [ver |-> v, parts |-> parts]]
      BY Zenon, <1>11 DEF MakeInstall
    <2>2. Configured(v) => q \in Prefixes
      <3>1. At(b, point)
        BY <1>11 DEF MakeInstall
      <3>2. v \in Versions /\ tree \in [Versions -> Source \cup {None}]
        BY <3>1, Standing
      <3> HIDE DEF v
      <3> QED
        BY <3>2 DEF Configured, Ready, Source
    <2>3. q \in Prefixes => old \subseteq Parts
      BY Zenon, <1>11, Standing DEF MakeInstall, Install
    <2>4. inst' \in [Prefixes -> Install \cup {None}]
      <3>1. /\ inst \in [Prefixes -> Install \cup {None}] /\ v \in Versions
        BY <1>11, Standing DEF MakeInstall
      <3> HIDE DEF old, q
      <3>2. CASE Configured(v)
        <4>1. ASSUME NEW parts \in {old \cup {part}, old \ {part}}
              PROVE  [ver |-> v, parts |-> parts] \in Install
          <5>1. parts \subseteq Parts
            BY <2>2, <2>3, <3>2
          <5> QED
            BY <3>1, <5>1 DEF Install
        <4> QED
          BY <2>1, <3>1, <4>1
      <3> QED
        BY <2>1, <3>1, <3>2
    <2>5. (Go(b, next) \/ Return(b, "fail")) /\ UNCHANGED <<tree, cache>>
      BY <1>11 DEF MakeInstall
    <2>6. At(b, point)
      BY <1>11 DEF MakeInstall
    <2> QED
      BY <2>4, <2>5, <2>6, Standing, GoMoves, ReturnMoves, BuildTyped DEF Ends
  <1>12. CASE Tidy(b)
    <2>1. At(b, "tidy") /\ "tidy" \in BuildPoints
      BY <1>12 DEF Tidy, BuildPoints
    <2>2. tree' \in [Versions -> Source \cup {None}]
      BY <1>12, <2>1, Standing DEF Tidy
    <2> QED
      BY <1>12, <2>1, <2>2, Standing, ReturnMoves, BuildTyped DEF Tidy, Ends
  <1> QED
    BY <1>1, <1>2, <1>3, <1>4, <1>5, <1>6, <1>7, <1>8, <1>9, <1>10, <1>11, <1>12
    DEF BuildStep, ContribInstall, BuildPoints, Parts

LEMMA BeginBuildTyped ==
  ASSUME TypeInv, NEW b \in Builders, BeginBuild(b)
  PROVE  TypeInv'
  <1>1. PICK v \in Versions, p \in Prefixes, at \in {"cached", "rm"}, alone \in BOOLEAN :
          job' = [o \in Builders |->
                    IF o = b THEN [at |-> at, ver |-> v, prefix |-> p,
                                   want |-> FALSE, alone |-> alone]
                    ELSE [job[o] EXCEPT !.alone = FALSE]]
    <2>1. PICK v \in Versions, p \in Prefixes :
            job' = [o \in Builders |->
                      IF o = b THEN [at |-> IF inst[p] = None THEN "cached" ELSE "rm",
                                     ver |-> v, prefix |-> p, want |-> FALSE,
                                     alone |-> ~Cleaning /\ \A a \in Builders : ~Building(a)]
                      ELSE [job[o] EXCEPT !.alone = FALSE]]
      BY DEF BeginBuild
    <2> DEFINE alone == ~Cleaning /\ \A a \in Builders : ~Building(a)
               at == IF inst[p] = None THEN "cached" ELSE "rm"
    <2>2. alone \in BOOLEAN /\ at \in {"cached", "rm"}
      OBVIOUS
    <2>3. job' = [o \in Builders |->
                    IF o = b THEN [at |-> at, ver |-> v, prefix |-> p,
                                   want |-> FALSE, alone |-> alone]
                    ELSE [job[o] EXCEPT !.alone = FALSE]]
      BY <2>1
    <2> HIDE DEF alone, at
    <2> QED
      BY <2>2, <2>3
  <1>2. ASSUME NEW o \in Builders PROVE job'[o] \in Job /\ Grounded(job'[o])
    <2>1. CASE o = b
      BY <1>1, <2>1 DEF Job, BuildPoints, Grounded
    <2>2. CASE o # b
      <3>1. job[o] \in Job /\ Grounded(job[o])
        BY DEF TypeInv, InstallsTypeOK
      <3>2. job'[o] = [job[o] EXCEPT !.alone = FALSE]
        BY <1>1, <2>2
      <3> QED
        BY <3>1, <3>2 DEF Job, Grounded
    <2> QED
      BY <2>1, <2>2
  <1>3. jobs' \in 0 .. MaxJobs
    BY InstallsAssumption DEF BeginBuild, NewJob, TypeInv, InstallsTypeOK
  <1>4. job' \in [Builders -> Job]
    BY <1>1, <1>2
  <1> QED
    BY <1>2, <1>3, <1>4 DEF BeginBuild, TypeInv, InstallsTypeOK

LEMMA WalkTyped ==
  ASSUME TypeInv
  PROVE  Walk \in [Boxes -> Prefixes \cup {Latest, None}]
  BY DEF Walk, TypeInv, InstallsTypeOK, Box

LEMMA NoCleanupTyped == NoCleanup \in Cleanup
  BY DEF NoCleanup, Cleanup, Ends

\* Only what the cleanup remembers changes.
LEMMA CleanTyped ==
  ASSUME TypeInv, Quiet, UNCHANGED <<job, jobs>>, clean' \in Cleanup
  PROVE  TypeInv'
  BY DEF TypeInv, InstallsTypeOK, Quiet

LEMMA CleanupTyped ==
  ASSUME TypeInv, BeginCleanup \/ CleanupStep \/ KillCleanup
  PROVE  TypeInv'
  <1>1. /\ clean \in Cleanup /\ NoCleanup \in Cleanup
        /\ Walk \in [Boxes -> Prefixes \cup {Latest, None}]
    BY NoCleanupTyped, WalkTyped DEF TypeInv, InstallsTypeOK
  <1>2. CASE BeginCleanup
    <2>1. PICK plan \in SUBSET Prefixes :
            /\ clean' = [NoCleanup EXCEPT !.at = "walk", !.plan = plan]
            /\ job' = [b \in Builders |-> [job[b] EXCEPT !.alone = FALSE]]
      <3>1. \A only \in SUBSET Root :
              {p \in Root : inst[p] # None} \cap only \in SUBSET Prefixes
        BY InstallsAssumption
      <3> QED
        BY <1>2, <3>1 DEF BeginCleanup
    <2>2. clean' \in Cleanup
      BY <1>1, <2>1 DEF Cleanup
    <2>3. ASSUME NEW o \in Builders PROVE job'[o] \in Job /\ Grounded(job'[o])
      <3>1. job[o] \in Job /\ Grounded(job[o])
        BY DEF TypeInv, InstallsTypeOK
      <3>2. job'[o] = [job[o] EXCEPT !.alone = FALSE]
        BY <2>1
      <3> QED
        BY <3>1, <3>2 DEF Job, Grounded
    <2>4. jobs' \in 0 .. MaxJobs
      <3>1. jobs < MaxJobs /\ jobs' = jobs + 1
        BY <1>2 DEF BeginCleanup, NewJob
      <3>2. jobs \in 0 .. MaxJobs /\ MaxJobs \in Nat
        BY InstallsAssumption DEF TypeInv, InstallsTypeOK
      <3> QED
        BY <3>1, <3>2
    <2>5. job' \in [Builders -> Job]
      BY <2>1, <2>3
    <2> QED
      BY <1>2, <2>2, <2>3, <2>4, <2>5
      DEF BeginCleanup, Quiet, TypeInv, InstallsTypeOK
  <1>3. CASE WalkAndPlan
    <2> DEFINE unused == {p \in clean.plan : UsedBy(p, Walk) = {}}
    <2>1. unused \subseteq Prefixes
      BY <1>1 DEF Cleanup
    <2>2. \/ clean' = NoCleanup
          \/ clean' = [clean EXCEPT !.at = "prompt", !.plan = unused, !.refs = Walk]
      BY <1>3 DEF WalkAndPlan
    <2> HIDE DEF unused
    <2>3. clean' \in Cleanup
      BY <1>1, <2>1, <2>2 DEF Cleanup
    <2> QED
      BY <1>3, <2>3, CleanTyped DEF WalkAndPlan
  <1>4. CASE Confirm
    <2> DEFINE before == {s \in Boxes : box[s].at = "ready"}
    <2>1. \/ clean' = NoCleanup
          \/ clean' = [clean EXCEPT !.at = "recheck", !.before = before]
      BY <1>4 DEF Confirm
    <2>2. before \subseteq Boxes
      OBVIOUS
    <2> HIDE DEF before
    <2>3. clean' \in Cleanup
      BY <1>1, <2>1, <2>2 DEF Cleanup
    <2> QED
      BY <1>4, <2>3, CleanTyped DEF Confirm
  <1>5. CASE Recheck
    <2>1. clean' \in Cleanup
      BY <1>1, <1>5 DEF Recheck, Cleanup
    <2> QED
      BY <1>5, <2>1, CleanTyped DEF Recheck
  <1>6. CASE RemoveUnused
    <2>1. PICK p \in clean.plan :
            /\ clean' = [clean EXCEPT !.plan = @ \ {p}]
            /\ \/ UNCHANGED inst
               \/ inst' = [inst EXCEPT ![p] = None]
               \/ inst[p] # None /\ inst' = [inst EXCEPT ![p].parts = {}]
      BY <1>6 DEF RemoveUnused
    <2>2. clean' \in Cleanup
      BY <1>1, <2>1 DEF Cleanup
    <2>3. p \in Prefixes
      BY <1>1 DEF Cleanup
    <2>4. inst' \in [Prefixes -> Install \cup {None}]
      BY <2>1, <2>3 DEF TypeInv, InstallsTypeOK, Install
    <2> QED
      BY <1>6, <2>2, <2>4 DEF RemoveUnused, TypeInv, InstallsTypeOK
  <1>7. CASE FinishCleanup
    BY <1>1, <1>7, CleanTyped DEF FinishCleanup
  <1>8. CASE KillCleanup
    <2>1. clean' \in Cleanup
      BY <1>1, <1>8 DEF KillCleanup, Cleanup, Ends
    <2> QED
      BY <1>8, <2>1, CleanTyped DEF KillCleanup
  <1> QED
    BY <1>2, <1>3, <1>4, <1>5, <1>6, <1>7, <1>8 DEF CleanupStep

LEMMA OthersTyped ==
  ASSUME TypeInv,
         \/ \E s \in Boxes : BeginDeploy(s) \/ FinishDeploy(s) \/ DestroyBox(s)
         \/ Relink \/ EmptyCache \/ Corrupt
  PROVE  TypeInv'
  <1>1. NoBox \in Box
    BY DEF NoBox, Box
  <1>2. ASSUME NEW s \in Boxes, BeginDeploy(s) PROVE TypeInv'
    <2>1. PICK ref \in Prefixes \cup {Latest}, seen \in BOOLEAN :
            box' = [box EXCEPT ![s] = [at |-> "deploying", ref |-> ref, seen |-> seen]]
      BY <1>2 DEF BeginDeploy, MayFail
    <2> DEFINE new == [at |-> "deploying", ref |-> ref, seen |-> seen]
    <2>3. new \in Box
      BY DEF Box
    <2> HIDE DEF new
    <2>4. box' \in [Boxes -> Box]
      BY <2>1, <2>3 DEF new, TypeInv, InstallsTypeOK
    <2>2. jobs' \in 0 .. MaxJobs
      BY <1>2, InstallsAssumption DEF BeginDeploy, NewJob, TypeInv, InstallsTypeOK
    <2> QED
      BY <1>2, <2>4, <2>2 DEF BeginDeploy, Machine, TypeInv, InstallsTypeOK
  <1>3. ASSUME NEW s \in Boxes, FinishDeploy(s) PROVE TypeInv'
    <2> DEFINE new == [box[s] EXCEPT !.at = "ready"]
    <2>2. new \in Box
      BY DEF TypeInv, InstallsTypeOK, Box
    <2>3. box' = [box EXCEPT ![s] = new] \/ box' = [box EXCEPT ![s] = NoBox]
      BY <1>3 DEF FinishDeploy
    <2> HIDE DEF new
    <2>1. box' \in [Boxes -> Box]
      BY <1>1, <2>2, <2>3 DEF TypeInv, InstallsTypeOK
    <2> QED
      BY <1>3, <2>1 DEF FinishDeploy, Machine, TypeInv, InstallsTypeOK
  <1>4. ASSUME NEW s \in Boxes, DestroyBox(s) PROVE TypeInv'
    <2>1. box' \in [Boxes -> Box]
      BY <1>1, <1>4 DEF DestroyBox, TypeInv, InstallsTypeOK
    <2>2. clean' \in Cleanup
      BY <1>4 DEF DestroyBox, TypeInv, InstallsTypeOK, Cleanup
    <2> QED
      BY <1>4, <2>1, <2>2 DEF DestroyBox, Machine, TypeInv, InstallsTypeOK
  <1>5. CASE Relink
    BY <1>5 DEF Relink, Machine, TypeInv, InstallsTypeOK
  <1>6. CASE EmptyCache
    <2>1. cache' \in [Versions -> Cache]
      BY <1>6 DEF EmptyCache, TypeInv, InstallsTypeOK, Cache
    <2> QED
      BY <1>6, <2>1 DEF EmptyCache, TypeInv, InstallsTypeOK
  <1>7. CASE Corrupt
    <2>1. cache' \in [Versions -> Cache]
      BY <1>7 DEF Corrupt, TypeInv, InstallsTypeOK, Cache
    <2> QED
      BY <1>7, <2>1 DEF Corrupt, TypeInv, InstallsTypeOK
  <1> QED
    BY <1>2, <1>3, <1>4, <1>5, <1>6, <1>7

LEMMA StepTyped == TypeInv /\ [Next]_vars => TypeInv'
  <1> SUFFICES ASSUME TypeInv, [Next]_vars PROVE TypeInv'
    OBVIOUS
  <1>1. CASE UNCHANGED vars
    BY <1>1 DEF vars, TypeInv, InstallsTypeOK
  <1>2. ASSUME NEW b \in Builders, KillBuild(b) PROVE TypeInv'
    <2>1. Return(b, "fail") /\ UNCHANGED <<inst, tree, cache, box, latest, clean, jobs>>
      BY <1>2 DEF KillBuild
    <2> QED
      BY <2>1, ReturnMoves DEF Ends, TypeInv, InstallsTypeOK
  <1> QED
    BY <1>1, <1>2, BuildStepTyped, BeginBuildTyped, CleanupTyped, OthersTyped DEF Next

LEMMA InitTyped == Init => TypeInv
  <1> SUFFICES ASSUME Init PROVE TypeInv
    OBVIOUS
  <1>1. NoJob \in Job /\ Grounded(NoJob)
    BY DEF NoJob, Job, Grounded, Ends
  <1>2. job \in [Builders -> Job] /\ \A b \in Builders : Grounded(job[b])
    BY <1>1 DEF Init
  <1>3. inst \in [Prefixes -> Install \cup {None}]
    <2>1. [ver : Versions, parts : {Parts}] \subseteq Install
      BY DEF Install
    <2> QED
      BY <2>1 DEF Init
  <1>4. box \in [Boxes -> Box]
    <2>1. [at : {"ready"}, ref : Prefixes \cup {Latest}, seen : {TRUE, ~MayFail("unseen")}]
            \subseteq Box
      BY DEF Box, MayFail
    <2>2. NoBox \in Box
      BY DEF NoBox, Box
    <2> QED
      BY <2>1, <2>2 DEF Init
  <1>5. /\ tree \in [Versions -> Source \cup {None}] /\ cache \in [Versions -> Cache]
        /\ latest \in Prefixes \cup {None} /\ jobs \in 0 .. MaxJobs
    BY InstallsAssumption DEF Init, Cache
  <1> QED
    BY <1>2, <1>3, <1>4, <1>5, NoCleanupTyped DEF Init, TypeInv, InstallsTypeOK

LEMMA AlwaysTyped == Spec => []TypeInv
  <1> QED
    BY InitTyped, StepTyped, PTL DEF Spec

\* Every variable stays in its type, however many builds, cleanups and deploys
\* are in flight and whatever fails: in particular a build only ever installs
\* into a directory that some build was asked for.
THEOREM InstallsTyped == Spec => []InstallsTypeOK
  <1>1. TypeInv => InstallsTypeOK
    BY DEF TypeInv
  <1> QED
    BY <1>1, AlwaysTyped, PTL

-----------------------------------------------------------------------------
\* What is compiled is what upstream published

\* From the moment it is fetched, or verified, until it is extracted, a
\* tarball with a published checksum is the one upstream published.
Vetted(b) ==
  Building(b) /\ job[b].ver \notin Unsigned =>
    /\ job[b].at = "fetch.tar" => job[b].want
    /\ job[b].at \in {"store.sum", "clean", "extract"} =>
         cache[job[b].ver].tar = "good"

GenuineInv == SourceIsGenuine /\ \A b \in Builders : Vetted(b)

\* What a step of b does to b, told apart from what it does to the others.
LEMMA Gone ==
  ASSUME TypeInv, NEW b \in Builders, NEW point, Go(b, point)
  PROVE  /\ job'[b].at = point /\ job'[b].ver = job[b].ver
         /\ job'[b].prefix = job[b].prefix
         /\ job'[b].want = job[b].want /\ job'[b].alone = job[b].alone
         /\ \A o \in Builders \ {b} : job'[o] = job[o]
  <1>1. job \in [Builders -> Job] /\ job[b] \in Job
    BY DEF TypeInv, InstallsTypeOK
  <1> QED
    BY <1>1 DEF Go, Job

LEMMA Returned ==
  ASSUME TypeInv, NEW b \in Builders, NEW outcome \in Ends, Return(b, outcome)
  PROVE  /\ ~Building(b)' /\ job'[b].at = outcome
         /\ \A o \in Builders \ {b} : job'[o] = job[o]
  <1>1. job \in [Builders -> Job]
    BY DEF TypeInv, InstallsTypeOK
  <1> QED
    BY <1>1 DEF Return, Building, NoJob

LEMMA GoesVetted ==
  ASSUME TypeInv, NEW b \in Builders, NEW point, Go(b, point),
         point # "fetch.tar",
         point \in {"store.sum", "clean", "extract"} =>
           job[b].ver \in Unsigned \/ cache'[job[b].ver].tar = "good"
  PROVE  Vetted(b)' /\ \A o \in Builders \ {b} : job'[o] = job[o]
  BY Gone DEF Vetted

LEMMA ReturnsVetted ==
  ASSUME TypeInv, NEW b \in Builders, NEW outcome \in Ends, Return(b, outcome)
  PROVE  Vetted(b)' /\ \A o \in Builders \ {b} : job'[o] = job[o]
  BY Returned DEF Vetted

\* A build that leaves what others have verified as it is, and its own source
\* tree genuine.
LEMMA StaysGenuine ==
  ASSUME TypeInv, GenuineInv, NEW b \in Builders,
         \A o \in Builders \ {b} : job'[o] = job[o],
         \A w \in Versions \ Unsigned :
           cache[w].tar = "good" => cache'[w].tar = "good",
         \A w \in Versions \ Unsigned : tree'[w] # None => tree'[w].good,
         Vetted(b)'
  PROVE  GenuineInv'
  <1>1. ASSUME NEW o \in Builders PROVE Vetted(o)'
    <2>1. CASE o = b
      BY <2>1
    <2>2. CASE o # b
      <3>1. job'[o] = job[o]
        BY <2>2
      <3>2. Vetted(o) /\ Grounded(job[o])
        BY DEF GenuineInv, TypeInv
      <3> QED
        BY <3>1, <3>2 DEF Vetted, Building, Grounded
    <2> QED
      BY <2>1, <2>2
  <1> QED
    BY <1>1 DEF GenuineInv, SourceIsGenuine

\* Steps that touch neither the cache nor the source trees.
LEMMA PassesOn ==
  ASSUME TypeInv, GenuineInv, NEW b \in Builders, Building(b),
         UNCHANGED <<tree, cache>>,
         \/ Return(b, "fail")
         \/ \E point \in BuildPoints \ {"fetch.tar", "store.sum", "clean", "extract"} :
              Go(b, point)
  PROVE  GenuineInv'
  <1>1. Vetted(b)' /\ \A o \in Builders \ {b} : job'[o] = job[o]
    BY GoesVetted, ReturnsVetted DEF Ends
  <1> QED
    BY <1>1, StaysGenuine DEF GenuineInv, SourceIsGenuine

LEMMA BuildStepGenuine ==
  ASSUME TypeInv, GenuineInv, NEW b \in Builders, BuildStep(b)
  PROVE  GenuineInv'
  <1> DEFINE v == job[b].ver
             Sound == \A w \in Versions \ Unsigned : tree[w] # None => tree[w].good
  <1>0. /\ Sound /\ Vetted(b) /\ "fail" \in Ends /\ "ok" \in Ends
    BY DEF GenuineInv, SourceIsGenuine, Ends
  <1>1. CASE RemoveInstall(b)
    <2>1. At(b, "rm") /\ "rm" \in BuildPoints
      BY <1>1 DEF RemoveInstall, BuildPoints
    <2>2. UNCHANGED <<tree, cache>> /\ (Go(b, "cached") \/ Return(b, "fail"))
      BY <1>1 DEF RemoveInstall
    <2> QED
      BY <2>1, <2>2, Standing, PassesOn DEF BuildPoints
  <1>2. CASE LookInCache(b)
    <2>1. At(b, "cached") /\ "cached" \in BuildPoints
      BY <1>2 DEF LookInCache, BuildPoints
    <2>2. UNCHANGED <<tree, cache>> /\ (Go(b, "fetch.sum") \/ Go(b, "verify"))
      BY <1>2 DEF LookInCache
    <2> QED
      BY <2>1, <2>2, Standing, PassesOn DEF BuildPoints
  <1>3. CASE VerifyCached(b)
    <2>1. At(b, "verify") /\ "verify" \in BuildPoints
      BY <1>3 DEF VerifyCached, BuildPoints
    <2>2. UNCHANGED <<tree, cache>>
      BY <1>3 DEF VerifyCached
    <2>3. CASE Return(b, "fail")
      BY <2>1, <2>2, <2>3, Standing, PassesOn
    <2>4. CASE /\ Go(b, "clean") \/ Go(b, "store.sum")
               /\ v \in Unsigned \/ cache[v].tar = "good"
      <3>1. Vetted(b)' /\ \A o \in Builders \ {b} : job'[o] = job[o]
        BY <2>2, <2>4, GoesVetted
      <3> QED
        BY <1>0, <2>2, <3>1, StaysGenuine
    <2> QED
      BY <1>3, <2>3, <2>4 DEF VerifyCached
  <1>4. CASE FetchSum(b)
    <2>1. At(b, "fetch.sum") /\ "fetch.sum" \in BuildPoints
      BY <1>4 DEF FetchSum, BuildPoints
    <2>2. UNCHANGED <<tree, cache>>
      BY <1>4 DEF FetchSum, Fails
    <2>3. CASE Return(b, "fail")
      BY <2>1, <2>2, <2>3, Standing, PassesOn
    <2>4. CASE job' = [job EXCEPT ![b].want = v \notin Unsigned, ![b].at = "fetch.tar"]
      <3> DEFINE k == [job[b] EXCEPT !.want = v \notin Unsigned, !.at = "fetch.tar"]
      <3>1. k.at = "fetch.tar" /\ k.ver = v /\ k.want = (v \notin Unsigned)
        BY <2>1, Standing DEF Job
      <3>2. job' = [job EXCEPT ![b] = k] /\ job \in [Builders -> Job]
        BY <2>4 DEF TypeInv, InstallsTypeOK
      <3> HIDE DEF k
      <3>3. Vetted(b)' /\ \A o \in Builders \ {b} : job'[o] = job[o]
        BY <3>1, <3>2 DEF Vetted
      <3> QED
        BY <1>0, <2>2, <3>3, StaysGenuine
    <2> QED
      BY <1>4, <2>3, <2>4 DEF FetchSum, Fails
  <1>5. CASE FetchTarball(b)
    <2>1. At(b, "fetch.tar") /\ "fetch.tar" \in BuildPoints
      BY <1>5 DEF FetchTarball, BuildPoints
    <2>2. v \in Versions /\ cache \in [Versions -> Cache] /\ UNCHANGED tree
      BY <1>5, <2>1, Standing DEF FetchTarball, Fails
    <2>3. CASE UNCHANGED cache /\ Return(b, "fail")
      BY <2>1, <2>2, <2>3, Standing, PassesOn
    <2>4. ASSUME NEW got \in {"good", "bad"}, ~(job[b].want /\ got = "bad"),
                 cache' = [cache EXCEPT ![v].tar = got],
                 Go(b, "store.sum") \/ Go(b, "clean")
          PROVE  GenuineInv'
      <3>1. v \notin Unsigned => got = "good"
        BY <1>0, <2>1, <2>4, Standing DEF Vetted, At
      <3>2. \A w \in Versions \ Unsigned :
              cache[w].tar = "good" => cache'[w].tar = "good"
        BY <2>2, <2>4, <3>1 DEF Cache
      <3>3. v \notin Unsigned => cache'[v].tar = "good"
        BY <2>2, <2>4, <3>1 DEF Cache
      <3>4. Vetted(b)' /\ \A o \in Builders \ {b} : job'[o] = job[o]
        BY <2>4, <3>3, GoesVetted
      <3> QED
        BY <1>0, <2>2, <3>2, <3>4, StaysGenuine
    <2>5. \/ UNCHANGED cache /\ Return(b, "fail")
          \/ \E got \in {"good", "bad"} :
               /\ ~(job[b].want /\ got = "bad")
               /\ cache' = [cache EXCEPT ![v].tar = got]
               /\ Go(b, "store.sum") \/ Go(b, "clean")
      BY <1>5 DEF FetchTarball, Fails
    <2> QED
      BY <2>3, <2>4, <2>5
  <1>6. CASE StoreSum(b)
    <2>1. At(b, "store.sum") /\ "store.sum" \in BuildPoints
      BY <1>6 DEF StoreSum, BuildPoints
    <2>2. Go(b, "clean") /\ UNCHANGED tree
      BY <1>6 DEF StoreSum
    <2>3. \E sum : cache' = [cache EXCEPT ![v].sum = sum]
      BY <1>6 DEF StoreSum
    <2>4. \A w \in Versions : cache'[w].tar = cache[w].tar
      BY <2>1, <2>3, Standing DEF Cache
    <2>6. v \in Versions /\ (v \in Unsigned \/ cache[v].tar = "good")
      BY <1>0, <2>1, Standing DEF Vetted, At
    <2>5. Vetted(b)' /\ \A o \in Builders \ {b} : job'[o] = job[o]
      BY <2>2, <2>4, <2>6, GoesVetted
    <2> QED
      BY <1>0, <2>2, <2>4, <2>5, StaysGenuine
  <1>7. CASE CleanTree(b)
    <2>1. At(b, "clean") /\ "clean" \in BuildPoints
      BY <1>7 DEF CleanTree, BuildPoints
    <2>2. /\ Go(b, "extract") \/ Return(b, "fail")
          /\ UNCHANGED cache
          /\ \/ tree' = [tree EXCEPT ![v] = None]
             \/ tree[v] # None /\ tree' = [tree EXCEPT ![v].whole = FALSE]
      BY <1>7 DEF CleanTree
    <2>3. \A w \in Versions \ Unsigned : tree'[w] # None => tree'[w].good
      BY <1>0, <2>1, <2>2, Standing DEF Source
    <2>4. Vetted(b)' /\ \A o \in Builders \ {b} : job'[o] = job[o]
      <3>1. v \in Unsigned \/ cache'[v].tar = "good"
        BY <1>0, <2>1, <2>2, Standing DEF Vetted, At
      <3> QED
        BY <1>0, <2>2, <3>1, GoesVetted, ReturnsVetted
    <2> QED
      BY <2>2, <2>3, <2>4, StaysGenuine
  <1>8. CASE Extract(b)
    <2>1. At(b, "extract") /\ "extract" \in BuildPoints
      BY <1>8 DEF Extract, BuildPoints
    <2>2. v \notin Unsigned => cache[v].tar = "good"
      BY <1>0, <2>1, Standing DEF Vetted, At
    <2>3. UNCHANGED cache /\ (Go(b, "configure") \/ Return(b, "fail"))
      BY <1>8 DEF Extract
    <2> DEFINE new(whole) == [whole |-> whole, good |-> cache[v].tar = "good",
                              prefix |-> IF tree[v] = None THEN None
                                         ELSE tree[v].prefix]
    <2>4. \/ UNCHANGED tree
          \/ \E whole \in BOOLEAN : tree' = [tree EXCEPT ![v] = new(whole)]
      BY <1>8 DEF Extract
    <2>7. v \notin Unsigned => \A whole : new(whole).good
      BY <2>2
    <2> HIDE DEF new
    <2>5. \A w \in Versions \ Unsigned : tree'[w] # None => tree'[w].good
      BY <1>0, <2>1, <2>4, <2>7, Standing
    <2>6. Vetted(b)' /\ \A o \in Builders \ {b} : job'[o] = job[o]
      BY <1>0, <2>3, GoesVetted, ReturnsVetted
    <2> QED
      BY <2>3, <2>5, <2>6, StaysGenuine
  <1>9. CASE Configure(b)
    <2>1. At(b, "configure") /\ "configure" \in BuildPoints
      BY <1>9 DEF Configure, BuildPoints
    <2>2. UNCHANGED cache /\ (Go(b, "make") \/ Return(b, "fail"))
      BY <1>9 DEF Configure
    <2>3. \/ UNCHANGED tree
          \/ tree[v] # None /\ tree' = [tree EXCEPT ![v].prefix = job[b].prefix]
      BY <1>9 DEF Configure, Ready
    <2>4. \A w \in Versions \ Unsigned : tree'[w] # None => tree'[w].good
      <3>1. ASSUME NEW w \in Versions \ Unsigned, tree'[w] # None PROVE tree'[w].good
        <4>1. tree[w] # None
          BY <2>1, <2>3, <3>1, Standing
        <4>2. tree[w] \in Source /\ tree[w].good
          BY <1>0, <2>1, <4>1, Standing
        <4> QED
          BY <2>1, <2>3, <4>2, Standing DEF Source
      <3> QED
        BY <3>1
    <2>5. Vetted(b)' /\ \A o \in Builders \ {b} : job'[o] = job[o]
      BY <1>0, <2>2, GoesVetted, ReturnsVetted
    <2> QED
      BY <2>2, <2>4, <2>5, StaysGenuine
  <1>10. ASSUME NEW point \in BuildPoints, NEW next \in {"install", "contrib.install"},
                Make(b, point, next)
         PROVE  GenuineInv'
    <2>1. (Go(b, next) \/ Return(b, "fail")) /\ UNCHANGED <<tree, cache>> /\ At(b, point)
      BY <1>10 DEF Make
    <2> QED
      BY <2>1, Standing, PassesOn DEF BuildPoints
  <1>11. ASSUME NEW point \in BuildPoints, NEW part,
                NEW next \in {"contrib.make", "tidy"}, MakeInstall(b, point, part, next)
         PROVE  GenuineInv'
    <2>1. (Go(b, next) \/ Return(b, "fail")) /\ UNCHANGED <<tree, cache>> /\ At(b, point)
      BY <1>11 DEF MakeInstall
    <2> QED
      BY <2>1, Standing, PassesOn DEF BuildPoints
  <1>12. CASE Tidy(b)
    <2>1. At(b, "tidy") /\ "tidy" \in BuildPoints
      BY <1>12 DEF Tidy, BuildPoints
    <2>2. Return(b, "ok") /\ UNCHANGED cache /\ tree' = [tree EXCEPT ![v] = None]
      BY <1>12 DEF Tidy
    <2>3. \A w \in Versions \ Unsigned : tree'[w] # None => tree'[w].good
      BY <1>0, <2>1, <2>2, Standing
    <2>4. Vetted(b)' /\ \A o \in Builders \ {b} : job'[o] = job[o]
      BY <1>0, <2>2, GoesVetted, ReturnsVetted
    <2> QED
      BY <2>2, <2>3, <2>4, StaysGenuine
  <1> QED
    BY <1>1, <1>2, <1>3, <1>4, <1>5, <1>6, <1>7, <1>8, <1>9, <1>10, <1>11, <1>12
    DEF BuildStep, ContribInstall, BuildPoints

\* Whatever else happens leaves the builds in flight, and the caches of their
\* versions, alone.
LEMMA StepGenuine == TypeInv /\ GenuineInv /\ [Next]_vars => GenuineInv'
  <1> SUFFICES ASSUME TypeInv, GenuineInv, [Next]_vars PROVE GenuineInv'
    OBVIOUS
  <1>1. ASSUME UNCHANGED <<tree, job>>,
               \A b \in Builders : Building(b) => cache'[job[b].ver] = cache[job[b].ver]
        PROVE  GenuineInv'
    BY <1>1 DEF GenuineInv, SourceIsGenuine, Vetted, Building
  <1>2. ASSUME NEW b \in Builders, BeginBuild(b) PROVE GenuineInv'
    <2>1. UNCHANGED <<tree, cache>> /\ job'[b].at \in {"cached", "rm"}
      BY <1>2 DEF BeginBuild
    <2>2. ASSUME NEW o \in Builders, o # b
          PROVE  /\ job'[o].at = job[o].at /\ job'[o].ver = job[o].ver
                 /\ job'[o].want = job[o].want
      <3>1. job'[o] = [job[o] EXCEPT !.alone = FALSE] /\ job[o] \in Job
        BY <1>2, <2>2 DEF BeginBuild, TypeInv, InstallsTypeOK
      <3> QED
        BY <3>1 DEF Job
    <2> QED
      BY <2>1, <2>2 DEF GenuineInv, SourceIsGenuine, Vetted, Building
  <1>3. ASSUME NEW b \in Builders, KillBuild(b) PROVE GenuineInv'
    BY <1>3, PassesOn DEF KillBuild
  <1>4. CASE BeginCleanup
    <2>1. UNCHANGED <<tree, cache>>
      BY <1>4 DEF BeginCleanup, Quiet
    <2>2. ASSUME NEW o \in Builders
          PROVE  /\ job'[o].at = job[o].at /\ job'[o].ver = job[o].ver
                 /\ job'[o].want = job[o].want
      <3>1. job'[o] = [job[o] EXCEPT !.alone = FALSE] /\ job[o] \in Job
        BY <1>4 DEF BeginCleanup, TypeInv, InstallsTypeOK
      <3> QED
        BY <3>1 DEF Job
    <2> QED
      BY <2>1, <2>2 DEF GenuineInv, SourceIsGenuine, Vetted, Building
  <1>5. CASE CleanupStep \/ KillCleanup
    BY <1>1, <1>5 DEF CleanupStep, WalkAndPlan, Confirm, Recheck, RemoveUnused,
       FinishCleanup, KillCleanup, Quiet
  <1>6. CASE \E s \in Boxes : BeginDeploy(s) \/ FinishDeploy(s) \/ DestroyBox(s)
    BY <1>1, <1>6 DEF BeginDeploy, FinishDeploy, DestroyBox, Machine
  <1>7. CASE Relink
    BY <1>1, <1>7 DEF Relink, Machine
  <1>8. CASE EmptyCache
    <2>1. PICK v \in Versions :
            /\ \A b \in Builders : Building(b) => job[b].ver # v
            /\ cache' = [cache EXCEPT ![v] = [tar |-> "none", sum |-> "none"]]
            /\ UNCHANGED <<tree, job>>
      BY <1>8 DEF EmptyCache
    <2> QED
      BY <1>1, <2>1 DEF TypeInv, InstallsTypeOK, Grounded, Building
  <1>9. CASE Corrupt
    <2>1. PICK v \in Versions :
            /\ \A b \in Builders : Building(b) => job[b].ver # v
            /\ cache' = [cache EXCEPT ![v].tar = "bad"]
            /\ UNCHANGED <<tree, job>>
      BY <1>9 DEF Corrupt
    <2> QED
      BY <1>1, <2>1 DEF TypeInv, InstallsTypeOK, Grounded, Building
  <1>10. CASE UNCHANGED vars
    BY <1>1, <1>10 DEF vars
  <1> QED
    BY <1>2, <1>3, <1>4, <1>5, <1>6, <1>7, <1>8, <1>9, <1>10, BuildStepGenuine
    DEF Next

\* Nothing is compiled from bytes that upstream's checksum does not match,
\* where it publishes one: however many builds share the cache and the source
\* trees, and whatever the network, the disk and kills do to them.
THEOREM GenuineSource == Spec => []SourceIsGenuine
  <1>1. Init => GenuineInv
    BY DEF Init, GenuineInv, SourceIsGenuine, Vetted, Building, NoJob, Ends
  <1>2. GenuineInv => SourceIsGenuine
    BY DEF GenuineInv
  <1> QED
    BY <1>1, <1>2, StepGenuine, AlwaysTyped, PTL DEF Spec

-----------------------------------------------------------------------------
\* A build that was alone and exits 0 has installed everything

\* What is behind a build that has been alone since it began: its source tree is
\* configured for its directory, and what it reports installed is there.  The
\* others are in no state to interfere.
Undisturbed(b) ==
  LET v == job[b].ver
      p == job[b].prefix IN
  Building(b) /\ job[b].alone =>
    /\ ~Cleaning /\ \A o \in Builders \ {b} : ~Building(o)
    /\ job[b].at \in {"make", "install", "contrib.make", "contrib.install", "tidy"} =>
         tree[v] # None /\ tree[v].whole /\ tree[v].prefix = p
    /\ job[b].at \in {"contrib.make", "contrib.install"} =>
         inst[p] # None /\ "server" \in inst[p].parts
    /\ job[b].at = "tidy" => inst[p] = [ver |-> v, parts |-> Parts]

AloneInv == \A b \in Builders : Undisturbed(b)

\* A step of a build disturbs no other that is alone, since there is none.
LEMMA DisturbsNone ==
  ASSUME TypeInv, AloneInv, NEW b \in Builders, Building(b),
         \A o \in Builders \ {b} : job'[o] = job[o], Undisturbed(b)'
  PROVE  AloneInv'
  <1>1. ASSUME NEW o \in Builders PROVE Undisturbed(o)'
    <2>1. CASE o = b
      BY <2>1
    <2>2. CASE o # b
      <3>1. job'[o] = job[o] /\ Undisturbed(o) /\ Building(b)
        BY <2>2 DEF AloneInv
      <3>2. ~(Building(o) /\ job[o].alone)
        BY <2>2, <3>1 DEF Undisturbed
      <3> QED
        BY <3>1, <3>2 DEF Undisturbed, Building
    <2> QED
      BY <2>1, <2>2
  <1> QED
    BY <1>1 DEF AloneInv

LEMMA ReturnsAlone ==
  ASSUME TypeInv, AloneInv, NEW b \in Builders, Building(b),
         NEW outcome \in Ends, Return(b, outcome)
  PROVE  AloneInv'
  <1>1. Undisturbed(b)' /\ \A o \in Builders \ {b} : job'[o] = job[o]
    BY Returned DEF Undisturbed
  <1> QED
    BY <1>1, DisturbsNone

\* A step on, when what lies behind it is there.
LEMMA GoesAlone ==
  ASSUME TypeInv, AloneInv, NEW b \in Builders, Building(b), UNCHANGED clean,
         NEW point, Go(b, point),
         job[b].alone /\ point \in {"make", "install", "contrib.make",
                                    "contrib.install", "tidy"} =>
           /\ tree'[job[b].ver] # None /\ tree'[job[b].ver].whole
           /\ tree'[job[b].ver].prefix = job[b].prefix,
         job[b].alone /\ point \in {"contrib.make", "contrib.install"} =>
           /\ inst'[job[b].prefix] # None
           /\ "server" \in inst'[job[b].prefix].parts,
         job[b].alone /\ point = "tidy" =>
           inst'[job[b].prefix] = [ver |-> job[b].ver, parts |-> Parts]
  PROVE  AloneInv'
  <1>1. /\ job'[b].at = point /\ job'[b].ver = job[b].ver
        /\ job'[b].prefix = job[b].prefix /\ job'[b].alone = job[b].alone
        /\ \A o \in Builders \ {b} : job'[o] = job[o]
    BY Gone
  <1>2. job[b].alone => ~Cleaning /\ \A o \in Builders \ {b} : ~Building(o)
    BY DEF AloneInv, Undisturbed
  <1>3. job'[b].alone => ~Cleaning' /\ \A o \in Builders \ {b} : ~Building(o)'
    BY <1>1, <1>2 DEF Cleaning, Building
  <1>4. Undisturbed(b)'
    BY <1>1, <1>3 DEF Undisturbed
  <1> QED
    BY <1>1, <1>4, DisturbsNone

LEMMA BuildStepAlone ==
  ASSUME TypeInv, AloneInv, NEW b \in Builders, BuildStep(b)
  PROVE  AloneInv'
  <1> DEFINE v == job[b].ver
             p == job[b].prefix
  <1>0. "fail" \in Ends /\ "ok" \in Ends /\ Undisturbed(b)
    BY DEF Ends, AloneInv
  <1>1. ASSUME NEW point \in BuildPoints, At(b, point),
               NEW next \in {"cached", "fetch.sum", "verify", "fetch.tar",
                             "store.sum", "clean", "extract", "configure"},
               Go(b, next) \/ Return(b, "fail")
        PROVE  AloneInv'
    BY <1>0, <1>1, Standing, GoesAlone, ReturnsAlone
  <1>2. CASE RemoveInstall(b)
    BY <1>1, <1>2 DEF RemoveInstall, BuildPoints
  <1>3. CASE LookInCache(b)
    <2>1. Go(b, "fetch.sum") \/ Go(b, "verify")
      BY <1>3 DEF LookInCache
    <2> QED
      BY <1>1, <1>3, <2>1 DEF LookInCache, BuildPoints
  <1>4. CASE VerifyCached(b)
    <2>1. Go(b, "clean") \/ Go(b, "store.sum") \/ Return(b, "fail")
      BY <1>4 DEF VerifyCached
    <2> QED
      BY <1>1, <1>4, <2>1 DEF VerifyCached, BuildPoints
  <1>5. CASE FetchSum(b)
    <2>1. At(b, "fetch.sum") /\ "fetch.sum" \in BuildPoints
      BY <1>5 DEF FetchSum, BuildPoints
    <2>2. CASE Return(b, "fail")
      BY <1>0, <2>1, <2>2, Standing, ReturnsAlone
    <2>3. CASE job' = [job EXCEPT ![b].want = v \notin Unsigned, ![b].at = "fetch.tar"]
      <3> DEFINE k == [job[b] EXCEPT !.want = v \notin Unsigned, !.at = "fetch.tar"]
      <3>1. k.at = "fetch.tar" /\ k.alone = job[b].alone
        BY <2>1, Standing DEF Job
      <3>2. job' = [job EXCEPT ![b] = k] /\ job \in [Builders -> Job]
        BY <2>3 DEF TypeInv, InstallsTypeOK
      <3> HIDE DEF k
      <3>3. \A o \in Builders \ {b} : job'[o] = job[o]
        BY <3>2
      <3>4. job'[b] = k /\ Building(b) /\ UNCHANGED clean
        BY <2>1, <3>2, Standing
      <3>5. job[b].alone => ~Cleaning' /\ \A o \in Builders \ {b} : ~Building(o)'
        BY <1>0, <3>3, <3>4 DEF Undisturbed, Cleaning, Building
      <3>6. Undisturbed(b)'
        BY <3>1, <3>4, <3>5 DEF Undisturbed
      <3> QED
        BY <3>3, <3>4, <3>6, DisturbsNone
    <2> QED
      BY <1>5, <2>2, <2>3 DEF FetchSum, Fails
  <1>6. CASE FetchTarball(b)
    <2>1. Go(b, "store.sum") \/ Go(b, "clean") \/ Return(b, "fail")
      BY <1>6 DEF FetchTarball, Fails
    <2> QED
      BY <1>1, <1>6, <2>1 DEF FetchTarball, BuildPoints
  <1>7. CASE StoreSum(b)
    BY <1>1, <1>7 DEF StoreSum, BuildPoints
  <1>8. CASE CleanTree(b)
    <2>1. Go(b, "extract") \/ Return(b, "fail")
      BY <1>8 DEF CleanTree
    <2> QED
      BY <1>1, <1>8, <2>1 DEF CleanTree, BuildPoints
  <1>9. CASE Extract(b)
    <2>1. Go(b, "configure") \/ Return(b, "fail")
      BY <1>9 DEF Extract
    <2> QED
      BY <1>1, <1>9, <2>1 DEF Extract, BuildPoints
  <1>10. CASE Configure(b)
    <2>1. At(b, "configure") /\ "configure" \in BuildPoints
      BY <1>10 DEF Configure, BuildPoints
    <2>2. CASE Return(b, "fail")
      BY <1>0, <2>1, <2>2, Standing, ReturnsAlone
    <2>3. CASE Ready(v) /\ Go(b, "make") /\ tree' = [tree EXCEPT ![v].prefix = p]
      <3>1. /\ tree[v] \in Source /\ tree[v].whole /\ v \in Versions /\ p \in Prefixes
            /\ tree \in [Versions -> Source \cup {None}]
        BY <2>1, <2>3, Standing DEF Ready
      <3> DEFINE new == [tree[v] EXCEPT !.prefix = p]
      <3>2. new \in Source /\ new.whole /\ new.prefix = p
        BY <3>1 DEF Source
      <3>3. tree' = [tree EXCEPT ![v] = new]
        BY <2>3
      <3> HIDE DEF new
      <3>4. tree'[v] # None /\ tree'[v].whole /\ tree'[v].prefix = p
        BY <3>1, <3>2, <3>3, NoneAssumption
      <3>5. Building(b) /\ UNCHANGED clean
        BY <2>1, Standing
      <3> QED
        BY <2>3, <3>4, <3>5, GoesAlone
    <2> QED
      BY <1>10, <2>2, <2>3 DEF Configure
  <1>11. ASSUME NEW point, NEW next, Make(b, point, next),
                <<point, next>> \in {<<"make", "install">>,
                                     <<"contrib.make", "contrib.install">>}
         PROVE  AloneInv'
    <2>1. /\ At(b, point) /\ point \in {"make", "contrib.make"}
          /\ point = "make" => next = "install"
          /\ point = "contrib.make" => next = "contrib.install"
          /\ UNCHANGED <<inst, tree>>
      BY <1>11 DEF Make
    <2>2. point \in BuildPoints
      BY <2>1 DEF BuildPoints
    <2>3. CASE Return(b, "fail")
      BY <1>0, <2>1, <2>2, <2>3, Standing, ReturnsAlone
    <2>4. CASE Go(b, next)
      <3>1. /\ job[b].alone => tree[v] # None /\ tree[v].whole /\ tree[v].prefix = p
            /\ job[b].alone /\ next = "contrib.install" =>
                 inst[p] # None /\ "server" \in inst[p].parts
        BY <1>0, <2>1, <2>2, Standing DEF Undisturbed, At
      <3> QED
        BY <2>1, <2>2, <2>4, <3>1, Standing, GoesAlone
    <2> QED
      BY <1>11, <2>3, <2>4 DEF Make
  <1>12. ASSUME NEW point, NEW part, NEW next, MakeInstall(b, point, part, next),
                <<point, part, next>> \in
                  {<<"install", "server", "contrib.make">>,
                   <<"contrib.install", "contrib", "tidy">>}
         PROVE  AloneInv'
    <2>1. /\ At(b, point) /\ point \in {"install", "contrib.install"}
          /\ point = "install" => part = "server" /\ next = "contrib.make"
          /\ point = "contrib.install" => part = "contrib" /\ next = "tidy"
          /\ UNCHANGED tree
      BY <1>12 DEF MakeInstall
    <2>2. point \in BuildPoints
      BY <2>1 DEF BuildPoints
    <2>3. CASE Return(b, "fail")
      BY <1>0, <2>1, <2>2, <2>3, Standing, ReturnsAlone
    <2>4. CASE Go(b, next) /\ ~Return(b, "fail")
      <3> DEFINE q == tree[v].prefix
                 old == IF inst[q] = None THEN {} ELSE inst[q].parts
                 new == [ver |-> v, parts |-> old \cup {part}]
      <3>1. inst' = [inst EXCEPT ![q] = new]
        BY <1>12, <2>4 DEF MakeInstall
      <3>2. job[b].alone => /\ tree[v] # None /\ tree[v].whole /\ q = p
                            /\ point = "contrib.install" => "server" \in old
        BY <1>0, <2>1, <2>2, Standing DEF Undisturbed, At
      <3>3. p \in Prefixes /\ (job[b].alone => old \subseteq Parts)
        BY <2>1, <2>2, <3>2, Standing DEF Install
      <3> HIDE DEF old
      <3>4. /\ job[b].alone => "server" \in new.parts
            /\ job[b].alone /\ next = "tidy" => new = [ver |-> v, parts |-> Parts]
        BY <2>1, <3>2, <3>3 DEF Parts
      <3>5. v \in Versions /\ job[b].alone => inst'[p] = new
        BY <2>1, <2>2, <3>1, <3>2, <3>3, Standing
      <3>6. v \in Versions /\ Building(b) /\ UNCHANGED clean
        BY <2>1, <2>2, Standing
      <3>7. part \in Parts
        BY <2>1 DEF Parts
      <3>8. job[b].alone => new \in Install
        BY <3>3, <3>6, <3>7 DEF Install
      <3>9. job[b].alone => new # None
        BY <3>8, NoneAssumption
      <3> HIDE DEF new
      <3> QED
        BY <2>1, <2>4, <3>2, <3>4, <3>5, <3>6, <3>9, GoesAlone
    <2> QED
      BY <1>12, <2>3, <2>4 DEF MakeInstall
  <1>13. CASE Tidy(b)
    <2>1. At(b, "tidy") /\ "tidy" \in BuildPoints /\ Return(b, "ok")
      BY <1>13 DEF Tidy, BuildPoints
    <2> QED
      BY <1>0, <2>1, Standing, ReturnsAlone
  <1> QED
    BY <1>2, <1>3, <1>4, <1>5, <1>6, <1>7, <1>8, <1>9, <1>10, <1>11, <1>12, <1>13
    DEF BuildStep, ContribInstall

\* The rest of the system begins no cleanup and no build that a build would not
\* hear of, and touches no install while a build is alone.
LEMMA StepAlone == TypeInv /\ AloneInv /\ [Next]_vars => AloneInv'
  <1> SUFFICES ASSUME TypeInv, AloneInv, [Next]_vars PROVE AloneInv'
    OBVIOUS
  <1>1. ASSUME UNCHANGED <<inst, tree, job>>, Cleaning' => Cleaning
        PROVE  AloneInv'
    BY <1>1 DEF AloneInv, Undisturbed, Building
  <1>2. ASSUME NEW b \in Builders, BeginBuild(b) PROVE AloneInv'
    <2>1. /\ UNCHANGED clean
          /\ job'[b].at \in {"cached", "rm"}
          /\ job'[b].alone = (~Cleaning /\ \A o \in Builders : ~Building(o))
      BY <1>2 DEF BeginBuild
    <2>2. ASSUME NEW o \in Builders, o # b
          PROVE  job'[o].at = job[o].at /\ ~job'[o].alone
      <3>1. job'[o] = [job[o] EXCEPT !.alone = FALSE] /\ job[o] \in Job
        BY <1>2, <2>2 DEF BeginBuild, TypeInv, InstallsTypeOK
      <3> QED
        BY <3>1 DEF Job
    <2>3. Undisturbed(b)'
      BY <2>1, <2>2 DEF Undisturbed, Building, Cleaning
    <2>4. \A o \in Builders \ {b} : Undisturbed(o)'
      BY <2>2 DEF Undisturbed
    <2> QED
      BY <2>3, <2>4 DEF AloneInv
  <1>3. ASSUME NEW b \in Builders, KillBuild(b) PROVE AloneInv'
    BY <1>3, ReturnsAlone DEF KillBuild, Ends
  <1>4. CASE BeginCleanup
    <2>1. ASSUME NEW o \in Builders PROVE ~job'[o].alone
      <3>1. job'[o] = [job[o] EXCEPT !.alone = FALSE] /\ job[o] \in Job
        BY <1>4 DEF BeginCleanup, TypeInv, InstallsTypeOK
      <3> QED
        BY <3>1 DEF Job
    <2> QED
      BY <2>1 DEF AloneInv, Undisturbed
  <1>5. CASE CleanupStep \/ KillCleanup
    <2>1. Cleaning /\ UNCHANGED job
      BY <1>5 DEF CleanupStep, WalkAndPlan, Confirm, Recheck, RemoveUnused,
         FinishCleanup, KillCleanup, Cleaning, Ends, Quiet
    <2> QED
      BY <2>1 DEF AloneInv, Undisturbed, Building
  <1>6. CASE \E s \in Boxes : BeginDeploy(s) \/ FinishDeploy(s)
    BY <1>1, <1>6 DEF BeginDeploy, FinishDeploy, Machine, Cleaning
  <1>7. ASSUME NEW s \in Boxes, DestroyBox(s) PROVE AloneInv'
    <2>1. clean'.at = clean.at
      BY <1>7 DEF DestroyBox, TypeInv, InstallsTypeOK, Cleanup
    <2> QED
      BY <1>1, <1>7, <2>1 DEF DestroyBox, Machine, Cleaning
  <1>8. CASE Relink \/ EmptyCache \/ Corrupt
    BY <1>1, <1>8 DEF Relink, EmptyCache, Corrupt, Machine, Cleaning
  <1>9. CASE UNCHANGED vars
    BY <1>1, <1>9 DEF vars, Cleaning
  <1> QED
    BY <1>2, <1>3, <1>4, <1>5, <1>6, <1>7, <1>8, <1>9, BuildStepAlone DEF Next

\* A build that nothing has crossed since it began exits 0 only with its whole
\* version in its directory, contrib included, whatever earlier builds have left
\* in the cache, in the source tree and in the directory.
THEOREM BuildOkIsWhole == Spec => BuildOkMeansInstalled
  <1>1. Init => AloneInv
    BY DEF Init, AloneInv, Undisturbed, Building, NoJob, Ends
  <1>2. TypeInv /\ AloneInv /\ [Next]_vars =>
          (\A b \in Builders :
             Building(b) /\ job'[b].at = "ok" /\ job[b].alone =>
               inst'[job[b].prefix] = [ver |-> job[b].ver, parts |-> Parts])
    <2> SUFFICES ASSUME TypeInv, AloneInv, [Next]_vars, NEW b \in Builders,
                        Building(b), job'[b].at = "ok", job[b].alone
                 PROVE  inst'[job[b].prefix] = [ver |-> job[b].ver, parts |-> Parts]
      OBVIOUS
    <2>1. job[b] \in Job /\ job[b].at # "ok" /\ "fail" \in Ends /\ "ok" \in Ends
      BY DEF TypeInv, InstallsTypeOK, Building, Ends
    <2>2. job'[b] # job[b] /\ job'[b].at # job[b].at
      BY <2>1
    <2>3. ~BeginCleanup
      <3>1. BeginCleanup => job'[b] = [job[b] EXCEPT !.alone = FALSE]
        BY DEF BeginCleanup
      <3> QED
        BY <2>1, <2>2, <3>1 DEF Job
    <2>4. \A o \in Builders : ~BeginBuild(o)
      <3>1. ASSUME NEW o \in Builders, BeginBuild(o)
            PROVE  job'[b] = [job[b] EXCEPT !.alone = FALSE]
        BY <3>1 DEF BeginBuild
      <3> QED
        BY <2>1, <2>2, <3>1 DEF Job
    <2>5. PICK o \in Builders : BuildStep(o) \/ KillBuild(o)
      BY <2>2, <2>3, <2>4 DEF Next, vars, CleanupStep, WalkAndPlan, Confirm,
         Recheck, RemoveUnused, FinishCleanup, KillCleanup, BeginDeploy,
         FinishDeploy, DestroyBox, Relink, EmptyCache, Corrupt, Machine, Quiet
    <2>6. \A outcome \in Ends : Return(o, outcome) => o = b /\ outcome = "ok"
      BY <2>2, Returned
    <2>7. \A point \in BuildPoints : ~Go(o, point)
      <3>1. ASSUME NEW point \in BuildPoints, Go(o, point) PROVE FALSE
        <4>1. job'[o].at = point /\ \A a \in Builders \ {o} : job'[a] = job[a]
          BY <3>1, Gone
        <4> QED
          BY <2>2, <3>1, <4>1 DEF BuildPoints
      <3> QED
        BY <3>1
    <2>8. ~FetchSum(o)
      <3>1. ASSUME FetchSum(o) PROVE FALSE
        <4>1. job' = [job EXCEPT ![o].want = job[o].ver \notin Unsigned,
                                 ![o].at = "fetch.tar"]
          BY <2>1, <2>6, <3>1 DEF FetchSum, Fails
        <4>2. job \in [Builders -> Job] /\ job[o] \in Job
          BY DEF TypeInv, InstallsTypeOK
        <4>3. job'[b].at = job[b].at \/ job'[b].at = "fetch.tar"
          BY <4>1, <4>2 DEF Job
        <4> QED
          BY <2>2, <4>3
      <3> QED
        BY <3>1
    <2>9. Tidy(o)
      <3>1. ~RemoveInstall(o)
        BY <2>1, <2>6, <2>7 DEF RemoveInstall, BuildPoints
      <3>2. ~LookInCache(o)
        <4>1. LookInCache(o) => Go(o, "fetch.sum") \/ Go(o, "verify")
          BY DEF LookInCache
        <4> QED
          BY <4>1, <2>7 DEF BuildPoints
      <3>3. ~VerifyCached(o)
        <4>1. VerifyCached(o) => Go(o, "clean") \/ Go(o, "store.sum") \/ Return(o, "fail")
          BY DEF VerifyCached
        <4> QED
          BY <2>1, <4>1, <2>6, <2>7 DEF BuildPoints
      <3>4. ~FetchTarball(o)
        <4>1. FetchTarball(o) => Go(o, "clean") \/ Go(o, "store.sum") \/ Return(o, "fail")
          BY DEF FetchTarball, Fails
        <4> QED
          BY <2>1, <4>1, <2>6, <2>7 DEF BuildPoints
      <3>5. ~StoreSum(o) /\ ~CleanTree(o) /\ ~KillBuild(o)
        BY <2>1, <2>6, <2>7 DEF StoreSum, CleanTree, KillBuild, BuildPoints
      <3>6. ~Extract(o) /\ ~Configure(o)
        <4>1. Extract(o) => Go(o, "configure") \/ Return(o, "fail")
          BY DEF Extract
        <4>2. Configure(o) => Go(o, "make") \/ Return(o, "fail")
          BY DEF Configure
        <4> QED
          BY <2>1, <4>1, <4>2, <2>6, <2>7 DEF BuildPoints
      <3>7. \A point, next \in BuildPoints : ~Make(o, point, next)
        BY <2>1, <2>6, <2>7 DEF Make
      <3>8. ASSUME NEW point, NEW part, NEW next \in BuildPoints,
                   MakeInstall(o, point, part, next)
            PROVE  FALSE
        <4>1. Go(o, next) \/ Return(o, "fail")
          BY <3>8 DEF MakeInstall
        <4> QED
          BY <2>1, <2>6, <2>7, <4>1
      <3> QED
        BY <2>5, <2>8, <3>1, <3>2, <3>3, <3>4, <3>5, <3>6, <3>7, <3>8
        DEF BuildStep, ContribInstall, BuildPoints
    <2>10. o = b /\ job[b].at = "tidy" /\ UNCHANGED inst
      BY <2>1, <2>6, <2>9 DEF Tidy, At
    <2> QED
      BY <2>10 DEF AloneInv, Undisturbed
  <1> QED
    BY <1>1, <1>2, StepAlone, AlwaysTyped, PTL DEF Spec, BuildOkMeansInstalled

-----------------------------------------------------------------------------
\* A cleanup spares the sandboxes it had the time to see

\* Once the operator has said yes the older sandboxes only go away, and once
\* cleanup has walked again it remembers where each of them it can see leads.
Remembered ==
  /\ clean.at \in {"recheck", "remove"} => \A s \in clean.before : box[s].at = "ready"
  /\ clean.at = "remove" =>
       \A s \in clean.before : box[s].seen => clean.refs[s] = box[s].ref

\* Builds know nothing of sandboxes and cleanups.
LEMMA BuildsLeaveBoxes ==
  ASSUME NEW b \in Builders, BeginBuild(b) \/ BuildStep(b) \/ KillBuild(b)
  PROVE  UNCHANGED <<box, clean>>
  BY Zenon DEF BeginBuild, KillBuild, BuildStep, RemoveInstall, LookInCache,
     VerifyCached, FetchSum, FetchTarball, StoreSum, CleanTree, Extract, Configure,
     Make, MakeInstall, ContribInstall, Tidy, At

LEMMA StepRemembered == TypeInv /\ Remembered /\ [Next]_vars => Remembered'
  <1> SUFFICES ASSUME TypeInv, Remembered, [Next]_vars PROVE Remembered'
    OBVIOUS
  <1>0. clean \in Cleanup /\ box \in [Boxes -> Box]
    BY DEF TypeInv, InstallsTypeOK
  <1>1. ASSUME UNCHANGED <<box, clean>> PROVE Remembered'
    BY <1>1 DEF Remembered
  <1>2. ASSUME clean'.at \in {"walk", "prompt"} \cup Ends PROVE Remembered'
    BY <1>2 DEF Remembered, Ends
  <1>3. CASE \E b \in Builders : BeginBuild(b) \/ BuildStep(b) \/ KillBuild(b)
    <2>1. PICK b \in Builders : BeginBuild(b) \/ BuildStep(b) \/ KillBuild(b)
      BY <1>3
    <2>2. UNCHANGED <<box, clean>>
      BY <2>1, BuildsLeaveBoxes
    <2> QED
      BY <1>1, <2>2
  <1>4. CASE BeginCleanup \/ FinishCleanup \/ KillCleanup
    <2>1. clean'.at \in {"walk"} \cup Ends
      <3>1. /\ BeginCleanup => clean'.at = "walk"
            /\ KillCleanup => clean'.at = "fail"
        BY NoCleanupTyped DEF BeginCleanup, KillCleanup, Cleanup
      <3>2. FinishCleanup => clean'.at = "ok"
        BY DEF FinishCleanup, NoCleanup
      <3> QED
        BY <1>4, <3>1, <3>2 DEF Ends
    <2> QED
      BY <1>2, <2>1
  <1>5. CASE WalkAndPlan
    <2>1. clean'.at \in {"prompt"} \cup Ends
      BY <1>0, <1>5 DEF WalkAndPlan, NoCleanup, Cleanup, Ends
    <2> QED
      BY <1>2, <2>1
  <1>6. CASE Confirm
    <2>1. CASE clean' = NoCleanup
      BY <1>2, <2>1 DEF NoCleanup, Ends
    <2>2. CASE clean' = [clean EXCEPT !.at = "recheck",
                           !.before = {s \in Boxes : box[s].at = "ready"}]
      <3>1. clean'.at = "recheck" /\ clean'.before = {s \in Boxes : box[s].at = "ready"}
        BY <1>0, <2>2 DEF Cleanup
      <3>2. UNCHANGED box
        BY <1>6 DEF Confirm, Quiet
      <3> QED
        BY <3>1, <3>2 DEF Remembered
    <2> QED
      BY <1>6, <2>1, <2>2 DEF Confirm
  <1>7. CASE Recheck
    <2>1. /\ clean.at = "recheck" /\ clean'.refs = Walk
          /\ clean'.before = clean.before /\ UNCHANGED box
      BY <1>0, <1>7 DEF Recheck, Quiet, Cleanup
    <2>2. clean.before \subseteq Boxes
      BY <1>0 DEF Cleanup
    <2> QED
      BY <2>1, <2>2 DEF Remembered, Walk
  <1>8. CASE RemoveUnused
    <2>1. /\ clean'.at = clean.at /\ clean'.refs = clean.refs
          /\ clean'.before = clean.before /\ UNCHANGED box
      BY <1>0, <1>8 DEF RemoveUnused, Cleanup
    <2> QED
      BY <2>1 DEF Remembered
  <1>9. ASSUME NEW s \in Boxes, BeginDeploy(s) \/ FinishDeploy(s) PROVE Remembered'
    <2>1. /\ box[s].at # "ready" /\ UNCHANGED clean
          /\ \A o \in Boxes \ {s} : box'[o] = box[o]
      BY <1>0, <1>9 DEF BeginDeploy, FinishDeploy
    <2>2. clean.at \in {"recheck", "remove"} => \A o \in clean.before : box'[o] = box[o]
      BY <1>0, <2>1 DEF Remembered, Cleanup
    <2> QED
      BY <2>1, <2>2 DEF Remembered
  <1>10. ASSUME NEW s \in Boxes, DestroyBox(s) PROVE Remembered'
    <2>1. /\ clean'.at = clean.at /\ clean'.refs = clean.refs
          /\ clean'.before = clean.before \ {s}
      BY <1>0, <1>10 DEF DestroyBox, Cleanup
    <2>2. \A o \in clean'.before : box'[o] = box[o]
      <3>1. clean.before \subseteq Boxes /\ box' = [box EXCEPT ![s] = NoBox]
        BY <1>0, <1>10 DEF DestroyBox, Cleanup
      <3> QED
        BY <1>0, <2>1, <3>1
    <2> QED
      BY <2>1, <2>2 DEF Remembered
  <1>11. CASE Relink \/ EmptyCache \/ Corrupt \/ UNCHANGED vars
    BY <1>1, <1>11 DEF Relink, EmptyCache, Corrupt, Machine, vars
  <1> QED
    BY <1>3, <1>4, <1>5, <1>6, <1>7, <1>8, <1>9, <1>10, <1>11 DEF Next, CleanupStep

\* The install of a sandbox that was there, and visible, when the operator said
\* yes is never pruned: not even one that was deployed while the prompt was open
\* or that names its install by the symlink.
THEOREM CleanupSpares == Spec => OlderSandboxKeepsInstall
  <1>1. Init => Remembered
    BY DEF Init, Remembered, NoCleanup
  <1>2. TypeInv /\ Remembered /\ [Next]_vars =>
          (\A p \in Prefixes : Prunes(p) =>
             \A s \in Users(p) \cap clean.before : ~box[s].seen)
    <2> SUFFICES ASSUME TypeInv, Remembered, [Next]_vars, NEW p \in Prefixes,
                        Prunes(p), NEW s \in Users(p) \cap clean.before, box[s].seen
                 PROVE  FALSE
      OBVIOUS
    <2>1. clean.at = "remove" /\ p \in clean.plan /\ p \notin clean'.plan
          /\ inst'[p] # inst[p] /\ inst[p] # None /\ "server" \in inst[p].parts
      BY DEF Prunes
    <2>2. clean.refs[s] = box[s].ref /\ s \in Boxes /\ Leads(box[s].ref) = p
      BY <2>1 DEF Remembered, Users
    <2>3. p \in PathForms(clean.refs[s])
      <3>1. box[s].ref # Latest => box[s].ref = p
        BY <2>2 DEF Leads
      <3>2. box[s].ref = Latest => latest = p /\ latest # None
        BY <2>2, InstallsAssumption DEF Leads
      <3> QED
        BY <2>1, <2>2, <3>1, <3>2 DEF PathForms
    <2>4. UsedBy(p, clean.refs) # {}
      BY <2>2, <2>3 DEF UsedBy
    <2>5. RemoveUnused
      <3>1. UNCHANGED inst \/ UNCHANGED clean \/ RemoveUnused
        <4>1. CASE \E b \in Builders : BeginBuild(b) \/ BuildStep(b) \/ KillBuild(b)
          BY <4>1, BuildsLeaveBoxes
        <4>2. CASE BeginCleanup \/ CleanupStep \/ KillCleanup
          BY Zenon, <4>2 DEF BeginCleanup, CleanupStep, WalkAndPlan, Confirm, Recheck,
             FinishCleanup, KillCleanup, Quiet
        <4>3. CASE \/ \E o \in Boxes : BeginDeploy(o) \/ FinishDeploy(o) \/ DestroyBox(o)
                   \/ Relink \/ EmptyCache \/ Corrupt
          BY Zenon, <4>3 DEF BeginDeploy, FinishDeploy, DestroyBox, Relink, EmptyCache,
             Corrupt, Machine
        <4>4. CASE UNCHANGED vars
          BY <4>4 DEF vars
        <4> QED
          BY <4>1, <4>2, <4>3, <4>4 DEF Next
      <3> QED
        BY <2>1, <3>1
    <2>6. PICK q \in clean.plan :
            /\ clean' = [clean EXCEPT !.plan = @ \ {q}]
            /\ UsedBy(q, clean.refs) = {} \/ UNCHANGED inst
      BY <2>5 DEF RemoveUnused
    <2>7. clean'.plan = clean.plan \ {q}
      BY <2>6 DEF TypeInv, InstallsTypeOK, Cleanup
    <2> QED
      BY <2>1, <2>4, <2>6, <2>7
  <1> QED
    BY <1>1, <1>2, StepRemembered, AlwaysTyped, PTL
    DEF Spec, OlderSandboxKeepsInstall
=============================================================================
