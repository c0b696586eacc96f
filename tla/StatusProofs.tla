---------------------------- MODULE StatusProofs ----------------------------
(***************************************************************************)
(* The status commands read one directory after the other while commands   *)
(* go on.  What they show nevertheless, for every number of members,       *)
(* sandboxes, ports and invocations, whatever crashes.                     *)
(***************************************************************************)
EXTENDS MembersProofs, StatusProps

-----------------------------------------------------------------------------
\* Types

LEMMA RowMoves ==
  ASSUME NEW w \in Walk, NEW d \in Dirs, NEW s \in RunStates \cup {None}
  PROVE  LET r == Row(w, d, s) IN
         /\ r \in Walk
         /\ r.rows[d] = w.rows[d] + 1 /\ r.state[d] = s
         /\ \A e \in Dirs \ {d} : r.rows[e] = w.rows[e]
         /\ r.at = w.at /\ r.kind = w.kind /\ r.cluster = w.cluster
         /\ r.outer = w.outer /\ r.inner = w.inner /\ r.named = w.named
         /\ r.dir = w.dir /\ r.port = w.port /\ r.pid = w.pid
<1> DEFINE rows == [w.rows EXCEPT ![d] = w.rows[d] + 1]
           state == [w.state EXCEPT ![d] = s]
<1>1. rows \in [Dirs -> Nat] /\ state \in [Dirs -> RunStates \cup {None}]
  BY DEF Walk
<1>2. /\ rows[d] = w.rows[d] + 1 /\ state[d] = s
      /\ \A e \in Dirs \ {d} : rows[e] = w.rows[e]
  BY DEF Walk
<1>3. Row(w, d, s) = [[w EXCEPT !.rows = rows] EXCEPT !.state = state]
  BY DEF Row, Walk
<1> HIDE DEF rows, state
<1>. QED BY <1>1, <1>2, <1>3 DEF Walk

LEMMA ResumedMoves ==
  ASSUME NEW w \in Walk
  PROVE  LET r == Resumed(w) IN
         /\ r \in Walk
         /\ r.at = (IF w.named # <<>> THEN "members" ELSE "entries") /\ r.dir = None
         /\ r.kind = w.kind /\ r.cluster = w.cluster /\ r.rows = w.rows
         /\ r.state = w.state /\ r.outer = w.outer /\ r.inner = w.inner
         /\ r.named = w.named
BY DEF Resumed, Walk, WalkPoints

LEMMA LookMoves ==
  ASSUME HostTypeOK, NEW d \in Dirs, NEW rest \in Walk, Look(d, rest)
  PROVE  /\ walk' \in Walk
         /\ walk'.kind = rest.kind /\ walk'.cluster = rest.cluster
         /\ walk'.rows = rest.rows /\ walk'.state = rest.state
         /\ walk'.outer = rest.outer /\ walk'.inner = rest.inner
         /\ walk'.named = rest.named
         /\ IF disk[d].cfg # None THEN walk'.at = "pid" /\ walk'.dir = d
            ELSE walk'.at = rest.at /\ walk'.dir = rest.dir
<1>1. disk[d].cfg # None => disk[d].cfg.port \in Ports
  BY DEF HostTypeOK, Files, Sandbox
<1>. QED BY <1>1 DEF Look, Walk, WalkPoints

\* What is common to the rows of a walk: the directories it names are those of
\* the manifest.
WalkInv ==
  /\ CluInv /\ walk \in Walk
  /\ walk.at \in {"pid", "listen", "sql"} => walk.dir \in Dirs

LEMMA NoWalkTyped == NoWalk \in Walk
<1>1. [d \in Dirs |-> 0] \in [Dirs -> Nat]
      /\ [d \in Dirs |-> None] \in [Dirs -> RunStates \cup {None}]
      /\ <<>> \in Seq(Dirs)
  OBVIOUS
<1>. QED BY <1>1 DEF NoWalk, Walk, WalkPoints, Kinds

LEMMA ObserveTyped ==
  ASSUME WalkInv, Observe
  PROVE  walk' \in Walk /\ (walk'.at \in {"pid", "listen", "sql"} => walk'.dir \in Dirs)
<1>1. HostTypeOK /\ walk \in Walk /\ (manifest # None => manifest \in Seq(Member))
  BY DEF WalkInv, CluInv, Inv, TypeOK
<1>2. CASE BeginStatus \/ BeginClusterStatus \/ BeginGlobalStatus
  <2>1. CASE BeginStatus
    <3>1. PICK d \in Dirs : walk' = [NoWalk EXCEPT !.at = "entries", !.outer = {d}]
      BY <2>1 DEF BeginStatus
    <3>. QED BY <3>1, NoWalkTyped DEF Walk, WalkPoints
  <2>3. CASE BeginClusterStatus
    BY <2>3, NoWalkTyped DEF BeginClusterStatus, Walk, WalkPoints, Kinds
  <2>2. CASE BeginGlobalStatus
    <3> DEFINE cluster == manifest # None \/ Made \cap MemberDirs # {}
               outer == Made \ MemberDirs
    <3>1. cluster \in BOOLEAN /\ outer \subseteq Dirs
      BY DEF Made
    <3>2. walk' = [NoWalk EXCEPT !.at = "entries", !.kind = "global_status",
                     !.cluster = cluster, !.outer = outer]
      BY <2>2 DEF BeginGlobalStatus
    <3> HIDE DEF cluster, outer
    <3>. QED BY <3>1, <3>2, NoWalkTyped DEF Walk, WalkPoints, Kinds
  <2>. QED BY <1>2, <2>1, <2>2, <2>3
<1>3. CASE VisitEntry
  <2>1. PICK d \in IF walk.inner # {} THEN walk.inner ELSE walk.outer :
          Look(d, [walk EXCEPT !.inner = @ \ {d}, !.outer = @ \ {d}])
    BY <1>3 DEF VisitEntry
  <2>2. d \in Dirs /\ walk.at = "entries"
    BY <1>1, <1>3, <2>1 DEF Walk, VisitEntry
  <2> DEFINE rest == [walk EXCEPT !.inner = walk.inner \ {d}, !.outer = walk.outer \ {d}]
  <2>3. rest \in Walk /\ rest.at = "entries" /\ Look(d, rest)
    BY <1>1, <2>1, <2>2 DEF Walk
  <2> HIDE DEF rest
  <2>. QED BY <1>1, <2>2, <2>3, LookMoves
<1>4. CASE VisitCluster
  BY <1>1, <1>4 DEF VisitCluster, Walk, WalkPoints, Made
<1>5. CASE LoadManifest
  <2>1. CASE manifest # None
    <3>1. [i \in DOMAIN manifest |-> manifest[i].dir] \in Seq(Dirs)
      <4>1. \A i \in DOMAIN manifest : manifest[i] \in Member
        BY <1>1, <2>1
      <4>2. DOMAIN manifest = 1 .. Len(manifest) /\ Len(manifest) \in Nat
        BY <1>1, <2>1
      <4>. QED BY <4>1, <4>2 DEF Member
    <3>. QED BY <1>1, <1>5, <2>1, <3>1 DEF LoadManifest, Walk, WalkPoints
  <2>. QED BY <1>1, <1>5, <2>1 DEF LoadManifest, Walk, WalkPoints
<1>6. CASE VisitMember
  <2> DEFINE d == Head(walk.named)
             rest == [walk EXCEPT !.named = Tail(walk.named)]
  <2>1. d \in Dirs /\ Tail(walk.named) \in Seq(Dirs) /\ walk.at = "members"
    BY <1>1, <1>6 DEF VisitMember, Walk
  <2>2. rest \in Walk /\ rest.at = "members"
    BY <1>1, <2>1 DEF Walk
  <2>3. \/ Look(d, rest)
        \/ \E s \in {"stopped", None} : walk' = Row(rest, d, s)
    BY <1>6 DEF VisitMember
  <2> HIDE DEF d, rest
  <2>4. CASE Look(d, rest)
    BY <1>1, <2>1, <2>2, <2>4, LookMoves
  <2>5. ASSUME NEW s \in {"stopped", None}, walk' = Row(rest, d, s)
        PROVE  walk' \in Walk /\ walk'.at = "members"
    <3>1. s \in RunStates \cup {None}
      BY DEF RunStates
    <3>. QED BY <2>1, <2>2, <2>5, <3>1, RowMoves
  <2>. QED BY <2>1, <2>3, <2>4, <2>5
<1>7. CASE MembersVisited \/ Render \/ Finish
  BY <1>1, <1>7, NoWalkTyped DEF MembersVisited, Render, Finish, Walk, WalkPoints
<1>8. CASE CheckPid
  <2> DEFINE pid == IsRunning(walk.dir)
  <2>1. pid \in BOOLEAN /\ walk' = [walk EXCEPT !.at = "listen", !.pid = pid]
        /\ walk.at = "pid"
    BY <1>8 DEF CheckPid, IsRunning
  <2> HIDE DEF pid
  <2>. QED BY <1>1, <2>1 DEF Walk, WalkPoints, WalkInv
<1>9. CASE CheckListen
  <2> DEFINE state == StateOf(walk.pid, IsBusy(walk.port))
             shown == Row(walk, walk.dir, state)
  <2>1. walk.dir \in Dirs /\ state \in RunStates \cup {None}
    BY <1>9 DEF WalkInv, CheckListen, StateOf, RunStates
  <2>2. shown \in Walk /\ shown.dir \in Dirs
    BY <1>1, <2>1, RowMoves
  <2>3. walk' = [shown EXCEPT !.at = "sql"] \/ walk' = Resumed(shown)
    BY <1>9 DEF CheckListen
  <2> HIDE DEF state, shown
  <2>4. CASE walk' = [shown EXCEPT !.at = "sql"]
    BY <2>2, <2>4 DEF Walk, WalkPoints
  <2>. QED BY <2>2, <2>3, <2>4, ResumedMoves
<1>10. CASE Probe
  <2>1. CASE walk' = [walk EXCEPT !.answers = @ \cup Serving(walk.port)]
    BY <1>1, <1>10, <2>1 DEF Probe, WalkInv, Walk, Serving
  <2>. QED BY <1>1, <1>10, <2>1, ResumedMoves DEF Probe
<1>. QED BY <1>2, <1>3, <1>4, <1>5, <1>6, <1>7, <1>8, <1>9, <1>10 DEF Observe

LEMMA WitnessTyped ==
  ASSUME Witness, steady \subseteq Dirs, past \subseteq {"up", "down"}
  PROVE  steady' \subseteq Dirs /\ past' \subseteq {"up", "down"}
BY DEF Witness

\* The types of the status commands' state, the history of a walk included.
THEOREM StatusTyped == StatusSpec => []StatusTypeOK
<1> DEFINE IInv == WalkInv /\ steady \subseteq Dirs /\ past \subseteq {"up", "down"}
<1>1. StatusInit => IInv
  BY ClusterInitInv, NoWalkTyped DEF StatusInit, WalkInv, NoWalk
<1>2. IInv /\ [StatusNext]_statusVars => IInv'
  <2>1. SUFFICES ASSUME IInv, [StatusNext]_statusVars PROVE IInv'
    OBVIOUS
  <2>2. [ClusterNext]_clusterVars
    BY <2>1 DEF StatusNext, statusVars
  <2>3. CluInv'
    BY <2>1, <2>2, ClusterStepInv DEF WalkInv
  <2>4. CASE UNCHANGED <<walk, steady, past>>
    BY <2>1, <2>3, <2>4 DEF WalkInv
  <2>5. CASE StatusNext
    <3>1. steady' \subseteq Dirs /\ past' \subseteq {"up", "down"}
      BY <2>1, <2>5, WitnessTyped DEF StatusNext
    <3>. QED BY <2>1, <2>3, <2>5, <3>1, ObserveTyped DEF StatusNext, WalkInv
  <2>. QED BY <2>1, <2>4, <2>5 DEF statusVars
<1>3. IInv => StatusTypeOK
  BY DEF WalkInv, CluInv, Inv, StatusTypeOK, ClusterTypeOK
<1>. QED BY <1>1, <1>2, <1>3, PTL DEF StatusSpec

-----------------------------------------------------------------------------
\* global_status lists a sandbox once

Named == {walk.named[i] : i \in DOMAIN walk.named}

\* What a walk has still to visit, and what it is looking at.
Unseen ==
  walk.outer \cup walk.inner \cup Named
    \cup IF walk.cluster \/ walk.at = "manifest" THEN MemberDirs ELSE {}

InHand == IF walk.at \in {"pid", "listen"} THEN {walk.dir} ELSE {}

\* Where the parts of it are: a member is found in one way only, through the
\* cluster directory, through its manifest or as one of its entries.
Course ==
  /\ walk.at \notin {"idle", "sql", "over"}
  /\ walk.outer \cap MemberDirs = {}
  /\ walk.inner \subseteq MemberDirs /\ Named \subseteq MemberDirs
  /\ \A i, j \in DOMAIN walk.named : walk.named[i] = walk.named[j] => i = j
  /\ walk.cluster \/ walk.at = "manifest" => walk.inner = {} /\ walk.named = <<>>
  /\ walk.cluster => walk.at # "manifest"
  /\ walk.at = "members" => walk.inner = {} /\ ~walk.cluster
  /\ walk.named # <<>> => walk.inner = {}
  /\ walk.at = "entries" => walk.named = <<>>
  /\ InHand \cap Unseen = {}
  /\ walk.at = "render" => Unseen = {}

\* A sandbox in place all along has its row once it has been visited.
Counted ==
  \A d \in steady : walk.rows[d] = IF d \in Unseen \cup InHand THEN 0 ELSE 1

\* The manifest that a walk goes to read is there as long as it is needed.
Promised ==
  walk.at = "manifest" /\ steady \cap MemberDirs # {} => manifest # None

CountInv ==
  /\ ClearedInv /\ Ordered /\ WalkInv
  /\ steady \subseteq {d \in Dirs : InPlace(d)}
  /\ walk.kind = "global_status" => Course /\ Counted /\ Promised

LEMMA BeginsCounting ==
  ASSUME CountInv, BeginGlobalStatus, UNCHANGED clusterVars, Witness
  PROVE  Course' /\ Counted' /\ Promised'
<1> DEFINE cluster == manifest # None \/ Made \cap MemberDirs # {}
<1>1. Marked
  BY DEF CountInv, ClearedInv, AloneInv
<1>2. /\ walk'.at = "entries" /\ walk'.cluster = cluster /\ walk'.inner = {}
      /\ walk'.outer = Made \ MemberDirs /\ walk'.named = <<>>
      /\ walk'.rows = [d \in Dirs |-> 0]
  BY DEF BeginGlobalStatus, NoWalk
<1>3. Named' = {}
  BY <1>2 DEF Named
<1>4. Course' /\ Promised'
  BY <1>2, <1>3 DEF Course, Promised, InHand
<1>5. \A d \in steady' : d \in Dirs /\ disk[d].cfg # None
  BY DEF Witness, InPlace, BeginGlobalStatus, clusterVars, vars, host
<1>6. \A d \in steady' : d \in Made
  BY <1>1, <1>5 DEF Marked, Made
<1>7. \A d \in steady' : d \in Unseen'
  BY <1>2, <1>3, <1>6 DEF Unseen
<1>. QED BY <1>2, <1>4, <1>5, <1>7 DEF Counted

\* What the rest of a walk still finds in place has been there before.
LEMMA SteadyStays ==
  ASSUME CountInv, walk.kind = "global_status", Witness
  PROVE  /\ walk.at # "idle" /\ steady' \subseteq steady
         /\ \A d \in steady' : d \in Dirs /\ InPlace(d)
BY DEF CountInv, Course, Witness

LEMMA StillCounted ==
  ASSUME CountInv, walk.kind = "global_status", Witness, walk'.rows = walk.rows,
         \A d \in steady : d \in Unseen' \cup InHand' <=> d \in Unseen \cup InHand
  PROVE  Counted'
BY SteadyStays DEF CountInv, Counted

LEMMA VisitsEntry ==
  ASSUME CountInv, walk.kind = "global_status", VisitEntry, UNCHANGED clusterVars,
         Witness
  PROVE  Course' /\ Counted' /\ Promised'
<1>1. HostTypeOK /\ walk \in Walk /\ Course /\ walk.at = "entries" /\ walk.named = <<>>
  BY DEF CountInv, WalkInv, CluInv, Inv, TypeOK, Course, VisitEntry
<1>2. PICK d \in IF walk.inner # {} THEN walk.inner ELSE walk.outer :
        Look(d, [walk EXCEPT !.inner = @ \ {d}, !.outer = @ \ {d}])
  BY DEF VisitEntry
<1> DEFINE rest == [walk EXCEPT !.inner = walk.inner \ {d}, !.outer = walk.outer \ {d}]
<1>3. d \in Dirs /\ rest \in Walk /\ Look(d, rest)
  BY <1>1, <1>2 DEF Walk
<1>4. /\ rest.outer = walk.outer \ {d} /\ rest.inner = walk.inner \ {d}
      /\ rest.cluster = walk.cluster /\ rest.named = <<>> /\ rest.at = "entries"
      /\ rest.rows = walk.rows
  BY <1>1 DEF Walk
<1> HIDE DEF rest
<1>5. /\ walk'.outer = walk.outer \ {d} /\ walk'.inner = walk.inner \ {d}
      /\ walk'.cluster = walk.cluster /\ walk'.named = <<>>
      /\ walk'.rows = walk.rows
      /\ IF disk[d].cfg # None THEN walk'.at = "pid" /\ walk'.dir = d
         ELSE walk'.at = "entries"
  BY <1>1, <1>3, <1>4, LookMoves
<1>6. Named = {} /\ Named' = {}
  BY <1>1, <1>5 DEF Named
<1>7. /\ d \in Unseen /\ Unseen' = Unseen \ {d} /\ InHand = {}
      /\ InHand' = IF disk[d].cfg # None THEN {d} ELSE {}
  <2> DEFINE rows == IF walk.cluster THEN MemberDirs ELSE {}
  <2>1. Unseen = walk.outer \cup walk.inner \cup rows
    BY <1>1, <1>6 DEF Unseen
  <2>2. Unseen' = walk'.outer \cup walk'.inner \cup rows
    BY <1>5, <1>6 DEF Unseen
  <2>3. d \in walk.outer \cup walk.inner
    BY <1>2
  <2>4. d \notin rows
    BY <1>1, <1>2 DEF Course
  <2> HIDE DEF rows
  <2>. QED BY <1>1, <1>5, <2>1, <2>2, <2>3, <2>4 DEF InHand
<1>8. Course' /\ Promised'
  BY <1>1, <1>5, <1>6, <1>7 DEF Course, Promised
<1>9. d \in steady => disk[d].cfg # None
  BY DEF CountInv, InPlace
<1>. QED BY <1>5, <1>7, <1>8, <1>9, StillCounted

LEMMA VisitsCluster ==
  ASSUME CountInv, walk.kind = "global_status", VisitCluster, UNCHANGED clusterVars,
         Witness
  PROVE  Course' /\ Counted' /\ Promised'
<1>1. /\ Marked /\ walk \in Walk /\ Course
      /\ walk.at = "entries" /\ walk.named = <<>> /\ walk.cluster /\ walk.inner = {}
  BY DEF CountInv, ClearedInv, AloneInv, WalkInv, Course, VisitCluster
<1>2. /\ walk'.outer = walk.outer /\ ~walk'.cluster /\ walk'.named = <<>>
      /\ walk'.rows = walk.rows
      /\ IF manifest # None THEN walk'.at = "manifest" /\ walk'.inner = {}
         ELSE walk'.at = "entries" /\ walk'.inner = Made \cap MemberDirs
  BY <1>1 DEF VisitCluster, Walk
<1>3. Named = {} /\ Named' = {} /\ InHand = {} /\ InHand' = {} /\ manifest' = manifest
  BY <1>1, <1>2 DEF Named, InHand, clusterVars
<1>4. Course' /\ Promised'
  BY <1>1, <1>2, <1>3 DEF Course, Promised
<1>5. \A d \in steady : d \in Made
  BY <1>1 DEF CountInv, InPlace, Marked, Made
<1>6. \A d \in steady : d \in Unseen' <=> d \in Unseen
  BY <1>1, <1>2, <1>3, <1>5 DEF Unseen
<1>. QED BY <1>2, <1>3, <1>4, <1>6, StillCounted

LEMMA LoadsManifest ==
  ASSUME CountInv, walk.kind = "global_status", LoadManifest, UNCHANGED clusterVars,
         Witness
  PROVE  Course' /\ Counted' /\ Promised'
<1>1. /\ walk \in Walk /\ Course /\ walk.at = "manifest"
      /\ walk.named = <<>> /\ ~walk.cluster /\ walk.inner = {} /\ Promised
      /\ manifest # None => manifest \in Seq(Member)
  BY DEF CountInv, WalkInv, CluInv, Course, LoadManifest
<1>2. Named = {} /\ InHand = {}
  BY <1>1 DEF Named, InHand
<1>3. CASE manifest = None
  <2>1. /\ walk'.outer = walk.outer /\ ~walk'.cluster /\ walk'.named = <<>>
        /\ walk'.rows = walk.rows /\ walk'.at = "entries" /\ walk'.inner = {}
    BY <1>1, <1>3 DEF LoadManifest, Walk
  <2>2. Named' = {} /\ InHand' = {}
    BY <2>1 DEF Named, InHand
  <2>3. Course' /\ Promised'
    BY <1>1, <2>1, <2>2 DEF Course, Promised
  <2>4. \A d \in steady : d \notin MemberDirs
    BY <1>1, <1>3 DEF Promised
  <2>5. \A d \in steady : d \in Unseen' <=> d \in Unseen
    BY <1>1, <1>2, <2>1, <2>2, <2>4 DEF Unseen
  <2>. QED BY <1>2, <2>1, <2>2, <2>3, <2>5, StillCounted
<1>4. CASE manifest # None
  <2> DEFINE names == [i \in DOMAIN manifest |-> manifest[i].dir]
  <2>1. /\ walk'.outer = walk.outer /\ ~walk'.cluster /\ walk'.named = names
        /\ walk'.rows = walk.rows /\ walk'.at = "members" /\ walk'.inner = {}
    BY <1>1, <1>4 DEF LoadManifest, Walk
  <2>2. /\ DOMAIN names = 1 .. Len(manifest) /\ Len(manifest) \in Nat
        /\ \A i \in DOMAIN names : i \in DOMAIN Members /\ names[i] = Members[i]
    <3>1. DOMAIN names = 1 .. Len(manifest) /\ Len(manifest) \in Nat
      BY <1>1, <1>4
    <3>2. \A i \in 1 .. Len(manifest) : i <= Len(Members) /\ manifest[i].dir = Members[i]
      BY <1>4 DEF CountInv, Ordered
    <3>3. \A i \in 1 .. Len(manifest) : i \in DOMAIN Members
      BY <3>1, <3>2, TheMembers
    <3>. QED BY <3>1, <3>2, <3>3
  <2>3. Named' = Listed
    BY <1>4, <2>1 DEF Named, Listed
  <2>4. InHand' = {}
    BY <2>1 DEF InHand
  <2>5. /\ \A i, j \in DOMAIN names : names[i] = names[j] => i = j
        /\ Listed \subseteq MemberDirs
    <3>1. \A i \in DOMAIN manifest : manifest[i].dir \in MemberDirs
      BY <2>2 DEF MemberDirs
    <3>. QED BY <1>4, <2>2, <3>1, TheMembers DEF Listed
  <2> HIDE DEF names
  <2>6. Course' /\ Promised'
    BY <1>1, <2>1, <2>3, <2>4, <2>5 DEF Course, Promised
  <2>7. \A d \in steady : d \in MemberDirs => d \in Listed
    BY <1>4 DEF CountInv, InPlace
  <2>8. \A d \in steady : d \in Unseen' <=> d \in Unseen
    BY <1>1, <1>2, <2>1, <2>3, <2>5, <2>7 DEF Unseen
  <2>. QED BY <1>2, <2>1, <2>4, <2>6, <2>8, StillCounted
<1>. QED BY <1>3, <1>4

LEMMA VisitsMember ==
  ASSUME CountInv, walk.kind = "global_status", VisitMember, UNCHANGED clusterVars,
         Witness
  PROVE  Course' /\ Counted' /\ Promised'
<1> DEFINE d == Head(walk.named)
           rest == [walk EXCEPT !.named = Tail(walk.named)]
<1>1. /\ HostTypeOK /\ walk \in Walk /\ Course /\ walk.named \in Seq(Dirs)
      /\ walk.at = "members" /\ walk.named # <<>> /\ walk.inner = {} /\ ~walk.cluster
  BY DEF CountInv, WalkInv, CluInv, Inv, TypeOK, Course, VisitMember, Walk
<1>2. /\ d \in Dirs /\ Tail(walk.named) \in Seq(Dirs)
      /\ d = walk.named[1] /\ DOMAIN walk.named = 1 .. Len(walk.named)
      /\ Len(walk.named) \in Nat /\ Len(walk.named) > 0
      /\ DOMAIN Tail(walk.named) = 1 .. Len(walk.named) - 1
      /\ \A i \in 1 .. Len(walk.named) - 1 : Tail(walk.named)[i] = walk.named[i + 1]
  BY <1>1
<1>3. /\ rest \in Walk /\ rest.outer = walk.outer /\ rest.inner = walk.inner
      /\ rest.cluster = walk.cluster /\ rest.at = "members" /\ rest.rows = walk.rows
      /\ rest.named = Tail(walk.named)
  BY <1>1, <1>2 DEF Walk
<1>4. \/ disk[d].cfg # None /\ Look(d, rest)
      \/ disk[d].cfg = None /\ walk' = Row(rest, d, "stopped")
  BY DEF VisitMember
<1> HIDE DEF d, rest
<1>5. /\ walk'.outer = walk.outer /\ walk'.inner = {} /\ ~walk'.cluster
      /\ walk'.named = Tail(walk.named)
      /\ IF disk[d].cfg # None
         THEN walk'.at = "pid" /\ walk'.dir = d /\ walk'.rows = walk.rows
         ELSE /\ walk'.at = "members"
              /\ \A e \in Dirs \ {d} : walk'.rows[e] = walk.rows[e]
  <2>1. CASE Look(d, rest) /\ disk[d].cfg # None
    BY <1>1, <1>2, <1>3, <2>1, LookMoves
  <2>2. CASE walk' = Row(rest, d, "stopped") /\ disk[d].cfg = None
    <3>1. "stopped" \in RunStates \cup {None}
      BY DEF RunStates
    <3>. QED BY <1>1, <1>2, <1>3, <2>2, <3>1, RowMoves
  <2>. QED BY <1>4, <2>1, <2>2
<1>6. d \in Named /\ d \notin Named' /\ Named = Named' \cup {d}
  <2>1. 1 \in DOMAIN walk.named
    BY <1>2
  <2>2. /\ \A i \in 1 .. Len(walk.named) - 1 : walk.named[i + 1] \in Named'
        /\ \A x \in Named' : \E i \in 1 .. Len(walk.named) - 1 : x = walk.named[i + 1]
    <3> DEFINE t == Tail(walk.named)
    <3>1. /\ DOMAIN t = 1 .. Len(walk.named) - 1
          /\ \A i \in DOMAIN t : t[i] = walk.named[i + 1]
      BY <1>2
    <3>2. Named' = {t[i] : i \in DOMAIN t}
      BY <1>5 DEF Named
    <3> HIDE DEF t
    <3>. QED BY <3>1, <3>2
  <2>3. \A i \in 1 .. Len(walk.named) - 1 : i + 1 \in DOMAIN walk.named /\ i + 1 # 1
    BY <1>2
  <2>4. \A i \in DOMAIN walk.named \ {1} :
          i - 1 \in 1 .. Len(walk.named) - 1 /\ (i - 1) + 1 = i
    BY <1>2
  <2>5. d \in Named
    BY <1>2, <2>1 DEF Named
  <2>6. d \notin Named'
    BY <1>1, <1>2, <2>1, <2>2, <2>3 DEF Course
  <2>7. Named' \subseteq Named
    BY <2>2, <2>3 DEF Named
  <2>8. \A i \in DOMAIN walk.named : walk.named[i] = d \/ walk.named[i] \in Named'
    BY <1>2, <2>2, <2>4
  <2>. QED BY <2>5, <2>6, <2>7, <2>8 DEF Named
<1>7. /\ Unseen = walk.outer \cup Named /\ Unseen' = walk.outer \cup Named'
      /\ d \notin walk.outer /\ InHand = {}
      /\ InHand' = IF disk[d].cfg # None THEN {d} ELSE {}
  BY <1>1, <1>5, <1>6 DEF Unseen, InHand, Course
<1>8. \A i, j \in DOMAIN walk'.named : walk'.named[i] = walk'.named[j] => i = j
  <2>1. ASSUME NEW i \in DOMAIN walk'.named, NEW j \in DOMAIN walk'.named,
               walk'.named[i] = walk'.named[j]
        PROVE  i = j
    <3>1. /\ i \in Nat /\ j \in Nat
          /\ i + 1 \in DOMAIN walk.named /\ j + 1 \in DOMAIN walk.named
          /\ walk.named[i + 1] = walk.named[j + 1]
      BY <1>2, <1>5, <2>1
    <3>2. i + 1 = j + 1
      BY <1>1, <3>1 DEF Course
    <3>. QED BY <3>1, <3>2
  <2>. QED BY <2>1
<1>9. Course' /\ Promised'
  BY <1>1, <1>5, <1>6, <1>7, <1>8 DEF Course, Promised
<1>10. Counted'
  <2>1. d \in steady => disk[d].cfg # None
    BY DEF CountInv, InPlace
  <2>2. CASE disk[d].cfg # None
    <3>1. \A e \in steady : e \in Unseen' \cup InHand' <=> e \in Unseen \cup InHand
      BY <1>6, <1>7, <2>2
    <3>. QED BY <1>5, <2>2, <3>1, StillCounted
  <2>3. CASE disk[d].cfg = None
    <3>1. \A e \in steady' : /\ e \in steady /\ e \in Dirs \ {d}
                             /\ e \in Unseen' \cup InHand' <=> e \in Unseen \cup InHand
      BY <1>6, <1>7, <2>1, <2>3, SteadyStays
    <3>. QED BY <1>5, <2>3, <3>1 DEF CountInv, Counted
  <2>. QED BY <2>2, <2>3
<1>. QED BY <1>9, <1>10

LEMMA ListsOne ==
  ASSUME CountInv, walk.kind = "global_status", CheckListen, UNCHANGED clusterVars,
         Witness
  PROVE  Course' /\ Counted' /\ Promised'
<1> DEFINE state == StateOf(walk.pid, IsBusy(walk.port))
           shown == Row(walk, walk.dir, state)
           d == walk.dir
<1>1. walk \in Walk /\ Course /\ walk.at = "listen" /\ d \in Dirs
  BY DEF CountInv, WalkInv, CheckListen
<1>2. state \in RunStates \cup {None}
  BY DEF StateOf, RunStates
<1>3. walk' = Resumed(shown)
  BY DEF CheckListen
<1> HIDE DEF state
<1>4. /\ shown \in Walk /\ shown.rows[d] = walk.rows[d] + 1
      /\ \A e \in Dirs \ {d} : shown.rows[e] = walk.rows[e]
      /\ shown.cluster = walk.cluster /\ shown.named = walk.named
      /\ shown.outer = walk.outer /\ shown.inner = walk.inner
  BY <1>1, <1>2, RowMoves
<1> HIDE DEF shown
<1>5. /\ walk'.at = (IF walk.named # <<>> THEN "members" ELSE "entries")
      /\ walk'.rows[d] = walk.rows[d] + 1
      /\ \A e \in Dirs \ {d} : walk'.rows[e] = walk.rows[e]
      /\ walk'.cluster = walk.cluster /\ walk'.named = walk.named
      /\ walk'.outer = walk.outer /\ walk'.inner = walk.inner
  BY <1>3, <1>4, ResumedMoves
<1>6. /\ Named' = Named /\ Unseen' = Unseen /\ InHand' = {} /\ InHand = {d}
  BY <1>1, <1>5 DEF Named, Unseen, InHand
<1>7. Course' /\ Promised'
  BY <1>1, <1>5, <1>6 DEF Course, Promised
<1>8. \A e \in steady' : e \in steady /\ e \in Dirs
  BY SteadyStays
<1>9. d \in steady' => walk'.rows[d] = 1 /\ d \notin Unseen'
  <2>1. d \in steady' => walk.rows[d] = 0
    BY <1>6, <1>8 DEF CountInv, Counted
  <2>. QED BY <1>1, <1>5, <1>6, <2>1 DEF Course
<1>10. Counted'
  BY <1>5, <1>6, <1>8, <1>9 DEF CountInv, Counted
<1>. QED BY <1>7, <1>10

LEMMA WalksOn ==
  ASSUME CountInv, walk.kind = "global_status", UNCHANGED clusterVars, Witness,
         MembersVisited \/ CheckPid \/ Render
  PROVE  Course' /\ Counted' /\ Promised'
<1>1. walk \in Walk /\ Course
  BY DEF CountInv, WalkInv
<1>2. /\ walk'.rows = walk.rows /\ walk'.cluster = walk.cluster
      /\ walk'.named = walk.named /\ walk'.outer = walk.outer
      /\ walk'.inner = walk.inner /\ walk'.dir = walk.dir
      /\ \/ walk.at = "members" /\ walk.named = <<>> /\ walk'.at = "entries"
         \/ walk.at = "pid" /\ walk'.at = "listen"
         \/ /\ walk.at = "entries" /\ walk.inner = {} /\ walk.outer = {}
            /\ ~walk.cluster /\ walk'.at = "render"
  BY <1>1 DEF MembersVisited, CheckPid, Render, Walk
<1>3. Named' = Named /\ Unseen' = Unseen /\ InHand' = InHand
  BY <1>2 DEF Named, Unseen, InHand
<1>4. walk'.at = "render" => Unseen = {}
  <2>1. ASSUME walk'.at = "render" PROVE Unseen = {}
    <3>1. walk.named = <<>> /\ walk.at = "entries"
      BY <1>1, <1>2, <2>1 DEF Course
    <3>2. Named = {}
      BY <3>1 DEF Named
    <3>. QED BY <1>2, <2>1, <3>1, <3>2 DEF Unseen
  <2>. QED BY <2>1
<1>5. Course' /\ Promised'
  BY <1>1, <1>2, <1>3, <1>4 DEF Course, Promised
<1>. QED BY <1>2, <1>3, <1>5, StillCounted

LEMMA KindStays ==
  ASSUME WalkInv, Observe
  PROVE  \/ BeginStatus \/ BeginClusterStatus \/ BeginGlobalStatus \/ Finish
         \/ walk'.kind = walk.kind
<1>1. HostTypeOK /\ walk \in Walk
  BY DEF WalkInv, CluInv, Inv, TypeOK
<1>2. CASE VisitEntry
  <2>1. PICK d \in IF walk.inner # {} THEN walk.inner ELSE walk.outer :
          Look(d, [walk EXCEPT !.inner = @ \ {d}, !.outer = @ \ {d}])
    BY <1>2 DEF VisitEntry
  <2>. QED BY <1>1, <2>1 DEF Look, Walk
<1>3. CASE VisitMember
  BY <1>1, <1>3 DEF VisitMember, Look, Row, Walk
<1>4. CASE VisitCluster \/ LoadManifest \/ MembersVisited \/ CheckPid \/ Render
  BY <1>1, <1>4 DEF VisitCluster, LoadManifest, MembersVisited, CheckPid, Render, Walk
<1>5. CASE CheckListen \/ Probe
  BY <1>1, <1>5 DEF CheckListen, Probe, Resumed, Row, Walk
<1>. QED BY <1>2, <1>3, <1>4, <1>5 DEF Observe

LEMMA CountStep ==
  ASSUME Disciplined, CountInv, [StatusNext]_statusVars
  PROVE  CountInv'
<1>1. [ClusterNext]_clusterVars
  BY DEF StatusNext, statusVars
<1>2. ClearedInv' /\ CluInv' /\ ClearedInv /\ AloneInv /\ Ordered
  BY <1>1, ClearedStep, AloneStep DEF CountInv, ClearedInv, AloneInv
<1>3. Ordered'
  BY <1>1, <1>2, OrderedStep DEF Ordered, clusterVars
<1>4. CASE UNCHANGED statusVars
  <2>1. CASE walk.kind # "global_status"
    BY <1>2, <1>3, <1>4, <2>1
       DEF CountInv, WalkInv, InPlace, Listed, statusVars, clusterVars, vars, host
  <2>2. CASE walk.kind = "global_status"
    <3>1. Course' /\ Counted' /\ Promised'
      BY <1>4, <2>2
         DEF CountInv, Course, Counted, Promised, Unseen, InHand, Named, statusVars,
             clusterVars
    <3>. QED BY <1>2, <1>3, <1>4, <3>1
         DEF CountInv, WalkInv, InPlace, Listed, statusVars, clusterVars, vars, host
  <2>. QED BY <2>1, <2>2
<1>5. CASE StatusNext
  <2>1. Witness /\ steady' \subseteq {d \in Dirs : InPlace(d)'}
    BY <1>5 DEF StatusNext, Witness, CountInv
  <2>2. ASSUME Observe, UNCHANGED clusterVars, walk'.kind = "global_status"
        PROVE  Course' /\ Counted' /\ Promised'
    <3>1. CASE BeginGlobalStatus
      BY <2>1, <2>2, <3>1, BeginsCounting
    <3>2. CASE walk.kind = "global_status" /\ ~BeginGlobalStatus
      <4>1. walk.at \notin {"idle", "sql"}
        BY <3>2 DEF CountInv, Course
      <4>2. ~BeginStatus /\ ~BeginClusterStatus /\ ~Probe
        BY <4>1 DEF BeginStatus, BeginClusterStatus, Probe
      <4>3. ~Finish
        BY <2>2 DEF Finish, NoWalk
      <4>. QED BY <2>1, <2>2, <3>2, <4>2, <4>3, VisitsEntry, VisitsCluster,
                  LoadsManifest, VisitsMember, ListsOne, WalksOn DEF Observe
    <3>3. walk.kind = "global_status" \/ BeginGlobalStatus
      <4>1. ~BeginStatus /\ ~BeginClusterStatus /\ ~Finish
        BY <2>2 DEF BeginStatus, BeginClusterStatus, Finish, NoWalk
      <4>2. BeginGlobalStatus \/ walk'.kind = walk.kind
        BY <2>2, <4>1, KindStays DEF CountInv
      <4>. QED BY <2>2, <4>2
    <3>. QED BY <3>1, <3>2, <3>3
  <2>3. ASSUME ClusterNext, UNCHANGED walk, walk.kind = "global_status"
        PROVE  Course' /\ Counted' /\ Promised'
    <3>1. Course /\ Counted /\ Promised
      BY <2>3 DEF CountInv
    <3>2. Named' = Named /\ Unseen' = Unseen /\ InHand' = InHand
      BY <2>3 DEF Named, Unseen, InHand
    <3>3. Course'
      BY <2>3, <3>1, <3>2 DEF Course
    <3>4. Counted'
      BY <2>1, <2>3, <3>2, StillCounted
    <3>5. Promised'
      <4>1. SUFFICES ASSUME walk.at = "manifest", manifest' = None,
                            NEW d \in steady', d \in MemberDirs
                     PROVE  FALSE
        BY <2>3 DEF Promised
      <4>2. d \in steady /\ InPlace(d)
        BY <2>1, <2>3, SteadyStays
      <4>3. manifest # None
        BY <3>1, <4>1, <4>2 DEF Promised
      <4>4. d \in Listed
        BY <4>1, <4>2, <4>3 DEF InPlace
      <4>5. disk'[d].cfg = None
        BY <1>2, <2>3, <4>1, <4>3, <4>4, ManifestGoesEmpty
      <4>. QED BY <2>1, <4>5 DEF InPlace
    <3>. QED BY <3>3, <3>4, <3>5
  <2>4. WalkInv'
    BY <1>2, <1>5, ObserveTyped DEF CountInv, WalkInv, StatusNext
  <2>. QED BY <1>2, <1>3, <1>5, <2>1, <2>2, <2>3, <2>4 DEF CountInv, StatusNext
<1>. QED BY <1>4, <1>5

\* global_status lists every sandbox that stays in place while it walks the root,
\* once, although the manifest that leads to it may come or go between two of its
\* reads (global_status.go, walkRoot).
THEOREM GlobalStatusListsOnce ==
  ASSUME Disciplined PROVE StatusSpec => []ListedOnce
<1>1. StatusInit => CountInv
  <2>1. ASSUME StatusInit PROVE CountInv
    <3>1. ClearedInv
      BY <2>1, ClearedInit DEF StatusInit
    <3>2. Ordered
      BY <2>1 DEF StatusInit, ClusterInit, Ordered
    <3>3. walk = NoWalk /\ walk.kind = "status" /\ walk.at = "idle" /\ steady = {}
      BY <2>1 DEF StatusInit, NoWalk
    <3>. QED BY <3>1, <3>2, <3>3, NoWalkTyped DEF CountInv, WalkInv, ClearedInv, AloneInv
  <2>. QED BY <2>1
<1>2. Disciplined /\ CountInv /\ [StatusNext]_statusVars => CountInv'
  BY CountStep
<1>3. CountInv => ListedOnce
  <2>1. ASSUME CountInv, walk.at = "render", walk.kind = "global_status",
               NEW d \in steady
        PROVE  walk.rows[d] = 1
    BY <2>1 DEF CountInv, Course, Counted, InHand
  <2>. QED BY <2>1 DEF ListedOnce
<1>. QED BY <1>1, <1>2, <1>3, PTL DEF StatusSpec

-----------------------------------------------------------------------------
\* What status shows

\* Between its two questions to a sandbox, what the first one found was so.
Witnessed ==
  walk.at = "listen" => IF walk.pid THEN "up" \in past ELSE "down" \in past

ShowInv == AloneInv /\ WalkInv /\ Witnessed

\* Only the look at the pidfile leads to the look at the port.
LEMMA OnlyPidAsks ==
  ASSUME WalkInv, Observe, ~CheckPid PROVE walk'.at # "listen"
<1>1. HostTypeOK /\ walk \in Walk
  BY DEF WalkInv, CluInv, Inv, TypeOK
<1>2. CASE VisitEntry
  <2>1. PICK d \in IF walk.inner # {} THEN walk.inner ELSE walk.outer :
          Look(d, [walk EXCEPT !.inner = @ \ {d}, !.outer = @ \ {d}])
    BY <1>2 DEF VisitEntry
  <2>. QED BY <1>1, <1>2, <2>1 DEF Look, VisitEntry, Walk
<1>3. CASE VisitMember
  BY <1>1, <1>3 DEF VisitMember, Look, Row, Walk
<1>4. CASE VisitCluster \/ LoadManifest \/ MembersVisited \/ Render \/ Finish
  BY <1>1, <1>4, NoWalkTyped
     DEF VisitCluster, LoadManifest, MembersVisited, Render, Finish, Walk
<1>5. CASE CheckListen \/ Probe
  BY <1>1, <1>5 DEF CheckListen, Probe, Resumed, Row, Walk
<1>6. CASE BeginStatus \/ BeginClusterStatus \/ BeginGlobalStatus
  BY <1>6, NoWalkTyped DEF BeginStatus, BeginClusterStatus, BeginGlobalStatus, Walk
<1>. QED BY <1>2, <1>3, <1>4, <1>5, <1>6 DEF Observe

LEMMA PidWitnessed ==
  ASSUME "pid" \notin Faults, ShowInv, CheckPid, UNCHANGED clusterVars, Witness
  PROVE  Witnessed'
<1>1. walk \in Walk /\ walk.dir \in Dirs /\ walk.dir # None
  BY NoneAssumption DEF ShowInv, WalkInv, CheckPid
<1>2. IsRunning(walk.dir) <=> srv[walk.dir] # None
  BY <1>1 DEF ShowInv, AloneInv, LifeInv, Sane, Coherent, IsRunning
<1>3. walk'.dir = walk.dir /\ (walk'.pid <=> IsRunning(walk.dir))
  BY <1>1 DEF CheckPid, Walk
<1>4. srv' = srv
  BY DEF clusterVars, vars, host
<1>. QED BY <1>1, <1>2, <1>3, <1>4 DEF Witness, Witnessed

LEMMA ShowStep ==
  ASSUME Disciplined, "pid" \notin Faults, ShowInv, [StatusNext]_statusVars
  PROVE  ShowInv'
<1>1. [ClusterNext]_clusterVars
  BY DEF StatusNext, statusVars
<1>2. AloneInv'
  BY <1>1, AloneStep DEF ShowInv
<1>3. WalkInv'
  BY <1>2, ObserveTyped DEF ShowInv, AloneInv, WalkInv, StatusNext, statusVars
<1>4. Witnessed'
  <2>1. CASE UNCHANGED statusVars
    BY <2>1 DEF ShowInv, Witnessed, statusVars
  <2>2. CASE ClusterNext /\ UNCHANGED walk /\ Witness
    BY <2>2, NoneAssumption DEF ShowInv, WalkInv, Witnessed, Witness
  <2>3. CASE Observe /\ UNCHANGED clusterVars /\ Witness
    <3>1. CASE CheckPid
      BY <2>3, <3>1, PidWitnessed
    <3>2. CASE ~CheckPid
      BY <2>3, <3>2, OnlyPidAsks DEF ShowInv, Witnessed
    <3>. QED BY <3>1, <3>2
  <2>. QED BY <2>1, <2>2, <2>3 DEF StatusNext
<1>. QED BY <1>2, <1>3, <1>4 DEF ShowInv

\* The row a sandbox gets after the two questions is one the answers allow.
LEMMA ShowsWitnessed ==
  ASSUME ShowInv, CheckListen,
         NEW d \in Dirs, walk'.rows[d] > walk.rows[d]
  PROVE  /\ walk'.state[d] = "running" => "up" \in past
         /\ walk'.state[d] = "stopped" => "down" \in past
<1> DEFINE state == StateOf(walk.pid, IsBusy(walk.port))
           shown == Row(walk, walk.dir, state)
<1>1. walk \in Walk /\ walk.dir \in Dirs /\ walk.at = "listen"
  BY DEF ShowInv, WalkInv, CheckListen
<1>2. /\ state \in RunStates
      /\ state = "running" => walk.pid
      /\ state = "stopped" => ~walk.pid
  BY DEF StateOf, RunStates
<1>3. walk' \in {[shown EXCEPT !.at = "sql"], Resumed(shown)}
  BY DEF CheckListen
<1> HIDE DEF state
<1>4. /\ shown \in Walk /\ shown.state[walk.dir] = state
      /\ \A e \in Dirs \ {walk.dir} : shown.rows[e] = walk.rows[e]
  BY <1>1, <1>2, RowMoves
<1> HIDE DEF shown
<1>5. walk'.rows = shown.rows /\ walk'.state = shown.state
  BY <1>3, <1>4, ResumedMoves DEF Walk
<1>6. d = walk.dir
  <2>1. walk.rows[d] \in Nat
    BY <1>1 DEF Walk
  <2>2. d # walk.dir => walk'.rows[d] = walk.rows[d]
    BY <1>4, <1>5
  <2>. QED BY <2>1, <2>2
<1>. QED BY <1>1, <1>2, <1>4, <1>5, <1>6 DEF ShowInv, Witnessed

\* A sandbox that a status command shows as running was up, and one it shows as
\* stopped was down, at some moment after its config was read: pidfile and port
\* are two reads, and commands go on between them (status.go, Status).
THEOREM StatusSawIt ==
  ASSUME Disciplined, "pid" \notin Faults PROVE StatusSpec => ShownWasTrue
<1>1. StatusInit => ShowInv
  <2>1. ASSUME StatusInit PROVE ShowInv
    <3>1. AloneInv
      BY <2>1, ClearedInit DEF StatusInit, ClearedInv
    <3>2. walk = NoWalk /\ walk.at = "idle"
      BY <2>1 DEF StatusInit, NoWalk
    <3>. QED BY <3>1, <3>2, NoWalkTyped DEF ShowInv, WalkInv, AloneInv, Witnessed
  <2>. QED BY <2>1
<1>2. Disciplined /\ "pid" \notin Faults /\ ShowInv /\ [StatusNext]_statusVars => ShowInv'
  BY ShowStep
<1>3. ShowInv /\ [StatusNext]_statusVars =>
        [\A d \in Dirs : walk'.rows[d] > walk.rows[d] /\ walk.at = "listen" =>
           /\ walk'.state[d] = "running" => "up" \in past
           /\ walk'.state[d] = "stopped" => "down" \in past]_statusVars
  <2>1. ASSUME ShowInv, StatusNext, NEW d \in Dirs,
               walk'.rows[d] > walk.rows[d], walk.at = "listen"
        PROVE  /\ walk'.state[d] = "running" => "up" \in past
               /\ walk'.state[d] = "stopped" => "down" \in past
    <3>1. walk.rows[d] \in Nat
      BY <2>1 DEF ShowInv, WalkInv, Walk
    <3>2. Observe
      BY <2>1, <3>1 DEF StatusNext
    <3>3. CheckListen
      BY <2>1, <3>2
         DEF Observe, BeginStatus, BeginClusterStatus, BeginGlobalStatus, VisitEntry,
             VisitCluster, LoadManifest, VisitMember, MembersVisited, CheckPid, Probe,
             Render, Finish
    <3>. QED BY <2>1, <3>3, ShowsWitnessed
  <2>. QED BY <2>1
<1>. QED BY <1>1, <1>2, <1>3, PTL DEF StatusSpec, ShownWasTrue
=============================================================================
