---------------------------- MODULE ConfigProofs ----------------------------
(***************************************************************************)
(* For any number of invocations, any values and any faults: what the      *)
(* config files promise, from one inductive invariant.                     *)
(***************************************************************************)
EXTENDS ConfigProps, TLAPS

\* What an invocation about to save holds is what it was asked to save, and one
\* about to remove the legacy file has a successor of it in place.
Prepared(p) ==
  /\ p.at \in {"write", "rename"} =>
       /\ p.new \in Settings
       /\ p.scope = "sandbox" => Valid(p.new)
       /\ p.op = "set" => p.new = Applied(p.old, p.pairs)
  /\ p.replace => p.scope = "sandbox"
  /\ p.op = "migrate" => p.scope = "sandbox"

ConfigInv ==
  /\ ConfigTypeOK
  /\ FilesStayWhole
  /\ \A u \in Users : /\ Prepared(proc[u])
                      /\ proc[u].at = "unlink" => Readable(file["sandbox"])

-----------------------------------------------------------------------------
\* Lemmas

LEMMA InitConfig == ConfigInit => ConfigInv
  <1> SUFFICES ASSUME ConfigInit PROVE ConfigInv
    OBVIOUS
  <1>1. PICK own \in Contents \ {Torn}, host \in Contents \ {Torn} :
          /\ file = [sandbox |-> own, global |-> host]
          /\ legacy = NoFile \/ legacy \in Settings
    BY DEF ConfigInit
  <1>2. file \in [Scopes -> Contents] /\ \A s \in Scopes : file[s] # Torn
    BY <1>1 DEF Scopes
  <1>3. Unset \in Settings
    BY DEF Unset, Settings
  <1>4. NoProcess \in Process
    BY <1>3 DEF NoProcess, Process, ConfigOps, ConfigPoints, Exits, Scopes,
       Contents
  <1>5. \A u \in Users : proc[u] = NoProcess
    BY DEF ConfigInit
  <1>6. NoProcess.at = "ok" /\ ~NoProcess.replace /\ NoProcess.op = "idle"
    BY DEF NoProcess
  <1>7. \A u \in Users : Prepared(proc[u]) /\ proc[u].at # "unlink"
    BY <1>5, <1>6 DEF Prepared
  <1> QED
    BY <1>1, <1>2, <1>4, <1>5, <1>7 DEF ConfigInit, ConfigInv, ConfigTypeOK,
       FilesStayWhole

\* Every step gives one invocation a new place; what it leaves is enough to know.
LEMMA Moves ==
  ASSUME ConfigInv, NEW u \in Users, NEW p \in Process,
         proc' = [proc EXCEPT ![u] = p], Prepared(p),
         file' \in [Scopes -> Contents], FilesStayWhole',
         legacy' \in Settings \cup {NoFile}, calls' \in Nat,
         Readable(file["sandbox"]) => Readable(file'["sandbox"]),
         p.at = "unlink" => Readable(file'["sandbox"])
  PROVE  ConfigInv'
  <1>1. proc' \in [Users -> Process]
    BY DEF ConfigInv, ConfigTypeOK
  <1>2. ASSUME NEW v \in Users
        PROVE  /\ Prepared(proc'[v])
               /\ proc'[v].at = "unlink" => Readable(file'["sandbox"])
    <2>1. CASE v = u
      <3>1. proc'[v] = p
        BY <2>1 DEF ConfigInv, ConfigTypeOK
      <3> QED
        BY <3>1
    <2>2. CASE v # u
      <3>1. proc'[v] = proc[v]
        BY <2>2 DEF ConfigInv, ConfigTypeOK
      <3> QED
        BY <3>1 DEF ConfigInv
    <2> QED
      BY <2>1, <2>2
  <1> QED
    BY <1>1, <1>2 DEF ConfigInv, ConfigTypeOK

LEMMA MovesQuietly ==
  ASSUME ConfigInv, NEW u \in Users, NEW p \in Process,
         proc' = [proc EXCEPT ![u] = p], Prepared(p),
         UNCHANGED Files, calls' \in Nat, p.at # "unlink"
  PROVE  ConfigInv'
  BY Moves DEF ConfigInv, ConfigTypeOK, Files, FilesStayWhole

LEMMA NoProcessTyped ==
  /\ NoProcess \in Process
  /\ \A outcome \in Exits : /\ [NoProcess EXCEPT !.at = outcome] \in Process
                            /\ Prepared([NoProcess EXCEPT !.at = outcome])
  <1>1. Unset \in Settings
    BY DEF Unset, Settings
  <1> QED
    BY <1>1 DEF NoProcess, Process, ConfigOps, ConfigPoints, Exits, Scopes,
       Contents, Prepared

LEMMA Leaves ==
  ASSUME ConfigInv, NEW u \in Users, NEW outcome \in Exits,
         Exit(u, outcome), UNCHANGED <<Files, calls>>
  PROVE  ConfigInv'
  <1> DEFINE p == [NoProcess EXCEPT !.at = outcome]
  <1>1. p \in Process /\ Prepared(p) /\ p.at # "unlink"
    BY NoProcessTyped DEF NoProcess, Exits
  <1>2. proc' = [proc EXCEPT ![u] = p] /\ calls' \in Nat
    BY DEF Exit, ConfigInv, ConfigTypeOK
  <1> QED
    BY <1>1, <1>2, MovesQuietly

\* Going on with what it has.
LEMMA GoesOn ==
  ASSUME ConfigInv, NEW u \in Users, NEW at \in ConfigPoints,
         Goto(u, at), UNCHANGED <<Files, calls>>, at # "unlink",
         at \in {"write", "rename"} => proc[u].at \in {"write", "rename"}
  PROVE  ConfigInv'
  <1> DEFINE p == [proc[u] EXCEPT !.at = at]
  <1>1. proc[u] \in Process /\ Prepared(proc[u])
    BY DEF ConfigInv, ConfigTypeOK
  <1>2. p \in Process
    BY <1>1 DEF Process
  <1>3. Prepared(p) /\ p.at # "unlink"
    BY <1>1 DEF Prepared, Process
  <1>4. proc' = [proc EXCEPT ![u] = p] /\ calls' \in Nat
    BY DEF Goto, ConfigInv, ConfigTypeOK
  <1> QED
    BY <1>2, <1>3, <1>4, MovesQuietly

LEMMA Starts ==
  ASSUME ConfigInv, NEW u \in Users, NEW p \in Process,
         NEW at \in {"load", "scan"}, Start(u, p, at),
         p.replace => p.scope = "sandbox",
         p.op = "migrate" => p.scope = "sandbox"
  PROVE  ConfigInv'
  <1> DEFINE q == [p EXCEPT !.at = at]
  <1>1. q \in Process /\ Prepared(q) /\ q.at # "unlink"
    BY DEF Process, ConfigPoints, Prepared
  <1>2. /\ proc' = [proc EXCEPT ![u] = q] /\ UNCHANGED Files /\ calls' \in Nat
    BY DEF Start, ConfigInv, ConfigTypeOK
  <1> QED
    BY <1>1, <1>2, MovesQuietly

-----------------------------------------------------------------------------
\* One lemma for every action

LEMMA UserAtKeepsCalls ==
  ASSUME ConfigInv, NEW u \in Users, NEW op, NEW at, UserAt(u, op, at)
  PROVE  UNCHANGED calls /\ proc[u].op = op /\ proc[u].at = at
  BY DEF UserAt

LEMMA BeginInv ==
  ASSUME ConfigInv, NEW u \in Users,
         BeginSet(u) \/ BeginShow(u) \/ BeginMigrate(u)
  PROVE  ConfigInv'
  <1>1. CASE BeginSet(u)
    <2>1. PICK scope \in Scopes, pairs \in Settings :
            Start(u, [NoProcess EXCEPT !.op = "set", !.scope = scope,
                                       !.pairs = pairs], "load")
      BY <1>1 DEF BeginSet
    <2> DEFINE p == [NoProcess EXCEPT !.op = "set", !.scope = scope,
                                      !.pairs = pairs]
    <2>2. p \in Process /\ p.replace = FALSE /\ p.op = "set"
      BY NoProcessTyped DEF Process, ConfigOps, NoProcess
    <2> QED
      BY <2>1, <2>2, Starts
  <1>2. CASE BeginShow(u)
    <2>1. PICK pairs \in Settings :
            Start(u, [NoProcess EXCEPT !.op = "show", !.pairs = pairs], "load")
      BY <1>2 DEF BeginShow
    <2> DEFINE p == [NoProcess EXCEPT !.op = "show", !.pairs = pairs]
    <2>2. p \in Process /\ p.replace = FALSE /\ p.op = "show"
      BY NoProcessTyped DEF Process, ConfigOps, NoProcess
    <2> QED
      BY <2>1, <2>2, Starts
  <1>3. CASE BeginMigrate(u)
    <2>1. PICK replace \in BOOLEAN :
            Start(u, [NoProcess EXCEPT !.op = "migrate", !.replace = replace],
                  "scan")
      BY <1>3 DEF BeginMigrate
    <2> DEFINE p == [NoProcess EXCEPT !.op = "migrate", !.replace = replace]
    <2>2. p \in Process /\ p.scope = "sandbox"
      BY NoProcessTyped DEF Process, ConfigOps, NoProcess
    <2> QED
      BY <2>1, <2>2, Starts
  <1> QED
    BY <1>1, <1>2, <1>3

LEMMA WriteTempInv ==
  ASSUME ConfigInv, NEW u \in Users, WriteTemp(u)
  PROVE  ConfigInv'
  <1>1. /\ UNCHANGED <<Files, calls>> /\ proc[u].at = "write"
        /\ Goto(u, "rename") \/ Exit(u, "fail")
    BY DEF WriteTemp
  <1> QED
    BY <1>1, GoesOn, Leaves DEF ConfigPoints, Exits

LEMMA RenameInv ==
  ASSUME ConfigInv, NEW u \in Users, Rename(u)
  PROVE  ConfigInv'
  <1>1. /\ proc[u] \in Process /\ Prepared(proc[u]) /\ proc[u].at = "rename"
        /\ proc[u].new \in Settings /\ proc[u].scope \in Scopes
    BY DEF ConfigInv, ConfigTypeOK, Rename, Prepared, Process
  <1>2. CASE UNCHANGED file /\ Exit(u, "fail")
    BY <1>2, Leaves DEF Rename, Files, Exits
  <1>3. CASE /\ file' = [file EXCEPT ![proc[u].scope] = proc[u].new]
             /\ IF proc[u].replace THEN Goto(u, "unlink") ELSE Exit(u, "ok")
    <2> DEFINE p == IF proc[u].replace THEN [proc[u] EXCEPT !.at = "unlink"]
                    ELSE [NoProcess EXCEPT !.at = "ok"]
    <2>1. p \in Process /\ Prepared(p)
      BY <1>1, NoProcessTyped DEF Process, ConfigPoints, Exits, Prepared
    <2>2. proc' = [proc EXCEPT ![u] = p]
      BY <1>3 DEF Goto, Exit
    <2>3. Readable(proc[u].new) /\ proc[u].new \in Contents /\ proc[u].new # Torn
      BY <1>1, SentinelsAssumption DEF Readable, Contents
    <2>4. file' \in [Scopes -> Contents] /\ FilesStayWhole'
      BY <1>1, <1>3, <2>3 DEF ConfigInv, ConfigTypeOK, FilesStayWhole
    <2>5. Readable(file["sandbox"]) => Readable(file'["sandbox"])
      BY <1>1, <1>3, <2>3 DEF ConfigInv, ConfigTypeOK, Scopes
    <2>6. p.at = "unlink" => Readable(file'["sandbox"])
      <3> SUFFICES ASSUME p.at = "unlink" PROVE Readable(file'["sandbox"])
        OBVIOUS
      <3>1. proc[u].replace
        BY DEF NoProcess
      <3>2. proc[u].scope = "sandbox"
        BY <1>1, <3>1 DEF Prepared
      <3> QED
        BY <1>3, <2>3, <3>2 DEF ConfigInv, ConfigTypeOK, Scopes
    <2>7. legacy' \in Settings \cup {NoFile} /\ calls' \in Nat
      BY DEF Rename, ConfigInv, ConfigTypeOK
    <2> HIDE DEF p
    <2> QED
      BY <2>1, <2>2, <2>4, <2>5, <2>6, <2>7, Moves
  <1> QED
    BY <1>2, <1>3 DEF Rename

LEMMA AppliedTyped ==
  ASSUME NEW s \in Settings, NEW pairs \in Settings
  PROVE  Applied(s, pairs) \in Settings
  BY DEF Applied, Settings

LEMMA SetLoadInv ==
  ASSUME ConfigInv, NEW u \in Users, SetLoad(u)
  PROVE  ConfigInv'
  <1> DEFINE p == proc[u]
             absent == p.scope = "global" /\ file["global"] = NoFile
             old == IF absent THEN [Unset EXCEPT !["port"] = DefaultPort]
                    ELSE file[p.scope]
             staged == Staged(p.scope, old, p.pairs)
             q == [[p EXCEPT !.old = old] EXCEPT !.new = staged, !.at = "write"]
  <1>1. p \in Process /\ Prepared(p) /\ p.op = "set" /\ p.at = "load"
    BY DEF ConfigInv, ConfigTypeOK, SetLoad, UserAt
  <1>2. UNCHANGED <<Files, calls>>
    BY DEF SetLoad, UserAt
  <1>3. CASE Exit(u, "fail")
    BY <1>2, <1>3, Leaves DEF Exits
  <1>4. CASE /\ Readable(old) /\ Accepted(p.scope, staged, p.pairs)
             /\ proc' = [proc EXCEPT ![u].old = old, ![u].new = staged,
                                     ![u].at = "write"]
    <2>1. old \in Contents
      <3>1. [Unset EXCEPT !["port"] = DefaultPort] \in Settings
        BY ValuesAssumption DEF Unset, Settings, Keys
      <3>2. file[p.scope] \in Contents
        BY <1>1 DEF ConfigInv, ConfigTypeOK, Process
      <3> QED
        BY <3>1, <3>2 DEF Contents
    <2>2. old \in Settings
      BY <1>4, <2>1 DEF Readable, Contents
    <2>3. staged \in Settings /\ staged = Applied(old, p.pairs)
      BY <1>1, <2>2, AppliedTyped DEF Staged, Process
    <2>4. p.scope = "sandbox" => Valid(staged)
      BY <1>4 DEF Accepted
    <2> HIDE DEF old, staged
    <2>5. q \in Process /\ Prepared(q) /\ q.at # "unlink"
      BY <1>1, <2>2, <2>3, <2>4 DEF Process, Prepared, Contents, ConfigPoints
    <2>6. proc' = [proc EXCEPT ![u] = q]
      BY <1>4
    <2>7. calls' \in Nat
      BY <1>2 DEF ConfigInv, ConfigTypeOK
    <2> HIDE DEF q
    <2> QED
      BY <1>2, <2>5, <2>6, <2>7, MovesQuietly
  <1> QED
    BY <1>3, <1>4 DEF SetLoad

LEMMA ShowLoadInv ==
  ASSUME ConfigInv, NEW u \in Users, ShowLoad(u)
  PROVE  ConfigInv'
  <1> DEFINE q == [proc[u] EXCEPT !.old = file["sandbox"], !.at = "global"]
  <1>1. /\ proc[u] \in Process /\ Prepared(proc[u])
        /\ UNCHANGED <<Files, calls>> /\ file["sandbox"] \in Contents
    BY DEF ConfigInv, ConfigTypeOK, ShowLoad, UserAt, Scopes
  <1>2. CASE Exit(u, "fail")
    BY <1>1, <1>2, Leaves DEF Exits
  <1>3. CASE proc' = [proc EXCEPT ![u].old = file["sandbox"], ![u].at = "global"]
    <2>1. q \in Process /\ Prepared(q) /\ q.at # "unlink"
      BY <1>1 DEF Process, Prepared, ConfigPoints
    <2>2. proc' = [proc EXCEPT ![u] = q] /\ calls' \in Nat
      BY <1>1, <1>3 DEF ConfigInv, ConfigTypeOK
    <2> HIDE DEF q
    <2> QED
      BY <1>1, <2>1, <2>2, MovesQuietly
  <1> QED
    BY <1>2, <1>3 DEF ShowLoad

LEMMA SourceTyped ==
  ASSUME NEW k, NEW env, NEW own, NEW host
  PROVE  Source(k, env, own, host)
           \in {"env", "sandbox-file", "global-file", "default"}
  BY DEF Source

LEMMA ShowGlobalInv ==
  ASSUME ConfigInv, NEW u \in Users, ShowGlobal(u)
  PROVE  ConfigInv'
  <1> DEFINE p == proc[u]
             shown == [k \in Keys |-> Source(k, p.pairs, p.old, file["global"])]
             q == [p EXCEPT !.host = file["global"], !.at = "ok", !.shown = shown]
  <1>1. /\ p \in Process /\ Prepared(p)
        /\ UNCHANGED <<Files, calls>> /\ file["global"] \in Contents
    BY DEF ConfigInv, ConfigTypeOK, ShowGlobal, UserAt, Scopes
  <1>2. shown \in [Keys -> {"nothing", "env", "sandbox-file", "global-file",
                            "default"}]
    BY SourceTyped
  <1>3. CASE Exit(u, "fail")
    BY <1>1, <1>3, Leaves DEF Exits
  <1>4. CASE proc' = [proc EXCEPT ![u].host = file["global"], ![u].at = "ok",
                                  ![u].shown = shown]
    <2>1. proc' = [proc EXCEPT ![u] = q] /\ calls' \in Nat
      BY <1>1, <1>4 DEF ConfigInv, ConfigTypeOK
    <2> HIDE DEF shown
    <2>2. q \in Process /\ Prepared(q) /\ q.at # "unlink"
      BY <1>1, <1>2 DEF Process, Prepared, Exits
    <2> HIDE DEF q
    <2> QED
      BY <1>1, <2>1, <2>2, MovesQuietly
  <1> QED
    BY <1>3, <1>4 DEF ShowGlobal

LEMMA MigrateScanInv ==
  ASSUME ConfigInv, NEW u \in Users, MigrateScan(u)
  PROVE  ConfigInv'
  <1>1. UNCHANGED <<Files, calls>> /\ (Goto(u, "load") \/ Exit(u, "fail"))
    BY DEF MigrateScan, UserAt
  <1> QED
    BY <1>1, GoesOn, Leaves DEF ConfigPoints, Exits

LEMMA MigrateLoadInv ==
  ASSUME ConfigInv, NEW u \in Users, MigrateLoad(u)
  PROVE  ConfigInv'
  <1> DEFINE p == proc[u]
             filled == IF legacy = NoFile THEN Unset
                       ELSE [legacy EXCEPT !["port"] = IF @ = "" THEN DefaultPort
                                                       ELSE @]
             q == [p EXCEPT !.new = filled, !.at = "write"]
  <1>1. /\ p \in Process /\ Prepared(p) /\ p.op = "migrate"
        /\ UNCHANGED <<Files, calls>> /\ legacy \in Settings \cup {NoFile}
    BY DEF ConfigInv, ConfigTypeOK, MigrateLoad, UserAt
  <1>2. CASE Exit(u, "fail")
    BY <1>1, <1>2, Leaves DEF Exits
  <1>3. CASE Valid(filled) /\ proc' = [proc EXCEPT ![u].new = filled,
                                                   ![u].at = "write"]
    <2>1. filled \in Settings
      BY <1>1, ValuesAssumption DEF Unset, Settings, Keys
    <2> HIDE DEF filled
    <2>2. q \in Process /\ q.at # "unlink"
      BY <1>1, <2>1 DEF Process, Contents, ConfigPoints
    <2>3. q.old = p.old /\ q.op = "migrate"
      BY <1>1 DEF Process
    <2>4. calls' \in Nat
      BY <1>1 DEF ConfigInv, ConfigTypeOK
    <2>5. proc' = [proc EXCEPT ![u] = q]
      BY <1>3
    <2>6. Prepared(q)
      BY <1>1, <1>3, <2>1 DEF Prepared, Process
    <2> HIDE DEF q
    <2> QED
      BY <1>1, <2>2, <2>4, <2>5, <2>6, MovesQuietly
  <1> QED
    BY <1>2, <1>3 DEF MigrateLoad

LEMMA MigrateUnlinkInv ==
  ASSUME ConfigInv, NEW u \in Users, MigrateUnlink(u)
  PROVE  ConfigInv'
  <1> DEFINE Left(outcome) == [NoProcess EXCEPT !.at = outcome]
  <1>1. PICK outcome \in Exits : proc' = [proc EXCEPT ![u] = Left(outcome)]
    BY DEF MigrateUnlink, Exit, Exits
  <1>2. /\ Left(outcome) \in Process /\ Prepared(Left(outcome))
        /\ Left(outcome).at # "unlink"
    BY NoProcessTyped DEF NoProcess, Exits
  <1>3. /\ UNCHANGED file /\ calls' \in Nat /\ legacy' \in Settings \cup {NoFile}
    BY DEF MigrateUnlink, UserAt, ConfigInv, ConfigTypeOK
  <1>4. file' \in [Scopes -> Contents] /\ FilesStayWhole'
    BY <1>3 DEF ConfigInv, ConfigTypeOK, FilesStayWhole
  <1> HIDE DEF Left
  <1> QED
    BY <1>1, <1>2, <1>3, <1>4, Moves

LEMMA KillUserInv ==
  ASSUME ConfigInv, NEW u \in Users, KillUser(u)
  PROVE  ConfigInv'
  BY Leaves DEF KillUser, Exits

LEMMA StepConfig == ConfigInv /\ [ConfigNext]_configVars => ConfigInv'
  <1> SUFFICES ASSUME ConfigInv, [ConfigNext]_configVars PROVE ConfigInv'
    OBVIOUS
  <1>1. CASE UNCHANGED configVars
    BY <1>1 DEF configVars, ConfigInv, ConfigTypeOK, FilesStayWhole
  <1>2. ASSUME NEW u \in Users,
               \/ BeginSet(u) \/ BeginShow(u) \/ BeginMigrate(u)
               \/ ConfigStep(u) \/ KillUser(u)
        PROVE  ConfigInv'
    BY <1>2, BeginInv, KillUserInv, WriteTempInv, RenameInv, SetLoadInv,
       ShowLoadInv, ShowGlobalInv, MigrateScanInv, MigrateLoadInv,
       MigrateUnlinkInv DEF ConfigStep
  <1> QED
    BY <1>1, <1>2 DEF ConfigNext

LEMMA AlwaysConfig == ConfigSpec => []ConfigInv
  <1> QED
    BY InitConfig, StepConfig, PTL DEF ConfigSpec

-----------------------------------------------------------------------------
\* Theorems

\* Every variable keeps its type: no invocation saves or shows what is not a
\* config (load_save.go, cmd/pg_sandbox/config.go).
THEOREM ConfigTyped == ConfigSpec => []ConfigTypeOK
  <1>1. ConfigInv => ConfigTypeOK
    BY DEF ConfigInv
  <1> QED
    BY <1>1, AlwaysConfig, PTL

\* No file at a final path is ever torn, however many invocations write at once
\* and wherever they are killed (load_save.go, saveJSONAtomic).
THEOREM FilesAreWhole == ConfigSpec => []FilesStayWhole
  <1>1. ConfigInv => FilesStayWhole
    BY DEF ConfigInv
  <1> QED
    BY <1>1, AlwaysConfig, PTL

\* What becomes the config of a sandbox passes Validate, whatever it replaces
\* (runConfigSet and runConfigMigrate in cmd/pg_sandbox/config.go).
THEOREM SavedIsValid == ConfigSpec => OnlyValidSaved
  <1>1. ConfigInv /\ [ConfigNext]_configVars
          => (file'["sandbox"] # file["sandbox"] =>
                Readable(file'["sandbox"]) /\ Valid(file'["sandbox"]))
    <2> SUFFICES ASSUME ConfigInv, [ConfigNext]_configVars,
                        file'["sandbox"] # file["sandbox"]
                 PROVE  Readable(file'["sandbox"]) /\ Valid(file'["sandbox"])
      OBVIOUS
    <2>1. PICK u \in Users :
            /\ proc[u].at = "rename"
            /\ file' = [file EXCEPT ![proc[u].scope] = proc[u].new]
      BY DEF ConfigNext, configVars, ConfigStep, BeginSet, BeginShow,
         BeginMigrate, Start, Files, WriteTemp, Rename, SetLoad, ShowLoad,
         ShowGlobal, MigrateScan, MigrateLoad, MigrateUnlink, KillUser
    <2>2. Prepared(proc[u])
      BY DEF ConfigInv
    <2>3. proc[u].scope = "sandbox" /\ file'["sandbox"] = proc[u].new
      BY <2>1 DEF ConfigInv, ConfigTypeOK, Scopes
    <2> QED
      BY <2>1, <2>2, <2>3, SentinelsAssumption DEF Prepared, Readable
  <1> QED
    BY <1>1, AlwaysConfig, PTL DEF ConfigSpec, OnlyValidSaved

\* The settings of a legacy sandbox survive every interleaving of migrates, sets
\* and kills: its legacy file goes only once a readable config is in place
\* (migrate.go).
THEOREM LegacySurvives == ConfigSpec => SettingsSurviveMigration
  <1>1. ConfigInv /\ [ConfigNext]_configVars
          => (legacy # NoFile \/ Readable(file["sandbox"]) =>
                legacy' # NoFile \/ Readable(file'["sandbox"]))
    <2> SUFFICES ASSUME ConfigInv, [ConfigNext]_configVars,
                        legacy # NoFile \/ Readable(file["sandbox"])
                 PROVE  legacy' # NoFile \/ Readable(file'["sandbox"])
      OBVIOUS
    <2>1. CASE UNCHANGED Files
      BY <2>1 DEF Files
    <2>2. CASE \E u \in Users : Rename(u)
      <3>1. PICK u \in Users : Rename(u)
        BY <2>2
      <3>2. CASE UNCHANGED file
        BY <3>1, <3>2 DEF Rename
      <3>3. CASE file' = [file EXCEPT ![proc[u].scope] = proc[u].new]
        <4>1. Readable(proc[u].new) /\ proc[u].scope \in Scopes
          BY <3>1, SentinelsAssumption
          DEF Rename, ConfigInv, Prepared, Readable, ConfigTypeOK, Process
        <4>2. Readable(file["sandbox"]) => Readable(file'["sandbox"])
          BY <3>3, <4>1 DEF ConfigInv, ConfigTypeOK, Scopes
        <4> QED
          BY <3>1, <4>2 DEF Rename
      <3> QED
        BY <3>1, <3>2, <3>3 DEF Rename
    <2>3. CASE \E u \in Users : MigrateUnlink(u)
      BY <2>3 DEF MigrateUnlink, UserAt, ConfigInv
    <2> QED
      BY <2>1, <2>2, <2>3 DEF ConfigNext, configVars, ConfigStep, BeginSet,
         BeginShow, BeginMigrate, Start, Files, WriteTemp, SetLoad, ShowLoad,
         ShowGlobal, MigrateScan, MigrateLoad, KillUser
  <1> QED
    BY <1>1, AlwaysConfig, PTL DEF ConfigSpec, SettingsSurviveMigration

\* A set writes back what it read, but for the keys it was asked for, whatever
\* is in the environment and in the other file (config.go, runConfigSet).
THEOREM SetWritesItsKeys == ConfigSpec => SetTouchesOnlyItsKeys
  <1>1. ASSUME ConfigInv, [ConfigNext]_configVars, NEW u \in Users,
               NEW scope \in Scopes, proc[u].op = "set", proc[u].scope = scope,
               proc'[u] # proc[u], file'[scope] # file[scope]
        PROVE  file'[scope] = Applied(proc[u].old, proc[u].pairs)
    <2>1. PICK v \in Users : Rename(v) /\ file' # file
      BY <1>1 DEF ConfigNext, configVars, ConfigStep, BeginSet, BeginShow,
         BeginMigrate, Start, Files, WriteTemp, Rename, SetLoad, ShowLoad,
         ShowGlobal, MigrateScan, MigrateLoad, MigrateUnlink, KillUser
    <2>2. v = u
      BY <1>1, <2>1 DEF Rename, Goto, Exit, ConfigInv, ConfigTypeOK
    <2>3. proc[u].at = "rename" /\ file'[scope] = proc[u].new
      BY <1>1, <2>1, <2>2 DEF Rename, ConfigInv, ConfigTypeOK
    <2> QED
      BY <1>1, <2>3 DEF ConfigInv, Prepared
  <1>2. ConfigInv /\ [ConfigNext]_configVars =>
          \A u \in Users, scope \in Scopes :
            /\ proc[u].op = "set" /\ proc[u].scope = scope
            /\ proc'[u] # proc[u] /\ file'[scope] # file[scope]
            => file'[scope] = Applied(proc[u].old, proc[u].pairs)
    BY <1>1
  <1> QED
    BY <1>2, AlwaysConfig, PTL DEF ConfigSpec, SetTouchesOnlyItsKeys

\* What a show that has ended tells, process by process.
Told(p) ==
  p.op = "show" /\ p.at = "ok" => \A k \in Keys :
    /\ p.pairs[k] # "" <=> p.shown[k] = "env"
    /\ p.shown[k] \in {"global-file", "default"} => p.old[k] = ""
    /\ p.shown[k] = "sandbox-file" => p.old[k] # ""
    /\ p.shown[k] \in {"global-file", "default"} =>
         (p.shown[k] = "global-file" <=>
            k # "port" /\ Readable(p.host) /\ p.host[k] # "")

\* A show that has ended tells, for every key, the strongest layer that has it,
\* whatever keys an editor left out of the files, valid or not, and whatever
\* becomes of the files meanwhile: both are read once
\* (cmd/pg_sandbox/config.go, pickString and pickPort in resolve.go).
THEOREM ShownIsTrue == ConfigSpec => []ShownIsStrongest
  <1>1. ShownIsStrongest <=> \A u \in Users : Told(proc[u])
    BY DEF ShownIsStrongest, Told
  <1>2. ConfigInit => \A u \in Users : Told(proc[u])
    <2>1. NoProcess.op = "idle"
      BY DEF NoProcess
    <2> QED
      BY <2>1 DEF ConfigInit, Told
  <1>3. ASSUME ConfigInv, [ConfigNext]_configVars, \A u \in Users : Told(proc[u])
        PROVE  \A u \in Users : Told(proc'[u])
    <2> SUFFICES ASSUME NEW v \in Users, proc'[v] # proc[v]
                 PROVE  Told(proc'[v])
      <3>1. \A v \in Users : proc'[v] = proc[v] => Told(proc'[v])
        BY <1>3
      <3> QED
        BY <3>1
    <2>1. PICK u \in Users :
            \/ BeginSet(u) \/ BeginShow(u) \/ BeginMigrate(u)
            \/ ConfigStep(u) \/ KillUser(u)
      BY <1>3 DEF ConfigNext, configVars
    <2>2. v = u
      BY <1>3, <2>1 DEF ConfigStep, BeginSet, BeginShow, BeginMigrate, Start, Goto, Exit,
         WriteTemp, Rename, SetLoad, ShowLoad, ShowGlobal, MigrateScan,
         MigrateLoad, MigrateUnlink, KillUser, ConfigInv, ConfigTypeOK
    <2>3. proc \in [Users -> Process] /\ proc[u] \in Process
      BY <1>3 DEF ConfigInv, ConfigTypeOK
    <2>4. CASE ShowGlobal(u)
      <3> DEFINE p == proc[u]
                 shown == [k \in Keys |-> Source(k, p.pairs, p.old, file["global"])]
                 q == [p EXCEPT !.host = file["global"], !.at = "ok", !.shown = shown]
      <3>1. CASE Exit(u, "fail")
        BY <2>2, <2>3, <3>1 DEF Exit, NoProcess, Told
      <3>2. CASE proc' = [proc EXCEPT ![u].host = file["global"], ![u].at = "ok",
                                      ![u].shown = shown]
        <4>1. proc'[v] = q
          BY <2>2, <2>3, <3>2
        <4> HIDE DEF shown
        <4>2. /\ q.pairs = p.pairs /\ q.old = p.old
              /\ q.host = file["global"] /\ q.shown = shown
          BY <2>3 DEF Process
        <4>3. ASSUME NEW k \in Keys
              PROVE  /\ p.pairs[k] # "" <=> shown[k] = "env"
                     /\ shown[k] \in {"global-file", "default"} => p.old[k] = ""
                     /\ shown[k] = "sandbox-file" => p.old[k] # ""
                     /\ shown[k] \in {"global-file", "default"} =>
                          (shown[k] = "global-file" <=>
                             /\ k # "port" /\ Readable(file["global"])
                             /\ file["global"][k] # "")
          BY DEF shown, Source, HostWide, Keys
        <4> HIDE DEF q, p
        <4> QED
          BY <4>1, <4>2, <4>3 DEF Told
      <3> QED
        BY <2>4, <3>1, <3>2 DEF ShowGlobal
    <2>5. CASE BeginSet(u) \/ BeginShow(u) \/ BeginMigrate(u)
      <3>1. proc'[v].at \in {"load", "scan"}
        <4>1. ASSUME NEW p \in Process, NEW at, Start(u, p, at)
              PROVE  proc'[v].at = at
          <5> DEFINE q == [p EXCEPT !.at = at]
          <5>1. q.at = at /\ proc'[v] = q
            BY <2>2, <2>3, <4>1 DEF Start, Process
          <5> QED
            BY <5>1
        <4>2. CASE BeginSet(u)
          BY <4>1, <4>2, NoProcessTyped DEF BeginSet, Process, ConfigOps
        <4>3. CASE BeginShow(u)
          BY <4>1, <4>3, NoProcessTyped DEF BeginShow, Process, ConfigOps
        <4>4. CASE BeginMigrate(u)
          BY <4>1, <4>4, NoProcessTyped DEF BeginMigrate, Process, ConfigOps
        <4> QED
          BY <2>5, <4>2, <4>3, <4>4
      <3> QED
        BY <3>1 DEF Told
    <2>6. CASE ~ShowGlobal(u) /\ (ConfigStep(u) \/ KillUser(u))
      <3>1. proc'[v].at # "ok" \/ proc'[v].op = "idle"
        <4>1. ASSUME NEW outcome, Exit(u, outcome) PROVE proc'[v].op = "idle"
          BY <2>2, <2>3, <4>1 DEF Exit, NoProcess
        <4>2. ASSUME NEW point, Goto(u, point) PROVE proc'[v].at = point
          BY <2>2, <2>3, <4>2 DEF Goto, Process
        <4>3. CASE SetLoad(u)
          <5> DEFINE absent == proc[u].scope = "global" /\ file["global"] = NoFile
                     old == IF absent THEN [Unset EXCEPT !["port"] = DefaultPort]
                            ELSE file[proc[u].scope]
                     staged == Staged(proc[u].scope, old, proc[u].pairs)
          <5>1. \/ Exit(u, "fail")
                \/ proc' = [proc EXCEPT ![u].old = old, ![u].new = staged,
                                        ![u].at = "write"]
            BY <4>3 DEF SetLoad
          <5> HIDE DEF old, staged
          <5> QED
            BY <2>2, <2>3, <4>1, <5>1 DEF Process
        <4>4. CASE ShowLoad(u)
          BY <2>2, <2>3, <4>1, <4>4 DEF ShowLoad, Process
        <4>5. CASE MigrateLoad(u)
          <5> DEFINE filled == IF legacy = NoFile THEN Unset
                               ELSE [legacy EXCEPT !["port"] = IF @ = "" THEN DefaultPort
                                                               ELSE @]
          <5>1. \/ Exit(u, "fail")
                \/ proc' = [proc EXCEPT ![u].new = filled, ![u].at = "write"]
            BY <4>5 DEF MigrateLoad
          <5> HIDE DEF filled
          <5> QED
            BY <2>2, <2>3, <4>1, <5>1 DEF Process
        <4> QED
          BY <2>6, <4>1, <4>2, <4>3, <4>4, <4>5
          DEF ConfigStep, WriteTemp, Rename, MigrateScan, MigrateUnlink, KillUser
      <3> QED
        BY <3>1 DEF Told
    <2> QED
      BY <2>1, <2>4, <2>5, <2>6
  <1>4. ConfigInv /\ ShownIsStrongest /\ [ConfigNext]_configVars => ShownIsStrongest'
    <2>1. (\A u \in Users : Told(proc'[u])) => ShownIsStrongest'
      BY DEF Told, ShownIsStrongest
    <2> QED
      BY <1>1, <1>3, <2>1
  <1>5. ConfigInit => ShownIsStrongest
    BY <1>1, <1>2
  <1> QED
    BY <1>4, <1>5, AlwaysConfig, PTL DEF ConfigSpec
=============================================================================
