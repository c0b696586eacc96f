---------------------------- MODULE ConfigStore ----------------------------
(***************************************************************************)
(* The config files and the config command: set, show, get, validate and   *)
(* migrate, on one sandbox and on the host-wide file.                      *)
(*                                                                         *)
(* A file is what its settings are.  A key has a value of Values, "bad"    *)
(* for one that Validate refuses (a relative path, a port out of range),   *)
(* or "" where the file does not have it.  Which keys there are matters to *)
(* no definition but Layers: binDir and port of a sandbox have the shape   *)
(* of all others, with and without a counterpart in the host-wide file.    *)
(*                                                                         *)
(* Every command is a process of its own that takes no lock.               *)
(***************************************************************************)
EXTENDS Integers

CONSTANTS
  Users,       \* invocations that can be in flight together
  Values,      \* acceptable values of a key
  DefaultPort, \* the one a config gets that was given none
  NoFile,      \* there is no such file
  Torn,        \* half of one
  Unusable,    \* not JSON, an unknown field, or a schemaVersion of a newer program
  Faults,      \* "cli": an invocation is killed; "io": a file operation fails
  MaxCalls     \* bound on the number of invocations

ASSUME ValuesAssumption ==
  /\ DefaultPort \in Values /\ Values \cap {"", "bad", "default"} = {}
  /\ MaxCalls \in Nat /\ Faults \subseteq {"cli", "io"}

VARIABLES
  file,     \* file["sandbox"], file["global"]: the files at their final paths
  legacy,   \* pg_sandbox.env of the sandbox, or NoFile
  proc,     \* proc[u]: where invocation u stands and what it remembers
  calls     \* invocations begun so far

configVars == <<file, legacy, proc, calls>>

Scopes == {"sandbox", "global"}

Keys == {"binDir", "port"}

Settings == [Keys -> Values \cup {"", "bad"}]

Contents == Settings \cup {NoFile, Torn, Unusable}

ASSUME SentinelsAssumption ==
  /\ {NoFile, Torn, Unusable} \cap Settings = {}
  /\ NoFile # Torn /\ NoFile # Unusable /\ Torn # Unusable

Readable(content) == content \notin {NoFile, Torn, Unusable}

Unset == [k \in Keys |-> ""]

\* What Validate accepts in a sandbox's file.
Valid(s) == \A k \in Keys : s[k] \in Values

ConfigOps == {"set", "show", "migrate"}

ConfigPoints == {"load", "scan", "write", "rename", "unlink", "global"}

Exits == {"ok", "fail"}

\* pairs: what a set was asked for, or the overrides in the environment of a
\* show.  old, host: the files as read.  new: what is to be saved.  shown: where
\* show says a value comes from.
Process == [op : ConfigOps \cup {"idle"}, at : ConfigPoints \cup Exits,
            scope : Scopes, pairs : Settings, replace : BOOLEAN,
            old : Contents, new : Contents, host : Contents,
            shown : [Keys -> {"nothing", "env", "sandbox-file", "global-file",
                              "default"}]]

NoProcess == [op |-> "idle", at |-> "ok", scope |-> "sandbox", pairs |-> Unset,
              replace |-> FALSE, old |-> NoFile, new |-> NoFile,
              host |-> NoFile, shown |-> [k \in Keys |-> "nothing"]]

ConfigTypeOK ==
  /\ file \in [Scopes -> Contents]
  /\ legacy \in Settings \cup {NoFile}
  /\ proc \in [Users -> Process]
  /\ calls \in Nat

\* Files of earlier commands, or of an editor, which may leave out keys or give
\* them values that Validate refuses: loading a file does not validate it.  A
\* legacy sandbox has a legacy file only.
ConfigInit ==
  /\ \E own, host \in Contents \ {Torn} :
       /\ file = [sandbox |-> own, global |-> host]
       /\ \/ legacy = NoFile
          \/ legacy \in Settings /\ own = NoFile
  /\ proc = [u \in Users |-> NoProcess]
  /\ calls = 0

-----------------------------------------------------------------------------

Running(u) == proc[u].at \notin Exits

UserAt(u, op, point) ==
  proc[u].op = op /\ proc[u].at = point /\ UNCHANGED calls

Goto(u, point) == proc' = [proc EXCEPT ![u].at = point]

Exit(u, outcome) ==
  proc' = [proc EXCEPT ![u] = [NoProcess EXCEPT !.at = outcome]]

Files == <<file, legacy>>

Start(u, p, at) ==
  /\ ~Running(u) /\ calls < MaxCalls /\ calls' = calls + 1
  /\ proc' = [proc EXCEPT ![u] = [p EXCEPT !.at = at]]
  /\ UNCHANGED Files

-----------------------------------------------------------------------------
\* saveJSONAtomic

\* The settings are written at the final path.
WriteTemp_bug(u) ==
  /\ proc[u].at = "write" /\ UNCHANGED <<legacy, calls>>
  /\ \/ file' = [file EXCEPT ![proc[u].scope] = Torn] /\ Goto(u, "rename")
     \/ UNCHANGED file /\ Exit(u, "fail")

\* A temporary file beside the final path, flushed to disk.  Its name is nobody
\* else's, and one that is left behind is read by nobody.
WriteTemp(u) ==
  /\ proc[u].at = "write" /\ UNCHANGED <<Files, calls>>
  /\ \/ Goto(u, "rename")
     \/ "io" \in Faults /\ Exit(u, "fail")

\* migrate removes the legacy file before it has saved.
Rename_bug(u) ==
  /\ proc[u].at = "rename" /\ UNCHANGED calls
  /\ \/ /\ proc[u].replace /\ legacy # NoFile /\ legacy' = NoFile
        /\ UNCHANGED <<file, proc>>
     \/ /\ proc[u].replace => legacy = NoFile
        /\ file' = [file EXCEPT ![proc[u].scope] = proc[u].new]
        /\ UNCHANGED legacy /\ Exit(u, "ok")

Rename(u) ==
  /\ proc[u].at = "rename" /\ UNCHANGED <<legacy, calls>>
  /\ \/ /\ file' = [file EXCEPT ![proc[u].scope] = proc[u].new]
        /\ IF proc[u].replace THEN Goto(u, "unlink") ELSE Exit(u, "ok")
     \/ "io" \in Faults /\ UNCHANGED file /\ Exit(u, "fail")

-----------------------------------------------------------------------------
\* config set

BeginSet(u) ==
  \E scope \in Scopes, pairs \in Settings \ {Unset} :
    Start(u, [NoProcess EXCEPT !.op = "set", !.scope = scope, !.pairs = pairs],
          "load")

Applied(s, pairs) == [k \in Keys |-> IF pairs[k] = "" THEN s[k] ELSE pairs[k]]

\* What is staged is the config as show would print it.
Staged_bug(scope, old, pairs) ==
  Applied([k \in Keys |-> IF scope = "sandbox" /\ Readable(file["global"])
                             /\ k = "binDir" /\ file["global"][k] # ""
                          THEN file["global"][k] ELSE old[k]], pairs)

\* The file as it is, environment and defaults left out.
Staged(scope, old, pairs) == Applied(old, pairs)

\* Not the whole file is validated, only what was asked for.
Accepted_bug(scope, staged, pairs) == \A k \in Keys : pairs[k] # "bad"

\* A sandbox's file is validated as a whole.  Of what a set of the host-wide file
\* was asked for, the ports are checked and the directories are not.
Accepted(scope, staged, pairs) ==
  IF scope = "sandbox" THEN Valid(staged) ELSE pairs["port"] # "bad"

\* A host-wide file that is not there starts from the defaults.
SetLoad(u) ==
  LET p == proc[u]
      absent == p.scope = "global" /\ file["global"] = NoFile
      old == IF absent THEN [Unset EXCEPT !["port"] = DefaultPort]
             ELSE file[p.scope] IN
  /\ UserAt(u, "set", "load") /\ UNCHANGED Files
  /\ \/ /\ Readable(old)
        /\ LET staged == Staged(p.scope, old, p.pairs) IN
           IF Accepted(p.scope, staged, p.pairs)
           THEN proc' = [proc EXCEPT ![u].old = old, ![u].new = staged,
                                     ![u].at = "write"]
           ELSE Exit(u, "fail")
     \/ ~Readable(old) /\ Exit(u, "fail")

-----------------------------------------------------------------------------
\* config show and get

BeginShow(u) ==
  \E pairs \in Settings :
    Start(u, [NoProcess EXCEPT !.op = "show", !.pairs = pairs], "load")

\* config validate reads the same file and says what Valid says.
ShowLoad(u) ==
  /\ UserAt(u, "show", "load") /\ UNCHANGED Files
  /\ \/ /\ Readable(file["sandbox"])
        /\ proc' = [proc EXCEPT ![u].old = file["sandbox"], ![u].at = "global"]
     \/ ~Readable(file["sandbox"]) /\ Exit(u, "fail")

\* The host-wide file has a default for binDir; its port settings are those of
\* the port scan.
HostWide(k, host) == IF k = "binDir" /\ Readable(host) THEN host[k] ELSE ""

\* The file wins over the environment.
Source_bug(k, env, own, host) ==
  IF own[k] # "" THEN "sandbox-file"
  ELSE IF env[k] # "" THEN "env"
  ELSE IF HostWide(k, host) # "" THEN "global-file" ELSE "default"

\* pickString, pickPort: the first layer that has a value.
Source(k, env, own, host) ==
  IF env[k] # "" THEN "env"
  ELSE IF own[k] # "" THEN "sandbox-file"
  ELSE IF HostWide(k, host) # "" THEN "global-file" ELSE "default"

\* A host-wide file that cannot be read is as good as none.  A port in the
\* environment that is not a number is an error.
ShowGlobal(u) ==
  LET p == proc[u] IN
  /\ UserAt(u, "show", "global") /\ UNCHANGED Files
  /\ \/ /\ p.pairs["port"] # "bad"
        /\ proc' = [proc EXCEPT ![u].host = file["global"], ![u].at = "ok",
             ![u].shown = [k \in Keys |-> Source(k, p.pairs, p.old, file["global"])]]
     \/ p.pairs["port"] = "bad" /\ Exit(u, "fail")

-----------------------------------------------------------------------------
\* config migrate

BeginMigrate(u) ==
  \E replace \in BOOLEAN :
    Start(u, [NoProcess EXCEPT !.op = "migrate", !.replace = replace], "scan")

\* There is a legacy file, and no config yet.
MigrateScan(u) ==
  /\ UserAt(u, "migrate", "scan") /\ UNCHANGED Files
  /\ \/ legacy # NoFile /\ file["sandbox"] = NoFile /\ Goto(u, "load")
     \/ ~(legacy # NoFile /\ file["sandbox"] = NoFile) /\ Exit(u, "fail")

\* A key that is missing gets what show prints for it.
MigrateLoad_untyped(u) ==
  /\ UserAt(u, "migrate", "load") /\ UNCHANGED Files
  /\ proc' = [proc EXCEPT ![u].at = "write",
       ![u].new = [k \in Keys |-> IF legacy = NoFile \/ legacy[k] = ""
                                  THEN "default" ELSE legacy[k]]]

\* The port has a default, the bin directory none.  An invocation that removed
\* the legacy file may have come first.
MigrateLoad(u) ==
  /\ UserAt(u, "migrate", "load") /\ UNCHANGED Files
  /\ LET filled == IF legacy = NoFile THEN Unset
                   ELSE [legacy EXCEPT !["port"] = IF @ = "" THEN DefaultPort
                                                   ELSE @] IN
     \/ /\ Valid(filled)
        /\ proc' = [proc EXCEPT ![u].new = filled, ![u].at = "write"]
     \/ ~Valid(filled) /\ Exit(u, "fail")

MigrateUnlink(u) ==
  /\ UserAt(u, "migrate", "unlink") /\ UNCHANGED file
  /\ \/ legacy # NoFile /\ legacy' = NoFile /\ Exit(u, "ok")
     \/ (legacy = NoFile \/ "io" \in Faults) /\ UNCHANGED legacy /\ Exit(u, "fail")

-----------------------------------------------------------------------------

ConfigStep(u) ==
  \/ WriteTemp(u) \/ Rename(u) \/ SetLoad(u) \/ ShowLoad(u) \/ ShowGlobal(u)
  \/ MigrateScan(u) \/ MigrateLoad(u) \/ MigrateUnlink(u)

KillUser(u) ==
  /\ "cli" \in Faults /\ Running(u)
  /\ Exit(u, "fail") /\ UNCHANGED <<Files, calls>>

ConfigNext ==
  \E u \in Users :
    \/ BeginSet(u) \/ BeginShow(u) \/ BeginMigrate(u)
    \/ ConfigStep(u) \/ KillUser(u)

ConfigSpec == ConfigInit /\ [][ConfigNext]_configVars
=============================================================================
