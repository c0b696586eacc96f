---------------------------- MODULE ConfigProps ----------------------------
(***************************************************************************)
(* What the config files promise to those who read and change them.        *)
(***************************************************************************)
EXTENDS ConfigStore

\* No reader ever meets half a file, whoever is killed while it writes: the
\* settings are renamed into place (load_save.go).
FilesStayWhole == \A scope \in Scopes : file[scope] # Torn

\* What the program saves for a sandbox passes its own validation, whatever an
\* editor left in the file before: set and migrate validate the whole result.
OnlyValidSaved ==
  [][file'["sandbox"] # file["sandbox"] =>
       Readable(file'["sandbox"]) /\ Valid(file'["sandbox"])]_configVars

\* The settings of a legacy sandbox are never lost: its old file goes only when
\* the new one is in place, even if migrate is killed or run twice.
SettingsSurviveMigration ==
  [][legacy # NoFile \/ Readable(file["sandbox"]) =>
       legacy' # NoFile \/ Readable(file'["sandbox"])]_configVars

\* A set changes the keys it was asked to change, and writes back all others as
\* it read them: no override in the environment and no default of the host gets
\* into a sandbox's file.
SetTouchesOnlyItsKeys ==
  [][\A u \in Users, scope \in Scopes :
       /\ proc[u].op = "set" /\ proc[u].scope = scope
       /\ proc'[u] # proc[u] /\ file'[scope] # file[scope]
       => file'[scope] = Applied(proc[u].old, proc[u].pairs)]_configVars

\* Where show says a value comes from, no stronger layer has one, and that layer
\* does, in the files as this show has read them: the sandbox's own file is passed
\* over for the environment only, the host-wide file stands in for a directory an
\* editor has left out and for no port, and a default for what neither has.
ShownIsStrongest ==
  \A u \in Users : proc[u].op = "show" /\ proc[u].at = "ok" => \A k \in Keys :
    LET p == proc[u] IN
    /\ p.pairs[k] # "" <=> p.shown[k] = "env"
    /\ p.shown[k] \in {"global-file", "default"} => p.old[k] = ""
    /\ p.shown[k] = "sandbox-file" => p.old[k] # ""
    /\ p.shown[k] \in {"global-file", "default"} =>
         (p.shown[k] = "global-file" <=>
            k # "port" /\ Readable(p.host) /\ p.host[k] # "")
=============================================================================
