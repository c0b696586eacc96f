----------------------------- MODULE ReportProps -----------------------------
(***************************************************************************)
(* What a report promises about its page and its throwaway sandbox.        *)
(***************************************************************************)
EXTENDS ReportOps

\* Report c ends in this step, and was not killed.
Reported(c, outcome) ==
  /\ Reporting(c) /\ rep'[c].at = outcome /\ rep'[c].dir # None

\* The output file of a report shows its own capture, whole, or is not there:
\* never a page cut short, one without data, or the capture of another report
\* that runs at the same time (report.go: "must never overwrite a prior good
\* report").  A killed server breaks it: see the README.
ReportIsOwn == \A c \in Clients : page[c] \in {c, "nothing"}

\* A capture is loaded into the throwaway of its own report only, although psql
\* is sent to a port and other deploys are after the same ports.
LoadsOwnThrowaway ==
  [][\A d \in Dirs : loaded'[d] \notin {loaded[d], None} =>
       rep[loaded'[d]].dir = d]_reportVars

\* A report that gets its throwaway deployed and ends without naming it has left
\* no sandbox behind: "If a throwaway sandbox was left behind, name it"
\* (cmd/pg_sandbox/report.go).
LeftoverIsNamed ==
  [][\A c \in Clients :
       /\ Reported(c, "ok") \/ Reported(c, "fail")
       /\ rep[c].at # "deploy"
       => rep'[c].told \/ disk'[rep[c].dir].cfg = None]_reportVars

\* With --destroy-on-failure a report that fails once its throwaway is deployed
\* removes it, and the cleanup leaves no server behind without its directory, be
\* the report interrupted before or during it ("we still want the cleanup to run
\* to completion").
FailureCleansUp ==
  [][\A c \in Clients : rep[c].at = "undo" =>
       /\ cl'[c] # cl[c] => strays' \subseteq strays
       /\ Reported(c, "fail") /\ ~rep'[c].told => ~disk'[rep[c].dir].made]_reportVars

\* "Destroy the throwaway sandbox even if report generation fails" (help of
\* --destroy-on-failure): whatever failed, nothing of it is left.
DestroyOnFailureDestroys ==
  [][\A c \in Clients :
       Reported(c, "fail") /\ ~rep[c].keep /\ ~rep'[c].told =>
         ~disk'[rep[c].dir].made]_reportVars
=============================================================================
