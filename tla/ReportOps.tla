------------------------------ MODULE ReportOps ------------------------------
(***************************************************************************)
(* report: a pg_gather capture is loaded into a throwaway sandbox and an   *)
(* HTML page is rendered from it.                                          *)
(*                                                                         *)
(* A report is one process that calls the code of deploy and of destroy.   *)
(* Its steps are those of an invocation of SandboxOps while that code      *)
(* runs, and those below otherwise; rep is what it keeps in between.  Any  *)
(* invocation may be a report, each of a capture of its own, or run an     *)
(* ordinary sandbox command.                                               *)
(*                                                                         *)
(* A signal does not end the process.  It cancels the context: a program   *)
(* that runs is killed, none can be started any more, and the Go code and  *)
(* its file operations go on.                                              *)
(*                                                                         *)
(* A report that is refused (options, missing scripts, the scan of the     *)
(* capture) has changed nothing and is not modelled.                       *)
(***************************************************************************)
EXTENDS SandboxProps

CONSTANT Signals   \* reports may be interrupted

ASSUME SignalsAssumption == Signals \in BOOLEAN
ASSUME CaptureAssumption == None \notin Clients

VARIABLES
  rep,      \* rep[c]: where report c stands and what it remembers
  loaded,   \* loaded[d]: the capture last loaded into the databases of d
  page      \* page[c]: the file at the output path of c

reportVars == <<vars, rep, loaded, page>>

\* A page is named after the capture it shows.  "hollow": rendered from a
\* database without one.  "torn": cut short.
Pages == Clients \cup {"nothing", "hollow", "torn"}

\* undo: the destroy of --destroy-on-failure; clean: the one after success.
ReportPoints == {"deploy", "load", "render", "write", "undo", "clean"}

\* keep: --destroy-on-failure was not given.  cut: the context is cancelled.
\* html: what psql printed.  told: the user was told of the throwaway.
Report == [at : ReportPoints \cup Ends, dir : Dirs \cup {None},
           port : Ports \cup {None}, html : Pages, keep : BOOLEAN,
           cut : BOOLEAN, told : BOOLEAN]

NoReport == [at |-> "ok", dir |-> None, port |-> None, html |-> "nothing",
             keep |-> TRUE, cut |-> FALSE, told |-> FALSE]

ReportTypeOK ==
  /\ TypeOK
  /\ rep \in [Clients -> Report]
  /\ loaded \in [Dirs -> Clients \cup {None}]
  /\ page \in [Clients -> Pages]

\* A page of an earlier report may be there.
ReportInit ==
  /\ Init
  /\ rep = [c \in Clients |-> NoReport]
  /\ loaded = [d \in Dirs |-> None]
  /\ \E early \in SUBSET Clients :
       page = [c \in Clients |-> IF c \in early THEN c ELSE "nothing"]

-----------------------------------------------------------------------------

Reporting(c) == rep[c].at \notin Ends

\* The report stands between two calls of sandbox code.
ReportAt(c, point) == rep[c].at = point /\ ~InFlight(c)

\* What a removed data directory held is gone.
Kept ==
  loaded' = [d \in Dirs |-> IF disk'[d].data = "absent" THEN None ELSE loaded[d]]

\* The code of a sandbox command is entered as a function call.
Enter(c, op, point, d) ==
  cl' = [cl EXCEPT ![c] = [op |-> op, at |-> point, dir |-> d, src |-> None,
                          name |-> None, cfg |-> None, port |-> None,
                          peer |-> None, base |-> PortBase]]

\* The report moves on without touching the machine.
ReportGo(c, point) ==
  /\ rep' = [rep EXCEPT ![c].at = point]
  /\ Quiet /\ UNCHANGED <<cl, calls>>

\* leftover: the user is told where the throwaway is, unless it is to be
\* destroyed here.
Leftover(c) ==
  /\ Quiet /\ UNCHANGED calls
  /\ \/ /\ rep[c].keep
        /\ rep' = [rep EXCEPT ![c].at = "fail", ![c].told = TRUE]
        /\ UNCHANGED cl
     \/ /\ ~rep[c].keep
        /\ rep' = [rep EXCEPT ![c].at = "undo"]
        /\ Enter(c, "destroy", "destroy.load", rep[c].dir)

\* randomTag: a directory nobody else uses.
BeginReport(c) ==
  /\ ~Reporting(c) /\ ~InFlight(c) /\ calls < MaxCalls
  /\ calls' = calls + 1
  /\ \E d \in Dirs, keep \in BOOLEAN :
       /\ ~disk[d].made /\ \A b \in Clients : d # rep[b].dir /\ d \notin Touches(b)
       /\ rep' = [rep EXCEPT ![c] = [NoReport EXCEPT !.at = "deploy", !.dir = d,
                                                     !.keep = keep]]
       /\ Enter(c, "deploy", "port", d)
  /\ Quiet /\ UNCHANGED <<loaded, page>>

\* A failed deploy has "nothing to leave behind": the user is told no place.
Deployed(c) ==
  /\ ReportAt(c, "deploy")
  /\ ReportGo(c, IF cl[c].at = "ok" THEN "load" ELSE "fail")
  /\ UNCHANGED <<loaded, page>>

\* psql is left to its default port.
Answering_bug(c) == IF rep[c].cut THEN {} ELSE Serving(PortBase)

\* psql, sent to the port of the throwaway.
Answering(c) == IF rep[c].cut THEN {} ELSE Serving(rep[c].port)

\* psql does without ON_ERROR_STOP.
Load_bug(c) ==
  /\ ReportAt(c, "load") /\ UNCHANGED page
  /\ \/ \E r \in Answering(c) :
          /\ \/ loaded' = [loaded EXCEPT ![r] = c]
             \/ UNCHANGED loaded
          /\ ReportGo(c, "render")
     \/ Answering(c) = {} /\ UNCHANGED loaded /\ Leftover(c)

\* What is remembered as loaded is the place, not the capture.
Load_untyped(c) ==
  /\ ReportAt(c, "load") /\ UNCHANGED page
  /\ \/ \E r \in Answering(c) :
          /\ loaded' = [loaded EXCEPT ![r] = rep[c].dir]
          /\ ReportGo(c, "render")
     \/ UNCHANGED loaded /\ Leftover(c)

\* The schema and the capture in one psql that stops at the first error: the
\* capture may be malformed.
Load(c) ==
  /\ ReportAt(c, "load") /\ UNCHANGED page
  /\ \/ \E r \in Answering(c) :
          /\ loaded' = [loaded EXCEPT ![r] = c]
          /\ ReportGo(c, "render")
     \/ UNCHANGED loaded /\ Leftover(c)

\* A query that fails does not fail the psql.
Shown(r) == IF loaded[r] = None THEN "hollow" ELSE loaded[r]

\* A page cut short, by a lost connection or a signal, is not taken: psql fails,
\* or there is no closing tag.
Render(c) ==
  /\ ReportAt(c, "render") /\ UNCHANGED <<loaded, page>>
  /\ \/ \E r \in Answering(c) :
          /\ rep' = [rep EXCEPT ![c].at = "write", ![c].html = Shown(r)]
          /\ Quiet /\ UNCHANGED <<cl, calls>>
     \/ Leftover(c)

\* writeReportAtomic: a temporary file renamed over the page, where that can be
\* written.
Write(c) ==
  /\ ReportAt(c, "write") /\ UNCHANGED loaded
  /\ \/ /\ page' = [page EXCEPT ![c] = rep[c].html]
        /\ rep' = [rep EXCEPT ![c].at = "clean"]
        /\ Enter(c, "destroy", "destroy.load", rep[c].dir)
        /\ Quiet /\ UNCHANGED calls
     \/ UNCHANGED page /\ Leftover(c)

\* A failed cleanup is not mentioned.
Destroyed_bug(c) ==
  /\ rep[c].at \in {"undo", "clean"} /\ ~InFlight(c)
  /\ rep' = [rep EXCEPT ![c].at = IF @ = "clean" THEN "ok" ELSE "fail"]
  /\ Quiet /\ UNCHANGED <<cl, calls, loaded, page>>

\* The page decides on the exit code, the cleanup on what the user is told.
Destroyed(c) ==
  /\ rep[c].at \in {"undo", "clean"} /\ ~InFlight(c)
  /\ rep' = [rep EXCEPT ![c].at = IF @ = "clean" THEN "ok" ELSE "fail",
                        ![c].told = cl[c].at = "fail"]
  /\ Quiet /\ UNCHANGED <<cl, calls, loaded, page>>

-----------------------------------------------------------------------------
\* Sandbox code called by a report

\* With a cancelled context initdb and pg_ctl are killed, having done part of
\* their work, or cannot be started.  A server that pg_ctl was starting comes up.
CutStep(c) ==
  LET d == cl[c].dir
      p == cl[c].port IN
  \/ /\ At(c, "init") /\ Return(c, "fail")
     /\ \/ Quiet
        \/ /\ disk[d].data = "absent"
           /\ disk' = [disk EXCEPT ![d].made = TRUE, ![d].data = "partial"]
           /\ UNCHANGED <<srv, db, strays>>
  \/ /\ At(c, "launch") /\ Return(c, "fail")
     /\ \/ Quiet
        \/ CanStart(d, p) /\ ServerUp(d, p)
  \/ /\ At(c, "destroy.stop") /\ Go(c, "destroy.rm")
     /\ \/ Quiet
        \/ disk[d].pid = "live" /\ ServerDown(d, "none")
  \/ cl[c].at \notin {"init", "launch", "destroy.stop"} /\ ClientStep(c)

\* The cleanup after a failure runs under the cancelled context.
Detached_bug(c) == FALSE

\* The cleanup after a failure is detached from the context.
Detached(c) == rep[c].at = "undo"

\* The port of the throwaway is part of what deploy returns.
CalledStep(c) ==
  /\ Reporting(c)
  /\ IF rep[c].cut /\ ~Detached(c) THEN CutStep(c) ELSE ClientStep(c)
  /\ rep' = IF rep[c].at = "deploy" /\ cl'[c].port # None
            THEN [rep EXCEPT ![c].port = cl'[c].port] ELSE rep
  /\ Kept /\ UNCHANGED page

ReportStep(c) ==
  \/ CalledStep(c) \/ Deployed(c) \/ Load(c) \/ Render(c) \/ Write(c)
  \/ Destroyed(c)

\* SIGINT or SIGTERM, at any time; a program it hits is killed.
Interrupt(c) ==
  /\ Signals /\ Reporting(c)
  /\ rep' = [rep EXCEPT ![c].cut = TRUE]
  /\ UNCHANGED <<vars, loaded, page>>

KillReport(c) ==
  /\ MayFail("cli") /\ Reporting(c)
  /\ rep' = [rep EXCEPT ![c] = [NoReport EXCEPT !.at = "fail"]]
  /\ Return(c, "fail") /\ Quiet /\ UNCHANGED <<calls, loaded, page>>

\* Ordinary commands.  A disciplined operator leaves a throwaway alone while
\* its report is at work.
OrdinaryStep(c) ==
  /\ ~Reporting(c)
  /\ BeginCall(c) \/ ClientStep(c) \/ KillClient(c)
  /\ Disciplined => \A b \in Clients : Reporting(b) => rep[b].dir # cl'[c].dir
  /\ Kept /\ UNCHANGED <<rep, page>>

ReportEnvironment ==
  /\ \/ Machine /\ UNCHANGED rep
     \/ /\ Reboot
        /\ rep' = [c \in Clients |-> IF Reporting(c)
                                     THEN [NoReport EXCEPT !.at = "fail"]
                                     ELSE rep[c]]
  /\ Kept /\ UNCHANGED page

ReportNext ==
  \/ \E c \in Clients :
       \/ BeginReport(c) \/ ReportStep(c) \/ Interrupt(c) \/ KillReport(c)
       \/ OrdinaryStep(c)
  \/ ReportEnvironment

ReportSpec == ReportInit /\ [][ReportNext]_reportVars
=============================================================================
