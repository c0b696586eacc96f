---------------------------- MODULE StatusProps ----------------------------
(***************************************************************************)
(* What the status commands promise of what they show.                     *)
(***************************************************************************)
EXTENDS StatusOps

\* global_status lists a sandbox that was in place all along exactly once, even
\* when the manifest of its cluster is written or removed between two of its
\* reads: it is found through the manifest or as an orphan, not both and not
\* neither (global_status.go, walkRoot).
ListedOnce ==
  walk.at = "render" /\ walk.kind = "global_status" =>
    \A d \in steady : walk.rows[d] = 1

\* A sandbox shown as running was up, and one shown as stopped was down, at some
\* moment after its config was read: two of them that share a port are told
\* apart, and so are a server that starts and one that stops meanwhile.  A reused
\* PID makes it untrue: the pidfile of a dead server then passes for a live one's.
ShownWasTrue ==
  [][\A d \in Dirs : walk'.rows[d] > walk.rows[d] /\ walk.at = "listen" =>
       /\ walk'.state[d] = "running" => "up" \in past
       /\ walk'.state[d] = "stopped" => "down" \in past]_statusVars
=============================================================================
