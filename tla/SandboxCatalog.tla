--------------------------- MODULE SandboxCatalog ---------------------------
(***************************************************************************)
(* What an operator is promised of the sandboxes, without the commands,    *)
(* the processes and the files that keep the promise.  A sandbox appears   *)
(* complete or not at all, serves the port it is known by, leaves recovery *)
(* once and for good, and is not called a primary while it is up and still *)
(* in recovery.                                                            *)
(***************************************************************************)
EXTENDS Naturals

CONSTANTS Dirs, Ports, None

VARIABLE box  \* box[d]: the sandbox in directory d, or None

\* "damaged": half of it was removed.
Box == [role : {"primary", "standby"}, port : Ports,
        state : {"up", "down", "damaged"}, recovering : BOOLEAN]

CatalogTypeOK == box \in [Dirs -> Box \cup {None}]

CatalogInit == box = [d \in Dirs |-> None]

Exists(d) == box[d] # None

Up(d) == Exists(d) /\ box[d].state = "up"

\* No other sandbox serves port p.
PortOf(d, p) == \A e \in Dirs \ {d} : Up(e) => box[e].port # p

Becomes(d, b) == box' = [box EXCEPT ![d] = b]

\* A sandbox may have gone down by the time it is known.
Deploy(d) ==
  /\ ~Exists(d) /\ box'[d] # None
  /\ \E role \in {"primary", "standby"}, p \in Ports, state \in {"up", "down"} :
       /\ state = "up" => PortOf(d, p)
       /\ Becomes(d, [role |-> role, port |-> p, state |-> state,
                      recovering |-> role = "standby"])

Start(d) ==
  /\ Exists(d) /\ box[d].state = "down" /\ PortOf(d, box[d].port)
  /\ Becomes(d, [box[d] EXCEPT !.state = "up"])

\* A stop, a crash, or the end of all of them at once in a reboot.
GoDown(D) ==
  /\ D # {} /\ \A d \in D : Up(d)
  /\ box' = [d \in Dirs |->
       IF d \in D THEN [box[d] EXCEPT !.state = "down"] ELSE box[d]]

LeaveRecovery(d) ==
  /\ Up(d) /\ box[d].recovering
  /\ Becomes(d, [box[d] EXCEPT !.recovering = FALSE])

\* Of a standby that is down nobody can be asked whether it has left recovery,
\* and it may be called a primary without.
Promote(d) ==
  /\ Exists(d) /\ box[d].role = "standby"
  /\ \/ box[d].state = "up" /\ ~box[d].recovering
     \/ box[d].state = "down"
  /\ Becomes(d, [box[d] EXCEPT !.role = "primary"])

Damage(d) ==
  /\ Exists(d)
  /\ Becomes(d, [box[d] EXCEPT !.state = "damaged", !.recovering = FALSE])

Destroy(d) == Exists(d) /\ Becomes(d, None)

CatalogNext ==
  \/ \E d \in Dirs : \/ Deploy(d) \/ Start(d) \/ LeaveRecovery(d)
                     \/ Promote(d) \/ Damage(d) \/ Destroy(d)
  \/ \E D \in SUBSET Dirs : GoDown(D)

CatalogSpec == CatalogInit /\ [][CatalogNext]_box
=============================================================================
