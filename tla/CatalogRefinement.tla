------------------------- MODULE CatalogRefinement -------------------------
(***************************************************************************)
(* The sandbox commands implement the catalogue: a sandbox is what its     *)
(* config, its data directory and its server say of it.                    *)
(***************************************************************************)
EXTENDS SandboxProps

\* Without a config there is no sandbox, whatever else is in the directory.
BoxOf(d) ==
  IF disk[d].cfg = None THEN None
  ELSE [role |-> disk[d].cfg.role,
        port |-> IF srv[d] # None THEN srv[d] ELSE disk[d].cfg.port,
        state |-> IF disk[d].data \notin Complete THEN "damaged"
                  ELSE IF srv[d] # None THEN "up" ELSE "down",
        recovering |-> disk[d].data \in {"standby", "promoting"}]

\* None is no sandbox.
ASSUME BoxAssumption ==
  None \notin [role : Roles, port : Ports, state : {"up", "down", "damaged"},
               recovering : BOOLEAN]

Catalog == INSTANCE SandboxCatalog WITH box <- [d \in Dirs |-> BoxOf(d)]

\* Commands that are killed, that race, or whose pg_ctl gives up too early,
\* crashes of servers and reboots show an operator nothing but the catalogue:
\* of the many steps of a deploy, a promote or a destroy one alone changes what
\* a sandbox is, and a server never serves another port than the recorded one.
ImplementsCatalog == Catalog!CatalogSpec
=============================================================================
