---------------------------- MODULE InstallsProps ----------------------------
(***************************************************************************)
(* What build and cleanup-install-versions are supposed to keep true.      *)
(***************************************************************************)
EXTENDS Installs

\* The sandboxes that run on what is in p.
Users(p) == {s \in Boxes : box[s].at = "ready" /\ Leads(box[s].ref) = p}

\* A cleanup takes away an install that a server can run from.
Prunes(p) ==
  /\ clean.at = "remove" /\ p \in clean.plan \ clean'.plan
  /\ inst[p] # None /\ inst'[p] # inst[p] /\ "server" \in inst[p].parts

\* cleanup never takes the install of a sandbox that was deployed before the
\* operator said yes, however long the prompt was open and whatever was
\* deployed and destroyed meanwhile, be the install named by a symlink ("a
\* sandbox deployed while the prompt was open marks its version in-use again",
\* cleanup.go).  It has to have a config that can be loaded, under the root.
OlderSandboxKeepsInstall ==
  [][\A p \in Prefixes : Prunes(p) =>
       \A s \in Users(p) \cap clean.before : ~box[s].seen]_vars

\* Nothing is compiled from bytes upstream's checksum does not match, where it
\* publishes one, whatever builds share the cache and whatever became of the
\* cached file since it was verified last (build.go, downloadTarball).
SourceIsGenuine ==
  \A v \in Versions \ Unsigned : tree[v] # None => tree[v].good

\* A build that is alone with its version and its directory exits 0 only with
\* the whole of its version installed there, contrib included ("partial
\* installs are confusing", build/doc.go), whatever earlier builds that failed
\* or were killed have left.
BuildOkMeansInstalled ==
  [][\A b \in Builders :
       Building(b) /\ job'[b].at = "ok" /\ job[b].alone =>
         inst'[job[b].prefix] = [ver |-> job[b].ver, parts |-> Parts]]_vars
=============================================================================
