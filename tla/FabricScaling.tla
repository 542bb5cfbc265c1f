--------------------------- MODULE FabricScaling ---------------------------
(***************************************************************************)
(* A deployed fabric that is scaled out and in, rolled back and repaired:  *)
(* the desired topology that CreatePlan and CreateRollbackPlan store, the  *)
(* retained generations, and the containers, veth pairs, bridge and bond   *)
(* ports and running configurations that Deploy and DeployIncrement        *)
(* (agent/internal/clab) make of them.  One client at a time; what         *)
(* concurrent requests do to the documents is LabChange.                   *)
(***************************************************************************)
EXTENDS FabricBuilder

CONSTANTS
  Specs,   \* topology specs a client may ask for, all valid
  MaxPlan, \* bound: plans ever made
  MaxEdit, \* bound: edits of the spec
  MaxFail, \* bound: applies that fail
  MaxLeft, \* bound: items that a phase that fails has not done
  FailPlan \* bound: the last plan whose apply may fail

ASSUME ScalingAssumptions ==
  /\ MaxPlan \in Nat /\ MaxEdit \in Nat /\ MaxFail \in Nat /\ MaxLeft \in Nat /\ FailPlan \in Nat
  /\ Specs # {} /\ \A s \in Specs : IsSpec(s)

VARIABLES
  edits,   \* edits of the spec so far
  spec,    \* lab.Spec.Topology
  desired, \* the desired nodes and links
  plans,   \* plans made so far
  plan,    \* how the newest plan was made ("scale", "rollback"), "none" if none may be applied
  gen,     \* lab.Meta.Generation
  snaps,   \* the saved generations: spec and topology
  live,    \* the runtime
  tried,   \* topologies of failed applies that no later apply made good (history)
  moved,   \* links that an apply left on other interfaces (history)
  fails    \* applies that failed

vars == <<edits, spec, desired, plans, plan, gen, snaps, live, tried, moved, fails>>

Deployed == IF gen = 0 THEN Nothing ELSE snaps[gen].topo

\* Deploy: everything from scratch.
FullDeploy(t) ==
  [up    |-> DOMAIN t.nodes,
   wires |-> {Ends(t, l) : l \in DOMAIN t.links},
   stale |-> {},
   ports |-> [n \in DOMAIN t.nodes |-> Ports(t, n)],
   conf  |-> [n \in DOMAIN t.nodes |-> Conf(t, n)]]

Init ==
  /\ spec \in Specs /\ edits = 0
  /\ desired = Nothing /\ plans = 0 /\ plan = "none"
  /\ gen = 0 /\ snaps = <<>> /\ live = FullDeploy(Nothing)
  /\ tried = {} /\ moved = {} /\ fails = 0

----------------------------------------------------------------------------
(* Plans *)

UpdateTopology(s) ==
  /\ s # spec /\ edits < MaxEdit
  /\ edits' = edits + 1
  /\ spec' = s
  /\ UNCHANGED <<desired, plans, plan, gen, snaps, live, tried, moved, fails>>

\* The desired topology is replaced by t.
ReplaceTopology(t, how) ==
  /\ plans < MaxPlan
  /\ desired' = t
  /\ plans' = plans + 1
  /\ plan' = how

\* A build that exhausts a pool changes nothing.
CreatePlan ==
  LET t == Build(spec, Deployed)
  IN /\ Fits(t)
     /\ ReplaceTopology(t, "scale")
     /\ UNCHANGED <<edits, spec, gen, snaps, live, tried, moved, fails>>

\* The desired state is that of another saved generation, its spec too; the
\* newest one saved may be that of an apply that failed.
CreateRollbackPlan(g) ==
  /\ gen # 0 /\ g # gen
  /\ ReplaceTopology(snaps[g].topo, "rollback")
  /\ spec' = snaps[g].spec
  /\ UNCHANGED <<edits, gen, snaps, live, tried, moved, fails>>

----------------------------------------------------------------------------
(* The runtime *)

\* Interfaces that go away leave their bridge or bond.
DropPorts(x, ends) ==
  [x EXCEPT !.ports = [n \in x.up |-> {i \in @[n] : <<n, i>> \notin ends}]]

\* A removed container's veth pairs are dead, but the surviving side of each
\* lingers until the kernel has torn the network namespace down.
RemoveNodes(x, nodes) ==
  LET dead == {w \in x.wires : \E e \in w : e[1] \in nodes}
      kept == x.up \ nodes
  IN [up    |-> kept,
      wires |-> x.wires \ dead,
      stale |-> {e \in x.stale \cup UNION dead : e[1] \in kept},
      ports |-> [n \in kept |-> x.ports[n]],
      conf  |-> [n \in kept |-> x.conf[n]]]

\* createNode removes a leftover first; the container boots with its configuration.
CreateNodes(x, t, nodes) ==
  LET y == RemoveNodes(x, nodes)
      up == y.up \cup nodes
  IN [y EXCEPT !.up = up,
               !.ports = [n \in up |-> IF n \in nodes THEN {} ELSE @[n]],
               !.conf = [n \in up |-> IF n \in nodes THEN Conf(t, n) ELSE @[n]]]

\* Whatever occupies an end is deleted, and the pair with it.
FreeEnds(x, ends) ==
  LET dead == {w \in x.wires : w \cap ends # {}}
      y == DropPorts(x, (UNION dead) \cup ends)
  IN [y EXCEPT !.wires = @ \ dead, !.stale = @ \ ends]

\* A pair is made when both names are free.
Wire(x, new) ==
  [x EXCEPT !.wires = @ \cup {w \in new : w \cap (x.stale \cup UNION x.wires) = {}}]

NewEnds(t, links) == {Ends(t, l) : l \in links}

\* Mutant: whatever occupies an interface name stays.
CreateVethsOver(x, t, links) == Wire(x, NewEnds(t, links))

CreateVeths(x, t, links) == Wire(FreeEnds(x, UNION NewEnds(t, links)), NewEnds(t, links))

\* The setup commands that put these ports into bridges and bonds.
ExecCommands(x, ports) ==
  [x EXCEPT !.ports = [n \in x.up |-> @[n] \cup {e[2] : e \in {p \in ports : p[1] = n}}]]

Reload(x, t, nodes) ==
  [x EXCEPT !.conf = [n \in x.up |-> IF n \in nodes THEN Conf(t, n) ELSE @[n]]]

\* DeployIncrement, its phases in order; of phase k only the items in part are
\* done, and later phases are not reached.  Of those that were cut off in phase k,
\* a leftover container has been removed and interface names have been freed.
Phases == 6
Items(inc) == <<inc.add, inc.links, inc.setup, inc.attach, inc.reload, inc.remove>>
DeployIncrement(x, t, inc, k, part, cut) ==
  LET do(j) == IF j < k THEN Items(inc)[j] ELSE IF j = k THEN part ELSE {}
      begun(j) == IF j = k THEN cut ELSE {}
      a == CreateNodes(RemoveNodes(x, begun(1)), t, do(1))
      b == CreateVeths(FreeEnds(a, UNION NewEnds(t, begun(2))), t, do(2))
      c == ExecCommands(b, do(3))
      d == ExecCommands(c, do(4))
      e == Reload(d, t, do(5))
  IN RemoveNodes(e, do(6))

\* What a phase that fails may not have done.
Left(items) == {Range(f) : f \in [1 .. MaxLeft -> items]}

----------------------------------------------------------------------------
(* Applies *)

Rewired(base, t) ==
  {l \in DOMAIN base.links \cap DOMAIN t.links : base.links[l].ifs # t.links[l].ifs}

\* validateControlPlane: the session of every fabric link of t comes up.
Validated(x, t) == {Ends(t, l) : l \in {k \in DOMAIN t.links : IsFabric(k)}} \subseteq x.wires

Incremented == DeployIncrement(live, desired, Increment(Deployed, desired), Phases + 1, {}, {})

\* SaveGeneration runs before the deploy and overwrites what a failed apply saved.
SaveGeneration ==
  snaps' = Append(SubSeq(snaps, 1, gen), [spec |-> spec, topo |-> desired])

\* Plans made before the apply are based on another generation now.
Applied(x) ==
  /\ live' = x
  /\ SaveGeneration
  /\ gen' = gen + 1
  /\ plan' = "none"
  /\ tried' = IF tried \subseteq {desired} THEN {} ELSE tried
  /\ UNCHANGED <<edits, spec, desired, plans, fails>>

\* A first deploy that fails leaves nothing that the next one keeps.
ApplyFull ==
  /\ plan # "none" /\ gen = 0
  /\ Applied(FullDeploy(desired))
  /\ moved' = {}

ApplyIncrement ==
  /\ plan # "none" /\ gen # 0
  /\ Supported(Deployed, desired)
  /\ Validated(Incremented, desired)
  /\ Applied(Incremented)
  /\ moved' = moved \cup Rewired(Deployed, desired)

\* The deploy stops in a phase, or a later step of the apply fails.  The plan
\* stays pending, and the runtime keeps what was done.
ApplyFails ==
  /\ plan # "none" /\ gen # 0
  /\ fails < MaxFail /\ plans <= FailPlan
  /\ Supported(Deployed, desired)
  /\ LET inc == Increment(Deployed, desired)
     IN \/ \E k \in 1 .. Phases : \E left \in Left(Items(inc)[k]) : \E cut \in SUBSET left :
             live' = DeployIncrement(live, desired, inc, k, Items(inc)[k] \ left, cut)
        \/ live' = Incremented
  /\ SaveGeneration
  /\ tried' = tried \cup {desired}
  /\ moved' = moved \cup Rewired(Deployed, desired)
  /\ fails' = fails + 1
  /\ UNCHANGED <<edits, spec, desired, plans, plan, gen>>

\* RepairLab deploys the recorded generation anew.
RepairLab ==
  /\ gen # 0 /\ live # FullDeploy(Deployed)
  /\ live' = FullDeploy(Deployed)
  /\ tried' = {} /\ moved' = {}
  /\ UNCHANGED <<edits, spec, desired, plans, plan, gen, snaps, fails>>

\* The kernel has torn down the namespaces of removed containers.
NamespacesGone ==
  /\ live.stale # {}
  /\ live' = [DropPorts(live, live.stale) EXCEPT !.stale = {}]
  /\ UNCHANGED <<edits, spec, desired, plans, plan, gen, snaps, tried, moved, fails>>

----------------------------------------------------------------------------

Next ==
  \/ \E s \in Specs : UpdateTopology(s)
  \/ CreatePlan
  \/ \E g \in DOMAIN snaps : CreateRollbackPlan(g)
  \/ ApplyFull \/ ApplyIncrement \/ ApplyFails \/ RepairLab \/ NamespacesGone

Spec == Init /\ [][Next]_vars

----------------------------------------------------------------------------
(* Properties *)

Distinct(f) == \A x, y \in DOMAIN f : x # y => f[x] # f[y]

(***************************************************************************)
(* No resource of the fabric is used twice, however it was scaled, rolled  *)
(* back and rebuilt (NewBuilder, restore): no loopback, no subnet of a     *)
(* link or a rack, no ASN of a router or a rack, no interface of a node.   *)
(***************************************************************************)
NoResourceShared ==
  LET t == desired
      routers == {n \in DOMAIN t.nodes : ~IsServer(n)}
      fabric == {l \in DOMAIN t.links : IsFabric(l)}
  IN /\ Distinct([n \in routers |-> t.nodes[n].loopback])
     /\ Distinct([n \in {m \in routers : ~IsLeaf(m)} |-> <<n.role, t.nodes[n].asn>>])
     /\ Distinct([n \in {m \in routers : IsLeaf(m) /\ m.i = 1} |-> t.nodes[n].asn])
     /\ Distinct([n \in {m \in routers : IsLeaf(m) /\ m.i = 1} |-> t.nodes[n].net])
     /\ Distinct([l \in fabric |-> t.links[l].net])
     /\ \A n \in DOMAIN t.nodes : Distinct([l \in At(t, n) |-> t.links[l].ifs[EndAt(l, n)]])

(***************************************************************************)
(* "Unchanged nodes and links rebuild bit-for-bit" (CreatePlan): a plan    *)
(* that scales the fabric leaves the addresses, ASNs and interfaces of     *)
(* everything deployed that it keeps alone.                                *)
(***************************************************************************)
SurvivorsKeepTheirs ==
  [][plan' = "scale" /\ plans' # plans /\ gen # 0 =>
       LET b == Deployed IN
       /\ \A n \in DOMAIN b.nodes \cap DOMAIN desired'.nodes : desired'.nodes[n] = b.nodes[n]
       /\ \A l \in DOMAIN b.links \cap DOMAIN desired'.links : desired'.links[l] = b.links[l]]_vars

(***************************************************************************)
(* The preview of a plan that scales the fabric lists every surviving node *)
(* whose running configuration the apply changes (planChanges against      *)
(* buildIncrement), and no plan removes a link between two survivors, the  *)
(* teardown "this platform's scale operations never produce".              *)
(***************************************************************************)
PreviewIsComplete ==
  plan # "none" /\ gen # 0 =>
    /\ plan = "scale" => Increment(Deployed, desired).reload \subseteq Updates(Deployed, desired)
    /\ Supported(Deployed, desired)

(***************************************************************************)
(* An increment ends where a deploy from scratch would: after any sequence *)
(* of scale operations, and when an apply that failed at any item of any   *)
(* phase was repeated, containers, veth pairs, bridge and bond ports and   *)
(* running configurations are those of the generation (DeployIncrement),   *)
(* as long as no rollback asked for other interfaces of a surviving link.  *)
(***************************************************************************)
IncrementEqualsDeploy ==
  gen # 0 /\ tried = {} /\ moved = {} =>
    [DropPorts(live, live.stale) EXCEPT !.stale = {}] = FullDeploy(Deployed)

=============================================================================
