--------------------------- MODULE FabricBuilder ---------------------------
(***************************************************************************)
(* From a topology spec and the deployed topology to the desired one       *)
(* (controller/internal/topology), its rendered configuration              *)
(* (compiler/frr, compiler/containerlab), the preview of a plan            *)
(* (biz/plandiff.go) and the increment that deploys it (biz/increment.go). *)
(*                                                                         *)
(* A resource of a pool (a loopback, a point-to-point or rack subnet, an   *)
(* ASN of a role, a rack number, an interface index of a node) is a number *)
(* from 1 up, and so is its place in the pool.                             *)
(***************************************************************************)
EXTENDS Integers, FiniteSets, SequencesExt, FiniteSetsExt

CONSTANTS
  Loopbacks,   \* addresses of the loopback pool
  P2PSubnets,  \* subnets of the fabric pool
  RackSubnets, \* subnets of the server VLAN pool
  ASNs         \* ASNs of the range of each role

ASSUME PoolAssumptions == {Loopbacks, P2PSubnets, RackSubnets, ASNs} \subseteq Nat

----------------------------------------------------------------------------
(* Nodes and links, in the order Build creates them *)

\* A topology spec that validateTopologySpec and fillPodNames accept.
IsSpec(s) ==
  /\ {s.externals, s.edges, s.superspines} \subseteq Nat \ {0}
  /\ s.pods \in Seq([name : Nat \ {0}, spines : Nat \ {0}, racks : Nat \ {0}, servers : Nat \ {0}])
  /\ \A p, q \in 1 .. Len(s.pods) : p # q => s.pods[p].name # s.pods[q].name

Node(role, pod, rack, i) == [role |-> role, pod |-> pod, rack |-> rack, i |-> i]
Row(role, pod, rack, n) == [i \in 1 .. n |-> Node(role, pod, rack, i)]
Tier(role, pod, n) == Row(role, pod, 0, n)
LeafPair(pod, rack) == Row("leaf", pod, rack, 2)
Servers(pod, rack) == Row("server", pod.name, rack, pod.servers)

\* F(1) \o ... \o F(n).
Concat(n, F(_)) == FlattenSeq([k \in 1 .. n |-> F(k)])

\* Full mesh between two tiers.
Mesh(upper, lower) == Concat(Len(upper), LAMBDA j : [k \in 1 .. Len(lower) |-> <<upper[j], lower[k]>>])

\* rack is the number of each pod's slots.
RackNodes(pod, num) == LeafPair(pod.name, num) \o Servers(pod, num)

NodesOf(spec, rack) ==
  Tier("external", 0, spec.externals) \o Tier("dcedge", 0, spec.edges)
  \o Tier("superspine", 0, spec.superspines)
  \o Concat(Len(spec.pods), LAMBDA p :
       Tier("spine", spec.pods[p].name, spec.pods[p].spines)
       \o Concat(spec.pods[p].racks, LAMBDA r : RackNodes(spec.pods[p], rack[<<spec.pods[p].name, r>>])))

\* addRack: spines to both leaves, the peer link, and both leaves to each server.
RackLinks(pod, num) ==
  LET leaves == LeafPair(pod.name, num)
      servers == Servers(pod, num)
  IN Mesh(Tier("spine", pod.name, pod.spines), leaves) \o <<<<leaves[1], leaves[2]>>>>
     \o Concat(Len(servers), LAMBDA i : <<<<leaves[1], servers[i]>>, <<leaves[2], servers[i]>>>>)

LinksOf(spec, rack) ==
  LET top == Tier("superspine", 0, spec.superspines)
  IN Mesh(Tier("external", 0, spec.externals), Tier("dcedge", 0, spec.edges))
     \o Mesh(Tier("dcedge", 0, spec.edges), top)
     \o Concat(Len(spec.pods), LAMBDA p :
          Mesh(top, Tier("spine", spec.pods[p].name, spec.pods[p].spines))
          \o Concat(spec.pods[p].racks, LAMBDA r : RackLinks(spec.pods[p], rack[<<spec.pods[p].name, r>>])))

Slots(spec) ==
  Concat(Len(spec.pods), LAMBDA p : [r \in 1 .. spec.pods[p].racks |-> <<spec.pods[p].name, r>>])

IsServer(n) == n.role = "server"
IsLeaf(n)   == n.role = "leaf"

\* Links with addresses: both ends are routers, and not an MLAG pair.
IsFabric(l) == ~IsServer(l[2]) /\ ~(IsLeaf(l[1]) /\ IsLeaf(l[2]))
IsAccess(l) == IsServer(l[2])

----------------------------------------------------------------------------
(* Allocation *)

\* Mutant: the next fresh resource follows from how many are held.
CountHeld(held) == Cardinality(DOMAIN held)

\* Restore: nothing below the highest resource held is handed out again.
HighWater(held) == Max({held[o] : o \in DOMAIN held} \cup {0})

\* Where the build comes to o, and how many of fresh it has come to by then.
Place(order, o) == CHOOSE k \in 1 .. Len(order) : order[k] = o
Turn(order, fresh, o) == Cardinality({k \in 1 .. Place(order, o) : order[k] \in fresh})

\* Mutant: what owners hold is not looked up.
AssignAfresh(order, owners, held) ==
  [o \in owners |-> HighWater(held) + Turn(order, owners, o)]

\* Every owner keeps what it holds; the others get fresh resources as the
\* build comes to them.
Assign(order, owners, held) ==
  [o \in owners |-> IF o \in DOMAIN held THEN held[o]
                    ELSE HighWater(held) + Turn(order, owners \ DOMAIN held, o)]

\* A pod's rack numbers in ascending order: its slots.
HeldRacks(base) ==
  LET leaves == {n \in DOMAIN base.nodes : IsLeaf(n)}
      slot(n) == <<n.pod, Cardinality({m.rack : m \in {k \in leaves : k.pod = n.pod /\ k.rack <= n.rack}})>>
  IN [s \in {slot(n) : n \in leaves} |-> (CHOOSE n \in leaves : slot(n) = s).rack]

\* What node n holds of the interface indices: the link's end that is at n.
EndAt(l, n) == IF l[1] = n THEN 1 ELSE 2
HeldIfs(base, n) ==
  [l \in {k \in DOMAIN base.links : n \in {k[1], k[2]}} |-> base.links[l].ifs[EndAt(l, n)]]

\* The topology that owns nothing.
Nothing == [nodes |-> <<>>, links |-> <<>>]

\* NewBuilder and Build, on what is deployed.  A node's spec: its ASN (with the
\* range it is from), loopback and rack subnet; a link's: its subnet and the
\* interfaces of its ends.
Build(spec, base) ==
  LET slots == Slots(spec)
      rack == Assign(slots, Range(slots), HeldRacks(base))
      nodes == NodesOf(spec, rack)
      links == LinksOf(spec, rack)
      all == Range(nodes)
      held(keep(_), field) == [n \in {m \in DOMAIN base.nodes : keep(m)} |-> base.nodes[n][field]]
      assign(keep(_), field) == Assign(nodes, {n \in all : keep(n)}, held(keep, field))
      loopback == assign(LAMBDA n : ~IsServer(n), "loopback")
      asn(role) == assign(LAMBDA n : n.role = role, "asn")
      rackNet == assign(LAMBDA n : IsLeaf(n) /\ n.i = 1, "net")
      p2p == Assign(links, {l \in Range(links) : IsFabric(l)},
                    [l \in {k \in DOMAIN base.links : IsFabric(k)} |-> base.links[l].net])
      ifs(n) == Assign(links, {l \in Range(links) : n \in {l[1], l[2]}}, HeldIfs(base, n))
      netOf(n) == rackNet[[n EXCEPT !.role = "leaf", !.i = 1]]
  IN [nodes |-> [n \in all |->
        [asn |-> CASE IsServer(n) -> 0 [] IsLeaf(n) -> n.rack [] OTHER -> asn(n.role)[n],
         loopback |-> IF IsServer(n) THEN 0 ELSE loopback[n],
         net |-> IF n.rack = 0 THEN 0 ELSE netOf(n)]],
      links |-> [l \in Range(links) |->
        [net |-> IF IsFabric(l) THEN p2p[l] ELSE 0, ifs |-> <<ifs(l[1])[l], ifs(l[2])[l]>>]]]

\* No pool and no range is exhausted.
Fits(t) ==
  /\ \A n \in DOMAIN t.nodes :
       /\ t.nodes[n].loopback <= Loopbacks
       /\ t.nodes[n].net <= RackSubnets
       /\ ~IsLeaf(n) => t.nodes[n].asn <= ASNs
  /\ \A l \in DOMAIN t.links : t.links[l].net <= P2PSubnets

----------------------------------------------------------------------------
(* Rendered configuration *)

At(t, n) == {l \in DOMAIN t.links : n \in {l[1], l[2]}}
Other(l, n) == IF l[1] = n THEN l[2] ELSE l[1]

\* BuildRouterConfigs: the node itself, its addressed interfaces with the
\* neighbor behind each, the leaves of its rack (the MLAG peer, or the peers
\* of a server), and a leaf's peer group when its rack has servers.
Conf(t, n) ==
  [self |-> t.nodes[n],
   neighbors |-> {[if |-> t.links[l].ifs[EndAt(l, n)], net |-> t.links[l].net,
                   peer |-> Other(l, n), asn |-> t.nodes[Other(l, n)].asn]
                   : l \in {k \in At(t, n) : IsFabric(k)}},
   rack |-> {[peer |-> m, spec |-> t.nodes[m]]
              : m \in {k \in DOMAIN t.nodes : IsLeaf(k) /\ k # n /\ k.pod = n.pod /\ k.rack = n.rack}},
   group |-> \E m \in DOMAIN t.nodes : IsServer(m) /\ m.pod = n.pod /\ m.rack = n.rack]

\* Ports the setup commands put into a leaf's bridge or a server's bond.
Ports(t, n) == {t.links[l].ifs[EndAt(l, n)] : l \in {k \in At(t, n) : ~IsFabric(k)}}

\* The two ends of a link's veth pair.
Ends(t, l) == {<<l[1], t.links[l].ifs[1]>>, <<l[2], t.links[l].ifs[2]>>}

----------------------------------------------------------------------------
(* Preview and increment *)

\* Mutant: only new links refresh a node's configuration.
TouchedByNew(base, t) == UNION {{l[1], l[2]} : l \in DOMAIN t.links \ DOMAIN base.links}

\* The nodes whose set of links changes.
Touched(base, t) ==
  UNION {{l[1], l[2]} : l \in (DOMAIN t.links \ DOMAIN base.links) \cup (DOMAIN base.links \ DOMAIN t.links)}

\* planChanges: what the plan says it updates.
Updates(base, t) ==
  {n \in DOMAIN base.nodes \cap DOMAIN t.nodes :
     base.nodes[n] # t.nodes[n] \/ n \in Touched(base, t)}

\* buildIncrement; setup and attach are the ports that new nodes and surviving
\* leaves gain.
Increment(base, t) ==
  LET survives == DOMAIN base.nodes \cap DOMAIN t.nodes
      new == DOMAIN t.nodes \ DOMAIN base.nodes
      links == DOMAIN t.links \ DOMAIN base.links
  IN [add    |-> new,
      links  |-> links,
      setup  |-> UNION {{n} \X Ports(t, n) : n \in new},
      attach |-> {<<l[1], t.links[l].ifs[1]>> : l \in {k \in links : IsAccess(k) /\ k[1] \in DOMAIN base.nodes}},
      reload |-> {n \in survives : Conf(base, n) # Conf(t, n)},
      remove |-> DOMAIN base.nodes \ DOMAIN t.nodes]

\* The teardown that scale operations "never produce".
Supported(base, t) ==
  \A l \in DOMAIN base.links \ DOMAIN t.links : ~({l[1], l[2]} \subseteq DOMAIN t.nodes)

=============================================================================
