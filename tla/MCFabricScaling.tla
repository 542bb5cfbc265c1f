-------------------------- MODULE MCFabricScaling --------------------------
(* Small instances of FabricScaling for TLC. *)
EXTENDS FabricScaling

Pod(name, spines, racks, servers) == [name |-> name, spines |-> spines, racks |-> racks, servers |-> servers]
Fabric(ss, pods) == [externals |-> 1, edges |-> 1, superspines |-> ss, pods |-> pods]

\* One pod; another pod; both, under two super spines and the first with a
\* second server; the first with a second spine and a second rack.
OnePod   == Fabric(1, <<Pod(1, 1, 1, 1)>>)
OtherPod == Fabric(1, <<Pod(2, 1, 1, 1)>>)
BothPods == Fabric(2, <<Pod(1, 1, 1, 2), Pod(2, 1, 1, 1)>>)
BigPod   == Fabric(1, <<Pod(1, 2, 2, 1)>>)

Shapes == {OnePod, OtherPod, BothPods, BigPod}
=============================================================================
