-------------------------- MODULE MCFaultScenarios --------------------------
(* Small instances of FaultScenarios for TLC. *)
EXTENDS FaultScenarios

CONSTANTS stop, restart, cut, slow

MCType == (stop :> "node-stop") @@ (restart :> "node-restart") @@ (cut :> "link-down")
            @@ (slow :> "impairment")
MCSides == (stop :> <<>>) @@ (restart :> <<>>) @@ (cut :> <<"a", "b">>) @@ (slow :> <<"b">>)

\* Restrictions of the above to the scenarios of a run.
TypeOf  == [s \in Faults |-> MCType[s]]
SidesOf == [s \in Faults |-> MCSides[s]]

\* Handlers are interchangeable.
AnyHandler == Permutations(Handlers)

=============================================================================
