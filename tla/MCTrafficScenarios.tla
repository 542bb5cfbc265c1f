------------------------ MODULE MCTrafficScenarios ------------------------
(* Small instances of TrafficScenarios for TLC. *)
EXTENDS TrafficScenarios

\* Handlers are interchangeable.
AnyHandler == Permutations(Handlers)

=============================================================================
