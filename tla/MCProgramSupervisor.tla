------------------------ MODULE MCProgramSupervisor ------------------------
(* Small instances of ProgramSupervisor for TLC. *)
EXTENDS ProgramSupervisor, TLC

Daemon  == [policy |-> "Always", type |-> "simple", auto |-> FALSE,
            liveness |-> FALSE, readiness |-> FALSE, order |-> 0]
Retried == [Daemon EXCEPT !.policy = "OnFailure"]
Once    == [Daemon EXCEPT !.policy = "Never"]
Task    == [Once EXCEPT !.type = "oneshot"]
Enabled == [Once EXCEPT !.auto = TRUE, !.order = 1]
Probed  == [Daemon EXCEPT !.liveness = TRUE]
Gated   == [Retried EXCEPT !.readiness = TRUE]

BootMix == {Daemon, Enabled}
Checked == {Probed, Gated, Task}

\* Slots of objects and runs are interchangeable, and so are client handlers.
Slots == Permutations(Objs) \cup Permutations(Runs) \cup Permutations(Clients)

=============================================================================
