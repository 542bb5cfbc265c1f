-------------------------- MODULE MCOperationFeed --------------------------
(* Small instances of OperationFeed for TLC. *)
EXTENDS OperationFeed, TLC

CONSTANTS apply, destroy

\* DestroyTopology is worth more than DeleteResources: percentages do not divide evenly.
Weights == (apply :> <<1>>) @@ (destroy :> <<2, 1>>)
=============================================================================
