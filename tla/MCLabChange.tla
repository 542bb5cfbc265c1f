---------------------------- MODULE MCLabChange ----------------------------
(* Small instances of LabChange for TLC. *)
EXTENDS LabChange

CONSTANTS a, b

\* One device, or that device and a second one: scale out and scale in.
OneOrTwo == {{a}, {a, b}}

\* The same lab for ever.
JustOne == {{a}}

=============================================================================
