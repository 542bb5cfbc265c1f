--------------------------- MODULE MCLabPrograms ---------------------------
(* Small instances of LabPrograms for TLC. *)
EXTENDS LabPrograms

\* Handlers, servers and versions are interchangeable.
Interchangeable == Permutations(Handlers) \cup Permutations(Servers) \cup Permutations(Versions)

=============================================================================
