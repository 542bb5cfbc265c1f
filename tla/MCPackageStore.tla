-------------------------- MODULE MCPackageStore --------------------------
(* Small instances of PackageStore for TLC. *)
EXTENDS PackageStore, TLC

\* Digests and programs are interchangeable.
Interchangeable == Permutations(Digests) \cup Permutations(Programs)

=============================================================================
