------------------------- MODULE MCInstanceCreation -------------------------
(* Small instances of InstanceCreation for TLC. *)
EXTENDS InstanceCreation, TLC

\* Names are interchangeable.
Symmetry == Permutations(Names)
=============================================================================
