------------------------- MODULE MCRuntimeScheduler -------------------------
(* Small instances of RuntimeScheduler for TLC. *)
EXTENDS RuntimeScheduler

\* The three roles are interchangeable in every safety property.
Symmetry == Permutations(Threads) \cup Permutations(Vms) \cup Permutations(Instances)
=============================================================================
