--------------------------- MODULE MCIdleRelease ----------------------------
(* Small instances of IdleRelease for TLC. *)
EXTENDS IdleRelease

\* Two release calls, and two automatic ones, are interchangeable.
Symmetry == Permutations(Releases) \cup Permutations(AutoReleases)
=============================================================================
