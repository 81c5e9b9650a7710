--------------------------- MODULE MCEgressCache ---------------------------
EXTENDS EgressCache, TLC

\* CPUs, paths and elements of the map are interchangeable (safety only).
Symmetry == Permutations(Cpus) \union Permutations(Paths)
              \union Permutations(Slots)
=============================================================================
