--------------------------- MODULE MCVersionStore ---------------------------
(***************************************************************************)
(* VersionStore for TLC: nothing tells writers, fields or values apart.    *)
(***************************************************************************)
EXTENDS VersionStore, TLC

Symmetry ==
    Permutations(Writers) \cup Permutations(Fields) \cup Permutations(Values)
=============================================================================
