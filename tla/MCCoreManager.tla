--------------------------- MODULE MCCoreManager ---------------------------
(* Instances of CoreManager for TLC. *)
EXTENDS CoreManager, TLC

\* Versions are interchangeable; used by the safety run only.
Symmetry == Permutations(Versions)
=============================================================================
