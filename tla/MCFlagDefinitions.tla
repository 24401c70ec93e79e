-------------------------- MODULE MCFlagDefinitions --------------------------
(* Instances of FlagDefinitions for TLC. *)
EXTENDS FlagDefinitions, TLC

Symmetry == Permutations(Loaders)
=============================================================================
