----------------------- MODULE MCDependencyValidation -----------------------
(* An instance of DependencyValidation: every container with some types,   *)
(* and every registration that one more of them could be given.            *)
EXTENDS DependencyValidation, TLC

Symmetric == Permutations(Types)

=============================================================================
