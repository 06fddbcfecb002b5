----------------------- MODULE MCDependencyContainer -----------------------
(* A small instance of DependencyContainer: there are two ways from a to   *)
(* d, one of them through the transient c; b may close a cycle with a,     *)
(* which is declared, and d one with b, which is not.                      *)
EXTENDS DependencyContainer, TLC

CONSTANTS a, b, c, d

MCFactories == a :> {{b, c}} @@ b :> {{d}, {a}} @@ c :> {{d}} @@ d :> {{}, {b}}

=============================================================================
