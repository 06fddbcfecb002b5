-------------------------- MODULE DependencyGraph --------------------------
(***************************************************************************)
(* The registrations of FunctionalDependencyContainer: which types have a  *)
(* factory, and the graph of the dependencies that were declared for them. *)
(* A registration that the container rejects changes nothing.              *)
(***************************************************************************)
CONSTANT Types      \* the interface types

VARIABLES
    registered,     \* the keys of _factories
    deps            \* _dependency_graph: the declared dependencies of a type

graphVars == <<registered, deps>>

-----------------------------------------------------------------------------

\* A set of types that contains all it depends on.
Closed(C) == \A t \in C : deps[t] \subseteq C

\* x is t or a transitive dependency of t: it is in every closed set that holds t.
Reaches(t, x) == \A C \in SUBSET Types : t \in C /\ Closed(C) => x \in C

\* A fault the checks must find: only a type that depends on itself is refused.
DirectlyCircular(t, D) == t \in D

\* _check_circular_dependencies.  Dependencies without a factory are skipped.
Circular(t, D) == t \in D \/ \E d \in D \intersect registered : Reaches(d, t)

GraphInit ==
    /\ registered = {}
    /\ deps = [t \in Types |-> {}]

RegisterFactory(t) ==
    /\ t \notin registered
    /\ registered' = registered \union {t}
    /\ UNCHANGED deps

\* A fault the checks must find: the factory is not stored.
RegisterGraphOnly(t, D) ==
    /\ t \notin registered
    /\ ~Circular(t, D)
    /\ deps' = [deps EXCEPT ![t] = D]
    /\ UNCHANGED registered

RegisterWithDependencies(t, D) ==
    /\ t \notin registered
    /\ ~Circular(t, D)
    /\ registered' = registered \union {t}
    /\ deps' = [deps EXCEPT ![t] = D]

GraphNext ==
    \E t \in Types : \/ RegisterFactory(t)
                     \/ \E D \in SUBSET Types : RegisterWithDependencies(t, D)

GraphSpec == GraphInit /\ [][GraphNext]_graphVars

-----------------------------------------------------------------------------
(* _check_cycle_path, the depth first search behind the check.  Every      *)
(* branch of it gets a copy of the set of visited types.                   *)

\* found says of every call, with its current type and the types visited, whether
\* it comes upon start.
IsSearch(found, start) ==
    found = [call \in Types \X SUBSET Types |->
                \/ call[1] = start
                \/ /\ call[1] \notin call[2]
                   /\ \E d \in deps[call[1]] : found[<<d, call[2] \union {call[1]}>>]]

\* A fault the checks must find: the search does not go on from the dependencies.
CheckFirstStep(start, current) == current = start \/ start \in deps[current]

CheckCyclePath(start, current) ==
    LET found[call \in Types \X SUBSET Types] ==
            \/ call[1] = start
            \/ /\ call[1] \notin call[2]
               /\ \E d \in deps[call[1]] : found[<<d, call[2] \union {call[1]}>>]
    IN  found[<<current, {}>>]

-----------------------------------------------------------------------------
(* Properties.                                                             *)

\* The registrations have the values that they may take.
GraphTypeOK ==
    /\ registered \subseteq Types
    /\ deps \in [Types -> SUBSET Types]
    /\ \A t \in Types \ registered : deps[t] = {}

\* The declared dependencies never form a cycle, in whatever order the types are
\* registered, with dependencies that are registered later, or never: every set of
\* types has one that depends on no other of them.
Acyclic ==
    \A S \in SUBSET Types : S # {} => \E t \in S : deps[t] \intersect S = {}

\* The depth first search finds a type exactly when it is a transitive dependency.
SearchFindsReachable ==
    \A start \in Types \ registered, current \in Types :
        CheckCyclePath(start, current) <=> Reaches(current, start)

=============================================================================
