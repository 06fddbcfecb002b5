------------------------ MODULE DependencyValidation ------------------------
(***************************************************************************)
(* validate_registrations: the look at all registrations at once, with a   *)
(* search for cycles of its own.  The search starts anew from every        *)
(* registered type; its branches share the set of visited types and have   *)
(* paths of their own.  It is recursive: the path is the stack of its      *)
(* calls.  The types to start from, and the dependencies of a type, are    *)
(* taken in any order.                                                     *)
(*                                                                         *)
(* The container is any that its registrations can make, and one more      *)
(* registration that is not checked, so that the search over all of them   *)
(* can be compared with the check at registration.                         *)
(***************************************************************************)
EXTENDS Naturals, Sequences, DependencyGraph

VARIABLES
    refused,     \* what the check says of the last registration
    unstarted,   \* the registered types that no search has started from
    visited,     \* the types that the search under way has come to
    path,        \* the types of the calls of _detect_cycles_from under way
    todo,        \* of each of them the dependencies still to look at
    phase        \* registering, searching, cycle, none

validationVars == <<graphVars, refused, unstarted, visited, path, todo, phase>>

-----------------------------------------------------------------------------

ValidationInit ==
    /\ GraphInit
    /\ refused = FALSE
    /\ unstarted = {}
    /\ visited = {}
    /\ path = <<>>
    /\ todo = [t \in Types |-> {}]
    /\ phase = "registering"

RegisterChecked ==
    /\ phase = "registering"
    /\ GraphNext
    /\ UNCHANGED <<refused, unstarted, visited, path, todo, phase>>

\* The last registration goes in whatever the check says, and the loop of
\* _validate_all_cycles begins.
RegisterUnchecked(t, D) ==
    /\ phase = "registering"
    /\ t \notin registered
    /\ refused' = Circular(t, D)
    /\ registered' = registered \union {t}
    /\ deps' = [deps EXCEPT ![t] = D]
    /\ unstarted' = registered'
    /\ phase' = "searching"
    /\ UNCHANGED <<visited, path, todo>>

Innermost == path[Len(path)]

OnPath == {path[k] : k \in DOMAIN path}

\* A fault the checks must find: a visited type is left before the path is looked at.
ClosesUnvisited(t) == t \in OnPath \ visited

\* The search has come to a type that it came from.
Closes(t) == t \in OnPath

\* An iteration of _validate_all_cycles, with a set of visited types of its own.
StartFrom(t) ==
    /\ phase = "searching"
    /\ path = <<>>
    /\ t \in unstarted
    /\ unstarted' = unstarted \ {t}
    /\ visited' = {t}
    /\ path' = <<t>>
    /\ todo' = [todo EXCEPT ![t] = deps[t]]
    /\ UNCHANGED <<graphVars, refused, phase>>

\* _detect_cycles_from calls itself with a dependency of the innermost type.
DetectCyclesFrom(t) ==
    /\ phase = "searching"
    /\ path # <<>>
    /\ t \in todo[Innermost]
    /\ \/ /\ Closes(t)
          /\ phase' = "cycle"
          /\ UNCHANGED <<visited, path, todo>>
       \/ /\ ~Closes(t)
          /\ t \in visited
          /\ todo' = [todo EXCEPT ![Innermost] = @ \ {t}]
          /\ UNCHANGED <<visited, path, phase>>
       \/ /\ ~Closes(t)
          /\ t \notin visited
          /\ visited' = visited \union {t}
          /\ path' = Append(path, t)
          /\ todo' = [todo EXCEPT ![Innermost] = @ \ {t}, ![t] = deps[t]]
          /\ UNCHANGED phase
    /\ UNCHANGED <<graphVars, refused, unstarted>>

Return ==
    /\ phase = "searching"
    /\ path # <<>>
    /\ todo[Innermost] = {}
    /\ path' = SubSeq(path, 1, Len(path) - 1)
    /\ UNCHANGED <<graphVars, refused, unstarted, visited, todo, phase>>

\* No search has come upon a cycle.
Conclude ==
    /\ phase = "searching"
    /\ path = <<>>
    /\ unstarted = {}
    /\ phase' = "none"
    /\ UNCHANGED <<graphVars, refused, unstarted, visited, path, todo>>

\* The dependencies that validate_registrations reports as missing.
Missing == (UNION {deps[t] : t \in registered}) \ registered

\* validate_registrations does not raise.
Valid == phase = "none" /\ Missing = {}

ValidationNext ==
    \/ RegisterChecked
    \/ \E t \in Types, D \in SUBSET Types : RegisterUnchecked(t, D)
    \/ \E t \in Types : StartFrom(t) \/ DetectCyclesFrom(t)
    \/ Return \/ Conclude

ValidationSpec == ValidationInit /\ [][ValidationNext]_validationVars

-----------------------------------------------------------------------------
(* Properties.                                                             *)

\* The values each variable may take.
ValidationTypeOK ==
    /\ GraphTypeOK
    /\ refused \in BOOLEAN
    /\ unstarted \subseteq registered
    /\ visited \subseteq Types
    /\ path \in Seq(visited)
    /\ todo \in [Types -> SUBSET Types]
    /\ phase \in {"registering", "searching", "cycle", "none"}

\* The two searches for cycles agree, the one at each registration and the one over
\* all of them, although a branch of the one knows nothing of what other branches have
\* visited and a branch of the other skips it: validate_registrations finds a cycle
\* exactly if the last registration is one that the check refuses.  And it passes
\* exactly if all can be resolved: there is no cycle and nothing is missing that a
\* declared dependency leads to.
ValidationAgrees ==
    phase \in {"cycle", "none"} =>
        /\ phase = "cycle" <=> refused
        /\ Valid <=> /\ Acyclic
                     /\ \A t \in registered, x \in Types : Reaches(t, x) => x \in registered

=============================================================================
