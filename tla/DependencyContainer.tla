------------------------ MODULE DependencyContainer ------------------------
(***************************************************************************)
(* FunctionalDependencyContainer at work: registration, recursive          *)
(* resolution, singleton caches and scopes.                                *)
(*                                                                         *)
(* The factory of a type gets its dependencies in one of two ways.  A      *)
(* factory registered with dependencies is wrapped, and the wrapper        *)
(* resolves them; a plain factory resolves them itself, in the closures of *)
(* create_default_container, and the dependency graph knows nothing of it. *)
(* Both captured the container they were registered on, the root: what a   *)
(* scope is asked for is cached in the scope, what it is made of comes     *)
(* from the root.                                                          *)
(*                                                                         *)
(* resolve is synchronous: the stack of its recursive calls is explicit.   *)
(* Dependencies are resolved in any order, an abstraction of the order of  *)
(* the declared list.  An instance is named by its place in built.         *)
(***************************************************************************)
EXTENDS Naturals, Sequences, DependencyGraph

CONSTANTS
    Factories,       \* the dependencies that a factory of each type may have: a choice
    Declared,        \* the types registered with their dependencies
    Singletons,      \* the types registered as singletons
    Scopes,          \* the scopes that may be created
    RecursionLimit,  \* how deep resolve may call itself
    MaxInstances     \* bound: instances built

ASSUME ContainerAssumption ==
    /\ Factories \in [Types -> SUBSET SUBSET Types]
    /\ Declared \subseteq Types
    /\ Singletons \subseteq Types
    /\ "root" \notin Scopes
    /\ RecursionLimit \in Nat \ {0}
    /\ MaxInstances \in Nat

Containers == Scopes \union {"root"}
NoInstance == 0

VARIABLES
    uses,        \* the dependencies that the registered factory of a type resolves
    cache,       \* _singletons of each container
    scopeTypes,  \* _factories of each scope
    openScopes,  \* the scopes in use
    stack,       \* the calls of resolve under way, the innermost last
    built,       \* the instances made: their type, home and parts
    clearedAt    \* the number of instances made before the last clear_singletons

vars == <<graphVars, uses, cache, scopeTypes, openScopes, stack, built, clearedAt>>

-----------------------------------------------------------------------------

Empty == [t \in Types |-> NoInstance]

Known(c) == IF c = "root" THEN registered ELSE scopeTypes[c]

\* A fault the checks must find: a cached singleton is made again.
CachedNever(c, t) == FALSE

Cached(c, t) == t \in Singletons /\ cache[c][t] # NoInstance

Frame(c, t) == [type |-> t, home |-> c, todo |-> uses[t], parts |-> Empty]

Top == stack[Len(stack)]

\* The dependency t of the innermost call is the instance i.
Deliver(calls, t, i) ==
    [calls EXCEPT ![Len(calls)].parts[t] = i, ![Len(calls)].todo = @ \ {t}]

ContainerInit ==
    /\ GraphInit
    /\ uses = [t \in Types |-> {}]
    /\ cache = [c \in Containers |-> Empty]
    /\ scopeTypes = [s \in Scopes |-> {}]
    /\ openScopes = {}
    /\ stack = <<>>
    /\ built = <<>>
    /\ clearedAt = 0

Register(t) ==
    /\ stack = <<>>
    /\ \E D \in Factories[t] :
          /\ IF t \in Declared THEN RegisterWithDependencies(t, D) ELSE RegisterFactory(t)
          /\ uses' = [uses EXCEPT ![t] = D]
    /\ UNCHANGED <<cache, scopeTypes, openScopes, stack, built, clearedAt>>

\* create_scope, up to its yield.
OpenScope(s) ==
    /\ stack = <<>>
    /\ s \notin openScopes
    /\ openScopes' = openScopes \union {s}
    /\ scopeTypes' = [scopeTypes EXCEPT ![s] = registered]
    /\ UNCHANGED <<graphVars, uses, cache, stack, built, clearedAt>>

CloseScope(s) ==
    /\ stack = <<>>
    /\ s \in openScopes
    /\ openScopes' = openScopes \ {s}
    /\ cache' = [cache EXCEPT ![s] = Empty]
    /\ UNCHANGED <<graphVars, uses, scopeTypes, stack, built, clearedAt>>

ClearSingletons ==
    /\ stack = <<>>
    /\ clearedAt # Len(built)
    /\ cache' = [cache EXCEPT !["root"] = Empty]
    /\ clearedAt' = Len(built)
    /\ UNCHANGED <<graphVars, uses, scopeTypes, openScopes, stack, built>>

\* resolve is called from outside, and has to make the instance.
Resolve(c, t) ==
    /\ stack = <<>>
    /\ c = "root" \/ c \in openScopes
    /\ t \in Known(c)
    /\ ~Cached(c, t)
    /\ stack' = <<Frame(c, t)>>
    /\ UNCHANGED <<graphVars, uses, cache, scopeTypes, openScopes, built, clearedAt>>

\* The innermost factory resolves one of its dependencies, in the root.
ResolveDependency ==
    /\ stack # <<>>
    /\ \E d \in Top.todo \intersect registered :
          \/ /\ Cached("root", d)
             /\ stack' = Deliver(stack, d, cache["root"][d])
          \/ /\ ~Cached("root", d)
             /\ Len(stack) < RecursionLimit
             /\ stack' = Append(stack, Frame("root", d))
    /\ UNCHANGED <<graphVars, uses, cache, scopeTypes, openScopes, built, clearedAt>>

\* A dependency is not registered, the recursion is too deep, or the factory
\* raises: every call under way raises.  What they have cached stays.
ResolveFails ==
    /\ stack # <<>>
    /\ \/ Top.todo \ registered # {}
       \/ Len(stack) = RecursionLimit /\ \E d \in Top.todo : ~Cached("root", d)
       \/ Top.todo = {}
    /\ stack' = <<>>
    /\ UNCHANGED <<graphVars, uses, cache, scopeTypes, openScopes, built, clearedAt>>

\* A fault the checks must find: only the type asked for is cached.
CacheOutermost(c, t, i) ==
    IF t \in Singletons /\ Len(stack) = 1 THEN [cache EXCEPT ![c][t] = i] ELSE cache

\* What resolve caches once the factory of t has returned the instance i.
CacheInstance(c, t, i) ==
    IF t \in Singletons THEN [cache EXCEPT ![c][t] = i] ELSE cache

\* The innermost factory returns, and so does its call of resolve.
ResolveReturns ==
    /\ stack # <<>>
    /\ Top.todo = {}
    /\ Len(built) < MaxInstances
    /\ LET i == Len(built) + 1
           callers == SubSeq(stack, 1, Len(stack) - 1)
       IN  /\ built' = Append(built, [type |-> Top.type, home |-> Top.home, parts |-> Top.parts])
           /\ cache' = CacheInstance(Top.home, Top.type, i)
           /\ stack' = IF callers = <<>> THEN <<>> ELSE Deliver(callers, Top.type, i)
    /\ UNCHANGED <<graphVars, uses, scopeTypes, openScopes, clearedAt>>

ContainerNext ==
    \/ \E t \in Types : Register(t)
    \/ \E s \in Scopes : OpenScope(s) \/ CloseScope(s)
    \/ \E c \in Containers, t \in Types : Resolve(c, t)
    \/ ResolveDependency \/ ResolveReturns \/ ResolveFails
    \/ ClearSingletons

ContainerSpec == ContainerInit /\ [][ContainerNext]_vars

-----------------------------------------------------------------------------
(* Properties.                                                             *)

Instances == 1..Len(built)

\* The values each variable may take.
ContainerTypeOK ==
    /\ GraphTypeOK
    /\ uses \in [Types -> SUBSET Types]
    /\ cache \in [Containers -> [Types -> Instances \union {NoInstance}]]
    /\ scopeTypes \in [Scopes -> SUBSET registered]
    /\ openScopes \subseteq Scopes
    /\ \A k \in 1..Len(stack) :
          stack[k] \in [type : Types, home : Containers, todo : SUBSET Types,
                        parts : [Types -> Instances \union {NoInstance}]]
    /\ \A i \in Instances :
          built[i] \in [type : Types, home : Containers,
                        parts : [Types -> Instances \union {NoInstance}]]

\* A singleton is one: every instance made since the last clear, in the root or
\* in a scope, transient or not, was given the instance that the root's cache
\* holds, even after resolutions that failed half way.
SingletonsShared ==
    \A i \in Instances : i > clearedAt =>
        \A d \in uses[built[i].type] \intersect Singletons :
            built[i].parts[d] = cache["root"][d]

\* A cached singleton is never replaced by another, only cleared.
SingletonStable ==
    [][\A c \in Containers, t \in Singletons :
          cache[c][t] # NoInstance => cache'[c][t] \in {cache[c][t], NoInstance}]_vars

\* resolve runs into itself only through a factory that resolves by itself: the
\* check at registration stops every cycle of declared dependencies.
RecursionOnlyByClosures ==
    \A j \in 1..Len(stack) : \A i \in 1..(j - 1) :
        stack[i].type = stack[j].type =>
            \E k \in i..(j - 1) : stack[k].type \notin Declared

-----------------------------------------------------------------------------
(* What comments say and the code does not do.                             *)

\* create_scope: "a new dependency scope for request-scoped instances", whose
\* cache is "empty for scope isolation": an instance of a scope is made of
\* instances of that scope.
ScopesIsolated ==
    \A s \in Scopes, t \in Types : cache[s][t] # NoInstance =>
        \A d \in uses[t] : built[built[cache[s][t]].parts[d]].home = s

=============================================================================
