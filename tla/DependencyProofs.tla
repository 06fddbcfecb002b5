-------------------------- MODULE DependencyProofs --------------------------
(***************************************************************************)
(* Proofs about the dependency container, for any types (even infinitely   *)
(* many), factories, scopes and recursion limit.                           *)
(*                                                                         *)
(* The registrations: the declared dependencies are acyclic, and both      *)
(* searches for cycles are exact, the one at each registration and the one *)
(* of validate_registrations over all of them.  That the first search      *)
(* finds every transitive dependency holds of any graph; that it finds     *)
(* nothing else is shown by the number of registered types that a branch   *)
(* has yet to visit, so it rests on there being finitely many, which       *)
(* registration one at a time ensures.  The second search leaves behind it *)
(* a growing set of types that leads nowhere but into itself and has no    *)
(* cycle.                                                                  *)
(*                                                                         *)
(* The calls: the heart of these proofs is a fact about a type that        *)
(* resolve runs into again while it is being resolved: the inner call      *)
(* still waits for the very dependency that the outer call is resolving.   *)
(* So the inner call cannot return, nothing under construction is in the   *)
(* cache, and a singleton that is being made is made once.                 *)
(***************************************************************************)
EXTENDS DependencyContainer, DependencyValidation, FiniteSetTheorems, WellFoundedInduction, TLAPS

-----------------------------------------------------------------------------
(* The registrations and the searches.                                     *)

\* A type that cannot be reached from t is missing from a closed set that holds t.
LEMMA Separated ==
    ASSUME NEW t, NEW x, ~Reaches(t, x)
    PROVE  \E C \in SUBSET Types : t \in C /\ Closed(C) /\ x \notin C
BY DEF Reaches

\* A registration that passes the check closes no cycle.
LEMMA RegisterKeepsAcyclic ==
    ASSUME GraphTypeOK, Acyclic, NEW t \in Types, NEW D \in SUBSET Types,
           RegisterWithDependencies(t, D)
    PROVE  Acyclic'
<1> SUFFICES ASSUME NEW S \in SUBSET Types, S # {}
             PROVE  \E x \in S : deps'[x] \intersect S = {}
  BY DEF Acyclic
<1>1. deps' = [deps EXCEPT ![t] = D] /\ ~Circular(t, D) /\ t \notin registered
  BY DEF RegisterWithDependencies
<1>2. \A x \in Types \ {t} : deps'[x] = deps[x]  BY <1>1 DEF GraphTypeOK
<1>3. CASE t \notin S
  <2>1. PICK x \in S : deps[x] \intersect S = {}  BY DEF Acyclic
  <2>2. QED  BY <1>2, <1>3, <2>1
<1>4. CASE D \intersect S = {} /\ t \in S
  BY <1>1, <1>4 DEF GraphTypeOK
<1>5. ASSUME NEW d \in D \intersect S
      PROVE  \E x \in S : deps'[x] \intersect S = {}
  <2>1. PICK C \in SUBSET Types : d \in C /\ Closed(C) /\ t \notin C
    <3>1. CASE d \in registered
      BY <1>1, <3>1, Separated DEF Circular
    <3>2. CASE d \notin registered
      <4>1. d # t /\ deps[d] = {}  BY <1>1, <3>2 DEF Circular, GraphTypeOK
      <4>2. {d} \in SUBSET Types  BY <1>5
      <4>3. Closed({d})  BY <4>1 DEF Closed
      <4>4. QED  BY <4>1, <4>2, <4>3
    <3>3. QED  BY <3>1, <3>2
  <2>2. PICK x \in S \intersect C : deps[x] \intersect (S \intersect C) = {}
    BY <1>5, <2>1 DEF Acyclic
  <2>3. deps[x] \subseteq C  BY <2>1, <2>2 DEF Closed
  <2>4. deps'[x] = deps[x]  BY <1>2, <2>1, <2>2
  <2>5. QED  BY <2>2, <2>3, <2>4
<1>6. QED  BY <1>3, <1>4, <1>5

\* Every registration keeps the graph well formed and acyclic.
LEMMA GraphStep ==
    GraphTypeOK /\ Acyclic /\ [GraphNext]_graphVars => GraphTypeOK' /\ Acyclic'
<1> SUFFICES ASSUME GraphTypeOK, Acyclic, [GraphNext]_graphVars
             PROVE  GraphTypeOK' /\ Acyclic'
  OBVIOUS
<1>1. CASE UNCHANGED graphVars  BY <1>1 DEF graphVars, GraphTypeOK, Acyclic
<1>2. ASSUME NEW t \in Types, RegisterFactory(t)
      PROVE  GraphTypeOK' /\ Acyclic'
  BY <1>2 DEF RegisterFactory, GraphTypeOK, Acyclic
<1>3. ASSUME NEW t \in Types, NEW D \in SUBSET Types, RegisterWithDependencies(t, D)
      PROVE  GraphTypeOK' /\ Acyclic'
  <2>1. GraphTypeOK'  BY <1>3 DEF RegisterWithDependencies, GraphTypeOK
  <2>2. QED  BY <1>3, <2>1, RegisterKeepsAcyclic
<1>4. QED  BY <1>1, <1>2, <1>3 DEF GraphNext

\* Whatever is registered in whatever order, the declared dependencies form no
\* cycle.
THEOREM GraphAcyclic == GraphSpec => []Acyclic
<1>1. GraphInit => GraphTypeOK /\ Acyclic  BY DEF GraphInit, GraphTypeOK, Acyclic
<1>2. QED  BY <1>1, GraphStep, PTL DEF GraphSpec

-----------------------------------------------------------------------------
(* The depth first search.                                                 *)

\* The calls of the search that starts with current: those in every set of calls
\* that holds the first one and all the calls that its members make.
Calls(current) ==
    LET HoldsCalls(K) ==
            /\ <<current, {}>> \in K
            /\ \A call \in K : call[1] \notin call[2] =>
                  \A d \in deps[call[1]] : <<d, call[2] \union {call[1]}>> \in K
    IN  {call \in Types \X SUBSET Types :
            \A K \in SUBSET (Types \X SUBSET Types) : HoldsCalls(K) => call \in K}

\* A search that does not come upon start leaves a closed set of types without it:
\* the check never misses a transitive dependency, although it gives up a branch
\* at every type that the branch has visited.
THEOREM SearchSound ==
    ASSUME GraphTypeOK, NEW start \in Types, NEW current \in Types,
           NEW found, IsSearch(found, start), ~found[<<current, {}>>]
    PROVE  ~Reaches(current, start)
<1> DEFINE K == Calls(current)
           Node == Types \X SUBSET Types
<1>1. <<current, {}>> \in K  BY DEF Calls
<1>2. ASSUME NEW call \in K, call[1] \notin call[2], NEW d \in deps[call[1]]
      PROVE  <<d, call[2] \union {call[1]}>> \in K
  BY <1>2 DEF Calls, GraphTypeOK
<1>3. \A call \in Node : found[call] =
        (\/ call[1] = start
         \/ /\ call[1] \notin call[2]
            /\ \E d \in deps[call[1]] : found[<<d, call[2] \union {call[1]}>>])
  BY DEF IsSearch
<1> DEFINE Q == {call \in K : /\ ~found[call]
                              /\ \A v \in call[2] : \E W \in SUBSET Types :
                                    <<v, W>> \in K /\ v \notin W}
<1>4. K \subseteq Q
  <2>1. <<current, {}>> \in Q  BY <1>1
  <2>2. ASSUME NEW call \in Q, call[1] \notin call[2], NEW d \in deps[call[1]]
        PROVE  <<d, call[2] \union {call[1]}>> \in Q
    <3> DEFINE next == <<d, call[2] \union {call[1]}>>
    <3>1. next \in K  BY <1>2, <2>2
    <3>2. call \in Node /\ ~found[call]  BY <2>2 DEF Calls
    <3>3. ~found[next]  BY <1>3, <2>2, <3>2
    <3>4. ASSUME NEW v \in next[2]
          PROVE  \E W \in SUBSET Types : <<v, W>> \in K /\ v \notin W
      <4>1. CASE v \in call[2]  BY <2>2, <4>1
      <4>2. CASE v = call[1]
        <5>1. call = <<call[1], call[2]>> /\ call[2] \in SUBSET Types  BY <3>2
        <5>2. QED  BY <2>2, <4>2, <5>1
      <4>3. QED  BY <4>1, <4>2
    <3>5. QED  BY <3>1, <3>3, <3>4
  <2>3. Q \in SUBSET Node  BY DEF Calls
  <2>4. QED  BY <2>1, <2>2, <2>3 DEF Calls
<1> DEFINE C == {x \in Types : \E V \in SUBSET Types : <<x, V>> \in K}
<1>5. current \in C  BY <1>1
<1>6. start \notin C
  <2> SUFFICES ASSUME NEW V \in SUBSET Types, <<start, V>> \in K
               PROVE  FALSE
    OBVIOUS
  <2>1. ~found[<<start, V>>]  BY <1>4
  <2>2. <<start, V>> \in Node  OBVIOUS
  <2>3. QED  BY <1>3, <2>1, <2>2
<1>7. Closed(C)
  <2> SUFFICES ASSUME NEW x \in C, NEW d \in deps[x]
               PROVE  d \in C
    BY DEF Closed
  <2>1. PICK V \in SUBSET Types : <<x, V>> \in K  OBVIOUS
  <2>2. PICK W \in SUBSET Types : <<x, W>> \in K /\ x \notin W
    <3>1. CASE x \in V  BY <1>4, <2>1, <3>1
    <3>2. CASE x \notin V  BY <2>1, <3>2
    <3>3. QED  BY <3>1, <3>2
  <2>3. <<d, W \union {x}>> \in K  BY <1>2, <2>2
  <2>4. d \in Types /\ W \union {x} \in SUBSET Types  BY DEF GraphTypeOK
  <2>5. QED  BY <2>3, <2>4
<1>8. QED  BY <1>5, <1>6, <1>7 DEF Reaches

\* A set of types that start is in and that has every type outside V that depends on a
\* member of it: the search comes upon start from all its members.
Gathers(P, V, start) ==
    /\ start \in P
    /\ \A s \in Types \ V : deps[s] \intersect P # {} => s \in P

\* The least solution of the search: t is in every such set.
Comes(t, V, start) == \A P \in SUBSET Types : Gathers(P, V, start) => t \in P

\* The equation of the search has a solution.
LEMMA SearchExists ==
    ASSUME GraphTypeOK, NEW start \in Types
    PROVE  \E found : IsSearch(found, start)
<1>1. \A t \in Types : deps[t] \subseteq Types  BY DEF GraphTypeOK
<1>2. \A V \in SUBSET Types : Comes(start, V, start)  BY DEF Comes, Gathers
<1>3. ASSUME NEW t \in Types, NEW V \in SUBSET Types, NEW s \in Types \ V,
             NEW d \in deps[s], Comes(d, V, start)
      PROVE  Comes(s, V, start)
  BY <1>3 DEF Comes, Gathers
<1>4. ASSUME NEW t \in Types, NEW V \in SUBSET Types
      PROVE  Comes(t, V, start) <=>
                \/ t = start
                \/ t \notin V /\ \E d \in deps[t] : Comes(d, V \union {t}, start)
  <2>1. ASSUME t \notin V, NEW d \in deps[t], Comes(d, V \union {t}, start)
        PROVE  Comes(t, V, start)
    <3>1. ASSUME NEW P \in SUBSET Types, Gathers(P, V, start)
          PROVE  Gathers(P, V \union {t}, start)
      BY <3>1 DEF Gathers
    <3>2. ASSUME NEW P \in SUBSET Types, Gathers(P, V, start)  PROVE t \in P
      <4>1. d \in P  BY <2>1, <3>1, <3>2 DEF Comes
      <4>2. QED  BY <2>1, <3>2, <4>1 DEF Gathers
    <3>3. QED  BY <3>2 DEF Comes
  <2>2. ASSUME t # start, t \in V  PROVE ~Comes(t, V, start)
    <3>1. Gathers(Types \ {t}, V, start)  BY <2>2 DEF Gathers
    <3>2. QED  BY <3>1 DEF Comes
  <2>3. ASSUME t # start, t \notin V, \A d \in deps[t] : ~Comes(d, V \union {t}, start)
        PROVE  ~Comes(t, V, start)
    <3> DEFINE W == V \union {t}
               P == {s \in Types \ {t} : Comes(s, W, start)}
    <3>1. W \in SUBSET Types  OBVIOUS
    <3>2. start \in P  BY <1>2, <2>3, <3>1
    <3>3. ASSUME NEW s \in Types \ V, deps[s] \intersect P # {}  PROVE s \in P
      <4>1. PICK d \in deps[s] : Comes(d, W, start)  BY <3>3
      <4>2. s # t  BY <2>3, <4>1
      <4>3. s \in Types \ W  BY <4>2
      <4>4. Comes(s, W, start)  BY <1>3, <3>1, <4>1, <4>3
      <4>5. QED  BY <4>2, <4>4
    <3>4. Gathers(P, V, start)  BY <3>2, <3>3 DEF Gathers
    <3>5. t \notin P /\ P \in SUBSET Types  OBVIOUS
    <3>6. QED  BY <3>4, <3>5 DEF Comes
  <2>4. QED  BY <1>2, <2>1, <2>2, <2>3
<1> DEFINE g == [call \in Types \X SUBSET Types |-> Comes(call[1], call[2], start)]
<1>5. ASSUME NEW call \in Types \X SUBSET Types
      PROVE  g[call] = (\/ call[1] = start
                        \/ /\ call[1] \notin call[2]
                           /\ \E d \in deps[call[1]] : g[<<d, call[2] \union {call[1]}>>])
  <2>1. call[1] \in Types /\ call[2] \in SUBSET Types  OBVIOUS
  <2>2. \A d \in deps[call[1]] :
           g[<<d, call[2] \union {call[1]}>>] = Comes(d, call[2] \union {call[1]}, start)
    BY <1>1, <2>1
  <2>3. g[call] = Comes(call[1], call[2], start)  OBVIOUS
  <2> DEFINE made == \E d \in deps[call[1]] : g[<<d, call[2] \union {call[1]}>>]
             comes == \E d \in deps[call[1]] : Comes(d, call[2] \union {call[1]}, start)
  <2>4. made = comes
    <3> HIDE DEF g
    <3>1. made <=> comes  BY <2>2
    <3>2. QED  BY <3>1
  <2>5. Comes(call[1], call[2], start) = (call[1] = start \/ (call[1] \notin call[2] /\ comes))
    <3>1. Comes(call[1], call[2], start) <=>
             call[1] = start \/ (call[1] \notin call[2] /\ comes)
      BY <1>4, <2>1
    <3>2. Comes(call[1], call[2], start) \in BOOLEAN  BY DEF Comes
    <3> HIDE DEF comes
    <3>3. QED  BY <3>1, <3>2
  <2> HIDE DEF g, comes
  <2>6. QED  BY <2>3, <2>4, <2>5
<1>6. IsSearch(g, start)  BY <1>5 DEF IsSearch
<1>7. QED  BY <1>6

\* The pairs of numbers of which the first is smaller.
Smaller == {p \in Nat \X Nat : p[1] < p[2]}

\* A set of numbers that is not empty has a least one.
LEMMA LeastNumber ==
    ASSUME NEW S \in SUBSET Nat, S # {}
    PROVE  \E m \in S : \A n \in S : m <= n
<1>1. IsWellFoundedOn(Smaller, Nat)  BY NatLessThanWellFounded DEF OpToRel, Smaller
<1>2. PICK m \in S : \A n \in S : <<n, m>> \notin Smaller  BY <1>1, WFMin
<1>3. ASSUME NEW n \in S  PROVE m <= n
  <2>1. m \in Nat /\ n \in Nat /\ <<n, m>> \notin Smaller  BY <1>2
  <2>2. ~(n < m)  BY <2>1 DEF Smaller
  <2>3. QED  BY <2>1, <2>2
<1>4. QED  BY <1>3

\* What the search comes upon is a transitive dependency: only a registered type has
\* dependencies, and every further call has one of them fewer left to visit.
LEMMA SearchComplete ==
    ASSUME GraphTypeOK, IsFiniteSet(registered), NEW start \in Types, NEW current \in Types,
           NEW found, IsSearch(found, start), found[<<current, {}>>]
    PROVE  Reaches(current, start)
<1> DEFINE Left(V) == Cardinality(registered \ V)
           Wrong(t, V) == found[<<t, V>>] /\ ~Reaches(t, start)
           S == {n \in Nat : \E t \in Types, V \in SUBSET Types : n = Left(V) /\ Wrong(t, V)}
<1>1. \A V \in SUBSET Types : IsFiniteSet(registered \ V) /\ Left(V) \in Nat
  <2>1. \A V \in SUBSET Types : IsFiniteSet(registered \ V)  BY FS_Difference
  <2>2. QED  BY <2>1, FS_CardinalityType
<1>2. SUFFICES ASSUME S # {} PROVE FALSE
  <2>1. ~Wrong(current, {}) => Reaches(current, start)  OBVIOUS
  <2>2. Wrong(current, {}) => Left({}) \in S  BY <1>1
  <2> HIDE DEF S, Wrong
  <2>3. QED  BY <2>1, <2>2
<1>3. PICK n \in S : \A m \in S : n <= m
  <2>1. S \in SUBSET Nat  OBVIOUS
  <2> HIDE DEF S
  <2>2. QED  BY <1>2, <2>1, LeastNumber
<1>4. PICK t \in Types, V \in SUBSET Types : n = Left(V) /\ Wrong(t, V)  BY <1>3
<1>5. t # start  BY <1>4 DEF Reaches
<1>6. PICK d \in deps[t] : t \notin V /\ found[<<d, V \union {t}>>]
  BY <1>4, <1>5 DEF IsSearch
<1>7. t \in registered /\ d \in Types  BY <1>6 DEF GraphTypeOK
<1>8. ~Reaches(d, start)
  <2>1. PICK C \in SUBSET Types : t \in C /\ Closed(C) /\ start \notin C
    BY <1>4, Separated
  <2>2. d \in C  BY <1>6, <2>1 DEF Closed
  <2>3. QED  BY <2>1, <2>2 DEF Reaches
<1>9. Left(V \union {t}) < Left(V)
  <2>1. registered \ (V \union {t}) = (registered \ V) \ {t}  OBVIOUS
  <2>2. t \in registered \ V  BY <1>6, <1>7
  <2>3. IsFiniteSet(registered \ V)  BY <1>1
  <2>4. Cardinality((registered \ V) \ {t}) = Cardinality(registered \ V) - 1
    BY <2>2, <2>3, FS_RemoveElement
  <2>5. Left(V \union {t}) = Left(V) - 1  BY <2>1, <2>4
  <2>6. Left(V) \in Nat  BY <1>1
  <2> HIDE DEF Left
  <2>7. QED  BY <2>5, <2>6
<1>10. Left(V \union {t}) \in S
  <2>1. Wrong(d, V \union {t})  BY <1>6, <1>8
  <2>2. V \union {t} \in SUBSET Types /\ Left(V \union {t}) \in Nat  BY <1>1
  <2>3. QED  BY <1>7, <2>1, <2>2
<1>11. QED
  <2>1. n \in Nat /\ n = Left(V) /\ Left(V \union {t}) \in Nat  BY <1>1, <1>4
  <2>2. n <= Left(V \union {t})  BY <1>3, <1>10
  <2>3. QED  BY <1>9, <2>1, <2>2

\* Types are registered one at a time, so that there are always finitely many.
FinitelyRegistered == IsFiniteSet(registered)

LEMMA FinitelyMany ==
    FinitelyRegistered /\ [GraphNext]_graphVars => FinitelyRegistered'
<1> SUFFICES ASSUME FinitelyRegistered, [GraphNext]_graphVars
             PROVE  FinitelyRegistered'
  OBVIOUS
<1>1. CASE UNCHANGED graphVars  BY <1>1 DEF graphVars, FinitelyRegistered
<1>2. ASSUME NEW t, registered' = registered \union {t}  PROVE FinitelyRegistered'
  BY <1>2, FS_AddElement DEF FinitelyRegistered
<1>3. QED
  BY <1>1, <1>2 DEF GraphNext, RegisterFactory, RegisterWithDependencies

\* The search and what it is for agree in every graph of finitely many registered types.
LEMMA SearchExact ==
    GraphTypeOK /\ FinitelyRegistered => SearchFindsReachable
<1> SUFFICES ASSUME GraphTypeOK, FinitelyRegistered,
                    NEW start \in Types \ registered, NEW current \in Types
             PROVE  CheckCyclePath(start, current) <=> Reaches(current, start)
  BY DEF SearchFindsReachable
<1> DEFINE f == CHOOSE found : IsSearch(found, start)
<1>1. IsSearch(f, start)  BY SearchExists
<1>2. CheckCyclePath(start, current) <=> f[<<current, {}>>]
  BY DEF CheckCyclePath, IsSearch
<1> HIDE DEF f
<1>3. f[<<current, {}>>] => Reaches(current, start)  BY <1>1, SearchComplete DEF FinitelyRegistered
<1>4. ~f[<<current, {}>>] => ~Reaches(current, start)  BY <1>1, SearchSound
<1>5. QED  BY <1>2, <1>3, <1>4

\* The depth first search finds a type exactly when it is a transitive dependency,
\* although it gives up a branch at every type that the branch has visited, and
\* whatever has been registered.
THEOREM SearchCorrect == GraphSpec => []SearchFindsReachable
<1>1. GraphInit => GraphTypeOK /\ Acyclic /\ FinitelyRegistered
  BY FS_EmptySet DEF GraphInit, GraphTypeOK, Acyclic, FinitelyRegistered
<1>2. QED  BY <1>1, GraphStep, FinitelyMany, SearchExact, PTL DEF GraphSpec

-----------------------------------------------------------------------------
(* validate_registrations.                                                 *)

\* A registration that the check refuses closes a cycle.
LEMMA RefusedIsCyclic ==
    ASSUME GraphTypeOK, NEW t \in Types, NEW D \in SUBSET Types,
           t \notin registered, Circular(t, D), deps' = [deps EXCEPT ![t] = D]
    PROVE  ~Acyclic'
<1>1. deps'[t] = D /\ \A x \in Types \ {t} : deps'[x] = deps[x]  BY DEF GraphTypeOK
<1>2. CASE t \in D
  <2>1. {t} \in SUBSET Types /\ ~\E x \in {t} : deps'[x] \intersect {t} = {}  BY <1>1, <1>2
  <2>2. QED  BY <2>1 DEF Acyclic
<1>3. ASSUME NEW d \in D \intersect registered, Reaches(d, t)  PROVE ~Acyclic'
  <2> DEFINE S == {x \in Types : Reaches(d, x) /\ Reaches(x, t)}
  <2>1. t \in S /\ d \in S  BY <1>3 DEF Reaches
  <2>2. ASSUME NEW x \in S, x # t
        PROVE  \E y \in deps[x] : y \in S
    <3>1. PICK y \in deps[x] : Reaches(y, t)
      <4> SUFFICES ASSUME \A y \in deps[x] : ~Reaches(y, t)  PROVE FALSE
        OBVIOUS
      <4> DEFINE C == {y \in Types : ~Reaches(y, t)} \union {x}
      <4>1. x \in C /\ t \notin C /\ C \in SUBSET Types  BY <2>2 DEF Reaches
      <4>2. ASSUME NEW y \in C, NEW z \in deps[y]  PROVE z \in C
        <5>1. z \in Types  BY <4>2 DEF GraphTypeOK
        <5>2. CASE y = x  BY <5>1, <5>2
        <5>3. CASE ~Reaches(y, t)
          <6>1. PICK B \in SUBSET Types : y \in B /\ Closed(B) /\ t \notin B
            BY <5>3, Separated
          <6>2. z \in B  BY <4>2, <6>1 DEF Closed
          <6>3. QED  BY <5>1, <6>1, <6>2 DEF Reaches
        <5>4. QED  BY <4>2, <5>2, <5>3
      <4>3. Closed(C)  BY <4>2 DEF Closed
      <4>4. QED  BY <4>1, <4>3 DEF Reaches
    <3>2. y \in Types  BY <3>1 DEF GraphTypeOK
    <3>3. Reaches(d, y)  BY <2>2, <3>1 DEF Reaches, Closed
    <3>4. QED  BY <3>1, <3>2, <3>3
  <2>3. ASSUME NEW x \in S  PROVE deps'[x] \intersect S # {}
    <3>1. CASE x = t  BY <1>1, <1>3, <2>1, <3>1
    <3>2. CASE x # t  BY <1>1, <2>2, <3>2
    <3>3. QED  BY <3>1, <3>2
  <2>4. S \in SUBSET Types /\ S # {}  BY <2>1
  <2> HIDE DEF S
  <2>5. QED  BY <2>3, <2>4 DEF Acyclic
<1>4. QED  BY <1>2, <1>3 DEF Circular

\* The types that a search has come to and left behind.
Finished == visited \ OnPath

\* A set of types that contains all it depends on, without a cycle in it.
Sound(C) ==
    /\ Closed(C)
    /\ \A S \in SUBSET C : S # {} => \E x \in S : deps[x] \intersect S = {}

\* The types on the path are different, and each depends on the next one.
Simple ==
    /\ \A i, j \in 1..Len(path) : path[i] = path[j] => i = j
    /\ \A k \in 1..(Len(path) - 1) : path[k + 1] \in deps[path[k]]

\* What a type on the path has no longer to look at is finished, but for what the
\* search is looking at.
LookedAt ==
    \A k \in 1..Len(path) :
        /\ todo[path[k]] \subseteq deps[path[k]]
        /\ \A d \in deps[path[k]] \ todo[path[k]] :
              d \in Finished \/ (k < Len(path) /\ d = path[k + 1])

\* A search that has ended has found all that its type leads to without a cycle.
Cleared ==
    \A t \in registered \ unstarted :
        \/ path # <<>> /\ t = path[1]
        \/ \E C \in SUBSET Types : t \in C /\ Sound(C)

ValidationInv ==
    /\ ValidationTypeOK
    /\ phase = "registering" => Acyclic /\ path = <<>> /\ visited = {}
    /\ phase # "registering" => (refused <=> ~Acyclic)
    /\ phase = "searching" => Simple /\ LookedAt /\ Sound(Finished) /\ Cleared
    /\ phase = "cycle" => ~Acyclic
    /\ phase = "none" => Acyclic

\* A cycle among the types of two sound sets would be one among those of either.
LEMMA SoundUnion ==
    ASSUME NEW S \in SUBSET Types, NEW t \in S, NEW C, t \in C, Sound(C)
    PROVE  \E x \in S : deps[x] \intersect S = {}
<1>1. PICK x \in S \intersect C : deps[x] \intersect (S \intersect C) = {}  BY DEF Sound
<1>2. deps[x] \subseteq C  BY DEF Sound, Closed
<1>3. QED  BY <1>1, <1>2

\* A finished type is added to those that are finished already.
LEMMA SoundGrows ==
    ASSUME NEW C, Sound(C), NEW t, deps[t] \subseteq C
    PROVE  Sound(C \union {t})
<1>1. Closed(C \union {t})  BY DEF Sound, Closed
<1>2. ASSUME NEW S \in SUBSET (C \union {t}), S # {}
      PROVE  \E x \in S : deps[x] \intersect S = {}
  <2>1. CASE t \in C
    <3>1. S \in SUBSET C  BY <2>1
    <3>2. QED  BY <1>2, <3>1 DEF Sound
  <2>2. CASE t \notin C /\ S \intersect C = {}
    <3>1. S = {t}  BY <1>2, <2>2
    <3>2. QED  BY <2>2, <3>1
  <2>3. CASE t \notin C /\ S \intersect C # {}
    <3>1. PICK x \in S \intersect C : deps[x] \intersect (S \intersect C) = {}
      BY <2>3 DEF Sound
    <3>2. deps[x] \subseteq C  BY DEF Sound, Closed
    <3>3. QED  BY <3>1, <3>2
  <2>4. QED  BY <2>1, <2>2, <2>3
<1>3. QED  BY <1>1, <1>2 DEF Sound

\* A dependency on the path closes a cycle.
LEMMA PathCloses ==
    ASSUME ValidationTypeOK, Simple, path # <<>>, NEW t \in OnPath, t \in deps[Innermost]
    PROVE  ~Acyclic
<1>1. path \in Seq(Types)  BY DEF ValidationTypeOK
<1> DEFINE n == Len(path)
<1>2. PICK i \in 1..n : path[i] = t  BY <1>1 DEF OnPath
<1> DEFINE S == {path[k] : k \in i..n}
<1>3. S \in SUBSET Types /\ S # {}
  <2>1. \A k \in i..n : path[k] \in Types  BY <1>1, <1>2
  <2>2. path[i] \in S  BY <1>1, <1>2
  <2>3. QED  BY <2>1, <2>2
<1>4. ASSUME NEW x \in S  PROVE deps[x] \intersect S # {}
  <2>1. PICK k \in i..n : x = path[k]  OBVIOUS
  <2>2. CASE k = n
    <3>1. t \in S  BY <1>1, <1>2
    <3>2. QED  BY <2>1, <2>2, <3>1 DEF Innermost
  <2>3. CASE k # n
    <3>1. k \in 1..(n - 1) /\ k + 1 \in i..n  BY <1>1, <1>2, <2>3
    <3>2. path[k + 1] \in deps[path[k]] /\ path[k + 1] \in S  BY <3>1 DEF Simple
    <3>3. QED  BY <2>1, <3>2
  <2>4. QED  BY <2>2, <2>3
<1> HIDE DEF S
<1>5. QED  BY <1>3, <1>4 DEF Acyclic

\* The last registration makes a cycle exactly if the check refuses it.
LEMMA UncheckedKeeps ==
    ASSUME ValidationInv, NEW t \in Types, NEW D \in SUBSET Types, RegisterUnchecked(t, D)
    PROVE  ValidationInv'
<1>1. /\ phase = "registering" /\ t \notin registered /\ refused' = Circular(t, D)
      /\ registered' = registered \union {t} /\ deps' = [deps EXCEPT ![t] = D]
      /\ unstarted' = registered' /\ phase' = "searching"
      /\ visited' = visited /\ path' = path /\ todo' = todo
  BY DEF RegisterUnchecked
<1>2. /\ ValidationTypeOK /\ GraphTypeOK /\ Acyclic /\ path = <<>> /\ visited = {}
  BY <1>1 DEF ValidationInv, ValidationTypeOK
<1>3. GraphTypeOK'  BY <1>1, <1>2 DEF GraphTypeOK
<1>4. ValidationTypeOK'
  <2>1. refused' \in BOOLEAN  BY <1>1 DEF Circular
  <2>2. QED  BY <1>1, <1>2, <1>3, <2>1 DEF ValidationTypeOK
<1>5. refused' <=> ~Acyclic'
  <2>1. CASE Circular(t, D)  BY <1>1, <1>2, <2>1, RefusedIsCyclic
  <2>2. CASE ~Circular(t, D)
    <3>1. RegisterWithDependencies(t, D)  BY <1>1, <2>2 DEF RegisterWithDependencies
    <3>2. QED  BY <1>1, <1>2, <2>2, <3>1, RegisterKeepsAcyclic
  <2>3. QED  BY <2>1, <2>2
<1>6. Simple' /\ LookedAt'  BY <1>1, <1>2 DEF Simple, LookedAt
<1>7. Sound(Finished)'  BY <1>1, <1>2 DEF Sound, Finished, Closed
<1>8. Cleared'  BY <1>1 DEF Cleared
<1>9. QED  BY <1>1, <1>4, <1>5, <1>6, <1>7, <1>8 DEF ValidationInv

\* What holds while a search is under way.
LEMMA Searching ==
    ASSUME ValidationInv, phase = "searching"
    PROVE  /\ ValidationTypeOK /\ GraphTypeOK /\ (refused <=> ~Acyclic)
           /\ Simple /\ LookedAt /\ Sound(Finished) /\ Cleared
           /\ path \in Seq(Types) /\ path \in Seq(visited)
           /\ visited \in SUBSET Types /\ todo \in [Types -> SUBSET Types]
           /\ deps \in [Types -> SUBSET Types]
           /\ OnPath \subseteq visited
<1>1. ValidationTypeOK /\ path \in Seq(visited) /\ visited \in SUBSET Types
  BY DEF ValidationInv, ValidationTypeOK
<1>2. path \in Seq(Types) /\ OnPath \subseteq visited  BY <1>1 DEF OnPath
<1>3. QED  BY <1>1, <1>2 DEF ValidationInv, ValidationTypeOK, GraphTypeOK

\* A search begins with nothing finished; the last one has left all that it visited
\* finished, the type that it started from with it.
LEMMA StartKeeps ==
    ASSUME ValidationInv, NEW t \in Types, StartFrom(t)
    PROVE  ValidationInv'
<1>1. /\ phase = "searching" /\ path = <<>> /\ t \in unstarted
      /\ unstarted' = unstarted \ {t} /\ visited' = {t} /\ path' = <<t>>
      /\ todo' = [todo EXCEPT ![t] = deps[t]]
      /\ UNCHANGED <<registered, deps, refused, phase>>
  BY DEF StartFrom, graphVars
<1>2. ValidationTypeOK'
  <2>1. path' \in Seq(visited')  BY <1>1
  <2>2. QED  BY <1>1, <2>1, Searching DEF ValidationTypeOK, GraphTypeOK
<1>3. OnPath' = {t}  BY <1>1 DEF OnPath
<1>4. Simple'  BY <1>1 DEF Simple
<1>5. LookedAt'
  <2>1. \A k \in 1..Len(path') : path'[k] = t /\ todo'[t] = deps'[t]  BY <1>1, Searching
  <2>2. QED  BY <2>1 DEF LookedAt
<1>6. Sound(Finished)'  BY <1>1, <1>3 DEF Sound, Finished, Closed
<1>7. Cleared'
  <2>1. ASSUME NEW x \in registered \ unstarted
        PROVE  \E C \in SUBSET Types : x \in C /\ Sound(C)
    BY <1>1, Searching DEF Cleared
  <2>2. \A C : Sound(C)' <=> Sound(C)  BY <1>1 DEF Sound, Closed
  <2>3. path' # <<>> /\ path'[1] = t  BY <1>1
  <2>4. ASSUME NEW x \in registered' \ unstarted', x # t
        PROVE  \E C \in SUBSET Types : x \in C /\ Sound(C)'
    BY <1>1, <2>1, <2>2, <2>4
  <2>5. QED  BY <2>3, <2>4 DEF Cleared
<1>8. Acyclic' <=> Acyclic  BY <1>1 DEF Acyclic
<1>9. QED  BY <1>1, <1>2, <1>4, <1>5, <1>6, <1>7, <1>8, Searching DEF ValidationInv

\* The search finds a cycle, skips a type that is finished, or goes on from a new one.
LEMMA DetectKeeps ==
    ASSUME ValidationInv, NEW t \in Types, DetectCyclesFrom(t)
    PROVE  ValidationInv'
<1> DEFINE n == Len(path)
<1>1. /\ phase = "searching" /\ path # <<>> /\ t \in todo[Innermost]
      /\ UNCHANGED <<registered, deps, refused, unstarted>>
  BY DEF DetectCyclesFrom, graphVars
<1>a. /\ ValidationTypeOK /\ GraphTypeOK /\ (refused <=> ~Acyclic)
      /\ Simple /\ LookedAt /\ Sound(Finished) /\ Cleared
      /\ path \in Seq(Types) /\ path \in Seq(visited)
      /\ visited \in SUBSET Types /\ todo \in [Types -> SUBSET Types]
      /\ deps \in [Types -> SUBSET Types] /\ OnPath \subseteq visited
  BY <1>1, Searching
<1>2. n \in Nat \ {0} /\ n \in 1..n /\ Innermost = path[n] /\ Innermost \in Types
      /\ Innermost \in visited /\ Innermost \in OnPath
  BY <1>1, <1>a DEF Innermost, OnPath
<1>3. t \in deps[Innermost]  BY <1>1, <1>2, <1>a DEF LookedAt
<1>4. /\ Acyclic' <=> Acyclic
      /\ \A C : Sound(C)' <=> Sound(C)
      /\ GraphTypeOK'
  BY <1>1, <1>a DEF Acyclic, Sound, Closed, GraphTypeOK
<1>5. CASE Closes(t) /\ phase' = "cycle" /\ UNCHANGED <<visited, path, todo>>
  <2>1. ~Acyclic  BY <1>1, <1>3, <1>5, PathCloses, <1>a DEF Closes
  <2>2. ValidationTypeOK'  BY <1>1, <1>4, <1>5, <1>a DEF ValidationTypeOK
  <2>3. QED  BY <1>1, <1>4, <1>5, <2>1, <2>2, <1>a DEF ValidationInv
<1>6. ASSUME ~Closes(t), t \in visited, todo' = [todo EXCEPT ![Innermost] = @ \ {t}],
             UNCHANGED <<visited, path, phase>>
      PROVE  ValidationInv'
  <2>1. ValidationTypeOK'  BY <1>1, <1>2, <1>4, <1>6, <1>a DEF ValidationTypeOK
  <2>2. OnPath' = OnPath /\ Finished' = Finished  BY <1>6 DEF OnPath, Finished
  <2>3. Simple' /\ Cleared' /\ Sound(Finished)'
    BY <1>1, <1>4, <1>6, <2>2, <1>a DEF Simple, Cleared, Sound, Closed
  <2>4. LookedAt'
    <3>1. t \in Finished  BY <1>6 DEF Closes, Finished
    <3>2. ASSUME NEW k \in 1..n
          PROVE  /\ path[k] \in Types /\ todo'[path[k]] \subseteq todo[path[k]]
                 /\ todo[path[k]] \subseteq todo'[path[k]] \union {t}
      BY <1>2, <1>6, <3>2, <1>a
    <3>3. QED  BY <1>1, <1>6, <2>2, <3>1, <3>2, <1>a DEF LookedAt
  <2>5. QED  BY <1>1, <1>4, <1>6, <2>1, <2>3, <2>4, <1>a DEF ValidationInv
<1>7. ASSUME ~Closes(t), t \notin visited, visited' = visited \union {t},
             path' = Append(path, t),
             todo' = [todo EXCEPT ![Innermost] = @ \ {t}, ![t] = deps[t]],
             UNCHANGED phase
      PROVE  ValidationInv'
  <2>1. /\ path' \in Seq(visited') /\ Len(path') = n + 1 /\ path'[n + 1] = t
        /\ \A k \in 1..n : path'[k] = path[k]
    <3>1. path \in Seq(visited')  BY <1>7, <1>a
    <3>2. QED  BY <1>7, <3>1, <1>a
  <2>2. \A k \in 1..n : path[k] # t /\ path[k] \in Types  BY <1>7, <1>a
  <2>3. ValidationTypeOK'
    <3>1. todo' \in [Types -> SUBSET Types]  BY <1>7, <1>2, <1>a
    <3>2. QED  BY <1>1, <1>4, <1>7, <2>1, <3>1, <1>a DEF ValidationTypeOK
  <2>4. OnPath' = OnPath \union {t}
    <3>1. DOMAIN path' = 1..(n + 1) /\ DOMAIN path = 1..n  BY <2>1, <1>a
    <3>2. 1..(n + 1) = (1..n) \union {n + 1}  BY <1>2
    <3>3. QED  BY <2>1, <3>1, <3>2 DEF OnPath
  <2>5. Finished' = Finished  BY <1>7, <2>4 DEF Finished
  <2>6. Simple'
    <3>1. ASSUME NEW i \in 1..(n + 1), NEW j \in 1..(n + 1), path'[i] = path'[j]
          PROVE  i = j
      <4>1. CASE i \in 1..n /\ j \in 1..n  BY <2>1, <3>1, <4>1, <1>1, <1>a DEF Simple
      <4>2. CASE i = n + 1 \/ j = n + 1
        <5>1. path'[i] = t /\ path'[j] = t  BY <2>1, <3>1, <4>2
        <5>2. \A k \in 1..n : path'[k] # t  BY <2>1, <2>2
        <5>3. QED  BY <1>2, <5>1, <5>2
      <4>3. QED  BY <1>2, <4>1, <4>2
    <3>2. ASSUME NEW k \in 1..n  PROVE path'[k + 1] \in deps[path'[k]]
      <4>1. CASE k = n  BY <1>2, <1>3, <2>1, <4>1
      <4>2. CASE k # n
        <5>1. k \in 1..(n - 1) /\ k + 1 \in 1..n  BY <1>2, <4>2
        <5>2. QED  BY <1>1, <2>1, <5>1, <1>a DEF Simple
      <4>3. QED  BY <4>1, <4>2
    <3>3. Len(path') = n + 1 /\ Len(path') - 1 = n /\ deps' = deps
      BY <1>1, <1>2, <1>4, <2>1
    <3>4. QED  BY <3>1, <3>2, <3>3 DEF Simple
  <2>7. LookedAt'
    <3>1. todo'[t] = deps[t]  BY <1>7, <1>a
    <3>2. ASSUME NEW k \in 1..n
          PROVE  IF k = n THEN todo'[path[k]] = todo[path[k]] \ {t}
                 ELSE todo'[path[k]] = todo[path[k]]
      <4>1. path[k] = path[n] => k = n  BY <1>1, <1>2, <1>a DEF Simple
      <4>2. path[k] # t /\ path[k] \in Types /\ path[n] # t /\ path[n] \in Types  BY <1>2, <2>2
      <4>3. QED  BY <1>2, <1>7, <4>1, <4>2, <1>a
    <3>3. ASSUME NEW k \in 1..(n + 1)
          PROVE  /\ todo'[path'[k]] \subseteq deps[path'[k]]
                 /\ \A d \in deps[path'[k]] \ todo'[path'[k]] :
                       d \in Finished \/ (k < n + 1 /\ d = path'[k + 1])
      <4>1. CASE k = n + 1  BY <2>1, <3>1, <4>1
      <4>2. CASE k = n
        <5>1. /\ todo[path[n]] \subseteq deps[path[n]]
              /\ \A d \in deps[path[n]] \ todo[path[n]] : d \in Finished
          BY <1>1, <1>2, <1>a DEF LookedAt
        <5>2. path'[k] = path[n] /\ path'[k + 1] = t /\ k < n + 1
              /\ todo'[path[n]] = todo[path[n]] \ {t}
          BY <1>2, <2>1, <3>2, <4>2
        <5>3. QED  BY <5>1, <5>2
      <4>3. CASE k # n /\ k # n + 1
        <5>1. k \in 1..n /\ k < n /\ k + 1 \in 1..n /\ k < n + 1  BY <1>2, <4>3
        <5>2. /\ todo[path[k]] \subseteq deps[path[k]]
              /\ \A d \in deps[path[k]] \ todo[path[k]] :
                    d \in Finished \/ (k < n /\ d = path[k + 1])
          BY <1>1, <5>1, <1>a DEF LookedAt
        <5>3. path'[k] = path[k] /\ path'[k + 1] = path[k + 1] /\ todo'[path[k]] = todo[path[k]]
          BY <2>1, <3>2, <4>3, <5>1
        <5>4. QED  BY <5>1, <5>2, <5>3
      <4>4. QED  BY <4>1, <4>2, <4>3
    <3>4. QED  BY <1>1, <2>1, <2>5, <3>3 DEF LookedAt
  <2>8. Sound(Finished)'  BY <1>1, <1>4, <2>5, <1>a DEF Sound, Closed
  <2>9. Cleared'
    <3>1. path' # <<>> /\ path'[1] = path[1]  BY <1>2, <2>1
    <3>2. QED  BY <1>1, <1>4, <3>1, <1>a DEF Cleared
  <2>10. QED  BY <1>1, <1>4, <1>7, <2>3, <2>6, <2>7, <2>8, <2>9, <1>a DEF ValidationInv
<1>8. QED  BY <1>5, <1>6, <1>7 DEF DetectCyclesFrom

\* The calls below the innermost one are the same calls in the same places.
LEMMA CallersOf ==
    ASSUME NEW S, NEW s \in Seq(S), NEW n \in Nat \ {0}, n = Len(s)
    PROVE  /\ SubSeq(s, 1, n - 1) \in Seq(S)
           /\ Len(SubSeq(s, 1, n - 1)) = n - 1
           /\ \A k \in 1..(n - 1) : SubSeq(s, 1, n - 1)[k] = s[k]
OBVIOUS

\* The innermost type is finished, and so is all that it depends on.
LEMMA FinishKeeps ==
    ASSUME ValidationInv, Return
    PROVE  ValidationInv'
<1> DEFINE n == Len(path)
<1>1. /\ phase = "searching" /\ path # <<>> /\ todo[Innermost] = {}
      /\ path' = SubSeq(path, 1, n - 1)
      /\ UNCHANGED <<registered, deps, refused, unstarted, visited, todo, phase>>
  BY DEF Return, graphVars
<1>a. /\ ValidationTypeOK /\ GraphTypeOK /\ (refused <=> ~Acyclic)
      /\ Simple /\ LookedAt /\ Sound(Finished) /\ Cleared
      /\ path \in Seq(Types) /\ path \in Seq(visited)
      /\ visited \in SUBSET Types /\ todo \in [Types -> SUBSET Types]
      /\ deps \in [Types -> SUBSET Types] /\ OnPath \subseteq visited
  BY <1>1, Searching
<1>2. n \in Nat \ {0} /\ n \in 1..n /\ Innermost = path[n] /\ Innermost \in visited
  BY <1>1, <1>a DEF Innermost
<1>3. /\ path' \in Seq(visited) /\ Len(path') = n - 1
      /\ \A k \in 1..(n - 1) : path'[k] = path[k]
  <2>1. n = Len(path)  OBVIOUS
  <2> HIDE DEF n
  <2>2. QED  BY <1>1, <1>2, <1>a, <2>1, CallersOf
<1>4. /\ Acyclic' <=> Acyclic
      /\ GraphTypeOK'
      /\ \A C : Sound(C)' <=> Sound(C)
  BY <1>1, <1>a DEF Acyclic, Sound, Closed, GraphTypeOK
<1>5. ValidationTypeOK'  BY <1>1, <1>3, <1>4, <1>a DEF ValidationTypeOK
<1>6. OnPath = OnPath' \union {Innermost} /\ Innermost \notin OnPath'
  <2>1. DOMAIN path' = 1..(n - 1) /\ DOMAIN path = 1..n  BY <1>2, <1>3, <1>a
  <2>2. 1..n = (1..(n - 1)) \union {n}  BY <1>2
  <2>3. OnPath = OnPath' \union {Innermost}  BY <1>2, <1>3, <2>1, <2>2 DEF OnPath
  <2>4. \A k \in 1..(n - 1) : path[k] # path[n]
    <3>1. \A k \in 1..(n - 1) : k \in 1..n /\ k # n  BY <1>2
    <3>2. QED  BY <1>2, <1>a, <3>1 DEF Simple
  <2>5. Innermost \notin OnPath'  BY <1>2, <1>3, <2>1, <2>4 DEF OnPath
  <2>6. QED  BY <2>3, <2>5
<1>7. Finished' = Finished \union {Innermost}  BY <1>1, <1>2, <1>6 DEF Finished
<1>8. Sound(Finished')
  <2>1. deps[Innermost] \subseteq Finished
    <3>1. ~(n < n)  BY <1>2
    <3>2. QED  BY <1>1, <1>2, <1>a, <3>1 DEF LookedAt
  <2>2. QED  BY <1>7, <1>a, <2>1, SoundGrows
<1>9. Sound(Finished)'  BY <1>4, <1>8
<1>10. Simple'
  <2>1. \A k \in 1..(n - 1) : k \in 1..n  BY <1>2
  <2>2. \A k \in 1..((n - 1) - 1) : k \in 1..(n - 1) /\ k + 1 \in 1..(n - 1)  BY <1>2
  <2>3. QED  BY <1>1, <1>3, <1>a, <2>1, <2>2 DEF Simple
<1>11. LookedAt'
  <2>1. ASSUME NEW k \in 1..(n - 1)
        PROVE  /\ todo[path'[k]] \subseteq deps[path'[k]]
               /\ \A d \in deps[path'[k]] \ todo[path'[k]] :
                     d \in Finished' \/ (k < n - 1 /\ d = path'[k + 1])
    <3>1. k \in 1..n /\ path'[k] = path[k]  BY <1>2, <1>3
    <3>2. /\ todo[path[k]] \subseteq deps[path[k]]
          /\ \A d \in deps[path[k]] \ todo[path[k]] :
                d \in Finished \/ (k < n /\ d = path[k + 1])
      BY <1>a, <3>1 DEF LookedAt
    <3>3. path[k + 1] = Innermost \/ (k < n - 1 /\ path[k + 1] = path'[k + 1])
      <4>1. CASE k = n - 1  BY <1>2, <4>1
      <4>2. CASE k # n - 1
        <5>1. k < n - 1 /\ k + 1 \in 1..(n - 1)  BY <1>2, <4>2
        <5>2. QED  BY <1>3, <5>1
      <4>3. QED  BY <4>1, <4>2
    <3>4. QED  BY <1>7, <3>1, <3>2, <3>3
  <2>2. QED  BY <1>1, <1>3, <2>1 DEF LookedAt
<1>12. Cleared'
  <2>1. ASSUME NEW t \in registered \ unstarted
        PROVE  \/ path' # <<>> /\ t = path'[1]
               \/ \E C \in SUBSET Types : t \in C /\ Sound(C)
    <3>1. CASE t = path[1] /\ n = 1
      <4>1. t \in Finished'  BY <1>2, <1>7, <3>1
      <4>2. Finished' \in SUBSET Types  BY <1>1, <1>a DEF Finished
      <4>3. QED  BY <1>8, <4>1, <4>2
    <3>2. CASE t = path[1] /\ n # 1
      <4>1. 1 \in 1..(n - 1)  BY <1>2, <3>2
      <4>2. path' # <<>> /\ path'[1] = path[1]  BY <1>3, <4>1
      <4>3. QED  BY <3>2, <4>2
    <3>3. CASE t # path[1]  BY <1>a, <3>3 DEF Cleared
    <3>4. QED  BY <3>1, <3>2, <3>3
  <2>2. QED  BY <1>1, <1>4, <2>1 DEF Cleared
<1>13. QED  BY <1>1, <1>4, <1>5, <1>9, <1>10, <1>11, <1>12, <1>a DEF ValidationInv

\* When all the searches have ended there is no cycle.
LEMMA ConcludeKeeps ==
    ASSUME ValidationInv, Conclude
    PROVE  ValidationInv'
<1>1. /\ phase = "searching" /\ path = <<>> /\ unstarted = {} /\ phase' = "none"
      /\ UNCHANGED <<registered, deps, refused, unstarted, visited, path, todo>>
  BY DEF Conclude, graphVars
<1>2. ASSUME NEW S \in SUBSET Types, S # {}
      PROVE  \E x \in S : deps[x] \intersect S = {}
  <2>1. PICK t \in S : TRUE  BY <1>2
  <2>2. CASE t \notin registered
    <3>1. deps[t] = {}  BY <1>1, <2>2, Searching DEF GraphTypeOK
    <3>2. QED  BY <2>1, <3>1
  <2>3. CASE t \in registered
    <3>1. PICK C \in SUBSET Types : t \in C /\ Sound(C)  BY <1>1, <2>3, Searching DEF Cleared
    <3>2. QED  BY <2>1, <3>1, SoundUnion
  <2>4. QED  BY <2>2, <2>3
<1>3. Acyclic  BY <1>2 DEF Acyclic
<1>4. Acyclic' <=> Acyclic  BY <1>1 DEF Acyclic
<1>5. ValidationTypeOK'  BY <1>1, Searching DEF ValidationTypeOK, GraphTypeOK
<1>6. QED  BY <1>1, <1>3, <1>4, <1>5, Searching DEF ValidationInv

LEMMA ValidationStep == ValidationInv /\ [ValidationNext]_validationVars => ValidationInv'
<1> SUFFICES ASSUME ValidationInv, [ValidationNext]_validationVars
             PROVE  ValidationInv'
  OBVIOUS
<1>1. CASE UNCHANGED validationVars
  <2>1. /\ Acyclic' <=> Acyclic
        /\ Sound(Finished)' <=> Sound(Finished)
        /\ Cleared' <=> Cleared
    BY <1>1 DEF validationVars, graphVars, Acyclic, Sound, Closed, Finished, OnPath, Cleared
  <2>2. (Simple' <=> Simple) /\ (LookedAt' <=> LookedAt)
    BY <1>1 DEF validationVars, graphVars, Simple, LookedAt, Finished, OnPath
  <2>3. ValidationTypeOK' <=> ValidationTypeOK
    BY <1>1 DEF validationVars, graphVars, ValidationTypeOK, GraphTypeOK
  <2>4. phase' = phase /\ refused' = refused /\ path' = path /\ visited' = visited
    BY <1>1 DEF validationVars
  <2>5. QED  BY <2>1, <2>2, <2>3, <2>4 DEF ValidationInv
<1>2. CASE RegisterChecked
  <2>1. /\ phase = "registering" /\ GraphNext
        /\ UNCHANGED <<refused, unstarted, visited, path, todo, phase>>
    BY <1>2 DEF RegisterChecked
  <2>2. GraphTypeOK /\ Acyclic  BY <2>1 DEF ValidationInv, ValidationTypeOK
  <2>3. GraphTypeOK' /\ Acyclic'  BY <2>1, <2>2, GraphStep
  <2>4. registered \subseteq registered'
    BY <2>1 DEF GraphNext, RegisterFactory, RegisterWithDependencies
  <2>5. ValidationTypeOK'  BY <2>1, <2>3, <2>4 DEF ValidationInv, ValidationTypeOK
  <2>6. QED  BY <2>1, <2>3, <2>5 DEF ValidationInv
<1>3. QED
  BY <1>1, <1>2, UncheckedKeeps, StartKeeps, DetectKeeps, FinishKeeps, ConcludeKeeps
     DEF ValidationNext

\* The inductive invariant of the validation.
LEMMA ValidationInvariant == ValidationSpec => []ValidationInv
<1>1. ValidationInit => ValidationInv
  <2> SUFFICES ASSUME ValidationInit
               PROVE  ValidationInv
    OBVIOUS
  <2>1. GraphTypeOK /\ Acyclic  BY DEF ValidationInit, GraphInit, GraphTypeOK, Acyclic
  <2>2. /\ path \in Seq(visited)
        /\ todo \in [Types -> SUBSET Types]
        /\ refused \in BOOLEAN
    <3>1. path = <<>> /\ todo = [t \in Types |-> {}] /\ refused = FALSE  BY DEF ValidationInit
    <3>2. path \in Seq(visited)  BY <3>1
    <3>3. todo \in [Types -> SUBSET Types]  BY <3>1
    <3>4. QED  BY <3>1, <3>2, <3>3, Zenon
  <2>3. unstarted \subseteq registered /\ visited \subseteq Types  BY DEF ValidationInit
  <2>4. phase = "registering" /\ path = <<>> /\ visited = {}  BY DEF ValidationInit
  <2>5. ValidationTypeOK  BY <2>1, <2>2, <2>3, <2>4 DEF ValidationTypeOK
  <2>6. QED  BY <2>1, <2>4, <2>5 DEF ValidationInv
<1>2. QED  BY <1>1, ValidationStep, PTL DEF ValidationSpec

\* Every variable of the validation keeps its type.
THEOREM ValidationTypesCorrect == ValidationSpec => []ValidationTypeOK
<1>1. ValidationInv => ValidationTypeOK  BY DEF ValidationInv
<1>2. QED  BY <1>1, ValidationInvariant, PTL

\* validate_registrations finds a cycle exactly if the last registration is one that
\* the check at registration refuses, and passes exactly if every registered type has
\* all that its declared dependencies lead to, without a cycle.
THEOREM ValidationCorrect == ValidationSpec => []ValidationAgrees
<1>1. ASSUME GraphTypeOK, Missing = {}, NEW t \in registered, NEW x \in Types, Reaches(t, x)
      PROVE  x \in registered
  <2>1. registered \in SUBSET Types /\ Closed(registered)  BY <1>1 DEF GraphTypeOK, Closed, Missing
  <2>2. QED  BY <1>1, <2>1 DEF Reaches
<1>2. ASSUME GraphTypeOK,
             \A t \in registered, x \in Types : Reaches(t, x) => x \in registered
      PROVE  Missing = {}
  <2>1. ASSUME NEW t \in registered, NEW d \in deps[t]  PROVE d \in registered
    <3>1. d \in Types /\ Reaches(t, d)  BY <1>2, <2>1 DEF GraphTypeOK, Reaches, Closed
    <3>2. QED  BY <1>2, <2>1, <3>1
  <2>2. QED  BY <2>1 DEF Missing
<1>3. ASSUME ValidationInv, phase \in {"cycle", "none"}
      PROVE  GraphTypeOK /\ (phase = "cycle" <=> ~Acyclic) /\ (refused <=> ~Acyclic)
  BY <1>3 DEF ValidationInv, ValidationTypeOK
<1>4. ValidationInv => ValidationAgrees
  <2> SUFFICES ASSUME ValidationInv, phase \in {"cycle", "none"}
               PROVE  /\ phase = "cycle" <=> refused
                      /\ Valid <=> /\ Acyclic
                                   /\ \A t \in registered, x \in Types :
                                         Reaches(t, x) => x \in registered
    BY DEF ValidationAgrees
  <2>1. Missing = {} <=> \A t \in registered, x \in Types : Reaches(t, x) => x \in registered
    BY <1>1, <1>2, <1>3
  <2>2. QED  BY <1>3, <2>1 DEF Valid
<1>5. QED  BY <1>4, ValidationInvariant, PTL

-----------------------------------------------------------------------------
(* The calls of resolve.                                                   *)

Depth == 1..Len(stack)

FrameType == [type : Types, home : Containers, todo : SUBSET Types, parts : [Types -> Nat]]

InstanceType == [type : Types, home : Containers, parts : [Types -> Nat]]

\* The values of the variables, as far as the proofs need them.
ValuesOK ==
    /\ GraphTypeOK
    /\ uses \in [Types -> SUBSET Types]
    /\ cache \in [Containers -> [Types -> Nat]]
    /\ scopeTypes \in [Scopes -> SUBSET registered]
    /\ stack \in Seq(FrameType)
    /\ built \in Seq(InstanceType)
    /\ clearedAt \in Nat

\* The dependency graph says what the declared factories resolve.
DeclaredUses == \A t \in Declared : uses[t] = deps[t]

\* Every call but the outermost resolves, in the root, a dependency that its
\* caller still waits for.
Chain ==
    /\ \A k \in Depth : stack[k].type \in registered /\ stack[k].todo \subseteq uses[stack[k].type]
    /\ \A k \in Depth \ {1} : /\ stack[k].home = "root"
                              /\ stack[k].type \in stack[k - 1].todo

\* The inner call for a type waits for what the outer call is resolving.
InnerWaits ==
    \A j \in Depth : \A i \in 1..(j - 1) :
        stack[i].type = stack[j].type => stack[i + 1].type \in stack[j].todo

\* A type that is being resolved is not in the cache it is resolved for.
UnderConstruction ==
    \A k \in Depth : stack[k].type \in Singletons => cache[stack[k].home][stack[k].type] = NoInstance

\* What has been delivered is what the root's cache holds.
Delivered ==
    /\ \A k \in Depth : \A d \in (uses[stack[k].type] \ stack[k].todo) \intersect Singletons :
          stack[k].parts[d] = cache["root"][d] /\ cache["root"][d] # NoInstance
    /\ \A i \in 1..Len(built) : i > clearedAt =>
          \A d \in uses[built[i].type] \intersect Singletons :
              built[i].parts[d] = cache["root"][d] /\ cache["root"][d] # NoInstance
    /\ \A i \in 1..Len(built) : built[i].type \in registered

CallsInv == ValuesOK /\ Acyclic /\ DeclaredUses /\ Chain /\ InnerWaits /\ UnderConstruction

-----------------------------------------------------------------------------

\* The innermost call of a stack is one of its frames.
LEMMA TopFrame ==
    ASSUME stack \in Seq(FrameType), stack # <<>>
    PROVE  Len(stack) \in Depth /\ Top = stack[Len(stack)] /\ Top \in FrameType
BY DEF Depth, Top

\* A call that waits for nothing is the only call for its type.
LEMMA TopUnique ==
    ASSUME CallsInv, stack # <<>>, Top.todo = {}
    PROVE  \A i \in Depth : stack[i].type = Top.type => i = Len(stack)
<1> SUFFICES ASSUME NEW i \in Depth, stack[i].type = Top.type, i # Len(stack)
             PROVE  FALSE
  OBVIOUS
<1>1. Len(stack) \in Depth /\ Top = stack[Len(stack)]  BY TopFrame DEF CallsInv, ValuesOK
<1>2. i \in 1..(Len(stack) - 1)  BY <1>1 DEF Depth
<1>3. stack[i + 1].type \in Top.todo  BY <1>1, <1>2 DEF CallsInv, InnerWaits
<1>4. QED  BY <1>3

\* The stack after is the stack before but for what the innermost call waits for
\* and has been given.
Received(after, before, t, i) ==
    /\ after \in Seq(FrameType)
    /\ Len(after) = Len(before)
    /\ \A k \in 1..(Len(before) - 1) : after[k] = before[k]
    /\ after[Len(before)].type = before[Len(before)].type
    /\ after[Len(before)].home = before[Len(before)].home
    /\ after[Len(before)].todo = before[Len(before)].todo \ {t}
    /\ after[Len(before)].parts = [before[Len(before)].parts EXCEPT ![t] = i]

\* A delivery changes the innermost call and no other.
LEMMA Delivery ==
    ASSUME NEW calls \in Seq(FrameType), calls # <<>>, NEW t \in Types, NEW i \in Nat
    PROVE  Received(Deliver(calls, t, i), calls, t, i)
<1> DEFINE n == Len(calls)
           frame == [calls[n] EXCEPT !.parts = [calls[n].parts EXCEPT ![t] = i],
                                     !.todo = calls[n].todo \ {t}]
<1>1. n \in 1..n /\ calls[n] \in FrameType  OBVIOUS
<1>2. frame \in FrameType  BY <1>1 DEF FrameType
<1>3. Deliver(calls, t, i) = [calls EXCEPT ![n] = frame]
  BY <1>1 DEF Deliver, FrameType
<1> HIDE DEF frame
<1>4. /\ [calls EXCEPT ![n] = frame] \in Seq(FrameType)
      /\ Len([calls EXCEPT ![n] = frame]) = n
      /\ \A k \in 1..(n - 1) : [calls EXCEPT ![n] = frame][k] = calls[k]
      /\ [calls EXCEPT ![n] = frame][n] = frame
  BY <1>1, <1>2
<1>5. /\ frame.type = calls[n].type /\ frame.home = calls[n].home
      /\ frame.todo = calls[n].todo \ {t}
      /\ frame.parts = [calls[n].parts EXCEPT ![t] = i]
  BY <1>1 DEF frame, FrameType
<1>6. QED  BY <1>3, <1>4, <1>5 DEF Received

\* With no call under way there is nothing to show of the calls.
LEMMA NoCalls ==
    stack' = <<>> => Chain' /\ InnerWaits' /\ UnderConstruction'
BY DEF Chain, InnerWaits, UnderConstruction, Depth

\* Every step keeps the values in their sets.
LEMMA ValuesStep == ValuesOK /\ [ContainerNext]_vars => ValuesOK'
<1> SUFFICES ASSUME ValuesOK, [ContainerNext]_vars
             PROVE  ValuesOK'
  OBVIOUS
<1> USE DEF ValuesOK
<1>1. CASE UNCHANGED vars
  BY <1>1 DEF vars, graphVars, GraphTypeOK
<1>2. ASSUME NEW t \in Types, Register(t)
      PROVE  ValuesOK'
  <2>1. PICK D \in Factories[t] :
          /\ IF t \in Declared THEN RegisterWithDependencies(t, D) ELSE RegisterFactory(t)
          /\ uses' = [uses EXCEPT ![t] = D]
    BY <1>2 DEF Register
  <2>2. D \in SUBSET Types  BY ContainerAssumption
  <2>3. GraphTypeOK'
    BY <2>1, <2>2 DEF RegisterWithDependencies, RegisterFactory, GraphTypeOK
  <2>4. registered \subseteq registered'
    BY <2>1 DEF RegisterWithDependencies, RegisterFactory
  <2>5. QED  BY <1>2, <2>1, <2>2, <2>3, <2>4 DEF Register
<1>3. ASSUME NEW s \in Scopes, OpenScope(s) \/ CloseScope(s)
      PROVE  ValuesOK'
  <2>1. CASE OpenScope(s)  BY <2>1 DEF OpenScope, graphVars, GraphTypeOK
  <2>2. CASE CloseScope(s)
    BY <2>2 DEF CloseScope, graphVars, GraphTypeOK, Empty, NoInstance, Containers
  <2>3. QED  BY <1>3, <2>1, <2>2
<1>4. ASSUME NEW c \in Containers, NEW t \in Types, Resolve(c, t)
      PROVE  ValuesOK'
  <2>1. Frame(c, t) \in FrameType  BY DEF Frame, FrameType, Empty, NoInstance
  <2>2. QED  BY <1>4, <2>1 DEF Resolve, graphVars, GraphTypeOK
<1>5. CASE ResolveDependency
  <2>1. PICK d \in Types : \/ stack' = Deliver(stack, d, cache["root"][d])
                           \/ stack' = Append(stack, Frame("root", d))
    BY <1>5, TopFrame DEF ResolveDependency, FrameType
  <2>2. Frame("root", d) \in FrameType  BY DEF Frame, FrameType, Empty, NoInstance, Containers
  <2>3. cache["root"][d] \in Nat  BY DEF Containers
  <2>4. stack # <<>>  BY <1>5 DEF ResolveDependency
  <2>5. stack' \in Seq(FrameType)
    <3>1. CASE stack' = Deliver(stack, d, cache["root"][d])
      BY <2>3, <2>4, <3>1, Delivery DEF Received
    <3>2. CASE stack' = Append(stack, Frame("root", d))  BY <2>2, <3>2
    <3>3. QED  BY <2>1, <3>1, <3>2
  <2>6. QED  BY <1>5, <2>5 DEF ResolveDependency, graphVars, GraphTypeOK
<1>6. CASE ResolveReturns
  <2> DEFINE i == Len(built) + 1
             callers == SubSeq(stack, 1, Len(stack) - 1)
  <2>1. stack # <<>> /\ Top \in FrameType  BY <1>6, TopFrame DEF ResolveReturns
  <2>2. Top.type \in Types /\ i \in Nat  BY <2>1 DEF FrameType
  <2>3. stack' \in Seq(FrameType)
    <3>1. callers \in Seq(FrameType)  BY <2>1
    <3>2. stack' = IF callers = <<>> THEN <<>> ELSE Deliver(callers, Top.type, i)
      BY <1>6 DEF ResolveReturns
    <3> HIDE DEF callers, i
    <3>3. QED  BY <2>2, <3>1, <3>2, Delivery DEF Received
  <2>4. built' \in Seq(InstanceType)
    BY <1>6, <2>1 DEF ResolveReturns, FrameType, InstanceType
  <2>5. cache' \in [Containers -> [Types -> Nat]]
    BY <1>6, <2>1, <2>2 DEF ResolveReturns, CacheInstance, FrameType
  <2>6. QED  BY <1>6, <2>3, <2>4, <2>5 DEF ResolveReturns, graphVars, GraphTypeOK
<1>7. CASE ResolveFails
  BY <1>7 DEF ResolveFails, graphVars, GraphTypeOK
<1>8. CASE ClearSingletons
  BY <1>8 DEF ClearSingletons, graphVars, GraphTypeOK, Empty, NoInstance, Containers
<1>9. QED  BY <1>1, <1>2, <1>3, <1>4, <1>5, <1>6, <1>7, <1>8 DEF ContainerNext

-----------------------------------------------------------------------------
(* The calls under way.                                                    *)

\* The container changes its registrations as DependencyGraph does.
LEMMA GraphSteps == [ContainerNext]_vars => [GraphNext]_graphVars
<1> SUFFICES ASSUME [ContainerNext]_vars
             PROVE  [GraphNext]_graphVars
  OBVIOUS
<1>1. ASSUME NEW t \in Types, Register(t)
      PROVE  GraphNext
  BY <1>1, ContainerAssumption DEF Register, GraphNext
<1>2. CASE ~\E t \in Types : Register(t)
  BY <1>2 DEF ContainerNext, vars, graphVars, OpenScope, CloseScope, Resolve,
     ResolveDependency, ResolveReturns, ResolveFails, ClearSingletons
<1>3. QED  BY <1>1, <1>2

\* Only a registration changes what the factories resolve.
LEMMA UsesKept ==
    [ContainerNext]_vars /\ (~\E t \in Types : Register(t)) => UNCHANGED <<registered, deps, uses>>
BY DEF ContainerNext, vars, graphVars, OpenScope, CloseScope, Resolve,
   ResolveDependency, ResolveReturns, ResolveFails, ClearSingletons

LEMMA DeclaredStep ==
    ValuesOK /\ DeclaredUses /\ [ContainerNext]_vars => DeclaredUses'
<1> SUFFICES ASSUME ValuesOK, DeclaredUses, [ContainerNext]_vars
             PROVE  DeclaredUses'
  OBVIOUS
<1>1. ASSUME NEW t \in Types, Register(t)
      PROVE  DeclaredUses'
  BY <1>1, ContainerAssumption
     DEF Register, RegisterWithDependencies, RegisterFactory, DeclaredUses, ValuesOK, GraphTypeOK
<1>2. CASE ~\E t \in Types : Register(t)
  BY <1>2, UsesKept DEF DeclaredUses
<1>3. QED  BY <1>1, <1>2

\* A call of resolve from outside is the only call.
LEMMA ResolveCalls ==
    ASSUME CallsInv, NEW c \in Containers, NEW t \in Types, Resolve(c, t)
    PROVE  Chain' /\ InnerWaits' /\ UnderConstruction'
<1>1. stack' = <<Frame(c, t)>> /\ UNCHANGED <<registered, uses, cache>>
  BY DEF Resolve, graphVars
<1>2. Depth' = {1} /\ stack'[1] = Frame(c, t)  BY <1>1 DEF Depth
<1>3. t \in registered  BY DEF Resolve, Known, CallsInv, ValuesOK, Containers
<1>4. Chain'  BY <1>1, <1>2, <1>3 DEF Chain, Frame
<1>5. InnerWaits'  BY <1>2 DEF InnerWaits
<1>6. UnderConstruction'
  BY <1>1, <1>2 DEF UnderConstruction, Frame, Resolve, Cached
<1>7. QED  BY <1>4, <1>5, <1>6

\* A call into the recursion keeps the calls in order.
LEMMA PushKeeps ==
    ASSUME CallsInv, stack # <<>>, NEW d \in Top.todo \intersect registered,
           ~Cached("root", d), stack' = Append(stack, Frame("root", d)),
           UNCHANGED <<registered, uses, cache>>
    PROVE  Chain' /\ InnerWaits' /\ UnderConstruction'
<1> DEFINE n == Len(stack)
<1>1. n \in Depth /\ Top = stack[n] /\ n \in Nat \ {0}
  BY TopFrame DEF CallsInv, ValuesOK, Depth
<1>2. /\ Depth' = Depth \union {n + 1}
      /\ \A k \in Depth : stack'[k] = stack[k]
      /\ stack'[n + 1] = Frame("root", d)
  BY <1>1 DEF Depth, CallsInv, ValuesOK
<1>0. stack'[n + 1].type = d /\ stack'[n + 1].home = "root" /\ stack'[n + 1].todo = uses[d]
  BY <1>2 DEF Frame
<1>3. \A k \in Depth : k \in 1..n /\ k # n + 1  BY <1>1 DEF Depth
<1> HIDE DEF n
<1>4. Chain'
  <2>1. ASSUME NEW k \in Depth'
        PROVE  stack'[k].type \in registered' /\ stack'[k].todo \subseteq uses'[stack'[k].type]
    <3>1. CASE k = n + 1  BY <1>0, <3>1
    <3>2. CASE k \in Depth  BY <1>2, <3>2 DEF Chain, CallsInv
    <3>3. QED  BY <1>2, <2>1, <3>1, <3>2
  <2>2. ASSUME NEW k \in Depth' \ {1}
        PROVE  stack'[k].home = "root" /\ stack'[k].type \in stack'[k - 1].todo
    <3>1. CASE k = n + 1
      <4>1. k - 1 = n  BY <1>1, <3>1
      <4>2. stack'[k - 1] = Top  BY <1>1, <1>2, <4>1
      <4>3. QED  BY <1>0, <3>1, <4>2
    <3>2. CASE k \in Depth
      <4>1. k - 1 \in Depth  BY <1>1, <2>2, <3>2 DEF Depth
      <4>2. QED  BY <1>2, <2>2, <3>2, <4>1 DEF Chain, CallsInv
    <3>3. QED  BY <1>2, <2>2, <3>1, <3>2
  <2>3. QED  BY <2>1, <2>2 DEF Chain
<1>5. InnerWaits'
  <2> SUFFICES ASSUME NEW j \in Depth', NEW i \in 1..(j - 1), stack'[i].type = stack'[j].type
               PROVE  stack'[i + 1].type \in stack'[j].todo
    BY DEF InnerWaits
  <2>1. i \in Depth /\ i + 1 \in Depth'  BY <1>1, <1>2 DEF Depth, n
  <2>2. CASE j \in Depth
    <3>1. i + 1 \in Depth  BY <2>2 DEF Depth
    <3>2. QED  BY <1>2, <2>1, <2>2, <3>1 DEF InnerWaits, CallsInv
  <2>3. CASE j = n + 1
    <3>1. stack'[j].todo = uses[stack'[i].type]  BY <1>0, <1>2, <2>1, <2>3
    <3>2. stack'[i + 1].type \in stack'[i].todo
      <4>1. i \in Nat \ {0}  BY <2>1 DEF Depth
      <4>2. i + 1 \in Depth' \ {1} /\ (i + 1) - 1 = i  BY <2>1, <4>1
      <4>3. QED  BY <1>4, <4>2 DEF Chain
    <3>3. stack'[i].todo \subseteq uses'[stack'[i].type]  BY <1>2, <1>4, <2>1 DEF Chain
    <3>4. QED  BY <3>1, <3>2, <3>3
  <2>4. QED  BY <1>2, <2>2, <2>3
<1>6. UnderConstruction'
  <2> SUFFICES ASSUME NEW k \in Depth', stack'[k].type \in Singletons
               PROVE  cache[stack'[k].home][stack'[k].type] = NoInstance
    BY DEF UnderConstruction
  <2>1. CASE k = n + 1  BY <1>0, <2>1 DEF Cached
  <2>2. CASE k \in Depth  BY <1>2, <2>2 DEF UnderConstruction, CallsInv
  <2>3. QED  BY <1>2, <2>1, <2>2
<1>7. QED  BY <1>4, <1>5, <1>6

\* Fewer calls, of which the innermost waits for one type less, are still in
\* order if no call left is waiting on the type that was delivered.
LEMMA FewerKeep ==
    ASSUME CallsInv, NEW m \in Depth, NEW t \in Types, UNCHANGED <<registered, uses>>,
           Depth' = 1..m,
           \A k \in 1..m : /\ stack'[k].type = stack[k].type
                           /\ stack'[k].home = stack[k].home,
           \A k \in 1..(m - 1) : stack'[k].todo = stack[k].todo,
           stack'[m].todo = stack[m].todo \ {t},
           \A i \in 1..(m - 1) : stack[i].type = stack[m].type => stack[i + 1].type # t
    PROVE  Chain' /\ InnerWaits'
<1>1. m \in Nat /\ 1..m \subseteq Depth  BY DEF Depth
<1>2. \A k \in 1..m : stack'[k].todo \subseteq stack[k].todo
  <2> TAKE k \in 1..m
  <2>1. k = m \/ k \in 1..(m - 1)  BY <1>1
  <2>2. QED  BY <2>1
<1>3. Chain'
  <2>1. ASSUME NEW k \in 1..m
        PROVE  stack'[k].type \in registered' /\ stack'[k].todo \subseteq uses'[stack'[k].type]
    BY <1>1, <1>2 DEF CallsInv, Chain
  <2>2. ASSUME NEW k \in 1..m, k # 1
        PROVE  stack'[k].home = "root" /\ stack'[k].type \in stack'[k - 1].todo
    <3>1. k - 1 \in 1..(m - 1) /\ k \in Depth \ {1}  BY <1>1, <2>2
    <3>2. QED  BY <3>1 DEF CallsInv, Chain
  <2>3. QED  BY <2>1, <2>2 DEF Chain
<1>4. InnerWaits'
  <2> SUFFICES ASSUME NEW j \in 1..m, NEW i \in 1..(j - 1), stack'[i].type = stack'[j].type
               PROVE  stack'[i + 1].type \in stack'[j].todo
    BY DEF InnerWaits
  <2>1. i \in 1..m /\ i + 1 \in 1..m /\ j \in Depth  BY <1>1
  <2>2. stack[i + 1].type \in stack[j].todo  BY <2>1 DEF CallsInv, InnerWaits
  <2>3. CASE j = m  BY <2>1, <2>2, <2>3
  <2>4. CASE j # m
    <3>1. j \in 1..(m - 1)  BY <1>1, <2>4
    <3>2. QED  BY <2>1, <2>2, <3>1
  <2>5. QED  BY <2>3, <2>4
<1>5. QED  BY <1>3, <1>4

\* A cached dependency is delivered.
LEMMA CachedKeeps ==
    ASSUME CallsInv, stack # <<>>, NEW d \in Top.todo, Cached("root", d),
           stack' = Deliver(stack, d, cache["root"][d]),
           UNCHANGED <<registered, uses, cache>>
    PROVE  Chain' /\ InnerWaits' /\ UnderConstruction'
<1> DEFINE m == Len(stack)
<1>1. stack \in Seq(FrameType) /\ m \in Depth /\ Top = stack[m] /\ Top \in FrameType
  BY TopFrame DEF CallsInv, ValuesOK
<1>2. d \in Types /\ cache["root"][d] \in Nat
  BY <1>1 DEF FrameType, CallsInv, ValuesOK, Containers
<1>3. /\ Len(stack') = m
      /\ \A k \in 1..(m - 1) : stack'[k] = stack[k]
      /\ stack'[m].type = stack[m].type /\ stack'[m].home = stack[m].home
      /\ stack'[m].todo = stack[m].todo \ {d}
  <2>1. Received(stack', stack, d, cache["root"][d])  BY <1>1, <1>2, Delivery
  <2>2. QED  BY <2>1 DEF Received
<1>4. \A k \in 1..(m - 1) : stack'[k].todo = stack[k].todo  BY <1>3
<1>5. \A k \in 1..m : stack'[k].type = stack[k].type /\ stack'[k].home = stack[k].home
  <2> TAKE k \in 1..m
  <2>1. k = m \/ k \in 1..(m - 1)  BY <1>1 DEF Depth
  <2>2. QED  BY <1>3, <2>1
<1>6. ASSUME NEW i \in 1..(m - 1), stack[i].type = stack[m].type
      PROVE  stack[i + 1].type # d
  <2>1. i + 1 \in Depth \ {1}  BY <1>1 DEF Depth
  <2>2. stack[i + 1].home = "root"  BY <2>1 DEF CallsInv, Chain
  <2>3. QED  BY <2>1, <2>2 DEF CallsInv, UnderConstruction, Cached
<1>7. Depth' = 1..m  BY <1>3 DEF Depth
<1> HIDE DEF m
<1>8. Chain' /\ InnerWaits'
  BY <1>1, <1>2, <1>3, <1>4, <1>5, <1>6, <1>7, FewerKeep
<1>9. UnderConstruction'
  BY <1>5, <1>7 DEF UnderConstruction, CallsInv, Depth, m
<1>10. QED  BY <1>8, <1>9

\* The innermost call returns to the call that waits for it.
LEMMA ReturnKeeps ==
    ASSUME CallsInv, ResolveReturns, Len(stack) > 1
    PROVE  Chain' /\ InnerWaits' /\ UnderConstruction'
<1> DEFINE n == Len(stack)
           m == n - 1
           callers == SubSeq(stack, 1, n - 1)
           t == Top.type
           i == Len(built) + 1
<1>1. stack \in Seq(FrameType) /\ n \in Depth /\ Top = stack[n] /\ Top \in FrameType
  BY TopFrame DEF CallsInv, ValuesOK, ResolveReturns
<1>2. t \in Types /\ i \in Nat /\ m \in Nat \ {0} /\ m \in Depth
  BY <1>1 DEF FrameType, CallsInv, ValuesOK, Depth
<1>3. /\ callers \in Seq(FrameType) /\ Len(callers) = m
      /\ \A k \in 1..m : callers[k] = stack[k]
  BY <1>1, <1>2
<1>4. stack' = Deliver(callers, t, i)
  <2>1. callers # <<>>  BY <1>2, <1>3
  <2>2. QED  BY <2>1 DEF ResolveReturns
<1> HIDE DEF callers
<1>5. /\ Len(stack') = m
      /\ \A k \in 1..(m - 1) : stack'[k] = stack[k]
      /\ stack'[m].type = stack[m].type /\ stack'[m].home = stack[m].home
      /\ stack'[m].todo = stack[m].todo \ {t}
  <2>1. callers # <<>> /\ m \in 1..m /\ \A k \in 1..(m - 1) : k \in 1..m  BY <1>2, <1>3
  <2>2. Received(stack', callers, t, i)  BY <1>2, <1>3, <1>4, <2>1, Delivery
  <2> HIDE DEF t, i, m
  <2>3. QED  BY <1>3, <2>1, <2>2 DEF Received
<1>7. \A k \in 1..(m - 1) : stack'[k].todo = stack[k].todo  BY <1>5
<1>8. \A k \in 1..m : stack'[k].type = stack[k].type /\ stack'[k].home = stack[k].home
  <2> TAKE k \in 1..m
  <2>1. k = m \/ k \in 1..(m - 1)  BY <1>2
  <2>2. QED  BY <1>5, <2>1
<1>9. \A k \in 1..m : stack[k].type # t
  <2> TAKE k \in 1..m
  <2>1. k \in Depth /\ k # n  BY <1>1, <1>2 DEF Depth
  <2>2. QED  BY <2>1, TopUnique DEF ResolveReturns
<1>10. UNCHANGED <<registered, uses>> /\ cache' = CacheInstance(Top.home, t, i)
  BY DEF ResolveReturns, graphVars
<1>11. Depth' = 1..m  BY <1>5 DEF Depth
<1>12. Chain' /\ InnerWaits'
  <2>1. ASSUME NEW k \in 1..(m - 1), stack[k].type = stack[m].type
        PROVE  stack[k + 1].type # t
    <3>1. k + 1 \in 1..m  BY <1>2
    <3>2. QED  BY <1>9, <3>1
  <2> HIDE DEF m, t
  <2>2. QED  BY <1>2, <1>5, <1>7, <1>8, <1>10, <1>11, <2>1, FewerKeep
<1>13. UnderConstruction'
  <2> SUFFICES ASSUME NEW k \in 1..m, stack'[k].type \in Singletons
               PROVE  cache'[stack'[k].home][stack'[k].type] = NoInstance
    BY <1>11 DEF UnderConstruction
  <2>1. k \in Depth /\ stack[k] \in FrameType  BY <1>1, <1>2 DEF Depth
  <2>2. cache[stack[k].home][stack[k].type] = NoInstance
    BY <1>8, <2>1 DEF CallsInv, UnderConstruction
  <2>3. stack[k].type # t /\ stack[k].type \in Types /\ stack[k].home \in Containers
    BY <1>9, <2>1 DEF FrameType
  <2>4. cache \in [Containers -> [Types -> Nat]]  BY DEF CallsInv, ValuesOK
  <2>5. cache'[stack[k].home][stack[k].type] = cache[stack[k].home][stack[k].type]
    BY <1>10, <2>3, <2>4 DEF CacheInstance
  <2>6. QED  BY <1>8, <2>2, <2>5
<1>14. QED  BY <1>12, <1>13

\* Every step keeps the calls in order.
LEMMA CallsStep == CallsInv /\ [ContainerNext]_vars => CallsInv'
<1> SUFFICES ASSUME CallsInv, [ContainerNext]_vars
             PROVE  CallsInv'
  OBVIOUS
<1>1. ValuesOK' /\ DeclaredUses'  BY ValuesStep, DeclaredStep DEF CallsInv
<1>2. Acyclic'  BY GraphSteps, GraphStep DEF CallsInv, ValuesOK
<1>3. Chain' /\ InnerWaits' /\ UnderConstruction'
  <2>1. CASE UNCHANGED vars
    BY <2>1 DEF vars, graphVars, CallsInv, Chain, InnerWaits, UnderConstruction, Depth
  <2>2. ASSUME NEW t \in Types, Register(t)
        PROVE  Chain' /\ InnerWaits' /\ UnderConstruction'
    BY <2>2, NoCalls DEF Register
  <2>3. ASSUME NEW s \in Scopes, OpenScope(s) \/ CloseScope(s)
        PROVE  Chain' /\ InnerWaits' /\ UnderConstruction'
    BY <2>3, NoCalls DEF OpenScope, CloseScope
  <2>4. ASSUME NEW c \in Containers, NEW t \in Types, Resolve(c, t)
        PROVE  Chain' /\ InnerWaits' /\ UnderConstruction'
    BY <2>4, ResolveCalls
  <2>5. CASE ResolveDependency
    BY <2>5, CachedKeeps, PushKeeps DEF ResolveDependency, graphVars
  <2>6. CASE ResolveReturns
    <3>1. CASE Len(stack) > 1  BY <2>6, <3>1, ReturnKeeps
    <3>2. CASE ~(Len(stack) > 1)
      <4>1. stack \in Seq(FrameType) /\ Len(stack) = 1
        <5>1. stack \in Seq(FrameType) /\ stack # <<>>
          BY <2>6 DEF CallsInv, ValuesOK, ResolveReturns
        <5>2. Len(stack) \in Depth  BY <5>1, TopFrame
        <5>3. QED  BY <3>2, <5>1, <5>2 DEF Depth
      <4>2. SubSeq(stack, 1, Len(stack) - 1) = <<>>  BY <4>1
      <4>3. stack' = <<>>  BY <2>6, <4>2 DEF ResolveReturns
      <4>4. QED  BY <4>3, NoCalls
    <3>3. QED  BY <3>1, <3>2
  <2>7. CASE ResolveFails  BY <2>7, NoCalls DEF ResolveFails
  <2>8. CASE ClearSingletons  BY <2>8, NoCalls DEF ClearSingletons
  <2>9. QED  BY <2>1, <2>2, <2>3, <2>4, <2>5, <2>6, <2>7, <2>8 DEF ContainerNext
<1>4. QED  BY <1>1, <1>2, <1>3 DEF CallsInv

LEMMA CallsInit == ContainerInit => CallsInv
<1> SUFFICES ASSUME ContainerInit
             PROVE  CallsInv
  OBVIOUS
<1>1. ValuesOK
  BY DEF ContainerInit, GraphInit, ValuesOK, GraphTypeOK, Empty, NoInstance
<1>2. Acyclic /\ DeclaredUses
  BY ContainerAssumption DEF ContainerInit, GraphInit, Acyclic, DeclaredUses
<1>3. Chain /\ InnerWaits /\ UnderConstruction
  BY DEF ContainerInit, Chain, InnerWaits, UnderConstruction, Depth
<1>4. QED  BY <1>1, <1>2, <1>3 DEF CallsInv

\* The calls of resolve are in order in every state.
LEMMA CallsCorrect == ContainerSpec => []CallsInv
BY CallsInit, CallsStep, PTL DEF ContainerSpec

-----------------------------------------------------------------------------
(* Theorems.                                                               *)

\* Whatever is registered while the container is in use, the declared dependencies
\* form no cycle.
THEOREM ContainerAcyclic == ContainerSpec => []Acyclic
<1>1. CallsInv => Acyclic  BY DEF CallsInv
<1>2. QED  BY <1>1, CallsCorrect, PTL

\* resolve runs into itself only through a factory that resolves by itself.
THEOREM OnlyClosuresRecurse == ContainerSpec => []RecursionOnlyByClosures
<1>1. CallsInv => RecursionOnlyByClosures
  <2> SUFFICES ASSUME CallsInv, NEW j \in Depth, NEW i \in 1..(j - 1),
                      stack[i].type = stack[j].type,
                      \A k \in i..(j - 1) : stack[k].type \in Declared
               PROVE  FALSE
    BY DEF RecursionOnlyByClosures, Depth
  <2> DEFINE S == {stack[k].type : k \in i..(j - 1)}
  <2>1. i..(j - 1) \subseteq Depth /\ \A k \in i..(j - 1) : k + 1 \in Depth \ {1}
    BY DEF Depth
  <2>2. S \in SUBSET Types /\ S # {}
    <3>1. \A k \in Depth : stack[k].type \in registered  BY DEF CallsInv, Chain
    <3>2. registered \subseteq Types  BY DEF CallsInv, ValuesOK, GraphTypeOK
    <3>3. i \in i..(j - 1)  OBVIOUS
    <3>4. QED  BY <2>1, <3>1, <3>2, <3>3
  <2>3. PICK t \in S : deps[t] \intersect S = {}
    <3> HIDE DEF S
    <3>1. QED  BY <2>2 DEF CallsInv, Acyclic
  <2>4. PICK k \in i..(j - 1) : t = stack[k].type  OBVIOUS
  <2>5. stack[k + 1].type \in deps[t]
    <3>1. k \in Depth /\ k + 1 \in Depth \ {1} /\ (k + 1) - 1 = k  BY <2>1
    <3>2. stack[k + 1].type \in stack[k].todo  BY <3>1 DEF CallsInv, Chain
    <3>3. stack[k].todo \subseteq uses[t]  BY <2>4, <3>1 DEF CallsInv, Chain
    <3>4. uses[t] = deps[t]  BY <2>4 DEF CallsInv, DeclaredUses
    <3>5. QED  BY <3>2, <3>3, <3>4
  <2>6. stack[k + 1].type \in S
    <3>1. CASE k + 1 = j
      <4>1. i \in i..(j - 1)  OBVIOUS
      <4>2. QED  BY <3>1, <4>1
    <3>2. CASE k + 1 # j
      <4>1. k + 1 \in i..(j - 1)  BY <3>2 DEF Depth
      <4>2. QED  BY <4>1
    <3>3. QED  BY <3>1, <3>2
  <2>7. QED  BY <2>3, <2>5, <2>6
<1>2. QED  BY <1>1, CallsCorrect, PTL

\* What a returning call puts into a cache was not there.
LEMMA ReturnCaches ==
    ASSUME CallsInv, ResolveReturns, NEW c \in Containers, NEW t \in Singletons,
           cache[c][t] # NoInstance
    PROVE  cache'[c][t] = cache[c][t]
<1>1. Len(stack) \in Depth /\ Top = stack[Len(stack)] /\ Top \in FrameType
  BY TopFrame DEF CallsInv, ValuesOK, ResolveReturns
<1>2. ~(c = Top.home /\ t = Top.type)
  BY <1>1 DEF CallsInv, UnderConstruction
<1>3. cache \in [Containers -> [Types -> Nat]] /\ t \in Types
  BY ContainerAssumption DEF CallsInv, ValuesOK
<1>4. Top.home \in Containers /\ Top.type \in Types  BY <1>1 DEF FrameType
<1>5. QED  BY <1>2, <1>3, <1>4 DEF ResolveReturns, CacheInstance

\* A cached singleton is never replaced, whatever fails or recurses.
THEOREM StableSingletons == ContainerSpec => SingletonStable
<1>1. ASSUME CallsInv, [ContainerNext]_vars, NEW c \in Containers, NEW t \in Singletons,
             cache[c][t] # NoInstance
      PROVE  cache'[c][t] \in {cache[c][t], NoInstance}
  <2>1. cache \in [Containers -> [Types -> Nat]] /\ t \in Types
    BY <1>1, ContainerAssumption DEF CallsInv, ValuesOK
  <2>2. CASE ResolveReturns  BY <1>1, <2>2, ReturnCaches
  <2>3. CASE ClearSingletons  BY <2>1, <2>3 DEF ClearSingletons, Empty
  <2>4. ASSUME NEW s \in Scopes, CloseScope(s)
        PROVE  cache'[c][t] \in {cache[c][t], NoInstance}
    BY <2>1, <2>4 DEF CloseScope, Empty
  <2>5. CASE UNCHANGED cache  BY <2>5
  <2>6. QED
    BY <1>1, <2>2, <2>3, <2>4, <2>5
    DEF ContainerNext, vars, Register, OpenScope, Resolve, ResolveDependency, ResolveFails
<1>2. CallsInv /\ [ContainerNext]_vars =>
        [\A c \in Containers, t \in Singletons :
            cache[c][t] # NoInstance => cache'[c][t] \in {cache[c][t], NoInstance}]_vars
  BY <1>1
<1>3. QED  BY <1>2, CallsCorrect, PTL DEF ContainerSpec, SingletonStable

-----------------------------------------------------------------------------
(* One instance for all.                                                   *)

\* What the calls have been given is still right when the innermost one of them is
\* given the instance that the root's cache holds, and the cache keeps the others.
LEMMA ReceivedKeeps ==
    ASSUME ValuesOK, Delivered, NEW before \in Seq(FrameType), before # <<>>,
           Len(before) <= Len(stack), \A k \in 1..Len(before) : before[k] = stack[k],
           NEW t \in Types, NEW i \in Nat, Received(stack', before, t, i), UNCHANGED uses,
           \A d \in Singletons : cache["root"][d] # NoInstance => cache'["root"][d] = cache["root"][d],
           t \in Singletons => cache'["root"][t] = i /\ i # NoInstance
    PROVE  \A k \in Depth' : \A d \in (uses'[stack'[k].type] \ stack'[k].todo) \intersect Singletons :
              stack'[k].parts[d] = cache'["root"][d] /\ cache'["root"][d] # NoInstance
<1> DEFINE m == Len(before)
<1>1. Depth' = 1..m /\ 1..m \subseteq Depth /\ m \in 1..m /\ before[m] \in FrameType
  BY DEF Received, Depth, ValuesOK
<1> SUFFICES ASSUME NEW k \in 1..m,
                    NEW d \in (uses'[stack'[k].type] \ stack'[k].todo) \intersect Singletons
             PROVE  stack'[k].parts[d] = cache'["root"][d] /\ cache'["root"][d] # NoInstance
  BY <1>1
<1>2. ASSUME d \in uses[stack[k].type] \ stack[k].todo
      PROVE  /\ stack[k].parts[d] = cache["root"][d] /\ cache["root"][d] # NoInstance
             /\ cache'["root"][d] = cache["root"][d]
  BY <1>1, <1>2 DEF Delivered
<1>3. CASE k # m
  <2>1. stack'[k] = stack[k]  BY <1>1, <1>3 DEF Received
  <2>2. QED  BY <1>2, <2>1
<1>4. CASE k = m
  <2>1. /\ stack'[m].type = before[m].type
        /\ stack'[m].todo = before[m].todo \ {t}
        /\ stack'[m].parts = [before[m].parts EXCEPT ![t] = i]
        /\ before[m] = stack[m]
    BY <1>1 DEF Received
  <2>2. before[m].parts \in [Types -> Nat] /\ d \in Types
    BY <1>1, <1>4, <2>1 DEF FrameType, ValuesOK
  <2>3. CASE d = t  BY <1>4, <2>1, <2>2, <2>3
  <2>4. CASE d # t  BY <1>2, <1>4, <2>1, <2>2, <2>4
  <2>5. QED  BY <2>3, <2>4
<1>5. QED  BY <1>3, <1>4

\* A call that returns hands on the instance that it has put into the root's cache.
LEMMA ReturnDelivers ==
    ASSUME CallsInv, Delivered, ResolveReturns
    PROVE  Delivered'
<1> DEFINE n == Len(stack)
           callers == SubSeq(stack, 1, n - 1)
           t == Top.type
           i == Len(built) + 1
           one == [type |-> t, home |-> Top.home, parts |-> Top.parts]
<1>1. stack \in Seq(FrameType) /\ n \in Depth /\ Top = stack[n] /\ Top \in FrameType
  BY TopFrame DEF CallsInv, ValuesOK, ResolveReturns
<1>2. t \in Types /\ i \in Nat /\ i # NoInstance /\ built \in Seq(InstanceType)
  BY <1>1 DEF FrameType, CallsInv, ValuesOK, NoInstance
<1>3. /\ built' = Append(built, one)
      /\ cache' = CacheInstance(Top.home, t, i)
      /\ stack' = IF callers = <<>> THEN <<>> ELSE Deliver(callers, t, i)
      /\ Top.todo = {}
      /\ UNCHANGED <<registered, uses, clearedAt>>
  BY DEF ResolveReturns, graphVars
<1>4. \A d \in Singletons : cache["root"][d] # NoInstance => cache'["root"][d] = cache["root"][d]
  BY ReturnCaches DEF Containers
<1>5. \A k \in Depth' : \A d \in (uses'[stack'[k].type] \ stack'[k].todo) \intersect Singletons :
          stack'[k].parts[d] = cache'["root"][d] /\ cache'["root"][d] # NoInstance
  <2>1. CASE callers = <<>>
    BY <1>3, <2>1 DEF Depth
  <2>2. CASE callers # <<>>
    <3>n. n \in Nat \ {0} /\ n - 1 \in Nat \ {0} /\ Len(stack) = n
      <4>1. n \in Nat \ {0}  BY <1>1 DEF Depth
      <4>2. n = 1 => SubSeq(stack, 1, Len(stack) - 1) = <<>>  OBVIOUS
      <4>3. QED  BY <2>2, <4>1, <4>2
    <3>1. callers \in Seq(FrameType) /\ Len(callers) = n - 1
          /\ \A k \in 1..Len(callers) : callers[k] = stack[k]
      BY <1>1, <3>n, CallersOf
    <3>2. n \in Depth \ {1}  BY <1>1, <2>2, <3>1 DEF Depth
    <3>3. Top.home = "root"  BY <1>1, <3>2 DEF CallsInv, Chain
    <3>4. t \in Singletons => cache'["root"][t] = i
      <4>1. cache \in [Containers -> [Types -> Nat]] /\ "root" \in Containers
        BY DEF CallsInv, ValuesOK, Containers
      <4>2. QED  BY <1>2, <1>3, <3>3, <4>1 DEF CacheInstance
    <3>5. ValuesOK /\ Len(callers) <= n  BY <1>1, <3>1 DEF CallsInv
    <3> HIDE DEF callers, t, i, one
    <3>6. Received(stack', callers, t, i)  BY <1>2, <1>3, <2>2, <3>1, Delivery
    <3>7. QED  BY <1>2, <1>3, <1>4, <2>2, <3>1, <3>4, <3>5, <3>6, ReceivedKeeps
  <2>3. QED  BY <2>1, <2>2
<1>6. ASSUME NEW k \in 1..Len(built'), k > clearedAt',
             NEW d \in uses'[built'[k].type] \intersect Singletons
      PROVE  built'[k].parts[d] = cache'["root"][d] /\ cache'["root"][d] # NoInstance
  <2>1. CASE k \in 1..Len(built)
    <3>1. built'[k] = built[k]  BY <1>2, <1>3, <2>1
    <3>2. QED  BY <1>3, <1>4, <1>6, <2>1, <3>1 DEF Delivered
  <2>2. CASE k = i
    <3>1. built'[k] = one  BY <1>2, <1>3, <2>2
    <3>2. d \in (uses[stack[n].type] \ stack[n].todo) \intersect Singletons
      BY <1>1, <1>3, <1>6, <3>1
    <3>3. stack[n].parts[d] = cache["root"][d] /\ cache["root"][d] # NoInstance
      BY <1>1, <3>2 DEF Delivered
    <3>4. QED  BY <1>1, <1>4, <3>1, <3>2, <3>3
  <2>3. QED  BY <1>2, <1>3, <2>1, <2>2
<1>7. ASSUME NEW k \in 1..Len(built')
      PROVE  built'[k].type \in registered'
  <2>1. CASE k \in 1..Len(built)  BY <1>2, <1>3, <2>1 DEF Delivered
  <2>2. CASE k = i
    <3>1. built'[k].type = stack[n].type  BY <1>1, <1>2, <1>3, <2>2
    <3>2. QED  BY <1>1, <1>3, <3>1 DEF CallsInv, Chain
  <2>3. QED  BY <1>2, <1>3, <2>1, <2>2
<1>8. QED  BY <1>5, <1>6, <1>7 DEF Delivered

\* A delivery leaves what was delivered before as it is in the cache.
LEMMA DeliveredStep ==
    CallsInv /\ CallsInv' /\ Delivered /\ [ContainerNext]_vars => Delivered'
<1> SUFFICES ASSUME CallsInv, CallsInv', Delivered, [ContainerNext]_vars
             PROVE  Delivered'
  OBVIOUS
<1>a. ValuesOK /\ Chain /\ "root" \in Containers  BY DEF CallsInv, Containers
<1>1. CASE UNCHANGED vars
  BY <1>1 DEF vars, graphVars, Delivered, Depth
<1>2. ASSUME NEW t \in Types, Register(t)
      PROVE  Delivered'
  <2>1. t \notin registered /\ registered \subseteq registered'
    BY <1>2 DEF Register, RegisterWithDependencies, RegisterFactory
  <2>2. \A x \in registered : uses'[x] = uses[x]
    BY <1>2, <2>1, <1>a DEF Register, ValuesOK, GraphTypeOK
  <2>3. QED  BY <1>2, <2>1, <2>2 DEF Register, Delivered, Depth
<1>3. ASSUME NEW s \in Scopes, OpenScope(s) \/ CloseScope(s)
      PROVE  Delivered'
  <2>1. cache'["root"] = cache["root"]
    BY <1>3, <1>a, ContainerAssumption DEF OpenScope, CloseScope, ValuesOK
  <2>2. UNCHANGED <<registered, uses, stack, built, clearedAt>>
    BY <1>3 DEF OpenScope, CloseScope, graphVars
  <2>3. QED  BY <2>1, <2>2 DEF Delivered, Depth
<1>4. ASSUME NEW c \in Containers, NEW t \in Types, Resolve(c, t)
      PROVE  Delivered'
  <2>1. stack' = <<Frame(c, t)>> /\ UNCHANGED <<registered, uses, cache, built, clearedAt>>
    BY <1>4 DEF Resolve, graphVars
  <2>2. Depth' = {1} /\ stack'[1].type = t /\ stack'[1].todo = uses[t]
    BY <2>1 DEF Depth, Frame
  <2>3. QED  BY <2>1, <2>2 DEF Delivered
<1>5. CASE ResolveDependency
  <2>1. UNCHANGED <<registered, uses, cache, built, clearedAt>> /\ stack # <<>>
    BY <1>5 DEF ResolveDependency, graphVars
  <2>2. PICK d \in Top.todo \intersect registered :
          \/ Cached("root", d) /\ stack' = Deliver(stack, d, cache["root"][d])
          \/ ~Cached("root", d) /\ stack' = Append(stack, Frame("root", d))
    BY <1>5 DEF ResolveDependency
  <2>3. CASE Cached("root", d) /\ stack' = Deliver(stack, d, cache["root"][d])
    <3>1. stack \in Seq(FrameType) /\ Top \in FrameType /\ d \in Types
          /\ cache["root"][d] \in Nat
      BY <1>a, <2>1, TopFrame DEF ValuesOK, FrameType
    <3>2. Received(stack', stack, d, cache["root"][d])  BY <2>1, <2>3, <3>1, Delivery
    <3>3. \A k \in Depth' : \A x \in (uses'[stack'[k].type] \ stack'[k].todo) \intersect Singletons :
              stack'[k].parts[x] = cache'["root"][x] /\ cache'["root"][x] # NoInstance
      <4> DEFINE i == cache["root"][d]
      <4>1. ValuesOK /\ Len(stack) <= Len(stack) /\ i \in Nat /\ UNCHANGED <<uses, cache>>
            /\ (d \in Singletons => cache'["root"][d] = i /\ i # NoInstance)
            /\ Received(stack', stack, d, i)
        BY <1>a, <2>1, <2>3, <3>1, <3>2 DEF Cached
      <4> HIDE DEF i
      <4>2. QED  BY <2>1, <3>1, <4>1, ReceivedKeeps
    <3>4. QED  BY <2>1, <3>3 DEF Delivered
  <2>4. CASE ~Cached("root", d) /\ stack' = Append(stack, Frame("root", d))
    <3>1. stack \in Seq(FrameType)  BY <1>a DEF ValuesOK
    <3>2. ASSUME NEW k \in Depth'
          PROVE  (k \in Depth /\ stack'[k] = stack[k]) \/ stack'[k] = Frame("root", d)
      BY <2>4, <3>1 DEF Depth
    <3>3. Frame("root", d).type = d /\ Frame("root", d).todo = uses[d]  BY DEF Frame
    <3>4. ASSUME NEW k \in Depth',
                 NEW x \in (uses'[stack'[k].type] \ stack'[k].todo) \intersect Singletons
          PROVE  stack'[k].parts[x] = cache'["root"][x] /\ cache'["root"][x] # NoInstance
      <4>1. CASE k \in Depth /\ stack'[k] = stack[k]  BY <2>1, <3>4, <4>1 DEF Delivered
      <4>2. CASE stack'[k] = Frame("root", d)  BY <2>1, <3>3, <3>4, <4>2
      <4>3. QED  BY <3>2, <4>1, <4>2
    <3>5. QED  BY <2>1, <3>4 DEF Delivered
  <2>5. QED  BY <2>2, <2>3, <2>4
<1>6. CASE ResolveReturns
  BY <1>6, ReturnDelivers
<1>7. CASE ResolveFails
  BY <1>7 DEF ResolveFails, graphVars, Delivered, Depth
<1>8. CASE ClearSingletons
  <2>1. \A i \in 1..Len(built') : ~(i > clearedAt')
    BY <1>8, <1>a DEF ClearSingletons, ValuesOK
  <2>2. QED  BY <1>8, <2>1 DEF ClearSingletons, graphVars, Delivered, Depth
<1>9. QED  BY <1>1, <1>2, <1>3, <1>4, <1>5, <1>6, <1>7, <1>8 DEF ContainerNext

\* Every instance made since the last clear was given the singletons that the root's
\* cache holds.
THEOREM SharedSingletons == ContainerSpec => []SingletonsShared
<1>1. ContainerInit => Delivered  BY DEF ContainerInit, Delivered, Depth
<1>2. Delivered => SingletonsShared  BY DEF Delivered, SingletonsShared, Instances
<1>3. QED  BY <1>1, <1>2, CallsInit, CallsStep, DeliveredStep, PTL DEF ContainerSpec

-----------------------------------------------------------------------------
(* The values.                                                             *)

\* A call and an instance hold instances.
LEMMA Shapes ==
    /\ \A f \in FrameType : /\ f.type \in Types /\ f.home \in Containers
                            /\ f.todo \in SUBSET Types /\ f.parts \in [Types -> Nat]
    /\ \A b \in InstanceType : /\ b.type \in Types /\ b.home \in Containers
                               /\ b.parts \in [Types -> Nat]
BY DEF FrameType, InstanceType

\* Every instance that a cache, a call or another instance holds has been made.
Made ==
    /\ openScopes \subseteq Scopes
    /\ \A c \in Containers : \A t \in Types : cache[c][t] <= Len(built)
    /\ \A k \in Depth : \A t \in Types : stack[k].parts[t] <= Len(built)
    /\ \A k \in 1..Len(built) : \A t \in Types : built[k].parts[t] <= Len(built)

\* A delivery of an instance that has been made, to calls that have been given such.
LEMMA ReceivedMade ==
    ASSUME NEW m \in Nat, NEW before \in Seq(FrameType), before # <<>>,
           \A k \in 1..Len(before) : \A t \in Types : before[k].parts[t] <= m,
           NEW d \in Types, NEW i \in Nat, i <= m, NEW after, Received(after, before, d, i)
    PROVE  \A k \in 1..Len(after) : \A t \in Types : after[k].parts[t] <= m
<1> SUFFICES ASSUME NEW k \in 1..Len(after), NEW t \in Types
             PROVE  after[k].parts[t] <= m
  OBVIOUS
<1> DEFINE n == Len(before)
<1>1. n \in Nat /\ n \in 1..n /\ Len(after) = n /\ before[n] \in FrameType  BY DEF Received
<1>2. CASE k = n
  <2>1. after[n].parts = [before[n].parts EXCEPT ![d] = i]  BY DEF Received
  <2>2. before[n].parts \in [Types -> Nat]  BY <1>1 DEF FrameType
  <2>3. after[n].parts[t] = i \/ after[n].parts[t] = before[n].parts[t]  BY <2>1, <2>2
  <2>4. QED  BY <1>1, <1>2, <2>3
<1>3. CASE k # n
  <2>1. k \in 1..(n - 1) /\ k \in 1..n  BY <1>1, <1>3
  <2>2. after[k] = before[k]  BY <2>1 DEF Received
  <2>3. QED  BY <2>1, <2>2
<1>4. QED  BY <1>2, <1>3

LEMMA MadeStep == CallsInv /\ CallsInv' /\ Made /\ [ContainerNext]_vars => Made'
<1> SUFFICES ASSUME CallsInv, CallsInv', Made, [ContainerNext]_vars
             PROVE  Made'
  OBVIOUS
<1>a. /\ ValuesOK /\ "root" \in Containers /\ Len(built) \in Nat
      /\ stack \in Seq(FrameType) /\ built \in Seq(InstanceType)
      /\ cache \in [Containers -> [Types -> Nat]]
  BY DEF CallsInv, ValuesOK, Containers
<1>1. ASSUME UNCHANGED <<stack, built>>,
             \A c \in Containers : \A t \in Types : cache'[c][t] \in {cache[c][t], NoInstance},
             openScopes' \subseteq Scopes
      PROVE  Made'
  <2>1. \A c \in Containers : \A t \in Types : cache'[c][t] <= Len(built)
    <3> TAKE c \in Containers
    <3> TAKE t \in Types
    <3>1. cache'[c][t] = cache[c][t] \/ cache'[c][t] = 0  BY <1>1 DEF NoInstance
    <3>2. cache[c][t] <= Len(built) /\ 0 <= Len(built)  BY <1>a DEF Made
    <3>3. QED  BY <3>1, <3>2
  <2>2. QED  BY <1>1, <2>1 DEF Made, Depth
<1>2. CASE UNCHANGED vars  BY <1>1, <1>2 DEF vars, Made
<1>3. ASSUME NEW t \in Types, Register(t)
      PROVE  Made'
  BY <1>1, <1>3 DEF Register, Made
<1>4. ASSUME NEW s \in Scopes, OpenScope(s) \/ CloseScope(s)
      PROVE  Made'
  <2>1. CASE OpenScope(s)  BY <1>1, <2>1 DEF OpenScope, Made
  <2>2. CASE CloseScope(s)
    <3>1. \A c \in Containers : \A t \in Types : cache'[c][t] \in {cache[c][t], NoInstance}
      BY <1>a, <2>2 DEF CloseScope, Empty
    <3>2. UNCHANGED <<stack, built>> /\ openScopes' \subseteq Scopes
      BY <2>2 DEF CloseScope, Made
    <3>3. QED  BY <1>1, <3>1, <3>2
  <2>3. QED  BY <1>4, <2>1, <2>2
<1>5. ASSUME NEW c \in Containers, NEW t \in Types, Resolve(c, t)
      PROVE  Made'
  <2>1. stack' = <<Frame(c, t)>> /\ UNCHANGED <<cache, built, openScopes>>
    BY <1>5 DEF Resolve
  <2>2. Depth' = {1} /\ stack'[1].parts = Empty  BY <2>1 DEF Depth, Frame
  <2>3. QED  BY <1>a, <2>1, <2>2 DEF Made, Empty, NoInstance
<1>6. CASE ResolveDependency
  <2>1. UNCHANGED <<cache, built, openScopes>> /\ stack # <<>>  BY <1>6 DEF ResolveDependency
  <2>2. PICK d \in Top.todo \intersect registered :
          \/ stack' = Deliver(stack, d, cache["root"][d])
          \/ stack' = Append(stack, Frame("root", d))
    BY <1>6 DEF ResolveDependency
  <2>3. d \in Types  BY <1>a, <2>1, TopFrame DEF FrameType
  <2> DEFINE i == cache["root"][d]
             m == Len(built)
  <2>4. i \in Nat /\ i <= m /\ m \in Nat  BY <1>a, <2>3 DEF Made
  <2>5. \A k \in 1..Len(stack) : \A t \in Types : stack[k].parts[t] <= m  BY DEF Made, Depth
  <2>6. \A k \in 1..Len(stack') : \A t \in Types : stack'[k].parts[t] <= m
    <3>1. CASE stack' = Deliver(stack, d, i)
      <4> HIDE DEF i, m
      <4>1. Received(stack', stack, d, i)  BY <1>a, <2>1, <2>3, <2>4, <3>1, Delivery
      <4>2. QED  BY <1>a, <2>1, <2>3, <2>4, <2>5, <4>1, ReceivedMade
    <3>2. CASE stack' = Append(stack, Frame("root", d))
      <4>1. \A k \in 1..Len(stack') : (k \in 1..Len(stack) /\ stack'[k] = stack[k])
                                      \/ stack'[k] = Frame("root", d)
        BY <1>a, <3>2
      <4>2. \A t \in Types : Frame("root", d).parts[t] <= m  BY <2>4 DEF Frame, Empty, NoInstance
      <4>3. QED  BY <2>5, <4>1, <4>2
    <3>3. QED  BY <2>2, <3>1, <3>2
  <2>7. QED  BY <2>1, <2>6 DEF Made, Depth
<1>7. CASE ResolveReturns
  <2> DEFINE n == Len(stack)
             callers == SubSeq(stack, 1, n - 1)
             t == Top.type
             i == Len(built) + 1
             one == [type |-> t, home |-> Top.home, parts |-> Top.parts]
  <2>1. n \in Depth /\ Top = stack[n] /\ Top \in FrameType
    BY <1>7, <1>a, TopFrame DEF ResolveReturns
  <2>2. t \in Types /\ Top.home \in Containers /\ i \in Nat /\ Top.parts \in [Types -> Nat]
    BY <1>a, <2>1 DEF FrameType
  <2>3. /\ built' = Append(built, one)
        /\ cache' = CacheInstance(Top.home, t, i)
        /\ stack' = IF callers = <<>> THEN <<>> ELSE Deliver(callers, t, i)
        /\ openScopes' = openScopes
    BY <1>7 DEF ResolveReturns
  <2>4. Len(built') = i  BY <1>a, <2>3
  <2>5. \A c \in Containers : \A x \in Types : cache'[c][x] <= i
    <3>1. \A c \in Containers : \A x \in Types :
            cache'[c][x] = cache[c][x] \/ cache'[c][x] = i
      BY <1>a, <2>2, <2>3 DEF CacheInstance
    <3>2. \A c \in Containers : \A x \in Types : cache[c][x] \in Nat /\ cache[c][x] <= Len(built)
      BY <1>a DEF Made
    <3>3. QED  BY <1>a, <3>1, <3>2
  <2>6. \A k \in 1..Len(built') : \A x \in Types : built'[k].parts[x] <= i
    <3>1. \A k \in 1..Len(built') : (k \in 1..Len(built) /\ built'[k] = built[k]) \/ built'[k] = one
      BY <1>a, <2>3
    <3>2. \A x \in Types : one.parts[x] \in Nat /\ one.parts[x] <= Len(built)
      BY <2>1, <2>2 DEF Made
    <3>3. \A k \in 1..Len(built) : \A x \in Types :
            built[k].parts[x] \in Nat /\ built[k].parts[x] <= Len(built)
      <4>1. \A k \in 1..Len(built) : built[k] \in InstanceType  BY <1>a
      <4>2. QED  BY <4>1, Shapes DEF Made
    <3> HIDE DEF one
    <3>4. QED  BY <1>a, <3>1, <3>2, <3>3
  <2>7. \A k \in 1..Len(stack') : \A x \in Types : stack'[k].parts[x] <= i
    <3>1. CASE callers = <<>>  BY <2>3, <3>1
    <3>2. CASE callers # <<>>
      <4>1. n \in Nat \ {0} /\ n - 1 \in Nat \ {0}
        <5>1. n \in Nat \ {0}  BY <2>1 DEF Depth
        <5>2. n = 1 => SubSeq(stack, 1, Len(stack) - 1) = <<>>  BY <1>a
        <5>3. QED  BY <3>2, <5>1, <5>2
      <4>2. /\ callers \in Seq(FrameType) /\ Len(callers) = n - 1
            /\ \A k \in 1..Len(callers) : callers[k] = stack[k]
        BY <1>a, <4>1, CallersOf
      <4>3. \A k \in 1..Len(callers) : \A x \in Types : callers[k].parts[x] <= i
        <5> SUFFICES ASSUME NEW k \in 1..Len(callers), NEW x \in Types
                     PROVE  callers[k].parts[x] <= i
          OBVIOUS
        <5>1. k \in Depth /\ callers[k] = stack[k]  BY <4>1, <4>2 DEF Depth
        <5>2. stack[k].parts[x] \in Nat
          <6>1. stack[k] \in FrameType  BY <1>a, <5>1 DEF Depth
          <6>2. QED  BY <6>1, Shapes
        <5>3. stack[k].parts[x] <= Len(built)  BY <5>1 DEF Made
        <5>4. QED  BY <1>a, <5>1, <5>2, <5>3
      <4>4. i <= i /\ stack' = Deliver(callers, t, i)  BY <2>2, <2>3, <3>2
      <4> HIDE DEF callers, t, i, one
      <4>5. Received(stack', callers, t, i)  BY <2>2, <3>2, <4>2, <4>4, Delivery
      <4>6. QED  BY <2>2, <3>2, <4>2, <4>3, <4>4, <4>5, ReceivedMade
    <3>3. QED  BY <3>1, <3>2
  <2> HIDE DEF i
  <2>8. QED  BY <2>3, <2>4, <2>5, <2>6, <2>7 DEF Made, Depth
<1>8. CASE ResolveFails
  BY <1>8 DEF ResolveFails, Made, Depth
<1>9. CASE ClearSingletons
  <2>1. \A c \in Containers : \A t \in Types : cache'[c][t] \in {cache[c][t], NoInstance}
    BY <1>a, <1>9 DEF ClearSingletons, Empty
  <2>2. UNCHANGED <<stack, built>> /\ openScopes' \subseteq Scopes
    BY <1>9 DEF ClearSingletons, Made
  <2>3. QED  BY <1>1, <2>1, <2>2
<1>10. QED
  BY <1>2, <1>3, <1>4, <1>5, <1>6, <1>7, <1>8, <1>9 DEF ContainerNext

\* Every variable of the container keeps its type: what the caches, the calls under
\* way and the instances hold are instances that have been made.
THEOREM ContainerTypesCorrect == ContainerSpec => []ContainerTypeOK
<1>1. ContainerInit => Made
  BY DEF ContainerInit, Made, Depth, Empty, NoInstance
<1>2. ASSUME CallsInv, Made, NEW f \in [Types -> Nat], \A t \in Types : f[t] <= Len(built)
      PROVE  f \in [Types -> Instances \union {NoInstance}]
  <2>1. Len(built) \in Nat  BY <1>2 DEF CallsInv, ValuesOK
  <2>2. \A t \in Types : f[t] \in Instances \union {NoInstance}
    <3> TAKE t \in Types
    <3>1. f[t] \in Nat /\ f[t] <= Len(built)  BY <1>2
    <3>2. f[t] = 0 \/ f[t] \in 1..Len(built)  BY <2>1, <3>1
    <3>3. QED  BY <3>2 DEF Instances, NoInstance
  <2>3. QED  BY <2>2
<1>3. CallsInv /\ Made => ContainerTypeOK
  <2> SUFFICES ASSUME CallsInv, Made
               PROVE  ContainerTypeOK
    OBVIOUS
  <2>1. /\ GraphTypeOK /\ uses \in [Types -> SUBSET Types]
        /\ scopeTypes \in [Scopes -> SUBSET registered] /\ Len(built) \in Nat
        /\ cache \in [Containers -> [Types -> Nat]]
        /\ stack \in Seq(FrameType) /\ built \in Seq(InstanceType)
    BY DEF CallsInv, ValuesOK
  <2>2. cache \in [Containers -> [Types -> Instances \union {NoInstance}]]
    <3>1. \A c \in Containers : cache[c] \in [Types -> Instances \union {NoInstance}]
      BY <1>2, <2>1 DEF Made
    <3>2. QED  BY <2>1, <3>1
  <2>3. \A k \in 1..Len(stack) :
          stack[k] \in [type : Types, home : Containers, todo : SUBSET Types,
                        parts : [Types -> Instances \union {NoInstance}]]
    <3> TAKE k \in 1..Len(stack)
    <3>1. stack[k] \in FrameType /\ stack[k].parts \in [Types -> Nat]  BY <2>1, Shapes
    <3>2. stack[k].parts \in [Types -> Instances \union {NoInstance}]
      BY <1>2, <3>1 DEF Made, Depth
    <3>3. QED  BY <3>1, <3>2 DEF FrameType
  <2>4. \A i \in Instances :
          built[i] \in [type : Types, home : Containers,
                        parts : [Types -> Instances \union {NoInstance}]]
    <3> TAKE i \in Instances
    <3>1. built[i] \in InstanceType /\ built[i].parts \in [Types -> Nat]
      BY <2>1, Shapes DEF Instances
    <3>2. built[i].parts \in [Types -> Instances \union {NoInstance}]
      BY <1>2, <3>1 DEF Made, Instances
    <3>3. QED  BY <3>1, <3>2 DEF InstanceType
  <2>5. openScopes \subseteq Scopes  BY DEF Made
  <2>6. QED  BY <2>1, <2>2, <2>3, <2>4, <2>5 DEF ContainerTypeOK
<1>4. QED  BY <1>1, <1>3, CallsInit, CallsStep, MadeStep, PTL DEF ContainerSpec

-----------------------------------------------------------------------------
(* The registrations.                                                      *)

\* The container, with its resolutions, caches and scopes, does to its registrations
\* nothing that DependencyGraph does not allow.
THEOREM ContainerImplementsGraph == ContainerSpec => GraphSpec
<1>1. ContainerInit => GraphInit  BY DEF ContainerInit
<1>2. QED  BY <1>1, GraphSteps, PTL DEF ContainerSpec, GraphSpec

\* The depth first search finds a type exactly when it is a transitive dependency,
\* in every state of the container.
THEOREM ContainerSearchCorrect == ContainerSpec => []SearchFindsReachable
BY ContainerImplementsGraph, SearchCorrect, PTL

=============================================================================
