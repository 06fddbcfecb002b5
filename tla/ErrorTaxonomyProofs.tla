------------------------ MODULE ErrorTaxonomyProofs ------------------------
(***************************************************************************)
(* Lemmas about the exception classes, and two theorems about their        *)
(* translation into domain errors and HTTP statuses.                       *)
(*                                                                         *)
(* Mro is a recursive function, whose definition only chooses a function   *)
(* that satisfies its equation.  That there is one is shown by applying    *)
(* the equation to itself as often as the longest line of classes needs:   *)
(* six times, for the root and the five tiers below it.  After that,       *)
(* isinstance and translate_error climb from a class to its parent, and    *)
(* what they give for each class follows tier by tier.                     *)
(***************************************************************************)
EXTENDS ErrorTaxonomy, SequenceTheorems, WellFoundedInduction, TLAPS

-----------------------------------------------------------------------------
(* The classes, by their distance from the root.                           *)

Root == "BaseException"
AllClasses == Classes \union {Root}

Foreign1 == {"Exception", "CancelledError", "GeneratorExit"}
Foreign2 == {"ConfigLoadingError", "OSError", "LookupError", "ValueError", "TypeError",
             "ImportError", "RuntimeError", "InvalidTag"}
Foreign3 == {"ConnectionError", "TimeoutError", "KeyError", "PydanticError",
             "ModuleNotFoundError"}
Foreign4 == {"ConnectionResetError"}

Domain2 == {"DomainError"}
Domain3 == {"ExternalServiceError", "ToolExecutionError", "ConfigurationError", "AgentError",
            "QueryProcessingError", "ValidationError"}
Domain4 == {"ResourceNotFoundError", "InvalidConfigurationError", "AgentCreationError",
            "ToolRegistrationError", "ToolLoadingError", "QueryTimeoutError",
            "AgentServiceError"}
Domain5 == {"AgentServiceInitializationError", "AgentServiceShutdownError"}

Tier1 == Foreign1
Tier2 == Foreign2 \union Domain2
Tier3 == Foreign3 \union Domain3
Tier4 == Foreign4 \union Domain4
Tier5 == Domain5

\* The five tiers below the root hold every class, domain errors and others.
LEMMA ClassesInTiers == Classes = Tier1 \union Tier2 \union Tier3 \union Tier4 \union Tier5
BY DEF Classes, CoreParent, ServiceParent, ConfigParent, ForeignParent,
       Tier1, Tier2, Tier3, Tier4, Tier5, Foreign1, Foreign2, Foreign3, Foreign4,
       Domain2, Domain3, Domain4, Domain5

\* BaseException has no parent and is none of the classes told apart.
LEMMA RootIsNoClass == Root \notin Classes
BY DEF Root, Classes, CoreParent, ServiceParent, ConfigParent, ForeignParent

\* The base of each class of Python and of the libraries.
LEMMA ParentsOfForeign ==
    /\ \A c \in Foreign1 : Parent(c) = Root
    /\ \A c \in Foreign2 : Parent(c) = "Exception"
    /\ Parent("ConnectionError") = "OSError"
    /\ Parent("TimeoutError") = "OSError"
    /\ Parent("KeyError") = "LookupError"
    /\ Parent("PydanticError") = "ValueError"
    /\ Parent("ModuleNotFoundError") = "ImportError"
    /\ Parent("ConnectionResetError") = "ConnectionError"
BY DEF Parent, CoreParent, ServiceParent, ConfigParent, ForeignParent, Root, Foreign1, Foreign2

\* The base of each class of exceptions.py.
LEMMA ParentsOfDomain ==
    /\ Parent("DomainError") = "Exception"
    /\ \A c \in Domain3 : Parent(c) = "DomainError"
    /\ Parent("ResourceNotFoundError") = "ExternalServiceError"
    /\ Parent("InvalidConfigurationError") = "ConfigurationError"
    /\ \A c \in {"AgentCreationError", "ToolRegistrationError", "ToolLoadingError"} :
          Parent(c) = "AgentError"
    /\ \A c \in {"QueryTimeoutError", "AgentServiceError"} : Parent(c) = "QueryProcessingError"
    /\ \A c \in Domain5 : Parent(c) = "AgentServiceError"
BY DEF Parent, CoreParent, ServiceParent, ConfigParent, ForeignParent, Domain3, Domain5

\* The base of a class is one tier nearer to the root, so no line of bases is endless.
LEMMA ParentsAbove ==
    /\ \A c \in Tier1 : Parent(c) = Root
    /\ \A c \in Tier2 : Parent(c) \in Tier1
    /\ \A c \in Tier3 : Parent(c) \in Tier2
    /\ \A c \in Tier4 : Parent(c) \in Tier3
    /\ \A c \in Tier5 : Parent(c) \in Tier4
BY ParentsOfForeign, ParentsOfDomain
   DEF Tier1, Tier2, Tier3, Tier4, Tier5, Foreign1, Foreign2, Foreign3, Foreign4,
       Domain2, Domain3, Domain4, Domain5

-----------------------------------------------------------------------------
(* Lines of bases.                                                         *)

\* What __mro__ is for c when g gives it for the base of c.
Line(g, c) == IF c = Root THEN <<c>> ELSE <<c>> \o g[Parent(c)]

\* The equation of __mro__ has a solution: each use of it makes one more tier right.
LEMMA MroExists ==
    \E g : g = [c \in AllClasses |-> Line(g, c)]
<1> DEFINE F(g) == [c \in AllClasses |-> Line(g, c)]
<1>1. PICK g0 : g0 = [c \in AllClasses |-> <<>>]  OBVIOUS
<1>2. PICK g1 : g1 = F(g0)  OBVIOUS
<1>3. PICK g2 : g2 = F(g1)  OBVIOUS
<1>4. PICK g3 : g3 = F(g2)  OBVIOUS
<1>5. PICK g4 : g4 = F(g3)  OBVIOUS
<1>6. PICK g5 : g5 = F(g4)  OBVIOUS
<1>7. PICK g6 : g6 = F(g5)  OBVIOUS
<1>8. PICK g7 : g7 = F(g6)  OBVIOUS
<1> DEFINE Agree(g, h, A) == \A c \in A : g[c] = h[c]
<1>9. ASSUME NEW g, NEW h, NEW f, NEW e,
             NEW A \in SUBSET AllClasses, NEW B \in SUBSET AllClasses,
             f = F(g), e = F(h), Agree(g, h, A), \A c \in B : c = Root \/ Parent(c) \in A
      PROVE  Agree(f, e, B)
  BY <1>9 DEF Line
<1> HIDE DEF F, Agree
<1> DEFINE A0 == {Root}
           A1 == A0 \union Tier1
           A2 == A1 \union Tier2
           A3 == A2 \union Tier3
           A4 == A3 \union Tier4
           A5 == A4 \union Tier5
<1>10. A5 = AllClasses  BY ClassesInTiers DEF AllClasses
<1>11. /\ \A c \in A1 : c = Root \/ Parent(c) \in A0
       /\ \A c \in A2 : c = Root \/ Parent(c) \in A1
       /\ \A c \in A3 : c = Root \/ Parent(c) \in A2
       /\ \A c \in A4 : c = Root \/ Parent(c) \in A3
       /\ \A c \in A5 : c = Root \/ Parent(c) \in A4
  BY ParentsAbove
<1>12. Agree(g1, g2, A0)
  BY <1>2, <1>3, <1>10 DEF Agree, F, Line
<1>13. Agree(g2, g3, A1)  BY <1>3, <1>4, <1>9, <1>10, <1>11, <1>12
<1>14. Agree(g3, g4, A2)  BY <1>4, <1>5, <1>9, <1>10, <1>11, <1>13
<1>15. Agree(g4, g5, A3)  BY <1>5, <1>6, <1>9, <1>10, <1>11, <1>14
<1>16. Agree(g5, g6, A4)  BY <1>6, <1>7, <1>9, <1>10, <1>11, <1>15
<1>17. Agree(g6, g7, A5)  BY <1>7, <1>8, <1>9, <1>10, <1>11, <1>16
<1>18. g6 = g7  BY <1>7, <1>8, <1>10, <1>17 DEF Agree, F
<1>19. g6 = F(g6)  BY <1>8, <1>18
<1>20. QED  BY <1>19 DEF F

\* __mro__ of a class is the class followed by that of its base.
LEMMA MroEquation ==
    /\ Mro[Root] = <<Root>>
    /\ \A c \in Classes : Mro[c] = <<c>> \o Mro[Parent(c)]
<1>1. Mro = CHOOSE g : g = [c \in AllClasses |-> Line(g, c)]
  BY DEF Mro, Line, AllClasses, Root
<1>2. Mro = [c \in AllClasses |-> Line(Mro, c)]  BY <1>1, MroExists
<1>3. QED  BY <1>2, RootIsNoClass DEF AllClasses, Line

\* A line of bases is a finite sequence of classes.
LEMMA LinesAreSequences == \A c \in AllClasses : Mro[c] \in Seq(AllClasses)
<1>1. Root \in AllClasses /\ Mro[Root] \in Seq(AllClasses)  BY MroEquation DEF AllClasses
<1>2. ASSUME NEW c \in Classes, Mro[Parent(c)] \in Seq(AllClasses)
      PROVE  Mro[c] \in Seq(AllClasses)
  <2>1. <<c>> \in Seq(AllClasses)  BY DEF AllClasses
  <2>2. QED  BY <1>2, <2>1, MroEquation, ConcatProperties
<1>3. Tier1 \union Tier2 \union Tier3 \union Tier4 \union Tier5 \subseteq Classes
  BY ClassesInTiers
<1>4. \A c \in Tier1 : Mro[c] \in Seq(AllClasses)  BY <1>1, <1>2, <1>3, ParentsAbove
<1>5. \A c \in Tier2 : Mro[c] \in Seq(AllClasses)
  BY <1>2, <1>3, <1>4, ParentsAbove
<1>6. \A c \in Tier3 : Mro[c] \in Seq(AllClasses)  BY <1>2, <1>3, <1>5, ParentsAbove
<1>7. \A c \in Tier4 : Mro[c] \in Seq(AllClasses)  BY <1>2, <1>3, <1>6, ParentsAbove
<1>8. \A c \in Tier5 : Mro[c] \in Seq(AllClasses)
  BY <1>2, <1>3, <1>7, ParentsAbove
<1>9. QED  BY <1>1, <1>4, <1>5, <1>6, <1>7, <1>8, ClassesInTiers DEF AllClasses

\* The base of a class is a class or the root.
LEMMA ParentsAreClasses == \A c \in Classes : Parent(c) \in AllClasses
BY ClassesInTiers, ParentsAbove DEF AllClasses

\* isinstance climbs: a class is itself, and what its parent is.
LEMMA IsAClimbs ==
    /\ \A d : IsA(Root, d) <=> d = Root
    /\ \A c \in Classes : \A d : IsA(c, d) <=> d = c \/ IsA(Parent(c), d)
<1>1. \A d : IsA(Root, d) <=> d = Root  BY MroEquation DEF IsA
<1>2. ASSUME NEW c \in Classes, NEW d
      PROVE  IsA(c, d) <=> d = c \/ IsA(Parent(c), d)
  <2> DEFINE above == Mro[Parent(c)]
  <2>1. above \in Seq(AllClasses)  BY LinesAreSequences, ParentsAreClasses
  <2>2. Mro[c] = <<c>> \o above  BY MroEquation
  <2>3. /\ DOMAIN Mro[c] = 1..(Len(above) + 1)
        /\ Mro[c][1] = c
        /\ \A i \in DOMAIN above : i + 1 \in DOMAIN Mro[c] /\ Mro[c][i + 1] = above[i]
        /\ \A i \in DOMAIN Mro[c] : i # 1 => i - 1 \in DOMAIN above /\ Mro[c][i] = above[i - 1]
    BY <2>1, <2>2
  <2>4. ASSUME NEW i \in DOMAIN Mro[c], Mro[c][i] = d, d # c
        PROVE  IsA(Parent(c), d)
    BY <2>3, <2>4 DEF IsA
  <2>5. ASSUME IsA(Parent(c), d)  PROVE IsA(c, d)
    BY <2>3, <2>5 DEF IsA
  <2>6. IsA(c, c)  BY <2>1, <2>3 DEF IsA
  <2>7. QED  BY <2>4, <2>5, <2>6 DEF IsA
<1>3. QED  BY <1>1, <1>2

-----------------------------------------------------------------------------
(* translate_error climbs from a class to its base.                        *)

Less == {p \in Nat \X Nat : p[1] < p[2]}

\* A set of numbers that is not empty has a least one.
LEMMA LeastExists ==
    ASSUME NEW S \in SUBSET Nat, S # {}
    PROVE  \E m \in S : \A n \in S : m <= n
<1>1. IsWellFoundedOn(Less, Nat)  BY NatLessThanWellFounded DEF OpToRel, Less
<1>2. PICK m \in S : \A n \in S : <<n, m>> \notin Less  BY <1>1, WFMin
<1>3. ASSUME NEW n \in S  PROVE m <= n
  <2>1. m \in Nat /\ n \in Nat /\ <<n, m>> \notin Less  BY <1>2
  <2>2. ~(n < m)  BY <2>1 DEF Less
  <2>3. QED  BY <2>1, <2>2
<1>4. QED  BY <1>3

\* An error of which no class is mapped is a QueryProcessingError.
LEMMA NoneMapped ==
    ASSUME NEW m, NEW e \in AllClasses,
           \A i \in DOMAIN Mro[e] : Mro[e][i] \notin DOMAIN m
    PROVE  TranslateError(m, e) = "QueryProcessingError"
BY DEF TranslateError, CreateDomainError, NeedsMore

\* The first mapped class of the line decides, whatever the mappings are.
LEMMA NearestMapped ==
    ASSUME NEW m, NEW e \in AllClasses, NEW i \in DOMAIN Mro[e], Mro[e][i] \in DOMAIN m,
           \A j \in DOMAIN Mro[e] : j < i => Mro[e][j] \notin DOMAIN m
    PROVE  TranslateError(m, e) = CreateDomainError(m[Mro[e][i]])
<1> DEFINE mapped == {k \in DOMAIN Mro[e] : Mro[e][k] \in DOMAIN m}
           nearest == CHOOSE k \in mapped : \A j \in mapped : k <= j
<1>1. DOMAIN Mro[e] \subseteq Nat  BY LinesAreSequences
<1>2. i \in mapped /\ \A j \in mapped : i <= j  BY <1>1
<1>3. nearest \in mapped /\ \A j \in mapped : nearest <= j  BY <1>2
<1>4. nearest = i  BY <1>1, <1>2, <1>3
<1>5. mapped # {}  BY <1>2
<1>6. TranslateError(m, e) = CreateDomainError(m[Mro[e][nearest]])
  BY <1>5 DEF TranslateError
<1>7. QED  BY <1>4, <1>6

\* A class without a mapping of its own is translated as its base is.
LEMMA TranslationClimbs ==
    ASSUME NEW m, NEW e \in Classes
    PROVE  TranslateError(m, e) = IF e \in DOMAIN m THEN CreateDomainError(m[e])
                                  ELSE TranslateError(m, Parent(e))
<1> DEFINE above == Mro[Parent(e)]
<1>1. above \in Seq(AllClasses) /\ Parent(e) \in AllClasses /\ e \in AllClasses
  BY LinesAreSequences, ParentsAreClasses DEF AllClasses
<1>2. Mro[e] = <<e>> \o above  BY MroEquation
<1>3. /\ DOMAIN Mro[e] = 1..(Len(above) + 1)
      /\ Mro[e][1] = e
      /\ \A i \in DOMAIN above : i + 1 \in DOMAIN Mro[e] /\ Mro[e][i + 1] = above[i]
      /\ \A i \in DOMAIN Mro[e] : i # 1 => i - 1 \in DOMAIN above /\ Mro[e][i] = above[i - 1]
      /\ DOMAIN above = 1..Len(above) /\ Len(above) \in Nat
  BY <1>1, <1>2
<1>4. CASE e \in DOMAIN m  BY <1>1, <1>3, <1>4, NearestMapped
<1>5. CASE e \notin DOMAIN m /\ \A i \in DOMAIN above : above[i] \notin DOMAIN m
  <2>1. \A i \in DOMAIN Mro[e] : Mro[e][i] \notin DOMAIN m  BY <1>3, <1>5
  <2>2. QED  BY <1>1, <1>5, <2>1, NoneMapped
<1>6. ASSUME e \notin DOMAIN m, NEW k \in DOMAIN above, above[k] \in DOMAIN m
      PROVE  TranslateError(m, e) = TranslateError(m, Parent(e))
  <2> DEFINE S == {i \in DOMAIN above : above[i] \in DOMAIN m}
  <2>1. PICK n \in S : \A j \in S : n <= j
    <3>1. S \in SUBSET Nat /\ S # {}  BY <1>3, <1>6
    <3>2. QED  BY <3>1, LeastExists
  <2>2. TranslateError(m, Parent(e)) = CreateDomainError(m[above[n]])
    <3>1. \A j \in DOMAIN above : j < n => above[j] \notin DOMAIN m  BY <1>3, <2>1
    <3>2. QED  BY <1>1, <2>1, <3>1, NearestMapped
  <2>3. TranslateError(m, e) = CreateDomainError(m[above[n]])
    <3>1. \A j \in DOMAIN Mro[e] : j < n + 1 => Mro[e][j] \notin DOMAIN m
      <4>1. SUFFICES ASSUME NEW j \in DOMAIN Mro[e], j < n + 1, Mro[e][j] \in DOMAIN m
                     PROVE  FALSE
        OBVIOUS
      <4>2. j # 1  BY <1>3, <1>6, <4>1
      <4>3. j - 1 \in S  BY <1>3, <4>1, <4>2
      <4>4. QED  BY <1>3, <2>1, <4>1, <4>3
    <3>2. n + 1 \in DOMAIN Mro[e] /\ Mro[e][n + 1] = above[n]  BY <1>3, <2>1
    <3>3. QED  BY <1>1, <2>1, <3>1, <3>2, NearestMapped
  <2>4. QED  BY <2>2, <2>3
<1>7. QED  BY <1>4, <1>5, <1>6

-----------------------------------------------------------------------------
(* What the default mappings make of every class.                          *)

\* D is the tree of classes below d: it holds d and whatever has its parent in it.
IsTree(d, D) == /\ D \subseteq Classes
                /\ d \in Classes
                /\ \A c \in Classes : c \in D <=> c = d \/ Parent(c) \in D

\* The tree below d has the classes that are a d.
LEMMA Subclasses ==
    ASSUME NEW d, NEW D, IsTree(d, D)
    PROVE  \A c \in Classes : IsA(c, d) <=> c \in D
<1> DEFINE Right(A) == \A c \in A : IsA(c, d) <=> c \in D
<1>1. Right({Root})  BY IsAClimbs, RootIsNoClass DEF IsTree
<1>2. ASSUME NEW A \in SUBSET AllClasses, Right(A), NEW B \in SUBSET Classes,
             \A c \in B : Parent(c) \in A
      PROVE  Right(B)
  BY <1>2, IsAClimbs DEF IsTree
<1>3. /\ {Root} \subseteq AllClasses
      /\ Tier1 \subseteq Classes /\ Tier2 \subseteq Classes /\ Tier3 \subseteq Classes
      /\ Tier4 \subseteq Classes /\ Tier5 \subseteq Classes /\ Classes \subseteq AllClasses
  BY ClassesInTiers DEF AllClasses
<1> HIDE DEF Right
<1>4. Right(Tier1)
  <2>1. \A c \in Tier1 : Parent(c) \in {Root}  BY ParentsAbove
  <2>2. QED  BY <1>1, <1>2, <1>3, <2>1
<1>5. Right(Tier2)  BY <1>2, <1>3, <1>4, ParentsAbove
<1>6. Right(Tier3)  BY <1>2, <1>3, <1>5, ParentsAbove
<1>7. Right(Tier4)  BY <1>2, <1>3, <1>6, ParentsAbove
<1>8. Right(Tier5)  BY <1>2, <1>3, <1>7, ParentsAbove
<1>9. QED  BY <1>4, <1>5, <1>6, <1>7, <1>8, ClassesInTiers DEF Right

CaughtClasses == Classes \ {"CancelledError", "GeneratorExit"}
DomainClasses == Domain2 \union Domain3 \union Domain4 \union Domain5
ExternalClasses == {"ExternalServiceError", "ResourceNotFoundError"}
ConnectionClasses == {"ConnectionError", "ConnectionResetError"}
QueryClasses ==
    {"QueryProcessingError", "QueryTimeoutError", "AgentServiceError"} \union Domain5

\* The trees below the classes that the code asks for.
LEMMA Trees ==
    /\ IsTree("Exception", CaughtClasses)
    /\ IsTree("DomainError", DomainClasses)
    /\ IsTree("ValidationError", {"ValidationError"})
    /\ IsTree("ExternalServiceError", ExternalClasses)
    /\ IsTree("ConnectionError", ConnectionClasses)
    /\ IsTree("QueryProcessingError", QueryClasses)
<1> USE ClassesInTiers, ParentsOfForeign, ParentsOfDomain DEF IsTree, Root,
        Tier1, Tier2, Tier3, Tier4, Tier5, Foreign1, Foreign2, Foreign3, Foreign4,
        Domain2, Domain3, Domain4, Domain5
<1>1. IsTree("Exception", CaughtClasses)  BY DEF CaughtClasses
<1>2. IsTree("DomainError", DomainClasses)  BY DEF DomainClasses
<1>3. IsTree("ValidationError", {"ValidationError"})  OBVIOUS
<1>4. IsTree("ExternalServiceError", ExternalClasses)  BY DEF ExternalClasses
<1>5. IsTree("ConnectionError", ConnectionClasses)  BY DEF ConnectionClasses
<1>6. IsTree("QueryProcessingError", QueryClasses)  BY DEF QueryClasses
<1>7. QED  BY <1>1, <1>2, <1>3, <1>4, <1>5, <1>6

\* What isinstance answers for the classes that the code asks for.
LEMMA KindsOfErrors ==
    /\ DomainErrors = DomainClasses
    /\ \A c \in Classes : /\ Caught(c) <=> c \in CaughtClasses
                          /\ IsA(c, "ValidationError") <=> c = "ValidationError"
                          /\ IsA(c, "ExternalServiceError") <=> c \in ExternalClasses
                          /\ IsA(c, "ConnectionError") <=> c \in ConnectionClasses
                          /\ IsA(c, "QueryProcessingError") <=> c \in QueryClasses
<1>1. DomainErrors = DomainClasses  BY Trees, Subclasses DEF DomainErrors, IsTree
<1>2. QED  BY <1>1, Trees, Subclasses DEF Caught

\* No mapping can make translate_error return what is no domain error; what it can
\* do is raise a TypeError, if a class is mapped to one that takes more than a message.
THEOREM TranslationIsDomain ==
    ASSUME NEW m, \A c \in DOMAIN m : m[c] \in DomainErrors, NEW e \in Classes
    PROVE  \/ TranslateError(m, e) \in DomainErrors
           \/ /\ TranslateError(m, e) = "TypeError"
              /\ \E c \in DOMAIN m : m[c] \in NeedsMore
<1> DEFINE mapped == {i \in DOMAIN Mro[e] : Mro[e][i] \in DOMAIN m}
<1>1. e \in AllClasses /\ DOMAIN Mro[e] \subseteq Nat  BY LinesAreSequences DEF AllClasses
<1>2. CASE mapped = {}
  <2>1. TranslateError(m, e) = "QueryProcessingError"  BY <1>1, <1>2, NoneMapped
  <2>2. "QueryProcessingError" \in DomainErrors
    BY KindsOfErrors DEF DomainClasses, Domain3
  <2>3. QED  BY <2>1, <2>2
<1>3. CASE mapped # {}
  <2>1. PICK i \in mapped : \A j \in mapped : i <= j  BY <1>1, <1>3, LeastExists
  <2>2. \A j \in DOMAIN Mro[e] : j < i => Mro[e][j] \notin DOMAIN m  BY <1>1, <2>1
  <2>3. TranslateError(m, e) = CreateDomainError(m[Mro[e][i]])
    BY <1>1, <2>1, <2>2, NearestMapped
  <2>4. QED  BY <2>1, <2>3 DEF CreateDomainError
<1>4. QED  BY <1>2, <1>3

\* What the default mappings make of the classes of Python and the libraries.
LEMMA DefaultTranslations ==
    ASSUME NEW e \in Classes, Caught(e), e \notin DomainErrors
    PROVE  TranslateError(DefaultMappings, e) =
             CASE e \in ConnectionClasses -> "ExternalServiceError"
               [] e = "TimeoutError" -> "QueryTimeoutError"
               [] e \in {"KeyError", "ValueError", "PydanticError"} -> "ConfigurationError"
               [] e \in {"ImportError", "ModuleNotFoundError"} -> "ToolLoadingError"
               [] OTHER -> "QueryProcessingError"
<1> DEFINE Default(c) == TranslateError(DefaultMappings, c)
           Mapped == {"ConnectionError", "TimeoutError", "KeyError", "ValueError",
                      "ImportError", "ModuleNotFoundError"}
<1>1. /\ \A c \in Classes \ Mapped : Default(c) = Default(Parent(c))
      /\ \A c \in Classes \intersect Mapped : Default(c) = DefaultMappings[c]
  BY TranslationClimbs DEF DefaultMappings, CreateDomainError, NeedsMore
<1>2. Default(Root) = "QueryProcessingError"
  <2>1. Root \in AllClasses /\ \A i \in DOMAIN Mro[Root] : Mro[Root][i] = Root
    BY MroEquation DEF AllClasses
  <2>2. Root \notin DOMAIN DefaultMappings  BY DEF Root, DefaultMappings
  <2>3. QED  BY <2>1, <2>2, NoneMapped
<1> HIDE DEF Default
<1>3. /\ Classes = Foreign1 \union Foreign2 \union Foreign3 \union Foreign4 \union DomainErrors
      /\ e \notin {"CancelledError", "GeneratorExit"}
  BY ClassesInTiers, KindsOfErrors
     DEF Tier1, Tier2, Tier3, Tier4, Tier5, DomainClasses, CaughtClasses
<1>4. Default("Exception") = "QueryProcessingError"
  BY <1>1, <1>2, <1>3, ParentsOfForeign DEF Foreign1
<1>5. \A c \in Foreign2 : Default(c) = IF c = "ValueError" THEN "ConfigurationError"
                                       ELSE IF c = "ImportError" THEN "ToolLoadingError"
                                       ELSE "QueryProcessingError"
  BY <1>1, <1>3, <1>4, ParentsOfForeign DEF Foreign2, DefaultMappings
<1>6. /\ Default("ConnectionError") = "ExternalServiceError"
      /\ Default("TimeoutError") = "QueryTimeoutError"
      /\ Default("KeyError") = "ConfigurationError"
      /\ Default("PydanticError") = "ConfigurationError"
      /\ Default("ModuleNotFoundError") = "ToolLoadingError"
  BY <1>1, <1>3, <1>5, ParentsOfForeign DEF Foreign2, Foreign3, DefaultMappings
<1>7. Default("ConnectionResetError") = "ExternalServiceError"
  BY <1>1, <1>3, <1>6, ParentsOfForeign DEF Foreign4
<1>8. QED
  BY <1>3, <1>4, <1>5, <1>6, <1>7
     DEF Default, ConnectionClasses, Foreign1, Foreign2, Foreign3, Foreign4

\* With the default mappings every error that a handler can raise is answered with
\* 400, 502 or 500 according to what it is, translated or not.
THEOREM DefaultStatuses ==
    ASSUME NEW e \in Classes, Caught(e)
    PROVE  LET error == IF e \in DomainErrors THEN e ELSE TranslateError(DefaultMappings, e)
           IN  /\ error \in DomainErrors
               /\ HttpStatus(error) =
                    IF IsA(e, "ValidationError") THEN 400
                    ELSE IF IsA(e, "ExternalServiceError") \/ IsA(e, "ConnectionError") THEN 502
                    ELSE 500
<1>1. DomainErrors \subseteq Classes  BY DEF DomainErrors
<1>2. CASE e \in DomainErrors
  <2>1. ~IsA(e, "ConnectionError")
    BY <1>2, KindsOfErrors
       DEF DomainClasses, ConnectionClasses, Domain2, Domain3, Domain4, Domain5
  <2>2. QED  BY <1>2, <2>1 DEF HttpStatus
<1>3. CASE e \notin DomainErrors
  <2> DEFINE error == TranslateError(DefaultMappings, e)
  <2>1. error = CASE e \in ConnectionClasses -> "ExternalServiceError"
               [] e = "TimeoutError" -> "QueryTimeoutError"
               [] e \in {"KeyError", "ValueError", "PydanticError"} -> "ConfigurationError"
               [] e \in {"ImportError", "ModuleNotFoundError"} -> "ToolLoadingError"
               [] OTHER -> "QueryProcessingError"
    BY <1>3, DefaultTranslations
  <2>2. /\ e \in ConnectionClasses => error = "ExternalServiceError"
        /\ e \notin ConnectionClasses =>
              error \in {"QueryTimeoutError", "ConfigurationError", "ToolLoadingError",
                         "QueryProcessingError"}
    BY <2>1 DEF ConnectionClasses
  <2> HIDE DEF error
  <2>3. /\ error \in DomainErrors
        /\ ~IsA(error, "ValidationError")
        /\ IsA(error, "ExternalServiceError") <=> e \in ConnectionClasses
    BY <2>2, <1>1, KindsOfErrors DEF DomainClasses, ExternalClasses, Domain3, Domain4
  <2>4. ~IsA(e, "ValidationError") /\ ~IsA(e, "ExternalServiceError")
    BY <1>3, KindsOfErrors DEF DomainClasses, ExternalClasses, Domain3, Domain4
  <2>5. IsA(e, "ConnectionError") <=> e \in ConnectionClasses  BY KindsOfErrors
  <2>6. QED  BY <1>3, <2>3, <2>4, <2>5 DEF HttpStatus, error
<1>4. QED  BY <1>2, <1>3

=============================================================================
