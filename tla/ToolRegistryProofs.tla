------------------------- MODULE ToolRegistryProofs -------------------------
(***************************************************************************)
(* What holds of the tool registry for every set of sources, whatever they *)
(* offer and however loads, starts and registrations overlap.              *)
(***************************************************************************)
EXTENDS ToolRegistry, WellFoundedInduction, TLAPS

-----------------------------------------------------------------------------
(* A bounded set of numbers has a greatest one *)

Less == {p \in Nat \X Nat : p[1] < p[2]}

LEMMA LessWellFounded == IsWellFoundedOn(Less, Nat)
  BY NatLessThanWellFounded DEF OpToRel, Less

\* The least upper bound of a set of numbers, which exists since < is well
\* founded, is in the set: one less would be a bound too.
LEMMA GreatestExists ==
    ASSUME NEW S \in SUBSET Nat, S # {}, NEW n \in Nat, \A i \in S : i <= n
    PROVE  \E i \in S : \A j \in S : j <= i
  <1> DEFINE B == {m \in Nat : \A i \in S : i <= m}
  <1>1. B # {} /\ B \subseteq Nat
    OBVIOUS
  <1>2. PICK m \in B : \A y \in B : <<y, m>> \notin Less
    <2> HIDE DEF B
    <2> QED
      BY <1>1, LessWellFounded, WFMin
  <1>3. m \in Nat /\ \A i \in S : i \in Nat /\ i <= m
    OBVIOUS
  <1>4. ASSUME m \notin S PROVE FALSE
    <2>1. \A i \in S : i < m
      BY <1>3, <1>4
    <2>2. PICK i \in S : i < m
      BY <2>1
    <2>3. m - 1 \in Nat
      BY <2>2, <1>3
    <2>4. \A j \in S : j <= m - 1
      BY <2>1, <1>3
    <2>5. m - 1 \in B
      BY <2>3, <2>4
    <2>6. <<m - 1, m>> \in Less
      BY <1>3, <2>3 DEF Less
    <2> QED
      BY <2>5, <2>6, <1>2
  <1> QED
    BY <1>3, <1>4

-----------------------------------------------------------------------------
(* Sources, tools and keys *)

LEMMA OfferedType ==
    ASSUME NEW s \in Sources, NEW t \in Offered(s)
    PROVE  t.name \in Names /\ t.form \in Forms
  <1>1. Offers[s] \in Seq(Tools)
    BY ToolAssumption DEF ToolAssumption
  <1>2. PICK i \in DOMAIN Offers[s] : t = Offers[s][i]
    BY DEF Offered
  <1>3. t \in Tools
    BY <1>1, <1>2
  <1> QED
    BY <1>3 DEF Tools

\* The key of a tool of a file is joined of a prefix and the name of the tool.
LEMMA KeyType ==
    ASSUME NEW s \in Sources, NEW t \in Offered(s)
    PROVE  /\ KeyOf(s, t) \in Keys
           /\ s \in Files => KeyOf(s, t) = Joined[<<PrefixOf[s], t.name>>] /\ KeyOf(s, t) # t.name
           /\ s \notin Files => KeyOf(s, t) = t.name
  <1>1. t.name \in Names
    BY OfferedType
  <1>2. s \in Files => <<PrefixOf[s], t.name>> \in Prefixes \X Names
    BY <1>1, ToolAssumption DEF ToolAssumption
  <1>3. \A x \in Prefixes \X Names : Joined[x] # x[2]
    BY ToolAssumption DEF ToolAssumption
  <1> QED
    BY <1>1, <1>2, <1>3 DEF KeyOf, Keys

LEMMA Origins ==
    /\ Sources \subseteq OriginSet
    /\ Files \subseteq Sources
    /\ "none" \notin Sources /\ "application" \notin Sources
    /\ "none" \in OriginSet /\ "application" \in OriginSet
    /\ \A s \in Sources : s \in Files <=> s \notin Modules
    /\ \A d \in Directories : FilesOf[d] \subseteq Files
  BY ToolAssumption DEF ToolAssumption, OriginSet, Sources

LEMMA TakenOffered ==
    ASSUME NEW s
    PROVE  TakenOf(s) \subseteq Offered(s) /\ ConfiguredOf(s) \subseteq Offered(s)
  <1>1. ASSUME NEW t \in TakenOf(s) PROVE t \in Offered(s)
    BY <1>1 DEF TakenOf, Offered
  <1> QED
    BY <1>1 DEF ConfiguredOf

\* Of a file that counts as loaded every marked tool is taken.
LEMMA AcceptedTaken ==
    ASSUME NEW f \in Files, Accepted(f), NEW t \in Offered(f), t.form # "plain"
    PROVE  t \in TakenOf(f)
  <1>1. PICK i \in DOMAIN Offers[f] : t = Offers[f][i]
    BY DEF Offered
  <1>2. Offers[f] \in Seq(Tools)
    BY ToolAssumption DEF ToolAssumption, Sources
  <1>3. \A j \in 1 .. i : j \in DOMAIN Offers[f]
    BY <1>2
  <1>4. \A j \in 1 .. i : Offers[f][j] \in Offered(f)
    BY <1>3 DEF Offered
  <1>5. \A j \in 1 .. i : Renamable(f, Offers[f][j])
    BY <1>4 DEF Accepted
  <1> QED
    BY <1>1, <1>5 DEF TakenOf, Registrable

\* What is registered of a file or a configured source has the key it is put under.
LEMMA TakenNamesakes ==
    /\ \A f \in Files : \A t \in TakenOf(f) : f \in Namesakes(KeyOf(f, t))
    /\ \A s \in Sources : \A t \in ConfiguredOf(s) : s \in Namesakes(KeyOf(s, t))
  <1>1. ASSUME NEW f \in Files, NEW t \in Offered(f), Renamable(f, t)
        PROVE  f \in Namesakes(KeyOf(f, t))
    <2>1. KeyOf(f, t) = Joined[<<PrefixOf[f], t.name>>] /\ KeyOf(f, t) # t.name
      BY KeyType, Origins
    <2>2. t.form # "callable"
      BY <1>1, <2>1 DEF Renamable
    <2> QED
      BY <2>1, <2>2 DEF Namesakes
  <1>2. ASSUME NEW f \in Files, NEW t \in TakenOf(f) PROVE Renamable(f, t)
    <2>1. PICK i \in DOMAIN Offers[f] : t = Offers[f][i] /\ \A j \in 1 .. i : Renamable(f, Offers[f][j])
      BY DEF TakenOf
    <2>2. Offers[f] \in Seq(Tools)
      BY ToolAssumption DEF ToolAssumption, Sources
    <2>3. i \in 1 .. i
      BY <2>2
    <2> QED
      BY <2>1, <2>3
  <1>3. ASSUME NEW s \in Sources, s \notin Files, NEW t \in ConfiguredOf(s)
        PROVE  s \in Namesakes(KeyOf(s, t))
    <2>1. s \in Modules /\ t \in Offered(s)
      BY <1>3, Origins, TakenOffered
    <2>2. t.form \notin {"decorated", "callable"} /\ t.form # "plain"
      BY <1>3, <2>1 DEF ConfiguredOf, IsList, Registrable
    <2>3. t.form = "module"
      BY <2>1, <2>2, OfferedType DEF Forms
    <2>4. KeyOf(s, t) = t.name
      BY <1>3, <2>1, KeyType
    <2> QED
      BY <2>1, <2>3, <2>4 DEF Namesakes
  <1>4. ASSUME NEW s \in Files, NEW t \in ConfiguredOf(s) PROVE s \in Namesakes(KeyOf(s, t))
    <2>1. t \in Offered(s)
      BY TakenOffered
    <2>2. Renamable(s, t)
      BY <1>4, Origins DEF ConfiguredOf
    <2> QED
      BY <1>1, <2>1, <2>2
  <1> QED
    BY <1>1, <1>2, <1>3, <1>4, TakenOffered

\* A key that a configured source fills goes to one that has it.
LEMMA ConfiguredEntry ==
    ASSUME NEW k \in Keys
    PROVE  \/ /\ PlacesFor(k) = {}
              /\ ConfiguredRegistry[k] = registry[k]
           \/ \E i \in PlacesFor(k) :
                /\ i \in DOMAIN Configured
                /\ Configured[i] \in Sources
                /\ ConfiguredRegistry[k] = [source |-> Configured[i], deps |-> {}]
                /\ Configured[i] \in Namesakes(k)
  <1>1. CASE PlacesFor(k) = {}
    BY <1>1 DEF ConfiguredRegistry
  <1>2. CASE PlacesFor(k) # {}
    <2>1. Configured \in Seq(Sources) /\ DOMAIN Configured = 1 .. Len(Configured)
          /\ Len(Configured) \in Nat
      BY ToolAssumption DEF ToolAssumption
    <2>2. PlacesFor(k) \subseteq DOMAIN Configured
      BY DEF PlacesFor
    <2>3. PlacesFor(k) \in SUBSET Nat /\ \A i \in PlacesFor(k) : i <= Len(Configured)
      BY <2>1, <2>2
    <2>4. \E i \in PlacesFor(k) : \A j \in PlacesFor(k) : j <= i
      BY <1>2, <2>1, <2>3, GreatestExists
    <2>5. PICK i \in PlacesFor(k) :
            i = CHOOSE m \in PlacesFor(k) : \A j \in PlacesFor(k) : j <= m
      BY <2>4
    <2>6. ConfiguredRegistry[k] = [source |-> Configured[i], deps |-> {}]
      BY <1>2, <2>5 DEF ConfiguredRegistry
    <2>7. i \in DOMAIN Configured /\ Configured[i] \in Sources
      BY <2>1, <2>2
    <2>8. PICK t \in ConfiguredOf(Configured[i]) : k = KeyOf(Configured[i], t)
      BY DEF PlacesFor, KeysFor
    <2>9. Configured[i] \in Namesakes(k)
      BY <2>7, <2>8, TakenNamesakes
    <2> QED
      BY <2>6, <2>7, <2>9
  <1> QED
    BY <1>1, <1>2

\* The same of a key that the load of a file fills.
LEMMA LoadedEntry ==
    ASSUME NEW f \in Files, NEW k \in Keys
    PROVE  \/ /\ k \notin KeysFor(f, TakenOf(f))
              /\ LoadedRegistry(f)[k] = registry[k]
           \/ /\ k \in KeysFor(f, TakenOf(f))
              /\ LoadedRegistry(f)[k] = [source |-> f, deps |-> {}]
              /\ f \in Namesakes(k)
  BY TakenNamesakes DEF LoadedRegistry, KeysFor

-----------------------------------------------------------------------------
(* Types *)

LEMMA InitType == Init => ToolTypeOK
  <1> SUFFICES ASSUME Init PROVE ToolTypeOK
    OBVIOUS
  <1> USE DEF Init
  <1>1. registry \in [Keys -> [source : OriginSet, deps : SUBSET Types]]
    <2>1. NoTool \in [source : OriginSet, deps : SUBSET Types]
      BY Origins DEF NoTool
    <2> QED
      BY <2>1
  <1>2. load \in [Loads -> [at : {"idle", "loading", "loaded", "nothing", "refused", "cancelled"},
                            left : SUBSET Files, accepted : SUBSET Files]]
        /\ \A l \in Loads : load[l].left \intersect load[l].accepted = {}
    BY DEF NotLoading
  <1>3. agent \in [Agents -> [at : {"idle", "loading", "ready", "cancelled"},
                              tools : SUBSET (Keys \X OriginSet)]]
    BY DEF NoAgent
  <1> QED
    BY <1>1, <1>2, <1>3 DEF ToolTypeOK

\* An entry of the registry, after any step, is the old one, or none, or a tool
\* of the application whose dependencies the container has, or a tool of a source
\* that has that key.
Changed(k) ==
    \/ registry'[k] = registry[k]
    \/ registry'[k] = NoTool
    \/ /\ "application" \in Namesakes(k)
       /\ \E D \in SUBSET types : registry'[k] = [source |-> "application", deps |-> D]
    \/ \E s \in Sources \intersect Namesakes(k) : registry'[k] = [source |-> s, deps |-> {}]

LEMMA Fields ==
    ASSUME NEW s, NEW D
    PROVE  [source |-> s, deps |-> D].source = s /\ [source |-> s, deps |-> D].deps = D
  OBVIOUS

LEMMA Entries ==
    ASSUME ToolTypeOK, [Next]_vars
    PROVE  /\ registry' = [k \in Keys |-> registry'[k]]
           /\ \A k \in Keys : Changed(k)
  <1> USE DEF ToolTypeOK
  <1>1. ASSUME NEW n \in Own, RegisterTool(n) \/ RegisterToolWithDependencies(n)
        PROVE  registry' = [k \in Keys |-> registry'[k]] /\ \A k \in Keys : Changed(k)
    <2>1. n \in Names /\ Injected[n] \subseteq Types
      BY ToolAssumption DEF ToolAssumption
    <2>2. PICK D \in SUBSET types :
            registry' = [registry EXCEPT ![n] = [source |-> "application", deps |-> D]]
      <3>1. CASE RegisterTool(n)
        BY <3>1 DEF RegisterTool
      <3>2. CASE RegisterToolWithDependencies(n)
        BY <3>2 DEF RegisterToolWithDependencies
      <3> QED
        BY <1>1, <3>1, <3>2
    <2>3. \A k \in Keys : k # n => registry'[k] = registry[k]
      BY <2>2
    <2>4. n \in Keys
      BY <2>1 DEF Keys
    <2>5. registry'[n] = [source |-> "application", deps |-> D]
      BY <2>2, <2>4
    <2>6. "application" \in Namesakes(n)
      BY DEF Namesakes
    <2> QED
      BY <2>2, <2>3, <2>5, <2>6 DEF Changed
  <1>2. ASSUME NEW k \in Keys, UnregisterTool(k)
        PROVE  registry' = [m \in Keys |-> registry'[m]] /\ \A m \in Keys : Changed(m)
    BY <1>2 DEF UnregisterTool, Changed
  <1>3. ASSUME NEW i \in Starts, InitializeDone(i)
        PROVE  registry' = [k \in Keys |-> registry'[k]] /\ \A k \in Keys : Changed(k)
    <2>1. registry' = ConfiguredRegistry
      BY <1>3 DEF InitializeDone
    <2> QED
      BY <2>1, ConfiguredEntry DEF ConfiguredRegistry, Changed
  <1>4. ASSUME NEW l \in Loads, NEW f \in Files, LoadFile(l, f)
        PROVE  registry' = [k \in Keys |-> registry'[k]] /\ \A k \in Keys : Changed(k)
    <2>1. registry' = LoadedRegistry(f) /\ f \in Sources
      BY <1>4, Origins DEF LoadFile
    <2>2. \A k \in Keys : Changed(k)
      BY <2>1, LoadedEntry DEF Changed
    <2>3. registry' = [k \in Keys |-> registry'[k]]
      BY <2>1 DEF LoadedRegistry
    <2> QED
      BY <2>2, <2>3
  <1>5. CASE UNCHANGED registry
    BY <1>5 DEF Changed
  <1>6. \/ \E t \in Types : RegisterType(t)
        \/ \E i \in Starts : InitializeStart(i) \/ InitializeCancelled(i)
        \/ \E l \in Loads, d \in Directories : LoadStart(l, d)
        \/ \E l \in Loads : LoadCancelled(l)
        \/ \E a \in Agents : AgentStart(a) \/ AgentReady(a) \/ AgentCancelled(a)
        \/ UNCHANGED vars
        => UNCHANGED registry
    BY DEF RegisterType, InitializeStart, InitializeCancelled, LoadStart, LoadCancelled,
           AgentStart, AgentReady, AgentCancelled, vars
  <1> QED
    BY <1>1, <1>2, <1>3, <1>4, <1>5, <1>6 DEF Next

LEMMA RegistryType ==
    ASSUME ToolTypeOK, [Next]_vars
    PROVE  registry' \in [Keys -> [source : OriginSet, deps : SUBSET Types]]
  <1>1. ASSUME NEW k \in Keys PROVE registry'[k] \in [source : OriginSet, deps : SUBSET Types]
    <2>1. Changed(k)
      BY Entries
    <2>2. types \subseteq Types /\ registry[k] \in [source : OriginSet, deps : SUBSET Types]
      BY DEF ToolTypeOK
    <2>3. ASSUME NEW D \in SUBSET types
          PROVE  [source |-> "application", deps |-> D] \in [source : OriginSet, deps : SUBSET Types]
      BY <2>2, Origins
    <2>4. ASSUME NEW s \in Sources
          PROVE  [source |-> s, deps |-> {}] \in [source : OriginSet, deps : SUBSET Types]
      BY Origins
    <2>5. NoTool \in [source : OriginSet, deps : SUBSET Types]
      BY Origins DEF NoTool
    <2> QED
      BY <2>1, <2>2, <2>3, <2>4, <2>5 DEF Changed
  <1> QED
    BY <1>1, Entries

LoadType == [at : {"idle", "loading", "loaded", "nothing", "refused", "cancelled"},
             left : SUBSET Files, accepted : SUBSET Files]

LEMMA LoadsType ==
    ASSUME ToolTypeOK, [Next]_vars
    PROVE  /\ load' \in [Loads -> LoadType]
           /\ \A l \in Loads : load'[l].left \intersect load'[l].accepted = {}
  <1>1. load \in [Loads -> LoadType] /\ \A l \in Loads : load[l].left \intersect load[l].accepted = {}
    BY DEF ToolTypeOK, LoadType
  <1>2. ASSUME NEW l \in Loads, NEW x \in LoadType, x.left \intersect x.accepted = {},
               load' = [load EXCEPT ![l] = x]
        PROVE  /\ load' \in [Loads -> LoadType]
               /\ \A m \in Loads : load'[m].left \intersect load'[m].accepted = {}
    BY <1>1, <1>2
  <1>3. ASSUME NEW l \in Loads, NEW d \in Directories, LoadStart(l, d)
        PROVE  /\ load' \in [Loads -> LoadType]
               /\ \A m \in Loads : load'[m].left \intersect load'[m].accepted = {}
    <2>1. CASE d \in Allowed
      <3>1. FilesOf[d] \subseteq Files
        BY Origins
      <3>2. [at |-> Stage(FilesOf[d], {}), left |-> FilesOf[d], accepted |-> {}] \in LoadType
        BY <3>1 DEF LoadType, Stage
      <3> QED
        BY <1>2, <1>3, <2>1, <3>2 DEF LoadStart
    <2>2. CASE d \notin Allowed
      <3>1. [NotLoading EXCEPT !.at = "refused"] = [at |-> "refused", left |-> {}, accepted |-> {}]
        BY DEF NotLoading
      <3>2. [at |-> "refused", left |-> {}, accepted |-> {}] \in LoadType
        BY DEF LoadType
      <3> QED
        BY <1>2, <1>3, <2>2, <3>1, <3>2 DEF LoadStart
    <2> QED
      BY <2>1, <2>2
  <1>4. ASSUME NEW l \in Loads, NEW f \in Files, LoadFile(l, f)
        PROVE  /\ load' \in [Loads -> LoadType]
               /\ \A m \in Loads : load'[m].left \intersect load'[m].accepted = {}
    <2>1. load[l].left \subseteq Files /\ load[l].accepted \subseteq Files
          /\ load[l].left \intersect load[l].accepted = {}
      BY <1>1 DEF LoadType
    <2>2. Progress(l, f) \in LoadType /\ Progress(l, f).left \intersect Progress(l, f).accepted = {}
      BY <2>1 DEF Progress, LoadType, Stage
    <2> QED
      BY <1>2, <1>4, <2>2 DEF LoadFile
  <1>5. ASSUME NEW l \in Loads, LoadCancelled(l)
        PROVE  /\ load' \in [Loads -> LoadType]
               /\ \A m \in Loads : load'[m].left \intersect load'[m].accepted = {}
    <2>1. load' = [load EXCEPT ![l] = [load[l] EXCEPT !.at = "cancelled"]]
      BY <1>1, <1>5 DEF LoadCancelled
    <2>2. [load[l] EXCEPT !.at = "cancelled"] \in LoadType
          /\ [load[l] EXCEPT !.at = "cancelled"].left \intersect
                 [load[l] EXCEPT !.at = "cancelled"].accepted = {}
      BY <1>1 DEF LoadType
    <2> QED
      BY <1>2, <2>1, <2>2
  <1>6. CASE UNCHANGED load
    BY <1>1, <1>6
  <1>7. \/ \E n \in Own : RegisterTool(n) \/ RegisterToolWithDependencies(n)
        \/ \E t \in Types : RegisterType(t)
        \/ \E k \in Keys : UnregisterTool(k)
        \/ \E i \in Starts : InitializeStart(i) \/ InitializeDone(i) \/ InitializeCancelled(i)
        \/ \E a \in Agents : AgentStart(a) \/ AgentReady(a) \/ AgentCancelled(a)
        \/ UNCHANGED vars
        => UNCHANGED load
    BY DEF RegisterTool, RegisterToolWithDependencies, RegisterType, UnregisterTool,
           InitializeStart, InitializeDone, InitializeCancelled, AgentStart, AgentReady,
           AgentCancelled, vars
  <1> QED
    BY <1>3, <1>4, <1>5, <1>6, <1>7 DEF Next

AgentType == [at : {"idle", "loading", "ready", "cancelled"}, tools : SUBSET (Keys \X OriginSet)]

LEMMA AgentsType ==
    ASSUME ToolTypeOK, [Next]_vars
    PROVE  agent' \in [Agents -> AgentType]
  <1>1. agent \in [Agents -> AgentType]
    BY DEF ToolTypeOK, AgentType
  <1>2. ASSUME NEW a \in Agents, AgentStart(a) PROVE agent' \in [Agents -> AgentType]
    <2> DEFINE N == {<<k, registry[k].source>> : k \in {k \in Keys : Registered(k)}}
    <2>1. agent' = [agent EXCEPT ![a] = [at |-> "loading", tools |-> N]]
      BY <1>2 DEF AgentStart
    <2>2. N \subseteq Keys \X OriginSet
      BY DEF ToolTypeOK
    <2> HIDE DEF N
    <2> QED
      BY <1>1, <2>1, <2>2 DEF AgentType
  <1>3. ASSUME NEW a \in Agents, AgentReady(a) PROVE agent' \in [Agents -> AgentType]
    <2> DEFINE Of(i) == {<<KeyOf(Configured[i], t), Configured[i]>> : t \in Reloaded(Configured[i])}
               N == UNION {Of(i) : i \in DOMAIN Configured}
    <2>1. agent' = [agent EXCEPT ![a].at = "ready", ![a].tools = @ \union N]
      BY <1>3 DEF AgentReady
    <2>2. N \subseteq Keys \X OriginSet
      <3>1. ASSUME NEW i \in DOMAIN Configured, NEW t \in Reloaded(Configured[i])
            PROVE  <<KeyOf(Configured[i], t), Configured[i]>> \in Keys \X OriginSet
        <4>1. Configured[i] \in Sources
          BY ToolAssumption DEF ToolAssumption
        <4>2. t \in Offered(Configured[i])
          BY DEF Reloaded
        <4> QED
          BY <4>1, <4>2, KeyType, Origins
      <3> QED
        BY <3>1
    <2> HIDE DEF N
    <2> QED
      BY <1>1, <2>1, <2>2 DEF AgentType
  <1>4. ASSUME NEW a \in Agents, AgentCancelled(a) PROVE agent' \in [Agents -> AgentType]
    <2>1. [at |-> "cancelled", tools |-> {}] \in AgentType
      BY DEF AgentType
    <2> QED
      BY <1>1, <1>4, <2>1 DEF AgentCancelled
  <1>5. CASE UNCHANGED agent
    BY <1>1, <1>5
  <1>6. \/ \E n \in Own : RegisterTool(n) \/ RegisterToolWithDependencies(n)
        \/ \E t \in Types : RegisterType(t)
        \/ \E k \in Keys : UnregisterTool(k)
        \/ \E i \in Starts : InitializeStart(i) \/ InitializeDone(i) \/ InitializeCancelled(i)
        \/ \E l \in Loads, d \in Directories : LoadStart(l, d)
        \/ \E l \in Loads, f \in Files : LoadFile(l, f)
        \/ \E l \in Loads : LoadCancelled(l)
        \/ UNCHANGED vars
        => UNCHANGED agent
    BY DEF RegisterTool, RegisterToolWithDependencies, RegisterType, UnregisterTool,
           InitializeStart, InitializeDone, InitializeCancelled, LoadStart, LoadFile,
           LoadCancelled, vars
  <1> QED
    BY <1>2, <1>3, <1>4, <1>5, <1>6 DEF Next

LEMMA OthersType ==
    ASSUME ToolTypeOK, [Next]_vars
    PROVE  /\ types' \subseteq Types
           /\ initialized' \in BOOLEAN
           /\ start' \in [Starts -> {"idle", "loading", "done", "cancelled"}]
           /\ removed' \subseteq Keys
  <1>1. /\ types \subseteq Types
        /\ initialized \in BOOLEAN
        /\ start \in [Starts -> {"idle", "loading", "done", "cancelled"}]
        /\ removed \subseteq Keys
    BY DEF ToolTypeOK
  <1>2. CASE Next
    BY <1>1, <1>2 DEF Next, RegisterTool, RegisterToolWithDependencies, RegisterType,
       UnregisterTool, InitializeStart, InitializeDone, InitializeCancelled, LoadStart, LoadFile,
       LoadCancelled, AgentStart, AgentReady, AgentCancelled
  <1>3. CASE UNCHANGED vars
    BY <1>1, <1>3 DEF vars
  <1> QED
    BY <1>2, <1>3

LEMMA TypeStep == ToolTypeOK /\ [Next]_vars => ToolTypeOK'
  BY RegistryType, LoadsType, AgentsType, OthersType DEF ToolTypeOK, LoadType, AgentType

\* Every variable of the registry, the loads and the agents keeps its type.
THEOREM ToolsTypeCorrect == ToolSpec => []ToolTypeOK
  BY InitType, TypeStep, PTL DEF ToolSpec

-----------------------------------------------------------------------------
(* Who takes the place of what is registered, and its dependencies *)

\* What is registered is dropped only by unregistering it.
LEMMA OnlyUnregisteredGo ==
    ASSUME ToolTypeOK, [Next]_vars, NEW k \in Keys, Registered(k), registry'[k] = NoTool
    PROVE  UnregisterTool(k)
  <1>1. registry[k] # NoTool
    BY DEF Registered, NoTool
  <1>2. ASSUME NEW m \in Keys, UnregisterTool(m) PROVE UnregisterTool(k)
    <2>1. m = k
      BY <1>1, <1>2 DEF UnregisterTool, ToolTypeOK
    <2> QED
      BY <1>2, <2>1 DEF UnregisterTool
  <1>3. ASSUME NEW n \in Own, RegisterTool(n) \/ RegisterToolWithDependencies(n) PROVE FALSE
    <2>1. PICK D : registry' = [registry EXCEPT ![n] =
                                   [source |-> "application", deps |-> D]]
      BY <1>3 DEF RegisterTool, RegisterToolWithDependencies
    <2>2. registry'[k] = registry[k] \/ registry'[k].source = "application"
      BY <2>1 DEF ToolTypeOK
    <2> QED
      BY <2>2, <1>1 DEF NoTool
  <1>4. ASSUME NEW i \in Starts, InitializeDone(i) PROVE FALSE
    <2>1. \/ registry'[k] = registry[k]
          \/ \E s \in Sources : registry'[k] = [source |-> s, deps |-> {}]
      BY <1>4, ConfiguredEntry DEF InitializeDone
    <2>2. ASSUME NEW s \in Sources, registry'[k] = [source |-> s, deps |-> {}] PROVE FALSE
      <3>1. s = "none"
        BY <2>2, Fields DEF NoTool
      <3> QED
        BY <3>1, Origins
    <2> QED
      BY <2>1, <2>2, <1>1
  <1>5. ASSUME NEW l \in Loads, NEW f \in Files, LoadFile(l, f) PROVE FALSE
    <2>1. registry'[k] = registry[k] \/ registry'[k] = [source |-> f, deps |-> {}]
      BY <1>5, LoadedEntry DEF LoadFile
    <2> QED
      BY <2>1, <1>1, Origins DEF NoTool
  <1>6. \/ \E t \in Types : RegisterType(t)
        \/ \E i \in Starts : InitializeStart(i) \/ InitializeCancelled(i)
        \/ \E l \in Loads, d \in Directories : LoadStart(l, d)
        \/ \E l \in Loads : LoadCancelled(l)
        \/ \E a \in Agents : AgentStart(a) \/ AgentReady(a) \/ AgentCancelled(a)
        \/ UNCHANGED vars
        => registry'[k] = registry[k]
    BY DEF RegisterType, InitializeStart, InitializeCancelled, LoadStart, LoadCancelled,
           AgentStart, AgentReady, AgentCancelled, vars
  <1> QED
    BY <1>1, <1>2, <1>3, <1>4, <1>5, <1>6 DEF Next

LEMMA DisplaceStep == ToolTypeOK /\ [Next]_vars =>
    \A k \in Keys : Registered(k) =>
        \/ UnregisterTool(k)
        \/ registry'[k] = registry[k]
        \/ registry'[k].source \in Namesakes(k)
  <1> SUFFICES ASSUME ToolTypeOK, [Next]_vars, NEW k \in Keys, Registered(k),
                      registry'[k] # registry[k], registry'[k] # NoTool
               PROVE  registry'[k].source \in Namesakes(k)
    BY OnlyUnregisteredGo
  <1>1. Changed(k)
    BY Entries
  <1>2. ASSUME NEW o \in Namesakes(k), NEW D, registry'[k] = [source |-> o, deps |-> D]
        PROVE  registry'[k].source \in Namesakes(k)
    BY <1>2, Fields
  <1> QED
    BY <1>1, <1>2 DEF Changed

\* No tool is displaced but by one of the very key, whichever loads, starts and
\* registrations run in which order, and whatever prefixes and names are joined to.
THEOREM DisplacedByNamesakes == ToolSpec => OnlyNamesakesDisplace
  BY DisplaceStep, ToolsTypeCorrect, PTL DEF ToolSpec, OnlyNamesakesDisplace

LEMMA TypesGrow == [Next]_vars => types \subseteq types'
  BY DEF Next, RegisterTool, RegisterToolWithDependencies, RegisterType, UnregisterTool,
     InitializeStart, InitializeDone, InitializeCancelled, LoadStart, LoadFile, LoadCancelled,
     AgentStart, AgentReady, AgentCancelled, vars

LEMMA ValidationStep == ToolTypeOK /\ ValidationPasses /\ [Next]_vars => ValidationPasses'
  <1> SUFFICES ASSUME ToolTypeOK, ValidationPasses, [Next]_vars, NEW k \in Keys
               PROVE  registry'[k].deps \subseteq types'
    BY DEF ValidationPasses, ValidateToolDependencies, Keys
  <1>1. Changed(k) /\ types \subseteq types'
    BY Entries, TypesGrow
  <1>2. registry[k].deps \subseteq types
    BY DEF ValidationPasses, ValidateToolDependencies
  <1>3. CASE registry'[k] = registry[k]
    BY <1>1, <1>2, <1>3
  <1>4. CASE registry'[k] = NoTool
    BY <1>4, Fields DEF NoTool
  <1>5. ASSUME NEW D \in SUBSET types, registry'[k] = [source |-> "application", deps |-> D]
        PROVE  registry'[k].deps \subseteq types'
    BY <1>1, <1>5, Fields
  <1>6. ASSUME NEW s \in Sources, registry'[k] = [source |-> s, deps |-> {}]
        PROVE  registry'[k].deps \subseteq types'
    BY <1>6, Fields
  <1> QED
    BY <1>1, <1>3, <1>4, <1>5, <1>6 DEF Changed

\* A registry used through its manager never fails the validation of its tools.
THEOREM ValidationCorrect == ToolSpec => []ValidationPasses
  <1>1. Init => ValidationPasses
    BY DEF Init, ValidationPasses, ValidateToolDependencies, NoTool
  <1> QED
    BY <1>1, ValidationStep, ToolsTypeCorrect, PTL DEF ToolSpec

-----------------------------------------------------------------------------
(* Tools that were loaded stay *)

\* A key in use, or unregistered, is so for good.
Kept(k) == Registered(k) \/ k \in removed

LEMMA KeptStays ==
    ASSUME ToolTypeOK, [Next]_vars, NEW k \in Keys, Kept(k)
    PROVE  Kept(k)'
  <1>1. removed \subseteq removed'
    BY DEF Next, RegisterTool, RegisterToolWithDependencies, RegisterType, UnregisterTool,
       InitializeStart, InitializeDone, InitializeCancelled, LoadStart, LoadFile, LoadCancelled,
       AgentStart, AgentReady, AgentCancelled, vars
  <1>2. Changed(k)
    BY Entries
  <1>3. ASSUME registry'[k] = NoTool, Registered(k) PROVE k \in removed'
    BY <1>3, OnlyUnregisteredGo DEF UnregisterTool
  <1>4. CASE k \in removed
    BY <1>1, <1>4 DEF Kept
  <1>5. CASE Registered(k)
    <2>1. Registered(k)' \/ registry'[k] = NoTool
      <3>1. CASE registry'[k] = registry[k]
        BY <1>5, <3>1 DEF Registered
      <3>2. ASSUME NEW D \in SUBSET types, registry'[k] = [source |-> "application", deps |-> D]
            PROVE  registry'[k].source # "none"
        BY <3>2, Fields
      <3>3. ASSUME NEW s \in Sources, registry'[k] = [source |-> s, deps |-> {}]
            PROVE  registry'[k].source # "none"
        BY <3>3, Fields, Origins
      <3> QED
        BY <1>2, <3>1, <3>2, <3>3 DEF Changed, Registered
    <2> QED
      BY <2>1, <1>3, <1>5 DEF Kept
  <1> QED
    BY <1>4, <1>5 DEF Kept

AcceptedKept ==
    \A l \in Loads : \A f \in load[l].accepted : \A t \in Offered(f) :
        t.form # "plain" => Kept(KeyOf(f, t))

LEMMA AcceptedMeans == ToolTypeOK => (AcceptedStay <=> AcceptedKept)
  <1> SUFFICES ASSUME ToolTypeOK,
                      NEW l \in Loads, NEW f \in load[l].accepted, NEW t \in Offered(f)
               PROVE  KeyOf(f, t) = Joined[<<PrefixOf[f], t.name>>]
    BY DEF AcceptedStay, AcceptedKept, Kept
  <1>1. f \in Files
    BY DEF ToolTypeOK
  <1> QED
    BY <1>1, KeyType, Origins

\* A tool that the load of a file takes is registered by it.
LEMMA TakenRegistered ==
    ASSUME ToolTypeOK, NEW f \in Files, NEW t \in TakenOf(f), registry' = LoadedRegistry(f)
    PROVE  KeyOf(f, t) \in Keys /\ Kept(KeyOf(f, t))'
  <1>1. t \in Offered(f) /\ f \in Sources
    BY TakenOffered, Origins
  <1>2. KeyOf(f, t) \in Keys
    BY <1>1, KeyType
  <1>3. KeyOf(f, t) \in KeysFor(f, TakenOf(f))
    BY DEF KeysFor
  <1>4. registry'[KeyOf(f, t)] = [source |-> f, deps |-> {}]
    BY <1>2, <1>3, LoadedEntry
  <1>5. registry'[KeyOf(f, t)].source # "none"
    BY <1>1, <1>4, Fields, Origins
  <1> QED
    BY <1>2, <1>5 DEF Kept, Registered, KeyOf

LEMMA AcceptedStep == ToolTypeOK /\ AcceptedKept /\ [Next]_vars => AcceptedKept'
  <1> SUFFICES ASSUME ToolTypeOK, AcceptedKept, [Next]_vars, NEW l \in Loads,
                      NEW f \in load'[l].accepted, NEW t \in Offered(f), t.form # "plain"
               PROVE  Kept(KeyOf(f, t))'
    BY DEF AcceptedKept, Offered, KeyOf
  <1>1. ToolTypeOK'
    BY TypeStep
  <1>2. f \in Files /\ f \in Sources
    BY <1>1, Origins DEF ToolTypeOK
  <1>3. KeyOf(f, t) \in Keys
    BY <1>2, KeyType
  <1>4. CASE f \in load[l].accepted
    <2>1. Kept(KeyOf(f, t))
      BY <1>4 DEF AcceptedKept
    <2> QED
      BY <1>3, <2>1, KeptStays
  <1>5. CASE f \notin load[l].accepted
    <2>1. PICK g \in Files : LoadFile(l, g)
      <3>1. ASSUME NEW m \in Loads, NEW d \in Directories, LoadStart(m, d)
            PROVE  load'[l].accepted \subseteq load[l].accepted
        BY <3>1 DEF LoadStart, ToolTypeOK, NotLoading
      <3>2. ASSUME NEW m \in Loads, LoadCancelled(m)
            PROVE  load'[l].accepted \subseteq load[l].accepted
        BY <3>2 DEF LoadCancelled, ToolTypeOK
      <3>3. ASSUME NEW m \in Loads, NEW g \in Files, LoadFile(m, g), m # l
            PROVE  load'[l].accepted \subseteq load[l].accepted
        BY <3>3 DEF LoadFile, ToolTypeOK
      <3>4. \/ \E n \in Own : RegisterTool(n) \/ RegisterToolWithDependencies(n)
            \/ \E u \in Types : RegisterType(u)
            \/ \E k \in Keys : UnregisterTool(k)
            \/ \E i \in Starts : InitializeStart(i) \/ InitializeDone(i) \/ InitializeCancelled(i)
            \/ \E a \in Agents : AgentStart(a) \/ AgentReady(a) \/ AgentCancelled(a)
            \/ UNCHANGED vars
            => UNCHANGED load
        BY DEF RegisterTool, RegisterToolWithDependencies, RegisterType, UnregisterTool,
               InitializeStart, InitializeDone, InitializeCancelled, AgentStart, AgentReady,
               AgentCancelled, vars
      <3> QED
        BY <1>5, <3>1, <3>2, <3>3, <3>4 DEF Next
    <2>2. load'[l] = Progress(l, g) /\ registry' = LoadedRegistry(g)
      BY <2>1 DEF LoadFile, ToolTypeOK
    <2>3. f = g /\ Accepted(f)
      BY <1>5, <2>2 DEF Progress
    <2>4. t \in TakenOf(f)
      BY <1>2, <2>3, AcceptedTaken
    <2> QED
      BY <1>2, <2>2, <2>3, <2>4, TakenRegistered
  <1> QED
    BY <1>4, <1>5

\* The tools of a file that a directory load counted stay registered until their
\* keys are unregistered.
THEOREM AcceptedCorrect == ToolSpec => []AcceptedStay
  <1>1. Init => AcceptedKept
    BY DEF Init, AcceptedKept, NotLoading
  <1>2. ToolSpec => []AcceptedKept
    BY <1>1, AcceptedStep, ToolsTypeCorrect, PTL DEF ToolSpec
  <1> QED
    BY <1>2, AcceptedMeans, ToolsTypeCorrect, PTL

-----------------------------------------------------------------------------
(* Agents and configured tools *)

\* An agent has a tool under k, or comes after the removal of the key.
Has(a, k) == k \in removed \/ \E o \in OriginSet : <<k, o>> \in agent[a].tools

\* Once a start has registered the configured tools, their keys are kept, and an
\* agent that is created since then has read what is under them.
ConfiguredInv ==
    /\ initialized => \A i \in DOMAIN Configured : \A t \in ConfiguredOf(Configured[i]) :
                          Kept(KeyOf(Configured[i], t))
    /\ \A a \in Agents : agent[a].at \in {"loading", "ready"} =>
         \A i \in DOMAIN Configured : \A t \in ConfiguredOf(Configured[i]) :
             Has(a, KeyOf(Configured[i], t))

LEMMA ConfiguredType ==
    ASSUME NEW i \in DOMAIN Configured, NEW t \in ConfiguredOf(Configured[i])
    PROVE  /\ Configured[i] \in Sources
           /\ t \in Offered(Configured[i])
           /\ KeyOf(Configured[i], t) \in Keys
  <1>1. Configured[i] \in Sources
    BY ToolAssumption DEF ToolAssumption
  <1>2. t \in Offered(Configured[i])
    BY TakenOffered
  <1> QED
    BY <1>1, <1>2, KeyType

\* The end of a start fills the keys of all that it registers.
LEMMA StartRegisters ==
    ASSUME ToolTypeOK, registry' = ConfiguredRegistry,
           NEW i \in DOMAIN Configured, NEW t \in ConfiguredOf(Configured[i])
    PROVE  Kept(KeyOf(Configured[i], t))'
  <1> DEFINE k == KeyOf(Configured[i], t)
  <1>1. k \in Keys
    BY ConfiguredType
  <1>2. i \in PlacesFor(k)
    BY DEF PlacesFor, KeysFor
  <1>3. PICK s \in Sources : ConfiguredRegistry[k] = [source |-> s, deps |-> {}]
    BY <1>1, <1>2, ConfiguredEntry
  <1>4. registry'[k].source # "none"
    BY <1>3, Fields, Origins
  <1> QED
    BY <1>4 DEF Kept, Registered, KeyOf

LEMMA InitializedChanges ==
    ASSUME [Next]_vars, initialized'
    PROVE  initialized \/ registry' = ConfiguredRegistry
  BY DEF Next, RegisterTool, RegisterToolWithDependencies, RegisterType, UnregisterTool,
     InitializeStart, InitializeDone, InitializeCancelled, LoadStart, LoadFile, LoadCancelled,
     AgentStart, AgentReady, AgentCancelled, vars

LEMMA RemovedGrows == [Next]_vars => removed \subseteq removed'
  BY DEF Next, RegisterTool, RegisterToolWithDependencies, RegisterType, UnregisterTool,
     InitializeStart, InitializeDone, InitializeCancelled, LoadStart, LoadFile, LoadCancelled,
     AgentStart, AgentReady, AgentCancelled, vars

\* What an agent has of tools only grows while it is created.
LEMMA AgentChanges ==
    ASSUME ToolTypeOK, [Next]_vars, NEW a \in Agents, agent'[a].at \in {"loading", "ready"}
    PROVE  \/ agent[a].at \in {"loading", "ready"} /\ agent[a].tools \subseteq agent'[a].tools
           \/ /\ initialized /\ registry' = registry
              /\ agent'[a].tools = {<<k, registry[k].source>> : k \in {k \in Keys : Registered(k)}}
  <1>1. ASSUME NEW b \in Agents, AgentStart(b) \/ AgentReady(b) \/ AgentCancelled(b), b # a
        PROVE  agent'[a] = agent[a]
    BY <1>1 DEF AgentStart, AgentReady, AgentCancelled, ToolTypeOK
  <1>2. CASE AgentStart(a)
    BY <1>2 DEF AgentStart, ToolTypeOK
  <1>3. CASE AgentReady(a)
    BY <1>3 DEF AgentReady, ToolTypeOK
  <1>4. CASE AgentCancelled(a)
    BY <1>4 DEF AgentCancelled, ToolTypeOK
  <1>5. \/ \E n \in Own : RegisterTool(n) \/ RegisterToolWithDependencies(n)
        \/ \E t \in Types : RegisterType(t)
        \/ \E k \in Keys : UnregisterTool(k)
        \/ \E i \in Starts : InitializeStart(i) \/ InitializeDone(i) \/ InitializeCancelled(i)
        \/ \E l \in Loads, d \in Directories : LoadStart(l, d)
        \/ \E l \in Loads, f \in Files : LoadFile(l, f)
        \/ \E l \in Loads : LoadCancelled(l)
        \/ UNCHANGED vars
        => UNCHANGED agent
    BY DEF RegisterTool, RegisterToolWithDependencies, RegisterType, UnregisterTool,
           InitializeStart, InitializeDone, InitializeCancelled, LoadStart, LoadFile,
           LoadCancelled, vars
  <1> QED
    BY <1>1, <1>2, <1>3, <1>4, <1>5 DEF Next

LEMMA ConfiguredStep == ToolTypeOK /\ ConfiguredInv /\ [Next]_vars => ConfiguredInv'
  <1> SUFFICES ASSUME ToolTypeOK, ConfiguredInv, [Next]_vars PROVE ConfiguredInv'
    OBVIOUS
  <1>1. ASSUME initialized', NEW i \in DOMAIN Configured, NEW t \in ConfiguredOf(Configured[i])
        PROVE  Kept(KeyOf(Configured[i], t))'
    <2>1. CASE initialized
      BY <2>1, ConfiguredType, KeptStays DEF ConfiguredInv
    <2>2. CASE registry' = ConfiguredRegistry
      BY <2>2, StartRegisters
    <2> QED
      BY <1>1, <2>1, <2>2, InitializedChanges
  <1>2. ASSUME NEW a \in Agents, agent'[a].at \in {"loading", "ready"},
               NEW i \in DOMAIN Configured, NEW t \in ConfiguredOf(Configured[i])
        PROVE  Has(a, KeyOf(Configured[i], t))'
    <2>1. CASE agent[a].at \in {"loading", "ready"} /\ agent[a].tools \subseteq agent'[a].tools
      <3>1. Has(a, KeyOf(Configured[i], t))
        BY <2>1 DEF ConfiguredInv
      <3> QED
        BY <2>1, <3>1, RemovedGrows DEF Has, KeyOf
    <2>2. CASE initialized /\ agent'[a].tools = {<<k, registry[k].source>> : k \in {k \in Keys : Registered(k)}}
      <3>1. Kept(KeyOf(Configured[i], t))
        BY <2>2 DEF ConfiguredInv
      <3>2. KeyOf(Configured[i], t) \in Keys
        BY ConfiguredType
      <3>3. CASE KeyOf(Configured[i], t) \in removed
        BY <3>3, RemovedGrows DEF Has, KeyOf
      <3>4. CASE Registered(KeyOf(Configured[i], t))
        <4>1. registry[KeyOf(Configured[i], t)].source \in OriginSet
          BY <3>2 DEF ToolTypeOK
        <4> QED
          BY <2>2, <3>2, <3>4, <4>1 DEF Has, KeyOf
      <3> QED
        BY <3>1, <3>3, <3>4 DEF Kept
    <2> QED
      BY <1>2, <2>1, <2>2, AgentChanges
  <1> QED
    BY <1>1, <1>2 DEF ConfiguredInv, ConfiguredOf, Offered, KeyOf

\* A configured tool is either loaded again for each agent, or a module in the registry.
LEMMA ServedOneWay ==
    ASSUME NEW i \in DOMAIN Configured, NEW t \in Offered(Configured[i])
    PROVE  \/ t \in Reloaded(Configured[i])
           \/ /\ t \in ConfiguredOf(Configured[i])
              /\ Configured[i] \in Modules /\ t.form = "module"
  <1> DEFINE s == Configured[i]
  <1>1. s \in Sources
    BY ToolAssumption DEF ToolAssumption
  <1>2. CASE s \notin Modules \/ t.form # "module"
    BY <1>2 DEF Reloaded
  <1>3. CASE s \in Modules /\ t.form = "module"
    <2>1. PICK j \in DOMAIN Offers[s] : t = Offers[s][j]
      BY DEF Offered
    <2>2. DOMAIN Offers[s] = {j}
      BY <1>1, <1>3, <2>1, ToolAssumption DEF ToolAssumption
    <2>3. \A u \in Offered(s) : u = t
      BY <2>1, <2>2 DEF Offered
    <2>4. ~IsList(s)
      BY <1>3, <2>3 DEF IsList
    <2>5. t \in ConfiguredOf(s)
      BY <1>3, <2>4 DEF ConfiguredOf, Registrable, Renamable
    <2> QED
      BY <1>3, <2>5
  <1> QED
    BY <1>2, <1>3

\* What an agent has of a configured tool.
Served(a, i, t) ==
    \/ <<KeyOf(Configured[i], t), Configured[i]>> \in agent[a].tools
    \/ Configured[i] \in Modules /\ t.form = "module" /\ Has(a, KeyOf(Configured[i], t))

LEMMA ServedMeans ==
    AgentsServeConfigured <=> \A a \in Agents : agent[a].at = "ready" =>
        \A i \in DOMAIN Configured : \A t \in Offered(Configured[i]) : Served(a, i, t)
  BY DEF AgentsServeConfigured, Served, Has

LEMMA ServeStep ==
    ToolTypeOK /\ ConfiguredInv /\ AgentsServeConfigured /\ [Next]_vars => AgentsServeConfigured'
  <1> SUFFICES ASSUME ToolTypeOK, ConfiguredInv, AgentsServeConfigured, [Next]_vars,
                      NEW a \in Agents, agent'[a].at = "ready",
                      NEW i \in DOMAIN Configured, NEW t \in Offered(Configured[i])
               PROVE  Served(a, i, t)'
    BY DEF AgentsServeConfigured, Served, Has, Offered, KeyOf
  <1>1. removed \subseteq removed'
    BY RemovedGrows
  <1>2. CASE AgentReady(a)
    <2> DEFINE Of(j) == {<<KeyOf(Configured[j], u), Configured[j]>> : u \in Reloaded(Configured[j])}
               N == UNION {Of(j) : j \in DOMAIN Configured}
    <2>1. agent[a].at = "loading" /\ agent'[a].tools = agent[a].tools \union N
      BY <1>2 DEF AgentReady, ToolTypeOK
    <2>2. CASE t \in Reloaded(Configured[i])
      <3>1. <<KeyOf(Configured[i], t), Configured[i]>> \in N
        BY <2>2
      <3> QED
        BY <2>1, <3>1 DEF Served, KeyOf
    <2>3. CASE t \in ConfiguredOf(Configured[i]) /\ Configured[i] \in Modules /\ t.form = "module"
      <3>1. Has(a, KeyOf(Configured[i], t))
        BY <2>1, <2>3 DEF ConfiguredInv
      <3> HIDE DEF N
      <3> QED
        BY <1>1, <2>1, <2>3, <3>1 DEF Served, Has, KeyOf
    <2> QED
      BY <2>2, <2>3, ServedOneWay
  <1>3. CASE agent'[a] = agent[a]
    <2>1. Served(a, i, t)
      BY <1>3, ServedMeans
    <2> QED
      BY <1>1, <1>3, <2>1 DEF Served, Has, KeyOf
  <1>4. ASSUME NEW b \in Agents, AgentStart(b) \/ AgentReady(b) \/ AgentCancelled(b),
               ~AgentReady(a)
        PROVE  agent'[a] = agent[a]
    <2>1. CASE b = a
      BY <1>4, <2>1 DEF AgentStart, AgentCancelled, ToolTypeOK
    <2>2. CASE b # a
      BY <1>4, <2>2 DEF AgentStart, AgentReady, AgentCancelled, ToolTypeOK
    <2> QED
      BY <2>1, <2>2
  <1>5. \/ \E n \in Own : RegisterTool(n) \/ RegisterToolWithDependencies(n)
        \/ \E u \in Types : RegisterType(u)
        \/ \E k \in Keys : UnregisterTool(k)
        \/ \E j \in Starts : InitializeStart(j) \/ InitializeDone(j) \/ InitializeCancelled(j)
        \/ \E l \in Loads, d \in Directories : LoadStart(l, d)
        \/ \E l \in Loads, f \in Files : LoadFile(l, f)
        \/ \E l \in Loads : LoadCancelled(l)
        \/ UNCHANGED vars
        => UNCHANGED agent
    BY DEF RegisterTool, RegisterToolWithDependencies, RegisterType, UnregisterTool,
           InitializeStart, InitializeDone, InitializeCancelled, LoadStart, LoadFile,
           LoadCancelled, vars
  <1> QED
    BY <1>2, <1>3, <1>4, <1>5 DEF Next

\* An agent has each tool of the configuration that loads, whatever has failed or
\* run meanwhile, or, of a TOOL_SPEC module, what was registered over it, unless its
\* key was unregistered.
THEOREM AgentsCorrect == ToolSpec => []AgentsServeConfigured
  <1>1. Init => ConfiguredInv /\ AgentsServeConfigured
    BY DEF Init, ConfiguredInv, AgentsServeConfigured, NoAgent
  <1> QED
    BY <1>1, ConfiguredStep, ServeStep, ToolsTypeCorrect, PTL DEF ToolSpec

=============================================================================
