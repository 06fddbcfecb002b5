---------------------------- MODULE ToolRegistry ----------------------------
(***************************************************************************)
(* The tools of an agent: the registry that AgentToolRegistryManager and   *)
(* DependencyInjectedToolRegistry keep, the loads that fill it, and the    *)
(* agents that are created from it.                                        *)
(*                                                                         *)
(* A source is a Python module or a file.  What importing it yields is a   *)
(* constant, the sequence of the tools that the loader finds in it, which  *)
(* is empty for a source that the loader refuses: outside the tools root,  *)
(* rejected by the analysis, failing to run, or of no known format.  The   *)
(* form of a tool decides what becomes of it:                              *)
(*   "module"     a module with a TOOL_SPEC, its only tool;                *)
(*   "decorated"  a function with the marks of @tool;                      *)
(*   "callable"   a callable with a TOOL_SPEC attribute of its own;        *)
(*   "plain"      an unmarked function with the name of its module, which  *)
(*                the loader looks for in vain when the source is a file.  *)
(* The loader returns a single object for the first and the last, a list   *)
(* for the other two.                                                      *)
(*                                                                         *)
(* The event loop runs one coroutine at a time; a load suspends while a    *)
(* thread executes a source, and registers without suspending.  Shutdown,  *)
(* which drops the registry, is in AgentService.  The dictionaries _tools, *)
(* _metadata and _tool_dependencies have the same keys, since every        *)
(* operation writes or deletes all three: here they are one function of    *)
(* keys.  A key is a string: the name of a tool or, of a tool of a file,   *)
(* what Joined makes of a prefix and the name.  Both are one namespace, in *)
(* which a joined key may be a name, or two pairs be joined to one key.    *)
(***************************************************************************)
EXTENDS Naturals, Sequences

CONSTANTS
    Names,         \* names of tools
    Prefixes,      \* what a file's name and that of its directory may be
    Joined,        \* of a prefix and a name: the two with two underscores between
    Types,         \* interface types a tool may depend on
    Modules,       \* sources named by a dotted path
    Files,         \* sources named by a file path
    PrefixOf,      \* the last two components of the path of a file
    Offers,        \* the tools found in a source, in the order of dir()
    Configured,    \* tools_modules, then tools_files, in the order of loading
    Directories,   \* arguments of register_tools_from_directory
    FilesOf,       \* the files under a directory whose names have no leading _
    Allowed,       \* the directories that exist under the tools root
    Own,           \* the names of the tools the application registers itself
    Injected,      \* their dependencies
    Starts,        \* calls of initialize
    Loads,         \* calls of register_tools_from_directory
    Agents         \* calls of create_agent_with_tool_registry

Sources == Modules \union Files
Forms == {"module", "decorated", "callable", "plain"}
Tools == [name : Names, form : Forms]
OriginSet == Sources \union {"application", "none"}

ASSUME ToolAssumption ==
    /\ Modules \intersect Files = {}
    /\ {"application", "none"} \intersect Sources = {}
    /\ DOMAIN Joined = Prefixes \X Names
    /\ \A x \in Prefixes \X Names : Joined[x] # x[2]
    /\ PrefixOf \in [Files -> Prefixes]
    /\ Offers \in [Sources -> Seq(Tools)]
    /\ \A f \in Files : \A i \in DOMAIN Offers[f] : Offers[f][i].form # "plain"
    /\ \A s \in Sources : \A i \in DOMAIN Offers[s] :
           Offers[s][i].form \in {"module", "plain"} => DOMAIN Offers[s] = {i}
    /\ Configured \in Seq(Sources)
    /\ FilesOf \in [Directories -> SUBSET Files]
    /\ Allowed \subseteq Directories
    /\ Own \subseteq Names
    /\ Injected \in [Own -> SUBSET Types]

Keys == Names \union {Joined[x] : x \in Prefixes \X Names}

VARIABLES
    registry,     \* the tool registered under each key and its dependencies
    types,        \* the types the dependency container has factories for
    initialized,  \* _initialized of the service
    start,        \* where each call of initialize is
    load,         \* where each directory load is
    agent,        \* where each creation of an agent is, and its tools
    removed       \* history: the keys unregistered so far

vars == <<registry, types, initialized, start, load, agent, removed>>

NoTool == [source |-> "none", deps |-> {}]
NotLoading == [at |-> "idle", left |-> {}, accepted |-> {}]
NoAgent == [at |-> "idle", tools |-> {}]

Registered(k) == registry[k].source # "none"

-----------------------------------------------------------------------------
(* Sources and names *)

Offered(s) == {Offers[s][i] : i \in DOMAIN Offers[s]}

Refused(s) == Offers[s] = <<>>

\* The loader returns a list, be it of one tool.
IsList(s) == \E t \in Offered(s) : t.form \in {"decorated", "callable"}

\* register_tool has no branch for a plain function, and ignores it.
Registrable(t) == t.form # "plain"

\* A fault the checks must find: files are not told apart by a prefix.
KeyWithoutPrefix(s, t) == t.name

KeyOf(s, t) == IF s \in Files THEN Joined[<<PrefixOf[s], t.name>>] ELSE t.name

\* Only a module can be given its prefixed name; other holders of a TOOL_SPEC raise.
Renamable(s, t) == t.form = "callable" => KeyOf(s, t) = t.name

\* A fault the checks must find: of the functions of a file the first is taken.
FirstOf(s) == {Offers[s][i] : i \in {i \in DOMAIN Offers[s] : i = 1}}

\* The tools a directory load registers of a file: those before the first that raises.
TakenOf(s) ==
    {Offers[s][i] : i \in {i \in DOMAIN Offers[s] :
        /\ Registrable(Offers[s][i])
        /\ \A j \in 1 .. i : Renamable(s, Offers[s][j])}}

\* A file counts as loaded unless the loader or one of its tools raised.
Accepted(s) == ~Refused(s) /\ \A t \in Offered(s) : Renamable(s, t)

\* The tools the configured load registers of a source.  The list that a module
\* of functions yields is taken for a tool, which register_tool ignores.
ConfiguredOf(s) ==
    IF s \in Modules /\ IsList(s) THEN {}
    ELSE {t \in Offered(s) : Registrable(t) /\ Renamable(s, t)}

KeysFor(s, tools) == {KeyOf(s, t) : t \in tools}

\* A fault the checks must find: create_agent leaves loading modules to the registry.
ReloadedFilesOnly(s) == IF s \in Modules THEN {} ELSE Offered(s)

\* What create_agent itself loads of a source: of a TOOL_SPEC module the entry
\* "tools" of its TOOL_SPEC, which is none, and of a TOOL_SPEC file the module.
\* A list is given to the agent as it is, and the agent library takes it apart.
Reloaded(s) ==
    IF s \in Modules THEN {t \in Offered(s) : t.form # "module"} ELSE Offered(s)

-----------------------------------------------------------------------------
(* The registry *)

Init ==
    /\ registry = [k \in Keys |-> NoTool]
    /\ types = {}
    /\ initialized = FALSE
    /\ start = [i \in Starts |-> "idle"]
    /\ load = [l \in Loads |-> NotLoading]
    /\ agent = [a \in Agents |-> NoAgent]
    /\ removed = {}

\* The application registers its tool of a name, over any other.
RegisterTool(n) ==
    /\ registry' = [registry EXCEPT ![n] = [source |-> "application", deps |-> {}]]
    /\ UNCHANGED <<types, initialized, start, load, agent, removed>>

\* The container gets a factory for a type; it keeps it for good.
RegisterType(t) ==
    /\ types' = types \union {t}
    /\ UNCHANGED <<registry, initialized, start, load, agent, removed>>

\* A fault the checks must find: the manager leaves the dependencies to be checked later.
RegisterUnchecked(n) ==
    /\ ~Registered(n)
    /\ registry' = [registry EXCEPT ![n] = [source |-> "application", deps |-> Injected[n]]]
    /\ UNCHANGED <<types, initialized, start, load, agent, removed>>

RegisterToolWithDependencies(n) ==
    /\ Injected[n] \subseteq types
    /\ ~Registered(n)
    /\ registry' = [registry EXCEPT ![n] = [source |-> "application", deps |-> Injected[n]]]
    /\ UNCHANGED <<types, initialized, start, load, agent, removed>>

UnregisterTool(k) ==
    /\ Registered(k)
    /\ registry' = [registry EXCEPT ![k] = NoTool]
    /\ removed' = removed \union {k}
    /\ UNCHANGED <<types, initialized, start, load, agent>>

ValidateToolDependencies == \A k \in Keys : registry[k].deps \subseteq types

-----------------------------------------------------------------------------
(* The configured tools, loaded by initialize *)

InitializeStart(i) ==
    /\ start[i] = "idle"
    /\ ~initialized
    /\ start' = [start EXCEPT ![i] = "loading"]
    /\ UNCHANGED <<registry, types, initialized, load, agent, removed>>

\* The places in Configured of the sources that put a tool under k.
PlacesFor(k) == {i \in DOMAIN Configured : k \in KeysFor(Configured[i], ConfiguredOf(Configured[i]))}

\* All that was loaded is registered in the order of Configured; the last source wins a key.
ConfiguredRegistry ==
    [k \in Keys |->
        IF PlacesFor(k) = {} THEN registry[k]
        ELSE [source |-> Configured[CHOOSE i \in PlacesFor(k) : \A j \in PlacesFor(k) : j <= i],
              deps |-> {}]]

\* The last source has been loaded or has failed to: nothing else is awaited.
InitializeDone(i) ==
    /\ start[i] = "loading"
    /\ start' = [start EXCEPT ![i] = "done"]
    /\ registry' = ConfiguredRegistry
    /\ initialized' = TRUE
    /\ UNCHANGED <<types, load, agent, removed>>

InitializeCancelled(i) ==
    /\ start[i] = "loading"
    /\ start' = [start EXCEPT ![i] = "cancelled"]
    /\ UNCHANGED <<registry, types, initialized, load, agent, removed>>

-----------------------------------------------------------------------------
(* Directory loads *)

\* A load goes on while files are left, and fails if it counted none.
Stage(left, accepted) ==
    IF left # {} THEN "loading" ELSE IF accepted = {} THEN "nothing" ELSE "loaded"

\* A fault the checks must find: a file that was loaded is loaded again.
ProgressRepeating(l, f) ==
    LET accepted == IF Accepted(f) THEN load[l].accepted \union {f} ELSE load[l].accepted
        left == load[l].left \ ({f} \ accepted)
    IN [at |-> Stage(left, accepted), left |-> left, accepted |-> accepted]

Progress(l, f) ==
    LET left == load[l].left \ {f}
        accepted == IF Accepted(f) THEN load[l].accepted \union {f} ELSE load[l].accepted
    IN [at |-> Stage(left, accepted), left |-> left, accepted |-> accepted]

LoadStart(l, d) ==
    /\ load[l].at = "idle"
    /\ initialized
    /\ load' = [load EXCEPT ![l] = IF d \in Allowed
                  THEN [at |-> Stage(FilesOf[d], {}), left |-> FilesOf[d], accepted |-> {}]
                  ELSE [NotLoading EXCEPT !.at = "refused"]]
    /\ UNCHANGED <<registry, types, initialized, start, agent, removed>>

LoadedRegistry(f) ==
    [k \in Keys |-> IF k \in KeysFor(f, TakenOf(f)) THEN [source |-> f, deps |-> {}] ELSE registry[k]]

\* A thread has executed the file, whichever glob listed next, or the file was
\* refused.  Its tools are registered, up to the first that raises.
LoadFile(l, f) ==
    /\ load[l].at = "loading"
    /\ f \in load[l].left
    /\ registry' = LoadedRegistry(f)
    /\ load' = [load EXCEPT ![l] = Progress(l, f)]
    /\ UNCHANGED <<types, initialized, start, agent, removed>>

\* A cancellation is no Exception: the load ends where it is, what it registered stays.
LoadCancelled(l) ==
    /\ load[l].at = "loading"
    /\ load' = [load EXCEPT ![l].at = "cancelled"]
    /\ UNCHANGED <<registry, types, initialized, start, agent, removed>>

-----------------------------------------------------------------------------
(* Agents *)

\* The tools are read from the registry before the configured ones are loaded.
\* An agent's tool is known by its source and the key that the source has for it.
AgentStart(a) ==
    /\ agent[a].at = "idle"
    /\ initialized
    /\ agent' = [agent EXCEPT ![a] = [at |-> "loading",
                   tools |-> {<<k, registry[k].source>> : k \in {k \in Keys : Registered(k)}}]]
    /\ UNCHANGED <<registry, types, initialized, start, load, removed>>

\* A source that fails to load is logged and left out.
AgentReady(a) ==
    /\ agent[a].at = "loading"
    /\ agent' = [agent EXCEPT ![a].at = "ready",
                   ![a].tools = @ \union UNION {
                       {<<KeyOf(Configured[i], t), Configured[i]>> : t \in Reloaded(Configured[i])} :
                       i \in DOMAIN Configured}]
    /\ UNCHANGED <<registry, types, initialized, start, load, removed>>

AgentCancelled(a) ==
    /\ agent[a].at = "loading"
    /\ agent' = [agent EXCEPT ![a] = [at |-> "cancelled", tools |-> {}]]
    /\ UNCHANGED <<registry, types, initialized, start, load, removed>>

Next ==
    \/ \E n \in Own : RegisterTool(n) \/ RegisterToolWithDependencies(n)
    \/ \E t \in Types : RegisterType(t)
    \/ \E k \in Keys : UnregisterTool(k)
    \/ \E i \in Starts : InitializeStart(i) \/ InitializeDone(i) \/ InitializeCancelled(i)
    \/ \E l \in Loads, d \in Directories : LoadStart(l, d)
    \/ \E l \in Loads, f \in Files : LoadFile(l, f)
    \/ \E l \in Loads : LoadCancelled(l)
    \/ \E a \in Agents : AgentStart(a) \/ AgentReady(a) \/ AgentCancelled(a)

ToolSpec == Init /\ [][Next]_vars

-----------------------------------------------------------------------------
(* Properties *)

\* Every variable holds what the code stores in it, and no file is both counted
\* and still to be loaded.
ToolTypeOK ==
    /\ registry \in [Keys -> [source : OriginSet, deps : SUBSET Types]]
    /\ types \subseteq Types
    /\ initialized \in BOOLEAN
    /\ start \in [Starts -> {"idle", "loading", "done", "cancelled"}]
    /\ load \in [Loads -> [at : {"idle", "loading", "loaded", "nothing", "refused", "cancelled"},
                           left : SUBSET Files, accepted : SUBSET Files]]
    /\ \A l \in Loads : load[l].left \intersect load[l].accepted = {}
    /\ agent \in [Agents -> [at : {"idle", "loading", "ready", "cancelled"},
                             tools : SUBSET (Keys \X OriginSet)]]
    /\ removed \subseteq Keys

\* Who registers a tool under k, if anybody does.
Namesakes(k) ==
    {s \in Modules : \E t \in Offered(s) : t.form = "module" /\ t.name = k}
    \union {f \in Files : \E t \in Offered(f) :
               t.form # "callable" /\ Joined[<<PrefixOf[f], t.name>>] = k}
    \union {o \in {"application"} : k \in Own}

\* A registered tool goes only when its key is unregistered, or when somebody
\* registers another under just that key.  No load or start, whatever else runs
\* meanwhile, takes a tool of the application, of a module or of another file away
\* unless one of its own has that very key; a file's has, if its prefix and the
\* name together are the name of the other, which nothing forbids
\* (_generate_prefixed_tool_name).
OnlyNamesakesDisplace ==
    [][\A k \in Keys : Registered(k) =>
          \/ UnregisterTool(k)
          \/ registry'[k] = registry[k]
          \/ registry'[k].source \in Namesakes(k)]_vars

\* What a directory load counted as loaded stays usable whatever other loads,
\* starts and registrations run meanwhile: each marked tool of an accepted file
\* is registered under its key, if maybe from another source that has it too,
\* unless somebody unregistered that key (_load_tools_from_file).
AcceptedStay ==
    \A l \in Loads : \A f \in load[l].accepted : \A t \in Offered(f) :
        t.form # "plain" =>
            LET k == Joined[<<PrefixOf[f], t.name>>] IN Registered(k) \/ k \in removed

\* validate_tool_dependencies never finds anything missing in a registry that is
\* used through its manager: the check at registration is never outdated by
\* what the container or other registrations do later.
ValidationPasses == ValidateToolDependencies

\* An agent is never created without a tool of the configuration that loads.  A
\* @tool function, or anything from a file, it has from the source itself, loaded
\* again.  A TOOL_SPEC module reaches it through the registry: it has that, or what
\* was registered over it, unless the key was unregistered (create_agent).
AgentsServeConfigured ==
    \A a \in Agents : agent[a].at = "ready" =>
        \A i \in DOMAIN Configured : \A t \in Offered(Configured[i]) :
            LET s == Configured[i]
                k == KeyOf(s, t)
            IN  \/ <<k, s>> \in agent[a].tools
                \/ /\ s \in Modules /\ t.form = "module"
                   /\ k \in removed \/ \E o \in OriginSet : <<k, o>> \in agent[a].tools

\* "Load tools from AgentConfig and register them on the tool registry"
\* (load_configured_tools): an initialized service has every @tool function of a
\* configured source in its registry, unless it was unregistered.
ConfiguredAreRegistered ==
    initialized => \A i \in DOMAIN Configured : \A t \in Offered(Configured[i]) :
        t.form = "decorated" =>
            LET k == KeyOf(Configured[i], t) IN Registered(k) \/ k \in removed

\* "Nothing from a rejected file is registered" (load_tools_from_directory): a
\* file that is not configured has tools in the registry only if some load
\* counted it.
RejectedRegisterNothing ==
    \A k \in Keys :
        registry[k].source \in Files \ {Configured[i] : i \in DOMAIN Configured} =>
            \E l \in Loads : registry[k].source \in load[l].accepted

=============================================================================
