# Formal models of foundry-agent-packages

TLA+ modules of the packages under `src/packages/`, the TLC runs that check them
on small instances, and proofs, checked by TLAPS, of what holds for instances of
every size. Paths below are abbreviated: `core/` is
`src/packages/foundry-agent-core/src/foundry_agent_core/`, `strands/` is
`src/packages/foundry-strands-agent/src/foundry_strands_agent/`, `fastapi/` is
`src/packages/foundry-agent-fastapi/src/foundry_agent_fastapi/` and `config/` is
`src/packages/foundry-agent-config/src/foundry_agent_config/`.

- [The system](#the-system)
- [The modules](#the-modules)
- [The runs](#the-runs)
- [Fairness](#fairness)
- [What is proved](#what-is-proved)
- [Where the code and its documentation part](#where-the-code-and-its-documentation-part)
- [What is not modelled](#what-is-not-modelled)
- [Plan](#plan)

Three commands, run in this directory, check everything there is:
`tlc -config X.cfg M` for a run of the table below, `tlapm M.tla` for a module of
proofs, and `tlasany M.tla` to parse a module.

## The system

The packages let an application serve queries to a language-model agent. A
request comes in through a FastAPI application (`fastapi/`), or straight from a
caller; `AgentService` admits it and tracks it; the orchestrator runs it through
the chat history, the agent factory, the agent itself (the external library
`strands`) and the response processor. A dependency container wires all of this
together. Everything runs on one asyncio event loop: there are no threads that
share state, but every `await` is a place where another coroutine may run.

| component | state | operations | correct when |
|---|---|---|---|
| **AgentService** `strands/service.py` | `_initialized`, `_shutdown_event`, six component references, `_active_queries` | initialize, process_query, process_query_stream, shutdown | a query is admitted only by an open service; the table misses no query that shutdown has to stop; shutdown ends; a closed service leaves no query running |
| **RequestLifecycleManager**, tables, `core/lifecycle.py` (and a copy of the class in `strands/lifecycle.py`) | `_active_contexts`, `_retry_contexts` | create_execution_context | what is filed belongs to a request in flight; nothing leaks when requests fail or are cancelled |
| **RequestLifecycleManager**, retries | `RetryContext`, `ExecutionContext` | execute_with_retry | calls, delays and time are bounded; an operation ends |
| **FunctionalDependencyContainer** `core/container.py` | `_factories`, `_singletons`, `_dependency_graph` | register, resolve, create_scope, clear_singletons, validate_registrations | declared dependencies form no cycle, and both searches for cycles say so; a singleton is one; a resolution that fails half way does no harm |
| **create_default_container** `strands/container.py` | a container | the wiring of the package | all protocols resolve |
| **QueryOrchestrator** `strands/orchestrator.py`, **AgentBackend** `strands/backend.py` | none of its own; an agent per request | process_query, process_query_stream | the agent is closed on every way out; a cancelled query never answers; a stream ends once; a failure of any stage shows one class of error |
| **StrandsAgentFactory** `strands/factory.py` | none of its own | load_configured_tools, create_agent_with_tool_registry, create_agent | a tool that fails to load does not stop the others; an agent has every configured tool |
| **Tool registry** `strands/registry.py`, `strands/_tool_factory.py` | `_tools`, `_metadata`, `_tool_dependencies` | register_tool, register_tool_with_dependencies, unregister_tool, load_tools_from_directory, validate_tool_dependencies | a name tells where its tool comes from; what a load counted stays; dependencies are there |
| **Tool loader** `strands/tool_loader.py` | none of its own | load_tool_from_module, load_tool_from_file | it returns a module's tools or refuses it |
| **Chat historian** `strands/chat_historian.py`, `strands/encrypted_session.py`, `core/encryption.py` | sessions on disk or in S3, sealed under a key | ensure, list, read, create, delete, destroy_session | a deletion that succeeds has deleted; a session comes back only for somebody who asks for it; a listing lists |
| **Response processor** `strands/response_processor.py` | none | process_response | pure |
| **Errors** `core/errors/translator.py`, `core/exceptions.py` | the registered mappings | translate_error, register_error_mapping | a caller sees the error of its failure |
| **HTTP** `fastapi/` | a correlation id, log lines and a trace context per request | middlewares, mappers, routes | an error becomes an answer and a line of the log; one id per request; what is opened is closed |
| **Configuration** `config/loader.py`, `strands/config/models.py` | none | load_config | a setting is what its highest layer says; the order of the environment is no accident |
| **Protocols, types**; **masking, TLS** | none | stateless | not modelled |

Behaviours that are hard here: coroutines of queries, of start-up and of
shutdown that interleave at every `await`; cancellation, which the HTTP server,
`asyncio.wait_for` and shutdown itself inject at any of them; tables keyed by a
reading of the clock; a retry loop that catches its own exceptions; a
recursive resolution over a graph that only knows part of the dependencies; a
registry that several loads fill at once, file by file, from sources in four forms;
errors that pass several handlers, each of which may wrap them; sessions that
are deleted under the requests that use them; and an environment that is read in
any order.
`PROJECT.json` lists each of these hazards at its line, with the properties that
watch it.

## The modules

| module | models | extends |
|---|---|---|
| `RequestLifecycle` | the context tables of the lifecycle manager | |
| `AgentService` | `AgentService` on the event loop | `RequestLifecycle` |
| `ServiceContract` | abstract: what a caller of `AgentService` relies on | |
| `RetryExecution` | `execute_with_retry`, its contexts and time | `RequestLifecycle` |
| `DependencyGraph` | registration and the cycle check | |
| `DependencyContainer` | resolution, caches and scopes | `DependencyGraph` |
| `DependencyValidation` | `validate_registrations` and its search for cycles | `DependencyGraph` |
| `ToolRegistry` | the tool registry, the loads that fill it, the agents made from it | |
| `ErrorTaxonomy` | the classes of errors, their translation, their HTTP status | |
| `Sessions` | stored sessions, the session managers, the historian | |
| `QueryPipeline` | a query or a stream in the orchestrator and the factory | `Sessions`, `ErrorTaxonomy` |
| `TaskContract` | abstract: what `AgentService` relies on in the task of a query | |
| `RequestPath` | the middlewares of `fastapi/` around a request | `ErrorTaxonomy` |
| `ConfigTree` | nested dictionaries and `_set_nested` | |
| `ConfigurationLoad` | `load_config`: a file, the environment, validation | `ConfigTree` |
| `MCAgentService`, `MCRetryExecution`, `MCDependencyContainer`, `MCDependencyValidation`, `MCToolRegistry`, `MCQueryPipeline`, `MCRequestPath`, `MCConfigurationLoad` | the small instances | |
| `AgentServiceProofs`, `RetryExecutionProofs`, `DependencyProofs`, `ToolRegistryProofs`, `ErrorTaxonomyProofs`, `QueryPipelineProofs`, `RequestPathProofs`, `ConfigurationLoadProofs` | theorems | |

The composition: `QueryPipeline` is a query inside the orchestrator with the
sessions it shares with the historian; it implements `TaskContract`, whose steps
are those that `AgentService` takes for granted of the task it awaits (`TaskStart`,
`TaskFinish`, `TaskCancelled`); `AgentService` in turn implements
`ServiceContract`. `RequestPath` puts the middlewares around a handler that raises
what the lower layers let out.

Definitions whose comment begins "A fault the checks must find" are used by no
specification. Each is a variant of the definition below it with a plausible
bug; put in its place, it makes some property fail, and so shows that the
property depends on that code.

### AgentService

An action is the code between two suspension points of one coroutine. The
coroutines are: a call of `initialize` (`initPc`), of `process_query` (`pc`), the
task that it creates for `_execute_query_processing` (`task`), a call of
`process_query_stream` (`streamPc`), and a call of `shutdown` (`downPc`). Any
number of each may overlap.

| action | code |
|---|---|
| `InitStart`, `InitFinish`, `InitCancelled` | the guard and the assertion of `initialize`; the end of `load_configured_tools`; a cancellation in between |
| `ProcessQuery` | the guards, the id `query_<ms>_<hash>`; the query then waits for its session |
| `Register`, `RegisterFails` | the session is ensured, or failed to be, which is only logged; a context is opened, the task is created and entered into `_active_queries`. If a shutdown has taken the lifecycle manager away, the query fails |
| `TaskStart`, `TaskFinish`, `TaskCancelled` | the task begins, ends by itself, or ends because it was cancelled; the agent may turn a cancellation into an error |
| `QueryReturn`, `QueryReturnCancelled` | `process_query` resumes from its task and unwinds both clean-ups |
| `CancelCaller` | the caller is cancelled while it waits for its session or its task |
| `StreamStart`, `StreamEnd` | a stream opens its context and closes it |
| `ShutdownBegin` .. `ShutdownAborted` | the event is set, the table gathered, the grace period ends, the caller of shutdown is cancelled; stragglers are cancelled and the components dropped |

Three abstractions. A dictionary is the set of the requests whose entry it holds:
an insertion under a key removes who held it, a `pop` removes who holds it, be it
another request. The text of a query is its hash. Ensuring the session is always
a suspension in the model; in the code it may complete without one when there is
nothing to create, which is an interleaving the model has too, since nothing
forces another coroutine to run in between. The six component references are one
flag because `shutdown` sets them to `None` in one segment and nothing else does.

`wait_for` around `gather` is modelled as the library behaves: at the timeout it
cancels what was gathered and *waits for it*, and a cancelled `shutdown` does the
same on its way out. A task that is cancelled before its first step never runs.

### RetryExecution

Requests run operations one after another inside a context. A retry context is an
object of its own (`Objects`), since the look-up by key may find that of another
request, or none, in which case an operation gets a default one. `attempt` and
`failures` live in the object. The loop is cut at its two awaits, the backoff
sleep (`Wake`) and the operation (`Succeed`, `Fail`, `TimeUp`); `TryAgain` is
everything between. Time is in milliseconds and counted per request, in the
sleeps (`slept`) and in the calls (`spent`); no time passes between suspensions,
so a comparison that takes place exactly at the limit is decided as `>=` in
`is_timeout_exceeded` decides it. A backoff delay is fixed when the sleep starts,
as in the code, since a request of the same key may count attempts meanwhile. The
reset of an open circuit breaker after a minute is left out, which can only keep
a breaker open that the code would close; none ever opens. The source marks `execute_with_retry` as
having no callers at present; it is modelled because it is public and tested.

### DependencyGraph and DependencyContainer

`DependencyGraph` states the cycle check by what it decides, `Reaches`, the least
set closed under dependencies, written as an intersection of closed sets so that
it can be reasoned about; `CheckCyclePath` is the depth-first search as the code
has it, with its copied set of visited types, and `SearchFindsReachable` checks
that they agree. The check is skipped for dependencies without a factory, so a
cycle is found at whichever registration closes it.

`DependencyContainer` makes the recursion of `resolve` explicit: `stack` holds the
calls under way, each with the dependencies it still has to resolve and the ones
it was given. `Factories` says which dependencies the factory of a type may have;
types of `Declared` are registered with them, the others resolve them in a
closure, as the factories of `create_default_container` do, unseen by the graph.
Both kinds captured the container they were registered on, so dependencies are
resolved in the root even for an instance of a scope. Registrations, scopes and
clearing happen between resolutions: `resolve` never suspends. Dependencies may
be resolved in any order, where the code has the order of a list.

`DependencyValidation` has the search of `validate_registrations` as a machine of its
own on top of the graph: `path` is the stack of the calls of `_detect_cycles_from`,
`todo` what each of them has still to look at, and `visited` the set that the branches
of one search share. Types to start from, and dependencies, are taken in any order.
The search is let loose on every container that checked registrations can make and
one more registration that is not checked, which is the only way for it to have a
cycle to find; `refused` is what the check would have said of that registration, and
`ValidationAgrees` compares the two.

### ToolRegistry

An action is the code between two suspension points, again. What importing a
source yields is a constant, `Offers`: a sequence of tools, each with a name and
a form, that is empty when the loader refuses the source for whatever reason.

| action | code |
|---|---|
| `RegisterTool`, `RegisterToolWithDependencies`, `UnregisterTool` | the operations of the registry as the application uses them, through `AgentToolRegistryManager`, which checks dependencies before it delegates; a call that raises changes nothing and is no step |
| `RegisterType` | the dependency container gets a factory; it has no operation that removes one |
| `InitializeStart`, `InitializeDone`, `InitializeCancelled` | `initialize` awaits `load_configured_tools`, which loads every source, one by one, and registers all of it when the last is loaded, without suspending |
| `LoadStart`, `LoadFile`, `LoadCancelled` | `register_tools_from_directory`: the checks of the directory; then a file at a time is executed in a thread and its tools are registered; a cancellation leaves the load where it is |
| `AgentStart`, `AgentReady`, `AgentCancelled` | `create_agent_with_tool_registry` takes the tools of the registry; `create_agent` then loads the configured sources once more and adds what they yield |

The forms matter because the loader returns a list for two of them and a single
object for the others, and because `register_tool` renames modules but not
callables, and has no branch for a list or an unmarked function. `ConfiguredOf`,
`TakenOf` and `Reloaded` are what the three callers of the loader make of that:
a configured load skips the tool that cannot be registered (`Renamable`), a
directory load stops at it and rejects the file, an agent is given the list as it
is, which the agent library takes apart: that is assumed of it.

Abstractions. The three dictionaries are one function of keys, since they have
the same keys. Keys are one namespace, as in the code: what `Joined` makes of the prefix
of a file and the name of its tool may be the name of a tool of the application or of
a module, or what another prefix and name are joined to. All that is assumed of `Joined`
is that its result is not the name itself. For TLC the prefixes and names are strings
that are joined with two underscores; in the theorems it is any function. A file has one prefix,
`PrefixOf`: a file that is configured by a path of one component only would have
a shorter prefix there than in a directory load. The order of files in a
directory is that of `glob`, any order. A file that the loader refuses is a step
like one that it loads. The application registers without a source in the
metadata, so under the name itself. The sources that configured loads and agents
await in turn are one suspension, since they write nothing before the last.
Shutdown is in `AgentService` and not here: it drops the reference to the
registry, while a load or an agent under way keeps its own and goes on as it
does here.

### QueryPipeline and Sessions

| action | code |
|---|---|
| `Ask` | `process_query` of the service as far as the creation of its task: the session of the repository is ensured (`EnsureSession`), or, through the backend, is not |
| `Begin` | the orchestrator up to its first suspension: the query may be too long; the agent context is entered; `create_agent` gets as far as it gets without waiting |
| `LoadTools`, `DiscoverAgents` | `create_agent` goes on after the configured sources, and after the discovery of A2A agents with its 10 seconds |
| `AgentAnswers`, `AgentRaises` | the end of `invoke_async`, or of the stream of the agent by an error, and the response processor, which may find the answer out of its bounds |
| `StreamEvent`, `StreamEnds`, `Consume` | a stream yields an event and waits for its consumer; the agent's events end; a result is made up if there was none |
| `Abandon`, `Reap` | the consumer closes the outer generator; the event loop closes the inner one some time later |
| `Cancel`, `MeetCancellation`, `CloseAgent` | a cancellation is asked for, and met at the next suspension; the clean-up of the context ends or is itself interrupted |
| `HistorianStep` | one call of the historian, or of `destroy_session`, between any two steps |

`Connect` and `Assemble` are the parts of `create_agent` that the actions above
share: they run on, without waiting, to the next suspension. The outcome of a
request is decided when its context is left and its agent is closed after that,
which is why `outcome` is known before `pc` is `ended`; the interrupted clean-up
replaces it.

The error of a layer is an operator, from `WrapCreate` to `WrapCaller`, and `Seen`
composes them in the order in which the code has the handlers. `WrapContext` shows
the part that is easy to miss: the body of the agent context is inside the `try`
of the context manager, so what a run raises is taken there for an error of the
creation.

A stored session is what seals it: a key, `Clear` for none, or `Absent`. Files of
earlier runs may be sealed under a key that is out of use (`PastKeys`), or not be
sealed. Session managers are external; that one reads the session it is made for,
and creates it when there is none, is what the code relies on. No call of the
historian suspends, so each is one action, with its reply in `reply`. The
contents of messages, and the part of a listing that offset and limit cut out,
are left.

### RequestPath

The middlewares are a sequence, `stack`, which is any of `Stacks`: each has an
action inwards (`EnterErrors`, `EnterLogging`, `EnterTracing`, `EnterCors`) and one
outwards (`LeaveErrors`, ...), and the handler between them returns or raises
(`HandlerReturns`, `HandlerRaises`), among others what its mappers raise. `result`
is what the layer below has handed over. `Finish` is the server, which answers an
exception that nobody has answered with a text of its own; a cancelled request gets
no answer. Mappings of errors may be registered at any time (`Register`), also
between the failure of a request and its translation. Identifiers that a middleware
makes are distinct (`Generated`), where the code has eight random hex digits.
`registered` is a history variable: `mappings` shows only the last mapping of a class,
and an error may have been made under an earlier one.

### ConfigTree and ConfigurationLoad

`load_config` is sequential, and what is arbitrary about it is the order in which
`os.environ` lists the variables: `Collect` takes any unread one. `Merge` is one
iteration of the loop of `_merge_overrides`; `applied` counts them.

A nested dictionary is flat in `ConfigTree`: a function from the paths of its entries
to what is there, `Folder` for a dictionary, else the value, with the empty path for
the dictionary itself. `IsTree` says which functions are such: whatever is above an
entry is a dictionary. `Opened` is the loop of `_set_nested`, which makes a dictionary
of all that stands in the way of a path, and `Put` the assignment after it.

A value of a variable says how it begins, whether it is JSON, an integer or a number,
and what it is parsed to. `ResolveFieldType` and `CoerceToType` are the
functions of that name. The types of the fields (`Hints`) are a part of those of
the agent configuration: a class, a dictionary, a list, a number, a Boolean and two
optional ones. `Validate` has the validators that relate fields or have an error of
their own; what a single field accepts is external.

## The runs

Runs that must pass:

| run | instance | states | shows |
|---|---|---|---|
| `service_table` | 2 queries of one text, 1 stream, 2 calls of initialize, 1 of shutdown, 2 clock readings, one request with a retry context | 4.6 million | types; who admits has components (`AdmittingHasComponents`); the table of in-flight queries (`TableSound`); nothing runs on after the end (`ClosedMeansStopped`); a task finds its orchestrator (`StartsWithOrchestrator`); no context leaks (`ContextsSound`) |
| `service_contract` | 2 queries of their own texts, 1 call of initialize, 2 of shutdown, with fairness | 57 000 | the service implements `ServiceContract`, safety and liveness; `ShutdownTerminates`; `ClosedSettlesAll` |
| `retry` | a highly available request and a resilient one with one key; alone, a request runs up to 4 operations of 0, 5 or 14 seconds or longer than its timeout of 30 s; overlapping, one runs two and the other one, of no duration or cut off; with fairness | 467 000 | `BreakerNeverOpens`, `CallsBounded` when two loops count on one object; `BackoffBounded`, `OverrunBounded`; `OperationEnds` |
| `container` | 4 types with a diamond, a declared cycle and an undeclared one; 1 scope, 5 instances, recursion limit 4 | 1.4 million | `Acyclic`, `SearchFindsReachable`, `SingletonsShared`, `SingletonStable`, `RecursionOnlyByClosures` |
| `validation` | every container of 4 types, one more registration that is not checked, every order of the search, up to symmetry | 52 000 | `ValidationAgrees`: the two searches for cycles agree, and validation passes exactly when all can be resolved |
| `tools` | a module with a TOOL_SPEC, one of functions, 3 files of which two share a prefix, one fails at its second tool and one is refused; 3 directories, one of them outside the root and one with nothing but the file that is refused; 2 directory loads, 2 calls of initialize, 1 agent, 2 tools of the application, of which one has the name of the module's tool and the other the key that a file's tool gets | 630 000 | `OnlyNamesakesDisplace`, `AcceptedStay`, `ValidationPasses`, `AgentsServeConfigured` |
| `query_path` | a query that names a session and a stream that names none; 6 configurations (no sessions, files or S3, with and without an id and a bucket, an unknown type), with and without sources and A2A agents; a key or none, files under an older key; one call of the historian, one text chunk; with fairness | 844 000 | `AgentsReleased`, `CallersSeeQueryErrors`, `StreamsEndProperly`, `LogoffSound`, `SessionsOnDemand`; the query implements `TaskContract`, safety and liveness (`ImplementsTask`) |
| `http_path` | a request or a preflight with each combination of ids (short, too long, none); 5 stacks, those of the README, of the tests and with tracing in several places; 2 registrations of mappings; 9 classes raised | 250 000 | `ErrorsAnswered`, `IdsAgree`, `RequestsAccounted` |
| `config` | 8 files; up to 4 of 16 variables in every order, above, below, beside each other and equal but for case, malformed, too large; limits of 3 overrides and of depth 3 | 246 000 | `LayersHold`, `LimitCountsNames`, `OrderDecidesNothing` |

The type invariant of a module is in its run, but for `PathTypeOK` and
`ValidationTypeOK`, which are proved only, and `LoadTypes` of `ConfigurationLoad`, a part
of `LoadInv` in its proofs. The runs that show
a disagreement, and must find it, are `same_id_survives`,
`modules_unregistered` and `sessions_unlisted`; see
[below](#where-the-code-and-its-documentation-part).

Why the bounds are enough. Two queries are what it takes to share an id, to
replace an entry and to remove the entry of another; a third adds no new
relation, and the proofs cover any number. Two clock readings make keys that
collide and keys that do not. Two calls of `initialize` and one of `shutdown` are
what it takes for an `initialize` to finish after the service has closed; two of
`shutdown` for a second to finish what a cancelled first left behind. The retry
runs use the constants of the code (30 s, 5 and 3 attempts, 1 to 10 s of backoff)
and enough operations to use up the attempts of a context more than once
(`MaxOps`). In the container run, `RecursionLimit` stands for the interpreter's
limit: 4 is deeper than any resolution without a cycle among four types, so it
is met by the undeclared cycle only; `MaxInstances` leaves room for a diamond,
a transient made twice and a cache that was cleared.

Bounds that are not in the code are `MaxOps`, `MaxInstances`, `MaxCalls`, `MaxTokens`
(guards of an action) and `MaxSet` (in `Init`). In `query_path` one call of the
historian falls between any two steps of the two requests, before all of them and
after all of them, which is what it takes to delete a session under a request that
goes on to use it. One text chunk, one result and the end give every order of the
events of a stream. In `config` the limits of the code (512 overrides, depth 8)
are both 3: with `MaxSet` of 4 the number of overrides meets its limit, and is
short of it and past it, and any two settings above, below or beside each other
meet a third. In `http_path` requests share only the mappings, so one request and a
registration between any two of its steps is the general case.
In the `tools` run nothing is bounded but the constants: the application registers
and unregisters for ever. Two loads are what it takes for one to overwrite what
another counted, and two files of one prefix for that to change the source of a
key; two calls of `initialize` for the second to register again what was
unregistered after the first. Calls of one kind are interchangeable, hence the
symmetry.

Deadlock is checked for the service and the query pipeline, whose `Next` has an
explicit final step, and for the container, the tool registry and the request path,
which always have something to do. The runs `retry`, `validation` and `config` switch it
off: every request closes its context in the end, and a search and a load end.

## Fairness

`LoopFairness` of `AgentService` is weak fairness of single actions, each for a
reason in asyncio: a coroutine whose awaitable is done is run (`TaskStart`,
`QueryReturn`, `ShutdownFinish`, `ShutdownAborted`); the session call returns
(`Register`, `RegisterFails`); a timer fires (`ShutdownTimeout`, the grace period
of 30 seconds); and a cancelled agent ends (`TaskCancelled`). The last is an
assumption about the agent library: an agent that swallows its cancellation and
goes on would keep `wait_for`, and so `shutdown`, waiting for good. There is **no**
fairness for an agent that answers (`TaskFinish`), for anybody calling anything
(`ProcessQuery`, `ShutdownBegin`), or for a consumer that ends its stream.

`TimerFairness` of `RetryExecution` is that `asyncio.sleep` ends and that
`asyncio.wait_for` times out. An operation that never returns is allowed.

`Fairness` of `QueryPipeline` is weak fairness of what the event loop does by itself:
a task that was created begins (`Begin`, of queries), a cancellation is delivered
(`MeetCancellation`), a generator that nobody refers to is closed (`Reap`); of the
import of sources, which is a thread that ends (`LoadTools`); of the discovery, which
has a timeout of its own (`DiscoverAgents`); and of `agent.close()`, an assumption
about the agent library (`CloseAgent`). There is none for an agent that answers and
none for a consumer that asks for the next event. `TaskContract` has weak fairness of
`Stop`: a task that is asked to stop comes to its end.

## What is proved

All theorems are about the specifications as TLC runs them, for every value of
their constants that meets the assumptions named in the modules:
`LifecycleAssumption`, `ServiceAssumption`, `RetryAssumption`,
`ContainerAssumption`, `ToolAssumption`, `SessionsAssumption`, `PipelineAssumption`,
`RequestPathAssumption`, `LoadAssumption`. These give types to the constants and
little more (`RequestPathAssumption` adds that an id which a middleware makes is
neither absent nor too long: the code makes it of `req_` and eight digits; `ToolAssumption` adds
that a joined key is longer than the name in it, hence another, and what the loader guarantees: a module or an
unmarked function is the only tool of its source, and a file never yields an
unmarked function, because the name it is looked up by still has the path in
it); TLC evaluates them in the runs.

**AgentServiceProofs.** `TypeCorrect` is inductive as it stands.
`AdmittingCorrect` needs `Signalled`: a shutdown that has gone past its guard has
set the event, for good, and components that are gone imply it; an `initialize`
that finishes late sets `_initialized` again but the event still refuses
requests. `TableCorrect`, `ClosedStopsQueries` and `OrchestratorPresent` rest on
`TableInv`, which adds that a query that was admitted has an id (`IdsGiven`):
the entry of a waiting query can go only by a query that has its id, and what is
in the table when the components go is cancelled in that very step.
`ContextsCorrect` has the same shape (`ContextInv`, `KeysGiven`), one level down.

`ServiceImplementsContract`: when hashes are distinct
(`OwnIds`), every initial state maps to one of the contract and every step to a
step or a stutter. Without `OwnIds` it is false: `same_id_survives` is the
counterexample. The mapping reads the phase off the flags and the status of a
query off its coroutine, its task and the pending cancellations. It needs
`CancelsHaveTasks`: nobody asks a task to cancel that does not exist yet.

**RetryExecutionProofs.** Two invariants. `BreakerDead`: no retry context has more failures in a
row than attempts (`CountsOK`), and an attempt that is still to be made means
fewer than five of them, so the circuit breaker, whose threshold is five, is
never found open: attempts are used up without a call only when the time is up.
This holds for any number of requests that share retry contexts.
`RetryInvariant` keeps the books: every call of an operation but the one under way
has been counted as an attempt on the object it runs on, a request that shares its key with
nobody runs on its own context, and what such a request has slept is within what its
attempts and operations allow (`BackoffIsBounded`); a loop goes into a sleep only
with time left, so it overruns by less than a delay (`OverrunIsBounded`).
The first of these gives `CallsAreBounded`: whoever shares a context, its own attempts
bound the calls, five if a highly available request made it and three otherwise; what a
request's own strategy says bounds them only if it shares its key with nobody, since a
resilient request that finds the context of a highly available one may call five times.
`RetryTypesCorrect` needs the same invariant, since a count that could be negative
would be one that went unnoticed.

**DependencyProofs**, the registrations. `GraphAcyclic`: if a set of types had no member that
depends on none of the others, the set of what reaches the newly registered type
would be such a set without it. `SearchCorrect`: the depth-first search of the check
agrees with `Reaches`. `SearchSound` is the half that keeps the graph acyclic, a
search that says no is right. The other half, that it says no only to what is not
reachable, and that the recursive function which TLC evaluates is a solution of its
equation at all, rest on the number of registered types that a branch has not visited,
which goes down from call to call; it is finite because types are registered one at a
time.

`ValidationCorrect` says the same of the search of `validate_registrations`, which
skips what another branch has visited, and so could skip a cycle. Its invariant,
`ValidationInv`, says why it does not: what has been visited and left (`Finished`)
leads only to what has been, and has no cycle in it (`Sound`); a type on the path has
only finished types behind it and the next type of the path before it (`LookedAt`);
hence whatever closes a cycle closes it through the path. A search that has ended
leaves a sound set around the type it started from (`Cleared`), and the union of sound
sets is sound, so a search that comes to its end without a cycle has shown that there
is none.

**DependencyProofs**, the calls. `ContainerAcyclic` and `OnlyClosuresRecurse`: a
call of `resolve` that runs into its own type through declared factories only
would be a cycle in the graph. `StableSingletons` and `SharedSingletons` would be
plain if resolution could not run into itself; since it can, through closures,
an inner call might make and cache a singleton that the outer call is about to
make. `InnerWaits` excludes it: the inner call for a type waits for the very
dependency that the outer one is resolving, so it can never return. Then nothing
that is under construction is in a cache (`UnderConstruction`), and what has been
handed out is what the root's cache holds (`Delivered`). `ContainerTypesCorrect`
needs `Made`: instances are numbered as they are made, and whatever a cache, a call
or an instance holds has been. `ContainerImplementsGraph`: every step of the container
is a registration of the graph or leaves it alone, so that what is proved of the graph
holds of the container (`ContainerSearchCorrect`).

**ErrorTaxonomyProofs.** `Mro` is a recursive function, which defines something only
if a function satisfies its equation. That one does is shown by unrolling the equation
six times, the depth of the hierarchy. From it follow, class by class and tier by tier,
what `isinstance` and the look-up of the nearest mapping give (`IsAClimbs`,
`NearestMapped`). `TranslationIsDomain`: whatever mappings are registered, as long as they are to
domain errors, a translation is a domain error or fails with a `TypeError`.
`DefaultStatuses`: under the mappings of the package, whatever a handler raises is
answered with 400, 502 or 500 by what it is, translated or not.

**QueryPipelineProofs.** One invariant, `PipelineInv`, carries the safety of a
request: its agent is open exactly while it is inside its context; an outcome is known
exactly from the moment the context is left; a request that was cancelled and went on
cannot have an answer, because each action that answers is closed to a request with a
cancellation pending, and one that has met it is on its way out; and the events of a
stream are in order, with the end only after a result and only from an agent that has
no more. From it follow `AgentsAreReleased`, `StreamsDoEndProperly` and
`QueryKeepsContract`: every step of the pipeline is a step or a stutter of
`TaskContract`. `LogoffIsSound` and `SessionsComeOnDemand` go through
the steps one by one and need the types of the sessions only, and where the request is.
`CallersSeeOneError`: an outcome which is an error
is `QueryProcessingError`, whatever was raised underneath and however the handlers on
its way nest; that it is answered with 500 comes from `ErrorTaxonomyProofs`.

**RequestPathProofs.** One invariant, `PathInv`, over stacks of any length and order.
For a request it says where it may be (`PlaceOK`), which id each layer that has been
entered has taken and what it has handed on (`IdsOK`), what a response or an error on its way
out carries so far, by the layers that it has left (`ResultOK`), and which lines
have been written (`LinesOK`); of the translator, that its mappings are the default
ones until some are registered, and that a mapping to a class which takes more than a
message was registered (`TranslatorOK`). Every step of one request leaves the others alone
(`OthersKeep`); the lemmas `Enter...Keeps` and `Leave...Keeps` follow one request
through a layer. From the invariant follow `ErrorsReachClients`, `IdsOfRequestAgree`
and `RequestsAreAccounted`. The first has two exceptions, and they are the only two: a
client whose own id is too long for a response, and a mapping to a class that takes more
than a message; the server answers then.

**ToolRegistryProofs.** Everything rests on what a step can do to one entry of
the registry, stated once (`Changed`, `Entries`): it stays, or it becomes a tool
of the application, or one that a source offers under that very key, or it goes
and the key is in `removed`. `DisplacedByNamesakes` and `ValidationCorrect` follow
directly: the container never loses a type and the manager checks before it
registers. `AcceptedCorrect` adds that a file is counted in the step that
registers its tools (`AcceptedTaken`: all of them, since none raised) and that
an entry once there only changes hands (`Kept`). `AgentsCorrect` needs an
invariant of its own, `ConfiguredInv`: when the service is initialized, or an
agent has read the registry, the modules with a TOOL_SPEC are in there unless
they were unregistered; every other form reaches the agent by being loaded again.
The last source that writes a key exists because a non-empty set of numbers with
a bound has a greatest element (`GreatestExists`, from the well-foundedness of
`<` on the naturals).

**ConfigurationLoadProofs.** First `_set_nested`, for a dictionary of any shape and a
path of any length. `Loop(t, path, i)` says what `i` iterations of its loop leave: every
beginning of the path of at most `i` segments is a dictionary, the rest is as it was.
One iteration leads from `Loop(t, path, i - 1)` to `Loop(t, path, i)` (`LoopStep`), so
that `Loop` solves the equation of the recursive function in `Opened`; that it is the
only solution is shown by the least iteration at which another one would differ, which
there is none of (`OpenedShape`). From what is left at every path (`SetNestedShape`)
follows that it is a dictionary again (`SetNestedDict`) and what its settings are:
`SetNestedLeaves`, those that are neither above nor below the path, and the new ones.

Then the load, with one invariant, `LoadInv`. The overrides are those of the variables
that have been read, each at one place, and as many as variables if no two of these
differ in case only (`Collected`); the dictionary is what the file and the overrides
merged so far give, and none of these was too large (`Merging`); and a load that stopped
for a variable would have stopped in any order. `LayersAlwaysHold` follows from `Merging`
directly, and `LimitIsOfNames` from `Collected`: a load that has read every variable has
an override for every name. `OrderIsNoAccident` needs two steps more: a load that comes to its end has
read every variable and found none that any order would refuse (`RefusalFails`), and of
variables that are apart no override takes away what another sets (`ApartAllStay`).

Only model-checked is liveness: `ShutdownTerminates`, `ClosedSettlesAll`,
`OperationEnds` and the liveness of the two contracts, which TLAPS does not reach. Every
invariant and every action property of the runs, and the safety of both refinements, is
proved.

## Where the code and its documentation part

| run | what is said | what the code does |
|---|---|---|
| `same_id_survives` | `service.py:196`: shutdown "ensures all active queries are completed or cancelled" | two queries of one text in one millisecond share an entry; one is forgotten |
| `modules_unregistered` | `factory.py:1132`: "Load tools from AgentConfig and register them on the tool registry" | a module of `@tool` functions yields a list (`tool_loader.py:536`, where line 326 says "returns function"); `factory.py:1158` takes the list for one tool, `register_tool` ignores it, and the log says it was registered. Agents have the functions all the same, in that list (`AgentsServeConfigured`); the registry has not |
| `sessions_unlisted` | `chat_historian.py:81`: "Retrieves a list of all chat sessions"; `docs/guides/sessions.md:51`: "# List all sessions" | the metadata of a file session is parsed from the text of `session.json` without decrypting it (`chat_historian.py:154`), so a session that the package itself has stored, sealed, is left out; of S3 the list is empty |

More of the kind shows in the models and has no run of its own. Four are stated in
their modules as definitions that a run which lists them finds violated:
`QueriesTimeOut` (`docs/guides/observability.md:118`: "The default query timeout is 30
seconds"; nothing limits the time of the agent),
`ShutdownWaitsForAdmitted` (`docs/guides/observability.md:130`: shutdown "waits up to
30 seconds for in-flight queries"; a query is tracked only after its session is
ensured), `ScopesIsolated` (`core/container.py:148`, `:162`: a scope is for
"request-scoped instances", "for scope isolation"; the dependencies of an instance of
a scope come from the root) and `RejectedRegisterNothing` (`_tool_factory.py:181`:
"Nothing from a rejected file is registered."; the tools of a file are registered one
by one, and those before the one that raises stay).

In `AgentService`: `service.py:126` asserts that the registry was "Set in
constructor"; `shutdown` drops it and clears `_initialized`, so a call of
`initialize` after it passes the guard and fails the assertion (the outcome
`asserted` of `InitStart`). Streams are never entered into `_active_queries`, so
shutdown neither awaits nor cancels them (`streamPc` is in no condition of
`CloseService`).

In `RetryExecution`: `core/lifecycle.py:303` promises a `QueryTimeoutError` when
the time is up; the loop catches its own timeout and counts it as a failed
attempt, until it raises `QueryProcessingError`. `attempt` is never reset, so an
operation in a context whose attempts an earlier operation has used up reaches
the statement that `core/lifecycle.py:415` says it "should not reach" (the
outcome `logic_error`); and for the same reason the first call of an operation is
delayed like a retry after an earlier operation that needed one (this is why
`BackoffBounded` grows with `ops`). Two contexts opened in one millisecond share
a key, and `get_active_contexts` misses one of them (the exception in
`ContextsSound`).

In `ToolRegistry`: two files whose last two path components agree overwrite each
other's tools in silence, and a prefix and a name are joined in the namespace that holds
the plain names too (`_tool_factory.py:293`), so that loading a directory displaces a tool
that the application has registered as, say, `tools__weather__forecast`; nothing in the
documentation promises otherwise (`OnlyNamesakesDisplace` says who can displace what). `register_tool` overwrites a tool with dependencies, where
`register_tool_with_dependencies` refuses to. An `initialize` that overlaps
another registers again what was unregistered in between. `factory.py:727` reads
the validation under `all_valid`, where the registry writes `valid`, so its
warning never comes; for dependencies it would have no cause to, by
`ValidationPasses`, but a tool that is registered and cannot be called
(`registry.py:272`) goes unmentioned.

In `QueryPipeline`: a `QueryTimeoutError` never leaves the orchestrator, since the
agent context wraps it (`WrapContext`); the context of a stream's error, with its
`retryable`, is lost in the same way. In `Sessions`: a session that a request names
while no session type is configured is a file of its own, which the historian, with no
repository, can neither list nor delete; only `destroy_session` reaches it
(`factory.py:415`).

In `ErrorTaxonomy` and `RequestPath`: the README of `fastapi` (line 51) gives 404 for
`ResourceNotFoundError`; the middleware gives 502, its class being an
`ExternalServiceError`. `translator.py:68` says that `translate_error` never raises;
line 283 raises a `TypeError` for a class that takes more than a message. The README
(lines 57 and 58) documents `STRANDS_CORS_METHODS` and `STRANDS_CORS_HEADERS`; the code
reads `STRANDS_CORS_ALLOW_METHODS` and `STRANDS_CORS_ALLOW_HEADERS`. For a client that
sent no id, up to three are in use (`IdsAgree`).

In `ConfigurationLoad`: an `InvalidConfigurationError` of a validator leaves
`load_config` as it is, where the docstring of `from_yaml` in
`strands/config/models.py` has a `ConfigurationError` of the configuration package; so
do the `OSError` of a file that cannot be read and the `TypeError` for a key of the file
that is no string. A field whose type is a class and that is set as a whole, in JSON,
stays a string. `STRANDS_ENABLE_MEMORY=1` is false to `from_env` and true to
`load_config`.

## What is not modelled

Types, protocols and field validation (`protocols/`, `types.py`, the HTTP and
configuration models but for the parts named above) have no control. Masking and TLS
are stateless helpers. Provider models, the agent, the session managers and the HTTP
server are external libraries; they appear as what they may do to this code: answer,
fail, run on, be cancelled, cancel. `create_default_container` is an instance of the
container with fixed data; that its factories resolve in closures is in
`DependencyContainer`.

Parts of modelled components that are left:

- of the container, registrations on a scope and scopes of scopes;
- of the service, `get_service_health`, which only reads;
- of the tool loader, the syntactic analysis of a source, whose verdict is data here;
- of the tool factory, `create_tool_factory`, which wraps functions for its caller;
- of the factory, `create_agent_with_mcp_clients` with `_collect_mcp_tools` (which
  starts clients that it never stops, `factory.py:573`), provider models and
  `validate_agent_configuration`;
- of the historian, offset and limit of a listing, and the contents of messages;
- of the translator, `classify_error` and `should_retry`, which nothing in the
  packages calls, and the context of an error, which is data (`preserve_error_context`);
- of the configuration, `from_env` and the validators of single fields.

## Plan

Done: the service, its lifecycle tables and its contract; the retry loop; the
container and its validation; the tool registry; the query pipeline with sessions and
errors; the path of an HTTP request; the layered configuration. What could follow:

1. The MCP clients of the factory: a client is started for its tools and has to be
   stopped with its agent.
2. `DefaultContainer`, an instance of `DependencyContainer` with the wiring of the
   package, and registrations on scopes.
