---------------------------- MODULE AgentService ----------------------------
(***************************************************************************)
(* AgentService: start-up, admission of queries and streams, the table of  *)
(* in-flight queries and graceful shutdown.                                *)
(*                                                                         *)
(* The service runs on one asyncio event loop.  An action is the code      *)
(* between two suspension points of one coroutine, so the interleavings of *)
(* the specification are those of the loop.  Every query has two           *)
(* coroutines: process_query itself (pc) and the task that runs            *)
(* _execute_query_processing (task), which process_query awaits.           *)
(*                                                                         *)
(* _active_queries maps an id, made of the hash of the query's text and a  *)
(* millisecond reading of the clock, to a task.  It is modelled by the set *)
(* of the queries whose task it holds; their ids are distinct.             *)
(***************************************************************************)
EXTENDS Integers, RequestLifecycle

CONSTANTS
    Queries,        \* calls of process_query
    Streams,        \* calls of process_query_stream
    Initializers,   \* calls of initialize
    Shutdowners,    \* calls of shutdown
    Hash            \* the hash of each query's text

ASSUME ServiceAssumption ==
    /\ Queries \union Streams = Requests
    /\ Queries \intersect Streams = {}
    /\ DOMAIN Hash = Queries

VARIABLES
    initialized,     \* _initialized
    shutdownEvent,   \* _shutdown_event.is_set()
    components,      \* the six component references are set: they are cleared together
    initPc,          \* where each call of initialize is
    downPc,          \* where each call of shutdown is
    waitsFor,        \* the queries whose tasks a call of shutdown gathered
    pc,              \* where each call of process_query is
    admittedAt,      \* the clock reading in the id of each query
    active,          \* _active_queries: the queries whose task it holds
    task,            \* the task of each query
    cancelReq,       \* the queries whose task has been asked to cancel
    streamPc         \* where each call of process_query_stream is

serviceVars == <<initialized, shutdownEvent, components>>
queryVars == <<pc, admittedAt, active, task, cancelReq>>
vars == <<serviceVars, queryVars, initPc, downPc, waitsFor, streamPc, lifecycleVars>>

-----------------------------------------------------------------------------
(* The table of in-flight queries.                                         *)

Settled == {"rejected", "responded", "failed", "cancelled"}

\* The states of a task that has ended.
Ended == {"response", "error", "cancelled"}

Done(q) == task[q] \in Ended

SameId(p, q) == Hash[p] = Hash[q] /\ admittedAt[p] = admittedAt[q]

\* A fault the checks must find: a query stays in the table.
PopNothing(q) == active

\* _active_queries.pop(query_id, None)
Popped(q) == {p \in active : ~SameId(p, q)}

\* A fault the checks must find: nothing is cancelled.
CancelNothing(S) == UNCHANGED cancelReq

\* task.cancel() on every task of S that is not done.
Cancel(S) == cancelReq' = cancelReq \union {q \in S : ~Done(q)}

\* A fault the checks must find: the guard on the shutdown event is missing.
AdmittingInShutdown == initialized

\* process_query_stream and process_query, past their guards.
Admitting == initialized /\ ~shutdownEvent

Init ==
    /\ initialized = FALSE
    /\ shutdownEvent = FALSE
    /\ components = TRUE
    /\ initPc = [i \in Initializers |-> "idle"]
    /\ downPc = [d \in Shutdowners |-> "idle"]
    /\ waitsFor = [d \in Shutdowners |-> {}]
    /\ pc = [q \in Queries |-> "idle"]
    /\ admittedAt = [q \in Queries |-> NoInstant]
    /\ active = {}
    /\ task = [q \in Queries |-> "none"]
    /\ cancelReq = {}
    /\ streamPc = [s \in Streams |-> "idle"]
    /\ LifecycleInit

-----------------------------------------------------------------------------
(* initialize                                                              *)

InitStart(i) ==
    /\ initPc[i] = "idle"
    /\ \/ initialized /\ initPc' = [initPc EXCEPT ![i] = "done"]
       \/ ~initialized /\ components /\ initPc' = [initPc EXCEPT ![i] = "loading"]
       \/ ~initialized /\ ~components /\ initPc' = [initPc EXCEPT ![i] = "asserted"]
       \/ ~initialized /\ initPc' = [initPc EXCEPT ![i] = "failed"]   \* no configuration
    /\ UNCHANGED <<serviceVars, queryVars, downPc, waitsFor, streamPc, lifecycleVars>>

\* load_configured_tools has returned: it reports no error.
InitFinish(i) ==
    /\ initPc[i] = "loading"
    /\ initialized' = TRUE
    /\ initPc' = [initPc EXCEPT ![i] = "done"]
    /\ UNCHANGED <<shutdownEvent, components, queryVars, downPc, waitsFor, streamPc, lifecycleVars>>

\* The caller of initialize is cancelled while the tools load.
InitCancelled(i) ==
    /\ initPc[i] = "loading"
    /\ initPc' = [initPc EXCEPT ![i] = "cancelled"]
    /\ UNCHANGED <<serviceVars, queryVars, downPc, waitsFor, streamPc, lifecycleVars>>

-----------------------------------------------------------------------------
(* process_query                                                           *)

\* The guards, and the id of an admitted query.  The query is then suspended
\* while the chat history manager makes sure that the session exists.
ProcessQuery(q) ==
    /\ pc[q] = "idle"
    /\ \/ /\ ~Admitting
          /\ pc' = [pc EXCEPT ![q] = "rejected"]
          /\ UNCHANGED admittedAt
       \/ /\ Admitting
          /\ pc' = [pc EXCEPT ![q] = "ensuring"]
          /\ \E ms \in Instants : admittedAt' = [admittedAt EXCEPT ![q] = ms]
    /\ UNCHANGED <<serviceVars, active, task, cancelReq, initPc, downPc, waitsFor,
                   streamPc, lifecycleVars>>

\* The session call is over, whatever its outcome: open a context, create the
\* task and track it.
Register(q) ==
    /\ pc[q] = "ensuring"
    /\ components
    /\ OpenContext(q)
    /\ task' = [task EXCEPT ![q] = "scheduled"]
    /\ active' = Popped(q) \union {q}
    /\ pc' = [pc EXCEPT ![q] = "awaiting"]
    /\ UNCHANGED <<serviceVars, admittedAt, cancelReq, initPc, downPc, waitsFor, streamPc>>

\* The session call is over but the lifecycle manager is gone.
RegisterFails(q) ==
    /\ pc[q] = "ensuring"
    /\ ~components
    /\ active' = Popped(q)
    /\ pc' = [pc EXCEPT ![q] = "failed"]
    /\ UNCHANGED <<serviceVars, admittedAt, task, cancelReq, initPc, downPc, waitsFor,
                   streamPc, lifecycleVars>>

\* The first step of _execute_query_processing.  A task cancelled before it
\* starts never runs; one that finds no orchestrator raises.
TaskStart(q) ==
    /\ task[q] = "scheduled"
    /\ \/ q \in cancelReq /\ task' = [task EXCEPT ![q] = "cancelled"]
       \/ q \notin cancelReq /\ components /\ task' = [task EXCEPT ![q] = "running"]
       \/ q \notin cancelReq /\ ~components /\ task' = [task EXCEPT ![q] = "error"]
    /\ UNCHANGED <<serviceVars, pc, admittedAt, active, cancelReq, initPc, downPc, waitsFor,
                   streamPc, lifecycleVars>>

\* The orchestrator returns or raises on its own.
TaskFinish(q) ==
    /\ task[q] = "running"
    /\ q \notin cancelReq
    /\ \E outcome \in {"response", "error"} : task' = [task EXCEPT ![q] = outcome]
    /\ UNCHANGED <<serviceVars, pc, admittedAt, active, cancelReq, initPc, downPc, waitsFor,
                   streamPc, lifecycleVars>>

\* The cancellation reaches the agent, which may turn it into an error.
TaskCancelled(q) ==
    /\ task[q] = "running"
    /\ q \in cancelReq
    /\ \E outcome \in {"cancelled", "error"} : task' = [task EXCEPT ![q] = outcome]
    /\ UNCHANGED <<serviceVars, pc, admittedAt, active, cancelReq, initPc, downPc, waitsFor,
                   streamPc, lifecycleVars>>

\* A fault the checks must find: the end of the task is passed on as it is.
OutcomeOfTask(t) == t

\* What process_query does with a task that has ended.
Outcome(t) == CASE t = "response" -> "responded"
                [] t = "error" -> "failed"
                [] t = "cancelled" -> "cancelled"

\* process_query resumes: both clean-ups run on every path out of it.
Leave(q, how) ==
    /\ active' = Popped(q)
    /\ CloseContext(q)
    /\ pc' = [pc EXCEPT ![q] = how]
    /\ UNCHANGED <<serviceVars, admittedAt, task, cancelReq, initPc, downPc, waitsFor, streamPc>>

QueryReturn(q) ==
    /\ pc[q] = "awaiting"
    /\ Done(q)
    /\ Leave(q, Outcome(task[q]))

\* The caller is cancelled after the task has ended and before it resumes.
QueryReturnCancelled(q) ==
    /\ pc[q] = "awaiting"
    /\ Done(q)
    /\ Leave(q, "cancelled")

\* The caller (the HTTP server, on a disconnect) cancels process_query.
CancelCaller(q) ==
    /\ \/ /\ pc[q] = "ensuring"
          /\ pc' = [pc EXCEPT ![q] = "cancelled"]
          /\ UNCHANGED cancelReq
       \/ /\ pc[q] = "awaiting" /\ ~Done(q) /\ q \notin cancelReq
          /\ Cancel({q})
          /\ UNCHANGED pc
    /\ UNCHANGED <<serviceVars, admittedAt, active, task, initPc, downPc, waitsFor,
                   streamPc, lifecycleVars>>

-----------------------------------------------------------------------------
(* process_query_stream                                                    *)

\* The guards and the context, at the first event the consumer asks for.
StreamStart(s) ==
    /\ streamPc[s] = "idle"
    /\ \/ /\ ~Admitting \/ ~components
          /\ streamPc' = [streamPc EXCEPT ![s] = "rejected"]
          /\ UNCHANGED lifecycleVars
       \/ /\ Admitting /\ components
          /\ OpenContext(s)
          /\ streamPc' = [streamPc EXCEPT ![s] = "streaming"]
    /\ UNCHANGED <<serviceVars, queryVars, initPc, downPc, waitsFor>>

\* The last event, an error, or the consumer closes the generator.
StreamEnd(s) ==
    /\ streamPc[s] = "streaming"
    /\ CloseContext(s)
    /\ streamPc' = [streamPc EXCEPT ![s] = "ended"]
    /\ UNCHANGED <<serviceVars, queryVars, initPc, downPc, waitsFor>>

-----------------------------------------------------------------------------
(* shutdown                                                                *)

\* A fault the checks must find: the stragglers are not cancelled.
CloseServiceNoCancel(d) ==
    /\ components' = FALSE
    /\ initialized' = FALSE
    /\ downPc' = [downPc EXCEPT ![d] = "done"]
    /\ UNCHANGED cancelReq

\* A fault the checks must find: only the tasks gathered earlier are cancelled.
CloseServiceGathered(d) ==
    /\ Cancel(waitsFor[d])
    /\ components' = FALSE
    /\ initialized' = FALSE
    /\ downPc' = [downPc EXCEPT ![d] = "done"]

\* The end of _wait_for_active_queries and of shutdown, in one segment: cancel
\* what the table still holds, then drop the components.
CloseService(d) ==
    /\ Cancel(active)
    /\ components' = FALSE
    /\ initialized' = FALSE
    /\ downPc' = [downPc EXCEPT ![d] = "done"]

ShutdownSkip(d) ==
    /\ downPc[d] = "idle"
    /\ ~initialized
    /\ downPc' = [downPc EXCEPT ![d] = "done"]
    /\ UNCHANGED <<serviceVars, queryVars, initPc, waitsFor, streamPc, lifecycleVars>>

\* Signal the shutdown and gather the tasks of the table; when they have all
\* ended the gather is complete at once and shutdown does not suspend.
ShutdownBegin(d) ==
    /\ downPc[d] = "idle"
    /\ initialized
    /\ shutdownEvent' = TRUE
    /\ waitsFor' = [waitsFor EXCEPT ![d] = active]
    /\ \/ /\ \A q \in active : Done(q)
          /\ CloseService(d)
       \/ /\ \E q \in active : ~Done(q)
          /\ downPc' = [downPc EXCEPT ![d] = "waiting"]
          /\ UNCHANGED <<initialized, components, cancelReq>>
    /\ UNCHANGED <<pc, admittedAt, active, task, initPc, streamPc, lifecycleVars>>

\* The 30 seconds of grace are over: wait_for cancels the gathered tasks, and
\* waits for them.
ShutdownTimeout(d) ==
    /\ downPc[d] = "waiting"
    /\ \E q \in waitsFor[d] : ~Done(q)
    /\ Cancel(waitsFor[d])
    /\ downPc' = [downPc EXCEPT ![d] = "timedout"]
    /\ UNCHANGED <<serviceVars, pc, admittedAt, active, task, initPc, waitsFor, streamPc,
                   lifecycleVars>>

ShutdownFinish(d) ==
    /\ downPc[d] \in {"waiting", "timedout"}
    /\ \A q \in waitsFor[d] : Done(q)
    /\ CloseService(d)
    /\ UNCHANGED <<shutdownEvent, pc, admittedAt, active, task, initPc, waitsFor, streamPc,
                   lifecycleVars>>

\* The caller of shutdown is cancelled: the gathered tasks are cancelled too.
ShutdownCancelled(d) ==
    /\ downPc[d] \in {"waiting", "timedout"}
    /\ Cancel(waitsFor[d])
    /\ downPc' = [downPc EXCEPT ![d] = "aborting"]
    /\ UNCHANGED <<serviceVars, pc, admittedAt, active, task, initPc, waitsFor, streamPc,
                   lifecycleVars>>

\* The cancellation leaves shutdown once the gathered tasks have ended; neither
\* the components nor the flags are touched.
ShutdownAborted(d) ==
    /\ downPc[d] = "aborting"
    /\ \A q \in waitsFor[d] : Done(q)
    /\ downPc' = [downPc EXCEPT ![d] = "aborted"]
    /\ UNCHANGED <<serviceVars, queryVars, initPc, waitsFor, streamPc, lifecycleVars>>

-----------------------------------------------------------------------------

InitStep(i) == InitStart(i) \/ InitFinish(i) \/ InitCancelled(i)

QueryStep(q) ==
    \/ ProcessQuery(q) \/ Register(q) \/ RegisterFails(q)
    \/ TaskStart(q) \/ TaskFinish(q) \/ TaskCancelled(q)
    \/ QueryReturn(q) \/ QueryReturnCancelled(q) \/ CancelCaller(q)

StreamStep(s) == StreamStart(s) \/ StreamEnd(s)

ShutdownStep(d) ==
    \/ ShutdownSkip(d) \/ ShutdownBegin(d) \/ ShutdownTimeout(d)
    \/ ShutdownFinish(d) \/ ShutdownCancelled(d) \/ ShutdownAborted(d)

\* Every call has returned.
AllReturned ==
    /\ \A q \in Queries : pc[q] \in Settled
    /\ \A s \in Streams : streamPc[s] \in {"rejected", "ended"}
    /\ \A i \in Initializers : initPc[i] \notin {"idle", "loading"}
    /\ \A d \in Shutdowners : downPc[d] \in {"done", "aborted"}

Next ==
    \/ \E i \in Initializers : InitStep(i)
    \/ \E q \in Queries : QueryStep(q)
    \/ \E s \in Streams : StreamStep(s)
    \/ \E d \in Shutdowners : ShutdownStep(d)
    \/ AllReturned /\ UNCHANGED vars

Spec == Init /\ [][Next]_vars

(***************************************************************************)
(* The event loop runs what is ready, the grace period ends, a session     *)
(* call returns and a cancelled agent ends.  Nothing makes a caller call,  *)
(* and nothing makes the agent answer: the orchestrator awaits             *)
(* invoke_async with no time limit.                                        *)
(***************************************************************************)
LoopFairness ==
    /\ \A q \in Queries : /\ WF_vars(Register(q)) /\ WF_vars(RegisterFails(q))
                          /\ WF_vars(TaskStart(q)) /\ WF_vars(TaskCancelled(q))
                          /\ WF_vars(QueryReturn(q))
    /\ \A d \in Shutdowners : /\ WF_vars(ShutdownTimeout(d)) /\ WF_vars(ShutdownFinish(d))
                              /\ WF_vars(ShutdownAborted(d))

FairSpec == Spec /\ LoopFairness

-----------------------------------------------------------------------------
(* Properties.                                                             *)

\* The values each variable of the service may take.
TypeOK ==
    /\ initialized \in BOOLEAN
    /\ shutdownEvent \in BOOLEAN
    /\ components \in BOOLEAN
    /\ initPc \in [Initializers -> {"idle", "loading", "done", "failed", "asserted", "cancelled"}]
    /\ downPc \in [Shutdowners ->
                     {"idle", "waiting", "timedout", "aborting", "done", "aborted"}]
    /\ waitsFor \in [Shutdowners -> SUBSET Queries]
    /\ pc \in [Queries -> {"idle", "ensuring", "awaiting"} \union Settled]
    /\ admittedAt \in [Queries -> Instants \union {NoInstant}]
    /\ active \subseteq Queries
    /\ task \in [Queries -> {"none", "scheduled", "running"} \union Ended]
    /\ cancelReq \subseteq Queries
    /\ streamPc \in [Streams -> {"idle", "rejected", "streaming", "ended"}]
    /\ LifecycleTypeOK

\* Another call of process_query was given the id of q.
IdShared(q) == \E p \in Queries \ {q} : admittedAt[q] # NoInstant /\ SameId(p, q)

\* The table of in-flight queries is what shutdown relies on: it holds only
\* queries whose caller awaits their task, at most one per id, and it misses
\* such a query only when another query was given the same id.
TableSound ==
    /\ \A q \in active : pc[q] = "awaiting"
    /\ \A p, q \in active : SameId(p, q) => p = q
    /\ \A q \in Queries : pc[q] = "awaiting" => q \in active \/ IdShared(q)

\* chat_history asserts that the historian is there once its two guards are
\* passed, and process_query and process_query_stream rely on the same: a service
\* that admits requests has its components, whatever the order in which calls
\* of initialize and shutdown overlap.
AdmittingHasComponents == Admitting => components

\* When the components are gone, every query whose id is its own has ended or
\* has been told to: none runs on against a service that is closed.
ClosedMeansStopped ==
    ~components =>
        \A q \in Queries : pc[q] = "awaiting" => Done(q) \/ q \in cancelReq \/ IdShared(q)

\* The check in _execute_query_processing never fires: a task that is going to
\* start finds the orchestrator, unless another query was given its id.
StartsWithOrchestrator ==
    \A q \in Queries :
        task[q] = "scheduled" /\ q \notin cancelReq => components \/ IdShared(q)

\* Requests whose context must be in the lifecycle manager's table.
InFlight == {q \in Queries : pc[q] = "awaiting"} \union
            {s \in Streams : streamPc[s] = "streaming"}

\* Cancellations, failures and shared keys leak no context: what the tables hold
\* belongs to a request in flight, and a request in flight misses from them only
\* when another one was given its key.
ContextsSound ==
    /\ openContexts \subseteq InFlight
    /\ retryContexts \subseteq {r \in InFlight : Retries(r)}
    /\ \A r \in InFlight :
         r \in openContexts \/ \E p \in Requests \ {r} : openedAt[p] = openedAt[r]

\* A call of shutdown always comes to an end: what it waits for is bounded by the
\* grace period, even when no query would end on its own.
ShutdownTerminates ==
    \A d \in Shutdowners : downPc[d] = "waiting" ~> downPc[d] \in {"done", "aborted"}

\* Once the service is closed, every admitted query comes to its end.
ClosedSettlesAll ==
    \A q \in Queries :
        ~components /\ pc[q] \in {"ensuring", "awaiting"} ~> pc[q] \in Settled

-----------------------------------------------------------------------------
(* What the documentation says of the service and the code does not do.    *)

\* shutdown "ensures all active queries are completed or cancelled": queries of
\* one text, admitted in one millisecond.
ShutdownStopsAll ==
    ~components => \A q \in Queries : pc[q] = "awaiting" => Done(q) \/ q \in cancelReq

\* shutdown "waits up to 30 seconds for in-flight queries to complete": a query
\* past the guards of process_query, whose session is being ensured.
ShutdownWaitsForAdmitted ==
    ~components => \A q \in Queries : pc[q] # "ensuring"

\* "Queries that exceed the timeout raise QueryProcessingError and are cleaned up
\* from the active-query tracker".
QueriesTimeOut == \A q \in Queries : pc[q] = "awaiting" ~> pc[q] \in Settled

-----------------------------------------------------------------------------
(* The service implements its contract when no two queries share an id.    *)

phaseBar == IF ~components THEN "closed"
            ELSE IF shutdownEvent THEN "draining"
            ELSE IF initialized THEN "ready" ELSE "new"

\* A query is stopping when its own steps lead it to its end.
Stopping(q) ==
    \/ pc[q] = "ensuring" /\ ~components
    \/ pc[q] = "awaiting" /\ (Done(q) \/ q \in cancelReq)

Status(q) == IF pc[q] = "idle" THEN "outside"
             ELSE IF pc[q] \in Settled THEN "gone"
             ELSE IF Stopping(q) THEN "stopping" ELSE "working"

statusBar == [q \in Queries |-> Status(q)]

Contract == INSTANCE ServiceContract WITH phase <- phaseBar, status <- statusBar

\* The service keeps the contract, safety and liveness: AgentService.process_query
\* and AgentService.shutdown, against ServiceContract.
ImplementsContract == Contract!Spec

=============================================================================
