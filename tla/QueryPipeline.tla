--------------------------- MODULE QueryPipeline ---------------------------
(***************************************************************************)
(* A query or a stream on its way through QueryOrchestrator: the agent     *)
(* that StrandsAgentFactory makes for it, its run, the clean-up, and the   *)
(* class of the error that the caller sees.                                *)
(*                                                                         *)
(* Requests run on one event loop: an action is the code between two       *)
(* suspension points of one request.  The agent, the libraries and the     *)
(* consumer of a stream are external: they may take any step that the code *)
(* below can meet.                                                         *)
(***************************************************************************)
EXTENDS Sessions, ErrorTaxonomy

CONSTANTS
    Queries,     \* calls of process_query
    Streams,     \* calls of process_query_stream
    SessionOf,   \* the session id of each request
    MaxTokens    \* bound: text chunks of one stream

Requests == Queries \union Streams

ASSUME PipelineAssumption ==
    /\ Queries \intersect Streams = {}
    /\ SessionOf \in [Requests -> SessionIds \union {NoId}]
    /\ MaxTokens \in Nat
    /\ \A c \in Configs : c.sources \in BOOLEAN /\ c.a2a \in BOOLEAN

VARIABLES
    pc,          \* where each request is
    agent,       \* the agent of each request
    outcome,     \* how each request ends: known before its agent is closed
    cancelReq,   \* the requests whose task has been asked to cancel
    pending,     \* those that have not met the cancellation yet
    events,      \* the kinds of the events each stream has yielded
    exhausted    \* the streams whose agent has no more events

pipelineVars == <<pc, agent, outcome, cancelReq, pending, events, exhausted>>
vars == <<pipelineVars, sessionVars>>

Undecided == "undecided"

PipelineInit ==
    /\ pc = [r \in Requests |-> "idle"]
    /\ agent = [r \in Requests |-> "none"]
    /\ outcome = [r \in Requests |-> Undecided]
    /\ cancelReq = {}
    /\ pending = {}
    /\ events = [s \in Streams |-> <<>>]
    /\ exhausted = {}

Init == SessionsInit /\ PipelineInit

-----------------------------------------------------------------------------
(* The error that leaves each layer, given the one that reaches it.  None  *)
(* of the layers catches CancelledError or GeneratorExit.                  *)

\* create_agent
WrapCreate(e) ==
    IF IsA(e, "AgentCreationError") \/ IsA(e, "ExternalServiceError") THEN e
    ELSE "AgentCreationError"

\* create_agent_with_tool_registry
WrapRegistry(e) == IF IsA(e, "AgentCreationError") THEN e ELSE "AgentCreationError"

\* _execute_agent_processing
WrapExecute(e) ==
    IF IsA(e, "TimeoutError") \/ IsA(e, "QueryTimeoutError") THEN "QueryTimeoutError"
    ELSE "QueryProcessingError"

\* process_query_stream
WrapStream(e) == IF IsA(e, "QueryProcessingError") THEN e ELSE "QueryProcessingError"

\* A fault the checks must find: domain errors pass the context as they are.
WrapContextForeign(e) == IF IsA(e, "DomainError") THEN e ELSE "QueryProcessingError"

\* _create_agent_context: the body of the context is inside its try, so what the
\* run of the agent raises is wrapped a second time.
WrapContext(e) == "QueryProcessingError"

\* process_query of the orchestrator
WrapQuery(e) == IF IsA(e, "QueryProcessingError") THEN e ELSE "QueryProcessingError"

\* AgentService.process_query and StrandsAgentBackend.process_message
WrapCaller(e) == IF IsA(e, "QueryProcessingError") THEN e ELSE "QueryProcessingError"

\* What the caller sees of an error inside the context.
Seen(r, e) == IF r \in Streams THEN WrapContext(e)
              ELSE WrapCaller(WrapQuery(WrapContext(e)))

SeenOfCreation(r, e) == Seen(r, WrapRegistry(WrapCreate(e)))

SeenOfRun(r, e) == Seen(r, IF r \in Streams THEN WrapStream(e) ELSE WrapExecute(e))

-----------------------------------------------------------------------------
(* Creating the agent.                                                     *)

\* No agent is there to be closed: the request ends.
End(r, how) ==
    /\ pc' = [pc EXCEPT ![r] = "ended"]
    /\ outcome' = [outcome EXCEPT ![r] = how]
    /\ pending' = pending \ {r}
    /\ UNCHANGED <<agent, cancelReq, events, exhausted>>

GoTo(r, where) ==
    /\ pc' = [pc EXCEPT ![r] = where]
    /\ UNCHANGED <<agent, outcome, cancelReq, pending, events, exhausted>>

\* create_agent from the memory tool on: telemetry may fail before there is a
\* session manager, the model and the agent after it.
Assemble(r) ==
    \/ End(r, SeenOfCreation(r, "AgentCreationError")) /\ UNCHANGED sessionVars
    \/ /\ AgentSessionOpens(SessionOf[r])
       /\ store' = WithAgentSession(SessionOf[r])
       /\ UNCHANGED <<config, key, calls, reply>>
       /\ \/ \E e \in {"AgentCreationError", "RuntimeError"} : End(r, SeenOfCreation(r, e))
          \/ /\ pc' = [pc EXCEPT ![r] = "running"]
             /\ agent' = [agent EXCEPT ![r] = "open"]
             /\ UNCHANGED <<outcome, cancelReq, pending, events, exhausted>>

\* create_agent after the tools: MCP clients are made, not connected; a server
\* without a url raises, and so does the TLS context for A2A.
Connect(r) ==
    \/ /\ \E e \in {"ExternalServiceError", "KeyError"} : End(r, SeenOfCreation(r, e))
       /\ UNCHANGED sessionVars
    \/ config.a2a /\ GoTo(r, "discovering") /\ UNCHANGED sessionVars
    \/ ~config.a2a /\ Assemble(r)

\* process_query of the service, as far as the creation of the task; through the
\* backend no session is ensured and there is no task of its own.
Ask(q) ==
    /\ q \in Queries
    /\ pc[q] = "idle"
    /\ GoTo(q, "scheduled")
    /\ EnsureSession \/ UNCHANGED sessionVars

\* The orchestrator, up to the first suspension: the query may be too long.
Begin(r) ==
    /\ pc[r] = IF r \in Queries THEN "scheduled" ELSE "idle"
    /\ r \notin pending
    /\ \/ /\ End(r, IF r \in Streams THEN "QueryProcessingError"
                    ELSE WrapCaller(WrapQuery("QueryProcessingError")))
          /\ UNCHANGED sessionVars
       \/ config.sources /\ GoTo(r, "loading") /\ UNCHANGED sessionVars
       \/ ~config.sources /\ Connect(r)

\* The configured sources are loaded: what fails to load is skipped.
LoadTools(r) ==
    /\ pc[r] = "loading"
    /\ r \notin pending
    /\ Connect(r)

\* The A2A agents were discovered, failed, or did not answer within 10 seconds.
DiscoverAgents(r) ==
    /\ pc[r] = "discovering"
    /\ r \notin pending
    /\ Assemble(r)

-----------------------------------------------------------------------------
(* The run of the agent and the end of its context.                        *)

\* A fault the checks must find: a cancelled run does not close its agent.
LeaveContextCaught(r, how) ==
    /\ outcome' = [outcome EXCEPT ![r] = how]
    /\ pc' = [pc EXCEPT ![r] = IF how \in {"cancelled", "abandoned"} THEN "ended"
                               ELSE "closing"]
    /\ pending' = pending \ {r}
    /\ UNCHANGED <<agent, cancelReq, events, exhausted, sessionVars>>

\* _create_agent_context: agent.close() is awaited on every path.
LeaveContext(r, how) ==
    /\ outcome' = [outcome EXCEPT ![r] = how]
    /\ pc' = [pc EXCEPT ![r] = "closing"]
    /\ pending' = pending \ {r}
    /\ UNCHANGED <<agent, cancelReq, events, exhausted, sessionVars>>

\* invoke_async returns, and the response is processed: an AgentResponse may be
\* out of its bounds.
AgentAnswers(q) ==
    /\ q \in Queries
    /\ pc[q] = "running"
    /\ q \notin pending
    /\ \/ LeaveContext(q, "answer")
       \/ LeaveContext(q, Seen(q, "PydanticError"))

\* invoke_async or stream_async raises, or the stream reports an error event.
AgentRaises(r) ==
    /\ pc[r] = "running"
    /\ r \notin pending
    /\ \E e \in {"TimeoutError", "RuntimeError", "QueryProcessingError"} :
         LeaveContext(r, SeenOfRun(r, e))

\* agent.close() returns, or raises what is only logged.
CloseAgent(r) ==
    /\ pc[r] = "closing"
    /\ r \notin pending
    /\ pc' = [pc EXCEPT ![r] = "ended"]
    /\ agent' = [agent EXCEPT ![r] = "closed"]
    /\ UNCHANGED <<outcome, cancelReq, pending, events, exhausted, sessionVars>>

-----------------------------------------------------------------------------
(* Cancellation: the caller leaves or the service shuts down.              *)

Suspended == {"scheduled", "loading", "discovering", "running", "closing"}

Cancel(r) ==
    /\ pc[r] \in Suspended
    /\ cancelReq' = cancelReq \union {r}
    /\ pending' = pending \union {r}
    /\ UNCHANGED <<pc, agent, outcome, events, exhausted, sessionVars>>

\* A fault the checks must find: an interrupted clean-up keeps the outcome.
InterruptedKeeps(r) ==
    /\ pc[r] = "closing"
    /\ End(r, outcome[r])
    /\ UNCHANGED sessionVars

\* agent.close() is interrupted: what it has not released stays.
InterruptClose(r) ==
    /\ pc[r] = "closing"
    /\ agent' = [agent EXCEPT ![r] = "interrupted"]
    /\ pc' = [pc EXCEPT ![r] = "ended"]
    /\ outcome' = [outcome EXCEPT ![r] = "cancelled"]
    /\ pending' = pending \ {r}
    /\ UNCHANGED <<cancelReq, events, exhausted, sessionVars>>

\* The request meets the cancellation where it is suspended; a running agent may
\* turn it into an error of its own.
MeetCancellation(r) ==
    /\ r \in pending
    /\ \/ /\ pc[r] \in {"scheduled", "loading", "discovering"}
          /\ End(r, "cancelled")
          /\ UNCHANGED sessionVars
       \/ /\ pc[r] = "running"
          /\ \/ LeaveContext(r, "cancelled")
             \/ LeaveContext(r, SeenOfRun(r, "RuntimeError"))
       \/ InterruptClose(r)

-----------------------------------------------------------------------------
(* Streams.  At every event the generator waits for its consumer.          *)

Yield(s, kind) ==
    /\ events' = [events EXCEPT ![s] = Append(@, kind)]
    /\ pc' = [pc EXCEPT ![s] = "yielding"]
    /\ UNCHANGED <<agent, outcome, cancelReq, pending, sessionVars>>

HasResult(s) == \E i \in DOMAIN events[s] : events[s][i] = "result"

Streaming(s) == s \in Streams /\ pc[s] = "running" /\ s \notin pending

\* The agent has text, or its result (the model lets it have one); other events are
\* skipped.
StreamEvent(s) ==
    /\ Streaming(s)
    /\ \/ Len(events[s]) < MaxTokens /\ Yield(s, "token")
       \/ ~HasResult(s) /\ Yield(s, "result")
    /\ UNCHANGED exhausted

\* A fault the checks must find: no result is made up for an agent that gave none.
StreamEndsPlainly(s) ==
    /\ Streaming(s)
    /\ Yield(s, "done")
    /\ exhausted' = exhausted \union {s}

\* The agent has no more events: without a result among them, the text is the result.
StreamEnds(s) ==
    /\ Streaming(s)
    /\ Yield(s, IF HasResult(s) THEN "done" ELSE "result")
    /\ exhausted' = exhausted \union {s}

\* The consumer asks for the next event.
Consume(s) ==
    /\ s \in Streams
    /\ pc[s] = "yielding"
    /\ \/ s \notin exhausted /\ GoTo(s, "running") /\ UNCHANGED sessionVars
       \/ /\ s \in exhausted /\ events[s][Len(events[s])] # "done"
          /\ Yield(s, "done")
          /\ UNCHANGED exhausted
       \/ /\ s \in exhausted /\ events[s][Len(events[s])] = "done"
          /\ LeaveContext(s, "answer")

\* The consumer closes the service's generator, which leaves the orchestrator's.
Abandon(s) ==
    /\ s \in Streams
    /\ pc[s] = "yielding"
    /\ GoTo(s, "abandoned")
    /\ UNCHANGED sessionVars

\* The event loop closes the generator that nobody refers to any more.
Reap(s) ==
    /\ s \in Streams
    /\ pc[s] = "abandoned"
    /\ LeaveContext(s, "abandoned")

-----------------------------------------------------------------------------

RequestStep(r) ==
    \/ Ask(r) \/ Begin(r) \/ LoadTools(r) \/ DiscoverAgents(r)
    \/ AgentAnswers(r) \/ AgentRaises(r) \/ CloseAgent(r)
    \/ Cancel(r) \/ MeetCancellation(r)
    \/ StreamEvent(r) \/ StreamEnds(r) \/ Consume(r) \/ Abandon(r) \/ Reap(r)

Next ==
    \/ \E r \in Requests : RequestStep(r)
    \/ HistorianStep /\ UNCHANGED pipelineVars
    \/ (\A r \in Requests : pc[r] = "ended") /\ UNCHANGED vars

(***************************************************************************)
(* The loop delivers cancellations and reaps generators, modules load, the *)
(* discovery has its timeout, and agent.close() returns.  Nothing makes an *)
(* agent answer or a consumer ask for an event.                            *)
(***************************************************************************)
Fairness ==
    \A r \in Requests :
        /\ WF_vars(r \in Queries /\ Begin(r))
        /\ WF_vars(LoadTools(r)) /\ WF_vars(DiscoverAgents(r))
        /\ WF_vars(CloseAgent(r)) /\ WF_vars(MeetCancellation(r)) /\ WF_vars(Reap(r))

Spec == Init /\ [][Next]_vars /\ Fairness

-----------------------------------------------------------------------------
(* Properties.                                                             *)

Outcomes == {Undecided, "answer", "cancelled", "abandoned"} \union Classes

\* The values each variable of the pipeline and of the sessions may take.
PipelineTypeOK ==
    /\ SessionsTypeOK
    /\ pc \in [Requests -> Suspended \union {"idle", "yielding", "abandoned", "ended"}]
    /\ agent \in [Requests -> {"none", "open", "closed", "interrupted"}]
    /\ outcome \in [Requests -> Outcomes]
    /\ pending \subseteq cancelReq
    /\ cancelReq \subseteq Requests
    /\ \A s \in Streams : /\ Len(events[s]) <= MaxTokens + 2
                          /\ \A i \in DOMAIN events[s] :
                               events[s][i] \in {"token", "result", "done"}
    /\ exhausted \subseteq Streams

\* The agent of a request is closed on every way out: errors, cancellations at
\* any await, a consumer that leaves.  Only a cancellation during the clean-up
\* itself can interrupt it, and no such request passes for answered.
AgentsReleased ==
    \A r \in Requests :
        /\ agent[r] = "open" => pc[r] \in {"running", "yielding", "abandoned", "closing"}
        /\ agent[r] = "interrupted" => r \in cancelReq /\ outcome[r] = "cancelled"
        /\ outcome[r] = "answer" /\ pc[r] = "ended" => agent[r] = "closed"

\* Whatever goes wrong below the orchestrator, its callers see a query processing
\* error, for which the HTTP layer answers 500: no failure of an MCP server is
\* reported as the failure of an external service, and a timeout is none.
CallersSeeQueryErrors ==
    \A r \in Requests :
        outcome[r] \in Classes => /\ IsA(outcome[r], "QueryProcessingError")
                                  /\ HttpStatus(outcome[r]) = 500

\* process_query_stream: a stream that its consumer reads to the end has exactly
\* one "done", at the end and after a result; a stream that fails, is cancelled
\* or is left has none unless the consumer had already seen the end.
StreamsEndProperly ==
    \A s \in Streams :
        LET done == {i \in DOMAIN events[s] : events[s][i] = "done"}
        IN  /\ done \subseteq {Len(events[s])}
            /\ done # {} => HasResult(s)
            /\ outcome[s] = "answer" => done # {}
            /\ outcome[s] \in Classes => done = {}

\* A session that is gone comes back only when somebody asks for it: as the
\* session of the repository, by a call that creates it, or because a request
\* that names it gets its agent, even a request older than the deletion.
SessionsOnDemand ==
    [][\A s \in Stored :
         store[s] = Absent /\ store'[s] # Absent =>
           \/ s = RepositoryId
           \/ calls' # calls /\ reply'.op = "create" /\ reply'.session = s
           \/ \E r \in Requests : SessionOf[r] = s /\ pc'[r] # pc[r]
      ]_vars

-----------------------------------------------------------------------------
(* A query is the task that AgentService takes it for.                     *)

taskBar == [q \in Queries |->
    IF pc[q] = "idle" THEN "outside"
    ELSE IF pc[q] # "ended" THEN "working"
    ELSE IF outcome[q] = "answer" THEN "response"
    ELSE IF outcome[q] = "cancelled" THEN "cancelled" ELSE "error"]

Task == INSTANCE TaskContract WITH task <- taskBar, cancelReq <- cancelReq \intersect Queries

\* QueryOrchestrator.process_query keeps the contract of the task that awaits it:
\* a cancelled query never answers, and it ends although its agent may not.
ImplementsTask == Task!Spec

=============================================================================
