------------------------ MODULE QueryPipelineProofs ------------------------
(***************************************************************************)
(* Proofs about QueryPipeline and Sessions, for any requests, sessions,    *)
(* keys, configurations and length of a stream.                            *)
(*                                                                         *)
(* Every error that leaves the context of an agent has one class, because  *)
(* the handler around the context wraps whatever it meets; and a request   *)
(* that was asked to cancel and went on can only fail or be interrupted.   *)
(***************************************************************************)
EXTENDS QueryPipeline, ErrorTaxonomyProofs

-----------------------------------------------------------------------------
(* Errors.                                                                 *)

\* The class of a failed query is a class, and the other outcomes are none.
LEMMA OutcomeClasses ==
    /\ "QueryProcessingError" \in Classes
    /\ Classes \intersect {Undecided, "answer", "cancelled", "abandoned"} = {}
BY DEF Classes, CoreParent, ServiceParent, ConfigParent, ForeignParent, Undecided

\* Whatever is raised inside the context of an agent, its caller sees one class.
LEMMA OneError ==
    ASSUME NEW r, NEW e
    PROVE  /\ Seen(r, e) = "QueryProcessingError"
           /\ SeenOfCreation(r, e) = "QueryProcessingError"
           /\ SeenOfRun(r, e) = "QueryProcessingError"
           /\ WrapCaller(WrapQuery("QueryProcessingError")) = "QueryProcessingError"
BY DEF Seen, SeenOfCreation, SeenOfRun, WrapContext, WrapQuery, WrapCaller

-----------------------------------------------------------------------------
(* Sessions.                                                               *)

\* The session that a manager is made for is read or created; no other changes.
LEMMA OpenedStore ==
    ASSUME SessionsTypeOK, NEW type, NEW s \in Stored, type = "file" => key # NoKey
    PROVE  /\ Opened(type, s) \in [Stored -> Keys \union PastKeys \union {Clear, Absent}]
           /\ \A t \in Stored \ {s} : Opened(type, s)[t] = store[t]
           /\ Opened(type, s)[s] # Absent
BY SessionsAssumption DEF Opened, SessionsTypeOK

\* The session of the repository is one that may be stored, and so is that of an agent.
LEMMA SessionNames ==
    ASSUME SessionsTypeOK
    PROVE  /\ RepositoryId \in Stored
           /\ \A s \in SessionIds \union {NoId} :
                 /\ AgentSession(s) \in SessionIds \union {NoId}
                 /\ AgentSession(s) # NoId => AgentSession(s) \in Stored
BY SessionsAssumption DEF SessionsTypeOK, RepositoryId, AgentSession, Stored

\* A manager for an encrypted file exists only where there is a key.
LEMMA KeyNeeded ==
    ASSUME NEW type, NEW s, ManagerOpens(type, s), type = "file"
    PROVE  key # NoKey
BY DEF ManagerOpens

\* The store with the repository made.
LEMMA RepositoryStore ==
    ASSUME SessionsTypeOK, RepositoryOpens
    PROVE  /\ WithRepository \in [Stored -> Keys \union PastKeys \union {Clear, Absent}]
           /\ \A t \in Stored \ {RepositoryId} : WithRepository[t] = store[t]
           /\ config.type = "file" => key \in Keys
<1>1. config.type = "file" => key # NoKey  BY KeyNeeded DEF RepositoryOpens
<1>2. QED  BY <1>1, SessionNames, OpenedStore DEF WithRepository, SessionsTypeOK

\* The store with the session of an agent.
LEMMA AgentStore ==
    ASSUME SessionsTypeOK, NEW s \in SessionIds \union {NoId}, AgentSessionOpens(s)
    PROVE  /\ WithAgentSession(s) \in [Stored -> Keys \union PastKeys \union {Clear, Absent}]
           /\ \A t \in Stored : t # AgentSession(s) => WithAgentSession(s)[t] = store[t]
<1>1. CASE AgentSession(s) = NoId  BY <1>1 DEF WithAgentSession, SessionsTypeOK
<1>2. CASE AgentSession(s) # NoId
  <2>1. AgentSession(s) \in Stored  BY <1>2, SessionNames
  <2>2. AgentSessionType = "file" => key # NoKey
    BY <1>2, KeyNeeded DEF AgentSessionOpens
  <2>3. WithAgentSession(s) = Opened(AgentSessionType, AgentSession(s))
    BY <1>2 DEF WithAgentSession
  <2>4. QED  BY <2>1, <2>2, <2>3, OpenedStore
<1>3. QED  BY <1>1, <1>2

\* A call of the historian keeps the types of the sessions.
LEMMA HistorianTypes == SessionsTypeOK /\ HistorianStep => SessionsTypeOK'
<1> SUFFICES ASSUME SessionsTypeOK, HistorianStep
             PROVE  SessionsTypeOK'
  OBVIOUS
<1> DEFINE Stores == [Stored -> Keys \union PastKeys \union {Clear, Absent}]
<1> DEFINE Ops == {"none", "list", "messages", "create", "delete", "destroy"}
           Replies == [op : Ops, session : Stored \union {NoId}, ok : BOOLEAN, sessions : SUBSET Stored]
<1>1. ASSUME calls < MaxCalls, calls' = calls + 1, UNCHANGED <<config, key>>, store' \in Stores,
             reply' \in Replies
      PROVE  SessionsTypeOK'
  BY <1>1, SessionsAssumption DEF SessionsTypeOK
<1>2. store \in Stores  BY DEF SessionsTypeOK
<1>3. ASSUME NEW op \in Ops, NEW s \in Stored \union {NoId}, Refused(op, s)
      PROVE  SessionsTypeOK'
  <2>1. store' \in Stores  BY <1>2, <1>3 DEF Refused
  <2>2. reply' \in Replies  BY <1>3 DEF Refused, Called
  <2> HIDE DEF Stores, Replies
  <2>3. QED  BY <1>1, <1>3, <2>1, <2>2 DEF Refused, Called
<1>4. RepositoryOpens => WithRepository \in Stores /\ (config.type = "file" => key \in Keys)
  BY RepositoryStore
<1>5. CASE GetChatSessionsHistory
  <2>1. CASE Refused("list", NoId)  BY <1>3, <2>1
  <2>2. CASE /\ RepositoryOpens
             /\ store' = WithRepository
             /\ Called("list", NoId, TRUE, Listed(store'))
    <3>1. Listed(store') \in SUBSET Stored  BY DEF Listed
    <3>2. reply' \in Replies  BY <2>2, <3>1 DEF Called
    <3> HIDE DEF Stores, Replies
    <3>3. QED  BY <1>1, <1>4, <2>2, <3>2 DEF Called
  <2>3. QED  BY <1>5, <2>1, <2>2 DEF GetChatSessionsHistory
<1>6. ASSUME NEW s \in Stored, GetChatSessionMessagesHistory(s)
      PROVE  SessionsTypeOK'
  <2>1. CASE Refused("messages", s)  BY <1>3, <2>1
  <2>2. CASE ~Refused("messages", s)
    <3>1. store' \in Stores  BY <1>4, <1>6, <2>2 DEF GetChatSessionMessagesHistory
    <3>2. PICK ok \in BOOLEAN : reply' = [op |-> "messages", session |-> s, ok |-> ok, sessions |-> {}]
      BY <1>6, <2>2 DEF GetChatSessionMessagesHistory, Called
    <3>3. reply' \in Replies  BY <3>2
    <3> HIDE DEF Stores, Replies
    <3>4. QED  BY <1>1, <1>6, <2>2, <3>1, <3>3 DEF GetChatSessionMessagesHistory, Called
  <2>3. QED  BY <2>1, <2>2
<1>7. ASSUME NEW s \in Stored, CreateChatSession(s)
      PROVE  SessionsTypeOK'
  <2>1. CASE Refused("create", s)  BY <1>3, <2>1
  <2>2. CASE ~Refused("create", s)
    <3>1. store' \in Stores  BY <1>4, <1>7, <2>2 DEF CreateChatSession
    <3>2. PICK ok \in BOOLEAN : reply' = [op |-> "create", session |-> s, ok |-> ok, sessions |-> {}]
      BY <1>7, <2>2 DEF CreateChatSession, Called
    <3>3. reply' \in Replies  BY <3>2
    <3> HIDE DEF Stores, Replies
    <3>4. QED  BY <1>1, <1>7, <2>2, <3>1, <3>3 DEF CreateChatSession, Called
  <2>3. QED  BY <2>1, <2>2
<1>8. ASSUME NEW s \in Stored, DeleteChatSession(s)
      PROVE  SessionsTypeOK'
  <2>1. CASE Refused("delete", s)  BY <1>3, <2>1
  <2>2. CASE ~Refused("delete", s)
    <3>1. store' \in Stores  BY <1>4, <1>8, <2>2 DEF DeleteChatSession
    <3>2. PICK ok \in BOOLEAN : reply' = [op |-> "delete", session |-> s, ok |-> ok, sessions |-> {}]
      BY <1>8, <2>2 DEF DeleteChatSession, Called
    <3>3. reply' \in Replies  BY <3>2
    <3> HIDE DEF Stores, Replies
    <3>4. QED  BY <1>1, <1>8, <2>2, <3>1, <3>3 DEF DeleteChatSession, Called
  <2>3. QED  BY <2>1, <2>2
<1>9. ASSUME NEW s \in Stored, DestroySession(s)
      PROVE  SessionsTypeOK'
  <2>1. store' \in Stores  BY <1>2, <1>9 DEF DestroySession
  <2>2. PICK ok \in BOOLEAN : reply' = [op |-> "destroy", session |-> s, ok |-> ok, sessions |-> {}]
    BY <1>9 DEF DestroySession, Called
  <2>3. reply' \in Replies  BY <2>2
  <2> HIDE DEF Stores, Replies
  <2>4. QED  BY <1>1, <1>9, <2>1, <2>3 DEF DestroySession, Called
<1>10. QED  BY <1>5, <1>6, <1>7, <1>8, <1>9 DEF HistorianStep

\* Ensuring the session of the repository keeps them.
LEMMA EnsureTypes == SessionsTypeOK /\ EnsureSession => SessionsTypeOK'
BY RepositoryStore DEF EnsureSession, SessionsTypeOK

-----------------------------------------------------------------------------
(* The steps of a request.                                                 *)

\* Where a request has no agent yet, and where it has one that is open.
Early == {"idle", "scheduled", "loading", "discovering"}
Inside == {"running", "yielding", "abandoned", "closing"}

\* How a request goes on without an outcome: towards its agent, with its agent, and
\* from one event of a stream to the next.
Advances(r) ==
    /\ pc[r] \in Early
    /\ IF r \in Queries /\ pc[r] = "idle" THEN GoTo(r, "scheduled")
       ELSE \E where \in {"loading", "discovering"} : GoTo(r, where)

Starts(r) ==
    /\ pc[r] \in Early
    /\ r \notin pending
    /\ r \in Queries => pc[r] # "idle"
    /\ pc' = [pc EXCEPT ![r] = "running"]
    /\ agent' = [agent EXCEPT ![r] = "open"]
    /\ UNCHANGED <<outcome, cancelReq, pending, events, exhausted>>

Moves(r) ==
    /\ r \in Streams
    /\ pc[r] = "yielding"
    /\ \/ r \notin exhausted /\ GoTo(r, "running")
       \/ GoTo(r, "abandoned")

\* How it ends without an agent.
Gives(r) ==
    /\ pc[r] \in Early
    /\ r \in Queries => pc[r] # "idle"
    /\ \/ r \notin pending /\ End(r, "QueryProcessingError")
       \/ r \in pending /\ End(r, "cancelled")

\* How it leaves the context of its agent.
Leaves(r) ==
    \/ r \in Queries /\ pc[r] = "running" /\ r \notin pending /\ LeaveContext(r, "answer")
    \/ pc[r] = "running" /\ LeaveContext(r, "QueryProcessingError")
    \/ pc[r] = "running" /\ r \in pending /\ LeaveContext(r, "cancelled")
    \/ /\ r \in Streams /\ pc[r] = "yielding" /\ r \in exhausted
       /\ events[r][Len(events[r])] = "done"
       /\ LeaveContext(r, "answer")
    \/ r \in Streams /\ pc[r] = "abandoned" /\ LeaveContext(r, "abandoned")

\* How a stream yields an event.
Yields(s) ==
    \/ StreamEvent(s) \/ StreamEnds(s)
    \/ /\ s \in Streams /\ pc[s] = "yielding" /\ s \in exhausted
       /\ events[s][Len(events[s])] # "done"
       /\ Yield(s, "done")
       /\ UNCHANGED exhausted

\* The last part of the creation of an agent ends the request or starts its agent.
LEMMA AssembleShape ==
    ASSUME NEW r \in Requests, pc[r] \in Early, r \in Queries => pc[r] # "idle",
           r \notin pending, Assemble(r)
    PROVE  Gives(r) \/ Starts(r)
BY OneError DEF Assemble, Gives, Starts

\* So does all of it, unless it waits for the discovery of other agents.
LEMMA ConnectShape ==
    ASSUME NEW r \in Requests, pc[r] \in Early, r \in Queries => pc[r] # "idle",
           r \notin pending, Connect(r)
    PROVE  Gives(r) \/ Starts(r) \/ Advances(r)
<1>1. CASE \E e \in {"ExternalServiceError", "KeyError"} : End(r, SeenOfCreation(r, e))
  BY <1>1, OneError DEF Gives
<1>2. CASE GoTo(r, "discovering")  BY <1>2 DEF Advances
<1>3. CASE Assemble(r)  BY <1>3, AssembleShape
<1>4. QED  BY <1>1, <1>2, <1>3 DEF Connect

\* Every step of a request has one of these shapes.
LEMMA StepShapes ==
    ASSUME NEW r \in Requests, RequestStep(r)
    PROVE  \/ Advances(r) \/ Starts(r) \/ Moves(r) \/ Gives(r) \/ Leaves(r) \/ Yields(r)
           \/ CloseAgent(r) \/ Cancel(r) \/ (r \in pending /\ InterruptClose(r))
<1>1. CASE Ask(r)  BY <1>1 DEF Ask, Advances, Early
<1>2. CASE Begin(r)
  <2>1. pc[r] \in Early /\ (r \in Queries => pc[r] # "idle") /\ r \notin pending
    BY <1>2 DEF Begin, Early
  <2>2. CASE End(r, IF r \in Streams THEN "QueryProcessingError"
                    ELSE WrapCaller(WrapQuery("QueryProcessingError")))
    BY <2>1, <2>2, OneError DEF Gives
  <2>3. CASE GoTo(r, "loading")  BY <2>1, <2>3 DEF Advances
  <2>4. CASE Connect(r)  BY <2>1, <2>4, ConnectShape
  <2>5. QED  BY <1>2, <2>2, <2>3, <2>4 DEF Begin
<1>3. CASE LoadTools(r)  BY <1>3, ConnectShape DEF LoadTools, Early
<1>4. CASE DiscoverAgents(r)  BY <1>4, AssembleShape DEF DiscoverAgents, Early
<1>5. CASE AgentAnswers(r)  BY <1>5, OneError DEF AgentAnswers, Leaves
<1>6. CASE AgentRaises(r)  BY <1>6, OneError DEF AgentRaises, Leaves
<1>7. CASE MeetCancellation(r)
  <2>1. CASE pc[r] \in {"scheduled", "loading", "discovering"} /\ End(r, "cancelled")
    BY <1>7, <2>1 DEF MeetCancellation, Gives, Early
  <2>2. CASE pc[r] = "running" /\ LeaveContext(r, "cancelled")
    BY <1>7, <2>2 DEF MeetCancellation, Leaves
  <2>3. CASE pc[r] = "running" /\ LeaveContext(r, SeenOfRun(r, "RuntimeError"))
    BY <2>3, OneError DEF Leaves
  <2>4. QED  BY <1>7, <2>1, <2>2, <2>3 DEF MeetCancellation
<1>8. CASE StreamEvent(r) \/ StreamEnds(r)  BY <1>8 DEF Yields
<1>9. CASE Consume(r)  BY <1>9 DEF Consume, Moves, Yields, Leaves
<1>10. CASE Abandon(r)  BY <1>10 DEF Abandon, Moves
<1>11. CASE Reap(r)  BY <1>11 DEF Reap, Leaves
<1>12. QED
  BY <1>1, <1>2, <1>3, <1>4, <1>5, <1>6, <1>7, <1>8, <1>9, <1>10, <1>11 DEF RequestStep

-----------------------------------------------------------------------------
(* The events of a stream.                                                 *)

Kinds == {"token", "result", "done"}

Has(e, kind) == \E i \in DOMAIN e : e[i] = kind

\* What a stream has yielded is short, and its end comes last and after a result.
EventsOK(e) ==
    /\ Len(e) <= MaxTokens + 2
    /\ ~Has(e, "done") => Len(e) <= MaxTokens + 1
    /\ ~Has(e, "result") => Len(e) <= MaxTokens
    /\ Has(e, "done") => Has(e, "result")
    /\ \A i \in DOMAIN e : e[i] = "done" => i = Len(e)

LEMMA Appended ==
    ASSUME NEW e \in Seq(Kinds), NEW kind \in Kinds
    PROVE  /\ Append(e, kind) \in Seq(Kinds)
           /\ Len(Append(e, kind)) = Len(e) + 1
           /\ \A j : Has(Append(e, kind), j) <=> Has(e, j) \/ kind = j
<1>1. /\ Append(e, kind) \in Seq(Kinds)
      /\ Len(Append(e, kind)) = Len(e) + 1
      /\ Len(e) \in Nat
      /\ DOMAIN e = 1..Len(e)
      /\ DOMAIN Append(e, kind) = 1..(Len(e) + 1)
      /\ \A i \in 1..Len(e) : Append(e, kind)[i] = e[i]
      /\ Append(e, kind)[Len(e) + 1] = kind
  OBVIOUS
<1>2. ASSUME NEW j
      PROVE  Has(Append(e, kind), j) <=> Has(e, j) \/ kind = j
  <2>1. ASSUME Has(Append(e, kind), j)  PROVE Has(e, j) \/ kind = j
    <3>1. PICK i \in 1..(Len(e) + 1) : Append(e, kind)[i] = j  BY <1>1, <2>1 DEF Has
    <3>2. CASE i = Len(e) + 1  BY <1>1, <3>1, <3>2
    <3>3. CASE i \in 1..Len(e)  BY <1>1, <3>1, <3>3 DEF Has
    <3>4. QED  BY <1>1, <3>2, <3>3
  <2>2. ASSUME Has(e, j)  PROVE Has(Append(e, kind), j)
    <3>1. PICK i \in 1..Len(e) : e[i] = j  BY <1>1, <2>2 DEF Has
    <3>2. i \in 1..(Len(e) + 1) /\ Append(e, kind)[i] = j  BY <1>1, <3>1
    <3>3. QED  BY <1>1, <3>2 DEF Has
  <2>3. ASSUME kind = j  PROVE Has(Append(e, kind), j)
    <3>1. Len(e) + 1 \in 1..(Len(e) + 1)  BY <1>1
    <3>2. QED  BY <1>1, <2>3, <3>1 DEF Has
  <2>4. QED  BY <2>1, <2>2, <2>3
<1>3. QED  BY <1>1, <1>2

\* Each kind of event keeps the order when it comes where the code yields it.
LEMMA OrderKept ==
    ASSUME NEW e \in Seq(Kinds), NEW kind \in Kinds, EventsOK(e), ~Has(e, "done"),
           kind = "token" => Len(e) < MaxTokens,
           kind = "result" => ~Has(e, "result"),
           kind = "done" => Has(e, "result")
    PROVE  EventsOK(Append(e, kind))
<1> DEFINE f == Append(e, kind)
<1>1. /\ f \in Seq(Kinds)
      /\ Len(f) = Len(e) + 1
      /\ Len(e) \in Nat
      /\ Has(f, "done") <=> kind = "done"
      /\ Has(f, "result") <=> Has(e, "result") \/ kind = "result"
  BY Appended
<1>2. /\ Len(f) <= MaxTokens + 2
      /\ ~Has(f, "done") => Len(f) <= MaxTokens + 1
      /\ ~Has(f, "result") => Len(f) <= MaxTokens
  <2> HIDE DEF f
  <2>1. kind \in {"token", "result", "done"}  BY DEF Kinds
  <2>2. MaxTokens \in Nat  BY PipelineAssumption
  <2>3. QED  BY <1>1, <2>1, <2>2 DEF EventsOK
<1>3. Has(f, "done") => Has(f, "result")
  <2> HIDE DEF f
  <2>1. QED  BY <1>1
<1>4. ASSUME NEW i \in DOMAIN f, f[i] = "done"
      PROVE  i = Len(f)
  <2>1. CASE i \in 1..Len(e)
    <3>1. e[i] = "done" /\ i \in DOMAIN e  BY <1>4, <2>1
    <3>2. QED  BY <3>1 DEF Has
  <2>2. QED  BY <1>1, <1>4, <2>1
<1>5. QED  BY <1>2, <1>3, <1>4 DEF EventsOK

-----------------------------------------------------------------------------
(* The inductive invariant.                                                *)

Places == Suspended \union {"idle", "yielding", "abandoned", "ended"}
Ends == {Undecided, "answer", "cancelled", "abandoned", "QueryProcessingError"}

Values ==
    /\ pc \in [Requests -> Places]
    /\ agent \in [Requests -> {"none", "open", "closed", "interrupted"}]
    /\ outcome \in [Requests -> Ends]
    /\ cancelReq \subseteq Requests
    /\ pending \subseteq cancelReq
    /\ events \in [Streams -> Seq(Kinds)]
    /\ exhausted \subseteq Streams

\* A request has an open agent exactly while it is inside its context.  One that
\* was asked to cancel and is not interrupted by it any more is on its way out,
\* without an answer.
RequestOK(r) ==
    /\ outcome[r] = Undecided <=> pc[r] \notin {"closing", "ended"}
    /\ agent[r] = "open" <=> pc[r] \in Inside
    /\ agent[r] = "interrupted" => r \in cancelReq /\ outcome[r] = "cancelled"
    /\ outcome[r] = "answer" /\ pc[r] = "ended" => agent[r] = "closed"
    /\ r \in pending => pc[r] \in Suspended
    /\ r \in cancelReq /\ r \notin pending =>
         pc[r] \in {"closing", "ended"} /\ outcome[r] # "answer"
    /\ outcome[r] = "cancelled" => r \in cancelReq
    /\ r \in Queries =>
         pc[r] \notin {"yielding", "abandoned"} /\ outcome[r] # "abandoned"

StreamOK(s) ==
    /\ EventsOK(events[s])
    /\ Has(events[s], "done") => s \in exhausted
    /\ s \in exhausted => /\ Has(events[s], "result")
                          /\ pc[s] \in {"yielding", "abandoned", "closing", "ended"}
    /\ outcome[s] = "answer" => Has(events[s], "done")
    /\ outcome[s] = "QueryProcessingError" => ~Has(events[s], "done")

PipelineInv ==
    /\ Values
    /\ \A r \in Requests : RequestOK(r)
    /\ \A s \in Streams : StreamOK(s)

\* What the other requests see of a step.
Same(t) ==
    /\ pc'[t] = pc[t] /\ agent'[t] = agent[t] /\ outcome'[t] = outcome[t]
    /\ t \in cancelReq' <=> t \in cancelReq
    /\ t \in pending' <=> t \in pending
    /\ t \in exhausted' <=> t \in exhausted
    /\ t \in Streams => events'[t] = events[t]

LEMMA Framed ==
    ASSUME NEW t \in Requests, Same(t), RequestOK(t), t \in Streams => StreamOK(t)
    PROVE  RequestOK(t)' /\ (t \in Streams => StreamOK(t)')
<1>1. RequestOK(t)'  BY DEF Same, RequestOK, Suspended, Inside, Undecided
<1>2. ASSUME t \in Streams  PROVE StreamOK(t)'
  BY <1>2 DEF Same, StreamOK, EventsOK, Has
<1>3. QED  BY <1>1, <1>2

\* A step of a request is judged by the request itself.
LEMMA OneRequest ==
    ASSUME PipelineInv, NEW r \in Requests, Values', RequestOK(r)',
           r \in Streams => StreamOK(r)',
           \A t \in Requests \ {r} : Same(t)
    PROVE  PipelineInv'
<1>1. \A t \in Requests : RequestOK(t)' /\ (t \in Streams => StreamOK(t)')
  BY Framed DEF PipelineInv, Requests
<1>2. QED  BY <1>1 DEF PipelineInv, Requests

LEMMA InvInit == PipelineInit => PipelineInv
<1> SUFFICES ASSUME PipelineInit  PROVE PipelineInv
  OBVIOUS
<1>1. Values  BY DEF PipelineInit, Values, Places, Ends, Requests, Kinds
<1>2. \A r \in Requests : RequestOK(r)
  BY DEF PipelineInit, RequestOK, Inside, Undecided
<1>3. ASSUME NEW s \in Streams
      PROVE  StreamOK(s)
  <2>1. events[s] = <<>> /\ s \notin exhausted /\ s \in Requests
    BY DEF PipelineInit, Requests
  <2>2. outcome[s] = "undecided"  BY <2>1 DEF PipelineInit, Undecided
  <2>3. Len(events[s]) = 0 /\ DOMAIN events[s] = {}  BY <2>1
  <2>4. QED  BY <2>1, <2>2, <2>3, PipelineAssumption DEF StreamOK, EventsOK, Has
<1>4. QED  BY <1>1, <1>2, <1>3 DEF PipelineInv

LEMMA AdvancesKeeps ==
    ASSUME PipelineInv, NEW r \in Requests, Advances(r)  PROVE PipelineInv'
<1>1. PICK where \in {"scheduled", "loading", "discovering"} : GoTo(r, where)
  BY DEF Advances
<1>2. Values'  BY <1>1 DEF PipelineInv, Values, GoTo, Places, Suspended
<1>3. RequestOK(r) /\ pc[r] \in Early /\ pc'[r] = where
  BY <1>1 DEF PipelineInv, Values, GoTo, Advances
<1>4. RequestOK(r)'
  BY <1>1, <1>3 DEF GoTo, RequestOK, Early, Inside, Suspended, Undecided
<1>5. r \in Streams => StreamOK(r)'
  BY <1>1, <1>3 DEF PipelineInv, GoTo, StreamOK, EventsOK, Has, Early
<1>6. \A t \in Requests \ {r} : Same(t)  BY <1>1 DEF GoTo, Same, PipelineInv, Values
<1>7. QED  BY <1>2, <1>4, <1>5, <1>6, OneRequest

LEMMA StartsKeeps ==
    ASSUME PipelineInv, NEW r \in Requests, Starts(r)  PROVE PipelineInv'
<1>1. Values'  BY DEF PipelineInv, Values, Starts, Places, Suspended
<1>2. RequestOK(r) /\ pc[r] \in Early /\ pc'[r] = "running" /\ agent'[r] = "open"
  BY DEF PipelineInv, Values, Starts
<1>3. RequestOK(r)'
  BY <1>2 DEF Starts, RequestOK, Early, Inside, Suspended, Undecided
<1>4. r \in Streams => StreamOK(r)'
  BY <1>2 DEF PipelineInv, Starts, StreamOK, EventsOK, Has, Early
<1>5. \A t \in Requests \ {r} : Same(t)  BY DEF Starts, Same, PipelineInv, Values
<1>6. QED  BY <1>1, <1>3, <1>4, <1>5, OneRequest

LEMMA MovesKeeps ==
    ASSUME PipelineInv, NEW r \in Requests, Moves(r)  PROVE PipelineInv'
<1>1. PICK where \in {"running", "abandoned"} :
        GoTo(r, where) /\ (r \in exhausted => where = "abandoned")
  BY DEF Moves
<1>2. Values'  BY <1>1 DEF PipelineInv, Values, GoTo, Places, Suspended
<1>3. /\ RequestOK(r) /\ StreamOK(r) /\ r \in Streams /\ r \notin Queries
      /\ pc[r] = "yielding" /\ pc'[r] = where
  BY <1>1, PipelineAssumption DEF PipelineInv, Values, GoTo, Moves
<1>4. RequestOK(r)'
  BY <1>1, <1>3 DEF GoTo, RequestOK, Inside, Suspended, Undecided
<1>5. StreamOK(r)'
  BY <1>1, <1>3 DEF GoTo, StreamOK, EventsOK, Has
<1>6. \A t \in Requests \ {r} : Same(t)  BY <1>1 DEF GoTo, Same, PipelineInv, Values
<1>7. QED  BY <1>2, <1>4, <1>5, <1>6, OneRequest

LEMMA GivesKeeps ==
    ASSUME PipelineInv, NEW r \in Requests, Gives(r)  PROVE PipelineInv'
<1>1. PICK how \in {"QueryProcessingError", "cancelled"} :
        End(r, how) /\ (how = "cancelled" <=> r \in pending)
  BY DEF Gives
<1>2. Values'  BY <1>1 DEF PipelineInv, Values, End, Places, Ends
<1>3. /\ RequestOK(r) /\ pc[r] \in Early
      /\ pc'[r] = "ended" /\ outcome'[r] = how /\ r \notin pending'
      /\ pending \subseteq cancelReq
  BY <1>1 DEF PipelineInv, Values, End, Gives
<1>4. RequestOK(r)'
  BY <1>1, <1>3 DEF End, RequestOK, Early, Inside, Suspended, Undecided
<1>5. r \in Streams => StreamOK(r)'
  BY <1>1, <1>3 DEF PipelineInv, End, StreamOK, EventsOK, Has, Early
<1>6. \A t \in Requests \ {r} : Same(t)  BY <1>1 DEF End, Same, PipelineInv, Values
<1>7. QED  BY <1>2, <1>4, <1>5, <1>6, OneRequest

LEMMA LeavesKeeps ==
    ASSUME PipelineInv, NEW r \in Requests, Leaves(r)  PROVE PipelineInv'
<1>1. PICK how \in {"answer", "QueryProcessingError", "cancelled", "abandoned"} :
        LeaveContext(r, how)
  BY DEF Leaves
<1>2. Values'  BY <1>1 DEF PipelineInv, Values, LeaveContext, Places, Ends, Suspended
<1>3. /\ RequestOK(r) /\ pc[r] \in {"running", "yielding", "abandoned"}
      /\ pc'[r] = "closing" /\ outcome'[r] = how /\ r \notin pending'
      /\ pending \subseteq cancelReq
  BY <1>1 DEF PipelineInv, Values, LeaveContext, Leaves
<1>4. /\ how = "answer" => r \notin pending
      /\ how = "cancelled" => r \in pending
      /\ how = "abandoned" => r \in Streams
  <2>1. outcome'[r] = how  BY <1>3
  <2>2. QED
    BY <1>3, <2>1 DEF Leaves, LeaveContext, RequestOK, Suspended, PipelineInv, Values
<1>5. RequestOK(r)'
  BY <1>1, <1>3, <1>4, PipelineAssumption
  DEF LeaveContext, RequestOK, Inside, Suspended, Undecided
<1>6. ASSUME r \in Streams  PROVE StreamOK(r)'
  <2>1. StreamOK(r)  BY <1>6 DEF PipelineInv
  <2>2. /\ how = "answer" => Has(events[r], "done")
        /\ how = "QueryProcessingError" => ~Has(events[r], "done")
    <3>1. CASE pc[r] = "running"
      <4>1. ~Has(events[r], "done") /\ r \notin Queries
        BY <1>6, <2>1, <3>1, PipelineAssumption DEF StreamOK
      <4>2. how # "answer"
        BY <1>1, <1>3, <3>1, <4>1 DEF Leaves, LeaveContext, PipelineInv, Values
      <4>3. QED  BY <4>1, <4>2
    <3>2. CASE pc[r] # "running"
      <4>1. how # "QueryProcessingError"
        BY <1>3, <3>2 DEF Leaves, LeaveContext, PipelineInv, Values
      <4>2. ASSUME how = "answer"  PROVE Has(events[r], "done")
        <5>1. events[r][Len(events[r])] = "done" /\ r \in exhausted
          BY <1>3, <3>2, <4>2, <1>6 DEF Leaves, LeaveContext, PipelineInv, Values
        <5>2. events[r] \in Seq(Kinds) /\ Has(events[r], "result")
          BY <1>6, <2>1, <5>1 DEF StreamOK, PipelineInv, Values
        <5>3. Len(events[r]) \in DOMAIN events[r]  BY <5>2 DEF Has
        <5>4. QED  BY <5>1, <5>3 DEF Has
      <4>3. QED  BY <4>1, <4>2
    <3>3. QED  BY <3>1, <3>2
  <2>3. QED  BY <1>1, <1>3, <2>1, <2>2 DEF LeaveContext, StreamOK, EventsOK, Has
<1>7. \A t \in Requests \ {r} : Same(t)  BY <1>1 DEF LeaveContext, Same, PipelineInv, Values
<1>8. QED  BY <1>2, <1>5, <1>6, <1>7, OneRequest

\* A stream yields what comes next, and nothing after its end.
LEMMA YieldShape ==
    ASSUME PipelineInv, NEW s \in Streams, Yields(s)
    PROVE  /\ \E kind \in Kinds :
                /\ Yield(s, kind)
                /\ ~Has(events[s], "done")
                /\ kind = "token" => Len(events[s]) < MaxTokens
                /\ kind = "result" => ~Has(events[s], "result")
                /\ kind = "done" => Has(events[s], "result") /\ s \in exhausted'
           /\ exhausted' \in {exhausted, exhausted \union {s}}
           /\ s \in exhausted' \ exhausted => Has(events'[s], "result")
           /\ pc[s] \in {"running", "yielding"} /\ s \notin pending
<1>1. StreamOK(s) /\ RequestOK(s) /\ s \in Requests /\ events[s] \in Seq(Kinds)
  BY DEF PipelineInv, Values, Requests
<1>2. pc[s] = "running" => ~Has(events[s], "done") /\ s \notin exhausted
  BY <1>1 DEF StreamOK
<1>3. ASSUME NEW kind, Yield(s, kind)
      PROVE  events'[s] = Append(events[s], kind)
  BY <1>3 DEF Yield, PipelineInv, Values
<1>4. CASE StreamEvent(s)
  <2>1. CASE Len(events[s]) < MaxTokens /\ Yield(s, "token")
    BY <1>2, <1>4, <2>1 DEF StreamEvent, Streaming, Kinds
  <2>2. CASE ~HasResult(s) /\ Yield(s, "result")
    BY <1>2, <1>4, <2>2 DEF StreamEvent, Streaming, Kinds, HasResult, Has
  <2>3. QED  BY <1>4, <2>1, <2>2 DEF StreamEvent
<1>5. CASE StreamEnds(s)
  <2>1. /\ pc[s] = "running" /\ s \notin pending /\ exhausted' = exhausted \union {s}
        /\ HasResult(s) <=> Has(events[s], "result")
    BY <1>5 DEF StreamEnds, Streaming, HasResult, Has
  <2>2. CASE Has(events[s], "result")
    <3>1. Yield(s, "done")  BY <1>5, <2>1, <2>2 DEF StreamEnds
    <3>2. Has(events'[s], "result")
      <4>1. events'[s] = Append(events[s], "done")  BY <1>3, <3>1
      <4>2. Has(Append(events[s], "done"), "result")  BY <1>1, <2>2, Appended DEF Kinds
      <4>3. QED  BY <4>1, <4>2
    <3>3. QED  BY <1>2, <2>1, <2>2, <3>1, <3>2 DEF Kinds
  <2>3. CASE ~Has(events[s], "result")
    <3>1. Yield(s, "result")  BY <1>5, <2>1, <2>3 DEF StreamEnds
    <3>2. Has(events'[s], "result")  BY <1>1, <1>3, <3>1, Appended DEF Kinds
    <3>3. QED  BY <1>2, <2>1, <2>3, <3>1, <3>2 DEF Kinds
  <2>4. QED  BY <2>2, <2>3
<1>6. CASE /\ pc[s] = "yielding" /\ s \in exhausted
           /\ events[s][Len(events[s])] # "done"
           /\ Yield(s, "done")
           /\ UNCHANGED exhausted
  <2>1. ~Has(events[s], "done")  BY <1>1, <1>6 DEF StreamOK, EventsOK, Has
  <2>2. Has(events[s], "result")  BY <1>1, <1>6 DEF StreamOK
  <2>3. s \notin pending  BY <1>1, <1>6 DEF RequestOK, Suspended
  <2>4. QED  BY <1>6, <2>1, <2>2, <2>3 DEF Kinds
<1>7. QED  BY <1>4, <1>5, <1>6 DEF Yields

LEMMA YieldsKeeps ==
    ASSUME PipelineInv, NEW s \in Streams, Yields(s)  PROVE PipelineInv'
<1>1. PICK kind \in Kinds :
        /\ Yield(s, kind)
        /\ ~Has(events[s], "done")
        /\ kind = "token" => Len(events[s]) < MaxTokens
        /\ kind = "result" => ~Has(events[s], "result")
        /\ kind = "done" => Has(events[s], "result") /\ s \in exhausted'
  BY YieldShape
<1>2. /\ exhausted' \in {exhausted, exhausted \union {s}}
      /\ s \in exhausted' \ exhausted => Has(events'[s], "result")
      /\ pc[s] \in {"running", "yielding"} /\ s \notin pending
  BY YieldShape
<1>3. /\ s \in Requests /\ s \notin Queries
      /\ StreamOK(s) /\ RequestOK(s) /\ events[s] \in Seq(Kinds)
  BY PipelineAssumption DEF PipelineInv, Values, Requests
<1>4. /\ pc'[s] = "yielding" /\ events'[s] = Append(events[s], kind)
      /\ agent' = agent /\ outcome' = outcome /\ cancelReq' = cancelReq /\ pending' = pending
  BY <1>1, <1>3 DEF Yield, PipelineInv, Values
<1>5. /\ Append(events[s], kind) \in Seq(Kinds)
      /\ EventsOK(Append(events[s], kind))
      /\ \A j : Has(Append(events[s], kind), j) <=> Has(events[s], j) \/ kind = j
  <2>1. EventsOK(events[s])  BY <1>3 DEF StreamOK
  <2>2. EventsOK(Append(events[s], kind))  BY <1>1, <1>3, <2>1, OrderKept
  <2>3. QED  BY <1>3, <2>2, Appended
<1>6. Values'
  <2>1. events' \in [Streams -> Seq(Kinds)]
    BY <1>1, <1>5 DEF Yield, PipelineInv, Values
  <2>2. pc' \in [Requests -> Places]  BY <1>1 DEF Yield, PipelineInv, Values, Places
  <2>3. QED  BY <1>2, <1>4, <2>1, <2>2 DEF PipelineInv, Values
<1>7. RequestOK(s)'
  BY <1>2, <1>3, <1>4 DEF RequestOK, Inside, Suspended, Undecided
<1>8. StreamOK(s)'
  <2>1. EventsOK(events[s])' /\ (\A j : Has(events[s], j)' <=> Has(events[s], j) \/ kind = j)
    BY <1>4, <1>5 DEF EventsOK, Has
  <2>2. outcome[s] = Undecided  BY <1>2, <1>3 DEF RequestOK
  <2>3. outcome'[s] \notin {"answer", "QueryProcessingError"}  BY <1>4, <2>2 DEF Undecided
  <2>4. Has(events[s], "done")' => s \in exhausted'  BY <1>1, <2>1
  <2>5. s \in exhausted' => Has(events[s], "result")'
    <3>1. s \in exhausted => Has(events[s], "result")  BY <1>3 DEF StreamOK
    <3>2. Has(events'[s], "result") => Has(events[s], "result")'  BY DEF Has
    <3>3. QED  BY <1>2, <2>1, <3>1, <3>2
  <2>6. QED  BY <1>4, <2>1, <2>3, <2>4, <2>5 DEF StreamOK
<1>9. \A t \in Requests \ {s} : Same(t)
  BY <1>1, <1>2, <1>3 DEF Yield, Same, PipelineInv, Values
<1>10. QED  BY <1>3, <1>6, <1>7, <1>8, <1>9, OneRequest

LEMMA CloseKeeps ==
    ASSUME PipelineInv, NEW r \in Requests, CloseAgent(r)  PROVE PipelineInv'
<1>1. Values'  BY DEF PipelineInv, Values, CloseAgent, Places
<1>2. /\ RequestOK(r) /\ pc[r] = "closing" /\ r \notin pending
      /\ pc'[r] = "ended" /\ agent'[r] = "closed"
  BY DEF PipelineInv, Values, CloseAgent
<1>3. RequestOK(r)'  BY <1>2 DEF CloseAgent, RequestOK, Inside, Suspended, Undecided
<1>4. r \in Streams => StreamOK(r)'
  BY <1>2 DEF PipelineInv, CloseAgent, StreamOK, EventsOK, Has
<1>5. \A t \in Requests \ {r} : Same(t)  BY DEF CloseAgent, Same, PipelineInv, Values
<1>6. QED  BY <1>1, <1>3, <1>4, <1>5, OneRequest

LEMMA CancelKeeps ==
    ASSUME PipelineInv, NEW r \in Requests, Cancel(r)  PROVE PipelineInv'
<1>1. Values'  BY DEF PipelineInv, Values, Cancel
<1>2. RequestOK(r) /\ pc[r] \in Suspended /\ r \in pending' /\ r \in cancelReq'
  BY DEF PipelineInv, Cancel
<1>3. RequestOK(r)'  BY <1>2 DEF Cancel, RequestOK, Inside, Undecided
<1>4. r \in Streams => StreamOK(r)'
  BY DEF PipelineInv, Cancel, StreamOK, EventsOK, Has
<1>5. \A t \in Requests \ {r} : Same(t)  BY DEF Cancel, Same, PipelineInv, Values
<1>6. QED  BY <1>1, <1>3, <1>4, <1>5, OneRequest

LEMMA InterruptKeeps ==
    ASSUME PipelineInv, NEW r \in Requests, r \in pending, InterruptClose(r)
    PROVE  PipelineInv'
<1>1. Values'  BY DEF PipelineInv, Values, InterruptClose, Places, Ends
<1>2. /\ RequestOK(r) /\ pc[r] = "closing" /\ r \in cancelReq
      /\ pc'[r] = "ended" /\ agent'[r] = "interrupted" /\ outcome'[r] = "cancelled"
  BY DEF PipelineInv, Values, InterruptClose
<1>3. RequestOK(r)'  BY <1>2 DEF InterruptClose, RequestOK, Inside, Suspended, Undecided
<1>4. r \in Streams => StreamOK(r)'
  BY <1>2 DEF PipelineInv, InterruptClose, StreamOK, EventsOK, Has
<1>5. \A t \in Requests \ {r} : Same(t)  BY DEF InterruptClose, Same, PipelineInv, Values
<1>6. QED  BY <1>1, <1>3, <1>4, <1>5, OneRequest

\* What the sessions see of a step of a request.
LEMMA SessionShape ==
    ASSUME NEW r \in Requests, RequestStep(r)
    PROVE  \/ UNCHANGED sessionVars
           \/ EnsureSession
           \/ /\ AgentSessionOpens(SessionOf[r])
              /\ store' = WithAgentSession(SessionOf[r])
              /\ UNCHANGED <<config, key, calls, reply>>
              /\ pc[r] \in Early
              /\ (pc' = [pc EXCEPT ![r] = "ended"]) \/ (pc' = [pc EXCEPT ![r] = "running"])
<1> DEFINE Opens == /\ AgentSessionOpens(SessionOf[r])
                    /\ store' = WithAgentSession(SessionOf[r])
                    /\ UNCHANGED <<config, key, calls, reply>>
                    /\ (pc' = [pc EXCEPT ![r] = "ended"]) \/ (pc' = [pc EXCEPT ![r] = "running"])
<1>1. Assemble(r) => (UNCHANGED sessionVars) \/ Opens  BY DEF Assemble, End
<1>2. Connect(r) => (UNCHANGED sessionVars) \/ Opens  BY <1>1 DEF Connect
<1> HIDE DEF Opens
<1>3. CASE Ask(r)  BY <1>3 DEF Ask
<1>4. CASE Begin(r)
  <2>1. pc[r] \in Early  BY <1>4 DEF Begin, Early
  <2>2. (UNCHANGED sessionVars) \/ Opens  BY <1>2, <1>4 DEF Begin
  <2>3. QED  BY <2>1, <2>2 DEF Opens
<1>5. CASE LoadTools(r)  BY <1>2, <1>5 DEF LoadTools, Early, Opens
<1>6. CASE DiscoverAgents(r)  BY <1>1, <1>6 DEF DiscoverAgents, Early, Opens
<1>7. CASE AgentAnswers(r) \/ AgentRaises(r) \/ CloseAgent(r) \/ Cancel(r)
  BY <1>7 DEF AgentAnswers, AgentRaises, CloseAgent, Cancel, LeaveContext
<1>8. CASE MeetCancellation(r)
  BY <1>8 DEF MeetCancellation, LeaveContext, InterruptClose
<1>9. CASE StreamEvent(r) \/ StreamEnds(r) \/ Consume(r) \/ Abandon(r) \/ Reap(r)
  BY <1>9 DEF StreamEvent, StreamEnds, Consume, Abandon, Reap, Yield, LeaveContext
<1>10. QED  BY <1>3, <1>4, <1>5, <1>6, <1>7, <1>8, <1>9 DEF RequestStep

LEMMA RequestSessionTypes ==
    ASSUME SessionsTypeOK, NEW r \in Requests, RequestStep(r)
    PROVE  SessionsTypeOK'
<1>1. CASE UNCHANGED sessionVars  BY <1>1 DEF SessionsTypeOK, sessionVars
<1>2. CASE EnsureSession  BY <1>2, EnsureTypes
<1>3. CASE /\ AgentSessionOpens(SessionOf[r])
           /\ store' = WithAgentSession(SessionOf[r])
           /\ UNCHANGED <<config, key, calls, reply>>
  <2>1. SessionOf[r] \in SessionIds \union {NoId}  BY PipelineAssumption
  <2>2. store' \in [Stored -> Keys \union PastKeys \union {Clear, Absent}]
    BY <1>3, <2>1, AgentStore
  <2>3. QED  BY <1>3, <2>2 DEF SessionsTypeOK
<1>4. QED  BY <1>1, <1>2, <1>3, SessionShape

LEMMA SessionsInitTypes == SessionsInit => SessionsTypeOK
BY SessionsAssumption DEF SessionsInit, SessionsTypeOK, Leftover, Stored

\* Every step of a request keeps the invariant of the pipeline.
LEMMA RequestKeeps ==
    ASSUME PipelineInv, NEW r \in Requests, RequestStep(r)  PROVE PipelineInv'
<1>1. CASE Yields(r)
  <2>1. r \in Streams  BY <1>1 DEF Yields, StreamEvent, StreamEnds, Streaming
  <2>2. QED  BY <1>1, <2>1, YieldsKeeps
<1>2. QED
  BY <1>1, StepShapes, StartsKeeps, AdvancesKeeps, MovesKeeps, GivesKeeps, LeavesKeeps, CloseKeeps,
     CancelKeeps, InterruptKeeps

-----------------------------------------------------------------------------
(* Theorems.                                                               *)

\* The inductive invariant holds in every state.
THEOREM PipelineInvariant == Spec => [](PipelineInv /\ SessionsTypeOK)
<1>1. Init => PipelineInv /\ SessionsTypeOK  BY InvInit, SessionsInitTypes DEF Init
<1>2. PipelineInv /\ SessionsTypeOK /\ [Next]_vars => (PipelineInv /\ SessionsTypeOK)'
  <2> SUFFICES ASSUME PipelineInv, SessionsTypeOK, [Next]_vars
               PROVE  PipelineInv' /\ SessionsTypeOK'
    OBVIOUS
  <2>1. CASE \E r \in Requests : RequestStep(r)
    BY <2>1, RequestKeeps, RequestSessionTypes
  <2>2. ASSUME UNCHANGED pipelineVars  PROVE PipelineInv'
    BY <2>2 DEF pipelineVars, PipelineInv, Values, RequestOK, StreamOK, EventsOK, Has
  <2>3. CASE HistorianStep /\ UNCHANGED pipelineVars  BY <2>2, <2>3, HistorianTypes
  <2>4. CASE UNCHANGED vars
    <3>1. SessionsTypeOK'  BY <2>4 DEF vars, sessionVars, SessionsTypeOK
    <3>2. QED  BY <2>2, <2>4, <3>1 DEF vars
  <2>5. QED  BY <2>1, <2>3, <2>4 DEF Next
<1>3. QED  BY <1>1, <1>2, PTL DEF Spec

\* Every variable of the pipeline and of the sessions keeps to its values.
THEOREM PipelineTypeCorrect == Spec => []PipelineTypeOK
<1>1. PipelineInv /\ SessionsTypeOK => PipelineTypeOK
  <2> SUFFICES ASSUME PipelineInv, SessionsTypeOK  PROVE PipelineTypeOK
    OBVIOUS
  <2>1. Ends \subseteq Outcomes  BY OutcomeClasses DEF Ends, Outcomes
  <2>2. outcome \in [Requests -> Outcomes]  BY <2>1 DEF PipelineInv, Values
  <2>3. ASSUME NEW s \in Streams
        PROVE  /\ Len(events[s]) <= MaxTokens + 2
               /\ \A i \in DOMAIN events[s] : events[s][i] \in {"token", "result", "done"}
    <3>1. events[s] \in Seq(Kinds)  BY DEF PipelineInv, Values
    <3>2. StreamOK(s)  BY DEF PipelineInv
    <3>3. QED  BY <3>1, <3>2 DEF StreamOK, EventsOK, Kinds
  <2>4. QED  BY <2>2, <2>3 DEF PipelineTypeOK, PipelineInv, Values, Places
<1>2. QED  BY <1>1, PipelineInvariant, PTL

\* Every agent is closed on every way out of its context, unless a cancellation
\* interrupts the clean-up itself.
THEOREM AgentsAreReleased == Spec => []AgentsReleased
<1>1. PipelineInv => AgentsReleased
  BY DEF PipelineInv, AgentsReleased, RequestOK, Inside
<1>2. QED  BY <1>1, PipelineInvariant, PTL

\* A stream has one end, after a result, if it is read to the end, and none if it fails.
THEOREM StreamsDoEndProperly == Spec => []StreamsEndProperly
<1>1. ASSUME PipelineInv, NEW s \in Streams
      PROVE  LET done == {i \in DOMAIN events[s] : events[s][i] = "done"}
             IN  /\ done \subseteq {Len(events[s])}
                 /\ done # {} => HasResult(s)
                 /\ outcome[s] = "answer" => done # {}
                 /\ outcome[s] \in Classes => done = {}
  <2>1. StreamOK(s) /\ outcome[s] \in Ends
    BY <1>1 DEF PipelineInv, Values, Requests
  <2>2. outcome[s] \in Classes => outcome[s] = "QueryProcessingError"
    BY <2>1, OutcomeClasses DEF Ends
  <2>3. QED  BY <2>1, <2>2 DEF StreamOK, EventsOK, Has, HasResult
<1>2. PipelineInv => StreamsEndProperly  BY <1>1 DEF StreamsEndProperly
<1>3. QED  BY <1>2, PipelineInvariant, PTL

\* Whatever goes wrong below the orchestrator, its callers see one class of error, a
\* query processing error, which is none of those that have a status of their own: the
\* HTTP layer answers 500.
THEOREM CallersSeeOneError == Spec => []CallersSeeQueryErrors
<1>1. "QueryProcessingError" \notin ExternalClasses /\ "QueryProcessingError" \in QueryClasses
  BY DEF ExternalClasses, QueryClasses
<1>2. /\ IsA("QueryProcessingError", "QueryProcessingError")
      /\ HttpStatus("QueryProcessingError") = 500
  BY <1>1, OutcomeClasses, KindsOfErrors DEF HttpStatus
<1>3. PipelineInv => \A r \in Requests : outcome[r] \in Classes => outcome[r] = "QueryProcessingError"
  BY OutcomeClasses DEF PipelineInv, Values, Ends
<1>4. PipelineInv => CallersSeeQueryErrors  BY <1>2, <1>3 DEF CallersSeeQueryErrors
<1>5. QED  BY <1>4, PipelineInvariant, PTL

\* A deletion that reports success has deleted the session, and one that raises has
\* changed nothing, although the repository is made first and may be the session.
THEOREM LogoffIsSound == Spec => LogoffSound
<1> DEFINE Sound == calls' # calls /\ reply'.op \in {"delete", "destroy"} =>
              store'[reply'.session] = IF reply'.ok THEN Absent ELSE store[reply'.session]
<1>1. ASSUME SessionsTypeOK, NEW op, NEW s, NEW ok, NEW l,
             Called(op, s, ok, l), op \notin {"delete", "destroy"}
      PROVE  Sound
  BY <1>1 DEF Called
<1>2. ASSUME SessionsTypeOK, HistorianStep  PROVE Sound
  <2>1. CASE GetChatSessionsHistory
    <3>1. reply'.op = "list"  BY <2>1 DEF GetChatSessionsHistory, Refused, Called
    <3>2. QED  BY <3>1
  <2>2. ASSUME NEW s \in Stored, GetChatSessionMessagesHistory(s)  PROVE Sound
    BY <1>1, <1>2, <2>2 DEF GetChatSessionMessagesHistory, Refused
  <2>3. ASSUME NEW s \in Stored, CreateChatSession(s)  PROVE Sound
    BY <1>1, <1>2, <2>3 DEF CreateChatSession, Refused
  <2>4. ASSUME NEW s \in Stored, DeleteChatSession(s)  PROVE Sound
    <3>1. CASE Refused("delete", s)  BY <3>1 DEF Refused, Called
    <3>2. CASE /\ RepositoryOpens
               /\ store' = [WithRepository EXCEPT ![s] = Absent]
               /\ Called("delete", s, TRUE, {})
      <4>1. store'[s] = Absent  BY <1>2, <3>2, RepositoryStore
      <4>2. reply'.session = s /\ reply'.ok = TRUE  BY <3>2 DEF Called
      <4>3. QED  BY <4>1, <4>2
    <3>3. QED  BY <2>4, <3>1, <3>2 DEF DeleteChatSession
  <2>5. ASSUME NEW s \in Stored, DestroySession(s)  PROVE Sound
    <3>1. CASE ManagerOpens(AgentSessionType, s)
      <4>1. store'[s] = Absent  BY <1>2, <2>5, <3>1 DEF DestroySession, SessionsTypeOK
      <4>2. reply'.session = s /\ reply'.ok = TRUE  BY <2>5, <3>1 DEF DestroySession, Called
      <4>3. QED  BY <4>1, <4>2
    <3>2. CASE ~ManagerOpens(AgentSessionType, s)
      BY <2>5, <3>2 DEF DestroySession, Called
    <3>3. QED  BY <3>1, <3>2
  <2>6. QED  BY <1>2, <2>1, <2>2, <2>3, <2>4, <2>5 DEF HistorianStep
<1>3. ASSUME SessionsTypeOK, NEW r \in Requests, RequestStep(r)  PROVE calls' = calls
  BY <1>3, SessionShape DEF EnsureSession, sessionVars
<1>4. SessionsTypeOK /\ [Next]_vars => [Sound]_sessionVars
  <2> SUFFICES ASSUME SessionsTypeOK, [Next]_vars  PROVE Sound \/ UNCHANGED sessionVars
    OBVIOUS
  <2>1. CASE \E r \in Requests : RequestStep(r)  BY <1>3, <2>1
  <2>2. CASE HistorianStep  BY <1>2, <2>2
  <2>3. CASE UNCHANGED vars  BY <2>3 DEF vars
  <2>4. QED  BY <2>1, <2>2, <2>3 DEF Next
<1>5. SessionsTypeOK /\ [Next]_vars => [calls' # calls /\ reply'.op \in {"delete", "destroy"} =>
         store'[reply'.session] = IF reply'.ok THEN Absent ELSE store[reply'.session]]_sessionVars
  BY <1>4
<1> HIDE DEF Sound
<1>6. QED  BY <1>5, PipelineInvariant, PTL DEF Spec, LogoffSound

\* A session that is gone comes back only as the session of the repository, when it
\* is created, or with the agent of a request that names it.
THEOREM SessionsComeOnDemand == Spec => SessionsOnDemand
<1> DEFINE Asked(t) ==
      \/ t = RepositoryId
      \/ calls' # calls /\ reply'.op = "create" /\ reply'.session = t
      \/ \E r \in Requests : SessionOf[r] = t /\ pc'[r] # pc[r]
    OnDemand == \A t \in Stored : store[t] = Absent /\ store'[t] # Absent => Asked(t)
<1>1. SessionsTypeOK /\ RepositoryOpens => \A t \in Stored \ {RepositoryId} : WithRepository[t] = store[t]
  BY RepositoryStore
<1>2. ASSUME SessionsTypeOK, HistorianStep, NEW t \in Stored, store[t] = Absent, store'[t] # Absent,
             t # RepositoryId
      PROVE  calls' # calls /\ reply'.op = "create" /\ reply'.session = t
  <2>1. CASE \E s \in Stored : CreateChatSession(s)
    <3>1. PICK s \in Stored : CreateChatSession(s)  BY <2>1
    <3>2. RepositoryOpens  BY <1>2, <3>1 DEF CreateChatSession, Refused
    <3>3. WithRepository \in [Stored -> Keys \union PastKeys \union {Clear, Absent}]
      BY <1>2, <3>2, RepositoryStore
    <3>4. t = s  BY <1>1, <1>2, <3>1, <3>2, <3>3 DEF CreateChatSession, Refused
    <3>5. QED  BY <1>2, <3>1, <3>4 DEF CreateChatSession, Refused, Called, SessionsTypeOK
  <2>2. CASE GetChatSessionsHistory
    BY <1>1, <1>2, <2>2 DEF GetChatSessionsHistory, Refused
  <2>3. CASE \E s \in Stored : GetChatSessionMessagesHistory(s)
    BY <1>1, <1>2, <2>3 DEF GetChatSessionMessagesHistory, Refused
  <2>4. ASSUME NEW s \in Stored, DeleteChatSession(s)  PROVE FALSE
    <3>1. RepositoryOpens  BY <1>2, <2>4 DEF DeleteChatSession, Refused
    <3>2. WithRepository \in [Stored -> Keys \union PastKeys \union {Clear, Absent}]
      BY <1>2, <3>1, RepositoryStore
    <3>3. QED  BY <1>1, <1>2, <2>4, <3>1, <3>2 DEF DeleteChatSession, Refused
  <2>5. ASSUME NEW s \in Stored, DestroySession(s)  PROVE FALSE
    BY <1>2, <2>5 DEF DestroySession, SessionsTypeOK
  <2>6. QED  BY <1>2, <2>1, <2>2, <2>3, <2>4, <2>5 DEF HistorianStep
<1>3. ASSUME PipelineInv, SessionsTypeOK, NEW r \in Requests, RequestStep(r),
             NEW t \in Stored, store[t] = Absent, store'[t] # Absent, t # RepositoryId
      PROVE  SessionOf[r] = t /\ pc'[r] # pc[r]
  <2>1. CASE UNCHANGED sessionVars  BY <1>3, <2>1 DEF sessionVars
  <2>2. CASE EnsureSession  BY <1>1, <1>3, <2>2 DEF EnsureSession
  <2>3. CASE /\ AgentSessionOpens(SessionOf[r])
             /\ store' = WithAgentSession(SessionOf[r])
             /\ pc[r] \in Early
             /\ (pc' = [pc EXCEPT ![r] = "ended"]) \/ (pc' = [pc EXCEPT ![r] = "running"])
    <3>1. SessionOf[r] \in SessionIds \union {NoId}  BY PipelineAssumption
    <3>2. t = AgentSession(SessionOf[r])  BY <1>3, <2>3, <3>1, AgentStore
    <3>3. t # NoId  BY SessionsAssumption DEF Stored
    <3>4. SessionOf[r] = t  BY <1>3, <3>2, <3>3 DEF AgentSession, RepositoryId
    <3>5. pc'[r] # pc[r]  BY <1>3, <2>3 DEF PipelineInv, Values, Early
    <3>6. QED  BY <3>4, <3>5
  <2>4. QED  BY <1>3, <2>1, <2>2, <2>3, SessionShape
<1>4. PipelineInv /\ SessionsTypeOK /\ [Next]_vars => OnDemand
  <2> SUFFICES ASSUME PipelineInv, SessionsTypeOK, [Next]_vars,
                      NEW t \in Stored, store[t] = Absent, store'[t] # Absent
               PROVE  Asked(t)
    OBVIOUS
  <2>1. CASE \E r \in Requests : RequestStep(r)  BY <1>3, <2>1
  <2>2. CASE HistorianStep  BY <1>2, <2>2
  <2>3. CASE UNCHANGED vars  BY <2>3 DEF vars, sessionVars
  <2>4. QED  BY <2>1, <2>2, <2>3 DEF Next
<1>5. PipelineInv /\ SessionsTypeOK /\ [Next]_vars =>
        [\A s \in Stored :
           store[s] = Absent /\ store'[s] # Absent =>
             \/ s = RepositoryId
             \/ calls' # calls /\ reply'.op = "create" /\ reply'.session = s
             \/ \E r \in Requests : SessionOf[r] = s /\ pc'[r] # pc[r]]_vars
  BY <1>4
<1> HIDE DEF OnDemand, Asked
<1>6. QED  BY <1>5, PipelineInvariant, PTL DEF Spec, SessionsOnDemand

-----------------------------------------------------------------------------
(* A query is the task of its contract.                                    *)

LEMMA TaskInit == Init => Task!Init
BY DEF Init, PipelineInit, Task!Init, taskBar, Requests

\* Every step of a request is a step of its task or none.
LEMMA TaskStep ==
    ASSUME PipelineInv, NEW r \in Requests, RequestStep(r)
    PROVE  [Task!Next]_(Task!vars)
<1> DEFINE Working == taskBar[r] = "working"
           Quiet == taskBar' = taskBar /\ cancelReq' = cancelReq
           Into(end) == taskBar' = [taskBar EXCEPT ![r] = end] /\ cancelReq' = cancelReq
<1>1. RequestOK(r) /\ pc[r] \in Places /\ outcome[r] \in Ends
  BY DEF PipelineInv, Values
<1>2. r \in Queries => r \notin Streams  BY PipelineAssumption
<1>3. ASSUME NEW where, pc' = [pc EXCEPT ![r] = where], NEW how, outcome' = [outcome EXCEPT ![r] = how]
      PROVE  taskBar' = [q \in Queries |->
               IF q # r THEN taskBar[q]
               ELSE IF where = "idle" THEN "outside"
               ELSE IF where # "ended" THEN "working"
               ELSE IF how = "answer" THEN "response"
               ELSE IF how = "cancelled" THEN "cancelled" ELSE "error"]
  BY <1>3 DEF taskBar, PipelineInv, Values, Requests
<1>4. outcome' = outcome => outcome' = [outcome EXCEPT ![r] = outcome[r]]
  BY DEF PipelineInv, Values
<1>5. Quiet => UNCHANGED Task!vars  BY DEF Task!vars
<1>6. r \in Queries /\ taskBar[r] = "outside" /\ Into("working") => Task!Next
  BY DEF Task!Next, Task!Create
<1>7. r \in Queries /\ Working /\ r \notin cancelReq /\ (Into("response") \/ Into("error")) => Task!Next
  BY DEF Task!Next, Task!Finish
<1>8. r \in Queries /\ Working /\ r \in cancelReq /\ (Into("cancelled") \/ Into("error")) => Task!Next
  BY DEF Task!Next, Task!Stop
<1>9. taskBar = [q \in Queries |-> taskBar[q]] /\ \A q \in Queries : taskBar[q] =
        IF pc[q] = "idle" THEN "outside"
        ELSE IF pc[q] # "ended" THEN "working"
        ELSE IF outcome[q] = "answer" THEN "response"
        ELSE IF outcome[q] = "cancelled" THEN "cancelled" ELSE "error"
  BY DEF taskBar
\* The request goes on, or its task begins.
<1>10. ASSUME NEW where, where \notin {"idle", "ended"}, pc' = [pc EXCEPT ![r] = where],
              NEW how, outcome' = [outcome EXCEPT ![r] = how],
              cancelReq' = cancelReq, pc[r] # "ended"
       PROVE  [Task!Next]_(Task!vars)
  <2>1. taskBar' = [q \in Queries |-> IF q # r THEN taskBar[q] ELSE "working"]  BY <1>3, <1>10
  <2>2. CASE r \in Queries /\ pc[r] = "idle"
    <3>1. taskBar[r] = "outside" /\ Into("working")  BY <1>9, <1>10, <2>1, <2>2
    <3> HIDE DEF Into
    <3>2. QED  BY <1>6, <2>2, <3>1
  <2>3. CASE ~(r \in Queries /\ pc[r] = "idle")
    <3>1. Quiet  BY <1>9, <1>10, <2>1, <2>3
    <3> HIDE DEF Quiet
    <3>2. QED  BY <1>5, <3>1
  <2>4. QED  BY <2>2, <2>3
\* The request ends, and so does its task.
<1>11. ASSUME pc' = [pc EXCEPT ![r] = "ended"], NEW how, outcome' = [outcome EXCEPT ![r] = how],
              cancelReq' = cancelReq, r \in Queries => pc[r] \notin {"idle", "ended"},
              how \in Ends,
              r \in Queries /\ how = "answer" => r \notin cancelReq,
              r \in Queries /\ how = "cancelled" => r \in cancelReq
       PROVE  [Task!Next]_(Task!vars)
  <2> DEFINE end == IF how = "answer" THEN "response"
                    ELSE IF how = "cancelled" THEN "cancelled" ELSE "error"
  <2>1. taskBar' = [q \in Queries |-> IF q # r THEN taskBar[q] ELSE end] 
    BY <1>11 DEF taskBar, PipelineInv, Values, Requests
  <2>2. CASE r \in Queries
    <3>1. Working /\ Into(end)  BY <1>9, <1>11, <2>1, <2>2
    <3>2. /\ end = "response" => r \notin cancelReq
          /\ end = "cancelled" => r \in cancelReq
          /\ end \in {"response", "cancelled", "error"}
      BY <1>11, <2>2
    <3> HIDE DEF Working, Into, end
    <3>3. QED  BY <1>7, <1>8, <2>2, <3>1, <3>2
  <2>3. CASE r \notin Queries
    <3>1. Quiet  BY <1>9, <1>11, <2>1, <2>3
    <3> HIDE DEF Quiet
    <3>2. QED  BY <1>5, <3>1
  <2>4. QED  BY <2>2, <2>3
<1>12. CASE Advances(r)
  <2>1. PICK where \in {"scheduled", "loading", "discovering"} : GoTo(r, where)
    BY <1>12 DEF Advances
  <2>2. QED  BY <1>4, <1>10, <1>12, <2>1 DEF GoTo, Advances, Early
<1>13. CASE Starts(r)  BY <1>4, <1>10, <1>13 DEF Starts, Early
<1>14. CASE Moves(r)  BY <1>4, <1>10, <1>14 DEF Moves, GoTo
<1>15. CASE Gives(r)
  <2>1. PICK how \in {"QueryProcessingError", "cancelled"} :
          End(r, how) /\ (how = "cancelled" <=> r \in pending)
    BY <1>15 DEF Gives
  <2>2. r \in pending => r \in cancelReq  BY DEF PipelineInv, Values
  <2>3. QED  BY <1>11, <1>15, <2>1, <2>2 DEF End, Gives, Early, Ends
<1>16. CASE Leaves(r)
  <2>1. PICK how \in Ends : LeaveContext(r, how)  BY <1>16 DEF Leaves, Ends
  <2>2. pc[r] # "ended"  BY <1>16 DEF Leaves
  <2>3. QED  BY <1>10, <2>1, <2>2 DEF LeaveContext
<1>17. CASE Yields(r)
  <2>1. r \in Streams  BY <1>17 DEF Yields, StreamEvent, StreamEnds, Streaming
  <2>2. PICK kind \in Kinds : Yield(r, kind)  BY <1>17, <2>1, YieldShape
  <2>3. pc[r] # "ended"  BY <1>17, <2>1, YieldShape
  <2>4. QED  BY <1>4, <1>10, <2>2, <2>3 DEF Yield
<1>18. CASE CloseAgent(r)
  <2>1. /\ pc[r] = "closing" /\ pc' = [pc EXCEPT ![r] = "ended"] /\ r \notin pending
        /\ outcome' = [outcome EXCEPT ![r] = outcome[r]] /\ cancelReq' = cancelReq
    BY <1>4, <1>18 DEF CloseAgent
  <2>2. /\ outcome[r] = "answer" => r \notin cancelReq
        /\ outcome[r] = "cancelled" => r \in cancelReq
    BY <1>1, <2>1 DEF RequestOK
  <2>3. QED  BY <1>1, <1>11, <2>1, <2>2
<1>19. CASE r \in pending /\ InterruptClose(r)
  <2>1. r \in cancelReq  BY <1>19 DEF PipelineInv, Values
  <2>2. QED  BY <1>11, <1>19, <2>1 DEF InterruptClose, Ends
<1>20. CASE Cancel(r)
  <2>1. pc' = pc /\ outcome' = outcome /\ cancelReq' = cancelReq \union {r} /\ pc[r] \notin {"idle", "ended"}
    BY <1>20 DEF Cancel, Suspended
  <2>2. taskBar' = taskBar  BY <2>1 DEF taskBar
  <2>3. CASE r \in Queries
    <3>1. Working  BY <1>9, <2>1, <2>3
    <3>2. (cancelReq \intersect Queries)' = (cancelReq \intersect Queries) \union {r}
      BY <2>1, <2>3
    <3>3. QED  BY <2>2, <2>3, <3>1, <3>2 DEF Task!Next, Task!RequestCancel
  <2>4. CASE r \notin Queries
    <3>1. (cancelReq \intersect Queries)' = cancelReq \intersect Queries  BY <2>1, <2>4
    <3>2. QED  BY <2>2, <3>1 DEF Task!vars
  <2>5. QED  BY <2>3, <2>4
<1>21. QED
  BY <1>12, <1>13, <1>14, <1>15, <1>16, <1>17, <1>18, <1>19, <1>20, StepShapes

\* The safety part of the contract of the task, in every behaviour of the pipeline.
THEOREM QueryKeepsContract == Spec => Task!Safety
<1>1. PipelineInv /\ [Next]_vars => [Task!Next]_(Task!vars)
  <2> SUFFICES ASSUME PipelineInv, [Next]_vars  PROVE [Task!Next]_(Task!vars)
    OBVIOUS
  <2>1. CASE \E r \in Requests : RequestStep(r)  BY <2>1, TaskStep
  <2>2. ASSUME UNCHANGED pipelineVars  PROVE UNCHANGED Task!vars
    BY <2>2 DEF pipelineVars, Task!vars, taskBar
  <2>3. QED  BY <2>1, <2>2 DEF Next, vars
<1>2. QED  BY <1>1, TaskInit, PipelineInvariant, PTL DEF Spec, Task!Safety

=============================================================================
