------------------------- MODULE AgentServiceProofs -------------------------
(***************************************************************************)
(* Proofs about AgentService, for any number of queries, streams and calls *)
(* of initialize and shutdown, any texts and any clock: its tables, its    *)
(* events, its contexts, and that it implements ServiceContract.           *)
(***************************************************************************)
EXTENDS AgentService, TLAPS

-----------------------------------------------------------------------------
(* Type correctness.                                                       *)

\* Opening a context keeps the lifecycle manager's tables well typed.
LEMMA OpenContextType ==
    ASSUME LifecycleTypeOK, NEW r \in Requests, OpenContext(r)
    PROVE  LifecycleTypeOK'
BY DEF LifecycleTypeOK, OpenContext, Without

\* Closing a context keeps them well typed.
LEMMA CloseContextType ==
    ASSUME LifecycleTypeOK, NEW r \in Requests, CloseContext(r)
    PROVE  LifecycleTypeOK'
BY DEF LifecycleTypeOK, CloseContext, Without

\* The initial state is well typed.
LEMMA InitType == Init => TypeOK
<1> SUFFICES ASSUME Init
             PROVE  TypeOK
  OBVIOUS
<1>1. LifecycleTypeOK  BY DEF Init, LifecycleInit, LifecycleTypeOK
<1>2. QED  BY <1>1 DEF Init, TypeOK

\* Every step of a call of initialize keeps the types.
LEMMA InitStepType ==
    ASSUME TypeOK, NEW i \in Initializers, InitStep(i)
    PROVE  TypeOK'
BY DEF TypeOK, InitStep, InitStart, InitFinish, InitCancelled, LifecycleTypeOK,
       serviceVars, queryVars, lifecycleVars

\* Every step of a call of shutdown keeps the types.
LEMMA ShutdownStepType ==
    ASSUME TypeOK, NEW d \in Shutdowners, ShutdownStep(d)
    PROVE  TypeOK'
<1> USE DEF TypeOK, LifecycleTypeOK, serviceVars, queryVars, lifecycleVars
<1>1. CASE ShutdownSkip(d)       BY <1>1 DEF ShutdownSkip
<1>2. CASE ShutdownBegin(d)      BY <1>2 DEF ShutdownBegin, CloseService, Cancel
<1>3. CASE ShutdownTimeout(d)    BY <1>3 DEF ShutdownTimeout, Cancel
<1>4. CASE ShutdownFinish(d)     BY <1>4 DEF ShutdownFinish, CloseService, Cancel
<1>5. CASE ShutdownCancelled(d)  BY <1>5 DEF ShutdownCancelled, Cancel
<1>6. CASE ShutdownAborted(d)    BY <1>6 DEF ShutdownAborted
<1>7. QED  BY <1>1, <1>2, <1>3, <1>4, <1>5, <1>6 DEF ShutdownStep

\* Every step of a query, its task or its caller keeps the types.
LEMMA QueryStepType ==
    ASSUME TypeOK, NEW q \in Queries, QueryStep(q)
    PROVE  TypeOK'
<1> USE ServiceAssumption DEF TypeOK, serviceVars, queryVars, lifecycleVars
<1>0. q \in Requests  OBVIOUS
<1>1. CASE ProcessQuery(q)
  BY <1>1 DEF ProcessQuery, LifecycleTypeOK, Settled
<1>2. CASE Register(q)
  <2>1. LifecycleTypeOK'  BY <1>0, <1>2, OpenContextType DEF Register
  <2>2. QED  BY <1>2, <2>1 DEF Register, Popped
<1>3. CASE RegisterFails(q)
  BY <1>3 DEF RegisterFails, Popped, LifecycleTypeOK, Settled
<1>4. CASE TaskStart(q)      BY <1>4 DEF TaskStart, LifecycleTypeOK, Ended
<1>5. CASE TaskFinish(q)     BY <1>5 DEF TaskFinish, LifecycleTypeOK, Ended
<1>6. CASE TaskCancelled(q)  BY <1>6 DEF TaskCancelled, LifecycleTypeOK, Ended
<1>7. ASSUME NEW how \in Settled, Leave(q, how)
      PROVE  TypeOK'
  <2>1. LifecycleTypeOK'  BY <1>0, <1>7, CloseContextType DEF Leave
  <2>2. QED  BY <1>7, <2>1 DEF Leave, Popped
<1>8. CASE QueryReturn(q)
  <2>1. Outcome(task[q]) \in Settled  BY <1>8 DEF QueryReturn, Done, Ended, Outcome, Settled
  <2>2. QED  BY <1>7, <1>8, <2>1 DEF QueryReturn
<1>9. CASE QueryReturnCancelled(q)
  <2>1. "cancelled" \in Settled  BY DEF Settled
  <2>2. QED  BY <1>7, <1>9, <2>1 DEF QueryReturnCancelled
<1>10. CASE CancelCaller(q)
  BY <1>10 DEF CancelCaller, Cancel, LifecycleTypeOK, Settled
<1>11. QED
  BY <1>1, <1>2, <1>3, <1>4, <1>5, <1>6, <1>8, <1>9, <1>10 DEF QueryStep

\* Every step of a stream keeps the types.
LEMMA StreamStepType ==
    ASSUME TypeOK, NEW s \in Streams, StreamStep(s)
    PROVE  TypeOK'
<1> USE ServiceAssumption DEF TypeOK, serviceVars, queryVars, lifecycleVars
<1>0. s \in Requests  OBVIOUS
<1>1. CASE StreamStart(s)
  <2>1. LifecycleTypeOK'
    BY <1>0, <1>1, OpenContextType DEF StreamStart, LifecycleTypeOK
  <2>2. QED  BY <1>1, <2>1 DEF StreamStart
<1>2. CASE StreamEnd(s)
  <2>1. LifecycleTypeOK'  BY <1>0, <1>2, CloseContextType DEF StreamEnd
  <2>2. QED  BY <1>2, <2>1 DEF StreamEnd
<1>3. QED  BY <1>1, <1>2 DEF StreamStep

\* Every step of the specification keeps the types.
LEMMA NextType == TypeOK /\ [Next]_vars => TypeOK'
<1> SUFFICES ASSUME TypeOK, [Next]_vars
             PROVE  TypeOK'
  OBVIOUS
<1>1. CASE UNCHANGED vars
  BY <1>1 DEF vars, TypeOK, LifecycleTypeOK, serviceVars, queryVars, lifecycleVars
<1>2. CASE Next
  BY <1>1, <1>2, InitStepType, QueryStepType, StreamStepType, ShutdownStepType DEF Next
<1>3. QED  BY <1>1, <1>2

\* Every variable of the service keeps its type.
THEOREM TypeCorrect == Spec => []TypeOK
BY InitType, NextType, PTL DEF Spec

-----------------------------------------------------------------------------
(* A service that admits requests has its components.                      *)

\* The signal comes before the components go: a call of shutdown that waits, or
\* has closed the service, has set the event.
Signalled ==
    /\ ~components => shutdownEvent
    /\ \A d \in Shutdowners : downPc[d] \in {"waiting", "timedout"} => shutdownEvent

\* Every step keeps the order of the signal and the close.
LEMMA SignalledStep == TypeOK /\ Signalled /\ [Next]_vars => Signalled'
<1> SUFFICES ASSUME TypeOK, Signalled, [Next]_vars
             PROVE  Signalled'
  OBVIOUS
<1> USE DEF Signalled, serviceVars
<1>1. CASE UNCHANGED vars  BY <1>1 DEF vars
<1>2. ASSUME NEW i \in Initializers, InitStep(i)
      PROVE  Signalled'
  BY <1>2 DEF InitStep, InitStart, InitFinish, InitCancelled
<1>3. ASSUME NEW q \in Queries, QueryStep(q)
      PROVE  Signalled'
  BY <1>3 DEF QueryStep, ProcessQuery, Register, RegisterFails, TaskStart, TaskFinish,
              TaskCancelled, QueryReturn, QueryReturnCancelled, Leave, CancelCaller
<1>4. ASSUME NEW s \in Streams, StreamStep(s)
      PROVE  Signalled'
  BY <1>4 DEF StreamStep, StreamStart, StreamEnd
<1>5. ASSUME NEW d \in Shutdowners, ShutdownStep(d)
      PROVE  Signalled'
  <2> USE DEF TypeOK
  <2>1. CASE ShutdownSkip(d)       BY <2>1 DEF ShutdownSkip
  <2>2. CASE ShutdownBegin(d)      BY <2>2 DEF ShutdownBegin, CloseService
  <2>3. CASE ShutdownTimeout(d)    BY <2>3 DEF ShutdownTimeout
  <2>4. CASE ShutdownFinish(d)     BY <2>4 DEF ShutdownFinish, CloseService
  <2>5. CASE ShutdownCancelled(d)  BY <2>5 DEF ShutdownCancelled
  <2>6. CASE ShutdownAborted(d)    BY <2>6 DEF ShutdownAborted
  <2>7. QED  BY <1>5, <2>1, <2>2, <2>3, <2>4, <2>5, <2>6 DEF ShutdownStep
<1>6. QED  BY <1>1, <1>2, <1>3, <1>4, <1>5 DEF Next

\* The assertion of chat_history holds whatever the order in which calls of
\* initialize and shutdown overlap.
THEOREM AdmittingCorrect == Spec => []AdmittingHasComponents
<1>1. Init => Signalled  BY DEF Init, Signalled
<1>2. Signalled => AdmittingHasComponents
  BY DEF Signalled, AdmittingHasComponents, Admitting
<1>3. QED  BY <1>1, <1>2, SignalledStep, TypeCorrect, PTL DEF Spec

-----------------------------------------------------------------------------
(* The table of in-flight queries, and what shutdown makes of it.          *)

\* What makes the table's invariant inductive: the guards give a query its id,
\* and a task that has not ended is awaited.
IdsGiven ==
    \A q \in Queries :
        /\ pc[q] = "idle" => admittedAt[q] = NoInstant
        /\ pc[q] \in {"ensuring", "awaiting"} => admittedAt[q] \in Instants
        /\ task[q] \in {"scheduled", "running"} => pc[q] = "awaiting"

TableInv == TypeOK /\ IdsGiven /\ TableSound /\ ClosedMeansStopped

\* The initial state satisfies the table's invariant.
LEMMA InitTable == Init => TableInv
<1> SUFFICES ASSUME Init
             PROVE  TableInv
  OBVIOUS
<1>1. TypeOK  BY InitType
<1>2. IdsGiven  BY DEF Init, IdsGiven
<1>3. TableSound  BY DEF Init, TableSound
<1>4. ClosedMeansStopped  BY DEF Init, ClosedMeansStopped
<1>5. QED  BY <1>1, <1>2, <1>3, <1>4 DEF TableInv

\* A step that leaves the queries, their tasks and the components alone keeps the
\* table's invariant.
LEMMA TableFrame ==
    ASSUME TableInv, TypeOK', UNCHANGED <<queryVars, components>>
    PROVE  TableInv'
BY DEF TableInv, IdsGiven, TableSound, ClosedMeansStopped, IdShared, SameId, Done, queryVars

\* An id that was shared stays shared.
LEMMA IdSharedStable ==
    ASSUME TableInv, NEW q \in Queries, QueryStep(q), NEW x \in Queries, IdShared(x)
    PROVE  IdShared(x)'
<1>1. PICK p \in Queries \ {x} : admittedAt[x] # NoInstant /\ SameId(p, x)
  BY DEF IdShared, SameId
<1>2. admittedAt'[x] = admittedAt[x] /\ admittedAt'[p] = admittedAt[p]
  <2>1. CASE UNCHANGED admittedAt  BY <2>1
  <2>2. CASE pc[q] = "idle" /\ \E ms \in Instants : admittedAt' = [admittedAt EXCEPT ![q] = ms]
    BY <1>1, <2>2 DEF TableInv, TypeOK, IdsGiven, SameId
  <2>3. QED
    BY <2>1, <2>2 DEF QueryStep, ProcessQuery, Register, RegisterFails, TaskStart, TaskFinish,
       TaskCancelled, QueryReturn, QueryReturnCancelled, Leave, CancelCaller
<1>3. QED  BY <1>1, <1>2 DEF IdShared, SameId

\* An awaited query that a pop of q's id removes from the table shares its id
\* with q.
LEMMA PoppedShared ==
    ASSUME TableInv, NEW q \in Queries, NEW x \in Queries \ {q}, pc[x] = "awaiting",
           x \notin Popped(q), UNCHANGED admittedAt,
           IdShared(x) => IdShared(x)'
    PROVE  IdShared(x)'
<1>1. CASE x \in active
  <2>1. SameId(x, q)  BY <1>1 DEF Popped
  <2>2. admittedAt[x] # NoInstant  BY LifecycleAssumption DEF TableInv, IdsGiven
  <2>3. QED  BY <2>1, <2>2 DEF IdShared, SameId
<1>2. CASE x \notin active  BY <1>2 DEF TableInv, TableSound
<1>3. QED  BY <1>1, <1>2

\* Every step of a query keeps the table's invariant.
LEMMA QueryStepTable ==
    ASSUME TableInv, NEW q \in Queries, QueryStep(q)
    PROVE  TableInv'
<1>0. TypeOK /\ TypeOK'  BY QueryStepType DEF TableInv
<1>a. \A x \in Queries : IdShared(x) => IdShared(x)'  BY IdSharedStable
<1>1. CASE ProcessQuery(q)
  <2> USE <1>1 DEF ProcessQuery, TypeOK, TableInv
  <2>1. IdsGiven'  BY <1>0 DEF IdsGiven
  <2>2. q \notin active  BY DEF TableSound
  <2>3. \A x \in active : x # q /\ pc'[x] = pc[x] /\ admittedAt'[x] = admittedAt[x]
    BY <1>0, <2>2
  <2>4. TableSound'  BY <1>0, <1>a, <2>3 DEF TableSound, SameId
  <2>5. ClosedMeansStopped'
    BY <1>0, <1>a DEF ClosedMeansStopped, Done, serviceVars
  <2>6. QED  BY <1>0, <2>1, <2>4, <2>5
<1>2. CASE Register(q)
  <2> USE <1>2 DEF Register
  <2>1. IdsGiven'  BY <1>0 DEF TypeOK, IdsGiven, TableInv
  <2>2. \A x \in active' : x = q \/ (x \in active /\ ~SameId(x, q))  BY DEF Popped
  <2>3. \A x, y \in active' : SameId(x, y)' => x = y
    BY <2>2 DEF TableInv, TableSound, SameId
  <2>4. \A x \in active' : pc'[x] = "awaiting"
    BY <1>0, <2>2 DEF TableInv, TableSound, TypeOK
  <2>5. ASSUME NEW x \in Queries, pc'[x] = "awaiting"
        PROVE  x \in active' \/ IdShared(x)'
    <3>1. CASE x = q  BY <3>1
    <3>2. CASE x # q
      <4>1. pc[x] = "awaiting"  BY <1>0, <2>5, <3>2 DEF TypeOK
      <4>2. QED  BY <1>a, <3>2, <4>1, PoppedShared
    <3>3. QED  BY <3>1, <3>2
  <2>6. TableSound'  BY <2>3, <2>4, <2>5 DEF TableSound
  <2>7. ClosedMeansStopped'  BY DEF ClosedMeansStopped, serviceVars
  <2>8. QED  BY <1>0, <2>1, <2>6, <2>7 DEF TableInv
<1>3. ASSUME NEW how \in Settled, UNCHANGED <<admittedAt, task, cancelReq, components>>,
             active' = Popped(q), pc' = [pc EXCEPT ![q] = how],
             task[q] \notin {"scheduled", "running"}
      PROVE  TableInv'
  <2> USE <1>3
  <2>1. IdsGiven'  BY <1>0 DEF TypeOK, IdsGiven, TableInv, Settled
  <2>2. \A x \in active' : x # q /\ x \in active
    BY DEF Popped, SameId
  <2>3. ASSUME NEW x \in Queries, pc'[x] = "awaiting"
        PROVE  x \in active' \/ IdShared(x)'
    <3>1. x # q /\ pc[x] = "awaiting"  BY <1>0, <2>3 DEF TypeOK, Settled
    <3>2. QED  BY <1>a, <3>1, PoppedShared
  <2>4. TableSound'
    BY <1>0, <2>2, <2>3 DEF TableInv, TableSound, TypeOK, SameId
  <2>5. ClosedMeansStopped'
    BY <1>0, <1>a DEF TableInv, ClosedMeansStopped, TypeOK, Settled, Done
  <2>6. QED  BY <1>0, <2>1, <2>4, <2>5 DEF TableInv
<1>4. CASE RegisterFails(q)
  BY <1>3, <1>4 DEF RegisterFails, serviceVars, Settled, TableInv, IdsGiven
<1>5. ASSUME NEW how \in Settled, Leave(q, how), Done(q)
      PROVE  TableInv'
  BY <1>3, <1>5 DEF Leave, serviceVars, Done, Ended
<1>6. CASE QueryReturn(q)
  BY <1>5, <1>6 DEF QueryReturn, Done, Ended, Outcome, Settled
<1>7. CASE QueryReturnCancelled(q)
  BY <1>5, <1>7 DEF QueryReturnCancelled, Settled
<1>8. ASSUME NEW t \in {"running"} \union Ended, task' = [task EXCEPT ![q] = t],
             task[q] \in {"scheduled", "running"}, t = "running" => components \/ q \in cancelReq,
             UNCHANGED <<pc, admittedAt, active, cancelReq, components>>
      PROVE  TableInv'
  <2> USE <1>8
  <2>1. IdsGiven'  BY <1>0 DEF TypeOK, IdsGiven, TableInv
  <2>2. TableSound'  BY <1>a DEF TableInv, TableSound, SameId
  <2>3. ClosedMeansStopped'
    BY <1>0, <1>a DEF TableInv, ClosedMeansStopped, TypeOK, Done, Ended
  <2>4. QED  BY <1>0, <2>1, <2>2, <2>3 DEF TableInv
<1>9. CASE TaskStart(q)      BY <1>8, <1>9 DEF TaskStart, serviceVars, Ended
<1>10. CASE TaskFinish(q)    BY <1>8, <1>10 DEF TaskFinish, serviceVars, Ended
<1>11. CASE TaskCancelled(q) BY <1>8, <1>11 DEF TaskCancelled, serviceVars, Ended
<1>12. CASE CancelCaller(q)
  <2> USE <1>12 DEF CancelCaller, serviceVars
  <2>1. IdsGiven'  BY <1>0 DEF TypeOK, IdsGiven, TableInv
  <2>2. TableSound'
    BY <1>0, <1>a DEF TableInv, TableSound, TypeOK, SameId
  <2>3. ClosedMeansStopped'
    BY <1>0, <1>a DEF TableInv, ClosedMeansStopped, TypeOK, Done, Cancel
  <2>4. QED  BY <1>0, <2>1, <2>2, <2>3 DEF TableInv
<1>13. QED
  BY <1>1, <1>2, <1>4, <1>6, <1>7, <1>9, <1>10, <1>11, <1>12 DEF QueryStep

\* Closing the service stops every query of the table, and so every query whose
\* id is its own.
LEMMA CloseServiceTable ==
    ASSUME TableInv, TypeOK', NEW d \in Shutdowners, CloseService(d),
           UNCHANGED <<pc, admittedAt, active, task>>
    PROVE  TableInv'
BY DEF TableInv, IdsGiven, TableSound, ClosedMeansStopped, CloseService, Cancel, IdShared,
       SameId, Done

\* A step that only asks tasks to cancel keeps the table's invariant.
LEMMA CancelTable ==
    ASSUME TableInv, TypeOK', NEW S \in SUBSET Queries, Cancel(S),
           UNCHANGED <<pc, admittedAt, active, task, components>>
    PROVE  TableInv'
BY DEF TableInv, IdsGiven, TableSound, ClosedMeansStopped, Cancel, IdShared, SameId, Done

\* Every step of a call of shutdown keeps the table's invariant.
LEMMA ShutdownStepTable ==
    ASSUME TableInv, NEW d \in Shutdowners, ShutdownStep(d)
    PROVE  TableInv'
<1>0. TypeOK /\ TypeOK'  BY ShutdownStepType DEF TableInv
<1> USE <1>0 DEF serviceVars
<1>1. CASE ShutdownSkip(d)       BY <1>1, TableFrame DEF ShutdownSkip
<1>2. CASE ShutdownBegin(d)
  BY <1>2, CloseServiceTable, TableFrame DEF ShutdownBegin, queryVars
<1>3. CASE ShutdownTimeout(d)    BY <1>3, CancelTable DEF ShutdownTimeout, TypeOK
<1>4. CASE ShutdownFinish(d)     BY <1>4, CloseServiceTable DEF ShutdownFinish
<1>5. CASE ShutdownCancelled(d)  BY <1>5, CancelTable DEF ShutdownCancelled, TypeOK
<1>6. CASE ShutdownAborted(d)    BY <1>6, TableFrame DEF ShutdownAborted
<1>7. QED  BY <1>1, <1>2, <1>3, <1>4, <1>5, <1>6 DEF ShutdownStep

\* Every step of the specification keeps the table's invariant.
LEMMA NextTable == TableInv /\ [Next]_vars => TableInv'
<1> SUFFICES ASSUME TableInv, [Next]_vars
             PROVE  TableInv'
  OBVIOUS
<1>0. TypeOK'  BY NextType DEF TableInv
<1>1. CASE UNCHANGED vars  BY <1>0, <1>1, TableFrame DEF vars, serviceVars
<1>2. ASSUME NEW i \in Initializers, InitStep(i)
      PROVE  TableInv'
  BY <1>0, <1>2, TableFrame DEF InitStep, InitStart, InitFinish, InitCancelled, serviceVars
<1>3. ASSUME NEW s \in Streams, StreamStep(s)
      PROVE  TableInv'
  BY <1>0, <1>3, TableFrame DEF StreamStep, StreamStart, StreamEnd, serviceVars
<1>4. QED  BY <1>1, <1>2, <1>3, QueryStepTable, ShutdownStepTable DEF Next

\* The invariant of the table holds of every reachable state.
LEMMA TableInvariant == Spec => []TableInv
BY InitTable, NextTable, PTL DEF Spec

\* The table of in-flight queries holds exactly the awaited queries, but for those
\* that lost their place to a query of the same id.
THEOREM TableCorrect == Spec => []TableSound
<1>1. TableInv => TableSound  BY DEF TableInv
<1>2. QED  BY <1>1, TableInvariant, PTL

\* Once shutdown has dropped the components, every query with an id of its own
\* has ended or has been told to.
THEOREM ClosedStopsQueries == Spec => []ClosedMeansStopped
<1>1. TableInv => ClosedMeansStopped  BY DEF TableInv
<1>2. QED  BY <1>1, TableInvariant, PTL

\* No task with an id of its own starts without an orchestrator.
THEOREM OrchestratorPresent == Spec => []StartsWithOrchestrator
<1>1. TableInv => StartsWithOrchestrator
  BY DEF TableInv, IdsGiven, ClosedMeansStopped, StartsWithOrchestrator, Done, Ended
<1>2. QED  BY <1>1, TableInvariant, PTL

-----------------------------------------------------------------------------
(* The lifecycle manager's tables.                                         *)

\* A request that has not reached its context has no key, one in flight has.
KeysGiven ==
    /\ \A q \in Queries :
         /\ pc[q] \in {"idle", "ensuring"} => openedAt[q] = NoInstant
         /\ pc[q] = "awaiting" => openedAt[q] \in Instants
    /\ \A s \in Streams :
         /\ streamPc[s] = "idle" => openedAt[s] = NoInstant
         /\ streamPc[s] = "streaming" => openedAt[s] \in Instants

ContextInv == TypeOK /\ KeysGiven /\ ContextsSound

\* The initial state satisfies the invariant of the tables.
LEMMA InitContext == Init => ContextInv
<1> SUFFICES ASSUME Init
             PROVE  ContextInv
  OBVIOUS
<1>1. TypeOK  BY InitType
<1>2. KeysGiven  BY ServiceAssumption DEF Init, LifecycleInit, KeysGiven
<1>3. ContextsSound  BY DEF Init, LifecycleInit, ContextsSound, InFlight
<1>4. QED  BY <1>1, <1>2, <1>3 DEF ContextInv

\* A step that opens and closes nothing keeps the invariant of the tables.
LEMMA ContextFrame ==
    ASSUME ContextInv, TypeOK', KeysGiven', InFlight' = InFlight, UNCHANGED lifecycleVars
    PROVE  ContextInv'
BY DEF ContextInv, ContextsSound, lifecycleVars

\* A request that comes into flight with a context of its own keeps the
\* invariant: whom it displaces shares its key.
LEMMA OpenKeepsSound ==
    ASSUME ContextInv, NEW r \in Requests, openedAt[r] = NoInstant, OpenContext(r),
           r \notin InFlight, InFlight' = InFlight \union {r}
    PROVE  ContextsSound'
<1>1. PICK ms \in Instants :
        /\ openedAt' = [openedAt EXCEPT ![r] = ms]
        /\ openContexts' = Without(openContexts, ms) \union {r}
        /\ retryContexts' = IF Retries(r)
                            THEN Without(retryContexts, ms) \union {r}
                            ELSE retryContexts
  BY DEF OpenContext
<1>2. openedAt \in [Requests -> Instants \union {NoInstant}] /\ InFlight \subseteq Requests
  BY ServiceAssumption DEF ContextInv, TypeOK, LifecycleTypeOK, InFlight
<1>3. \A x \in InFlight : openedAt[x] \in Instants
  BY DEF ContextInv, KeysGiven, InFlight
<1>4. openContexts' \subseteq InFlight'
  BY <1>1 DEF ContextInv, ContextsSound, Without
<1>5. retryContexts' \subseteq {x \in InFlight' : Retries(x)}
  BY <1>1 DEF ContextInv, ContextsSound, Without
<1>6. ASSUME NEW x \in InFlight', x \notin openContexts'
      PROVE  \E p \in Requests \ {x} : openedAt'[p] = openedAt'[x]
  <2>1. x \in InFlight /\ x # r  BY <1>1, <1>6
  <2>2. CASE x \in openContexts
    <3>1. openedAt[x] = ms  BY <1>1, <1>6, <2>2 DEF Without
    <3>2. QED  BY <1>1, <1>2, <2>1, <3>1
  <2>3. CASE x \notin openContexts
    <3>1. PICK p \in Requests \ {x} : openedAt[p] = openedAt[x]
      BY <2>1, <2>3 DEF ContextInv, ContextsSound
    <3>2. p # r  BY <1>3, <2>1, <3>1, LifecycleAssumption
    <3>3. QED  BY <1>1, <1>2, <2>1, <3>1, <3>2
  <2>4. QED  BY <2>2, <2>3
<1>7. QED  BY <1>4, <1>5, <1>6 DEF ContextsSound

\* A request that leaves and closes its context keeps the invariant: whose entry
\* it removes with its own shares its key.
LEMMA CloseKeepsSound ==
    ASSUME ContextInv, NEW r \in Requests, CloseContext(r), r \in InFlight,
           InFlight' = InFlight \ {r}
    PROVE  ContextsSound'
<1>1. openContexts' = Without(openContexts, openedAt[r])
      /\ retryContexts' = Without(retryContexts, openedAt[r])
      /\ openedAt' = openedAt
  BY DEF CloseContext
<1>2. openContexts' \subseteq InFlight'
  BY <1>1 DEF ContextInv, ContextsSound, Without
<1>3. retryContexts' \subseteq {x \in InFlight' : Retries(x)}
  BY <1>1 DEF ContextInv, ContextsSound, Without
<1>4. ASSUME NEW x \in InFlight', x \notin openContexts'
      PROVE  \E p \in Requests \ {x} : openedAt'[p] = openedAt'[x]
  <2>1. CASE x \in openContexts
    BY <1>1, <1>4, <2>1 DEF Without
  <2>2. CASE x \notin openContexts
    BY <1>1, <1>4, <2>2 DEF ContextInv, ContextsSound
  <2>3. QED  BY <2>1, <2>2
<1>5. QED  BY <1>2, <1>3, <1>4 DEF ContextsSound

\* Every step of a query keeps the invariant of the tables.
LEMMA QueryStepContext ==
    ASSUME ContextInv, NEW q \in Queries, QueryStep(q)
    PROVE  ContextInv'
<1>0. TypeOK /\ TypeOK' /\ q \in Requests /\ q \notin Streams
  BY QueryStepType, ServiceAssumption DEF ContextInv
<1>1. CASE ProcessQuery(q)
  <2>1. KeysGiven'  BY <1>0, <1>1 DEF ProcessQuery, TypeOK, ContextInv, KeysGiven, lifecycleVars
  <2>2. InFlight' = InFlight  BY <1>0, <1>1 DEF ProcessQuery, TypeOK, InFlight
  <2>3. QED  BY <1>0, <1>1, <2>1, <2>2, ContextFrame DEF ProcessQuery
<1>2. CASE Register(q)
  <2> USE <1>2 DEF Register
  <2>1. KeysGiven'
    BY <1>0 DEF TypeOK, LifecycleTypeOK, ContextInv, KeysGiven, OpenContext
  <2>2. q \notin InFlight /\ InFlight' = InFlight \union {q}
    BY <1>0 DEF TypeOK, InFlight
  <2>3. openedAt[q] = NoInstant  BY DEF ContextInv, KeysGiven
  <2>4. ContextsSound'  BY <1>0, <2>2, <2>3, OpenKeepsSound
  <2>5. QED  BY <1>0, <2>1, <2>4 DEF ContextInv
<1>3. CASE RegisterFails(q)
  <2>1. KeysGiven'  BY <1>0, <1>3 DEF RegisterFails, TypeOK, ContextInv, KeysGiven, lifecycleVars
  <2>2. InFlight' = InFlight  BY <1>0, <1>3 DEF RegisterFails, TypeOK, InFlight
  <2>3. QED  BY <1>0, <1>3, <2>1, <2>2, ContextFrame DEF RegisterFails
<1>4. CASE TaskStart(q) \/ TaskFinish(q) \/ TaskCancelled(q)
  BY <1>0, <1>4, ContextFrame
     DEF TaskStart, TaskFinish, TaskCancelled, ContextInv, KeysGiven, InFlight, lifecycleVars
<1>5. ASSUME NEW how \in Settled, Leave(q, how), pc[q] = "awaiting"
      PROVE  ContextInv'
  <2> USE <1>5 DEF Leave
  <2>1. KeysGiven'
    BY <1>0 DEF TypeOK, ContextInv, KeysGiven, CloseContext, Settled
  <2>2. q \in InFlight /\ InFlight' = InFlight \ {q}
    BY <1>0 DEF TypeOK, InFlight, Settled
  <2>3. ContextsSound'  BY <1>0, <2>2, CloseKeepsSound
  <2>4. QED  BY <1>0, <2>1, <2>3 DEF ContextInv
<1>6. CASE QueryReturn(q)
  BY <1>5, <1>6 DEF QueryReturn, Done, Ended, Outcome, Settled
<1>7. CASE QueryReturnCancelled(q)
  BY <1>5, <1>7 DEF QueryReturnCancelled, Settled
<1>8. CASE CancelCaller(q)
  <2>1. KeysGiven'  BY <1>0, <1>8 DEF CancelCaller, TypeOK, ContextInv, KeysGiven, lifecycleVars
  <2>2. InFlight' = InFlight  BY <1>0, <1>8 DEF CancelCaller, TypeOK, InFlight
  <2>3. QED  BY <1>0, <1>8, <2>1, <2>2, ContextFrame DEF CancelCaller
<1>9. QED  BY <1>1, <1>2, <1>3, <1>4, <1>6, <1>7, <1>8 DEF QueryStep

\* Every step of a stream keeps the invariant of the tables.
LEMMA StreamStepContext ==
    ASSUME ContextInv, NEW s \in Streams, StreamStep(s)
    PROVE  ContextInv'
<1>0. TypeOK /\ TypeOK' /\ s \in Requests /\ s \notin Queries
  BY StreamStepType, ServiceAssumption DEF ContextInv
<1>1. CASE StreamStart(s) /\ streamPc' = [streamPc EXCEPT ![s] = "rejected"]
  <2>1. UNCHANGED lifecycleVars  BY <1>0, <1>1 DEF StreamStart, TypeOK
  <2>2. KeysGiven'
    BY <1>0, <1>1, <2>1 DEF StreamStart, TypeOK, ContextInv, KeysGiven, lifecycleVars, queryVars
  <2>3. InFlight' = InFlight  BY <1>0, <1>1 DEF StreamStart, TypeOK, InFlight, queryVars
  <2>4. QED  BY <1>0, <2>1, <2>2, <2>3, ContextFrame
<1>2. CASE StreamStart(s) /\ OpenContext(s) /\ streamPc' = [streamPc EXCEPT ![s] = "streaming"]
  <2> USE <1>2 DEF StreamStart, queryVars
  <2>1. KeysGiven'
    BY <1>0 DEF TypeOK, LifecycleTypeOK, ContextInv, KeysGiven, OpenContext
  <2>2. s \notin InFlight /\ InFlight' = InFlight \union {s}
    BY <1>0 DEF TypeOK, InFlight
  <2>3. openedAt[s] = NoInstant  BY DEF ContextInv, KeysGiven
  <2>4. ContextsSound'  BY <1>0, <2>2, <2>3, OpenKeepsSound
  <2>5. QED  BY <1>0, <2>1, <2>4 DEF ContextInv
<1>3. CASE StreamEnd(s)
  <2> USE <1>3 DEF StreamEnd, queryVars
  <2>1. KeysGiven'  BY <1>0 DEF TypeOK, ContextInv, KeysGiven, CloseContext
  <2>2. s \in InFlight /\ InFlight' = InFlight \ {s}  BY <1>0 DEF TypeOK, InFlight
  <2>3. ContextsSound'  BY <1>0, <2>2, CloseKeepsSound
  <2>4. QED  BY <1>0, <2>1, <2>3 DEF ContextInv
<1>4. QED  BY <1>1, <1>2, <1>3 DEF StreamStep, StreamStart

\* Every step of the specification keeps the invariant of the tables.
LEMMA NextContext == ContextInv /\ [Next]_vars => ContextInv'
<1> SUFFICES ASSUME ContextInv, [Next]_vars
             PROVE  ContextInv'
  OBVIOUS
<1>0. TypeOK'  BY NextType DEF ContextInv
<1>1. ASSUME UNCHANGED <<pc, streamPc, lifecycleVars>>
      PROVE  ContextInv'
  <2>1. KeysGiven'  BY <1>1 DEF ContextInv, KeysGiven, lifecycleVars
  <2>2. InFlight' = InFlight  BY <1>1 DEF InFlight
  <2>3. QED  BY <1>0, <1>1, <2>1, <2>2, ContextFrame
<1>2. CASE UNCHANGED vars  BY <1>1, <1>2 DEF vars, queryVars
<1>3. ASSUME NEW i \in Initializers, InitStep(i)
      PROVE  ContextInv'
  BY <1>1, <1>3 DEF InitStep, InitStart, InitFinish, InitCancelled, queryVars
<1>4. ASSUME NEW d \in Shutdowners, ShutdownStep(d)
      PROVE  ContextInv'
  BY <1>1, <1>4 DEF ShutdownStep, ShutdownSkip, ShutdownBegin, ShutdownTimeout, ShutdownFinish,
     ShutdownCancelled, ShutdownAborted, queryVars
<1>5. QED  BY <1>2, <1>3, <1>4, QueryStepContext, StreamStepContext DEF Next

\* No cancellation, failure or shared key leaks a context or a retry context.
THEOREM ContextsCorrect == Spec => []ContextsSound
<1>1. ContextInv => ContextsSound  BY DEF ContextInv
<1>2. QED  BY <1>1, InitContext, NextContext, PTL DEF Spec

-----------------------------------------------------------------------------
(* AgentService implements ServiceContract: every initial state maps to an *)
(* initial state of the contract, and every step to a step of it or to     *)
(* none, for any number of calls, provided that no two queries have texts  *)
(* of one hash, so that none share an id.                                  *)

\* Queries with different texts have different ids.
OwnIds == \A p, q \in Queries : Hash[p] = Hash[q] => p = q

\* Nothing asks the task of a query to cancel before there is one.
CancelsHaveTasks ==
    \A q \in Queries : pc[q] \in {"idle", "ensuring"} =>
        q \notin cancelReq /\ \A d \in Shutdowners : q \notin waitsFor[d]

RefInv == TableInv /\ Signalled /\ CancelsHaveTasks

-----------------------------------------------------------------------------

\* Every step keeps CancelsHaveTasks.
LEMMA CancelsStep ==
    ASSUME TableInv, CancelsHaveTasks, [Next]_vars
    PROVE  CancelsHaveTasks'
<1> USE DEF CancelsHaveTasks
<1>0. TypeOK  BY DEF TableInv
<1>1. CASE UNCHANGED vars  BY <1>1 DEF vars, queryVars
<1>2. ASSUME NEW i \in Initializers, InitStep(i)
      PROVE  CancelsHaveTasks'
  BY <1>2 DEF InitStep, InitStart, InitFinish, InitCancelled, queryVars
<1>3. ASSUME NEW q \in Queries, QueryStep(q)
      PROVE  CancelsHaveTasks'
  <2>1. CASE ProcessQuery(q)   BY <1>0, <2>1 DEF ProcessQuery, TypeOK
  <2>2. CASE Register(q)       BY <1>0, <2>2 DEF Register, TypeOK
  <2>3. CASE RegisterFails(q)  BY <1>0, <2>3 DEF RegisterFails, TypeOK
  <2>4. CASE TaskStart(q) \/ TaskFinish(q) \/ TaskCancelled(q)
    BY <2>4 DEF TaskStart, TaskFinish, TaskCancelled
  <2>5. ASSUME NEW how \in Settled, Leave(q, how)
        PROVE  CancelsHaveTasks'
    BY <1>0, <2>5 DEF Leave, TypeOK, Settled
  <2>6. CASE QueryReturn(q)
    BY <2>5, <2>6 DEF QueryReturn, Done, Ended, Outcome, Settled
  <2>7. CASE QueryReturnCancelled(q)  BY <2>5, <2>7 DEF QueryReturnCancelled, Settled
  <2>8. CASE CancelCaller(q)  BY <1>0, <2>8 DEF CancelCaller, Cancel, TypeOK
  <2>9. QED  BY <1>3, <2>1, <2>2, <2>3, <2>4, <2>6, <2>7, <2>8 DEF QueryStep
<1>4. ASSUME NEW s \in Streams, StreamStep(s)
      PROVE  CancelsHaveTasks'
  BY <1>4 DEF StreamStep, StreamStart, StreamEnd, queryVars
<1>5. ASSUME NEW d \in Shutdowners, ShutdownStep(d)
      PROVE  CancelsHaveTasks'
  <2> USE <1>0 DEF TypeOK, Cancel, queryVars
  <2>0. \A q \in active : pc[q] = "awaiting"  BY DEF TableInv, TableSound
  <2>1. CASE ShutdownSkip(d)       BY <2>1 DEF ShutdownSkip
  <2>2. CASE ShutdownBegin(d)      BY <2>0, <2>2 DEF ShutdownBegin, CloseService
  <2>3. CASE ShutdownTimeout(d)    BY <2>3 DEF ShutdownTimeout
  <2>4. CASE ShutdownFinish(d)     BY <2>0, <2>4 DEF ShutdownFinish, CloseService
  <2>5. CASE ShutdownCancelled(d)  BY <2>5 DEF ShutdownCancelled
  <2>6. CASE ShutdownAborted(d)    BY <2>6 DEF ShutdownAborted
  <2>7. QED  BY <1>5, <2>1, <2>2, <2>3, <2>4, <2>5, <2>6 DEF ShutdownStep
<1>6. QED  BY <1>1, <1>2, <1>3, <1>4, <1>5 DEF Next

\* The invariant the refinement rests on.
LEMMA RefInvariant == Spec => []RefInv
<1>1. Init => RefInv  BY InitTable DEF Init, RefInv, Signalled, CancelsHaveTasks
<1>2. RefInv /\ [Next]_vars => RefInv'
  BY NextTable, SignalledStep, CancelsStep DEF RefInv, TableInv
<1>3. QED  BY <1>1, <1>2, PTL DEF Spec

-----------------------------------------------------------------------------
(* The steps.                                                              *)

\* With ids of their own, the queries of a closed service are all stopping.
LEMMA ClosedStopping ==
    ASSUME OwnIds, RefInv, ~components, NEW q \in Queries, pc[q] \in {"ensuring", "awaiting"}
    PROVE  Stopping(q)
BY DEF OwnIds, RefInv, TableInv, ClosedMeansStopped, IdShared, SameId, Stopping

\* A step that changes the tasks, the table and the cancellations of no query
\* maps every query to itself.
LEMMA SameStatus ==
    ASSUME UNCHANGED <<pc, task, cancelReq, components>>
    PROVE  statusBar' = statusBar
BY DEF statusBar, Status, Stopping, Done

\* A step of one query changes the status of no other.
LEMMA OtherStatus ==
    ASSUME TypeOK, TypeOK', NEW q \in Queries, QueryStep(q)
    PROVE  statusBar' = [statusBar EXCEPT ![q] = Status(q)']
<1>1. \A x \in Queries \ {q} :
        /\ pc'[x] = pc[x]
        /\ task'[x] = task[x]
        /\ x \in cancelReq' <=> x \in cancelReq
  BY DEF TypeOK, QueryStep, ProcessQuery, Register, RegisterFails, TaskStart, TaskFinish,
     TaskCancelled, QueryReturn, QueryReturnCancelled, Leave, CancelCaller, Cancel
<1>2. components' = components
  BY DEF QueryStep, ProcessQuery, Register, RegisterFails, TaskStart, TaskFinish,
     TaskCancelled, QueryReturn, QueryReturnCancelled, Leave, CancelCaller, serviceVars
<1>3. ASSUME NEW x \in Queries \ {q}
      PROVE  Status(x)' = Status(x)
  <2>1. Done(x)' <=> Done(x)  BY <1>1 DEF Done, Ended
  <2>2. Stopping(x)' <=> Stopping(x)  BY <1>1, <1>2, <2>1 DEF Stopping
  <2>3. QED  BY <1>1, <2>2 DEF Status, Settled
<1>4. QED  BY <1>3 DEF statusBar

\* A step of a query does not change the phase.
LEMMA QueryPhase ==
    ASSUME NEW q \in Queries, QueryStep(q)
    PROVE  phaseBar' = phaseBar
BY DEF phaseBar, QueryStep, ProcessQuery, Register, RegisterFails, TaskStart, TaskFinish,
   TaskCancelled, QueryReturn, QueryReturnCancelled, Leave, CancelCaller, serviceVars

\* Every step of a query is a step of the contract, or none.
LEMMA QueryRefines ==
    ASSUME OwnIds, RefInv, NEW q \in Queries, QueryStep(q)
    PROVE  [Contract!Next]_(Contract!vars)
<1>0. TypeOK /\ TypeOK'  BY QueryStepType DEF RefInv, TableInv
<1>a. phaseBar' = phaseBar  BY QueryPhase
<1>b. statusBar' = [statusBar EXCEPT ![q] = Status(q)']  BY <1>0, OtherStatus
<1>c. Status(q)' = Status(q) => UNCHANGED Contract!vars
  BY <1>a, <1>b DEF Contract!vars, statusBar
<1>d. ASSUME Status(q) = "working", Status(q)' = "stopping"
      PROVE  Contract!Next
  <2>1. Contract!Stop({q})  BY <1>a, <1>b, <1>d DEF Contract!Stop, statusBar
  <2>2. QED  BY <2>1 DEF Contract!Next
<1>e. ASSUME Status(q) = "stopping", Status(q)' = "gone"
      PROVE  Contract!Next
  BY <1>a, <1>b, <1>e DEF Contract!Leave, Contract!Next, statusBar
<1>1. CASE ProcessQuery(q)
  <2>1. Status(q) = "outside"  BY <1>1 DEF ProcessQuery, Status
  <2>2. CASE ~Admitting
    <3>1. phaseBar # "ready"  BY <2>2 DEF phaseBar, Admitting
    <3>2. Status(q)' = "gone"  BY <1>0, <1>1, <2>2 DEF ProcessQuery, Status, Settled, TypeOK
    <3>3. QED  BY <1>a, <1>b, <2>1, <3>1, <3>2 DEF Contract!Refuse, Contract!Next, statusBar
  <2>3. CASE Admitting
    <3>1. components /\ phaseBar = "ready"
      BY <2>3 DEF phaseBar, Admitting, RefInv, Signalled
    <3>2. Status(q)' = "working"
      BY <1>0, <1>1, <2>3, <3>1 DEF ProcessQuery, Status, Settled, TypeOK, Stopping, serviceVars
    <3>3. QED  BY <1>a, <1>b, <2>1, <3>1, <3>2 DEF Contract!Admit, Contract!Next, statusBar
  <2>4. QED  BY <2>2, <2>3
<1>2. CASE Register(q)
  <2>1. Status(q) = "working"
    BY <1>2 DEF Register, Status, Stopping, Settled
  <2>2. Status(q)' = "working"
    BY <1>0, <1>2 DEF Register, Status, Stopping, Settled, TypeOK, Done, Ended,
       RefInv, CancelsHaveTasks
  <2>3. QED  BY <1>c, <2>1, <2>2
<1>3. CASE RegisterFails(q)
  <2>1. Status(q) = "stopping"  BY <1>3 DEF RegisterFails, Status, Stopping, Settled
  <2>2. Status(q)' = "gone"  BY <1>0, <1>3 DEF RegisterFails, Status, Settled, TypeOK
  <2>3. QED  BY <1>e, <2>1, <2>2
<1>4. CASE TaskStart(q) \/ TaskCancelled(q)
  <2>1. pc[q] = "awaiting" /\ pc' = pc /\ cancelReq' = cancelReq
    BY <1>4 DEF TaskStart, TaskCancelled, RefInv, TableInv, IdsGiven
  <2>2. CASE q \in cancelReq
    BY <1>c, <2>1, <2>2 DEF Status, Stopping, Settled
  <2>3. CASE q \notin cancelReq
    <3>1. components /\ components'
      BY <1>0, <1>4, <2>1, <2>3, ClosedStopping
         DEF TaskStart, TaskCancelled, Stopping, Done, Ended, serviceVars, TypeOK
    <3>2. ~Done(q) /\ ~Done(q)'
      BY <1>0, <1>4, <2>3, <3>1 DEF TaskStart, TaskCancelled, Done, Ended, TypeOK
    <3>3. QED  BY <1>c, <2>1, <2>3, <3>2 DEF Status, Stopping, Settled
  <2>4. QED  BY <2>2, <2>3
<1>5. CASE TaskFinish(q)
  <2>1. pc[q] = "awaiting" /\ pc' = pc
    BY <1>5 DEF TaskFinish, RefInv, TableInv, IdsGiven
  <2>2. Status(q) = "working" /\ Status(q)' = "stopping"
    BY <1>0, <1>5, <2>1 DEF TaskFinish, Status, Stopping, Settled, Done, Ended, TypeOK
  <2>3. QED  BY <1>d, <2>2
<1>6. ASSUME NEW how \in Settled, Leave(q, how), pc[q] = "awaiting", Done(q)
      PROVE  Contract!Next
  <2>1. Status(q) = "stopping"  BY <1>6 DEF Status, Stopping, Settled
  <2>2. Status(q)' = "gone"  BY <1>0, <1>6 DEF Leave, Status, Settled, TypeOK
  <2>3. QED  BY <1>e, <2>1, <2>2
<1>7. CASE QueryReturn(q)
  BY <1>6, <1>7 DEF QueryReturn, Done, Ended, Outcome, Settled
<1>8. CASE QueryReturnCancelled(q)
  BY <1>6, <1>8 DEF QueryReturnCancelled, Settled
<1>9. CASE CancelCaller(q)
  <2>1. CASE pc[q] = "ensuring"
    <3>1. Status(q)' = "gone"
      BY <1>0, <1>9, <2>1 DEF CancelCaller, Status, Settled, TypeOK
    <3>2. Status(q) \in {"working", "stopping"}  BY <2>1 DEF Status, Settled
    <3>3. QED  BY <1>a, <1>b, <3>1, <3>2 DEF Contract!Abandon, Contract!Leave, Contract!Next,
       statusBar
  <2>2. CASE pc[q] = "awaiting"
    <3>1. Status(q) = "working" /\ Status(q)' = "stopping"
      BY <1>0, <1>9, <2>2
         DEF CancelCaller, Status, Settled, Stopping, Cancel, Done, TypeOK
    <3>2. QED  BY <1>d, <3>1
  <2>3. QED  BY <1>9, <2>1, <2>2 DEF CancelCaller
<1>10. QED
  BY <1>1, <1>2, <1>3, <1>4, <1>5, <1>7, <1>8, <1>9 DEF QueryStep

\* Asking some tasks to cancel stops their queries.
LEMMA CancelRefines ==
    ASSUME NEW S \in SUBSET Queries, Cancel(S), UNCHANGED <<pc, task, serviceVars>>
    PROVE  Contract!Next
<1>1. phaseBar' = phaseBar  BY DEF phaseBar, serviceVars
<1> DEFINE T == {q \in Queries : Status(q) = "working" /\ Status(q)' = "stopping"}
<1>2. \A q \in Queries \ T : Status(q)' = Status(q)
  BY DEF Status, Stopping, Done, Cancel, serviceVars
<1>3. Contract!Stop(T)  BY <1>1, <1>2 DEF Contract!Stop, statusBar
<1>4. QED  BY <1>3 DEF Contract!Next

\* Closing the service is the contract's Close, or nothing when it was closed.
LEMMA CloseRefines ==
    ASSUME OwnIds, RefInv, NEW d \in Shutdowners, CloseService(d),
           initialized \/ shutdownEvent, UNCHANGED <<pc, admittedAt, active, task>>
    PROVE  [Contract!Next]_(Contract!vars)
<1>1. \A q \in Queries : pc[q] = "awaiting" => q \in active
  BY DEF RefInv, TableInv, TableSound, OwnIds, IdShared, SameId
<1>2. \A q \in Queries : pc[q] \in {"ensuring", "awaiting"} => Stopping(q)'
  BY <1>1 DEF CloseService, Cancel, Stopping, Done
<1>3. \A q \in Queries : Status(q)' = IF Status(q) = "working" THEN "stopping"
                                         ELSE Status(q)
  BY <1>2 DEF Status, RefInv, TableInv, TypeOK
<1>4. phaseBar' = "closed"  BY DEF CloseService, phaseBar
<1>5. CASE components
  <2>1. phaseBar \in {"ready", "draining"}  BY <1>5 DEF phaseBar
  <2>2. Contract!Close  BY <1>3, <1>4, <2>1 DEF Contract!Close, statusBar
  <2>3. QED  BY <2>2 DEF Contract!Next
<1>6. CASE ~components
  <2>1. phaseBar = "closed"  BY <1>6 DEF phaseBar
  <2>2. \A q \in Queries : Status(q) # "working"
    BY <1>6, ClosedStopping DEF Status, RefInv, TableInv, TypeOK
  <2>3. statusBar' = statusBar  BY <1>3, <2>2 DEF statusBar
  <2>4. QED  BY <1>4, <2>1, <2>3 DEF Contract!vars
<1>7. QED  BY <1>5, <1>6

\* Every step of a call of shutdown is a step of the contract, or none.
LEMMA ShutdownRefines ==
    ASSUME OwnIds, RefInv, NEW d \in Shutdowners, ShutdownStep(d)
    PROVE  [Contract!Next]_(Contract!vars)
<1>0. TypeOK  BY DEF RefInv, TableInv
<1>1. CASE ShutdownSkip(d) \/ ShutdownAborted(d)
  BY <1>1, SameStatus
     DEF ShutdownSkip, ShutdownAborted, serviceVars, queryVars, phaseBar, Contract!vars
<1>2. CASE ShutdownBegin(d) /\ CloseService(d)
  BY <1>2, CloseRefines DEF ShutdownBegin
<1>3. CASE ShutdownBegin(d) /\ UNCHANGED <<initialized, components, cancelReq>>
  <2>1. statusBar' = statusBar  BY <1>3, SameStatus DEF ShutdownBegin
  <2>2. CASE components /\ ~shutdownEvent
    <3>1. Contract!Drain
      BY <1>3, <2>1, <2>2 DEF ShutdownBegin, phaseBar, Contract!Drain
    <3>2. QED  BY <3>1 DEF Contract!Next
  <2>3. CASE ~components \/ shutdownEvent
    BY <1>3, <2>1, <2>3 DEF ShutdownBegin, phaseBar, Contract!vars
  <2>4. QED  BY <2>2, <2>3
<1>4. CASE ShutdownTimeout(d)
  BY <1>0, <1>4, CancelRefines DEF ShutdownTimeout, TypeOK
<1>5. CASE ShutdownFinish(d)
  BY <1>5, CloseRefines DEF ShutdownFinish, RefInv, Signalled
<1>6. CASE ShutdownCancelled(d)
  BY <1>0, <1>6, CancelRefines DEF ShutdownCancelled, TypeOK
<1>7. QED
  BY <1>1, <1>2, <1>3, <1>4, <1>5, <1>6 DEF ShutdownStep, ShutdownBegin

\* Every step of a call of initialize opens the service, or changes nothing.
LEMMA InitRefines ==
    ASSUME NEW i \in Initializers, InitStep(i)
    PROVE  [Contract!Next]_(Contract!vars)
<1>1. statusBar' = statusBar
  BY SameStatus DEF InitStep, InitStart, InitFinish, InitCancelled, serviceVars, queryVars
<1>2. phaseBar' = phaseBar \/ (phaseBar = "new" /\ phaseBar' = "ready")
  BY DEF InitStep, InitStart, InitFinish, InitCancelled, serviceVars, phaseBar
<1>3. QED  BY <1>1, <1>2 DEF Contract!Next, Contract!Open, Contract!vars

\* With ids of their own, the queries of the service get what the contract says.
THEOREM ServiceImplementsContract ==
    ASSUME OwnIds
    PROVE  Spec => Contract!Safety
<1>1. Init => Contract!Init
  BY DEF Init, Contract!Init, phaseBar, statusBar, Status
<1>2. RefInv /\ [Next]_vars => [Contract!Next]_(Contract!vars)
  <2> SUFFICES ASSUME RefInv, [Next]_vars
               PROVE  [Contract!Next]_(Contract!vars)
    OBVIOUS
  <2>1. ASSUME UNCHANGED <<serviceVars, pc, task, cancelReq>>
        PROVE  UNCHANGED Contract!vars
    BY <2>1, SameStatus DEF serviceVars, phaseBar, Contract!vars
  <2>2. CASE UNCHANGED vars  BY <2>1, <2>2 DEF vars, queryVars
  <2>3. ASSUME NEW s \in Streams, StreamStep(s)
        PROVE  UNCHANGED Contract!vars
    BY <2>1, <2>3 DEF StreamStep, StreamStart, StreamEnd, queryVars
  <2>4. QED
    BY <2>2, <2>3, InitRefines, QueryRefines, ShutdownRefines, OwnIds DEF Next
<1>3. QED
  BY <1>1, <1>2, RefInvariant, PTL DEF Spec, Contract!Safety

=============================================================================
