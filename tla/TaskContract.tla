---------------------------- MODULE TaskContract ----------------------------
(***************************************************************************)
(* What AgentService relies on in the task that processes a query, without *)
(* agents, sessions or errors: it answers or fails only while nobody has   *)
(* asked it to stop; once asked, it never answers, and it comes to its end *)
(* by itself.  These are the steps TaskStart, TaskFinish and TaskCancelled *)
(* that AgentService takes for granted.                                    *)
(***************************************************************************)
CONSTANT Queries

VARIABLES
    task,       \* of each query: outside, working, response, error, cancelled
    cancelReq   \* the queries whose task has been asked to cancel

vars == <<task, cancelReq>>

Init ==
    /\ task = [q \in Queries |-> "outside"]
    /\ cancelReq = {}

Create(q) ==
    /\ task[q] = "outside"
    /\ task' = [task EXCEPT ![q] = "working"]
    /\ UNCHANGED cancelReq

Finish(q) ==
    /\ task[q] = "working"
    /\ q \notin cancelReq
    /\ \E end \in {"response", "error"} : task' = [task EXCEPT ![q] = end]
    /\ UNCHANGED cancelReq

RequestCancel(q) ==
    /\ task[q] = "working"
    /\ cancelReq' = cancelReq \union {q}
    /\ UNCHANGED task

Stop(q) ==
    /\ task[q] = "working"
    /\ q \in cancelReq
    /\ \E end \in {"cancelled", "error"} : task' = [task EXCEPT ![q] = end]
    /\ UNCHANGED cancelReq

Next == \E q \in Queries : Create(q) \/ Finish(q) \/ RequestCancel(q) \/ Stop(q)

Safety == Init /\ [][Next]_vars

Spec == Safety /\ \A q \in Queries : WF_vars(Stop(q))

=============================================================================
