--------------------------- MODULE ServiceContract ---------------------------
(***************************************************************************)
(* What AgentService promises to the callers of process_query, without     *)
(* tasks, tables or time: the service opens once and closes for good; a    *)
(* query is admitted only while the service is open; when the service      *)
(* closes, no admitted query is left that nobody has stopped; and every    *)
(* stopped query comes to its end.                                         *)
(***************************************************************************)
CONSTANT Queries

VARIABLES
    phase,    \* of the service
    status    \* of each query: outside, working, stopping, gone

vars == <<phase, status>>

Init ==
    /\ phase = "new"
    /\ status = [q \in Queries |-> "outside"]

Open ==
    /\ phase = "new"
    /\ phase' = "ready"
    /\ UNCHANGED status

Drain ==
    /\ phase = "ready"
    /\ phase' = "draining"
    /\ UNCHANGED status

\* No admitted query survives the closing of the service as a working one.
Close ==
    /\ phase \in {"ready", "draining"}
    /\ phase' = "closed"
    /\ status' = [q \in Queries |-> IF status[q] = "working" THEN "stopping" ELSE status[q]]

Admit(q) ==
    /\ phase = "ready"
    /\ status[q] = "outside"
    /\ status' = [status EXCEPT ![q] = "working"]
    /\ UNCHANGED phase

Refuse(q) ==
    /\ phase # "ready"
    /\ status[q] = "outside"
    /\ status' = [status EXCEPT ![q] = "gone"]
    /\ UNCHANGED phase

\* Some queries have ended or have been told to end; their callers do not know yet.
Stop(S) ==
    /\ \A q \in S : status[q] = "working"
    /\ status' = [q \in Queries |-> IF q \in S THEN "stopping" ELSE status[q]]
    /\ UNCHANGED phase

\* The caller of an admitted query gives up before there is anything to stop.
Abandon(q) ==
    /\ status[q] = "working"
    /\ status' = [status EXCEPT ![q] = "gone"]
    /\ UNCHANGED phase

Leave(q) ==
    /\ status[q] = "stopping"
    /\ status' = [status EXCEPT ![q] = "gone"]
    /\ UNCHANGED phase

Next ==
    \/ Open \/ Drain \/ Close
    \/ \E S \in SUBSET Queries : Stop(S)
    \/ \E q \in Queries : Admit(q) \/ Refuse(q) \/ Abandon(q) \/ Leave(q)

Safety == Init /\ [][Next]_vars

Spec == Safety /\ \A q \in Queries : WF_vars(Leave(q))

=============================================================================
