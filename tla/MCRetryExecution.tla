--------------------------- MODULE MCRetryExecution ---------------------------
(* Small instances of RetryExecution: a cfg says which requests retry and     *)
(* how hard.  A request on its own runs up to MaxOps operations of any        *)
(* duration; of requests that overlap one runs two, the others one, of no       *)
(* duration or cut off.                                                       *)
EXTENDS RetryExecution

CONSTANTS Resilient, HighlyAvailable

MCStrategy == [r \in Requests |->
                 CASE r \in Resilient -> "resilient"
                   [] r \in HighlyAvailable -> "high_availability"
                   [] OTHER -> "standard"]

Alone == \E r \in Requests : \A p \in Requests \ {r} : where[p] = "idle"

Brief ==
    /\ \A r \in Requests : ops[r] <= 2 /\ spent[r] \in {0, TimeoutMs - slept[r]}
    /\ \A r, p \in Requests : ops[r] = 2 /\ ops[p] = 2 => r = p

MCSpec == /\ RetryInit
          /\ [][RetryNext /\ (Alone \/ Brief)']_vars
          /\ TimerFairness

=============================================================================
