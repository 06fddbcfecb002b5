--------------------------- MODULE RetryExecution ---------------------------
(***************************************************************************)
(* RequestLifecycleManager.execute_with_retry, run by requests inside the  *)
(* execution contexts of RequestLifecycle.                                 *)
(*                                                                         *)
(* A retry context is an object: the one filed for a request when its      *)
(* context was opened, which outlives each operation and which another     *)
(* request of the same key may find, or the default one that the look-up   *)
(* creates for one operation when no context is filed.  An action is the   *)
(* code between two suspensions: the backoff sleep and the operation.      *)
(*                                                                         *)
(* Time is in milliseconds and every request measures its own.             *)
(***************************************************************************)
EXTENDS Integers, RequestLifecycle

CONSTANTS
    TimeoutMs,    \* timeout_ms of every context
    Durations,    \* how long a call of an operation may take
    MaxOps        \* bound: operations run inside one context

ASSUME RetryAssumption ==
    /\ TimeoutMs \in Nat /\ TimeoutMs > 0
    /\ Durations \subseteq Nat
    /\ MaxOps \in Nat

VARIABLES
    where,      \* idle, open (no operation), sleeping, calling, closed
    ops,        \* the number of operations started
    object,     \* the retry context that the operation uses
    attempt,    \* attempt of each retry context
    failures,   \* consecutive_failures of each retry context
    slept,      \* the time the request has spent in backoff
    spent,      \* the time it has spent in its operations
    calls,      \* how often the current operation was called
    outcome     \* of the last operation

vars == <<where, ops, object, attempt, failures, slept, spent, calls, outcome, lifecycleVars>>

-----------------------------------------------------------------------------
(* RetryContext and ExecutionContext.                                      *)

\* The retry context filed for a request, and the default one of its operation.
Filed(r) == <<r, "filed">>
Default(r) == <<r, "default">>
Objects == Requests \X {"filed", "default"}

LowThreshold == 3  \* a fault the checks must find
Threshold == 5     \* circuit_breaker_threshold

\* A fault the checks must find: one attempt too many.
MaxAttemptsAndOne(o) == IF o[2] = "filed" /\ Strategy[o[1]] = "high_availability" THEN 6 ELSE 4

\* max_attempts: five for a high availability context, else three.
MaxAttempts(o) == IF o[2] = "filed" /\ Strategy[o[1]] = "high_availability" THEN 5 ELSE 3

\* A fault the checks must find: the exponent is one too high.
DelayMsDoubled(a) == LET d == 1000 * 2^a IN IF d < 10000 THEN d ELSE 10000

\* delay_ms after a failed attempts, a > 0.
DelayMs(a) == LET d == 1000 * 2^(a - 1) IN IF d < 10000 THEN d ELSE 10000

Elapsed(r) == slept[r] + spent[r]

\* A fault the checks must find: the time spent in the calls does not count.
ExpiredAsleep(r) == slept[r] >= TimeoutMs

Expired(r) == Elapsed(r) >= TimeoutMs

\* A fault the checks must find: a success takes back one failure.
RecordedLess(f, success) == IF success THEN f - 1 ELSE f + 1

\* consecutive_failures after an attempt is recorded.
Recorded(f, success) == IF success THEN 0 ELSE f + 1

\* is_circuit_breaker_open, less its reset after a minute without a failure: an open
\* breaker may stay open longer here than in the code.
BreakerOpen(f) == f >= Threshold

RetryInit ==
    /\ LifecycleInit
    /\ where = [r \in Requests |-> "idle"]
    /\ ops = [r \in Requests |-> 0]
    /\ object = [r \in Requests |-> Default(r)]
    /\ attempt = [o \in Objects |-> 0]
    /\ failures = [o \in Objects |-> 0]
    /\ slept = [r \in Requests |-> 0]
    /\ spent = [r \in Requests |-> 0]
    /\ calls = [r \in Requests |-> 0]
    /\ outcome = [r \in Requests |-> "none"]

-----------------------------------------------------------------------------
(* The context manager around the operations.                              *)

Open(r) ==
    /\ where[r] = "idle"
    /\ OpenContext(r)
    /\ where' = [where EXCEPT ![r] = "open"]
    /\ UNCHANGED <<ops, object, attempt, failures, slept, spent, calls, outcome>>

\* The body of the context ends, or is cancelled while it waits.
Close(r) ==
    /\ where[r] \in {"open", "sleeping", "calling"}
    /\ CloseContext(r)
    /\ where' = [where EXCEPT ![r] = "closed"]
    /\ UNCHANGED <<ops, object, attempt, failures, slept, spent, calls, outcome>>

-----------------------------------------------------------------------------
(* The retry loop.                                                         *)

Count(o, a, f) ==
    /\ attempt' = [attempt EXCEPT ![o] = a]
    /\ failures' = [failures EXCEPT ![o] = f]

\* The operation is over: n calls were made.
End(r, how, n) ==
    /\ where' = [where EXCEPT ![r] = "open"]
    /\ outcome' = [outcome EXCEPT ![r] = how]
    /\ calls' = [calls EXCEPT ![r] = n]

\* From the head of the loop to the next suspension, with attempt a < max, f
\* failures in a row and n calls made.  The timeout that the loop raises itself
\* and the open circuit breaker are failures like another: nothing is awaited
\* before they are raised again, so they use up the attempts that are left.  The
\* delay is fixed, and counted, when the sleep starts: another request may change
\* the attempts of the retry context meanwhile.
TryAgain(r, o, a, f, n, expired) ==
    \/ /\ expired \/ BreakerOpen(f)
       /\ Count(o, MaxAttempts(o), f + (MaxAttempts(o) - a))
       /\ End(r, "failed", n)
       /\ UNCHANGED slept
    \/ /\ ~(expired \/ BreakerOpen(f))
       /\ Count(o, a, f)
       /\ where' = [where EXCEPT ![r] = IF a > 0 THEN "sleeping" ELSE "calling"]
       /\ slept' = [slept EXCEPT ![r] = IF a > 0 THEN @ + DelayMs(a) ELSE @]
       /\ calls' = [calls EXCEPT ![r] = IF a > 0 THEN n ELSE n + 1]
       /\ UNCHANGED outcome

\* The look-up by key of the retry context, else a default one.
Found(r) == {p \in retryContexts : openedAt[p] = openedAt[r]}

\* execute_with_retry is called.  A retry context that has no attempt left ends
\* it before the first call.
StartOp(r) ==
    /\ where[r] = "open"
    /\ ops[r] < MaxOps
    /\ ops' = [ops EXCEPT ![r] = @ + 1]
    /\ \/ \E p \in Found(r) : LET o == Filed(p) IN
            /\ object' = [object EXCEPT ![r] = o]
            /\ \/ /\ attempt[o] >= MaxAttempts(o)
                  /\ End(r, "logic_error", 0)
                  /\ UNCHANGED <<attempt, failures, slept>>
               \/ /\ attempt[o] < MaxAttempts(o)
                  /\ TryAgain(r, o, attempt[o], failures[o], 0, Expired(r))
       \/ /\ Found(r) = {}
          /\ object' = [object EXCEPT ![r] = Default(r)]
          /\ TryAgain(r, Default(r), 0, 0, 0, Expired(r))
    /\ UNCHANGED <<spent, lifecycleVars>>

\* The backoff is over: the operation is called with what time is left.
Wake(r) ==
    /\ where[r] = "sleeping"
    /\ where' = [where EXCEPT ![r] = "calling"]
    /\ calls' = [calls EXCEPT ![r] = @ + 1]
    /\ UNCHANGED <<ops, object, attempt, failures, slept, spent, outcome, lifecycleVars>>

\* The operation returns within the time it has left.
Succeed(r) ==
    /\ where[r] = "calling"
    /\ \E d \in Durations :
          /\ Elapsed(r) + d < TimeoutMs
          /\ spent' = [spent EXCEPT ![r] = @ + d]
    /\ failures' = [failures EXCEPT ![object[r]] = Recorded(@, TRUE)]
    /\ End(r, "succeeded", calls[r])
    /\ UNCHANGED <<ops, object, attempt, slept, lifecycleVars>>

\* The operation raises; TimeoutError is not retried, whoever raises it.
Fail(r) ==
    /\ where[r] = "calling"
    /\ \E d \in Durations :
          /\ Elapsed(r) + d < TimeoutMs
          /\ spent' = [spent EXCEPT ![r] = @ + d]
    /\ LET o == object[r]
           a == attempt[o] + 1
           f == Recorded(failures[o], FALSE)
       IN  \/ /\ End(r, "timedout", calls[r])
              /\ UNCHANGED <<attempt, failures, slept>>
           \/ /\ a >= MaxAttempts(o)
              /\ Count(o, a, f)
              /\ End(r, "failed", calls[r])
              /\ UNCHANGED slept
           \/ /\ a < MaxAttempts(o)
              /\ TryAgain(r, o, a, f, calls[r], FALSE)
    /\ UNCHANGED <<ops, object, lifecycleVars>>

\* A fault the checks must find: no time left is taken for no time limit.
TimeUpIfAnyLeft(r) ==
    /\ where[r] = "calling"
    /\ ~Expired(r)
    /\ spent' = [spent EXCEPT ![r] = TimeoutMs - slept[r]]
    /\ End(r, "timedout", calls[r])
    /\ UNCHANGED <<ops, object, attempt, failures, slept, lifecycleVars>>

\* wait_for ends the call when the time of the context is up, at once if it was
\* already up after the backoff.
TimeUp(r) ==
    /\ where[r] = "calling"
    /\ spent' = [spent EXCEPT ![r] = IF Expired(r) THEN @ ELSE TimeoutMs - slept[r]]
    /\ End(r, "timedout", calls[r])
    /\ UNCHANGED <<ops, object, attempt, failures, slept, lifecycleVars>>

RetryNext == \E r \in Requests : \/ Open(r) \/ StartOp(r) \/ Wake(r) \/ Succeed(r)
                                 \/ Fail(r) \/ TimeUp(r) \/ Close(r)

RetrySpec == RetryInit /\ [][RetryNext]_vars

\* The timers of the loop fire: asyncio.sleep and asyncio.wait_for.
TimerFairness == \A r \in Requests : WF_vars(Wake(r)) /\ WF_vars(TimeUp(r))

FairRetrySpec == RetrySpec /\ TimerFairness

-----------------------------------------------------------------------------
(* Properties.                                                             *)

\* The values each variable may take.
RetryTypeOK ==
    /\ LifecycleTypeOK
    /\ where \in [Requests -> {"idle", "open", "sleeping", "calling", "closed"}]
    /\ ops \in [Requests -> Nat]
    /\ object \in [Requests -> Objects]
    /\ attempt \in [Objects -> Nat]
    /\ failures \in [Objects -> Nat]
    /\ slept \in [Requests -> Nat]
    /\ spent \in [Requests -> Nat]
    /\ calls \in [Requests -> Nat]
    /\ outcome \in [Requests -> {"none", "succeeded", "timedout", "failed", "logic_error"}]

\* The circuit breaker never opens, even for requests that share a retry context:
\* more than one attempt at once, with no call for the others, is used up only when
\* the time of the request is over.
BreakerNeverOpens ==
    [][\A o \in Objects : attempt'[o] > attempt[o] + 1 =>
          \E r \in Requests : object'[r] = o /\ Expired(r)]_vars

\* The key of r's context was given to another request as well.
KeyShared(r) == \E p \in Requests \ {r} : openedAt[p] = openedAt[r]

\* A request alone with its key sleeps at most the sum of the delays between its
\* attempts in the whole of a retrying context, and one delay more for each later
\* operation: success resets the failures but never the attempts, so the next
\* operation starts with a delay.  Half the default timeout is left to the calls
\* of one operation.
BackoffBounded ==
    \A r \in Requests : Retries(r) /\ ~KeyShared(r) /\ ops[r] > 0 =>
        slept[r] <= IF Strategy[r] = "high_availability"
                    THEN 15000 + 8000 * (ops[r] - 1)
                    ELSE 3000 + 2000 * (ops[r] - 1)

\* A loop overruns the timeout of its context by less than one backoff delay: the
\* check comes before the sleep, and no call outlives the timeout.
OverrunBounded ==
    \A r \in Requests : ~KeyShared(r) => Elapsed(r) < TimeoutMs + 8000

\* The retry contexts that allow five attempts; every other one allows three.
OfFiveAttempts == {Filed(p) : p \in {p \in Requests : Strategy[p] = "high_availability"}}

\* An operation is called at most as often as the retry context that it found
\* allows, even if two requests count their attempts on it.  A request alone with
\* its key is called at most as often as its own strategy says; one that shares it
\* may find the context of the other, so a resilient operation may be called five
\* times, and a highly available one be given up after three.
CallsBounded ==
    \A r \in Requests :
        /\ calls[r] <= IF object[r] \in OfFiveAttempts THEN 5 ELSE 3
        /\ ~KeyShared(r) => calls[r] <= IF Strategy[r] = "high_availability" THEN 5 ELSE 3

\* Every operation comes to an end, even if it never returns.
OperationEnds ==
    \A r \in Requests : where[r] \in {"sleeping", "calling"} ~> where[r] \in {"open", "closed"}

=============================================================================
