------------------------ MODULE RetryExecutionProofs ------------------------
(***************************************************************************)
(* Proofs about RetryExecution, for any number of requests and operations, *)
(* any timeout and any clock.                                              *)
(***************************************************************************)
EXTENDS RetryExecution, TLAPS

\* The default and the filed retry context of a request are retry contexts.
LEMMA ObjectTypes ==
    /\ \A r \in Requests : Filed(r) \in Objects /\ Default(r) \in Objects
    /\ \A o \in Objects : MaxAttempts(o) \in {3, 5}
BY DEF Filed, Default, Objects, MaxAttempts

\* They are different ones.
LEMMA ObjectsDiffer ==
    ASSUME NEW p, NEW q
    PROVE  Filed(p) # Default(q) /\ (Default(p) = Default(q) => p = q)
           /\ (Filed(p) = Filed(q) => p = q)
BY DEF Filed, Default

\* No retry context has more failures in a row than attempts.
FailuresAreAttempts == \A o \in Objects : failures[o] <= attempt[o]

\* The counts of the retry contexts keep their types and their order.
CountsOK ==
    /\ attempt \in [Objects -> Nat]
    /\ failures \in [Objects -> Nat]
    /\ FailuresAreAttempts
    /\ object \in [Requests -> Objects]

\* Counting f failures and a attempts, f not above a, keeps the counts.
LEMMA CountKeeps ==
    ASSUME CountsOK, NEW o \in Objects, NEW a \in Nat, NEW f \in Nat, f <= a,
           Count(o, a, f), object' \in [Requests -> Objects]
    PROVE  CountsOK'
BY DEF CountsOK, FailuresAreAttempts, Count

\* The head of the retry loop keeps the counts.
LEMMA TryAgainKeeps ==
    ASSUME CountsOK, NEW r \in Requests, NEW o \in Objects, NEW a \in Nat, NEW f \in Nat, f <= a,
           a < MaxAttempts(o), NEW n, NEW expired, TryAgain(r, o, a, f, n, expired),
           object' \in [Requests -> Objects]
    PROVE  CountsOK'
<1>1. MaxAttempts(o) \in Nat  BY ObjectTypes
<1> DEFINE left == MaxAttempts(o) - a
<1>2. left \in Nat /\ f + left \in Nat /\ f + left <= MaxAttempts(o)  BY <1>1
<1>3. CASE Count(o, MaxAttempts(o), f + left)
  <2> HIDE DEF left
  <2>1. QED  BY <1>1, <1>2, <1>3, CountKeeps
<1>4. CASE Count(o, a, f)  BY <1>4, CountKeeps
<1>5. QED  BY <1>3, <1>4 DEF TryAgain

\* Every step of the retry loop keeps the counts.
LEMMA CountsStep == CountsOK /\ LifecycleTypeOK /\ [RetryNext]_vars => CountsOK'
<1> SUFFICES ASSUME CountsOK, LifecycleTypeOK, [RetryNext]_vars
             PROVE  CountsOK'
  OBVIOUS
<1>1. ASSUME UNCHANGED <<attempt, failures, object>>
      PROVE  CountsOK'
  BY <1>1 DEF CountsOK, FailuresAreAttempts
<1>2. CASE UNCHANGED vars  BY <1>1, <1>2 DEF vars
<1>3. ASSUME NEW r \in Requests, Open(r) \/ Close(r) \/ Wake(r) \/ TimeUp(r)
      PROVE  CountsOK'
  BY <1>1, <1>3 DEF Open, Close, Wake, TimeUp
<1>4. ASSUME NEW r \in Requests, StartOp(r)
      PROVE  CountsOK'
  <2>1. ASSUME NEW p \in Found(r), LET o == Filed(p) IN
                 /\ object' = [object EXCEPT ![r] = o]
                 /\ \/ UNCHANGED <<attempt, failures>>
                    \/ /\ attempt[o] < MaxAttempts(o)
                       /\ TryAgain(r, o, attempt[o], failures[o], 0, Expired(r))
        PROVE  CountsOK'
    <3> DEFINE o == Filed(p)
    <3>1. o \in Objects  BY <2>1, ObjectTypes DEF Found, LifecycleTypeOK
    <3>2. object' \in [Requests -> Objects]  BY <2>1, <3>1 DEF CountsOK
    <3>3. attempt[o] \in Nat /\ failures[o] \in Nat /\ failures[o] <= attempt[o]
      BY <3>1 DEF CountsOK, FailuresAreAttempts
    <3> HIDE DEF o
    <3>4. CASE UNCHANGED <<attempt, failures>>
      BY <3>2, <3>4 DEF CountsOK, FailuresAreAttempts
    <3>5. CASE /\ attempt[o] < MaxAttempts(o)
               /\ TryAgain(r, o, attempt[o], failures[o], 0, Expired(r))
      BY <3>1, <3>2, <3>3, <3>5, TryAgainKeeps
    <3>6. QED  BY <2>1, <3>4, <3>5 DEF o
  <2>2. ASSUME object' = [object EXCEPT ![r] = Default(r)],
               TryAgain(r, Default(r), 0, 0, 0, Expired(r))
        PROVE  CountsOK'
    <3>1. Default(r) \in Objects /\ 0 < MaxAttempts(Default(r))  BY ObjectTypes
    <3>2. object' \in [Requests -> Objects]  BY <2>2, <3>1 DEF CountsOK
    <3>3. QED  BY <2>2, <3>1, <3>2, TryAgainKeeps
  <2>3. QED  BY <1>4, <2>1, <2>2 DEF StartOp
<1>5. ASSUME NEW r \in Requests, Succeed(r)
      PROVE  CountsOK'
  BY <1>5 DEF Succeed, Recorded, CountsOK, FailuresAreAttempts
<1>6. ASSUME NEW r \in Requests, Fail(r)
      PROVE  CountsOK'
  <2> DEFINE o == object[r]
             a == attempt[o] + 1
             f == failures[o] + 1
  <2>1. o \in Objects /\ object' \in [Requests -> Objects]  BY <1>6 DEF Fail, CountsOK
  <2>2. a \in Nat /\ f \in Nat /\ f <= a  BY <2>1 DEF CountsOK, FailuresAreAttempts
  <2>3. \/ UNCHANGED <<attempt, failures, object>>
        \/ Count(o, a, f)
        \/ a < MaxAttempts(o) /\ TryAgain(r, o, a, f, calls[r], FALSE)
    BY <1>6 DEF Fail, Recorded
  <2> HIDE DEF o, a, f
  <2>4. QED  BY <1>1, <2>1, <2>2, <2>3, CountKeeps, TryAgainKeeps
<1>7. QED  BY <1>2, <1>3, <1>4, <1>5, <1>6 DEF RetryNext

\* Every step keeps the lifecycle manager's tables well typed.
LEMMA LifecycleStep == LifecycleTypeOK /\ [RetryNext]_vars => LifecycleTypeOK'
BY DEF LifecycleTypeOK, RetryNext, Open, Close, StartOp, Wake, Succeed, Fail, TimeUp, vars,
   lifecycleVars, OpenContext, CloseContext, Without

\* The head of the retry loop finds the circuit breaker closed.
LEMMA TryAgainCounts ==
    ASSUME NEW r \in Requests, NEW o \in Objects, NEW a \in Nat, NEW f \in Nat, f <= a,
           a < MaxAttempts(o), NEW n, NEW expired, TryAgain(r, o, a, f, n, expired)
    PROVE  Count(o, a, f) \/ expired
<1>1. MaxAttempts(o) \in {3, 5}  BY ObjectTypes
<1>2. ~BreakerOpen(f)  BY <1>1 DEF BreakerOpen, Threshold
<1>3. QED  BY <1>2 DEF TryAgain

\* A step that uses up more than one attempt of a retry context is late.
LEMMA LateOnly ==
    ASSUME CountsOK, LifecycleTypeOK, NEW r \in Requests, StartOp(r) \/ Fail(r),
           NEW o \in Objects, attempt'[o] > attempt[o] + 1
    PROVE  object'[r] = o /\ Expired(r)
<1>1. ASSUME NEW x \in Objects, NEW a \in Nat, NEW f \in Nat, Count(x, a, f), a <= attempt[x] + 1
      PROVE  FALSE
  BY <1>1 DEF Count, CountsOK
<1>2. ASSUME NEW x \in Objects, NEW a \in Nat, NEW f \in Nat, Count(x, a, f), o # x
      PROVE  FALSE
  BY <1>2 DEF Count, CountsOK
<1>3. ASSUME UNCHANGED attempt
      PROVE  FALSE
  BY <1>3 DEF CountsOK
<1>4. CASE StartOp(r)
  <2>1. ASSUME NEW x \in Objects, NEW a \in Nat, NEW f \in Nat, f <= a, a <= attempt[x] + 1,
               a < MaxAttempts(x), object' = [object EXCEPT ![r] = x],
               TryAgain(r, x, a, f, 0, Expired(r))
        PROVE  object'[r] = o /\ Expired(r)
    <3>1. Expired(r)  BY <1>1, <2>1, TryAgainCounts
    <3>2. MaxAttempts(x) \in Nat /\ f + (MaxAttempts(x) - a) \in Nat
      BY <2>1, ObjectTypes
    <3>3. Count(x, MaxAttempts(x), f + (MaxAttempts(x) - a))  BY <2>1, <3>1 DEF TryAgain
    <3>4. o = x  BY <1>2, <3>2, <3>3
    <3>5. QED  BY <2>1, <3>1, <3>4 DEF CountsOK
  <2>2. ASSUME NEW p \in Found(r), attempt[Filed(p)] < MaxAttempts(Filed(p)),
               object' = [object EXCEPT ![r] = Filed(p)],
               TryAgain(r, Filed(p), attempt[Filed(p)], failures[Filed(p)], 0, Expired(r))
        PROVE  object'[r] = o /\ Expired(r)
    <3>1. Filed(p) \in Objects  BY <2>2, ObjectTypes DEF Found, LifecycleTypeOK
    <3>2. /\ attempt[Filed(p)] \in Nat /\ failures[Filed(p)] \in Nat
          /\ failures[Filed(p)] <= attempt[Filed(p)]
      BY <3>1 DEF CountsOK, FailuresAreAttempts
    <3> DEFINE x == Filed(p)
               a == attempt[x]
               f == failures[x]
    <3>3. a <= attempt[x] + 1  BY <3>2
    <3>4. x \in Objects /\ a \in Nat /\ f \in Nat /\ f <= a  BY <3>1, <3>2
    <3>5. /\ a < MaxAttempts(x) /\ object' = [object EXCEPT ![r] = x]
          /\ TryAgain(r, x, a, f, 0, Expired(r))
      BY <2>2
    <3> HIDE DEF x, a, f
    <3>6. QED  BY <2>1, <3>3, <3>4, <3>5
  <2>3. ASSUME object' = [object EXCEPT ![r] = Default(r)],
               TryAgain(r, Default(r), 0, 0, 0, Expired(r))
        PROVE  object'[r] = o /\ Expired(r)
    <3>1. Default(r) \in Objects /\ 0 < MaxAttempts(Default(r))  BY ObjectTypes
    <3> DEFINE x == Default(r)
               a == 0
    <3>2. a <= attempt[x] + 1 /\ a \in Nat /\ a <= a  BY <3>1 DEF CountsOK
    <3>3. x \in Objects /\ a < MaxAttempts(x)  BY <3>1
    <3>4. object' = [object EXCEPT ![r] = x] /\ TryAgain(r, x, a, a, 0, Expired(r))
      BY <2>3
    <3> HIDE DEF x, a
    <3>5. QED  BY <2>1, <3>2, <3>3, <3>4
  <2>4. QED  BY <1>3, <1>4, <2>2, <2>3 DEF StartOp
<1>5. CASE Fail(r)
  <2> DEFINE x == object[r]
             a == attempt[x] + 1
             f == failures[x] + 1
  <2>1. x \in Objects  BY DEF CountsOK
  <2>2. a \in Nat /\ f \in Nat /\ f <= a /\ a <= attempt[x] + 1
    BY <2>1 DEF CountsOK, FailuresAreAttempts
  <2>3. \/ UNCHANGED attempt
        \/ Count(x, a, f)
        \/ a < MaxAttempts(x) /\ TryAgain(r, x, a, f, calls[r], FALSE)
    BY <1>5 DEF Fail, Recorded
  <2> HIDE DEF x, a, f
  <2>4. QED  BY <1>1, <1>3, <2>1, <2>2, <2>3, TryAgainCounts
<1>6. QED  BY <1>4, <1>5

\* The circuit breaker of execute_with_retry is dead code: whatever requests share
\* a retry context, its attempts run out before it has failures enough.
THEOREM BreakerDead == RetrySpec => BreakerNeverOpens
<1>1. RetryInit => CountsOK /\ LifecycleTypeOK
  <2> SUFFICES ASSUME RetryInit
               PROVE  CountsOK /\ LifecycleTypeOK
    OBVIOUS
  <2>1. LifecycleTypeOK  BY DEF RetryInit, LifecycleInit, LifecycleTypeOK
  <2>2. CountsOK  BY ObjectTypes DEF RetryInit, CountsOK, FailuresAreAttempts
  <2>3. QED  BY <2>1, <2>2
<1>2. ASSUME CountsOK, LifecycleTypeOK, [RetryNext]_vars, NEW o \in Objects,
             attempt'[o] > attempt[o] + 1
      PROVE  \E r \in Requests : object'[r] = o /\ Expired(r)
  <2>1. attempt' # attempt  BY <1>2 DEF CountsOK
  <2>2. PICK r \in Requests : StartOp(r) \/ Fail(r)
    BY <1>2, <2>1 DEF RetryNext, Open, Close, Wake, Succeed, TimeUp, vars
  <2>3. QED  BY <1>2, <2>2, LateOnly
<1>3. CountsOK /\ LifecycleTypeOK /\ [RetryNext]_vars =>
        [\A o \in Objects : attempt'[o] > attempt[o] + 1 =>
            \E r \in Requests : object'[r] = o /\ Expired(r)]_vars
  BY <1>2
<1>4. QED  BY <1>1, <1>3, CountsStep, LifecycleStep, PTL DEF RetrySpec, BreakerNeverOpens

-----------------------------------------------------------------------------
(* What one request may do with the retry contexts.                        *)

\* The delays between the attempts that a retry context allows.
LEMMA Delays ==
    /\ DelayMs(1) = 1000 /\ DelayMs(2) = 2000
    /\ DelayMs(3) = 4000 /\ DelayMs(4) = 8000
<1>1. 2^0 = 1 /\ 2^1 = 2 /\ 2^2 = 4 /\ 2^3 = 8  OBVIOUS
<1>2. 1 - 1 = 0 /\ 2 - 1 = 1 /\ 3 - 1 = 2 /\ 4 - 1 = 3  OBVIOUS
<1>3. QED  BY <1>1, <1>2 DEF DelayMs

\* What a request may have slept in its n-th operation, once its retry context
\* counts a attempts.
Allowed(r, a, n) ==
    IF Strategy[r] = "high_availability"
    THEN (IF a = 0 THEN 0 ELSE IF a = 1 THEN 1000 ELSE IF a = 2 THEN 3000
          ELSE IF a = 3 THEN 7000 ELSE 15000) + 8000 * (n - 1)
    ELSE (IF a = 0 THEN 0 ELSE IF a = 1 THEN 1000 ELSE 3000) + 2000 * (n - 1)

LEMMA AllowedGrows ==
    ASSUME NEW r, NEW n \in Nat, NEW a \in Nat, NEW b \in Nat, a <= b
    PROVE  Allowed(r, a, n) <= Allowed(r, b, n)
BY DEF Allowed

\* The next attempt of an operation, or the first one of the next operation, sleeps
\* no longer than is allowed for it.
LEMMA DelayAllowed ==
    ASSUME NEW r \in Requests, NEW a \in Nat, a > 0, a < MaxAttempts(Filed(r)),
           NEW n \in Nat, n > 0
    PROVE  /\ Allowed(r, a - 1, n) + DelayMs(a) <= Allowed(r, a, n)
           /\ Allowed(r, a, n) + DelayMs(a) <= Allowed(r, a, n + 1)
           /\ DelayMs(a) <= Allowed(r, a, 1)
<1>1. MaxAttempts(Filed(r)) = IF Strategy[r] = "high_availability" THEN 5 ELSE 3
  BY DEF MaxAttempts, Filed
<1>2. CASE Strategy[r] = "high_availability"
  <2>1. a = 1 \/ a = 2 \/ a = 3 \/ a = 4  BY <1>1, <1>2
  <2>2. QED  BY <1>2, <2>1, Delays DEF Allowed
<1>3. CASE Strategy[r] # "high_availability"
  <2>1. a = 1 \/ a = 2  BY <1>1, <1>3
  <2>2. QED  BY <1>3, <2>1, Delays DEF Allowed
<1>4. QED  BY <1>2, <1>3

Values ==
    /\ where \in [Requests -> {"idle", "open", "sleeping", "calling", "closed"}]
    /\ ops \in [Requests -> Nat]
    /\ slept \in [Requests -> Nat]
    /\ spent \in [Requests -> Nat]
    /\ calls \in [Requests -> Nat]
    /\ outcome \in [Requests -> {"none", "succeeded", "timedout", "failed", "logic_error"}]

\* A request uses its own default retry context, or one filed under its own key.
Owned(r) ==
    \/ object[r] = Default(r)
    \/ \E p \in Requests :
          object[r] = Filed(p) /\ openedAt[p] = openedAt[r] /\ where[p] # "idle"

\* Every call but the one under way has been counted as an attempt, by the request
\* itself, whatever the others count.
CallsOK(r) ==
    /\ calls[r] <= MaxAttempts(object[r])
    /\ where[r] = "sleeping" => /\ calls[r] < MaxAttempts(object[r])
                                /\ calls[r] <= attempt[object[r]]
    /\ where[r] = "calling" => calls[r] <= attempt[object[r]] + 1

SleepOK(r) ==
    /\ ops[r] = 0 => slept[r] = 0
    /\ Elapsed(r) < TimeoutMs + 8000
    /\ Retries(r) /\ ~KeyShared(r) /\ where[r] \in {"open", "sleeping", "calling"} =>
         r \in retryContexts
    /\ Retries(r) /\ ~KeyShared(r) /\ ops[r] > 0 =>
         /\ object[r] = Filed(r)
         /\ slept[r] <= Allowed(r, attempt[Filed(r)], ops[r])

PlaceOK(r) ==
    /\ where[r] = "idle" <=> openedAt[r] = NoInstant
    /\ where[r] = "idle" => ops[r] = 0 /\ object[r] = Default(r)
    /\ where[r] \in {"sleeping", "calling"} => ops[r] > 0
    /\ r \in retryContexts => where[r] # "idle"

RunInv ==
    /\ Values /\ CountsOK /\ LifecycleTypeOK
    /\ \A r \in Requests : PlaceOK(r) /\ Owned(r) /\ CallsOK(r) /\ SleepOK(r)

\* A step of a request leaves the others where they are, and takes back no attempt
\* but those of its own default retry context.
Aside(r) ==
    /\ \A t \in Requests \ {r} :
          /\ where'[t] = where[t] /\ ops'[t] = ops[t] /\ object'[t] = object[t]
          /\ slept'[t] = slept[t] /\ spent'[t] = spent[t] /\ calls'[t] = calls[t]
    /\ \A o \in Objects : o # Default(r) => attempt[o] <= attempt'[o]

LEMMA OthersKeep ==
    ASSUME RunInv, NEW r \in Requests, Aside(r), UNCHANGED lifecycleVars, CountsOK',
           where[r] # "idle", where'[r] # "idle", NEW t \in Requests, t # r
    PROVE  PlaceOK(t)' /\ Owned(t)' /\ CallsOK(t)' /\ SleepOK(t)'
<1>1. PlaceOK(t) /\ Owned(t) /\ CallsOK(t) /\ SleepOK(t)  BY DEF RunInv
<1>2. PlaceOK(t)'  BY <1>1 DEF PlaceOK, Aside, lifecycleVars, Default
<1>3. Owned(t)'
  <2>1. object'[t] = object[t] /\ openedAt' = openedAt  BY DEF Aside, lifecycleVars
  <2>2. CASE object[t] = Default(t)  BY <2>1, <2>2 DEF Owned, Default
  <2>3. CASE \E p \in Requests :
               object[t] = Filed(p) /\ openedAt[p] = openedAt[t] /\ where[p] # "idle"
    <3>1. PICK p \in Requests :
            object[t] = Filed(p) /\ openedAt[p] = openedAt[t] /\ where[p] # "idle"
      BY <2>3
    <3>2. where'[p] # "idle"  BY <3>1 DEF Aside
    <3>3. QED  BY <2>1, <3>1, <3>2 DEF Owned, Filed
  <2>4. \/ object[t] = Default(t)
        \/ \E p \in Requests :
              object[t] = Filed(p) /\ openedAt[p] = openedAt[t] /\ where[p] # "idle"
    BY <1>1 DEF Owned
  <2>5. QED  BY <2>2, <2>3, <2>4
<1>4. object[t] # Default(r) /\ Filed(t) # Default(r) /\ object[t] \in Objects /\ Filed(t) \in Objects
  BY <1>1, ObjectTypes, ObjectsDiffer DEF Owned, RunInv, CountsOK
<1>5. attempt[object[t]] <= attempt'[object[t]] /\ attempt[Filed(t)] <= attempt'[Filed(t)]
  BY <1>4 DEF Aside
<1>6. /\ attempt[object[t]] \in Nat /\ attempt'[object[t]] \in Nat
      /\ attempt[Filed(t)] \in Nat /\ attempt'[Filed(t)] \in Nat
      /\ calls[t] \in Nat /\ slept[t] \in Nat /\ ops[t] \in Nat
  BY <1>4 DEF RunInv, CountsOK, Values
<1>7. CallsOK(t)'
  BY <1>1, <1>5, <1>6 DEF CallsOK, Aside, MaxAttempts
<1>8. SleepOK(t)'
  <2>1. Allowed(t, attempt[Filed(t)], ops[t]) <= Allowed(t, attempt'[Filed(t)], ops[t])
    BY <1>5, <1>6, AllowedGrows
  <2>2. KeyShared(t)' <=> KeyShared(t)  BY DEF KeyShared, lifecycleVars
  <2>3. Allowed(t, attempt[Filed(t)], ops[t]) \in Int /\ Allowed(t, attempt'[Filed(t)], ops[t]) \in Int
    BY <1>6 DEF Allowed
  <2>4. Elapsed(t)' = Elapsed(t)  BY DEF Aside, Elapsed
  <2>5. /\ slept'[t] = slept[t] /\ ops'[t] = ops[t] /\ object'[t] = object[t]
        /\ where'[t] = where[t] /\ retryContexts' = retryContexts
    BY DEF Aside, lifecycleVars
  <2>6. Retries(t) /\ ~KeyShared(t) /\ ops[t] > 0 =>
          slept[t] <= Allowed(t, attempt'[Filed(t)], ops[t])
    BY <1>1, <1>6, <2>1, <2>3 DEF SleepOK
  <2>7. /\ Allowed(t, attempt[Filed(t)], ops[t])' = Allowed(t, attempt'[Filed(t)], ops[t])
        /\ Retries(t)' = Retries(t) /\ Filed(t)' = Filed(t)
    BY <2>5 DEF Allowed, Retries, Filed
  <2>8. QED  BY <1>1, <2>2, <2>4, <2>5, <2>6, <2>7 DEF SleepOK
<1>9. QED  BY <1>2, <1>3, <1>7, <1>8

\* A step of a request is judged by the request itself.
LEMMA OwnKeeps ==
    ASSUME RunInv, NEW r \in Requests, Aside(r), UNCHANGED lifecycleVars, CountsOK', Values',
           where[r] # "idle", where'[r] # "idle",
           PlaceOK(r)', Owned(r)', CallsOK(r)', SleepOK(r)'
    PROVE  RunInv'
<1>1. LifecycleTypeOK'  BY DEF RunInv, LifecycleTypeOK, lifecycleVars
<1>2. QED  BY <1>1, OthersKeep DEF RunInv

\* The three ways on from the head of the retry loop.
GivesUp(r, o, n) ==
    /\ where' = [where EXCEPT ![r] = "open"]
    /\ calls' = [calls EXCEPT ![r] = n]
    /\ slept' = slept
    /\ outcome' = [outcome EXCEPT ![r] = "failed"]
    /\ attempt' = [attempt EXCEPT ![o] = MaxAttempts(o)]

Sleeps(r, o, a, n) ==
    /\ a > 0
    /\ where' = [where EXCEPT ![r] = "sleeping"]
    /\ calls' = [calls EXCEPT ![r] = n]
    /\ slept' = [slept EXCEPT ![r] = slept[r] + DelayMs(a)]
    /\ outcome' = outcome
    /\ attempt' = [attempt EXCEPT ![o] = a]

Calls(r, o, a, n) ==
    /\ a = 0
    /\ where' = [where EXCEPT ![r] = "calling"]
    /\ calls' = [calls EXCEPT ![r] = n + 1]
    /\ slept' = slept
    /\ outcome' = outcome
    /\ attempt' = [attempt EXCEPT ![o] = a]

LEMMA TryShape ==
    ASSUME RunInv, NEW r \in Requests, NEW o \in Objects, NEW a \in Nat, NEW f, NEW n,
           NEW expired, TryAgain(r, o, a, f, n, expired)
    PROVE  GivesUp(r, o, n) \/ (~expired /\ (Sleeps(r, o, a, n) \/ Calls(r, o, a, n)))
<1>1. CASE expired \/ BreakerOpen(f)
  BY <1>1, ObjectTypes DEF TryAgain, Count, End, GivesUp
<1>2. CASE ~(expired \/ BreakerOpen(f))
  <2>1. CASE a > 0  BY <1>2, <2>1 DEF TryAgain, Count, Sleeps
  <2>2. CASE a = 0
    <3>1. slept' = [slept EXCEPT ![r] = slept[r]]  BY <1>2, <2>2 DEF TryAgain
    <3>2. slept' = slept  BY <3>1 DEF RunInv, Values
    <3>3. QED  BY <1>2, <2>2, <3>2 DEF TryAgain, Count, Calls
  <2>3. QED  BY <2>1, <2>2
<1>3. QED  BY <1>1, <1>2

\* The retry context of a request, and what the sleep before attempt a of it may add.
MayUse(r, o) ==
    \/ o = Default(r)
    \/ \E p \in Requests : o = Filed(p) /\ openedAt[p] = openedAt[r] /\ where[p] # "idle"

MaySleep(r, o, a, k) ==
    Retries(r) /\ ~KeyShared(r) =>
        /\ o = Filed(r)
        /\ slept[r] <= Allowed(r, a, k)
        /\ a > 0 => slept[r] + DelayMs(a) <= Allowed(r, a, k)

\* A request at the head of the loop with the time and the attempts that it may have
\* used: o is its retry context, a are its attempts, n is the number of calls, k
\* that of operations, and d is what it has spent.
AtHead(r, o, a, n, k, d) ==
    /\ o \in Objects /\ a \in Nat /\ n \in Nat /\ k \in Nat /\ d \in Nat
    /\ a < MaxAttempts(o) /\ n <= a /\ k > 0
    /\ \/ GivesUp(r, o, n)
       \/ slept[r] + d < TimeoutMs /\ (Sleeps(r, o, a, n) \/ Calls(r, o, a, n))
    /\ ops' = [ops EXCEPT ![r] = k]
    /\ object' = [object EXCEPT ![r] = o]
    /\ spent' = [spent EXCEPT ![r] = d]
    /\ UNCHANGED lifecycleVars
    /\ where[r] \in {"open", "calling"}
    /\ MayUse(r, o)
    /\ o # Default(r) => attempt[o] <= a
    /\ slept[r] + d < TimeoutMs + 8000
    /\ MaySleep(r, o, a, k)

\* From there it keeps the invariant.
LEMMA LoopKeeps ==
    ASSUME RunInv, CountsOK', NEW r \in Requests, NEW o, NEW a, NEW n,
           NEW k, NEW d, AtHead(r, o, a, n, k, d)
    PROVE  RunInv'
<1> USE DEF AtHead, MayUse, MaySleep
<1>1. /\ PlaceOK(r) /\ SleepOK(r) /\ Values
      /\ MaxAttempts(o) \in {3, 5} /\ slept[r] \in Nat /\ TimeoutMs \in Nat
      /\ attempt \in [Objects -> Nat]
  BY ObjectTypes, RetryAssumption DEF RunInv, Values, CountsOK
<1>2. a > 0 => DelayMs(a) \in Nat /\ DelayMs(a) <= 8000
  <2>1. a \in Nat /\ a < MaxAttempts(o)  OBVIOUS
  <2> HIDE DEF AtHead
  <2>2. a > 0 => a = 1 \/ a = 2 \/ a = 3 \/ a = 4  BY <1>1, <2>1
  <2>3. QED  BY <2>2, Delays
<1> DEFINE Goes(w, s, c, b) ==
        /\ where' = [where EXCEPT ![r] = w]
        /\ slept' = [slept EXCEPT ![r] = s]
        /\ calls' = [calls EXCEPT ![r] = c]
        /\ attempt' = [attempt EXCEPT ![o] = b]
        /\ outcome' \in {outcome, [outcome EXCEPT ![r] = "failed"]}
        /\ a <= b /\ c <= MaxAttempts(o)
        /\ w = "sleeping" => c < MaxAttempts(o) /\ c <= b
        /\ w = "calling" => c <= b + 1
        /\ s = slept[r] \/ (slept[r] + d < TimeoutMs /\ a > 0 /\ s = slept[r] + DelayMs(a))
<1>3. PICK w \in {"open", "sleeping", "calling"}, s \in Nat, c \in Nat, b \in Nat : Goes(w, s, c, b)
  <2>1. slept = [slept EXCEPT ![r] = slept[r]]  BY <1>1 DEF Values
  <2>2. a > 0 => slept[r] + DelayMs(a) \in Nat  BY <1>1, <1>2
  <2>3. MaxAttempts(o) \in Nat /\ a <= MaxAttempts(o) /\ n < MaxAttempts(o)  BY <1>1
  <2>4. CASE GivesUp(r, o, n)
    <3>1. Goes("open", slept[r], n, MaxAttempts(o))  BY <2>1, <2>3, <2>4 DEF GivesUp
    <3> HIDE DEF Goes
    <3>2. QED  BY <1>1, <2>3, <3>1
  <2>5. CASE slept[r] + d < TimeoutMs /\ Sleeps(r, o, a, n)
    <3>1. Goes("sleeping", slept[r] + DelayMs(a), n, a) /\ slept[r] + DelayMs(a) \in Nat
      BY <2>2, <2>3, <2>5 DEF Sleeps
    <3> HIDE DEF Goes
    <3>2. QED  BY <3>1
  <2>6. CASE Calls(r, o, a, n)
    <3> DEFINE c == n + 1
    <3>1. Goes("calling", slept[r], c, a) /\ c \in Nat  BY <2>1, <2>3, <2>6 DEF Calls
    <3> HIDE DEF Goes, c
    <3>2. QED  BY <1>1, <3>1
  <2> HIDE DEF Goes
  <2>7. QED  BY <2>4, <2>5, <2>6
<1>4. Values'  BY <1>1, <1>3 DEF Values
<1>5. /\ where'[r] = w /\ slept'[r] = s /\ calls'[r] = c /\ attempt'[o] = b
      /\ ops'[r] = k /\ object'[r] = o /\ spent'[r] = d
  BY <1>1, <1>3 DEF Values, RunInv, CountsOK
<1>6. Aside(r)
  <2>1. \A x \in Objects : x # o => attempt'[x] = attempt[x]  BY <1>1, <1>3
  <2>2. \A x \in Objects : x # Default(r) => attempt[x] <= attempt'[x]
    BY <1>1, <1>3, <1>5, <2>1
  <2>3. QED  BY <1>1, <1>3, <2>2 DEF Aside, Values, RunInv, CountsOK
<1>7. PlaceOK(r)'  BY <1>1, <1>3, <1>5 DEF PlaceOK, lifecycleVars
<1>8. Owned(r)'
  <2>1. CASE o = Default(r)  BY <1>5, <2>1 DEF Owned, Default
  <2>2. CASE o # Default(r)
    <3>1. PICK p \in Requests : o = Filed(p) /\ openedAt[p] = openedAt[r] /\ where[p] # "idle"
      BY <2>2
    <3>2. where'[p] # "idle"  BY <1>1, <1>3, <3>1 DEF Values
    <3>3. openedAt' = openedAt  BY DEF lifecycleVars
    <3>4. QED  BY <1>5, <3>1, <3>2, <3>3 DEF Owned, Filed
  <2>3. QED  BY <2>1, <2>2
<1>9. CallsOK(r)'
  <2>1. MaxAttempts(object[r])' = MaxAttempts(o) /\ (attempt[object[r]])' = b
    BY <1>5 DEF MaxAttempts
  <2>2. QED  BY <1>3, <1>5, <2>1 DEF CallsOK
<1>10. SleepOK(r)'
  <2>1. Elapsed(r)' = s + d  BY <1>5 DEF Elapsed
  <2>2. s + d < TimeoutMs + 8000  BY <1>1, <1>2, <1>3
  <2>3. /\ KeyShared(r)' <=> KeyShared(r)
        /\ Retries(r)' <=> Retries(r)
        /\ retryContexts' = retryContexts
    BY DEF KeyShared, Retries, lifecycleVars
  <2>4. Retries(r) /\ ~KeyShared(r) => s <= Allowed(r, a, k) /\ s <= Allowed(r, b, k)
    <3>1. Allowed(r, a, k) <= Allowed(r, b, k)  BY <1>3, AllowedGrows
    <3>2. Allowed(r, a, k) \in Int /\ Allowed(r, b, k) \in Int  BY DEF Allowed
    <3>3. QED  BY <1>1, <1>3, <3>1, <3>2
  <2>5. Retries(r) /\ ~KeyShared(r) => object'[r] = Filed(r) /\ attempt'[Filed(r)] = b
    BY <1>5
  <2>6. Retries(r) /\ ~KeyShared(r) =>
          slept'[r] <= Allowed(r, attempt'[Filed(r)], ops'[r])
    BY <1>5, <2>4, <2>5
  <2>7. /\ Allowed(r, attempt[Filed(r)], ops[r])' = Allowed(r, attempt'[Filed(r)], ops'[r])
        /\ Filed(r)' = Filed(r)
    BY DEF Allowed, Filed
  <2>8. Retries(r) /\ ~KeyShared(r) => r \in retryContexts  BY <1>1 DEF SleepOK
  <2>9. QED  BY <1>5, <2>1, <2>2, <2>3, <2>5, <2>6, <2>7, <2>8 DEF SleepOK
<1>11. where'[r] # "idle" /\ where[r] # "idle"  BY <1>5, <1>3
<1>12. QED  BY <1>4, <1>6, <1>7, <1>8, <1>9, <1>10, <1>11, OwnKeeps

\* A step that ends the operation, or calls it, without the head of the loop: n is the
\* number of calls, and d is what the request has spent.
Settles(r, w, n, d) ==
    /\ w \in {"open", "calling"} /\ n \in Nat /\ d \in Nat
    /\ where[r] \in {"open", "sleeping", "calling"}
    /\ where' = [where EXCEPT ![r] = w]
    /\ calls' = [calls EXCEPT ![r] = n]
    /\ n <= MaxAttempts(object[r])
    /\ w = "calling" => n <= attempt[object[r]] + 1 /\ ops[r] > 0
    /\ outcome' \in [Requests -> {"none", "succeeded", "timedout", "failed", "logic_error"}]
    /\ spent' = [spent EXCEPT ![r] = d]
    /\ slept[r] + d < TimeoutMs + 8000
    /\ \A o \in Objects : attempt[o] <= attempt'[o]
    /\ UNCHANGED <<ops, object, slept>>
    /\ UNCHANGED lifecycleVars

LEMMA SettleKeeps ==
    ASSUME RunInv, CountsOK', NEW r \in Requests, NEW w, NEW n, NEW d, Settles(r, w, n, d)
    PROVE  RunInv'
<1> USE DEF Settles
<1>1. /\ PlaceOK(r) /\ SleepOK(r) /\ Owned(r) /\ Values /\ CountsOK
      /\ MaxAttempts(object[r]) \in {3, 5} /\ object[r] \in Objects /\ Filed(r) \in Objects
      /\ slept[r] \in Nat /\ ops[r] \in Nat
      /\ attempt \in [Objects -> Nat] /\ attempt' \in [Objects -> Nat]
  BY ObjectTypes DEF RunInv, Values, CountsOK
<1>2. where'[r] = w /\ calls'[r] = n /\ spent'[r] = d  BY <1>1 DEF Values
<1>3. Values'  BY <1>1 DEF Values
<1>4. Aside(r)  BY <1>1 DEF Aside, Values
<1>5. PlaceOK(r)'  BY <1>1, <1>2 DEF PlaceOK, lifecycleVars
<1>6. Owned(r)'
  <2>1. object'[r] = object[r] /\ openedAt' = openedAt  BY DEF lifecycleVars
  <2>2. CASE object[r] = Default(r)  BY <2>1, <2>2 DEF Owned, Default
  <2>3. CASE \E p \in Requests :
               object[r] = Filed(p) /\ openedAt[p] = openedAt[r] /\ where[p] # "idle"
    <3>1. PICK p \in Requests :
            object[r] = Filed(p) /\ openedAt[p] = openedAt[r] /\ where[p] # "idle"
      BY <2>3
    <3>2. where'[p] # "idle"  BY <1>1, <3>1 DEF Values
    <3>3. QED  BY <2>1, <3>1, <3>2 DEF Owned, Filed
  <2>4. \/ object[r] = Default(r)
        \/ \E p \in Requests :
              object[r] = Filed(p) /\ openedAt[p] = openedAt[r] /\ where[p] # "idle"
    BY <1>1 DEF Owned
  <2>5. QED  BY <2>2, <2>3, <2>4
<1>7. CallsOK(r)'
  <2>1. MaxAttempts(object[r])' = MaxAttempts(object[r])
        /\ attempt[object[r]] <= (attempt[object[r]])'
        /\ attempt[object[r]] \in Nat /\ (attempt[object[r]])' \in Nat
    BY <1>1 DEF MaxAttempts
  <2>2. QED  BY <1>2, <2>1 DEF CallsOK
<1>8. SleepOK(r)'
  <2>1. Elapsed(r)' = slept[r] + d  BY <1>2 DEF Elapsed
  <2>2. /\ KeyShared(r)' <=> KeyShared(r)
        /\ Retries(r)' <=> Retries(r)
        /\ retryContexts' = retryContexts
    BY DEF KeyShared, Retries, lifecycleVars
  <2> DEFINE a == attempt[Filed(r)]
             b == attempt'[Filed(r)]
  <2>3. a \in Nat /\ b \in Nat /\ a <= b  BY <1>1
  <2> HIDE DEF a, b
  <2>4. Allowed(r, a, ops[r]) <= Allowed(r, b, ops[r])  BY <1>1, <2>3, AllowedGrows
  <2>5. Allowed(r, a, ops[r]) \in Int /\ Allowed(r, b, ops[r]) \in Int
    BY <1>1, <2>3 DEF Allowed
  <2>6. Retries(r) /\ ~KeyShared(r) /\ ops[r] > 0 => slept[r] <= Allowed(r, b, ops[r])
    BY <1>1, <2>4, <2>5 DEF SleepOK, a
  <2>7. /\ Allowed(r, attempt[Filed(r)], ops[r])' = Allowed(r, b, ops[r])
        /\ Filed(r)' = Filed(r)
    BY DEF Allowed, Filed, b
  <2>8. Retries(r) /\ ~KeyShared(r) => r \in retryContexts
    BY <1>1 DEF SleepOK, PlaceOK
  <2>9. QED  BY <1>1, <1>2, <2>1, <2>2, <2>6, <2>7, <2>8 DEF SleepOK
<1>9. where'[r] # "idle"  BY <1>2
<1>10. QED  BY <1>3, <1>4, <1>5, <1>6, <1>7, <1>8, <1>9, OwnKeeps DEF lifecycleVars

\* Another request opens or closes its context: a retry context goes only if its
\* key is shared.
LEMMA ContextKeeps ==
    ASSUME RunInv, NEW r \in Requests, Open(r) \/ Close(r), CountsOK', LifecycleTypeOK'
    PROVE  RunInv'
<1>1. PICK w \in {"open", "closed"} :
        /\ where' = [where EXCEPT ![r] = w]
        /\ w = "open" <=> where[r] = "idle"
  BY DEF Open, Close
<1>2. /\ UNCHANGED <<ops, object, attempt, failures, slept, spent, calls, outcome>>
      /\ Values /\ CountsOK /\ LifecycleTypeOK
  BY DEF Open, Close, RunInv
<1>3. Values'  BY <1>1, <1>2 DEF Values
<1>4. ASSUME NEW t \in Requests, t # r
      PROVE  where'[t] = where[t] /\ openedAt'[t] = openedAt[t]
  BY <1>1, <1>2, <1>4 DEF Values, LifecycleTypeOK, Open, Close, OpenContext, CloseContext
<1>5. where'[r] = w /\ openedAt'[r] # NoInstant
  BY <1>1, <1>2, LifecycleAssumption
  DEF Values, LifecycleTypeOK, Open, Close, OpenContext, CloseContext, RunInv, PlaceOK
<1>6. retryContexts' \subseteq retryContexts \union {r}
  BY DEF Open, Close, OpenContext, CloseContext, Without
<1>7. ASSUME NEW t \in Requests
      PROVE  PlaceOK(t)' /\ Owned(t)' /\ CallsOK(t)'
  <2>1. PlaceOK(t) /\ Owned(t) /\ CallsOK(t) /\ PlaceOK(r) /\ Owned(r) /\ CallsOK(r)
    BY DEF RunInv
  <2>2. PlaceOK(t)'
    <3>1. CASE t = r  BY <1>1, <1>2, <1>5, <2>1, <3>1 DEF PlaceOK
    <3>2. CASE t # r  BY <1>2, <1>4, <1>6, <2>1, <3>2 DEF PlaceOK, Default
    <3>3. QED  BY <3>1, <3>2
  <2>3. Owned(t)'
    <3>1. CASE object[t] = Default(t)  BY <1>2, <3>1 DEF Owned, Default
    <3>2. CASE object[t] # Default(t)
      <4>1. PICK p \in Requests :
              object[t] = Filed(p) /\ openedAt[p] = openedAt[t] /\ where[p] # "idle"
        BY <2>1, <3>2 DEF Owned
      <4>2. where[t] # "idle"  BY <2>1, <3>2 DEF PlaceOK
      <4>3. where'[p] # "idle"  BY <1>1, <1>4, <1>5, <4>1
      <4>4. openedAt'[p] = openedAt'[t]
        <5>1. CASE where[r] = "idle"  BY <1>4, <4>1, <4>2, <5>1
        <5>2. CASE where[r] # "idle"
          <6>1. openedAt' = openedAt  BY <5>2 DEF Open, Close, CloseContext
          <6>2. QED  BY <4>1, <6>1
        <5>3. QED  BY <5>1, <5>2
      <4>5. QED  BY <1>2, <4>1, <4>3, <4>4 DEF Owned, Filed
    <3>3. QED  BY <3>1, <3>2
  <2>4. CallsOK(t)'
    <3>1. MaxAttempts(object[t])' = MaxAttempts(object[t])  BY <1>2 DEF MaxAttempts
    <3>2. where'[t] \in {"sleeping", "calling"} => where'[t] = where[t]  BY <1>1, <1>4, <1>5
    <3>3. QED  BY <1>2, <2>1, <3>1, <3>2 DEF CallsOK
  <2>5. QED  BY <2>2, <2>3, <2>4
<1>8. ASSUME NEW t \in Requests
      PROVE  SleepOK(t)'
  <2>1. SleepOK(t) /\ PlaceOK(t) /\ PlaceOK(r) /\ ops[t] \in Nat
    BY <1>2 DEF RunInv, Values
  <2>2. Elapsed(t)' = Elapsed(t)  BY <1>2 DEF Elapsed
  <2>3. Retries(t)' <=> Retries(t)  BY DEF Retries
  <2>4. ASSUME Retries(t), ~KeyShared(t)', where[t] # "idle"  PROVE ~KeyShared(t)
    <3> SUFFICES ASSUME NEW p \in Requests \ {t}, openedAt[p] = openedAt[t]  PROVE FALSE
      BY DEF KeyShared
    <3>1. PlaceOK(p)  BY DEF RunInv
    <3>2. where[p] # "idle"  BY <2>1, <2>4, <3>1 DEF PlaceOK
    <3>3. openedAt'[p] = openedAt'[t]
      <4>1. CASE where[r] = "idle"  BY <1>4, <2>4, <3>2, <4>1
      <4>2. CASE where[r] # "idle"
        <5>1. openedAt' = openedAt  BY <4>2 DEF Open, Close, CloseContext
        <5>2. QED  BY <5>1
      <4>3. QED  BY <4>1, <4>2
    <3>4. QED  BY <2>4, <3>3 DEF KeyShared
  <2>5. ASSUME Retries(t), ~KeyShared(t)', where'[t] \in {"open", "sleeping", "calling"}
        PROVE  t \in retryContexts'
    <3>1. CASE t = r
      <4>1. Open(r)  BY <1>1, <1>5, <2>5, <3>1 DEF Open, Close
      <4>2. QED  BY <2>5, <3>1, <4>1 DEF Open, OpenContext
    <3>2. CASE t # r
      <4>1. where'[t] = where[t] /\ openedAt'[t] = openedAt[t]  BY <1>4, <3>2
      <4>2. t \in retryContexts  BY <2>1, <2>4, <2>5, <4>1 DEF SleepOK
      <4>3. openedAt'[r] # openedAt'[t]  BY <2>5, <3>2 DEF KeyShared
      <4>4. CASE Open(r)
        <5>1. PICK ms \in Instants :
                /\ openedAt' = [openedAt EXCEPT ![r] = ms]
                /\ retryContexts' = IF Retries(r) THEN Without(retryContexts, ms) \union {r}
                                    ELSE retryContexts
          BY <4>4 DEF Open, OpenContext
        <5>2. openedAt'[r] = ms  BY <1>2, <5>1 DEF LifecycleTypeOK
        <5>3. QED  BY <4>1, <4>2, <4>3, <5>1, <5>2 DEF Without
      <4>5. CASE Close(r)
        <5>1. openedAt' = openedAt /\ retryContexts' = Without(retryContexts, openedAt[r])
          BY <4>5 DEF Close, CloseContext
        <5>2. QED  BY <4>2, <4>3, <5>1 DEF Without
      <4>6. QED  BY <4>4, <4>5
    <3>3. QED  BY <3>1, <3>2
  <2>6. ops[t] > 0 => where[t] # "idle"  BY <2>1 DEF PlaceOK
  <2>7. Allowed(t, attempt[Filed(t)], ops[t])' = Allowed(t, attempt[Filed(t)], ops[t])
        /\ Filed(t)' = Filed(t)
    BY <1>2 DEF Allowed, Filed
  <2>8. QED  BY <1>2, <2>1, <2>2, <2>3, <2>4, <2>5, <2>6, <2>7 DEF SleepOK
<1>9. QED  BY <1>2, <1>3, <1>7, <1>8 DEF RunInv

LEMMA StartKeeps ==
    ASSUME RunInv, NEW r \in Requests, StartOp(r), CountsOK'
    PROVE  RunInv'
<1>1. /\ PlaceOK(r) /\ SleepOK(r) /\ Values /\ CountsOK /\ LifecycleTypeOK
      /\ where[r] = "open" /\ ops[r] \in Nat /\ slept[r] \in Nat /\ spent[r] \in Nat
      /\ TimeoutMs \in Nat
  BY RetryAssumption DEF RunInv, Values, StartOp
<1>2. /\ ops' = [ops EXCEPT ![r] = ops[r] + 1] /\ spent' = [spent EXCEPT ![r] = spent[r]]
      /\ UNCHANGED lifecycleVars
  BY <1>1 DEF StartOp, Values
<1>3. ~Expired(r) => slept[r] + spent[r] < TimeoutMs  BY <1>1 DEF Expired, Elapsed
<1>4. slept[r] + spent[r] < TimeoutMs + 8000  BY <1>1 DEF SleepOK, Elapsed
<1>5. Retries(r) /\ ~KeyShared(r) => Found(r) = {r}
  <2> SUFFICES ASSUME Retries(r), ~KeyShared(r)  PROVE Found(r) = {r}
    OBVIOUS
  <2>1. r \in retryContexts  BY <1>1 DEF SleepOK
  <2>2. \A p \in Found(r) : p = r  BY <1>1 DEF Found, KeyShared, LifecycleTypeOK
  <2>3. QED  BY <2>1, <2>2 DEF Found
<1> DEFINE Fits(p) ==
             /\ Filed(p) \in Objects /\ p \in Requests /\ Filed(p) # Default(r)
             /\ openedAt[p] = openedAt[r] /\ where[p] # "idle"
             /\ attempt[Filed(p)] \in Nat /\ failures[Filed(p)] \in Nat
             /\ failures[Filed(p)] <= attempt[Filed(p)]
             /\ MaxAttempts(Filed(p)) \in {3, 5}
             /\ Retries(r) /\ ~KeyShared(r) => p = r
<1>6. ASSUME NEW p \in Found(r)
      PROVE  Fits(p)
  <2>1. p \in Requests /\ p \in retryContexts /\ openedAt[p] = openedAt[r]
    BY <1>1 DEF Found, LifecycleTypeOK
  <2>2. where[p] # "idle"  BY <2>1 DEF RunInv, PlaceOK
  <2>3. Filed(p) \in Objects /\ Filed(p) # Default(r) /\ MaxAttempts(Filed(p)) \in {3, 5}
    BY <2>1, ObjectTypes, ObjectsDiffer
  <2>4. QED  BY <1>1, <1>5, <2>1, <2>2, <2>3 DEF CountsOK, FailuresAreAttempts
<1>7. ASSUME NEW p \in Found(r), object' = [object EXCEPT ![r] = Filed(p)],
             End(r, "logic_error", 0), UNCHANGED <<attempt, failures, slept>>
      PROVE  RunInv'
  <2> DEFINE o == Filed(p)
  <2>0. Fits(p)  BY <1>6
  <2>1. /\ where' = [where EXCEPT ![r] = "open"] /\ calls' = [calls EXCEPT ![r] = 0]
        /\ outcome' = [outcome EXCEPT ![r] = "logic_error"]
    BY <1>7 DEF End
  <2>2. /\ where'[r] = "open" /\ calls'[r] = 0 /\ object'[r] = o
        /\ ops'[r] = ops[r] + 1 /\ spent'[r] = spent[r]
    BY <1>1, <1>2, <1>7, <2>1 DEF Values, CountsOK
  <2>3. Values'  BY <1>1, <1>2, <1>7, <2>1 DEF Values
  <2>4. Aside(r)  BY <1>1, <1>2, <1>7, <2>1 DEF Aside, Values, CountsOK
  <2>5. PlaceOK(r)'  BY <1>1, <1>2, <2>2 DEF PlaceOK, lifecycleVars
  <2>6. Owned(r)'
    <3>1. where'[p] # "idle" /\ openedAt' = openedAt /\ p \in Requests /\ openedAt[p] = openedAt[r]
      BY <1>1, <1>2, <2>0, <1>7, <2>1 DEF Values, lifecycleVars
    <3>2. QED  BY <2>2, <3>1 DEF Owned, Filed
  <2>7. CallsOK(r)'
    <3>1. MaxAttempts(object[r])' \in {3, 5}
      BY <2>0, <1>7, <2>2 DEF MaxAttempts
    <3>2. QED  BY <2>2, <3>1 DEF CallsOK
  <2>8. SleepOK(r)'
    <3>1. /\ Elapsed(r)' = slept[r] + spent[r]
          /\ KeyShared(r)' <=> KeyShared(r)
          /\ Retries(r)' <=> Retries(r)
          /\ retryContexts' = retryContexts
      BY <1>2, <1>7, <2>2 DEF Elapsed, KeyShared, Retries, lifecycleVars
    <3>2. Retries(r) /\ ~KeyShared(r) => slept[r] <= Allowed(r, attempt[Filed(r)], ops[r] + 1)
      <4>1. CASE ops[r] = 0
        BY <1>1, <2>0, <1>7, <4>1 DEF SleepOK, Allowed
      <4>2. CASE ops[r] > 0
        <5>1. Retries(r) /\ ~KeyShared(r) =>
                slept[r] <= Allowed(r, attempt[Filed(r)], ops[r]) /\ attempt[Filed(r)] \in Nat
          BY <1>1, <2>0, <1>7, <4>2 DEF SleepOK
        <5>2. attempt[Filed(r)] \in Nat =>
                Allowed(r, attempt[Filed(r)], ops[r]) <= Allowed(r, attempt[Filed(r)], ops[r] + 1)
          BY <1>1 DEF Allowed
        <5>3. attempt[Filed(r)] \in Nat =>
                /\ Allowed(r, attempt[Filed(r)], ops[r]) \in Int
                /\ Allowed(r, attempt[Filed(r)], ops[r] + 1) \in Int
          BY <1>1 DEF Allowed
        <5>4. QED  BY <1>1, <5>1, <5>2, <5>3
      <4>3. QED  BY <1>1, <4>1, <4>2
    <3>3. /\ Allowed(r, attempt[Filed(r)], ops[r])' = Allowed(r, attempt[Filed(r)], ops[r] + 1)
          /\ Filed(r)' = Filed(r)
      BY <1>7, <2>2 DEF Allowed, Filed
    <3>4. Retries(r) /\ ~KeyShared(r) => object'[r] = Filed(r) /\ r \in retryContexts
      BY <1>1, <2>0, <1>7, <2>2 DEF SleepOK
    <3>5. QED  BY <1>1, <1>4, <1>7, <2>2, <3>1, <3>2, <3>3, <3>4 DEF SleepOK
  <2>9. QED  BY <1>1, <1>2, <2>2, <2>3, <2>4, <2>5, <2>6, <2>7, <2>8, OwnKeeps
<1>8. ASSUME NEW p \in Found(r), object' = [object EXCEPT ![r] = Filed(p)],
             attempt[Filed(p)] < MaxAttempts(Filed(p)),
             TryAgain(r, Filed(p), attempt[Filed(p)], failures[Filed(p)], 0, Expired(r))
      PROVE  RunInv'
  <2> DEFINE o == Filed(p)
             a == attempt[o]
             f == failures[o]
             k == ops[r] + 1
             d == spent[r]
             n == 0
  <2>0. Fits(p)  BY <1>6
  <2>1. /\ o \in Objects /\ a \in Nat /\ f \in Nat /\ f <= a /\ n \in Nat /\ n <= a
        /\ k \in Nat /\ k > 0 /\ d \in Nat
        /\ o # Default(r) /\ attempt[o] <= a
    BY <1>1, <2>0, <1>8
  <2>2. \E q \in Requests : o = Filed(q) /\ openedAt[q] = openedAt[r] /\ where[q] # "idle"
    BY <2>0, <1>8
  <2>3. a < MaxAttempts(o) /\ 
        (GivesUp(r, o, n) \/ (slept[r] + d < TimeoutMs /\ (Sleeps(r, o, a, n) \/ Calls(r, o, a, n))))
    BY <1>3, <1>8, <2>0, TryShape
  <2>4. ops' = [ops EXCEPT ![r] = k] /\ spent' = [spent EXCEPT ![r] = d]  BY <1>2
  <2>5. object' = [object EXCEPT ![r] = o]  BY <1>8
  <2>6. slept[r] + d < TimeoutMs + 8000  BY <1>4
  <2>7. ASSUME Retries(r), ~KeyShared(r)
        PROVE  /\ o = Filed(r)
               /\ slept[r] <= Allowed(r, a, k)
               /\ a > 0 => slept[r] + DelayMs(a) <= Allowed(r, a, k)
    <3>1. p = r /\ o = Filed(r)  BY <2>0, <1>8, <2>7
    <3>2. a > 0 => DelayMs(a) \in Nat
      <4>1. a \in Nat /\ a < MaxAttempts(o) /\ MaxAttempts(o) \in {3, 5}  BY <2>0, <1>8
      <4> HIDE DEF a, o
      <4>2. a > 0 => a = 1 \/ a = 2 \/ a = 3 \/ a = 4  BY <4>1
      <4>3. QED  BY <4>2, Delays
    <3>3. a < MaxAttempts(Filed(r))  BY <1>8, <3>1
    <3>4. ops[r] > 0 => slept[r] <= Allowed(r, a, ops[r])  BY <1>1, <2>7, <3>1 DEF SleepOK
    <3>5. ops[r] = 0 => slept[r] = 0  BY <1>1 DEF SleepOK
    <3>6. a \in Nat  BY <2>1
    <3> HIDE DEF a
    <3>7. /\ Allowed(r, a, ops[r]) \in Int /\ Allowed(r, a, k) \in Int
          /\ Allowed(r, a, ops[r]) <= Allowed(r, a, k)
          /\ Allowed(r, a, 1) >= 0
      BY <1>1, <3>6 DEF Allowed
    <3>8. CASE ops[r] = 0
      <4>1. k = 1  BY <3>8
      <4>2. a > 0 => DelayMs(a) <= Allowed(r, a, 1)  BY <3>3, <3>6, DelayAllowed
      <4>3. QED  BY <3>1, <3>2, <3>5, <3>7, <3>8, <4>1, <4>2
    <3>9. CASE ops[r] > 0
      <4>1. a > 0 => Allowed(r, a, ops[r]) + DelayMs(a) <= Allowed(r, a, k)
        BY <1>1, <3>3, <3>6, <3>9, DelayAllowed
      <4>2. QED  BY <1>1, <3>1, <3>2, <3>4, <3>7, <3>9, <4>1
    <3>10. QED  BY <1>1, <3>8, <3>9
  <2>8. where[r] \in {"open", "calling"}  BY <1>1
  <2> HIDE DEF o, a, f, k, d, n
  <2>9. MayUse(r, o) /\ (o # Default(r) => attempt[o] <= a) /\ MaySleep(r, o, a, k)
    BY <2>1, <2>2, <2>7 DEF MayUse, MaySleep
  <2>10. AtHead(r, o, a, n, k, d)
    <3>1. UNCHANGED lifecycleVars  BY <1>2
    <3>2. QED  BY <2>1, <2>3, <2>4, <2>5, <2>6, <2>8, <2>9, <3>1 DEF AtHead
  <2>11. QED  BY <2>10, LoopKeeps
<1>9. ASSUME Found(r) = {}, object' = [object EXCEPT ![r] = Default(r)],
             TryAgain(r, Default(r), 0, 0, 0, Expired(r))
      PROVE  RunInv'
  <2> DEFINE o == Default(r)
             a == 0
             k == ops[r] + 1
             d == spent[r]
  <2>1. o \in Objects /\ a \in Nat /\ a <= a /\ k \in Nat /\ k > 0 /\ d \in Nat
    BY <1>1, ObjectTypes
  <2>2. a < MaxAttempts(o)  BY <2>1, ObjectTypes
  <2>3. GivesUp(r, o, a) \/ (slept[r] + d < TimeoutMs /\ (Sleeps(r, o, a, a) \/ Calls(r, o, a, a)))
    BY <1>3, <1>9, <2>1, TryShape
  <2>4. ops' = [ops EXCEPT ![r] = k] /\ spent' = [spent EXCEPT ![r] = d]  BY <1>2
  <2>5. object' = [object EXCEPT ![r] = o] /\ o = Default(r)  BY <1>9
  <2>6. slept[r] + d < TimeoutMs + 8000  BY <1>4
  <2>7. ~(Retries(r) /\ ~KeyShared(r))  BY <1>5, <1>9
  <2>8. where[r] \in {"open", "calling"}  BY <1>1
  <2> HIDE DEF o, a, k, d
  <2>9. MayUse(r, o) /\ (o # Default(r) => attempt[o] <= a) /\ MaySleep(r, o, a, k)
    BY <2>5, <2>7 DEF MayUse, MaySleep
  <2>10. AtHead(r, o, a, a, k, d)
    <3>1. UNCHANGED lifecycleVars  BY <1>2
    <3>2. QED  BY <2>1, <2>2, <2>3, <2>4, <2>5, <2>6, <2>8, <2>9, <3>1 DEF AtHead
  <2>11. QED  BY <2>10, LoopKeeps
<1>10. QED  BY <1>7, <1>8, <1>9 DEF StartOp

LEMMA WakeKeeps ==
    ASSUME RunInv, NEW r \in Requests, Wake(r), CountsOK'
    PROVE  RunInv'
<1>1. /\ PlaceOK(r) /\ SleepOK(r) /\ CallsOK(r)
      /\ where[r] = "sleeping" /\ calls[r] \in Nat /\ slept[r] \in Nat /\ spent[r] \in Nat
      /\ spent \in [Requests -> Nat] /\ ops[r] \in Nat
      /\ object[r] \in Objects /\ MaxAttempts(object[r]) \in {3, 5}
      /\ attempt \in [Objects -> Nat]
  BY ObjectTypes DEF RunInv, Values, CountsOK, Wake
<1> DEFINE n == calls[r] + 1
           d == spent[r]
<1>2. /\ n \in Nat /\ n <= MaxAttempts(object[r]) /\ n <= attempt[object[r]] + 1
      /\ d \in Nat /\ slept[r] + d < TimeoutMs + 8000 /\ ops[r] > 0
  BY <1>1 DEF CallsOK, SleepOK, PlaceOK, Elapsed
<1>3. where' = [where EXCEPT ![r] = "calling"] /\ calls' = [calls EXCEPT ![r] = n]
  BY DEF Wake
<1>4. spent' = [spent EXCEPT ![r] = d]  BY <1>1 DEF Wake
<1>5. outcome' \in [Requests -> {"none", "succeeded", "timedout", "failed", "logic_error"}]
  BY DEF Wake, RunInv, Values
<1>6. UNCHANGED <<ops, object, slept>> /\ UNCHANGED lifecycleVars  BY DEF Wake
<1>7. \A o \in Objects : attempt[o] <= attempt'[o]  BY <1>1 DEF Wake
<1>8. where[r] \in {"open", "sleeping", "calling"}  BY <1>1
<1> HIDE DEF n, d
<1>9. Settles(r, "calling", n, d)
  BY <1>2, <1>3, <1>4, <1>5, <1>6, <1>7, <1>8 DEF Settles
<1>10. QED  BY <1>9, SettleKeeps

\* The operation is over, in whatever way, within the time d that it may have spent.
Ends(r, how, d) ==
    /\ where[r] = "calling" /\ how \in {"succeeded", "timedout", "failed"} /\ d \in Nat
    /\ End(r, how, calls[r])
    /\ spent' = [spent EXCEPT ![r] = d]
    /\ slept[r] + d < TimeoutMs + 8000
    /\ \A o \in Objects : attempt[o] <= attempt'[o]
    /\ UNCHANGED <<ops, object, slept>>
    /\ UNCHANGED lifecycleVars

LEMMA EndKeeps ==
    ASSUME RunInv, CountsOK', NEW r \in Requests, NEW how, NEW d, Ends(r, how, d)
    PROVE  RunInv'
<1> DEFINE n == calls[r]
<1>1. CallsOK(r) /\ n \in Nat  BY DEF RunInv, Values
<1>2. n <= MaxAttempts(object[r])  BY <1>1 DEF CallsOK
<1>3. where' = [where EXCEPT ![r] = "open"] /\ calls' = [calls EXCEPT ![r] = n]
  BY DEF Ends, End
<1>4. outcome' \in [Requests -> {"none", "succeeded", "timedout", "failed", "logic_error"}]
  BY DEF Ends, End, RunInv, Values
<1> HIDE DEF n
<1>5. Settles(r, "open", n, d)  BY <1>1, <1>2, <1>3, <1>4 DEF Settles, Ends
<1>6. QED  BY <1>5, SettleKeeps

LEMMA SucceedKeeps ==
    ASSUME RunInv, NEW r \in Requests, Succeed(r), CountsOK'
    PROVE  RunInv'
<1>1. PICK i \in Durations : Elapsed(r) + i < TimeoutMs /\ spent' = [spent EXCEPT ![r] = @ + i]
  BY DEF Succeed
<1> DEFINE d == spent[r] + i
<1>2. spent' = [spent EXCEPT ![r] = d]  BY <1>1
<1>3. d \in Nat /\ slept[r] + d < TimeoutMs + 8000
  BY <1>1, RetryAssumption DEF RunInv, Values, Elapsed
<1>4. \A o \in Objects : attempt[o] <= attempt'[o]  BY DEF Succeed, RunInv, CountsOK
<1>5. UNCHANGED <<ops, object, slept>> /\ UNCHANGED lifecycleVars  BY DEF Succeed
<1> HIDE DEF d
<1>6. where[r] = "calling" /\ End(r, "succeeded", calls[r])  BY DEF Succeed
<1>7. Ends(r, "succeeded", d)  BY <1>2, <1>3, <1>4, <1>5, <1>6 DEF Ends
<1>8. QED  BY <1>7, EndKeeps

LEMMA TimeUpKeeps ==
    ASSUME RunInv, NEW r \in Requests, TimeUp(r), CountsOK'
    PROVE  RunInv'
<1> DEFINE d == IF Expired(r) THEN spent[r] ELSE TimeoutMs - slept[r]
<1>1. slept[r] \in Nat /\ spent[r] \in Nat /\ SleepOK(r) /\ TimeoutMs \in Nat
  BY RetryAssumption DEF RunInv, Values
<1>2. d \in Nat /\ slept[r] + d < TimeoutMs + 8000
  BY <1>1 DEF Expired, Elapsed, SleepOK
<1>3. spent' = [spent EXCEPT ![r] = d]  BY DEF TimeUp, RunInv, Values
<1>4. \A o \in Objects : attempt[o] <= attempt'[o]  BY DEF TimeUp, RunInv, CountsOK
<1>5. UNCHANGED <<ops, object, slept>> /\ UNCHANGED lifecycleVars  BY DEF TimeUp
<1> HIDE DEF d
<1>6. where[r] = "calling" /\ End(r, "timedout", calls[r])  BY DEF TimeUp
<1>7. Ends(r, "timedout", d)  BY <1>2, <1>3, <1>4, <1>5, <1>6 DEF Ends
<1>8. QED  BY <1>7, EndKeeps

LEMMA FailKeeps ==
    ASSUME RunInv, NEW r \in Requests, Fail(r), CountsOK'
    PROVE  RunInv'
<1>1. PICK i \in Durations : Elapsed(r) + i < TimeoutMs /\ spent' = [spent EXCEPT ![r] = @ + i]
  BY DEF Fail
<1> DEFINE d == spent[r] + i
           o == object[r]
           a == attempt[o] + 1
           f == Recorded(failures[o], FALSE)
           n == calls[r]
           k == ops[r]
<1>2. spent' = [spent EXCEPT ![r] = d]  BY <1>1
<1>3. d \in Nat /\ slept[r] + d < TimeoutMs /\ slept[r] + d < TimeoutMs + 8000
  BY <1>1, RetryAssumption DEF RunInv, Values, Elapsed
<1>4. \/ End(r, "timedout", calls[r]) /\ UNCHANGED <<attempt, slept>>
      \/ Count(o, a, f) /\ End(r, "failed", calls[r]) /\ UNCHANGED slept
      \/ a < MaxAttempts(o) /\ TryAgain(r, o, a, f, n, FALSE)
  BY DEF Fail
<1>5. where[r] = "calling" /\ UNCHANGED <<ops, object>> /\ UNCHANGED lifecycleVars
  BY DEF Fail
<1>6. /\ PlaceOK(r) /\ Owned(r) /\ SleepOK(r) /\ CallsOK(r) /\ Values /\ CountsOK
      /\ o \in Objects /\ attempt \in [Objects -> Nat] /\ a \in Nat
      /\ n \in Nat /\ k \in Nat /\ slept[r] \in Nat
      /\ MaxAttempts(o) \in {3, 5}
  BY ObjectTypes DEF RunInv, Values, CountsOK
<1>7. CASE End(r, "timedout", calls[r]) /\ UNCHANGED <<attempt, slept>>
  <2>1. \A x \in Objects : attempt[x] <= attempt'[x]  BY <1>6, <1>7
  <2>2. UNCHANGED slept  BY <1>7
  <2> HIDE DEF d
  <2>3. Ends(r, "timedout", d)  BY <1>2, <1>3, <1>5, <1>7, <2>1, <2>2 DEF Ends
  <2>4. QED  BY <2>3, EndKeeps
<1>8. CASE Count(o, a, f) /\ End(r, "failed", calls[r]) /\ UNCHANGED slept
  <2>1. \A x \in Objects : attempt[x] <= attempt'[x]  BY <1>6, <1>8 DEF Count
  <2> HIDE DEF d
  <2>2. Ends(r, "failed", d)  BY <1>2, <1>3, <1>5, <1>8, <2>1 DEF Ends
  <2>3. QED  BY <2>2, EndKeeps
<1>9. CASE a < MaxAttempts(o) /\ TryAgain(r, o, a, f, n, FALSE)
  <2>1. n <= a /\ k > 0 /\ a > 0  BY <1>5, <1>6 DEF CallsOK, PlaceOK
  <2>2. attempt[o] <= a  BY <1>6
  <2>3. MayUse(r, o)  BY <1>6 DEF Owned, MayUse
  <2>4. MaySleep(r, o, a, k)
    <3> SUFFICES ASSUME Retries(r), ~KeyShared(r)
                 PROVE  /\ o = Filed(r)
                        /\ slept[r] <= Allowed(r, a, k)
                        /\ a > 0 => slept[r] + DelayMs(a) <= Allowed(r, a, k)
      BY DEF MaySleep
    <3>1. o = Filed(r) /\ slept[r] <= Allowed(r, a - 1, k)
      BY <1>6, <2>1 DEF SleepOK
    <3>2. a = 1 \/ a = 2 \/ a = 3 \/ a = 4  BY <1>6, <1>9, <2>1
    <3>3. DelayMs(a) \in Nat
      <4> HIDE DEF a
      <4>1. QED  BY <3>2, Delays
    <3>4. a < MaxAttempts(Filed(r))  BY <1>9, <3>1
    <3> HIDE DEF a, o, k
    <3>5. Allowed(r, a - 1, k) + DelayMs(a) <= Allowed(r, a, k)
      BY <1>6, <2>1, <3>4, DelayAllowed
    <3>6. Allowed(r, a - 1, k) \in Int /\ Allowed(r, a, k) \in Int  BY <1>6 DEF Allowed
    <3>7. QED  BY <1>6, <3>1, <3>3, <3>5, <3>6
  <2>5. ops' = [ops EXCEPT ![r] = k] /\ object' = [object EXCEPT ![r] = o]
    BY <1>5, <1>6 DEF Values, CountsOK
  <2>6. GivesUp(r, o, n) \/ (slept[r] + d < TimeoutMs /\ (Sleeps(r, o, a, n) \/ Calls(r, o, a, n)))
    <3> DEFINE e == FALSE
    <3>1. TryAgain(r, o, a, f, n, e) /\ o \in Objects /\ a \in Nat  BY <1>6, <1>9
    <3> HIDE DEF o, a, f, n, d, e
    <3>2. GivesUp(r, o, n) \/ (~e /\ (Sleeps(r, o, a, n) \/ Calls(r, o, a, n)))
      BY <3>1, TryShape
    <3>3. QED  BY <1>3, <3>2
  <2>7. where[r] \in {"open", "calling"}  BY <1>5
  <2>8. o \in Objects /\ a \in Nat /\ n \in Nat /\ k \in Nat /\ d \in Nat /\ a < MaxAttempts(o)
    BY <1>3, <1>6, <1>9
  <2>9. UNCHANGED lifecycleVars /\ spent' = [spent EXCEPT ![r] = d] /\ slept[r] + d < TimeoutMs + 8000
    BY <1>2, <1>3, <1>5
  <2> HIDE DEF o, a, f, n, k, d
  <2>10. AtHead(r, o, a, n, k, d)
    BY <2>1, <2>2, <2>3, <2>4, <2>5, <2>6, <2>7, <2>8, <2>9 DEF AtHead
  <2>11. QED  BY <2>10, LoopKeeps
<1>10. QED  BY <1>4, <1>7, <1>8, <1>9

-----------------------------------------------------------------------------
(* The invariant, and what follows from it.                                *)

LEMMA RunInit == RetryInit => RunInv
<1> SUFFICES ASSUME RetryInit
             PROVE  RunInv
  OBVIOUS
<1>1. LifecycleTypeOK  BY DEF RetryInit, LifecycleInit, LifecycleTypeOK
<1>2. CountsOK  BY ObjectTypes DEF RetryInit, CountsOK, FailuresAreAttempts
<1>3. Values  BY DEF RetryInit, Values
<1>4. ASSUME NEW r \in Requests
      PROVE  PlaceOK(r) /\ Owned(r) /\ CallsOK(r) /\ SleepOK(r)
  <2>1. /\ where[r] = "idle" /\ ops[r] = 0 /\ object[r] = Default(r) /\ slept[r] = 0
        /\ spent[r] = 0 /\ calls[r] = 0 /\ openedAt[r] = NoInstant /\ retryContexts = {}
    BY DEF RetryInit, LifecycleInit
  <2>2. Default(r) \in Objects /\ MaxAttempts(Default(r)) \in {3, 5}  BY ObjectTypes
  <2>3. TimeoutMs \in Nat  BY RetryAssumption
  <2>4. PlaceOK(r) /\ Owned(r)  BY <2>1 DEF PlaceOK, Owned
  <2>5. CallsOK(r)  BY <2>1, <2>2 DEF CallsOK
  <2>6. SleepOK(r)  BY <2>1, <2>3 DEF SleepOK, Elapsed
  <2>7. QED  BY <2>4, <2>5, <2>6
<1>5. QED  BY <1>1, <1>2, <1>3, <1>4 DEF RunInv

LEMMA RunStep == RunInv /\ [RetryNext]_vars => RunInv'
<1> SUFFICES ASSUME RunInv, [RetryNext]_vars
             PROVE  RunInv'
  OBVIOUS
<1>1. CountsOK' /\ LifecycleTypeOK'  BY CountsStep, LifecycleStep DEF RunInv
<1>2. CASE UNCHANGED vars
  <2>1. Values'  BY <1>2 DEF RunInv, Values, vars
  <2>2. ASSUME NEW r \in Requests
        PROVE  PlaceOK(r)' /\ Owned(r)' /\ CallsOK(r)' /\ SleepOK(r)'
    <3>1. PlaceOK(r)' /\ Owned(r)'
      BY <1>2 DEF RunInv, vars, lifecycleVars, PlaceOK, Owned, Filed, Default
    <3>2. CallsOK(r)'  BY <1>2 DEF RunInv, vars, CallsOK, MaxAttempts
    <3>3. SleepOK(r)'
      BY <1>2 DEF RunInv, vars, lifecycleVars, SleepOK, Elapsed, Retries, KeyShared, Filed, Allowed
    <3>4. QED  BY <3>1, <3>2, <3>3
  <2>3. QED  BY <1>1, <2>1, <2>2 DEF RunInv
<1>3. ASSUME NEW r \in Requests, Open(r) \/ Close(r)
      PROVE  RunInv'
  BY <1>1, <1>3, ContextKeeps
<1>4. ASSUME NEW r \in Requests, StartOp(r)
      PROVE  RunInv'
  BY <1>1, <1>4, StartKeeps
<1>5. ASSUME NEW r \in Requests, Wake(r)
      PROVE  RunInv'
  BY <1>1, <1>5, WakeKeeps
<1>6. ASSUME NEW r \in Requests, Succeed(r)
      PROVE  RunInv'
  BY <1>1, <1>6, SucceedKeeps
<1>7. ASSUME NEW r \in Requests, Fail(r)
      PROVE  RunInv'
  BY <1>1, <1>7, FailKeeps
<1>8. ASSUME NEW r \in Requests, TimeUp(r)
      PROVE  RunInv'
  BY <1>1, <1>8, TimeUpKeeps
<1>9. QED  BY <1>2, <1>3, <1>4, <1>5, <1>6, <1>7, <1>8 DEF RetryNext

\* The inductive invariant of the retry loop: every call but the one under way is
\* counted as an attempt of the retry context in use, that context is the request's
\* own unless the key is shared, and what was slept is within the sum of the delays
\* that its attempts allow (execute_with_retry).
THEOREM RetryInvariant == RetrySpec => []RunInv
BY RunInit, RunStep, PTL DEF RetrySpec

\* Every variable of the retry loop keeps its type.
THEOREM RetryTypesCorrect == RetrySpec => []RetryTypeOK
<1>1. RunInv => RetryTypeOK  BY DEF RunInv, Values, CountsOK, RetryTypeOK
<1>2. QED  BY <1>1, RetryInvariant, PTL

\* No operation is called more often than the retry context it found allows, whoever
\* shares it, nor more often than its own strategy says if no one shares its key
\* (max_attempts, should_retry).
THEOREM CallsAreBounded == RetrySpec => []CallsBounded
<1>1. RunInv => CallsBounded
  <2> SUFFICES ASSUME RunInv, NEW r \in Requests
               PROVE  /\ calls[r] <= IF object[r] \in OfFiveAttempts THEN 5 ELSE 3
                      /\ ~KeyShared(r) =>
                           calls[r] <= IF Strategy[r] = "high_availability" THEN 5 ELSE 3
    BY DEF CallsBounded
  <2>1. /\ calls[r] <= MaxAttempts(object[r]) /\ calls[r] \in Nat
        /\ object[r] \in Objects /\ MaxAttempts(object[r]) \in {3, 5} /\ Owned(r)
    BY ObjectTypes DEF RunInv, CallsOK, Values, CountsOK
  <2>2. MaxAttempts(object[r]) = IF object[r] \in OfFiveAttempts THEN 5 ELSE 3
    <3>1. PICK p \in Requests, kind \in {"filed", "default"} : object[r] = <<p, kind>>
      BY <2>1 DEF Objects
    <3>2. object[r] \in OfFiveAttempts <=> kind = "filed" /\ Strategy[p] = "high_availability"
      BY <3>1 DEF OfFiveAttempts, Filed
    <3>3. QED  BY <3>1, <3>2 DEF MaxAttempts
  <2>3. ASSUME ~KeyShared(r)
        PROVE  object[r] = Default(r) \/ object[r] = Filed(r)
    BY <2>1, <2>3 DEF Owned, KeyShared
  <2>4. /\ MaxAttempts(Default(r)) = 3
        /\ MaxAttempts(Filed(r)) = IF Strategy[r] = "high_availability" THEN 5 ELSE 3
    BY DEF MaxAttempts, Default, Filed
  <2>5. QED  BY <2>1, <2>2, <2>3, <2>4
<1>2. QED  BY <1>1, RetryInvariant, PTL

\* Backoff sleeps at most the sum of the delays of its strategy, and one delay more for
\* each later operation of the same context (calculate_delay).
THEOREM BackoffIsBounded == RetrySpec => []BackoffBounded
<1>1. RunInv => BackoffBounded
  <2> SUFFICES ASSUME RunInv, NEW r \in Requests, Retries(r), ~KeyShared(r), ops[r] > 0
               PROVE  slept[r] <= IF Strategy[r] = "high_availability"
                                  THEN 15000 + 8000 * (ops[r] - 1)
                                  ELSE 3000 + 2000 * (ops[r] - 1)
    BY DEF BackoffBounded
  <2> DEFINE a == attempt[Filed(r)]
             k == ops[r]
  <2>1. a \in Nat /\ k \in Nat /\ slept[r] \in Nat  BY ObjectTypes DEF RunInv, Values, CountsOK
  <2>2. slept[r] <= Allowed(r, a, k)  BY DEF RunInv, SleepOK
  <2> HIDE DEF a, k
  <2>3. slept[r] <= IF Strategy[r] = "high_availability"
                    THEN 15000 + 8000 * (k - 1)
                    ELSE 3000 + 2000 * (k - 1)
    BY <2>1, <2>2 DEF Allowed
  <2>4. QED  BY <2>3 DEF k
<1>2. QED  BY <1>1, RetryInvariant, PTL

\* The loop overruns the timeout of its context by less than one backoff delay.
THEOREM OverrunIsBounded == RetrySpec => []OverrunBounded
<1>1. RunInv => OverrunBounded  BY DEF RunInv, SleepOK, OverrunBounded
<1>2. QED  BY <1>1, RetryInvariant, PTL

=============================================================================
