-------------------------- MODULE RequestLifecycle --------------------------
(***************************************************************************)
(* The table of execution contexts kept by RequestLifecycleManager.        *)
(*                                                                         *)
(* create_execution_context files a request's context, and for the         *)
(* RESILIENT and HIGH_AVAILABILITY strategies a retry context, under the   *)
(* key "query_<milliseconds>".  The key is the reading of the wall clock   *)
(* when the context is opened and nothing else, so two requests opened in  *)
(* the same millisecond share it: the later one replaces the earlier one   *)
(* in the dictionary, and whichever closes first removes the other's       *)
(* entry.                                                                  *)
(*                                                                         *)
(* A dictionary is modelled by the set of the requests it holds: the       *)
(* requests in the set have distinct keys.                                 *)
(***************************************************************************)
CONSTANTS
    Requests,   \* the requests that may open a context
    Instants,   \* the millisecond readings of the clock (it may repeat or step back)
    Strategy    \* the execution strategy of each request

NoInstant == 0  \* the clock reading of a request that has opened nothing

Strategies == {"standard", "resilient", "high_availability"}

ASSUME LifecycleAssumption ==
    /\ NoInstant \notin Instants
    /\ Strategy \in [Requests -> Strategies]

VARIABLES
    openContexts,    \* _active_contexts: the requests whose context it holds
    retryContexts,   \* _retry_contexts: the requests whose retry context it holds
    openedAt         \* the key of each request's context

lifecycleVars == <<openContexts, retryContexts, openedAt>>

-----------------------------------------------------------------------------

Retries(r) == Strategy[r] \in {"resilient", "high_availability"}

\* The entries of table that are not filed under the key ms.
Without(table, ms) == {p \in table : openedAt[p] # ms}

LifecycleInit ==
    /\ openContexts = {}
    /\ retryContexts = {}
    /\ openedAt = [r \in Requests |-> NoInstant]

\* create_execution_context, up to its yield.
OpenContext(r) ==
    \E ms \in Instants :
        /\ openedAt' = [openedAt EXCEPT ![r] = ms]
        /\ openContexts' = Without(openContexts, ms) \union {r}
        /\ retryContexts' = IF Retries(r)
                            THEN Without(retryContexts, ms) \union {r}
                            ELSE retryContexts

\* A fault the checks must find: the retry context is not unfiled.
CloseContextOnly(r) ==
    /\ openContexts' = Without(openContexts, openedAt[r])
    /\ UNCHANGED <<retryContexts, openedAt>>

\* The finally clause of create_execution_context.
CloseContext(r) ==
    /\ openContexts' = Without(openContexts, openedAt[r])
    /\ retryContexts' = Without(retryContexts, openedAt[r])
    /\ UNCHANGED openedAt

LifecycleTypeOK ==
    /\ openContexts \subseteq Requests
    /\ retryContexts \subseteq Requests
    /\ openedAt \in [Requests -> Instants \union {NoInstant}]

=============================================================================
