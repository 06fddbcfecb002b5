---------------------------- MODULE RequestPath ----------------------------
(***************************************************************************)
(* A request on its way through the middlewares of foundry_agent_fastapi:  *)
(* inwards from the first of the stack to the route handler, and outwards  *)
(* again with a response or with an exception.                             *)
(*                                                                         *)
(* The handler, the CORS middleware and the server around the stack are    *)
(* external.  A correlation id is what the client sent, or a new one that  *)
(* a middleware made for a request.                                        *)
(***************************************************************************)
EXTENDS ErrorTaxonomy

CONSTANTS
    Requests,
    Stacks,          \* orders of the middlewares, the outermost first
    ClientIds,       \* the correlation ids that clients send
    LongIds,         \* those of more than 128 characters
    NoId,            \* no id, or an empty header
    Origins,         \* the origins of browsers
    DevOrigins,      \* the origins allowed by default
    Unset,           \* an environment variable that is not set, or is empty
    Registrations,   \* pairs of classes that the application may register
    Raised           \* the classes that a handler may raise

Layers == {"errors", "logging", "tracing", "cors"}

\* generate_correlation_id: twelve characters, no two the same here.
Generated(r, l) == <<r, l>>

ASSUME RequestPathAssumption ==
    /\ Stacks \subseteq Seq(Layers)
    /\ \A s \in Stacks : \A i, j \in DOMAIN s : s[i] = s[j] => i = j
    /\ LongIds \subseteq ClientIds
    /\ NoId \notin ClientIds
    /\ \A r \in Requests, l \in Layers : Generated(r, l) \notin LongIds \union {NoId}
    /\ DevOrigins \subseteq Origins
    /\ Unset \notin Origins
    /\ \A p \in Registrations : p[1] \in Classes /\ p[2] \in DomainErrors
    /\ Raised \subseteq Classes

VARIABLES
    stack,      \* the middlewares of the application
    corsEnv,    \* STRANDS_CORS_ORIGINS
    mappings,   \* _error_mappings of the translator
    registered, \* what has been registered, whatever of it was overwritten: history only
    sent,       \* the headers of each request
    pos,        \* how far it is: 0 outside, Len(stack) + 1 in the handler
    heading,    \* in, out or done
    own,        \* correlation_id of each dispatch
    stateId,    \* request.state.correlation_id
    result,     \* what the layer below has returned or raised
    failure,    \* what the handler has raised
    lines,      \* the log lines of each request
    attached    \* how many trace contexts it has attached

sharedVars == <<stack, corsEnv, mappings, registered>>
vars == <<sharedVars, sent, pos, heading, own, stateId, result, failure, lines, attached>>

Nothing == [kind |-> "nothing"]
NoFailure == "none"

Response(status, header, body, error) ==
    [kind |-> "response", status |-> status, header |-> header, body |-> body,
     error |-> error, cors |-> FALSE]

Exception(class) == [kind |-> "raised", class |-> class]

Sent == [correlation : ClientIds \union {NoId}, request : ClientIds \union {NoId},
         origin : Origins \union {Unset}, preflight : BOOLEAN]

Init ==
    /\ stack \in Stacks
    /\ corsEnv \in {Unset, {}, Origins}
    /\ mappings = DefaultMappings
    /\ registered = {}
    /\ sent \in [Requests -> {h \in Sent : h.preflight => h.origin # Unset}]
    /\ pos = [r \in Requests |-> 0]
    /\ heading = [r \in Requests |-> "in"]
    /\ own = [r \in Requests |-> [l \in Layers |-> NoId]]
    /\ stateId = [r \in Requests |-> NoId]
    /\ result = [r \in Requests |-> Nothing]
    /\ failure = [r \in Requests |-> NoFailure]
    /\ lines = [r \in Requests |-> <<>>]
    /\ attached = [r \in Requests |-> 0]

-----------------------------------------------------------------------------
(* Correlation ids.  Both middlewares have the same three lines.           *)

ClientId(h) == IF h.correlation # NoId THEN h.correlation ELSE h.request

\* A fault the checks must find: the headers are looked up in the other order.
IdOtherOrder(r, l) ==
    IF l = "logging" /\ sent[r].request # NoId THEN sent[r].request
    ELSE IF ClientId(sent[r]) # NoId THEN ClientId(sent[r]) ELSE Generated(r, l)

OwnId(r, l) == IF ClientId(sent[r]) # NoId THEN ClientId(sent[r]) ELSE Generated(r, l)

Log(r, layer, event, id, what) ==
    lines' = [lines EXCEPT ![r] = Append(@, [layer |-> layer, event |-> event,
                                             id |-> id, what |-> what])]

-----------------------------------------------------------------------------
(* Inwards.                                                                *)

At(r, dir, layer) ==
    /\ heading[r] = dir
    /\ pos[r] \in DOMAIN stack
    /\ stack[pos[r]] = layer

Inwards(r) == pos' = [pos EXCEPT ![r] = @ + 1] /\ UNCHANGED heading

Arrive(r) ==
    /\ heading[r] = "in"
    /\ pos[r] = 0
    /\ Inwards(r)
    /\ UNCHANGED <<sharedVars, sent, own, stateId, result, failure, lines, attached>>

Identify(r, l) ==
    /\ own' = [own EXCEPT ![r][l] = OwnId(r, l)]
    /\ stateId' = [stateId EXCEPT ![r] = OwnId(r, l)]

EnterErrors(r) ==
    /\ At(r, "in", "errors")
    /\ Identify(r, "errors")
    /\ Inwards(r)
    /\ UNCHANGED <<sharedVars, sent, result, failure, lines, attached>>

EnterLogging(r) ==
    /\ At(r, "in", "logging")
    /\ Identify(r, "logging")
    /\ Log(r, "logging", "started", OwnId(r, "logging"), NoFailure)
    /\ Inwards(r)
    /\ UNCHANGED <<sharedVars, sent, result, failure, attached>>

EnterTracing(r) ==
    /\ At(r, "in", "tracing")
    /\ attached' = [attached EXCEPT ![r] = @ + 1]
    /\ Inwards(r)
    /\ UNCHANGED <<sharedVars, sent, own, stateId, result, failure, lines>>

\* get_cors_origins, and the settings that are read like it
FromEnvironment(value, default) == IF value = Unset THEN default ELSE value

Allowed(r) == sent[r].origin \in FromEnvironment(corsEnv, DevOrigins)

Outwards(r, res) ==
    /\ pos' = [pos EXCEPT ![r] = @ - 1]
    /\ heading' = [heading EXCEPT ![r] = "out"]
    /\ result' = [result EXCEPT ![r] = res]

\* The CORS middleware answers a preflight by itself.
EnterCors(r) ==
    /\ At(r, "in", "cors")
    /\ \/ /\ sent[r].preflight
          /\ Outwards(r, [Response(IF Allowed(r) THEN 200 ELSE 400, NoId, NoId, NoFailure)
                            EXCEPT !.cors = Allowed(r)])
       \/ /\ ~sent[r].preflight
          /\ Inwards(r)
          /\ UNCHANGED result
    /\ UNCHANGED <<sharedVars, sent, own, stateId, failure, lines, attached>>

-----------------------------------------------------------------------------
(* The route handler.                                                      *)

InHandler(r) == heading[r] = "in" /\ pos[r] = Len(stack) + 1

Fails(r, class) ==
    /\ Outwards(r, Exception(class))
    /\ failure' = [failure EXCEPT ![r] = class]

\* It converts the answer of an agent with domain_response_to_api, for which an id of
\* too many characters is a ValidationError; health_check answers without an id; and
\* FastAPI answers what it refuses by itself.
HandlerReturns(r) ==
    /\ InHandler(r)
    /\ \/ stateId[r] \notin LongIds /\ Outwards(r, Response(200, NoId, stateId[r], NoFailure))
                                    /\ UNCHANGED failure
       \/ stateId[r] \in LongIds /\ Fails(r, "ValidationError")
       \/ \E status \in {200, 404, 422} :
             Outwards(r, Response(status, NoId, NoId, NoFailure)) /\ UNCHANGED failure
    /\ UNCHANGED <<sharedVars, sent, own, stateId, lines, attached>>

\* It raises, api_request_to_domain raises in it, or it is cancelled.
HandlerRaises(r) ==
    /\ InHandler(r)
    /\ \E class \in Raised : Fails(r, class)
    /\ UNCHANGED <<sharedVars, sent, own, stateId, lines, attached>>

-----------------------------------------------------------------------------
(* Outwards.                                                               *)

Failed(r) == result[r].kind = "raised"

WithHeader(r, l) ==
    IF Failed(r) THEN result[r] ELSE [result[r] EXCEPT !.header = own[r][l]]

\* _create_error_response: ErrorResponse refuses an id of too many characters, before
\* anything is logged.
CreateErrorResponse(r, error) ==
    IF own[r]["errors"] \in LongIds
    THEN Outwards(r, Exception("PydanticError")) /\ UNCHANGED lines
    ELSE /\ Outwards(r, Response(HttpStatus(error), own[r]["errors"], own[r]["errors"], error))
         /\ Log(r, "errors", "error", own[r]["errors"], error)

\* The exception is a domain error, is translated into one, or into an exception
\* of the translator itself.
LeaveErrors(r) ==
    /\ At(r, "out", "errors")
    /\ IF ~Failed(r) \/ ~Caught(result[r].class)
       THEN Outwards(r, WithHeader(r, "errors")) /\ UNCHANGED lines
       ELSE LET class == result[r].class
                error == IF class \in DomainErrors THEN class
                         ELSE TranslateError(mappings, class)
            IN  IF error \in DomainErrors THEN CreateErrorResponse(r, error)
                ELSE Outwards(r, Exception(error)) /\ UNCHANGED lines
    /\ UNCHANGED <<sharedVars, sent, own, stateId, failure, attached>>

LeaveLogging(r) ==
    /\ At(r, "out", "logging")
    /\ Outwards(r, WithHeader(r, "logging"))
    /\ IF ~Failed(r) THEN Log(r, "logging", "completed", own[r]["logging"], result[r].status)
       ELSE IF Caught(result[r].class)
       THEN Log(r, "logging", "failed", own[r]["logging"], result[r].class)
       ELSE UNCHANGED lines
    /\ UNCHANGED <<sharedVars, sent, own, stateId, failure, attached>>

\* A fault the checks must find: an exception leaves the context attached.
LeaveTracingCaught(r) ==
    /\ At(r, "out", "tracing")
    /\ attached' = [attached EXCEPT ![r] = IF Failed(r) THEN @ ELSE @ - 1]
    /\ Outwards(r, result[r])
    /\ UNCHANGED <<sharedVars, sent, own, stateId, failure, lines>>

LeaveTracing(r) ==
    /\ At(r, "out", "tracing")
    /\ attached' = [attached EXCEPT ![r] = @ - 1]
    /\ Outwards(r, result[r])
    /\ UNCHANGED <<sharedVars, sent, own, stateId, failure, lines>>

LeaveCors(r) ==
    /\ At(r, "out", "cors")
    /\ Outwards(r, IF Failed(r) THEN result[r]
                   ELSE [result[r] EXCEPT !.cors = Allowed(r)])
    /\ UNCHANGED <<sharedVars, sent, own, stateId, failure, lines, attached>>

\* The server answers an exception with a text of its own; a cancelled request gets
\* no answer.
Plain == Response(500, NoId, NoId, "plain")

Finish(r) ==
    /\ heading[r] = "out"
    /\ pos[r] = 0
    /\ heading' = [heading EXCEPT ![r] = "done"]
    /\ result' = [result EXCEPT ![r] = IF Failed(r) /\ Caught(@.class) THEN Plain ELSE @]
    /\ UNCHANGED <<sharedVars, sent, pos, own, stateId, failure, lines, attached>>

-----------------------------------------------------------------------------

\* register_error_mapping on the translator of the middleware.
Register ==
    /\ \E p \in Registrations :
          /\ mappings' = RegisterErrorMapping(mappings, p[1], p[2])
          /\ registered' = registered \union {p}
    /\ UNCHANGED <<stack, corsEnv, sent, pos, heading, own, stateId, result, failure,
                   lines, attached>>

Next ==
    \/ \E r \in Requests :
         \/ Arrive(r) \/ EnterErrors(r) \/ EnterLogging(r) \/ EnterTracing(r) \/ EnterCors(r)
         \/ HandlerReturns(r) \/ HandlerRaises(r)
         \/ LeaveErrors(r) \/ LeaveLogging(r) \/ LeaveTracing(r) \/ LeaveCors(r) \/ Finish(r)
    \/ Register

Spec == Init /\ [][Next]_vars

-----------------------------------------------------------------------------
(* Properties.                                                             *)

Done(r) == heading[r] = "done"

Has(layer) == \E i \in DOMAIN stack : stack[i] = layer

Answered(r) == Done(r) /\ ~Failed(r)

Lines(r, layer, events) == {i \in DOMAIN lines[r] : /\ lines[r][i].layer = layer
                                                    /\ lines[r][i].event \in events}

\* An error mapping was registered whose class cannot be made from a message alone.
Unconstructible == \E p \in registered : p[2] \in NeedsMore

ExpectedStatus(error) ==
    IF IsA(error, "ValidationError") THEN 400
    ELSE IF IsA(error, "ExternalServiceError") \/ IsA(error, "ConnectionError") THEN 502
    ELSE 500

\* ErrorHandlingMiddleware, wherever it is in the stack: what a handler raises
\* reaches the client as an envelope, with the status of its class and under an id
\* that a line of the log has together with the class.  The exceptions are a
\* client whose own id is too long and a mapping to a class that takes more than
\* a message: then the client gets the server's text and no line has the error.
ErrorsAnswered ==
    \A r \in Requests :
        Answered(r) /\ failure[r] # NoFailure /\ Has("errors") =>
            LET answer == result[r] IN
            IF answer = Plain
            THEN /\ ClientId(sent[r]) \in LongIds \/ Unconstructible
                 /\ Lines(r, "errors", {"error"}) = {}
            ELSE /\ answer.error \in DomainErrors
                 /\ \E i \in Lines(r, "errors", {"error"}) :
                       lines[r][i].id = answer.body /\ lines[r][i].what = answer.error
                 /\ registered = {} => answer.status = ExpectedStatus(failure[r])

\* Correlation ids: whatever leaves a middleware that has one carries it in its
\* header.  A client that sent an id finds it in the header and in the body, and the
\* log has no other.  For a client that sent none the header has the id of the
\* outermost middleware, the handler and the body of its answer that of the
\* innermost, and an envelope that of ErrorHandlingMiddleware: three that may differ.
IdsAgree ==
    \A r \in Requests :
        Answered(r) /\ result[r].error # "plain" /\ stateId[r] # NoId =>
            LET ids == {i \in DOMAIN stack : own[r][stack[i]] # NoId}
                outermost == CHOOSE i \in ids : \A j \in ids : i <= j
                innermost == CHOOSE i \in ids : \A j \in ids : j <= i
            IN  /\ result[r].header = own[r][stack[outermost]]
                /\ stateId[r] = own[r][stack[innermost]]
                /\ result[r].body \in {NoId, IF result[r].error = NoFailure THEN stateId[r]
                                             ELSE own[r]["errors"]}
                /\ ClientId(sent[r]) # NoId =>
                      /\ result[r].header = ClientId(sent[r])
                      /\ result[r].body \in {NoId, ClientId(sent[r])}
                      /\ \A i \in DOMAIN lines[r] : lines[r][i].id = ClientId(sent[r])

\* A request leaves as it came: its trace contexts are detached, and the line that
\* says that it started is followed by one that says how it ended, with the status
\* that the client gets unless a middleware further out answers an exception.  Only
\* a request that is cancelled has no second line.
RequestsAccounted ==
    \A r \in Requests :
        Done(r) =>
            /\ attached[r] = 0
            /\ LET started == Lines(r, "logging", {"started"})
                   ended == Lines(r, "logging", {"completed", "failed"})
               IN  /\ own[r]["logging"] # NoId <=> started = {1}
                   /\ Answered(r) /\ started # {} => \E i \in ended : ended = {i} /\ i > 1
                   /\ ~Answered(r) => ended = {}
                   /\ \A i \in ended : lines[r][i].event = "completed" =>
                         lines[r][i].what = result[r].status

=============================================================================
