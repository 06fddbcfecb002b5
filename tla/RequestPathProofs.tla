------------------------- MODULE RequestPathProofs -------------------------
(***************************************************************************)
(* Proofs about RequestPath, for any requests, stacks of middlewares,      *)
(* headers, registered mappings and classes that a handler may raise.      *)
(*                                                                         *)
(* The invariant follows a request by where it is: on the way in nothing   *)
(* has been answered, and the middlewares entered are those before its     *)
(* place; on the way out, what it carries is described by which of         *)
(* ErrorHandlingMiddleware and LoggingMiddleware it has passed.  No part   *)
(* of it depends on the order of the stack, and the steps of one request   *)
(* keep it for the others.                                                 *)
(***************************************************************************)
EXTENDS RequestPath, ErrorTaxonomyProofs

-----------------------------------------------------------------------------
(* The values of the variables.                                            *)

\* Correlation ids.
Ids == ClientIds \union {NoId} \union {Generated(r, l) : r \in Requests, l \in Layers}

\* Responses of the handler, of the middlewares and of the server.
Responses == [kind : {"response"}, status : {200, 400, 404, 422, 500, 502}, header : Ids,
              body : Ids, error : Classes \union {NoFailure, "plain"}, cors : BOOLEAN]

Results == Responses \union {Exception(c) : c \in Classes} \union {Nothing}

\* Lines of the log.
LineRecords == [layer : {"errors"}, event : {"error"}, id : Ids, what : Classes]
         \union [layer : {"logging"}, event : {"started"}, id : Ids, what : {NoFailure}]
         \union [layer : {"logging"}, event : {"completed"}, id : Ids,
                 what : {200, 400, 404, 422, 500, 502}]
         \union [layer : {"logging"}, event : {"failed"}, id : Ids, what : Classes]

PathTypeOK ==
    /\ stack \in Stacks
    /\ corsEnv \in {Unset, {}, Origins}
    /\ sent \in [Requests -> Sent]
    /\ pos \in [Requests -> Nat]
    /\ heading \in [Requests -> {"in", "out", "done"}]
    /\ own \in [Requests -> [Layers -> Ids]]
    /\ stateId \in [Requests -> Ids]
    /\ result \in [Requests -> Results]
    /\ failure \in [Requests -> Classes \union {NoFailure}]
    /\ lines \in [Requests -> Seq(LineRecords)]
    /\ attached \in [Requests -> {0, 1}]

\* The mappings are to domain errors, and come from the code or from registrations.
TranslatorOK ==
    /\ \A c \in DOMAIN mappings : mappings[c] \in DomainErrors
    /\ registered \subseteq Registrations
    /\ registered = {} => mappings = DefaultMappings
    /\ \A c \in DOMAIN mappings : mappings[c] \in NeedsMore => Unconstructible

-----------------------------------------------------------------------------
(* The invariant.                                                          *)

\* The middlewares that read a correlation id and keep it.
Identifying == {"errors", "logging"}

\* Where the request is: a middleware has an id from when it is entered.
PlaceOK(r) ==
    /\ pos[r] <= Len(stack) + 1
    /\ heading[r] = "in" =>
          \A i \in DOMAIN stack : own[r][stack[i]] # NoId <=> i < pos[r] /\ stack[i] \in Identifying
    /\ heading[r] # "in" =>
          /\ pos[r] <= Len(stack)
          /\ \A i \in DOMAIN stack :
                i <= pos[r] /\ stack[i] \in Identifying => own[r][stack[i]] # NoId
    /\ heading[r] = "done" => pos[r] = 0
    /\ attached[r] = IF \E i \in DOMAIN stack : /\ stack[i] = "tracing"
                                                /\ i < pos[r] \/ (heading[r] # "in" /\ i = pos[r])
                     THEN 1 ELSE 0

\* The ids that the middlewares have, and the one that the handler reads.
IdsOK(r) ==
    LET ids == {i \in DOMAIN stack : own[r][stack[i]] # NoId} IN
    /\ \A l \in Layers : own[r][l] \in {NoId, OwnId(r, l)}
    /\ \A l \in Layers : own[r][l] # NoId => l \in Identifying /\ Has(l)
    /\ ids = {} => stateId[r] = NoId
    /\ \A i \in ids : (\A j \in ids : j <= i) => stateId[r] = own[r][stack[i]]
    /\ ClientId(sent[r]) # NoId => \A i \in DOMAIN lines[r] : lines[r][i].id = ClientId(sent[r])

\* The request has been in middleware l and has left it.
Passed(r, l) == /\ heading[r] # "in"
                /\ \E i \in DOMAIN stack : stack[i] = l /\ i > pos[r]
                /\ own[r][l] # NoId

\* The header of a response is the id of the outermost middleware that it has left.
HeaderOK(r) ==
    LET left == {i \in DOMAIN stack : i > pos[r] /\ own[r][stack[i]] # NoId} IN
    /\ left = {} => result[r].header = NoId
    /\ \A i \in left : (\A j \in left : i <= j) => result[r].header = own[r][stack[i]]

\* A response is one of the handler, or the envelope of its failure.
AnswerOK(r) ==
    /\ result[r].error = NoFailure <=> failure[r] = NoFailure
    /\ result[r].body \in {NoId, IF result[r].error = NoFailure THEN stateId[r]
                                 ELSE own[r]["errors"]}
    /\ result[r].error # NoFailure =>
          /\ Passed(r, "errors")
          /\ result[r].error \in DomainErrors
          /\ \E i \in Lines(r, "errors", {"error"}) :
                 lines[r][i].id = result[r].body /\ lines[r][i].what = result[r].error
          /\ registered = {} => result[r].status = ExpectedStatus(failure[r])

\* What the translator and the envelope cannot be made for.
Excused(r) == ClientId(sent[r]) \in LongIds \/ Unconstructible

\* An exception is that of the handler, unless ErrorHandlingMiddleware has failed itself.
FailedOK(r) ==
    /\ failure[r] # NoFailure
    /\ Caught(result[r].class) <=> Caught(failure[r])
    /\ IF Passed(r, "errors") /\ Caught(failure[r]) THEN Excused(r)
       ELSE result[r] = Exception(failure[r])
    /\ Lines(r, "errors", {"error"}) = {}

\* The server's own answer.
PlainOK(r) ==
    /\ failure[r] # NoFailure /\ Caught(failure[r])
    /\ Has("errors") => Excused(r)
    /\ Lines(r, "errors", {"error"}) = {}

\* What the request carries outwards.
ResultOK(r) ==
    /\ heading[r] = "in" => result[r] = Nothing /\ failure[r] = NoFailure
    /\ heading[r] # "in" => result[r] # Nothing
    /\ failure[r] # NoFailure => \A l \in Identifying : Has(l) => own[r][l] # NoId
    /\ heading[r] = "done" /\ Failed(r) => ~Caught(result[r].class)
    /\ heading[r] = "out" => result[r] # Plain
    /\ result[r] \in Responses /\ result[r] # Plain => HeaderOK(r) /\ AnswerOK(r)
    /\ Failed(r) => FailedOK(r)
    /\ result[r] = Plain => PlainOK(r)

\* The lines of the log.
LinesOK(r) ==
    LET ended == Lines(r, "logging", {"completed", "failed"}) IN
    /\ heading[r] = "in" /\ own[r]["logging"] = NoId => lines[r] = <<>>
    /\ Lines(r, "logging", {"started"}) = IF own[r]["logging"] # NoId THEN {1} ELSE {}
    /\ ~Passed(r, "errors") => Lines(r, "errors", {"error"}) = {}
    /\ ~Passed(r, "logging") => ended = {}
    /\ Passed(r, "logging") =>
          IF Failed(r) /\ ~Caught(result[r].class) THEN ended = {}
          ELSE \E i \in ended : ended = {i} /\ i > 1
    /\ \A i \in ended : lines[r][i].event = "completed" =>
          result[r] # Plain /\ result[r] \in Responses /\ lines[r][i].what = result[r].status

\* All that the invariant says of one request.
RequestOK(r) == PlaceOK(r) /\ IdsOK(r) /\ ResultOK(r) /\ LinesOK(r)

PathInv ==
    /\ PathTypeOK
    /\ TranslatorOK
    /\ \A r \in Requests : RequestOK(r)

-----------------------------------------------------------------------------
(* Facts that the steps share.                                             *)

\* A step leaves a request alone.
Same(q) ==
    /\ pos'[q] = pos[q] /\ heading'[q] = heading[q]
    /\ own'[q] = own[q] /\ stateId'[q] = stateId[q]
    /\ result'[q] = result[q] /\ failure'[q] = failure[q]
    /\ lines'[q] = lines[q] /\ attached'[q] = attached[q]

\* A stack has each middleware at most once.
LEMMA StackIsSequence ==
    ASSUME PathTypeOK
    PROVE  /\ stack \in Seq(Layers)
           /\ \A i, j \in DOMAIN stack : stack[i] = stack[j] => i = j
BY RequestPathAssumption DEF PathTypeOK

\* An id is the client's if it sent one, and is never empty; a made one is not too long.
LEMMA OwnIds ==
    ASSUME PathTypeOK, NEW r \in Requests, NEW l \in Layers
    PROVE  /\ OwnId(r, l) \in Ids /\ OwnId(r, l) # NoId
           /\ OwnId(r, l) \in LongIds => ClientId(sent[r]) \in LongIds
           /\ ClientId(sent[r]) # NoId => OwnId(r, l) = ClientId(sent[r])
<1>1. ClientId(sent[r]) \in ClientIds \union {NoId}  BY DEF PathTypeOK, Sent, ClientId
<1>2. Generated(r, l) \notin LongIds \union {NoId}  BY RequestPathAssumption
<1>3. Generated(r, l) \in Ids  BY DEF Ids
<1>4. QED  BY <1>1, <1>2, <1>3 DEF OwnId, Ids

\* A step of the translator, or of another request.
LEMMA OthersKeep ==
    ASSUME PathInv, NEW q \in Requests, Same(q), stack' = stack, sent' = sent,
           registered \subseteq registered'
    PROVE  RequestOK(q)'
<1>1. PlaceOK(q)'  BY DEF PathInv, RequestOK, Same, PlaceOK
<1>2. IdsOK(q)'  BY DEF PathInv, RequestOK, Same, IdsOK, OwnId, ClientId, Has
<1>3. Unconstructible => Unconstructible'  BY DEF Unconstructible
<1>4. registered' = {} => registered = {}  OBVIOUS
<1>5. ResultOK(q)'
  BY <1>3, <1>4
     DEF PathInv, RequestOK, Same, ResultOK, HeaderOK, AnswerOK, FailedOK, PlainOK,
         Excused, Failed, Has, Passed, Lines, ClientId
<1>6. LinesOK(q)'  BY DEF PathInv, RequestOK, Same, LinesOK, Passed, Lines, Failed
<1>7. QED  BY <1>1, <1>2, <1>5, <1>6 DEF RequestOK

\* To keep the invariant, a step of one request has to keep it for that request.
LEMMA OneRequest ==
    ASSUME PathInv, NEW r \in Requests, UNCHANGED <<sharedVars, sent>>, PathTypeOK',
           \A q \in Requests \ {r} : Same(q), RequestOK(r)'
    PROVE  PathInv'
<1>1. TranslatorOK'
  BY DEF PathInv, TranslatorOK, sharedVars, Unconstructible
<1>2. ASSUME NEW q \in Requests  PROVE RequestOK(q)'
  <2>1. CASE q = r  BY <2>1
  <2>2. CASE q # r  BY <2>2, OthersKeep DEF sharedVars
  <2>3. QED  BY <2>1, <2>2
<1>3. QED  BY <1>1, <1>2 DEF PathInv

-----------------------------------------------------------------------------
(* The translator, and the way in.                                         *)

\* register_error_mapping: a mapping that cannot be used has been registered.
LEMMA RegisterKeeps ==
    ASSUME PathInv, Register
    PROVE  PathInv'
<1>1. PICK p \in Registrations : /\ mappings' = RegisterErrorMapping(mappings, p[1], p[2])
                                 /\ registered' = registered \union {p}
  BY DEF Register
<1>2. p[1] \in Classes /\ p[2] \in DomainErrors  BY RequestPathAssumption
<1>3. TranslatorOK'
  BY <1>1, <1>2 DEF PathInv, TranslatorOK, RegisterErrorMapping, Unconstructible
<1>4. PathTypeOK'  BY DEF PathInv, PathTypeOK, Register
<1>5. ASSUME NEW q \in Requests  PROVE RequestOK(q)'
  BY <1>1, OthersKeep DEF Register, Same
<1>6. QED  BY <1>3, <1>4, <1>5 DEF PathInv

\* A request comes to the first middleware.
LEMMA ArriveKeeps ==
    ASSUME PathInv, NEW r \in Requests, Arrive(r)
    PROVE  PathInv'
<1>1. PathTypeOK /\ RequestOK(r)  BY DEF PathInv
<1> USE DEF Arrive, Inwards
<1>2. PathTypeOK'  BY <1>1 DEF PathTypeOK, sharedVars
<1>3. ASSUME NEW q \in Requests \ {r}  PROVE Same(q)  BY <1>1 DEF Same, PathTypeOK
<1>4. /\ pos'[r] = 1 /\ pos[r] = 0
      /\ heading'[r] = "in" /\ heading[r] = "in"
      /\ UNCHANGED <<sharedVars, sent, own, stateId, result, failure, lines, attached>>
      /\ \A i \in DOMAIN stack : i >= 1 /\ i \in Nat
      /\ Len(stack) \in Nat
  BY <1>1, StackIsSequence DEF PathTypeOK
<1>5. PlaceOK(r)'  BY <1>1, <1>4 DEF RequestOK, PlaceOK, sharedVars
<1>6. IdsOK(r)'  BY <1>1, <1>4 DEF RequestOK, IdsOK, sharedVars, OwnId, ClientId, Has
<1>7. ResultOK(r)'
  BY <1>1, <1>4
     DEF RequestOK, ResultOK, sharedVars, Failed, Nothing, Responses, Plain, Response
<1>8. LinesOK(r)'
  BY <1>1, <1>4 DEF RequestOK, LinesOK, sharedVars, Lines, Failed, Passed
<1>9. QED  BY <1>2, <1>3, <1>4, <1>5, <1>6, <1>7, <1>8, OneRequest DEF RequestOK

\* On the way in nothing has been answered.
LEMMA NothingYet ==
    ASSUME NEW r \in Requests, heading'[r] = "in", result'[r] = Nothing, failure'[r] = NoFailure
    PROVE  ResultOK(r)'
BY DEF ResultOK, Failed, Nothing, Responses, Plain, Response

\* What a middleware finds on the way in: it has not seen this request.
LEMMA InwardsState ==
    ASSUME PathInv, NEW r \in Requests, NEW l \in Layers, At(r, "in", l)
    PROVE  /\ pos[r] \in DOMAIN stack /\ stack[pos[r]] = l /\ heading[r] = "in"
           /\ pos[r] \in Nat /\ Len(stack) \in Nat /\ DOMAIN stack = 1..Len(stack)
           /\ \A i \in DOMAIN stack : stack[i] \in Layers
           /\ \A i \in DOMAIN stack : stack[i] = l => i = pos[r]
           /\ result[r] = Nothing /\ failure[r] = NoFailure
           /\ own[r][l] = NoId
           /\ \A i \in DOMAIN stack : own[r][stack[i]] # NoId => i < pos[r]
           /\ l = "tracing" => attached[r] = 0
<1>1. PathTypeOK /\ RequestOK(r)  BY DEF PathInv
<1>2. /\ pos[r] \in DOMAIN stack /\ stack[pos[r]] = l /\ heading[r] = "in"
      /\ pos[r] \in Nat /\ Len(stack) \in Nat /\ DOMAIN stack = 1..Len(stack)
      /\ \A i \in DOMAIN stack : stack[i] \in Layers
      /\ \A i \in DOMAIN stack : stack[i] = l => i = pos[r]
  BY <1>1, StackIsSequence DEF At, PathTypeOK
<1>3. QED  BY <1>1, <1>2 DEF RequestOK, ResultOK, PlaceOK

\* ErrorHandlingMiddleware reads or makes an id.
LEMMA EnterErrorsKeeps ==
    ASSUME PathInv, NEW r \in Requests, EnterErrors(r)
    PROVE  PathInv'
<1>1. PathTypeOK /\ RequestOK(r) /\ At(r, "in", "errors")  BY DEF PathInv, EnterErrors
<1> DEFINE id == OwnId(r, "errors")
<1>2. /\ id \in Ids /\ id # NoId /\ "errors" \in Layers
      /\ ClientId(sent[r]) # NoId => id = ClientId(sent[r])
  BY <1>1, OwnIds DEF Layers
<1> USE DEF EnterErrors, Inwards, Identify
<1> HIDE DEF id
<1>3. PathTypeOK'  BY <1>1, <1>2 DEF PathTypeOK, sharedVars, id
<1>4. ASSUME NEW q \in Requests \ {r}  PROVE Same(q)  BY <1>1 DEF Same, PathTypeOK
<1>5. /\ UNCHANGED <<sharedVars, sent, result, failure, lines, attached>>
      /\ pos'[r] = pos[r] + 1 /\ heading'[r] = heading[r]
      /\ own'[r] = [own[r] EXCEPT !["errors"] = id] /\ stateId'[r] = id
      /\ own'[r]["errors"] = id /\ \A l \in Layers \ {"errors"} : own'[r][l] = own[r][l]
  BY <1>1, <1>2 DEF PathTypeOK, id
<1>6. PlaceOK(r)'
  BY <1>1, <1>2, <1>5, InwardsState DEF RequestOK, PlaceOK, sharedVars, Identifying
<1>7. IdsOK(r)'
  BY <1>1, <1>2, <1>5, InwardsState
     DEF RequestOK, IdsOK, sharedVars, Identifying, Has, OwnId, ClientId, id
<1>8. ResultOK(r)'  BY <1>1, <1>2, <1>5, InwardsState, NothingYet
<1>9. LinesOK(r)'
  BY <1>1, <1>2, <1>5, InwardsState
     DEF RequestOK, LinesOK, sharedVars, Lines, Failed, Passed, Layers
<1>10. QED  BY <1>3, <1>4, <1>5, <1>6, <1>7, <1>8, <1>9, OneRequest DEF RequestOK

\* LoggingMiddleware reads or makes an id, and writes the first line.
LEMMA EnterLoggingKeeps ==
    ASSUME PathInv, NEW r \in Requests, EnterLogging(r)
    PROVE  PathInv'
<1>1. PathTypeOK /\ RequestOK(r) /\ At(r, "in", "logging")  BY DEF PathInv, EnterLogging
<1> DEFINE id == OwnId(r, "logging")
           line == [layer |-> "logging", event |-> "started", id |-> id, what |-> NoFailure]
<1>2. /\ id \in Ids /\ id # NoId /\ "logging" \in Layers
      /\ ClientId(sent[r]) # NoId => id = ClientId(sent[r])
  BY <1>1, OwnIds DEF Layers
<1> USE DEF EnterLogging, Inwards, Identify, Log
<1> HIDE DEF id
<1>3. line \in LineRecords /\ lines' = [lines EXCEPT ![r] = Append(@, line)]
  BY <1>2 DEF LineRecords, id
<1>4. PathTypeOK'  BY <1>1, <1>2, <1>3 DEF PathTypeOK, sharedVars, id
<1>5. ASSUME NEW q \in Requests \ {r}  PROVE Same(q)  BY <1>1 DEF Same, PathTypeOK
<1>6. lines[r] = <<>>
  BY <1>1, <1>2, InwardsState DEF RequestOK, LinesOK
<1>7. /\ UNCHANGED <<sharedVars, sent, result, failure, attached>>
      /\ pos'[r] = pos[r] + 1 /\ heading'[r] = heading[r]
      /\ own'[r] = [own[r] EXCEPT !["logging"] = id] /\ stateId'[r] = id
      /\ own'[r]["logging"] = id /\ \A l \in Layers \ {"logging"} : own'[r][l] = own[r][l]
      /\ lines'[r] = <<line>>
  BY <1>1, <1>2, <1>3, <1>6 DEF PathTypeOK, id
<1>8. PlaceOK(r)'
  BY <1>1, <1>2, <1>7, InwardsState DEF RequestOK, PlaceOK, sharedVars, Identifying
<1>9. IdsOK(r)'
  BY <1>1, <1>2, <1>7, InwardsState
     DEF RequestOK, IdsOK, sharedVars, Identifying, Has, OwnId, ClientId, id
<1>10. ResultOK(r)'  BY <1>1, <1>2, <1>7, InwardsState, NothingYet
<1>11. LinesOK(r)'
  BY <1>1, <1>2, <1>7, InwardsState
     DEF RequestOK, LinesOK, sharedVars, Lines, Failed, Passed, Layers
<1>12. QED  BY <1>4, <1>5, <1>7, <1>8, <1>9, <1>10, <1>11, OneRequest DEF RequestOK

\* TracingMiddleware attaches a context, the only one.
LEMMA EnterTracingKeeps ==
    ASSUME PathInv, NEW r \in Requests, EnterTracing(r)
    PROVE  PathInv'
<1>1. PathTypeOK /\ RequestOK(r) /\ At(r, "in", "tracing")  BY DEF PathInv, EnterTracing
<1> USE DEF EnterTracing, Inwards
<1>2. "tracing" \in Layers  BY DEF Layers
<1>3. attached[r] = 0  BY <1>1, <1>2, InwardsState
<1>4. PathTypeOK'  BY <1>1, <1>3 DEF PathTypeOK, sharedVars
<1>5. ASSUME NEW q \in Requests \ {r}  PROVE Same(q)  BY <1>1 DEF Same, PathTypeOK
<1>6. /\ UNCHANGED <<sharedVars, sent, own, stateId, result, failure, lines>>
      /\ pos'[r] = pos[r] + 1 /\ heading'[r] = heading[r] /\ attached'[r] = 1
  BY <1>1, <1>3 DEF PathTypeOK
<1>7. PlaceOK(r)'
  BY <1>1, <1>2, <1>6, InwardsState DEF RequestOK, PlaceOK, sharedVars, Identifying
<1>8. IdsOK(r)'
  BY <1>1, <1>6 DEF RequestOK, IdsOK, sharedVars, Has, OwnId, ClientId
<1>9. ResultOK(r)'  BY <1>1, <1>2, <1>6, InwardsState, NothingYet
<1>10. LinesOK(r)'
  BY <1>1, <1>2, <1>6, InwardsState
     DEF RequestOK, LinesOK, sharedVars, Lines, Failed, Passed
<1>11. QED  BY <1>4, <1>5, <1>6, <1>7, <1>8, <1>9, <1>10, OneRequest DEF RequestOK

\* CORSMiddleware goes on, or answers a preflight and turns the request back.
LEMMA EnterCorsKeeps ==
    ASSUME PathInv, NEW r \in Requests, EnterCors(r)
    PROVE  PathInv'
<1>1. PathTypeOK /\ RequestOK(r) /\ At(r, "in", "cors")  BY DEF PathInv, EnterCors
<1> DEFINE answer == [Response(IF Allowed(r) THEN 200 ELSE 400, NoId, NoId, NoFailure)
                        EXCEPT !.cors = Allowed(r)]
<1>2. "cors" \in Layers  BY DEF Layers
<1>3. /\ UNCHANGED <<sharedVars, sent, own, stateId, failure, lines, attached>>
  BY DEF EnterCors
<1>4. CASE ~sent[r].preflight
  <2>1. Inwards(r) /\ result' = result  BY <1>4 DEF EnterCors
  <2> USE DEF Inwards
  <2>2. PathTypeOK'  BY <1>1, <1>3, <2>1 DEF PathTypeOK, sharedVars
  <2>3. ASSUME NEW q \in Requests \ {r}  PROVE Same(q)  BY <1>1, <1>3, <2>1
                                                           DEF Same, PathTypeOK
  <2>4. pos'[r] = pos[r] + 1 /\ heading'[r] = heading[r]  BY <1>1, <2>1 DEF PathTypeOK
  <2>5. PlaceOK(r)'
    BY <1>1, <1>2, <1>3, <2>4, InwardsState DEF RequestOK, PlaceOK, sharedVars, Identifying
  <2>6. IdsOK(r)'  BY <1>1, <1>3 DEF RequestOK, IdsOK, sharedVars, Has, OwnId, ClientId
  <2>7. ResultOK(r)'  BY <1>1, <1>2, <1>3, <2>1, <2>4, InwardsState, NothingYet
  <2>8. LinesOK(r)'
    BY <1>1, <1>2, <1>3, <2>1, <2>4, InwardsState
       DEF RequestOK, LinesOK, sharedVars, Lines, Failed, Passed
  <2>9. QED  BY <1>3, <2>2, <2>3, <2>5, <2>6, <2>7, <2>8, OneRequest DEF RequestOK
<1>5. CASE sent[r].preflight
  <2>1. Outwards(r, answer)  BY <1>5 DEF EnterCors
  <2>2. /\ answer \in Responses /\ answer.header = NoId /\ answer.body = NoId
        /\ answer.error = NoFailure /\ answer # Nothing /\ answer # Plain
        /\ answer.kind = "response"
    <3>1. Allowed(r) \in BOOLEAN  BY DEF Allowed
    <3>2. /\ answer.kind = "response" /\ answer.status \in {200, 400}
          /\ answer.header = NoId /\ answer.body = NoId /\ answer.error = NoFailure
          /\ answer.cors \in BOOLEAN
          /\ answer = [kind |-> "response", status |-> answer.status, header |-> NoId,
                       body |-> NoId, error |-> NoFailure, cors |-> answer.cors]
      BY <3>1 DEF Response
    <3>3. answer # Plain  BY <3>2 DEF Plain, Response, NoFailure
    <3>4. answer # Nothing  BY <3>2 DEF Nothing
    <3>5. answer \in Responses  BY <3>2 DEF Responses, Ids
    <3>6. QED  BY <3>2, <3>3, <3>4, <3>5
  <2> HIDE DEF answer
  <2>3. PathTypeOK'
    BY <1>1, <1>2, <1>3, <2>1, <2>2, InwardsState
       DEF PathTypeOK, sharedVars, Outwards, Results
  <2>4. ASSUME NEW q \in Requests \ {r}  PROVE Same(q)
    BY <1>1, <1>3, <2>1 DEF Same, PathTypeOK, Outwards
  <2>5. pos'[r] = pos[r] - 1 /\ heading'[r] = "out" /\ result'[r] = answer
    BY <1>1, <2>1 DEF PathTypeOK, Outwards
  <2>6. PlaceOK(r)'
    BY <1>1, <1>2, <1>3, <2>5, InwardsState DEF RequestOK, PlaceOK, sharedVars, Identifying
  <2>7. IdsOK(r)'  BY <1>1, <1>3 DEF RequestOK, IdsOK, sharedVars, Has, OwnId, ClientId
  <2>8. ResultOK(r)'
    BY <1>1, <1>2, <1>3, <2>2, <2>5, InwardsState
       DEF RequestOK, ResultOK, HeaderOK, AnswerOK, sharedVars, Failed, Identifying, Layers
  <2>9. LinesOK(r)'
    BY <1>1, <1>2, <1>3, <2>2, <2>5, InwardsState
       DEF RequestOK, LinesOK, sharedVars, Lines, Failed, Passed
  <2>10. QED  BY <1>3, <2>3, <2>4, <2>6, <2>7, <2>8, <2>9, OneRequest DEF RequestOK
<1>6. QED  BY <1>4, <1>5

-----------------------------------------------------------------------------
(* The handler.                                                            *)

\* A response of the code is one, and neither the server's text nor nothing.
LEMMA ResponseValues ==
    ASSUME NEW status \in {200, 400, 404, 422, 500, 502}, NEW header \in Ids, NEW body \in Ids,
           NEW error \in Classes \union {NoFailure}
    PROVE  LET answer == Response(status, header, body, error) IN
           /\ answer \in Responses /\ answer # Plain /\ answer # Nothing
           /\ answer.kind = "response" /\ answer.status = status /\ answer.header = header
           /\ answer.body = body /\ answer.error = error
<1> DEFINE answer == Response(status, header, body, error)
<1>1. "plain" \notin Classes \union {NoFailure}
  BY DEF Classes, CoreParent, ServiceParent, ConfigParent, ForeignParent, NoFailure
<1>2. /\ answer.kind = "response" /\ answer.status = status /\ answer.header = header
      /\ answer.body = body /\ answer.error = error
  BY DEF Response
<1>3. answer # Plain
  <2>1. Plain.error = "plain"  BY DEF Plain, Response
  <2>2. QED  BY <1>1, <1>2, <2>1
<1>4. answer # Nothing
  <2>1. Nothing.kind = "nothing"  BY DEF Nothing
  <2>2. QED  BY <1>2, <2>1
<1>5. answer \in Responses  BY DEF Response, Responses
<1>6. QED  BY <1>2, <1>3, <1>4, <1>5

\* An exception is no response.
LEMMA RaisedValues ==
    ASSUME NEW class \in Classes
    PROVE  LET raised == Exception(class) IN
           /\ class # NoFailure
           /\ raised.kind = "raised" /\ raised.class = class
           /\ raised # Nothing /\ raised # Plain /\ raised \notin Responses
<1> DEFINE raised == Exception(class)
<1>1. class # NoFailure
  BY DEF Classes, CoreParent, ServiceParent, ConfigParent, ForeignParent, NoFailure
<1>2. raised.kind = "raised" /\ raised.class = class  BY DEF Exception
<1>3. Nothing.kind = "nothing" /\ Plain.kind = "response"  BY DEF Nothing, Plain, Response
<1>4. \A x \in Responses : x.kind = "response"  BY DEF Responses
<1>5. QED  BY <1>1, <1>2, <1>3, <1>4

\* What the handler finds: every middleware of the stack has been entered.
LEMMA HandlerState ==
    ASSUME PathInv, NEW r \in Requests, InHandler(r)
    PROVE  /\ pos[r] = Len(stack) + 1 /\ heading[r] = "in"
           /\ Len(stack) \in Nat /\ DOMAIN stack = 1..Len(stack)
           /\ \A i \in DOMAIN stack : stack[i] \in Layers
           /\ result[r] = Nothing /\ failure[r] = NoFailure
           /\ \A i \in DOMAIN stack : stack[i] \in Identifying => own[r][stack[i]] # NoId
<1>1. PathTypeOK /\ RequestOK(r)  BY DEF PathInv
<1>2. /\ pos[r] = Len(stack) + 1 /\ heading[r] = "in"
      /\ Len(stack) \in Nat /\ DOMAIN stack = 1..Len(stack)
      /\ \A i \in DOMAIN stack : stack[i] \in Layers
  BY <1>1, StackIsSequence DEF InHandler
<1>3. QED  BY <1>1, <1>2 DEF RequestOK, ResultOK, PlaceOK

\* Turning back at the handler, with a response or an exception.
LEMMA HandlerAnswers ==
    ASSUME PathInv, NEW r \in Requests, InHandler(r),
           UNCHANGED <<sharedVars, sent, own, stateId, lines, attached>>,
           NEW answer \in Results, Outwards(r, answer),
           \/ /\ failure' = failure
              /\ answer \in Responses /\ answer.kind = "response"
              /\ answer # Plain /\ answer # Nothing
              /\ answer.header = NoId /\ answer.error = NoFailure
              /\ answer.body \in {NoId, stateId[r]}
           \/ \E class \in Classes : answer = Exception(class)
                                     /\ failure' = [failure EXCEPT ![r] = class]
    PROVE  PathInv'
<1>1. PathTypeOK /\ RequestOK(r)  BY DEF PathInv
<1>2. PathTypeOK'
  BY <1>1, HandlerState DEF PathTypeOK, sharedVars, Outwards
<1>3. ASSUME NEW q \in Requests \ {r}  PROVE Same(q)
  BY <1>1 DEF Same, PathTypeOK, Outwards
<1>4. /\ pos'[r] = Len(stack) /\ heading'[r] = "out" /\ result'[r] = answer
  BY <1>1, HandlerState DEF PathTypeOK, Outwards
<1>5. PlaceOK(r)'
  BY <1>1, <1>4, HandlerState DEF RequestOK, PlaceOK, sharedVars, Identifying
<1>6. IdsOK(r)'  BY <1>1 DEF RequestOK, IdsOK, sharedVars, Has, OwnId, ClientId
<1>7. ~Passed(r, "errors")' /\ ~Passed(r, "logging")' /\ ~Passed(r, "logging")
  BY <1>4, HandlerState DEF Passed, sharedVars
<1>8. Lines(r, "errors", {"error"}) = {} /\ Lines(r, "errors", {"error"})' = {}
  BY <1>1, HandlerState DEF RequestOK, LinesOK, Passed, Lines
<1>9. ResultOK(r)'
  <2>1. CASE /\ failure' = failure
             /\ answer \in Responses /\ answer.kind = "response"
             /\ answer # Plain /\ answer # Nothing
             /\ answer.header = NoId /\ answer.error = NoFailure
             /\ answer.body \in {NoId, stateId[r]}
    <3>1. failure'[r] = NoFailure /\ ~Failed(r)'  BY <1>4, <2>1, HandlerState DEF Failed
    <3>2. {i \in DOMAIN stack : i > pos'[r] /\ own[r][stack[i]] # NoId} = {}
      BY <1>4, HandlerState
    <3>3. QED
      BY <1>4, <2>1, <3>1, <3>2 DEF ResultOK, HeaderOK, AnswerOK, sharedVars
  <2>2. ASSUME NEW class \in Classes, answer = Exception(class),
               failure' = [failure EXCEPT ![r] = class]
        PROVE  ResultOK(r)'
    <3>1. /\ failure'[r] = class /\ class # NoFailure
          /\ result'[r].kind = "raised" /\ result'[r].class = class
          /\ result'[r] # Nothing /\ result'[r] # Plain /\ result'[r] \notin Responses
      BY <1>1, <1>4, <2>2, RaisedValues DEF PathTypeOK
    <3>2. QED
      BY <1>1, <1>4, <1>7, <1>8, <2>2, <3>1, HandlerState
         DEF RequestOK, ResultOK, FailedOK, sharedVars, Failed, Has
  <2>3. QED  BY <2>1, <2>2
<1>10. LinesOK(r)'
  <2>1. Lines(r, "logging", {"completed", "failed"}) = {}  BY <1>1, <1>7
                                                              DEF RequestOK, LinesOK
  <2>2. /\ Lines(r, "logging", {"completed", "failed"})' = {}
        /\ Lines(r, "logging", {"started"})' = IF own'[r]["logging"] # NoId THEN {1} ELSE {}
    BY <1>1, <2>1 DEF RequestOK, LinesOK, Lines
  <2>3. QED  BY <1>4, <1>7, <1>8, <2>2 DEF LinesOK
<1>11. QED  BY <1>2, <1>3, <1>5, <1>6, <1>9, <1>10, OneRequest DEF RequestOK

\* The handler answers, or cannot because of the id.
LEMMA HandlerReturnsKeeps ==
    ASSUME PathInv, NEW r \in Requests, HandlerReturns(r)
    PROVE  PathInv'
<1>1. PathTypeOK /\ InHandler(r)  BY DEF PathInv, HandlerReturns
<1>2. UNCHANGED <<sharedVars, sent, own, stateId, lines, attached>>  BY DEF HandlerReturns
<1>3. stateId[r] \in Ids /\ NoId \in Ids  BY <1>1 DEF PathTypeOK, Ids
<1>4. ASSUME NEW status \in {200, 404, 422}, NEW body \in {NoId, stateId[r]},
             Outwards(r, Response(status, NoId, body, NoFailure)), failure' = failure
      PROVE  PathInv'
  BY <1>1, <1>2, <1>3, <1>4, ResponseValues, HandlerAnswers DEF Results
<1>5. ASSUME Fails(r, "ValidationError")  PROVE PathInv'
  <2>1. "ValidationError" \in Classes  BY KindsOfErrors
                                          DEF DomainErrors, DomainClasses, Domain3
  <2>2. QED  BY <1>1, <1>2, <1>5, <2>1, HandlerAnswers DEF Fails, Results
<1>6. QED  BY <1>4, <1>5 DEF HandlerReturns

\* The handler raises.
LEMMA HandlerRaisesKeeps ==
    ASSUME PathInv, NEW r \in Requests, HandlerRaises(r)
    PROVE  PathInv'
<1>1. PICK class \in Raised : Fails(r, class)  BY DEF HandlerRaises
<1>2. class \in Classes  BY RequestPathAssumption
<1>3. QED  BY <1>1, <1>2, HandlerAnswers DEF Fails, HandlerRaises, Results

-----------------------------------------------------------------------------
(* The way out.                                                            *)

\* What a middleware finds on the way out.
LEMMA OutwardsState ==
    ASSUME PathInv, NEW r \in Requests, NEW l \in Layers, At(r, "out", l)
    PROVE  /\ pos[r] \in DOMAIN stack /\ stack[pos[r]] = l /\ heading[r] = "out" /\ Has(l)
           /\ pos[r] \in Nat /\ Len(stack) \in Nat /\ DOMAIN stack = 1..Len(stack)
           /\ \A i \in DOMAIN stack : stack[i] \in Layers
           /\ \A i \in DOMAIN stack : stack[i] = l => i = pos[r]
           /\ l \in Identifying => own[r][l] # NoId
           /\ l \notin Identifying => own[r][l] = NoId
           /\ ~Passed(r, l)
           /\ result[r] \in Results /\ result[r] # Nothing /\ result[r] # Plain
           /\ ~Failed(r) => result[r] \in Responses
           /\ Failed(r) => result[r].class \in Classes /\ result[r] = Exception(result[r].class)
           /\ l = "tracing" => attached[r] = 1
<1>1. PathTypeOK /\ RequestOK(r)  BY DEF PathInv
<1>2. /\ pos[r] \in DOMAIN stack /\ stack[pos[r]] = l /\ heading[r] = "out"
      /\ pos[r] \in Nat /\ Len(stack) \in Nat /\ DOMAIN stack = 1..Len(stack)
      /\ \A i \in DOMAIN stack : stack[i] \in Layers
      /\ \A i \in DOMAIN stack : stack[i] = l => i = pos[r]
  BY <1>1, StackIsSequence DEF At, PathTypeOK
<1>3. l \in Identifying => own[r][l] # NoId  BY <1>1, <1>2 DEF RequestOK, PlaceOK
<1>4. l \notin Identifying => own[r][l] = NoId  BY <1>1 DEF RequestOK, IdsOK
<1>5. ~Passed(r, l)  BY <1>2 DEF Passed
<1>6. result[r] \in Results /\ result[r] # Nothing /\ result[r] # Plain
  BY <1>1, <1>2 DEF RequestOK, ResultOK, PathTypeOK
<1>7. \A x \in Responses : x.kind = "response"  BY DEF Responses
<1>8. /\ ~Failed(r) => result[r] \in Responses
      /\ Failed(r) => result[r].class \in Classes /\ result[r] = Exception(result[r].class)
  BY <1>6, <1>7, RaisedValues DEF Results, Failed
<1>9. l = "tracing" => attached[r] = 1  BY <1>1, <1>2 DEF RequestOK, PlaceOK
<1>10. QED  BY <1>2, <1>3, <1>4, <1>5, <1>6, <1>8, <1>9 DEF Has

\* What every middleware does on the way out.
LEMMA Leaves ==
    ASSUME PathInv, NEW r \in Requests, NEW l \in Layers, At(r, "out", l),
           NEW answer \in Results, Outwards(r, answer), answer # Nothing,
           UNCHANGED <<sharedVars, sent, own, stateId, failure>>,
           attached' = IF l = "tracing" THEN [attached EXCEPT ![r] = @ - 1] ELSE attached,
           \/ lines' = lines
           \/ \E line \in LineRecords : /\ lines' = [lines EXCEPT ![r] = Append(@, line)]
                                        /\ ClientId(sent[r]) # NoId => line.id = ClientId(sent[r])
    PROVE  /\ PathTypeOK' /\ PlaceOK(r)' /\ IdsOK(r)'
           /\ \A q \in Requests \ {r} : Same(q)
           /\ pos'[r] = pos[r] - 1 /\ heading'[r] = "out" /\ result'[r] = answer
           /\ \A m \in Layers : Passed(r, m)' <=> Passed(r, m) \/ (m = l /\ m \in Identifying)
<1>1. PathTypeOK /\ RequestOK(r)  BY DEF PathInv
<1>2. PathTypeOK'
  <2>1. lines' \in [Requests -> Seq(LineRecords)]
    <3>1. lines \in [Requests -> Seq(LineRecords)]  BY <1>1 DEF PathTypeOK
    <3>2. ASSUME NEW line \in LineRecords, lines' = [lines EXCEPT ![r] = Append(@, line)]
          PROVE  lines' \in [Requests -> Seq(LineRecords)]
      <4>1. Append(lines[r], line) \in Seq(LineRecords)  BY <3>1, AppendProperties
      <4>2. QED  BY <3>1, <3>2, <4>1
    <3>3. QED  BY <3>1, <3>2
  <2>2. attached' \in [Requests -> {0, 1}]  BY <1>1, OutwardsState DEF PathTypeOK
  <2>3. pos' \in [Requests -> Nat]  BY <1>1, OutwardsState DEF PathTypeOK, Outwards
  <2>4. QED  BY <1>1, <2>1, <2>2, <2>3 DEF PathTypeOK, sharedVars, Outwards
<1>3. \A q \in Requests \ {r} : Same(q)
  BY <1>1 DEF Same, PathTypeOK, Outwards
<1>4. /\ pos'[r] = pos[r] - 1 /\ heading'[r] = "out" /\ result'[r] = answer
  BY <1>1 DEF PathTypeOK, Outwards
<1>5. attached'[r] = IF l = "tracing" THEN 0 ELSE attached[r]
  BY <1>1, OutwardsState DEF PathTypeOK
<1>6. PlaceOK(r)'
  BY <1>1, <1>4, <1>5, OutwardsState DEF RequestOK, PlaceOK, sharedVars
<1>7. IdsOK(r)'
  <2>1. ClientId(sent[r]) # NoId => \A i \in DOMAIN lines'[r] : lines'[r][i].id = ClientId(sent[r])
    <3>1. CASE lines' = lines  BY <1>1, <3>1 DEF RequestOK, IdsOK
    <3>2. ASSUME NEW line \in LineRecords, lines' = [lines EXCEPT ![r] = Append(@, line)],
                 ClientId(sent[r]) # NoId => line.id = ClientId(sent[r])
          PROVE  ClientId(sent[r]) # NoId =>
                    \A i \in DOMAIN lines'[r] : lines'[r][i].id = ClientId(sent[r])
      <4>1. lines[r] \in Seq(LineRecords) /\ lines'[r] = Append(lines[r], line)
        BY <1>1, <3>2 DEF PathTypeOK
      <4>2. \A i \in DOMAIN lines'[r] :
               \/ i \in DOMAIN lines[r] /\ lines'[r][i] = lines[r][i]
               \/ lines'[r][i] = line
        BY <4>1
      <4>3. QED  BY <1>1, <3>2, <4>2 DEF RequestOK, IdsOK
    <3>3. QED  BY <3>1, <3>2
  <2>2. QED  BY <1>1, <2>1 DEF RequestOK, IdsOK, sharedVars, Has, OwnId, ClientId
<1>8. \A m \in Layers : Passed(r, m)' <=> Passed(r, m) \/ (m = l /\ m \in Identifying)
  BY <1>4, OutwardsState DEF Passed, sharedVars
<1>9. QED  BY <1>2, <1>3, <1>4, <1>6, <1>7, <1>8

\* Two results that differ at most in the headers of CORS.
Alike(x, y) ==
    \/ x = y
    \/ /\ x \in Responses /\ y \in Responses /\ x # Plain /\ y # Plain
       /\ x.kind = y.kind /\ x.status = y.status /\ x.header = y.header
       /\ x.body = y.body /\ x.error = y.error

\* What a middleware changes in the response of the one inside it is a response.
LEMMA ChangedResponse ==
    ASSUME PathInv, NEW r \in Requests, result[r] \in Responses, result[r] # Plain
    PROVE  /\ \A b \in BOOLEAN : \A y : y = [result[r] EXCEPT !.cors = b] =>
                 Alike(y, result[r]) /\ y # Nothing /\ y \in Responses
           /\ \A id \in Ids : \A y : y = [result[r] EXCEPT !.header = id] =>
                 /\ y \in Responses /\ y # Plain /\ y # Nothing /\ y.header = id
                 /\ y.kind = "response" /\ y.status = result[r].status
                 /\ y.body = result[r].body /\ y.error = result[r].error
<1> DEFINE x == result[r]
<1>1. x.error # "plain"
  <2>1. x.error = NoFailure \/ x.error \in DomainErrors  BY
  DEF PathInv, RequestOK, ResultOK, AnswerOK
  <2>2. NoFailure # "plain"  BY DEF NoFailure
  <2>3. "plain" \notin DomainErrors
    BY KindsOfErrors DEF DomainClasses, Domain2, Domain3, Domain4, Domain5
  <2>4. QED  BY <2>1, <2>2, <2>3
<1>2. /\ x.kind = "response" /\ x.status \in {200, 400, 404, 422, 500, 502} /\ x.header \in Ids
      /\ x.body \in Ids /\ x.error \in Classes \union {NoFailure, "plain"} /\ x.cors \in BOOLEAN
      /\ x = [kind |-> x.kind, status |-> x.status, header |-> x.header, body |-> x.body,
              error |-> x.error, cors |-> x.cors]
  BY DEF Responses
<1>3. Plain.error = "plain" /\ Nothing.kind = "nothing"  BY DEF Plain, Response, Nothing
<1> HIDE DEF x
<1>4. ASSUME NEW b \in BOOLEAN, NEW y, y = [x EXCEPT !.cors = b]
      PROVE  Alike(y, x) /\ y # Nothing /\ y \in Responses
  <2>1. y = [kind |-> x.kind, status |-> x.status, header |-> x.header, body |-> x.body,
             error |-> x.error, cors |-> b]
    BY <1>2, <1>4
  <2>2. y \in Responses /\ x \in Responses  BY <1>2, <2>1 DEF Responses
  <2>3. /\ y.kind = x.kind /\ y.status = x.status /\ y.header = x.header
        /\ y.body = x.body /\ y.error = x.error
    BY <2>1
  <2>4. QED  BY <1>1, <1>2, <1>3, <2>2, <2>3 DEF Alike
<1>5. ASSUME NEW id \in Ids, NEW y, y = [x EXCEPT !.header = id]
      PROVE  /\ y \in Responses /\ y # Plain /\ y # Nothing /\ y.header = id
             /\ y.kind = "response" /\ y.status = x.status
             /\ y.body = x.body /\ y.error = x.error
  <2>1. y = [kind |-> x.kind, status |-> x.status, header |-> id, body |-> x.body,
             error |-> x.error, cors |-> x.cors]
    BY <1>2, <1>5
  <2>2. y \in Responses  BY <1>2, <2>1 DEF Responses
  <2>3. /\ y.kind = x.kind /\ y.status = x.status /\ y.header = id
        /\ y.body = x.body /\ y.error = x.error
    BY <2>1
  <2>4. QED  BY <1>1, <1>2, <1>3, <2>2, <2>3
<1>6. QED  BY <1>4, <1>5 DEF x

\* A middleware without a correlation id passes on what it gets.
LEMMA PassesOn ==
    ASSUME PathInv, NEW r \in Requests, NEW l \in Layers \ Identifying, At(r, "out", l),
           NEW answer \in Results, Outwards(r, answer), Alike(answer, result[r]),
           UNCHANGED <<sharedVars, sent, own, stateId, failure, lines>>,
           attached' = IF l = "tracing" THEN [attached EXCEPT ![r] = @ - 1] ELSE attached
    PROVE  PathInv'
<1>1. PathTypeOK /\ RequestOK(r)  BY DEF PathInv
<1>2. answer # Nothing /\ answer # Plain
  <2>1. \A x \in Responses : x # Nothing  BY DEF Nothing, Responses
  <2>2. QED  BY <2>1, OutwardsState DEF Alike
<1>3. /\ PathTypeOK' /\ PlaceOK(r)' /\ IdsOK(r)'
      /\ \A q \in Requests \ {r} : Same(q)
      /\ pos'[r] = pos[r] - 1 /\ heading'[r] = "out" /\ result'[r] = answer
      /\ \A m \in Layers : Passed(r, m)' <=> Passed(r, m)
  BY <1>2, Leaves
<1>4. \A i \in DOMAIN stack : /\ i \in Nat
                              /\ i > pos[r] - 1 /\ own[r][stack[i]] # NoId
                                 <=> i > pos[r] /\ own[r][stack[i]] # NoId
  BY OutwardsState
<1>5. "errors" \in Layers /\ "logging" \in Layers  BY DEF Layers
<1>6. /\ Failed(r) => answer = result[r] /\ result[r] \notin Responses
      /\ Failed(r)' <=> Failed(r)
      /\ ~Failed(r) => /\ answer \in Responses /\ result[r] \in Responses
                       /\ answer.kind = result[r].kind /\ answer.status = result[r].status
                       /\ answer.header = result[r].header /\ answer.body = result[r].body
                       /\ answer.error = result[r].error
  <2>1. \A x \in Responses : x.kind = "response"  BY DEF Responses
  <2>2. QED  BY <1>3, <2>1, OutwardsState DEF Alike, Failed
<1>7. ResultOK(r)'
  <2>1. CASE Failed(r)
    BY <1>1, <1>2, <1>3, <1>5, <1>6, <2>1, OutwardsState
       DEF RequestOK, ResultOK, FailedOK, Excused, sharedVars, Failed, Has, Lines,
           ClientId, Unconstructible
  <2>2. CASE ~Failed(r)
    BY <1>1, <1>2, <1>3, <1>4, <1>5, <1>6, <2>2, OutwardsState
       DEF RequestOK, ResultOK, HeaderOK, AnswerOK, sharedVars, Has, Lines
  <2>3. QED  BY <2>1, <2>2
<1>8. LinesOK(r)'
  BY <1>1, <1>2, <1>3, <1>5, <1>6, OutwardsState DEF RequestOK, LinesOK, sharedVars, Lines
<1>9. QED  BY <1>3, <1>7, <1>8, OneRequest DEF RequestOK

\* TracingMiddleware detaches its context, whatever it gets.
LEMMA LeaveTracingKeeps ==
    ASSUME PathInv, NEW r \in Requests, LeaveTracing(r)
    PROVE  PathInv'
<1>1. "tracing" \in Layers \ Identifying /\ At(r, "out", "tracing")
  BY DEF Layers, Identifying, LeaveTracing
<1>2. result[r] \in Results /\ Alike(result[r], result[r])
  BY <1>1, OutwardsState DEF Alike
<1>3. QED  BY <1>1, <1>2, PassesOn DEF LeaveTracing

\* CORSMiddleware adds its headers to a response.
LEMMA LeaveCorsKeeps ==
    ASSUME PathInv, NEW r \in Requests, LeaveCors(r)
    PROVE  PathInv'
<1>1. "cors" \in Layers \ Identifying /\ At(r, "out", "cors")
  BY DEF Layers, Identifying, LeaveCors
<1>2. PICK answer : Outwards(r, answer) /\ answer = IF Failed(r) THEN result[r]
                                              ELSE [result[r] EXCEPT !.cors = Allowed(r)]
  BY DEF LeaveCors
<1>3. answer \in Results /\ Alike(answer, result[r])
  <2>1. CASE Failed(r)  BY <1>1, <1>2, <2>1, OutwardsState DEF Alike
  <2>2. CASE ~Failed(r)
    <3>1. Allowed(r) \in BOOLEAN  BY DEF Allowed
    <3>2. result[r] \in Responses /\ result[r] # Plain  BY <1>1, <2>2, OutwardsState
    <3>3. QED  BY <1>2, <2>2, <3>1, <3>2, ChangedResponse DEF Results
  <2>3. QED  BY <2>1, <2>2
<1>4. QED  BY <1>1, <1>2, <1>3, PassesOn DEF LeaveCors

\* A line more in the log of a request.
LEMMA LineAdded ==
    ASSUME PathTypeOK, NEW r \in Requests, NEW line,
           lines' = [lines EXCEPT ![r] = Append(@, line)]
    PROVE  LET n == Len(lines[r]) + 1 IN
           /\ n \in DOMAIN lines'[r] /\ lines'[r][n] = line /\ n \in Nat
           /\ \A i \in DOMAIN lines[r] : /\ i \in DOMAIN lines'[r] /\ lines'[r][i] = lines[r][i]
                                         /\ i \in Nat /\ i < n /\ i >= 1
           /\ \A i \in DOMAIN lines'[r] : i = n \/ i \in DOMAIN lines[r]
           /\ \A layer, events :
                 Lines(r, layer, events)' =
                    IF line.layer = layer /\ line.event \in events
                    THEN Lines(r, layer, events) \union {n} ELSE Lines(r, layer, events)
<1> DEFINE n == Len(lines[r]) + 1
<1>1. lines[r] \in Seq(LineRecords) /\ lines'[r] = Append(lines[r], line)  BY DEF PathTypeOK
<1>2. /\ n \in DOMAIN lines'[r] /\ lines'[r][n] = line /\ n \in Nat
      /\ \A i \in DOMAIN lines[r] : /\ i \in DOMAIN lines'[r] /\ lines'[r][i] = lines[r][i]
                                    /\ i \in Nat /\ i < n /\ i >= 1
      /\ \A i \in DOMAIN lines'[r] : i = n \/ i \in DOMAIN lines[r]
  BY <1>1
<1> HIDE DEF n
<1>3. ASSUME NEW layer, NEW events
      PROVE  Lines(r, layer, events)' =
                    IF line.layer = layer /\ line.event \in events
                    THEN Lines(r, layer, events) \union {n} ELSE Lines(r, layer, events)
  BY <1>2 DEF Lines
<1>4. QED  BY <1>2, <1>3 DEF n

\* LoggingMiddleware writes its second line, for a response or for what it can catch.
LEMMA LeaveLoggingKeeps ==
    ASSUME PathInv, NEW r \in Requests, LeaveLogging(r)
    PROVE  PathInv'
<1> DEFINE id == own[r]["logging"]
           n == Len(lines[r]) + 1
<1>1. PathTypeOK /\ RequestOK(r) /\ At(r, "out", "logging")  BY DEF PathInv, LeaveLogging
<1>2. /\ "logging" \in Layers /\ "errors" \in Layers /\ "logging" \in Identifying
      /\ "logging" # "errors" /\ "logging" # "tracing"
  BY DEF Layers, Identifying
<1>3. /\ id \in Ids /\ id # NoId
      /\ ClientId(sent[r]) # NoId => id = ClientId(sent[r])
      /\ ~Passed(r, "logging")
  <2>1. id # NoId /\ ~Passed(r, "logging")  BY <1>1, <1>2, OutwardsState
  <2>2. id = OwnId(r, "logging")  BY <1>1, <1>2, <2>1 DEF RequestOK, IdsOK
  <2>3. QED  BY <1>1, <1>2, <2>1, <2>2, OwnIds
<1> HIDE DEF id
<1>4. UNCHANGED <<sharedVars, sent, own, stateId, failure, attached>>  BY DEF LeaveLogging
<1>5. \A i \in DOMAIN stack : /\ i \in Nat
                              /\ i > pos[r] - 1 /\ own[r][stack[i]] # NoId
                                 <=> (i > pos[r] /\ own[r][stack[i]] # NoId) \/ i = pos[r]
  BY <1>1, <1>2, OutwardsState
<1>6. CASE ~Failed(r)
  <2> DEFINE line == [layer |-> "logging", event |-> "completed", id |-> id,
                      what |-> result[r].status]
  <2>1. PICK answer : answer = [result[r] EXCEPT !.header = id] /\ Outwards(r, answer)
    BY <1>6 DEF LeaveLogging, WithHeader, id
  <2>2. /\ answer \in Responses /\ answer # Plain /\ answer # Nothing /\ answer.header = id
        /\ answer.kind = "response" /\ answer.status = result[r].status
        /\ answer.body = result[r].body /\ answer.error = result[r].error
        /\ result[r] \in Responses /\ result[r] # Plain
    <3>1. result[r] \in Responses /\ result[r] # Plain  BY <1>1, <1>2, <1>6, OutwardsState
    <3>2. \A x \in Ids : \A y : y = [result[r] EXCEPT !.header = x] =>
                 /\ y \in Responses /\ y # Plain /\ y # Nothing /\ y.header = x
                 /\ y.kind = "response" /\ y.status = result[r].status
                 /\ y.body = result[r].body /\ y.error = result[r].error
      BY <3>1, ChangedResponse
    <3>3. QED  BY <1>3, <2>1, <3>1, <3>2
  <2>3. line \in LineRecords /\ lines' = [lines EXCEPT ![r] = Append(@, line)]
    BY <1>3, <1>6, <2>2 DEF LineRecords, Responses, LeaveLogging, Log, id
  <2>4. /\ PathTypeOK' /\ PlaceOK(r)' /\ IdsOK(r)'
        /\ \A q \in Requests \ {r} : Same(q)
        /\ pos'[r] = pos[r] - 1 /\ heading'[r] = "out" /\ result'[r] = answer
        /\ Passed(r, "logging")' /\ (Passed(r, "errors")' <=> Passed(r, "errors"))
    <3>1. answer \in Results  BY <2>2 DEF Results
    <3>2. \E x \in LineRecords : /\ lines' = [lines EXCEPT ![r] = Append(@, x)]
                                 /\ ClientId(sent[r]) # NoId => x.id = ClientId(sent[r])
      BY <1>3, <2>3
    <3>3. attached' = IF "logging" = "tracing" THEN [attached EXCEPT ![r] = @ - 1] ELSE attached
      BY <1>2, <1>4
    <3> HIDE DEF line
    <3>4. UNCHANGED <<sharedVars, sent, own, stateId, failure>>  BY <1>4
    <3>5. At(r, "out", "logging") /\ Outwards(r, answer) /\ answer # Nothing
      BY <1>1, <2>1, <2>2
    <3>6. /\ PathTypeOK' /\ PlaceOK(r)' /\ IdsOK(r)'
          /\ \A q \in Requests \ {r} : Same(q)
          /\ pos'[r] = pos[r] - 1 /\ heading'[r] = "out" /\ result'[r] = answer
          /\ \A m \in Layers : Passed(r, m)' <=> Passed(r, m) \/ (m = "logging" /\ m \in Identifying)
      BY <1>2, <3>1, <3>2, <3>3, <3>4, <3>5, Leaves
    <3>7. QED  BY <1>2, <3>6
  <2>5. /\ \A i \in DOMAIN lines[r] : /\ i \in DOMAIN lines'[r] /\ lines'[r][i] = lines[r][i]
                                      /\ i \in Nat /\ i < n /\ i >= 1
        /\ n \in DOMAIN lines'[r] /\ lines'[r][n] = line /\ n \in Nat
        /\ Lines(r, "errors", {"error"})' = Lines(r, "errors", {"error"})
        /\ Lines(r, "logging", {"started"})' = Lines(r, "logging", {"started"})
        /\ Lines(r, "logging", {"completed", "failed"})'
             = Lines(r, "logging", {"completed", "failed"}) \union {n}
    <3>1. line.layer = "logging" /\ line.event = "completed"  OBVIOUS
    <3>2. /\ "error" # "completed" /\ "started" # "completed" /\ "errors" # "logging"
          /\ "completed" \in {"completed", "failed"} /\ "completed" \notin {"started"}
      OBVIOUS
    <3>3. PathTypeOK /\ lines' = [lines EXCEPT ![r] = Append(@, line)]  BY <1>1, <2>3
    <3> HIDE DEF line
    <3>4. /\ n \in DOMAIN lines'[r] /\ lines'[r][n] = line /\ n \in Nat
          /\ \A i \in DOMAIN lines[r] : /\ i \in DOMAIN lines'[r] /\ lines'[r][i] = lines[r][i]
                                        /\ i \in Nat /\ i < n /\ i >= 1
          /\ \A layer, events :
                 Lines(r, layer, events)' =
                    IF line.layer = layer /\ line.event \in events
                    THEN Lines(r, layer, events) \union {n} ELSE Lines(r, layer, events)
      BY <3>3, LineAdded
    <3>5. QED  BY <3>1, <3>2, <3>4
  <2>6. Lines(r, "errors", {"error"}) \subseteq DOMAIN lines[r] /\ 1 \in DOMAIN lines[r]
    BY <1>1, <1>3 DEF Lines, RequestOK, LinesOK, id
  <2>7. line.event = "completed" /\ line.what = answer.status  BY <2>2
  <2> HIDE DEF line, n
  <2>8. ResultOK(r)'
    <3>1. HeaderOK(r)'
      BY <1>1, <1>2, <1>4, <1>5, <2>2, <2>4, OutwardsState DEF HeaderOK, sharedVars, id
    <3>2. AnswerOK(r) /\ ResultOK(r)  BY <1>1, <2>2 DEF RequestOK, ResultOK
    <3>3. AnswerOK(r)'
      BY <1>4, <2>2, <2>4, <2>5, <2>6, <3>2 DEF AnswerOK, sharedVars
    <3>4. QED  BY <1>4, <2>2, <2>4, <3>1, <3>2, <3>3 DEF ResultOK, Failed, Has, sharedVars
  <2>9. LinesOK(r)'
    BY <1>1, <1>3, <1>4, <1>6, <2>2, <2>4, <2>5, <2>6, <2>7
       DEF RequestOK, LinesOK, sharedVars, Failed
  <2>10. QED  BY <1>4, <2>4, <2>8, <2>9, OneRequest DEF RequestOK
<1>7. CASE Failed(r)
  <2>1. /\ Outwards(r, result[r]) /\ result[r] \in Results /\ result[r] # Nothing
        /\ result[r].class \in Classes /\ result[r] \notin Responses /\ result[r] # Plain
    BY <1>1, <1>2, <1>7, OutwardsState, RaisedValues DEF LeaveLogging, WithHeader
  <2>2. attached' = IF "logging" = "tracing" THEN [attached EXCEPT ![r] = @ - 1] ELSE attached
    BY <1>2, <1>4
  <2>3. Lines(r, "logging", {"completed", "failed"}) = {}  BY <1>1, <1>3
                                                              DEF RequestOK, LinesOK
  <2>4. FailedOK(r) /\ ResultOK(r)  BY <1>1, <1>7 DEF RequestOK, ResultOK
  <2>5. CASE ~Caught(result[r].class)
    <3>1. lines' = lines  BY <1>7, <2>5 DEF LeaveLogging
    <3>2. UNCHANGED <<sharedVars, sent, own, stateId, failure>>  BY <1>4
    <3>3. /\ PathTypeOK' /\ PlaceOK(r)' /\ IdsOK(r)'
          /\ \A q \in Requests \ {r} : Same(q)
          /\ pos'[r] = pos[r] - 1 /\ heading'[r] = "out" /\ result'[r] = result[r]
          /\ \A m \in Layers : Passed(r, m)' <=> Passed(r, m) \/ (m = "logging" /\ m \in Identifying)
      BY <1>1, <1>2, <2>1, <2>2, <3>1, <3>2, Leaves
    <3>4. Passed(r, "logging")' /\ (Passed(r, "errors")' <=> Passed(r, "errors"))
      BY <1>2, <3>3
    <3>5. ResultOK(r)'
      BY <1>4, <1>7, <2>1, <2>4, <3>1, <3>3, <3>4
         DEF ResultOK, FailedOK, Excused, ClientId, Unconstructible, Failed, Has,
             sharedVars, Lines
    <3>6. LinesOK(r)'
      BY <1>1, <1>4, <1>7, <2>3, <2>5, <3>1, <3>3, <3>4
         DEF RequestOK, LinesOK, Failed, sharedVars, Lines
    <3>7. QED  BY <1>4, <3>3, <3>5, <3>6, OneRequest DEF RequestOK
  <2>6. CASE Caught(result[r].class)
    <3> DEFINE line == [layer |-> "logging", event |-> "failed", id |-> id,
                        what |-> result[r].class]
    <3>1. line \in LineRecords /\ lines' = [lines EXCEPT ![r] = Append(@, line)]
      BY <1>3, <1>7, <2>1, <2>6 DEF LineRecords, LeaveLogging, Log, id
    <3>2. /\ line.layer = "logging" /\ line.event = "failed" /\ line.id = id
          /\ "error" # "failed" /\ "started" # "failed" /\ "completed" # "failed"
      OBVIOUS
    <3>3. UNCHANGED <<sharedVars, sent, own, stateId, failure>>  BY <1>4
    <3> HIDE DEF line, n
    <3>4. /\ PathTypeOK' /\ PlaceOK(r)' /\ IdsOK(r)'
          /\ \A q \in Requests \ {r} : Same(q)
          /\ pos'[r] = pos[r] - 1 /\ heading'[r] = "out" /\ result'[r] = result[r]
          /\ \A m \in Layers : Passed(r, m)' <=> Passed(r, m) \/ (m = "logging" /\ m \in Identifying)
      BY <1>1, <1>2, <1>3, <2>1, <2>2, <3>1, <3>2, <3>3, Leaves
    <3>5. Passed(r, "logging")' /\ (Passed(r, "errors")' <=> Passed(r, "errors"))
      BY <1>2, <3>4
    <3>6. /\ n \in DOMAIN lines'[r] /\ lines'[r][n] = line /\ n \in Nat
          /\ \A i \in DOMAIN lines[r] : /\ i \in DOMAIN lines'[r] /\ lines'[r][i] = lines[r][i]
                                        /\ i \in Nat /\ i < n /\ i >= 1
          /\ \A layer, events :
                 Lines(r, layer, events)' =
                    IF line.layer = layer /\ line.event \in events
                    THEN Lines(r, layer, events) \union {n} ELSE Lines(r, layer, events)
      BY <1>1, <3>1, LineAdded DEF n
    <3>7. /\ Lines(r, "errors", {"error"})' = Lines(r, "errors", {"error"})
          /\ Lines(r, "logging", {"started"})' = Lines(r, "logging", {"started"})
          /\ Lines(r, "logging", {"completed", "failed"})' = {n}
      BY <2>3, <3>2, <3>6
    <3>8. 1 \in DOMAIN lines[r]  BY <1>1, <1>3 DEF Lines, RequestOK, LinesOK, id
    <3>9. ResultOK(r)'
      BY <1>4, <1>7, <2>1, <2>4, <3>4, <3>5, <3>7
         DEF ResultOK, FailedOK, Excused, ClientId, Unconstructible, Failed, Has, sharedVars
    <3>10. LinesOK(r)'
      BY <1>1, <1>4, <1>7, <2>6, <3>2, <3>4, <3>5, <3>6, <3>7, <3>8
         DEF RequestOK, LinesOK, Failed, sharedVars
    <3>11. QED  BY <1>4, <3>4, <3>9, <3>10, OneRequest DEF RequestOK
  <2>7. QED  BY <2>5, <2>6
<1>8. QED  BY <1>6, <1>7

\* ErrorHandlingMiddleware finds what its handler has raised, and no line of its own.
LEMMA ErrorsState ==
    ASSUME PathInv, NEW r \in Requests, At(r, "out", "errors")
    PROVE  /\ "errors" \in Layers /\ "errors" \in Identifying /\ "errors" # "tracing"
           /\ "logging" \in Layers
           /\ own[r]["errors"] \in Ids /\ own[r]["errors"] # NoId
           /\ own[r]["errors"] \in LongIds => Excused(r)
           /\ ClientId(sent[r]) # NoId => own[r]["errors"] = ClientId(sent[r])
           /\ ~Passed(r, "errors") /\ Lines(r, "errors", {"error"}) = {}
           /\ Failed(r) => result[r] = Exception(failure[r]) /\ failure[r] \in Classes
           /\ ~Failed(r) => result[r].error = NoFailure /\ failure[r] = NoFailure
           /\ ~Failed(r) => result[r] \in Responses /\ result[r] # Plain
<1>1. PathTypeOK /\ RequestOK(r)  BY DEF PathInv
<1>2. /\ "errors" \in Layers /\ "errors" \in Identifying /\ "errors" # "tracing"
      /\ "logging" \in Layers
  BY DEF Layers, Identifying
<1>3. own[r]["errors"] # NoId /\ ~Passed(r, "errors")  BY <1>2, OutwardsState
<1>4. own[r]["errors"] = OwnId(r, "errors")  BY <1>1, <1>2, <1>3 DEF RequestOK, IdsOK
<1>5. Lines(r, "errors", {"error"}) = {}  BY <1>1, <1>3 DEF RequestOK, LinesOK
<1>6. Failed(r) => result[r] = Exception(failure[r]) /\ failure[r] \in Classes
  BY <1>1, <1>3 DEF RequestOK, ResultOK, FailedOK, PathTypeOK
<1>7. ~Failed(r) => result[r] \in Responses /\ result[r] # Plain  BY <1>2, OutwardsState
<1>8. ~Failed(r) => result[r].error = NoFailure /\ failure[r] = NoFailure
  BY <1>1, <1>3, <1>7 DEF RequestOK, ResultOK, AnswerOK
<1>9. QED  BY <1>1, <1>2, <1>3, <1>4, <1>5, <1>6, <1>7, <1>8, OwnIds DEF Excused

\* It answers the response of the layer inside it, with its own header.
LEMMA PassesResponse ==
    ASSUME PathInv, NEW r \in Requests, LeaveErrors(r), ~Failed(r)
    PROVE  PathInv'
<1> DEFINE id == own[r]["errors"]
<1>1. PathTypeOK /\ RequestOK(r) /\ At(r, "out", "errors")  BY DEF PathInv, LeaveErrors
<1>2. UNCHANGED <<sharedVars, sent, own, stateId, failure, attached, lines>>  BY
  DEF LeaveErrors
<1>3. PICK answer : answer = [result[r] EXCEPT !.header = id] /\ Outwards(r, answer)
  BY DEF LeaveErrors, WithHeader
<1>4. /\ id \in Ids /\ result[r] \in Responses /\ result[r] # Plain
      /\ result[r].error = NoFailure /\ failure[r] = NoFailure
  BY <1>1, ErrorsState
<1>5. \A x \in Ids : \A y : y = [result[r] EXCEPT !.header = x] =>
             /\ y \in Responses /\ y # Plain /\ y # Nothing /\ y.header = x
             /\ y.kind = "response" /\ y.status = result[r].status
             /\ y.body = result[r].body /\ y.error = result[r].error
  BY <1>4, ChangedResponse
<1>6. /\ answer \in Responses /\ answer # Plain /\ answer # Nothing /\ answer.header = id
      /\ answer.kind = "response" /\ answer.status = result[r].status
      /\ answer.body = result[r].body /\ answer.error = NoFailure
  BY <1>3, <1>4, <1>5
<1>7. /\ PathTypeOK' /\ PlaceOK(r)' /\ IdsOK(r)'
      /\ \A q \in Requests \ {r} : Same(q)
      /\ pos'[r] = pos[r] - 1 /\ heading'[r] = "out" /\ result'[r] = answer
      /\ \A m \in Layers : Passed(r, m)' <=> Passed(r, m) \/ (m = "errors" /\ m \in Identifying)
  <2>1. answer \in Results  BY <1>6 DEF Results
  <2>2. attached' = IF "errors" = "tracing" THEN [attached EXCEPT ![r] = @ - 1] ELSE attached
    BY <1>2
  <2>3. "errors" \in Layers  BY DEF Layers
  <2>4. UNCHANGED <<sharedVars, sent, own, stateId, failure>> /\ lines' = lines  BY <1>2
  <2>5. QED  BY <1>1, <1>3, <1>6, <2>1, <2>2, <2>3, <2>4, Leaves
<1>8. /\ Passed(r, "errors")' /\ ~Passed(r, "errors")
      /\ (Passed(r, "logging")' <=> Passed(r, "logging"))
  BY <1>1, <1>7, ErrorsState
<1>9. \A i \in DOMAIN stack : /\ i \in Nat
                              /\ i > pos[r] - 1 /\ own[r][stack[i]] # NoId
                                 <=> (i > pos[r] /\ own[r][stack[i]] # NoId) \/ i = pos[r]
  BY <1>1, ErrorsState, OutwardsState
<1>10. "errors" \in Layers  BY DEF Layers
<1> HIDE DEF id
<1>11. HeaderOK(r)'
  BY <1>1, <1>2, <1>6, <1>7, <1>9, <1>10, OutwardsState DEF HeaderOK, sharedVars, id
<1>12. AnswerOK(r) /\ ResultOK(r)  BY <1>1, <1>4 DEF RequestOK, ResultOK
<1>13. AnswerOK(r)'  BY <1>2, <1>4, <1>6, <1>7, <1>12 DEF AnswerOK, sharedVars
<1>14. ResultOK(r)'
  BY <1>2, <1>6, <1>7, <1>11, <1>12, <1>13 DEF ResultOK, Failed, Has, sharedVars
<1>15. LinesOK(r)'
  BY <1>1, <1>2, <1>4, <1>6, <1>7, <1>8 DEF RequestOK, LinesOK, Lines, Failed, sharedVars
<1>16. QED  BY <1>2, <1>7, <1>14, <1>15, OneRequest DEF RequestOK

\* It lets an exception go by, or raises another: a cancellation always stays one.
LEMMA RaisesFurther ==
    ASSUME PathInv, NEW r \in Requests, At(r, "out", "errors"), Failed(r),
           UNCHANGED <<sharedVars, sent, own, stateId, failure, attached, lines>>,
           NEW class \in Classes, Outwards(r, Exception(class)),
           IF Caught(failure[r]) THEN Caught(class) /\ Excused(r) ELSE class = failure[r]
    PROVE  PathInv'
<1> DEFINE answer == Exception(class)
<1>1. PathTypeOK /\ RequestOK(r)  BY DEF PathInv
<1>2. FailedOK(r) /\ ResultOK(r)  BY <1>1 DEF RequestOK, ResultOK
<1>3. /\ answer.kind = "raised" /\ answer.class = class
      /\ answer # Nothing /\ answer # Plain /\ answer \notin Responses /\ answer \in Results
  BY RaisedValues DEF Results
<1> HIDE DEF answer
<1>4. /\ PathTypeOK' /\ PlaceOK(r)' /\ IdsOK(r)'
      /\ \A q \in Requests \ {r} : Same(q)
      /\ pos'[r] = pos[r] - 1 /\ heading'[r] = "out" /\ result'[r] = answer
      /\ \A m \in Layers : Passed(r, m)' <=> Passed(r, m) \/ (m = "errors" /\ m \in Identifying)
  <2>1. attached' = IF "errors" = "tracing" THEN [attached EXCEPT ![r] = @ - 1] ELSE attached
    OBVIOUS
  <2>2. "errors" \in Layers  BY DEF Layers
  <2>3. UNCHANGED <<sharedVars, sent, own, stateId, failure>> /\ lines' = lines  OBVIOUS
  <2>4. Outwards(r, answer)  BY DEF answer
  <2>5. QED  BY <1>3, <2>1, <2>2, <2>3, <2>4, Leaves
<1>5. /\ Passed(r, "errors")' /\ ~Passed(r, "errors")
      /\ (Passed(r, "logging")' <=> Passed(r, "logging"))
  BY <1>4, ErrorsState
<1>6. FailedOK(r)'
  <2>1. Excused(r)' <=> Excused(r)  BY DEF Excused, ClientId, Unconstructible, sharedVars
  <2>2. Caught(class) <=> Caught(failure[r])  OBVIOUS
  <2>3. result'[r].class = class /\ (~Caught(failure[r]) => result'[r] = Exception(failure[r]))
    BY <1>3, <1>4 DEF answer
  <2>4. QED  BY <1>2, <1>5, <2>1, <2>2, <2>3 DEF FailedOK, Lines
<1>7. ResultOK(r)'
  BY <1>2, <1>3, <1>4, <1>6 DEF ResultOK, Failed, Has, sharedVars
<1>8. Failed(r)' /\ (Caught(result'[r].class) <=> Caught(result[r].class))
  <2>1. result'[r].class = class /\ Failed(r)'  BY <1>3, <1>4 DEF Failed
  <2>2. Caught(class) <=> Caught(failure[r])  OBVIOUS
  <2>3. Caught(result[r].class) <=> Caught(failure[r])  BY <1>2 DEF FailedOK
  <2>4. QED  BY <2>1, <2>2, <2>3
<1>9. LinesOK(r)'
  <2>1. \A i \in Lines(r, "logging", {"completed", "failed"}) : lines[r][i].event # "completed"
    <3>1. result[r] \notin Responses  BY DEF Failed, Responses
    <3>2. QED  BY <1>1, <3>1 DEF RequestOK, LinesOK
  <2>2. QED  BY <1>1, <1>4, <1>5, <1>8, <2>1 DEF RequestOK, LinesOK, Lines, sharedVars
<1>10. QED  BY <1>4, <1>7, <1>9, OneRequest DEF RequestOK

\* It answers a domain error with an envelope.
LEMMA MakesEnvelope ==
    ASSUME PathInv, NEW r \in Requests, At(r, "out", "errors"), Failed(r), Caught(failure[r]),
           UNCHANGED <<sharedVars, sent, own, stateId, failure, attached>>,
           NEW error \in DomainErrors, CreateErrorResponse(r, error),
           registered = {} => HttpStatus(error) = ExpectedStatus(failure[r])
    PROVE  PathInv'
<1> DEFINE id == own[r]["errors"]
           n == Len(lines[r]) + 1
           answer == Response(HttpStatus(error), id, id, error)
           line == [layer |-> "errors", event |-> "error", id |-> id, what |-> error]
<1>1. PathTypeOK /\ RequestOK(r)  BY DEF PathInv
<1>2. error \in Classes  BY DEF DomainErrors
<1>3. CASE id \in LongIds
  <2>1. "PydanticError" \in Classes /\ Caught("PydanticError")
    BY ClassesInTiers, KindsOfErrors DEF CaughtClasses, Tier3, Foreign3
  <2>2. Excused(r)  BY <1>3, ErrorsState
  <2>3. Outwards(r, Exception("PydanticError")) /\ lines' = lines
    BY <1>3 DEF CreateErrorResponse
  <2>4. QED  BY <2>1, <2>2, <2>3, RaisesFurther
<1>4. CASE id \notin LongIds
  <2>1. /\ id \in Ids
        /\ ClientId(sent[r]) # NoId => id = ClientId(sent[r])
    BY ErrorsState
  <2>2. HttpStatus(error) \in {400, 500, 502}  BY DEF HttpStatus
  <2>3. /\ answer \in Responses /\ answer # Plain /\ answer # Nothing /\ answer \in Results
        /\ answer.kind = "response" /\ answer.status = HttpStatus(error)
        /\ answer.header = id /\ answer.body = id /\ answer.error = error
    BY <1>2, <2>1, <2>2, ResponseValues DEF Results
  <2>4. Outwards(r, answer) /\ lines' = [lines EXCEPT ![r] = Append(@, line)]
    BY <1>4 DEF CreateErrorResponse, Log
  <2>5. /\ line \in LineRecords /\ line.layer = "errors" /\ line.event = "error"
        /\ line.id = id /\ line.what = error
    BY <1>2, <2>1 DEF LineRecords
  <2> HIDE DEF answer, line, n
  <2>6. /\ PathTypeOK' /\ PlaceOK(r)' /\ IdsOK(r)'
        /\ \A q \in Requests \ {r} : Same(q)
        /\ pos'[r] = pos[r] - 1 /\ heading'[r] = "out" /\ result'[r] = answer
        /\ \A m \in Layers : Passed(r, m)' <=> Passed(r, m) \/ (m = "errors" /\ m \in Identifying)
    <3>1. attached' = IF "errors" = "tracing" THEN [attached EXCEPT ![r] = @ - 1] ELSE attached
      OBVIOUS
    <3>2. "errors" \in Layers  BY DEF Layers
    <3>3. UNCHANGED <<sharedVars, sent, own, stateId, failure>>  OBVIOUS
    <3>4. \E x \in LineRecords : /\ lines' = [lines EXCEPT ![r] = Append(@, x)]
                                 /\ ClientId(sent[r]) # NoId => x.id = ClientId(sent[r])
      BY <2>1, <2>4, <2>5
    <3> HIDE DEF id
    <3>5. QED  BY <2>3, <2>4, <3>1, <3>2, <3>3, <3>4, Leaves
  <2>7. /\ Passed(r, "errors")' /\ ~Passed(r, "errors")
        /\ (Passed(r, "logging")' <=> Passed(r, "logging"))
    BY <2>6, ErrorsState
  <2>8. /\ n \in DOMAIN lines'[r] /\ lines'[r][n] = line /\ n \in Nat
        /\ \A i \in DOMAIN lines[r] : i \in DOMAIN lines'[r] /\ lines'[r][i] = lines[r][i]
        /\ \A layer, events :
               Lines(r, layer, events)' =
                  IF line.layer = layer /\ line.event \in events
                  THEN Lines(r, layer, events) \union {n} ELSE Lines(r, layer, events)
    BY <1>1, <2>4, LineAdded DEF n
  <2>9. /\ Lines(r, "errors", {"error"})' = {n}
        /\ Lines(r, "logging", {"started"})' = Lines(r, "logging", {"started"})
        /\ Lines(r, "logging", {"completed", "failed"})'
             = Lines(r, "logging", {"completed", "failed"})
    BY <2>5, <2>8, ErrorsState
  <2>10. FailedOK(r) /\ ResultOK(r) /\ result[r] = Exception(failure[r])
    BY <1>1, ErrorsState DEF RequestOK, ResultOK
  <2>11. HeaderOK(r)'
    <3>1. \A i \in DOMAIN stack : /\ i \in Nat
                                  /\ i > pos[r] - 1 /\ own[r][stack[i]] # NoId
                                     <=> (i > pos[r] /\ own[r][stack[i]] # NoId) \/ i = pos[r]
      BY ErrorsState, OutwardsState
    <3>2. pos[r] \in DOMAIN stack /\ stack[pos[r]] = "errors" /\ pos[r] \in Nat
      BY ErrorsState, OutwardsState
    <3>3. QED  BY <2>3, <2>6, <3>1, <3>2 DEF HeaderOK, sharedVars
  <2>12. AnswerOK(r)'
    <3>1. error # NoFailure /\ failure[r] # NoFailure
      BY <1>2, <2>10, RaisedValues DEF FailedOK
    <3>2. ExpectedStatus(failure[r])' = ExpectedStatus(failure[r])
      BY DEF ExpectedStatus
    <3>3. QED
      BY <2>3, <2>5, <2>6, <2>7, <2>8, <2>9, <3>1, <3>2 DEF AnswerOK, sharedVars
  <2>13. ResultOK(r)'
    BY <2>3, <2>6, <2>10, <2>11, <2>12 DEF ResultOK, Failed, Has, sharedVars
  <2>14. LinesOK(r)'
    <3>1. \A i \in Lines(r, "logging", {"completed", "failed"}) :
             i \in DOMAIN lines[r] /\ lines[r][i].event # "completed"
      <4>1. result[r] \notin Responses  BY DEF Failed, Responses
      <4>2. QED  BY <1>1, <4>1 DEF RequestOK, LinesOK, Lines
    <3>2. ~Failed(r)' /\ Caught(result[r].class)
      BY <2>3, <2>6, <2>10 DEF Failed, FailedOK
    <3>3. QED
      BY <1>1, <2>6, <2>7, <2>8, <2>9, <3>1, <3>2 DEF RequestOK, LinesOK, sharedVars
  <2>15. QED  BY <2>6, <2>13, <2>14, OneRequest DEF RequestOK
<1>5. QED  BY <1>3, <1>4

\* ErrorHandlingMiddleware: a response, a cancellation, or an error to be answered.
LEMMA LeaveErrorsKeeps ==
    ASSUME PathInv, NEW r \in Requests, LeaveErrors(r)
    PROVE  PathInv'
<1>1. PathTypeOK /\ RequestOK(r) /\ TranslatorOK /\ At(r, "out", "errors")
  BY DEF PathInv, LeaveErrors
<1>2. UNCHANGED <<sharedVars, sent, own, stateId, failure, attached>>  BY DEF LeaveErrors
<1>3. CASE ~Failed(r)  BY <1>3, PassesResponse
<1>4. CASE Failed(r) /\ ~Caught(failure[r])
  <2>1. result[r] = Exception(failure[r]) /\ failure[r] \in Classes  BY <1>1, <1>4, ErrorsState
  <2>2. result[r].class = failure[r]  BY <2>1, RaisedValues
  <2>3. Outwards(r, Exception(failure[r])) /\ lines' = lines
    BY <1>4, <2>1, <2>2 DEF LeaveErrors, WithHeader
  <2>4. QED  BY <1>1, <1>2, <1>4, <2>1, <2>3, RaisesFurther
<1>5. CASE Failed(r) /\ Caught(failure[r])
  <2> DEFINE class == failure[r]
             error == IF class \in DomainErrors THEN class ELSE TranslateError(mappings, class)
  <2>1. result[r] = Exception(class) /\ class \in Classes  BY <1>1, <1>5, ErrorsState
  <2>2. result[r].class = class  BY <2>1, RaisedValues
  <2>3. IF error \in DomainErrors THEN CreateErrorResponse(r, error)
        ELSE Outwards(r, Exception(error)) /\ UNCHANGED lines
    BY <1>5, <2>2 DEF LeaveErrors
  <2>4. CASE error \in DomainErrors
    <3>1. registered = {} => HttpStatus(error) = ExpectedStatus(class)
      <4>1. registered = {} => mappings = DefaultMappings  BY <1>1 DEF TranslatorOK
      <4>2. QED  BY <1>5, <2>1, <4>1, DefaultStatuses DEF ExpectedStatus
    <3>2. QED  BY <1>1, <1>2, <1>5, <2>3, <2>4, <3>1, MakesEnvelope
  <2>5. CASE error \notin DomainErrors
    <3>1. \A c \in DOMAIN mappings : mappings[c] \in DomainErrors  BY <1>1 DEF TranslatorOK
    <3>2. error = "TypeError" /\ \E c \in DOMAIN mappings : mappings[c] \in NeedsMore
      BY <2>1, <2>5, <3>1, TranslationIsDomain
    <3>3. Excused(r)  BY <1>1, <3>2 DEF TranslatorOK, Excused
    <3>4. "TypeError" \in Classes /\ Caught("TypeError")
      BY ClassesInTiers, KindsOfErrors DEF CaughtClasses, Tier2, Foreign2
    <3> HIDE DEF error
    <3>5. QED  BY <1>1, <1>2, <1>5, <2>3, <2>5, <3>2, <3>3, <3>4, RaisesFurther
  <2>6. QED  BY <2>4, <2>5
<1>6. QED  BY <1>3, <1>4, <1>5

\* The server takes what comes out of the stack.
LEMMA FinishKeeps ==
    ASSUME PathInv, NEW r \in Requests, Finish(r)
    PROVE  PathInv'
<1>1. PathTypeOK /\ RequestOK(r) /\ heading[r] = "out" /\ pos[r] = 0  BY DEF PathInv, Finish
<1>2. UNCHANGED <<sharedVars, sent, pos, own, stateId, failure, lines, attached>>  BY
  DEF Finish
<1>3. Plain \in Responses /\ Plain.kind = "response" /\ Plain # Nothing
  BY DEF Plain, Response, Responses, Ids, Nothing
<1>4. PathTypeOK'  BY <1>1, <1>3 DEF PathTypeOK, Finish, sharedVars, Results
<1>5. \A q \in Requests \ {r} : Same(q)  BY <1>1 DEF Same, PathTypeOK, Finish
<1>6. /\ heading'[r] = "done"
      /\ result'[r] = IF Failed(r) /\ Caught(result[r].class) THEN Plain ELSE result[r]
  BY <1>1 DEF Finish, PathTypeOK
<1>7. /\ DOMAIN stack = 1..Len(stack) /\ Len(stack) \in Nat
      /\ \A i \in DOMAIN stack : i > 0 /\ i # 0 /\ i \in Nat
  BY <1>1, StackIsSequence
<1>8. PlaceOK(r)'  BY <1>1, <1>2, <1>6, <1>7 DEF RequestOK, PlaceOK, sharedVars
<1>9. IdsOK(r)'  BY <1>1, <1>2 DEF RequestOK, IdsOK, sharedVars, Has, OwnId, ClientId
<1>10. \A m : Passed(r, m)' <=> Passed(r, m)  BY <1>1, <1>2, <1>6 DEF Passed, sharedVars
<1>11. ResultOK(r) /\ (Failed(r) => FailedOK(r) /\ result[r] \notin Responses)
  <2>1. \A x \in Responses : x.kind = "response"  BY DEF Responses
  <2>2. QED  BY <1>1, <2>1 DEF RequestOK, ResultOK, Failed
<1>12. ResultOK(r)'
  <2>1. CASE Failed(r) /\ Caught(result[r].class)
    <3>1. Has("errors") => Passed(r, "errors")
      <4>1. Has("errors") => own[r]["errors"] # NoId
        BY <1>11, <2>1 DEF ResultOK, FailedOK, Identifying
      <4>2. QED  BY <1>1, <1>7, <4>1 DEF Passed, Has
    <3>2. PlainOK(r)'
      BY <1>2, <1>11, <2>1, <3>1
         DEF PlainOK, FailedOK, Excused, ClientId, Unconstructible, Has, Lines, sharedVars
    <3>3. QED
      BY <1>2, <1>3, <1>6, <1>11, <2>1, <3>2 DEF ResultOK, Failed, Has, sharedVars
  <2>2. CASE ~(Failed(r) /\ Caught(result[r].class))
    <3>1. result'[r] = result[r] /\ result[r] # Plain
      BY <1>1, <1>6, <1>11, <2>2 DEF ResultOK
    <3>2. FailedOK(r) => FailedOK(r)'
      BY <1>2, <1>10, <3>1
         DEF FailedOK, Excused, ClientId, Unconstructible, Lines, sharedVars
    <3>3. HeaderOK(r) => HeaderOK(r)'  BY <1>2, <3>1 DEF HeaderOK, sharedVars
    <3>4. AnswerOK(r) => AnswerOK(r)'  BY <1>2, <1>10, <3>1 DEF AnswerOK, Lines, sharedVars
    <3>5. Failed(r)' <=> Failed(r)  BY <3>1 DEF Failed
    <3>6. Failed(r)' => ~Caught(result'[r].class)  BY <2>2, <3>1, <3>5
    <3>7. failure[r] # NoFailure => \A l \in Identifying : Has(l)' => own'[r][l] # NoId
      BY <1>2, <1>11 DEF ResultOK, Has, sharedVars
    <3>8. result[r] # Nothing  BY <1>1, <1>11 DEF ResultOK
    <3>9. QED
      BY <1>2, <1>6, <1>11, <3>1, <3>2, <3>3, <3>4, <3>5, <3>6, <3>7, <3>8 DEF ResultOK
  <2>3. QED  BY <2>1, <2>2
<1>13. LinesOK(r)'
  BY <1>1, <1>2, <1>3, <1>6, <1>10, <1>11
     DEF RequestOK, LinesOK, Lines, Failed, sharedVars
<1>14. QED  BY <1>2, <1>4, <1>5, <1>8, <1>9, <1>12, <1>13, OneRequest DEF RequestOK

-----------------------------------------------------------------------------
(* The theorems.                                                           *)

\* The invariant holds before any request has arrived.
LEMMA PathInvInit == Init => PathInv
<1> SUFFICES ASSUME Init PROVE PathInv
  OBVIOUS
<1>1. PathTypeOK
  <2>1. sent \in [Requests -> Sent]  BY DEF Init
  <2>2. <<>> \in Seq(LineRecords) /\ NoId \in Ids /\ Nothing \in Results
    BY DEF Ids, Results
  <2>3. QED  BY <2>1, <2>2 DEF Init, PathTypeOK
<1>2. TranslatorOK
  <2>1. \A c \in DOMAIN DefaultMappings : /\ DefaultMappings[c] \in DomainErrors
                                          /\ DefaultMappings[c] \notin NeedsMore
    BY KindsOfErrors DEF DefaultMappings, NeedsMore, DomainClasses, Domain3, Domain4
  <2>2. QED  BY <2>1 DEF Init, TranslatorOK
<1>3. ASSUME NEW r \in Requests  PROVE RequestOK(r)
  <2>1. /\ pos[r] = 0 /\ heading[r] = "in" /\ own[r] = [l \in Layers |-> NoId]
        /\ stateId[r] = NoId /\ result[r] = Nothing /\ failure[r] = NoFailure
        /\ lines[r] = <<>> /\ attached[r] = 0
    BY DEF Init
  <2>2. /\ Len(stack) \in Nat /\ DOMAIN stack = 1..Len(stack)
        /\ \A i \in DOMAIN stack : stack[i] \in Layers
    BY <1>1, StackIsSequence
  <2>3. PlaceOK(r)  BY <2>1, <2>2 DEF PlaceOK
  <2>4. IdsOK(r)  BY <2>1, <2>2 DEF IdsOK
  <2>5. ResultOK(r)
    BY <2>1 DEF ResultOK, Failed, Nothing, Responses, Plain, Response
  <2>6. LinesOK(r)
    <3>1. "logging" \in Layers  BY DEF Layers
    <3>2. QED  BY <2>1, <3>1 DEF LinesOK, Lines, Passed
  <2>7. QED  BY <2>3, <2>4, <2>5, <2>6 DEF RequestOK
<1>4. QED  BY <1>1, <1>2, <1>3 DEF PathInv

\* Every step keeps the invariant.
LEMMA PathInvStep == PathInv /\ [Next]_vars => PathInv'
<1> SUFFICES ASSUME PathInv, [Next]_vars PROVE PathInv'
  OBVIOUS
<1>1. CASE UNCHANGED vars
  <2>1. UNCHANGED <<stack, corsEnv, mappings, registered, sent, pos, heading, own, stateId,
                    result, failure, lines, attached>>
    BY <1>1 DEF vars, sharedVars
  <2>2. PathTypeOK' /\ TranslatorOK'
    BY <2>1 DEF PathInv, PathTypeOK, TranslatorOK, Unconstructible
  <2>3. ASSUME NEW q \in Requests  PROVE RequestOK(q)'
    BY <2>1, OthersKeep DEF Same
  <2>4. QED  BY <2>2, <2>3 DEF PathInv
<1>2. ASSUME NEW r \in Requests,
             \/ Arrive(r) \/ EnterErrors(r) \/ EnterLogging(r) \/ EnterTracing(r)
             \/ EnterCors(r)
      PROVE  PathInv'
  BY <1>2, ArriveKeeps, EnterErrorsKeeps, EnterLoggingKeeps, EnterTracingKeeps, EnterCorsKeeps
<1>3. ASSUME NEW r \in Requests, HandlerReturns(r) \/ HandlerRaises(r)  PROVE PathInv'
  BY <1>3, HandlerReturnsKeeps, HandlerRaisesKeeps
<1>4. ASSUME NEW r \in Requests,
             \/ LeaveErrors(r) \/ LeaveLogging(r) \/ LeaveTracing(r) \/ LeaveCors(r) \/ Finish(r)
      PROVE  PathInv'
  BY <1>4, LeaveErrorsKeeps, LeaveLoggingKeeps, LeaveTracingKeeps, LeaveCorsKeeps, FinishKeeps
<1>5. CASE Register  BY <1>5, RegisterKeeps
<1>6. QED  BY <1>1, <1>2, <1>3, <1>4, <1>5 DEF Next

\* The values that the variables of a request and of the translator can have.
THEOREM PathTypes == Spec => []PathTypeOK
<1>1. PathInv => PathTypeOK  BY DEF PathInv
<1>2. QED  BY <1>1, PathInvInit, PathInvStep, PTL DEF Spec

\* The invariant holds throughout.
LEMMA PathInvariant == Spec => []PathInv
BY PathInvInit, PathInvStep, PTL DEF Spec

\* An answered request is out of the stack, and what it has is a response.
LEMMA AnsweredState ==
    ASSUME PathInv, NEW r \in Requests, Done(r)
    PROVE  /\ pos[r] = 0 /\ attached[r] = 0
           /\ DOMAIN stack \subseteq Nat
           /\ \A i \in DOMAIN stack : i > 0 /\ i <= Len(stack)
           /\ Len(stack) \in Nat
           /\ \A l \in Layers : Passed(r, l) <=> own[r][l] # NoId
           /\ ~Failed(r) => result[r] \in Responses
<1>1. PathTypeOK /\ RequestOK(r)  BY DEF PathInv
<1>2. heading[r] = "done" /\ pos[r] = 0  BY <1>1 DEF Done, RequestOK, PlaceOK
<1>3. /\ DOMAIN stack \subseteq Nat
      /\ \A i \in DOMAIN stack : i > 0 /\ i <= Len(stack)
      /\ Len(stack) \in Nat
  BY <1>1, StackIsSequence
<1>4. attached[r] = 0  BY <1>1, <1>2, <1>3 DEF RequestOK, PlaceOK
<1>5. \A l \in Layers : own[r][l] # NoId => Has(l)  BY <1>1 DEF RequestOK, IdsOK
<1>6. \A l \in Layers : Passed(r, l) <=> own[r][l] # NoId
  BY <1>2, <1>3, <1>5 DEF Passed, Has
<1>7. ~Failed(r) => result[r] \in Responses
  <2>1. result[r] \in Results /\ result[r] # Nothing
    BY <1>1, <1>2 DEF PathTypeOK, RequestOK, ResultOK
  <2>2. \A c \in Classes : Exception(c).kind = "raised"  BY DEF Exception
  <2>3. QED  BY <2>1, <2>2 DEF Results, Failed
<1>8. QED  BY <1>2, <1>3, <1>4, <1>6, <1>7

\* What a handler raises reaches the client as an envelope with the status of its class
\* and under an id of the log, unless the id is too long or a mapping cannot be used.
THEOREM ErrorsReachClients == Spec => []ErrorsAnswered
<1>1. ASSUME PathInv, NEW r \in Requests, Answered(r), failure[r] # NoFailure, Has("errors")
      PROVE  IF result[r] = Plain
             THEN /\ ClientId(sent[r]) \in LongIds \/ Unconstructible
                  /\ Lines(r, "errors", {"error"}) = {}
             ELSE /\ result[r].error \in DomainErrors
                  /\ \E i \in Lines(r, "errors", {"error"}) :
                        /\ lines[r][i].id = result[r].body
                        /\ lines[r][i].what = result[r].error
                  /\ registered = {} => result[r].status = ExpectedStatus(failure[r])
  <2>1. RequestOK(r) /\ result[r] \in Responses
    BY <1>1, AnsweredState DEF PathInv, Answered
  <2>2. CASE result[r] = Plain
    BY <1>1, <2>1, <2>2 DEF RequestOK, ResultOK, PlainOK, Excused
  <2>3. CASE result[r] # Plain
    BY <1>1, <2>1, <2>3 DEF RequestOK, ResultOK, AnswerOK
  <2>4. QED  BY <2>2, <2>3
<1>2. PathInv => ErrorsAnswered  BY <1>1 DEF ErrorsAnswered
<1>3. QED  BY <1>2, PathInvariant, PTL

\* Every request is accounted for: no trace context is left attached, and the line that
\* says that it started has exactly one that says how it ended, with the client's status.
THEOREM RequestsAreAccounted == Spec => []RequestsAccounted
<1>1. ASSUME PathInv, NEW r \in Requests, Done(r)
      PROVE  /\ attached[r] = 0
             /\ LET started == Lines(r, "logging", {"started"})
                    ended == Lines(r, "logging", {"completed", "failed"})
                IN  /\ own[r]["logging"] # NoId <=> started = {1}
                    /\ Answered(r) /\ started # {} => \E i \in ended : ended = {i} /\ i > 1
                    /\ ~Answered(r) => ended = {}
                    /\ \A i \in ended : lines[r][i].event = "completed" =>
                          lines[r][i].what = result[r].status
  <2> DEFINE started == Lines(r, "logging", {"started"})
             ended == Lines(r, "logging", {"completed", "failed"})
  <2>1. RequestOK(r) /\ "logging" \in Layers  BY <1>1 DEF PathInv, Layers
  <2>2. attached[r] = 0 /\ (Passed(r, "logging") <=> own[r]["logging"] # NoId)
    BY <1>1, <2>1, AnsweredState
  <2>3. started = IF own[r]["logging"] # NoId THEN {1} ELSE {}  BY <2>1
                                                                   DEF RequestOK, LinesOK
  <2>4. Failed(r) => ~Caught(result[r].class)
    BY <1>1, <2>1 DEF RequestOK, ResultOK, Done
  <2>5. Answered(r) <=> ~Failed(r)  BY <1>1 DEF Answered
  <2>6. /\ ~Passed(r, "logging") => ended = {}
        /\ Passed(r, "logging") =>
              IF Failed(r) /\ ~Caught(result[r].class) THEN ended = {}
              ELSE \E i \in ended : ended = {i} /\ i > 1
        /\ \A i \in ended : lines[r][i].event = "completed" =>
              lines[r][i].what = result[r].status
    BY <2>1 DEF RequestOK, LinesOK
  <2> HIDE DEF started, ended
  <2>7. /\ own[r]["logging"] # NoId <=> started = {1}
        /\ Answered(r) /\ started # {} => \E i \in ended : ended = {i} /\ i > 1
        /\ ~Answered(r) => ended = {}
    BY <2>2, <2>3, <2>4, <2>5, <2>6
  <2>8. QED  BY <2>2, <2>6, <2>7 DEF started, ended
<1>2. PathInv => RequestsAccounted  BY <1>1 DEF RequestsAccounted
<1>3. QED  BY <1>2, PathInvariant, PTL

\* A bounded set of numbers that is not empty has a greatest one.
LEMMA GreatestExists ==
    ASSUME NEW n \in Nat, NEW S \in SUBSET (0..n), S # {}
    PROVE  \E m \in S : \A k \in S : k <= m
<1> DEFINE T == {n - k : k \in S}
<1>1. T \in SUBSET Nat /\ T # {}
  <2>1. \A k \in S : n - k \in Nat  OBVIOUS
  <2>2. PICK k \in S : TRUE  OBVIOUS
  <2>3. n - k \in T  OBVIOUS
  <2>4. QED  BY <2>1, <2>3
<1>2. PICK t \in T : \A u \in T : t <= u
  <2> HIDE DEF T
  <2>1. QED  BY <1>1, LeastExists
<1>3. PICK m \in S : t = n - m  BY <1>2
<1>4. ASSUME NEW k \in S  PROVE k <= m
  <2>1. n - m <= n - k  BY <1>2, <1>3
  <2>2. QED  BY <2>1
<1>5. QED  BY <1>4

\* The ids that a client can see agree: with its own if it sent one, and otherwise the
\* header has that of the outermost middleware and the handler that of the innermost.
THEOREM IdsOfRequestAgree == Spec => []IdsAgree
<1>1. ASSUME PathInv, NEW r \in Requests, Answered(r), result[r].error # "plain",
             stateId[r] # NoId
      PROVE  LET ids == {i \in DOMAIN stack : own[r][stack[i]] # NoId}
                 outermost == CHOOSE i \in ids : \A j \in ids : i <= j
                 innermost == CHOOSE i \in ids : \A j \in ids : j <= i
             IN  /\ result[r].header = own[r][stack[outermost]]
                 /\ stateId[r] = own[r][stack[innermost]]
                 /\ result[r].body \in {NoId, IF result[r].error = NoFailure THEN stateId[r]
                                              ELSE own[r]["errors"]}
                 /\ ClientId(sent[r]) # NoId =>
                       /\ result[r].header = ClientId(sent[r])
                       /\ result[r].body \in {NoId, ClientId(sent[r])}
                       /\ \A i \in DOMAIN lines[r] : lines[r][i].id = ClientId(sent[r])
  <2> DEFINE ids == {i \in DOMAIN stack : own[r][stack[i]] # NoId}
             outermost == CHOOSE i \in ids : \A j \in ids : i <= j
             innermost == CHOOSE i \in ids : \A j \in ids : j <= i
             id == ClientId(sent[r])
  <2>1. RequestOK(r) /\ PathTypeOK /\ Done(r) /\ ~Failed(r)  BY <1>1 DEF PathInv, Answered
  <2>2. /\ pos[r] = 0 /\ result[r] \in Responses /\ Len(stack) \in Nat
        /\ DOMAIN stack \subseteq Nat
        /\ \A i \in DOMAIN stack : i > 0 /\ i <= Len(stack)
        /\ \A i \in DOMAIN stack : stack[i] \in Layers
    <3>1. \A i \in DOMAIN stack : stack[i] \in Layers  BY <2>1, StackIsSequence
    <3>2. QED  BY <1>1, <2>1, <3>1, AnsweredState
  <2>3. result[r] # Plain
    <3>1. Plain.error = "plain"  BY DEF Plain, Response
    <3>2. QED  BY <1>1, <3>1
  <2>4. HeaderOK(r) /\ AnswerOK(r)  BY <2>1, <2>2, <2>3 DEF RequestOK, ResultOK
  <2>5. ids # {} /\ ids \in SUBSET Nat /\ ids \in SUBSET (0..Len(stack))
    <3>1. ids # {}  BY <1>1, <2>1 DEF RequestOK, IdsOK
    <3>2. \A i \in DOMAIN stack : i \in Nat /\ i \in 0..Len(stack)  BY <2>2
    <3>3. QED  BY <3>1, <3>2
  <2>6. outermost \in ids /\ \A j \in ids : outermost <= j
    <3>1. \E i \in ids : \A j \in ids : i <= j
      <4> HIDE DEF ids
      <4>1. QED  BY <2>5, LeastExists
    <3>2. QED  BY <3>1
  <2>7. innermost \in ids /\ \A j \in ids : j <= innermost
    <3>1. \E i \in ids : \A j \in ids : j <= i
      <4> HIDE DEF ids
      <4>1. QED  BY <2>2, <2>5, GreatestExists
    <3>2. QED  BY <3>1
  <2> HIDE DEF outermost, innermost
  <2>8. result[r].header = own[r][stack[outermost]]
    <3>1. outermost > pos[r] /\ \A i \in DOMAIN stack : i > pos[r]  BY <2>2, <2>6
    <3>2. QED  BY <2>4, <2>6, <3>1 DEF HeaderOK
  <2>9. stateId[r] = own[r][stack[innermost]]  BY <2>1, <2>7 DEF RequestOK, IdsOK
  <2>10. result[r].body \in {NoId, IF result[r].error = NoFailure THEN stateId[r]
                                   ELSE own[r]["errors"]}
    BY <2>4 DEF AnswerOK
  <2>11. ASSUME id # NoId
         PROVE  /\ result[r].header = id
                /\ result[r].body \in {NoId, id}
                /\ \A i \in DOMAIN lines[r] : lines[r][i].id = id
    <3>1. \A l \in Layers : own[r][l] # NoId => own[r][l] = id
      BY <2>1, <2>11, OwnIds DEF RequestOK, IdsOK
    <3>2. own[r][stack[outermost]] = id /\ own[r][stack[innermost]] = id
      BY <2>2, <2>6, <2>7, <3>1
    <3>3. result[r].error # NoFailure => own[r]["errors"] = id
      <4>1. result[r].error # NoFailure => own[r]["errors"] # NoId
        BY <2>4 DEF AnswerOK, Passed
      <4>2. QED  BY <3>1, <4>1 DEF Layers
    <3>4. \A i \in DOMAIN lines[r] : lines[r][i].id = id
      BY <2>1, <2>11 DEF RequestOK, IdsOK
    <3>5. QED  BY <2>8, <2>9, <2>10, <3>2, <3>3, <3>4
  <2>12. QED  BY <2>8, <2>9, <2>10, <2>11 DEF outermost, innermost
<1>2. PathInv => IdsAgree  BY <1>1 DEF IdsAgree
<1>3. QED  BY <1>2, PathInvariant, PTL

=============================================================================
