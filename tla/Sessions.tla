------------------------------ MODULE Sessions ------------------------------
(***************************************************************************)
(* Persisted chat sessions: the session managers that StrandsAgentFactory  *)
(* makes, and the calls of ChatHistorian and of destroy_session on them.   *)
(*                                                                         *)
(* What a session manager does is inside an external library: it reads the *)
(* session it is made for, and creates it when there is none.  Of what is  *)
(* stored the model keeps whether session.json is there and under which    *)
(* key it is sealed.  No call below suspends, so each is one action.       *)
(***************************************************************************)
EXTENDS Naturals

CONSTANTS
    SessionIds,   \* the ids a request or the configuration may name
    Default,      \* the id "default"
    NoId,         \* no id
    Keys,         \* the encryption keys that may be in use
    PastKeys,     \* keys in use when files were written, and no longer
    NoKey,        \* SESSION_ENCRYPTION_KEY is not set, or is no 64 hex digits
    Clear,        \* the seal of a session written without encryption
    Absent,       \* there is no such session
    Configs,      \* the configurations: type, id, and whether a bucket is named
    MaxCalls      \* bound: calls of the historian and of destroy_session

ASSUME SessionsAssumption ==
    /\ NoId \notin SessionIds
    /\ Default \notin {NoId, Absent}
    /\ (Keys \union PastKeys) \intersect {NoKey, Clear, Absent} = {}
    /\ NoKey \notin {Clear, Absent}
    /\ Clear # Absent
    /\ MaxCalls \in Nat
    /\ \A c \in Configs : /\ c.type \in {"none", "file", "s3", "other"}
                          /\ c.id \in SessionIds \union {NoId}
                          /\ c.bucket \in BOOLEAN

Stored == SessionIds \union {Default}

VARIABLES
    config,   \* the session settings of AgentConfig
    key,      \* what load_encryption_key finds in the environment
    store,    \* the seal of each stored session
    calls,    \* how many calls were made
    reply     \* the last call and how it ended

sessionVars == <<config, key, store, calls, reply>>

\* What an earlier run of the program may have left: legacy files without
\* encryption, and files sealed under a key that is not in use any more.
Leftover(c) == {Absent, Clear} \union (IF c.type = "s3" THEN {} ELSE Keys \union PastKeys)

SessionsInit ==
    /\ config \in Configs
    /\ key \in Keys \union {NoKey}
    /\ store \in [Stored -> Leftover(config)]
    /\ calls = 0
    /\ reply = [op |-> "none", session |-> NoId, ok |-> TRUE, sessions |-> {}]

-----------------------------------------------------------------------------
(* Session managers.                                                       *)

\* _read_file: a file that is not sealed is read as it is, another one opens
\* under its own key only.
Readable(s) == store[s] \in {Absent, Clear, key}

\* A fault the checks must find: a file manager is made without a key.
ManagerOpensUnsealed(type, s) ==
    \/ type = "file" /\ Readable(s)
    \/ type = "s3" /\ config.bucket

\* _create_session_manager returns a manager; otherwise it raises
\* AgentCreationError, whatever went wrong.
ManagerOpens(type, s) ==
    \/ type = "file" /\ key # NoKey /\ Readable(s)
    \/ type = "s3" /\ config.bucket

\* The store once there is a manager for s.
Opened(type, s) ==
    IF store[s] # Absent THEN store
    ELSE [store EXCEPT ![s] = IF type = "file" THEN key ELSE Clear]

\* create_session_repository: the id of the repository's own session.
RepositoryId == IF config.id = NoId THEN Default ELSE config.id

RepositoryOpens == config.type # "none" /\ ManagerOpens(config.type, RepositoryId)

WithRepository == Opened(config.type, RepositoryId)

\* create_agent: the session of an agent for a request that names the id s.
AgentSession(s) == IF s # NoId THEN s ELSE config.id

AgentSessionType == IF config.type = "none" THEN "file" ELSE config.type

AgentSessionOpens(s) ==
    IF AgentSession(s) = NoId THEN TRUE
    ELSE ManagerOpens(AgentSessionType, AgentSession(s))

WithAgentSession(s) ==
    IF AgentSession(s) = NoId THEN store ELSE Opened(AgentSessionType, AgentSession(s))

-----------------------------------------------------------------------------
(* ChatHistorian.  Every call makes the repository first, and fails with   *)
(* QueryProcessingError when that fails or when there is none.             *)

Called(op, s, ok, sessions) ==
    /\ calls < MaxCalls
    /\ calls' = calls + 1
    /\ reply' = [op |-> op, session |-> s, ok |-> ok, sessions |-> sessions]
    /\ UNCHANGED <<config, key>>

Refused(op, s) ==
    /\ ~RepositoryOpens
    /\ Called(op, s, FALSE, {})
    /\ UNCHANGED store

\* The metadata of a listed session is the text of session.json, not decrypted;
\* nothing is listed of S3.
Listed(st) == IF config.type = "s3" THEN {} ELSE {s \in Stored : st[s] = Clear}

GetChatSessionsHistory ==
    \/ Refused("list", NoId)
    \/ /\ RepositoryOpens
       /\ store' = WithRepository
       /\ Called("list", NoId, TRUE, Listed(store'))

\* A fault the checks must find: the repository is made for the session read.
GetMessagesOfManaged(s) ==
    \/ Refused("messages", s)
    \/ /\ RepositoryOpens
       /\ store' = Opened(config.type, s)
       /\ Called("messages", s, Readable(s), {})

\* A session that is not there has no messages; one under another key raises when
\* it has any.
GetChatSessionMessagesHistory(s) ==
    \/ Refused("messages", s)
    \/ /\ RepositoryOpens
       /\ store' = WithRepository
       /\ \E ok \in (IF Readable(s) THEN {TRUE} ELSE BOOLEAN) : Called("messages", s, ok, {})

\* " already exists" is no error.
CreateChatSession(s) ==
    \/ Refused("create", s)
    \/ /\ RepositoryOpens
       /\ store' = IF WithRepository[s] # Absent THEN WithRepository
                   ELSE [WithRepository EXCEPT
                           ![s] = IF config.type = "file" THEN key ELSE Clear]
       /\ Called("create", s, TRUE, {})

\* A fault the checks must find: the session goes before the repository is made.
DeleteThenOpen(s) ==
    \/ Refused("delete", s)
    \/ /\ RepositoryOpens
       /\ store' = [r \in Stored |->
                      IF r = RepositoryId THEN WithRepository[r]
                      ELSE IF r = s THEN Absent ELSE store[r]]
       /\ Called("delete", s, TRUE, {})

\* delete_chat_session_messages_history and on_logoff; " does not exist" is no error.
DeleteChatSession(s) ==
    \/ Refused("delete", s)
    \/ /\ RepositoryOpens
       /\ store' = [WithRepository EXCEPT ![s] = Absent]
       /\ Called("delete", s, TRUE, {})

-----------------------------------------------------------------------------
(* StrandsAgentFactory.destroy_session and AgentService.process_query.     *)

\* The manager of the session itself reads or creates it, then deletes it.
DestroySession(s) ==
    IF ManagerOpens(AgentSessionType, s)
    THEN /\ store' = [store EXCEPT ![s] = Absent]
         /\ Called("destroy", s, TRUE, {})
    ELSE /\ Called("destroy", s, FALSE, {})
         /\ UNCHANGED store

\* What process_query does before anything else: the session of the repository
\* exists afterwards, and a failure is only logged.
EnsureSession ==
    /\ store' = IF RepositoryOpens THEN WithRepository ELSE store
    /\ UNCHANGED <<config, key, calls, reply>>

HistorianStep ==
    \/ GetChatSessionsHistory
    \/ \E s \in Stored : \/ GetChatSessionMessagesHistory(s) \/ CreateChatSession(s)
                         \/ DeleteChatSession(s) \/ DestroySession(s)

-----------------------------------------------------------------------------
(* Properties.                                                             *)

SessionsTypeOK ==
    /\ config \in Configs
    /\ key \in Keys \union {NoKey}
    /\ store \in [Stored -> Keys \union PastKeys \union {Clear, Absent}]
    /\ calls \in 0..MaxCalls
    /\ reply \in [op : {"none", "list", "messages", "create", "delete", "destroy"},
                  session : Stored \union {NoId}, ok : BOOLEAN, sessions : SUBSET Stored]

\* on_logoff "destroys all persisted session state": when the deletion of a
\* session reports success the session is gone, and when it raises the session
\* is as it was, under whatever key it is sealed and whoever uses it.
LogoffSound ==
    [][calls' # calls /\ reply'.op \in {"delete", "destroy"} =>
         store'[reply'.session] = IF reply'.ok THEN Absent ELSE store[reply'.session]
      ]_sessionVars

-----------------------------------------------------------------------------
(* What the documentation says and the code does not do.                   *)

\* get_chat_sessions_history: "Retrieves a list of all chat sessions".
ListsAllSessions ==
    [][calls' # calls /\ reply'.op = "list" /\ reply'.ok =>
         reply'.sessions = {s \in Stored : store'[s] # Absent}
      ]_sessionVars

=============================================================================
