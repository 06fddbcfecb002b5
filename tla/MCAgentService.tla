--------------------------- MODULE MCAgentService ---------------------------
(* Small instances of AgentService: a cfg names the calls, and says which  *)
(* texts and strategies they have.                                         *)
EXTENDS AgentService

CONSTANT Resilient   \* the requests whose strategy asks for a retry context

MCRequests == Queries \union Streams

\* One text sent by every query, and a text of its own for every query.
MCSameText == [q \in Queries |-> "text"]
MCOwnText == [q \in Queries |-> q]

MCStrategy == [r \in MCRequests |-> IF r \in Resilient THEN "resilient" ELSE "standard"]

=============================================================================
