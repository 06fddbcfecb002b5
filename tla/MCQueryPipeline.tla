-------------------------- MODULE MCQueryPipeline --------------------------
(* Small instances of QueryPipeline: a query and a stream of one session.  *)
EXTENDS QueryPipeline

CONSTANTS q1, s1, chat

Config(type, id, bucket, sources, a2a) ==
    [type |-> type, id |-> id, bucket |-> bucket, sources |-> sources, a2a |-> a2a]

\* A configuration of each kind; a source and an A2A agent with some of them.
MCConfigs == {
    Config("none", NoId, FALSE, TRUE, TRUE),
    Config("file", NoId, FALSE, FALSE, TRUE),
    Config("file", chat, FALSE, TRUE, FALSE),
    Config("s3", NoId, TRUE, FALSE, FALSE),
    Config("s3", chat, FALSE, FALSE, FALSE),
    Config("other", chat, FALSE, FALSE, FALSE) }

MCSessionOf == [r \in {q1, s1} |-> IF r = q1 THEN chat ELSE NoId]

=============================================================================
