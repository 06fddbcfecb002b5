------------------------- MODULE MCConfigurationLoad -------------------------
(* A small instance of ConfigurationLoad: some fields of StrandsAgentConfig,  *)
(* and variables that set them, parts of them, or what they are part of.      *)
EXTENDS ConfigurationLoad, TLC

Dict(items) ==
    [p \in {<<>>} \union UNION {{<<k>> \o q : q \in DOMAIN items[k]} : k \in DOMAIN items} |->
        IF p = <<>> THEN Folder ELSE items[Head(p)][Tail(p)]]

\* A raw value of no special form.
Plain(text) ==
    [text |-> text, stripped |-> text, lower |-> text, opens |-> "", json |-> NotJson,
     items |-> Leaf([list |-> <<text>>]), int |-> FALSE, float |-> FALSE, large |-> FALSE,
     long |-> FALSE]

One == [Plain("1") EXCEPT !.json = Leaf(Number("1")), !.int = TRUE, !.float = TRUE]
Object == [Plain("{...}") EXCEPT !.opens = "{",
               !.json = Dict([region |-> Text("x"), zone |-> Dict([a |-> Text("y")])])]
Broken == [Plain("{") EXCEPT !.opens = "{"]
HugeObject == [Object EXCEPT !.large = TRUE]
HugeText == [Plain("...") EXCEPT !.long = TRUE]
Quoted == [Plain("'q'") EXCEPT !.opens = "quote", !.json = Text("q")]
Padded == [Plain(" True ") EXCEPT !.stripped = "True", !.lower = "true"]

Set(path, value) == [path |-> path, value |-> value]

MCVariables == {
    Set(<<"MODEL">>, Object), Set(<<"MODEL", "TEMPERATURE">>, One),
    Set(<<"model", "temperature">>, Plain("warm")),
    Set(<<"AGENT">>, Object), Set(<<"AGENT">>, HugeObject), Set(<<"AGENT", "ZONE">>, Broken),
    Set(<<"AGENT", "ZONE", "A">>, Quoted), Set(<<"AGENT", "REGION", "A">>, Padded),
    Set(<<"SESSION_TYPE">>, Plain("s3")), Set(<<"SESSION_S3_BUCKET">>, Padded),
    Set(<<"ENABLE_MEMORY">>, One), Set(<<"MODEL", "", "A">>, One), Set(<<"LONG">>, One),
    Set(<<"AGENT", "ZONE", "A", "A">>, One), Set(<<"MODEL">>, HugeText),
    Set(<<"TOOLS">>, [Plain("a,b") EXCEPT !.items = Leaf([list |-> <<"a", "b">>])]) }

MCLower == [MODEL |-> "model", model |-> "model", TEMPERATURE |-> "temperature",
            temperature |-> "temperature", AGENT |-> "agent", ZONE |-> "zone", A |-> "a",
            REGION |-> "region", SESSION_TYPE |-> "session_type",
            SESSION_S3_BUCKET |-> "session_s3_bucket", ENABLE_MEMORY |-> "enable_memory",
            LONG |-> "long", TOOLS |-> "tools"] @@ ("" :> "")

MCHints == [
    Config |-> [model |-> <<"class", "Model">>, agent |-> <<"dict">>, tools |-> <<"list", "str">>,
                session_type |-> <<"optional", "class">>, enable_memory |-> <<"bool">>,
                session_s3_bucket |-> <<"optional", "str">>],
    Model |-> [temperature |-> <<"float">>] ]

Kind(kind) == [kind |-> kind, strings |-> TRUE]

File(tree, strings) == [kind |-> "mapping", tree |-> tree, strings |-> strings]

MCFiles == {Kind(k) : k \in {"missing", "large", "invalid", "no mapping", "unreadable", "empty"}}
    \union {
        File(Dict([model |-> Dict([temperature |-> Leaf(Number("0")), region |-> Text("r")]),
                   agent |-> Text("none")]), TRUE),
        File(Dict([agent |-> Dict([zone |-> Dict([a |-> Text("1"), b |-> Text("2")]),
                                   region |-> EmptyDict])]), FALSE) }

=============================================================================
