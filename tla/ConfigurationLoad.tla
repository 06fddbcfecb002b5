-------------------------- MODULE ConfigurationLoad --------------------------
(***************************************************************************)
(* load_config: a YAML file, overlaid with the environment variables of a  *)
(* prefix, validated as a StrandsAgentConfig.                              *)
(*                                                                         *)
(* The environment is a dictionary, whose order the program does not       *)
(* choose: the variables are read in any order, and what was read first is *)
(* merged first.  A raw value is a record of what its text is to the       *)
(* parsers that look at it.                                                *)
(***************************************************************************)
EXTENDS Integers, Sequences, FiniteSets, ConfigTree

CONSTANTS
    Files,           \* what the YAML file may be
    Variables,       \* environment variables: their path and value
    Lower,           \* the lower case of each segment of a path
    LongSegments,    \* the segments that are too long
    Hints,           \* for each class the types of its fields
    Root,            \* the class of the configuration
    MaxOverrides,    \* _MAX_ENV_OVERRIDES
    MaxDepth,        \* _MAX_ENV_PATH_DEPTH
    MaxSet           \* bound: variables that are set in one environment

ASSUME LoadAssumption ==
    /\ MaxOverrides \in Nat /\ MaxDepth \in Nat /\ MaxSet \in Nat
    /\ \A k \in DOMAIN Lower : Lower[k] \in STRING
    /\ \A f \in Files : f.kind = "mapping" => IsDict(f.tree)
    /\ \A x \in Variables : /\ x.path \in Seq(DOMAIN Lower) /\ x.path # <<>>
                            /\ IsTree(x.value.json) /\ IsTree(x.value.items)

VARIABLES
    phase,       \* start, collecting, merging, done
    file,        \* the YAML file
    environ,     \* the variables with the prefix
    unread,      \* those that are still to be read
    paths,       \* the keys of overrides in the order of the dictionary
    overrides,   \* the override of each of them
    merged,      \* the dictionary that the overrides are merged into
    applied,     \* how many of them have been
    error        \* the exception that load_config raises

vars == <<phase, file, environ, unread, paths, overrides, merged, applied, error>>

NoError == "none"

-----------------------------------------------------------------------------
(* Types and values.                                                       *)

NoType == <<"none">>

Value(x) == [value |-> x]
Number(x) == [number |-> x]
Text(x) == Leaf(Value(x))

\* The fields of a type; an optional class has none here.
Fields(type) == IF type[1] = "class" THEN Hints[type[2]] ELSE [f \in {} |-> NoType]

\* _resolve_field_type: the loop goes on from a field to the fields of its class.
ResolveFieldType(path) ==
    LET type[i \in 0..Len(path)] ==
            IF i = 0 THEN <<"class", Root>>
            ELSE IF path[i] \in DOMAIN Fields(type[i - 1]) THEN Fields(type[i - 1])[path[i]]
            ELSE NoType
    IN  type[Len(path)]

\* A value is too large if _enforce_json_structure_bounds raises.
NotJson == Text("not JSON")
TooLarge == Text("too large")

Json(v, otherwise) == IF v.json = NotJson THEN otherwise
                      ELSE IF v.large THEN TooLarge ELSE v.json

CoerceToType(v, type) ==
    LET plain == IF type[1] = "optional" THEN Tail(type) ELSE type
    IN  CASE plain = <<"list", "str">> -> IF v.opens = "[" THEN Json(v, v.items) ELSE v.items
          [] plain[1] = "list" /\ plain # <<"list", "str">> -> Json(v, v.items)
          [] plain[1] = "dict" -> Json(v, Text(v.stripped))
          [] plain[1] = "int" -> IF v.int THEN Leaf(Number(v.stripped))
                                 ELSE Text(v.stripped)
          [] plain[1] = "float" -> IF v.float THEN Leaf(Number(v.stripped))
                                   ELSE Text(v.stripped)
          [] plain[1] = "bool" -> Text(IF v.lower \in {"true", "1", "yes"} THEN "True" ELSE "False")
          [] OTHER -> Text(v.stripped)

ParseEnvValue(v, type) ==
    IF type # NoType THEN CoerceToType(v, type)
    ELSE IF v.opens \in {"[", "{"} THEN Json(v, Text(v.text))
    ELSE IF v.opens = "quote" THEN (IF v.json = NotJson THEN Text(v.text) ELSE v.json)
    ELSE IF v.lower = "true" THEN Text("True")
    ELSE IF v.lower = "false" THEN Text("False")
    ELSE IF v.lower = "null" THEN Text("None") ELSE Text(v.text)

Parsed(path, v) == ParseEnvValue(v, ResolveFieldType(path))

-----------------------------------------------------------------------------
(* The steps of load_config.                                               *)

Init ==
    /\ phase = "start"
    /\ file \in Files
    /\ environ \in {E \in SUBSET Variables :
                       /\ IsFiniteSet(E) /\ Cardinality(E) <= MaxSet
                       /\ \A x, y \in E : x.path = y.path => x = y}
    /\ unread = environ
    /\ paths = <<>>
    /\ overrides = <<>>
    /\ merged = EmptyDict
    /\ applied = 0
    /\ error = NoError

Loaded == file.kind \in {"empty", "mapping"}

Fail(class) == phase' = "done" /\ error' = class

\* _load_yaml: what stat and open raise beyond FileNotFoundError is not wrapped.
LoadYaml ==
    /\ phase = "start"
    /\ \/ /\ file.kind \in {"missing", "large", "invalid", "no mapping"}
          /\ Fail("ConfigLoadingError")
          /\ UNCHANGED merged
       \/ /\ file.kind = "unreadable"
          /\ Fail("OSError")
          /\ UNCHANGED merged
       \/ /\ Loaded
          /\ phase' = "collecting"
          /\ merged' = IF file.kind = "empty" THEN EmptyDict ELSE file.tree
          /\ UNCHANGED error
    /\ UNCHANGED <<file, environ, unread, paths, overrides, applied>>

\* A fault the checks must find: one override more than the limit.
FullWithOneMore(x) == Len(paths) > MaxOverrides

\* The count is looked at before a variable is, new or not.
Full(x) == Len(paths) >= MaxOverrides

Malformed(x) ==
    \/ Len(x.path) > MaxDepth
    \/ \E i \in DOMAIN x.path : x.path[i] = "" \/ x.path[i] \in LongSegments
    \/ x.value.long

\* _collect_env_overrides, one variable: of two that differ in case only the later
\* replaces the value of the earlier and keeps its place.
Lowered(x) == [i \in DOMAIN x.path |-> Lower[x.path[i]]]

Collect ==
    /\ phase = "collecting"
    /\ \E x \in unread :
          \/ /\ Full(x) \/ Malformed(x)
             /\ Fail("ConfigLoadingError")
             /\ UNCHANGED <<unread, paths, overrides>>
          \/ /\ ~Full(x) /\ ~Malformed(x)
             /\ unread' = unread \ {x}
             /\ paths' = IF Lowered(x) \in DOMAIN overrides THEN paths
                         ELSE Append(paths, Lowered(x))
             /\ overrides' = [p \in DOMAIN overrides \union {Lowered(x)} |->
                                IF p = Lowered(x) THEN x.value ELSE overrides[p]]
             /\ UNCHANGED <<phase, error>>
    /\ UNCHANGED <<file, environ, merged, applied>>

EndCollect ==
    /\ phase = "collecting"
    /\ unread = {}
    /\ phase' = "merging"
    /\ UNCHANGED <<file, environ, unread, paths, overrides, merged, applied, error>>

\* _merge_overrides, one override, on a copy of the file's tree.
Merge ==
    /\ phase = "merging"
    /\ applied < Len(paths)
    /\ LET path == paths[applied + 1]
           value == Parsed(path, overrides[path])
       IN  \/ /\ value = TooLarge
              /\ Fail("ConfigLoadingError")
              /\ UNCHANGED <<merged, applied>>
           \/ /\ value # TooLarge
              /\ merged' = SetNested(merged, path, value)
              /\ applied' = applied + 1
              /\ UNCHANGED <<phase, error>>
    /\ UNCHANGED <<file, environ, unread, paths, overrides>>

-----------------------------------------------------------------------------
(* Validation.  The checks that the fields make by themselves are external. *)

Field(name) == IF <<name>> \in DOMAIN merged THEN merged[<<name>>] ELSE Value("None")

Given(name) == Field(name) \notin {Value("None"), Value("")}

S3 == Field("session_type") \in {Value("s3"), Value("S3")}

\* coerce_session_type
SessionTypeKnown ==
    Field("session_type") \in {Value(t) : t \in {"None", "file", "FILE", "s3", "S3"}}

\* validate_cross_field_constraints
CrossFieldConstraints ==
    /\ Field("enable_memory") = Value("True") => Given("knowledge_base_id")
    /\ S3 => Given("session_s3_bucket")

FieldsValid == /\ <<"model">> \in DOMAIN merged => Field("model") = Folder
               /\ Field("enable_memory") # Folder

\* An InvalidConfigurationError is no ValueError: it leaves the validation, and
\* load_config, as it is.
Validate ==
    /\ phase = "merging"
    /\ applied = Len(paths)
    /\ phase' = "done"
    /\ error' = IF ~file.strings THEN "TypeError"
                ELSE IF ~SessionTypeKnown THEN "InvalidConfigurationError"
                ELSE IF ~FieldsValid THEN "ConfigLoadingError"
                ELSE IF ~CrossFieldConstraints THEN "InvalidConfigurationError" ELSE NoError
    /\ UNCHANGED <<file, environ, unread, paths, overrides, merged, applied>>

Next == LoadYaml \/ Collect \/ EndCollect \/ Merge \/ Validate

Spec == Init /\ [][Next]_vars

-----------------------------------------------------------------------------
(* Properties.                                                             *)

\* The settings of a dictionary, none if it is empty.
Settings(t) == Leaves(t) \ {<< <<>>, Folder >>}

Base == IF file.kind = "mapping" THEN Settings(file.tree) ELSE {}

\* What an override sets.
Layer(p, v) == {<<p \o leaf[1], leaf[2]>> : leaf \in Leaves(Parsed(p, v))}

\* What the file and the overrides merged so far give.
Layered ==
    Settings(merged) =
        {s \in Base : \A i \in 1..applied : ~Related(paths[i], s[1])}
        \union UNION {{s \in Layer(paths[i], overrides[paths[i]]) :
                         \A j \in (i + 1)..applied : ~Related(paths[j], s[1])} :
                      i \in 1..applied}

\* The merged configuration is what the layers give, the file lowest and then the
\* overrides in the order of the environment: a setting of a layer is there exactly
\* if no later layer sets it, something above it or something below it.  What two
\* settings leave of a third does not depend on where dictionaries were before.
LayersHold == phase = "merging" => Layered

\* No two variables set one setting, in different cases.
CasesApart == \A x, y \in environ : Lowered(x) = Lowered(y) => x = y

\* No variable sets something above or below what another sets.
Apart == \A x, y \in environ : Related(Lowered(x), Lowered(y)) => x = y

\* The load is refused whatever the order is.
Refused ==
    \/ Cardinality(environ) > MaxOverrides
    \/ \E x \in environ : Malformed(x) \/ Parsed(Lowered(x), x.value) = TooLarge

\* The order of the environment decides nothing as long as no two variables differ
\* in case only: the load is refused if there are too many or one is malformed or
\* too large, in whatever order they come, and of variables that are apart every one
\* has its setting.
OrderDecidesNothing ==
    phase = "done" /\ CasesApart /\ Loaded =>
        /\ Refused => error = "ConfigLoadingError"
        /\ ~Refused => Len(paths) = Cardinality(environ)
        /\ ~Refused /\ Apart =>
              Settings(merged) =
                  {s \in Base : \A x \in environ : ~Related(Lowered(x), s[1])}
                  \union UNION {Layer(Lowered(x), x.value) : x \in environ}

\* The settings that the environment names, in whatever case.
Named == {Lowered(x) : x \in environ}

\* How many variables are too many, if some differ in case only: a load is refused
\* if they name more settings than the limit allows, and for their number it is
\* never refused if they are no more than that themselves; then every setting that
\* is named has its override.  In between the order decides, since the count is
\* looked at before it is known whether a variable names a new setting
\* (_collect_env_overrides).
LimitCountsNames ==
    phase = "done" /\ Loaded =>
        /\ Cardinality(Named) > MaxOverrides => error = "ConfigLoadingError"
        /\ Cardinality(environ) <= MaxOverrides /\ (\A x \in environ : ~Malformed(x)) =>
              DOMAIN overrides = Named

=============================================================================
