--------------------------- MODULE MCToolRegistry ---------------------------
(* A small instance of ToolRegistry.  Configured: a TOOL_SPEC module, a    *)
(* module of @tool functions, a file whose second tool cannot be renamed,  *)
(* and a file that is refused.  In the directory: the two files and one    *)
(* more, with the prefix of the first.  The tools of the application have  *)
(* the name of the TOOL_SPEC module, which a tool in two files has too,    *)
(* and the name that this tool gets by the prefix of the files.            *)
EXTENDS ToolRegistry, TLC

CONSTANTS spec, funs, calc, mixed, bad, T, tools, drafts, outside, i1, i2, l1, l2

B(form) == [name |-> "b", form |-> form]
C(form) == [name |-> "c", form |-> form]
D(form) == [name |-> "d", form |-> form]

MCJoined == [x \in Prefixes \X Names |-> x[1] \o "__" \o x[2]]

MCOffers ==
    spec :> <<C("module")>> @@ funs :> <<D("decorated")>>
    @@ calc :> <<C("decorated"), B("decorated")>>
    @@ mixed :> <<C("decorated"), B("callable")>> @@ bad :> <<>>

MCPrefixOf == calc :> "p" @@ mixed :> "p" @@ bad :> "q"

MCConfigured == <<spec, funs, mixed, bad>>

MCModulesOnly == <<spec, funs>>

MCFilesOf == tools :> {calc, mixed} @@ drafts :> {bad} @@ outside :> {mixed}

MCInjected == [n \in Own |-> IF n = "c" THEN {T} ELSE {}]

MCSymmetry == Permutations({i1, i2}) \union Permutations({l1, l2})

=============================================================================
