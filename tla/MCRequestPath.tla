---------------------------- MODULE MCRequestPath ----------------------------
(* A small instance of RequestPath: a request through every stack of the      *)
(* README, of the tests and of tracing.                                       *)
EXTENDS RequestPath

MCStacks == { <<"cors", "errors", "logging">>,      \* as the README adds them
              <<"logging", "errors", "cors">>,      \* as the tests add them
              <<"tracing", "errors", "logging">>,
              <<"errors", "tracing", "cors">>,
              <<"logging", "tracing">> }

MCRegistrations == {<<"RuntimeError", "ResourceNotFoundError">>, <<"OSError", "ValidationError">>}

MCRaised == {"ValidationError", "ResourceNotFoundError", "QueryTimeoutError",
             "AgentServiceError", "ConnectionResetError", "OSError", "RuntimeError",
             "PydanticError", "CancelledError"}

=============================================================================
