--------------------------- MODULE ErrorTaxonomy ---------------------------
(***************************************************************************)
(* The exception classes of the packages, the translation of foreign       *)
(* exceptions into domain errors, and the HTTP status of a domain error.   *)
(*                                                                         *)
(* A class is a string and an exception is its class: no property tells    *)
(* two exceptions of one class apart.                                      *)
(***************************************************************************)
EXTENDS Naturals, Sequences

\* foundry_agent_core.exceptions
CoreParent == [
    DomainError |-> "Exception",
    ExternalServiceError |-> "DomainError",
    ResourceNotFoundError |-> "ExternalServiceError",
    ToolExecutionError |-> "DomainError",
    ConfigurationError |-> "DomainError",
    InvalidConfigurationError |-> "ConfigurationError",
    AgentError |-> "DomainError",
    AgentCreationError |-> "AgentError",
    ToolRegistrationError |-> "AgentError",
    ToolLoadingError |-> "AgentError",
    QueryProcessingError |-> "DomainError",
    ValidationError |-> "DomainError",
    QueryTimeoutError |-> "QueryProcessingError" ]

\* foundry_strands_agent.exceptions
ServiceParent == [
    AgentServiceError |-> "QueryProcessingError",
    AgentServiceInitializationError |-> "AgentServiceError",
    AgentServiceShutdownError |-> "AgentServiceError" ]

\* foundry_agent_config.exceptions: a class of its own, no domain error.
ConfigParent == [ConfigLoadingError |-> "Exception"]

\* The classes of Python and of the libraries that the code raises or tells apart.
ForeignParent == [
    Exception |-> "BaseException",
    CancelledError |-> "BaseException",
    GeneratorExit |-> "BaseException",
    OSError |-> "Exception",
    ConnectionError |-> "OSError",
    ConnectionResetError |-> "ConnectionError",
    TimeoutError |-> "OSError",
    LookupError |-> "Exception",
    KeyError |-> "LookupError",
    ValueError |-> "Exception",
    PydanticError |-> "ValueError",
    TypeError |-> "Exception",
    ImportError |-> "Exception",
    ModuleNotFoundError |-> "ImportError",
    RuntimeError |-> "Exception",
    InvalidTag |-> "Exception" ]

Classes == DOMAIN CoreParent \union DOMAIN ServiceParent
             \union DOMAIN ConfigParent \union DOMAIN ForeignParent

Parent(c) == IF c \in DOMAIN CoreParent THEN CoreParent[c]
             ELSE IF c \in DOMAIN ServiceParent THEN ServiceParent[c]
             ELSE IF c \in DOMAIN ConfigParent THEN ConfigParent[c] ELSE ForeignParent[c]

\* type(error).__mro__, without the root of all classes.
Mro[c \in Classes \union {"BaseException"}] ==
    IF c = "BaseException" THEN <<c>> ELSE <<c>> \o Mro[Parent(c)]

\* isinstance(error, c)
IsA(error, c) == \E i \in DOMAIN Mro[error] : Mro[error][i] = c

\* What an "except Exception" clause catches.
Caught(error) == IsA(error, "Exception")

DomainErrors == {c \in Classes : IsA(c, "DomainError")}

-----------------------------------------------------------------------------
(* InfrastructureErrorTranslator                                           *)

DefaultMappings == [
    ConnectionError |-> "ExternalServiceError",
    TimeoutError |-> "QueryTimeoutError",
    KeyError |-> "ConfigurationError",
    ValueError |-> "ConfigurationError",
    ImportError |-> "ToolLoadingError",
    ModuleNotFoundError |-> "ToolLoadingError" ]

\* register_error_mapping: the last registration of a class wins.
RegisterErrorMapping(mappings, class, domainClass) ==
    [c \in DOMAIN mappings \union {class} |-> IF c = class THEN domainClass ELSE mappings[c]]

\* The constructors that take more than a message and a context.
NeedsMore == {"InvalidConfigurationError", "ToolRegistrationError", "ValidationError"}

\* _create_domain_error: calling a constructor with arguments missing raises.
CreateDomainError(c) == IF c \in NeedsMore THEN "TypeError" ELSE c

\* A fault the checks must find: only the class itself is looked up.
TranslateErrorExactly(mappings, error) ==
    CreateDomainError(IF error \in DOMAIN mappings THEN mappings[error]
                      ELSE "QueryProcessingError")

\* translate_error: the mapping of the nearest mapped class; the class of an
\* error that no mapping knows is QueryProcessingError.
TranslateError(mappings, error) ==
    LET mapped == {i \in DOMAIN Mro[error] : Mro[error][i] \in DOMAIN mappings}
    IN  CreateDomainError(
            IF mapped = {} THEN "QueryProcessingError"
            ELSE LET nearest == CHOOSE i \in mapped : \A j \in mapped : i <= j
                 IN  mappings[Mro[error][nearest]])

-----------------------------------------------------------------------------
(* ErrorHandlingMiddleware                                                 *)

\* _get_http_status_code
HttpStatus(error) == IF IsA(error, "ValidationError") THEN 400
                     ELSE IF IsA(error, "ExternalServiceError") THEN 502 ELSE 500

=============================================================================
