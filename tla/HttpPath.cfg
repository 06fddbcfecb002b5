SPECIFICATION Spec
CONSTANTS
    Requests = {r1}
    Stacks <- MCStacks
    ClientIds = {id, other, long}
    LongIds = {long}
    NoId = NoId
    Origins = {local, elsewhere}
    DevOrigins = {local}
    Unset = Unset
    Registrations <- MCRegistrations
    Raised <- MCRaised
INVARIANTS
    ErrorsAnswered
    IdsAgree
    RequestsAccounted
