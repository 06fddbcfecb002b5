SPECIFICATION FairSpec
CONSTANTS
    Queries = {q1, q2}
    Streams = {}
    Requests <- MCRequests
    Initializers = {i1}
    Shutdowners = {d1, d2}
    Instants = {1}
    Hash <- MCOwnText
    Resilient = {}
    Strategy <- MCStrategy
PROPERTIES
    ImplementsContract
    ShutdownTerminates
    ClosedSettlesAll
