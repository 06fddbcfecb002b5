SPECIFICATION Spec
CONSTANTS
    Queries = {q1, q2}
    Streams = {}
    Requests <- MCRequests
    Initializers = {i1}
    Shutdowners = {d1}
    Instants = {1}
    Hash <- MCSameText
    Resilient = {}
    Strategy <- MCStrategy
INVARIANTS
    ShutdownStopsAll
