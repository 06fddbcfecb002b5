SPECIFICATION Spec
CONSTANTS
    Queries = {q1, q2}
    Streams = {s1}
    Requests <- MCRequests
    Initializers = {i1, i2}
    Shutdowners = {d1}
    Instants = {1, 2}
    Hash <- MCSameText
    Resilient = {q1}
    Strategy <- MCStrategy
INVARIANTS
    TypeOK
    AdmittingHasComponents
    TableSound
    ClosedMeansStopped
    StartsWithOrchestrator
    ContextsSound
