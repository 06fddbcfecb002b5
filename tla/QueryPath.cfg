SPECIFICATION Spec
CONSTANTS
    q1 = q1
    s1 = s1
    chat = chat
    Queries = {q1}
    Streams = {s1}
    SessionIds = {chat}
    Default = default
    NoId = NoId
    Keys = {k1}
    PastKeys = {k0}
    NoKey = NoKey
    Clear = Clear
    Absent = Absent
    MaxCalls = 1
    MaxTokens = 1
    Configs <- MCConfigs
    SessionOf <- MCSessionOf
INVARIANTS
    PipelineTypeOK
    AgentsReleased
    CallersSeeQueryErrors
    StreamsEndProperly
PROPERTIES
    LogoffSound
    SessionsOnDemand
    ImplementsTask
