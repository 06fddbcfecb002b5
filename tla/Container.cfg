SPECIFICATION ContainerSpec
CONSTANTS
    a = a
    b = b
    c = c
    d = d
    Types = {a, b, c, d}
    Factories <- MCFactories
    Declared = {a, b}
    Singletons = {a, b, d}
    Scopes = {s}
    RecursionLimit = 4
    MaxInstances = 5
INVARIANTS
    ContainerTypeOK
    Acyclic
    SearchFindsReachable
    SingletonsShared
    RecursionOnlyByClosures
PROPERTIES
    SingletonStable
