\* Two goroutines, the memory store, one restart.
SPECIFICATION Spec
CONSTANTS
    Workers = {w1, w2}
    Backend = "memory"
    Requests <- AllRequests
    MaxRequests = 5
    MaxRestarts = 1
SYMMETRY Interchangeable
INVARIANTS
    SerialCreates
    CollisionExplained
    NoDanglingWithoutReset
    SerialReferences
PROPERTIES
    MovesExplained
