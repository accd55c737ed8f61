\* Two goroutines, the SQLite store, one restart.
SPECIFICATION Spec
CONSTANTS
    Workers = {w1, w2}
    Backend = "sqlite"
    Requests <- AllRequests
    MaxRequests = 5
    MaxRestarts = 1
SYMMETRY Interchangeable
INVARIANTS
    TypeOK
    CreatedDurable
    CreatedUnique
    CollisionExplained
    NoDanglingWithoutReset
    SerialReferences
    MetricsBackedByRows
PROPERTIES
    MovesExplained
    ImplementsContract
