\* One goroutine, so no race; the process restarts on its SQLite file.
SPECIFICATION Spec
CONSTANTS
    Workers = {w1}
    Backend = "sqlite"
    Requests <- AllRequests
    MaxRequests = 2
    MaxRestarts = 1
INVARIANTS
    GeneratedKeyFree
