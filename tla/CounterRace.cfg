\* Two creates interleave inside nextID; the process never restarts.
SPECIFICATION Spec
CONSTANTS
    Workers = {w1, w2}
    Backend = "sqlite"
    Requests <- AllRequests
    MaxRequests = 3
    MaxRestarts = 0
PROPERTIES
    CounterMonotonic
