\* Two PATCH requests for one subscriber interleave.
SPECIFICATION Spec
CONSTANTS
    Workers = {w1, w2}
    Backend = "sqlite"
    Requests <- AllRequests
    MaxRequests = 4
    MaxRestarts = 0
PROPERTIES
    EveryMoveAllowed
