\* Two usage records for one subscriber are appended at once.
SPECIFICATION Spec
CONSTANTS
    Workers = {w1, w2}
    Backend = "memory"
    Requests <- AllRequests
    MaxRequests = 4
    MaxRestarts = 0
INVARIANTS
    UsageRecorded
