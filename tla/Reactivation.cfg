\* One goroutine: a plan, a subscriber and two PATCH requests.
SPECIFICATION Spec
CONSTANTS
    Workers = {w1}
    Backend = "memory"
    Requests <- AllRequests
    MaxRequests = 4
    MaxRestarts = 0
PROPERTIES
    TerminatedStays
