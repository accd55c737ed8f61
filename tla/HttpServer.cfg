\* Two connections, two requests, panics, a signal, a listener that fails.
SPECIFICATION FairSpec
CONSTANTS
    Conns = {c1, c2}
    Requests <- OneOfEach
    MaxRequests = 2
INVARIANTS
    TypeOK
    InFlightMatches
    LogsAnswers
    RequestsAccounted
    CleanStopIsQuiet
PROPERTIES
    ImplementsContract
    SignalStops
    RegistrationEnds
