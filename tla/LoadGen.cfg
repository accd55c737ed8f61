\* Two workers, one plan and one subscriber seeded, two requests more: one
\* action of reads, or two of one request each.
SPECIFICATION FairSpec
CONSTANTS
    Workers = {w1, w2}
    Main = main
    NPlans = 1
    NSubs = 1
    Reads = 2
    Answers <- FiveAnswers
    MaxRequests = 4
INVARIANTS
    TypeOK
    RequestsCounted
    OnlyGrantedIds
    LineMissesLittle
    DoneAddsUp
PROPERTIES
    RunEnds
