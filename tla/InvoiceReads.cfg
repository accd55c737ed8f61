\* Either store, two invoices of one subscriber, usage in two months, one reset.
SPECIFICATION Spec
CONSTANTS
    Half = 8
    VoiceCap = 2
    Workers = {w1, w2}
    Backends = {"sqlite", "memory"}
    ThePlan <- SmallPlan
    Reports <- SomeReports
    CarrierMayFail = TRUE
    MaxRecords = 2
    MaxMonth = 2
    MaxInvoices = 2
SYMMETRY Interchangeable
INVARIANTS
    TypeOK
    BilledOnce
    BilledBetween
    TotalBetween
    LinesAddUp
PROPERTIES
    SerialGauge
