\* Every configuration, accepted or not, and scrapes of three requests.
SPECIFICATION Spec
CONSTANTS
    Intervals = {0, 1, 2, 3}
    Timeouts <- MCTimeouts
    InitialDelay = 1
    DefaultTimeout = 2
    MaxRequests = 3
CHECK_DEADLOCK FALSE
INVARIANTS
    TypeOK
    OnlyTLSFailsStart
    VerificationApplied
PROPERTIES
    ScrapesOnTime
    ScrapeEnds
    ShutdownCompletes
