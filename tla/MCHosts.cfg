\* Scrapes of any table of three hosts, with three changes in an enumeration.
SPECIFICATION Spec
CONSTANTS
    Names = {a, b, c}
    MaxChanges = 3
    MaxSessions = 2
SYMMETRY HostsAlike
INVARIANTS
    TypeOK
PROPERTIES
    HostInfoOnlyLostToItsScrape
    ActiveNearTruth
    SteadyHostsCounted
