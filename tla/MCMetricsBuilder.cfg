\* Two scrapes of every metric, across a reboot, whatever calls fail.
SPECIFICATION Spec
CONSTANTS
    Cases <- MCCases
    Values = {0, 3}
    MaxScrapes = 2
    MaxReboots = 1
CHECK_DEADLOCK FALSE
INVARIANTS
    TypeOK
    AggregatesWhole
PROPERTIES
    SumsNeverFall
