\* Does a sum get a new start when the device reboots?
SPECIFICATION Spec
CONSTANTS
    Cases <- RebootCases
    Values = {0, 3}
    MaxScrapes = 2
    MaxReboots = 1
CHECK_DEADLOCK FALSE
PROPERTIES
    SumsRestart
