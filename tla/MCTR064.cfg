\* Several calls over late requests, rotations, outages and restarts.
SPECIFICATION Spec
CONSTANTS
    Actions <- MCActions
    NoAuth <- MCNoAuth
    Answer <- MCAnswer
    MaxCalls = 4
    MaxFaults = 2
CHECK_DEADLOCK FALSE
INVARIANTS
    TypeOK
    CountInv
    FreshCount
    RightCredentialsAccepted
    AnswerWasAuthorized
    RecoversWithinBound
