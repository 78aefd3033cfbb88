\* Is ErrUnauthorized with credentials always a rejection by the box?
SPECIFICATION Spec
CONSTANTS
    Actions <- MCActions
    NoAuth <- MCNoAuth
    Answer <- MCAnswer
    MaxCalls = 2
    MaxFaults = 1
CHECK_DEADLOCK FALSE
INVARIANTS
    UnauthorizedMeansRejected
