CONSTANTS
    u1 = u1
    u2 = u2
    Users = {u1}
    None = None
    MaxRequests = 2
    Faults = {"resolve", "connect", "header", "read", "write", "timeout"}
    MaxFaults = 1
    MaxAttempts = 2
    NumChunks = 1

SPECIFICATION FairSpec
INVARIANT WaitingIsHeld
PROPERTIES AnsweredOnce CallerReturns
CHECK_DEADLOCK FALSE
