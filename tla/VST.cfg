CONSTANTS
    u1 = u1
    u2 = u2
    Users = {u1, u2}
    None = None
    MaxRequests = 2
    Faults = {}
    MaxFaults = 0
    MaxAttempts = 1
    NumChunks = 2

SPECIFICATION Spec
INVARIANTS QueuedIsWritten InFlightIsRead SurvivesWithoutFaults
PROPERTY AuthenticatesFirst
CHECK_DEADLOCK FALSE
