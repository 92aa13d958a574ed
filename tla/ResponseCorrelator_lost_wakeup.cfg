\* A platform acknowledgement stored before the caller's wait ends must make the call succeed.
CONSTANTS
    MaxCalls = 2
    MaxClock = 1
    MaxRestarts = 0
    RCs <- MC_RCs
SPECIFICATION Spec
INVARIANT AckedCallSucceeds
CHECK_DEADLOCK FALSE
