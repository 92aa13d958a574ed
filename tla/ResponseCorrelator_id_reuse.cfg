\* A caller must only get the answer to its own request, when reqIds repeat
\* across a process restart or a wall clock set back.
CONSTANTS
    MaxCalls = 2
    MaxClock = 1
    MaxRestarts = 1
    RCs <- MC_RCs
SPECIFICATION FaultSpec
INVARIANT CorrectCorrelation
CHECK_DEADLOCK FALSE
