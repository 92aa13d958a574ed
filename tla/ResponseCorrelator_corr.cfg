\* Correlation within one process lifetime, with a monotone clock.
CONSTANTS
    MaxCalls = 2
    MaxClock = 1
    MaxRestarts = 0
    RCs <- MC_RCs
SPECIFICATION Spec
INVARIANT TypeOK
INVARIANT UniqueReqIds
INVARIANT CorrectCorrelation
PROPERTY CallReturns
\* Once the caller has made its MaxCalls calls the model is quiescent: the
\* application makes no further management call, which is not a hang.
CHECK_DEADLOCK FALSE
