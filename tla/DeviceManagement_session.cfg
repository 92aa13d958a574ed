CONSTANTS
    RESPONSE = RESPONSE
    UPDATE = UPDATE
    OBSERVE = OBSERVE
    CANCEL = CANCEL
    FW_DOWNLOAD = FW_DOWNLOAD
    FW_UPDATE = FW_UPDATE
    REBOOT = REBOOT
    FACTORY_RESET = FACTORY_RESET
    Configured <- MC_ConfiguredFwAttr
    RCs <- MC_RCs
    MaxOps = 3
    MaxRequests = 2
    HasUserCallback = TRUE
    SubscribeMayFail = TRUE
SPECIFICATION Spec
INVARIANT TypeOK
INVARIANT NoDoubleDispatch
PROPERTY ManagementCallReturns
\* After MaxOps calls and MaxRequests requests the model is quiescent.
CHECK_DEADLOCK FALSE
