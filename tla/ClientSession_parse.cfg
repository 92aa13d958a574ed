CONSTANTS
    Kinds <- MC_Gateway
    Configs <- MC_TokenConfig
    Files <- MC_NoFiles
    Devices <- MC_AndroidDevices
    CmdNames <- MC_CmdNames
    MaxConnects = 1
    MaxCommands = 1
    MaxEvents = 0
    SizeBits = 16
SPECIFICATION Spec
INVARIANT CommandFieldsMatchTopic
CHECK_DEADLOCK FALSE
