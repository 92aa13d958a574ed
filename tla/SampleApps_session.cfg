CONSTANTS
    Kinds <- MC_Kinds
    Configs <- MC_Configs
    Files <- MC_Files
    Devices <- MC_Devices
    CmdNames <- MC_CmdNames
    Apps <- MC_Apps
    MaxConnects = 2
    MaxCommands = 2
    MaxEvents = 4
    MaxLoops = 1
    ForIterations = 2
    SizeBits = 16
SPECIFICATION AppsSpec
INVARIANT TypeOK
INVARIANT RegistryImpliesBroker
\* Every sample ends in "done"; the "any" application stops after its
\* MaxConnects connect() calls and MaxEvents events.
CHECK_DEADLOCK FALSE
