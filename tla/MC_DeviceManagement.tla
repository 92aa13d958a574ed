------------------------- MODULE MC_DeviceManagement -------------------------
EXTENDS DeviceManagement

\* The handlers IOTP_DeviceClient is constructed with: all three.
MC_Configured == {"fw", "act", "attr"}

\* Firmware and attribute handlers, which share SERVER_UPDATE_TOPIC: six
\* handler subscriptions per manage(), small enough to explore every token outcome of each.
MC_ConfiguredFwAttr == {"fw", "attr"}

\* The platform accepts (200) or refuses (403) a management request.
MC_RCs == {200, 403}
=============================================================================
