------------------------- MODULE MC_ClientSession -------------------------
EXTENDS ClientSession

\* A registered organisation with token auth, token and trust store,
\* given to the Properties constructor.
MC_TokenConfig ==
    { [org |-> "myorg", domain |-> TRUE, type |-> "gw", id |-> "g1", auth |-> "token",
       token |-> TRUE, trust |-> TRUE, useCerts |-> FALSE, certs |-> FALSE] }

\* No client is constructed from a file.
MC_NoFiles == {}

\* An attached device whose type and id contain no search marker.
MC_Devices == { <<"raspi", "pi1">> }

\* An attached Android device: its type ends in "id", so "android/"
\* contains the marker "id/".
MC_AndroidDevices == { <<"android", "pi1">> }

MC_Kinds == {"device", "gateway"}
MC_Gateway == {"gateway"}
MC_CmdNames == {"reboot"}
=============================================================================
