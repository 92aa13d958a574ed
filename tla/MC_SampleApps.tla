--------------------------- MODULE MC_SampleApps ---------------------------
EXTENDS SampleApps

\* Configuration files: complete for a registered org with token auth;
\* the same with an empty "Port", which fails rc but leaves port 8883;
\* the same asking for client certificates it does not name; a registered
\* org with another auth method; a quickstart device; a file that does not
\* parse.
MC_File(org, auth, token, trust, useCerts, port) ==
    [parses |-> TRUE, org |-> org, domain |-> org # "quickstart", type |-> "gw",
     id |-> "g1", auth |-> auth, token |-> token, trust |-> trust,
     useCerts |-> useCerts, certs |-> FALSE, port |-> port]

MC_Files ==
    { MC_File("myorg", "token", TRUE, TRUE, "false", "8883"),
      MC_File("myorg", "token", TRUE, TRUE, "false", ""),
      MC_File("myorg", "token", TRUE, TRUE, "true", "8883"),
      MC_File("myorg", "other", TRUE, TRUE, "false", "8883"),
      MC_File("quickstart", "", FALSE, FALSE, "false", "8883"),
      [MC_File("", "", FALSE, FALSE, "false", "8883") EXCEPT !.parses = FALSE] }

\* The Properties an application builds itself: what the two sample
\* readers produce from the files.
MC_Configs ==
    { SampleReader(a, f).prop : a \in {"sampleManagedGateway", "sampleQuickstart"},
                                f \in MC_Files }

\* The attached devices the gateway samples subscribe commands for.
MC_Devices == { <<"raspi", "pi1">>, <<"attached", "testGatewayPublish">> }

MC_Kinds == {"device", "gateway"}
MC_CmdNames == {"reboot"}
MC_Apps == {"any", "sampleDevice", "sampleGateway", "sampleManagedGateway",
            "sampleQuickstart", "sslDeviceSample", "sslGatewaySample"}
=============================================================================
