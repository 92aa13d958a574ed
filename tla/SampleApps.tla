------------------------------ MODULE SampleApps ------------------------------
(***************************************************************************)
(* The sample applications of src/samples as the application thread of    *)
(* ClientSession.  Each sample's main() is a straight-line program of      *)
(* client calls, with a while(!interrupt) or for loop; an mqtt::exception  *)
(* from any call leaves the try block.  The client object is destroyed   *)
(* when its C++ scope ends.  The configuration comes from a file: four   *)
(* samples construct the client from it, sampleManagedGateway and        *)
(* sampleQuickstart read it with their own InitializeProperties.          *)
(*                                                                         *)
(* The application is chosen in the initial state: "any" makes the calls  *)
(* of ClientSession!AppNext in any order, a sample name runs that sample.  *)
(* The broker, the platform and the MQTT thread (EnvNext) run throughout.  *)
(***************************************************************************)
EXTENDS ClientSession

CONSTANTS
    Apps,           \* applications checked: "any" and sample names
    MaxLoops,       \* iterations of a while(!interrupt) loop before Ctrl-C
    ForIterations   \* the bound of sampleQuickstart's for loop (10 in the code)

VARIABLES
    app,            \* the application program
    pc,             \* its next instruction, or Leave, Returning, Done
    iter,           \* iterations of the current loop
    interrupt       \* the volatile flag set by the SIGINT handler

svars == <<app, pc, iter, interrupt>>
allvars == <<vars, svars>>

-----------------------------------------------------------------------------
(* Places of pc after the program: the end of the try block, the return *)
(* from main, and the process gone.                                       *)
Leave == -1
Returning == -2
Done == -3

(* Instructions of a sample's main().                                      *)
I_connect == [op |-> "connect"]
I_setCommandHandler == [op |-> "setCommandHandler"]
I_subscribeDeviceCommands(d) == [op |-> "subscribeDeviceCommands", dev |-> d]
I_publishEvent(e) == [op |-> "publishEvent", evt |-> e]
I_publishGatewayEvent(e) == [op |-> "publishGatewayEvent", evt |-> e]
I_publishDeviceEvent(d, e) == [op |-> "publishDeviceEvent", dev |-> d, evt |-> e]
I_disconnect == [op |-> "disconnect"]
I_while(exit) == [op |-> "while", exit |-> exit]     \* while(!interrupt)
I_for(exit) == [op |-> "for", exit |-> exit]         \* for(i=0; i<10; i++)
I_goto(k) == [op |-> "goto", to |-> k]               \* end of a loop body
I_cinGet == [op |-> "cin.get"]                       \* wait for Enter

Attached == <<"attached", "testGatewayPublish">>
Raspi == <<"raspi", "pi1">>

(* sampleDevice.cpp main: connect; if success, setCommandHandler, then   *)
(* publish two events per iteration until Ctrl-C, then disconnect.        *)
sampleDevice ==
    <<I_connect, I_setCommandHandler, I_while(7), I_publishEvent("temp"),
      I_publishEvent("temp"), I_goto(3), I_disconnect>>

(* sampleGateway.cpp main: subscribeDeviceCommands BEFORE                *)
(* setCommandHandler, then four events per iteration until Ctrl-C.       *)
sampleGateway ==
    <<I_connect, I_subscribeDeviceCommands(Attached), I_setCommandHandler,
      I_while(10), I_publishGatewayEvent("temp"), I_publishGatewayEvent("temp"),
      I_publishDeviceEvent(Attached, "temp"), I_publishDeviceEvent(Attached, "temp"),
      I_goto(4), I_disconnect>>

(* sampleManagedGateway.cpp main: the client lives in main's scope, the  *)
(* CommandCallback inside the try block.                                 *)
sampleManagedGateway ==
    <<I_connect, I_setCommandHandler, I_subscribeDeviceCommands(Raspi),
      I_publishGatewayEvent("status"), I_publishGatewayEvent("status1"),
      I_publishDeviceEvent(Raspi, "status"), I_publishDeviceEvent(Raspi, "status1"),
      I_cinGet, I_disconnect>>

(* sampleQuickstart.cpp main: ten events, then disconnect.               *)
sampleQuickstart ==
    <<I_connect, I_for(5), I_publishEvent("status"), I_goto(2), I_disconnect>>

(* sslDeviceSample.cpp and sslGatewaySample.cpp main.                     *)
sslDeviceSample == <<I_connect, I_publishEvent("test"), I_disconnect>>

sslGatewaySample ==
    <<I_connect, I_subscribeDeviceCommands(Attached), I_publishGatewayEvent("test"),
      I_publishDeviceEvent(Attached, "test"), I_disconnect>>

Program == [a \in {"sampleDevice", "sampleGateway", "sampleManagedGateway",
                   "sampleQuickstart", "sslDeviceSample", "sslGatewaySample"} |->
              CASE a = "sampleDevice"         -> sampleDevice
                [] a = "sampleGateway"        -> sampleGateway
                [] a = "sampleManagedGateway" -> sampleManagedGateway
                [] a = "sampleQuickstart"     -> sampleQuickstart
                [] a = "sslDeviceSample"      -> sslDeviceSample
                [] a = "sslGatewaySample"     -> sslGatewaySample]

Samples == DOMAIN Program
DeviceSamples == {"sampleDevice", "sampleQuickstart", "sslDeviceSample"}

(* Only sampleManagedGateway declares its client outside the try block.  *)
ClientInTry(a) == a # "sampleManagedGateway"

(* The samples that construct the client from ../samples/device.cfg or   *)
(* gateway.cfg; the others read argv[1] into a Properties first.         *)
FileSamples == {"sampleDevice", "sampleGateway", "sslDeviceSample", "sslGatewaySample"}

(* sampleManagedGateway's InitializeProperties: a file that does not     *)
(* parse, or lacks the org, the lower-case "domain", the type, the id,   *)
(* the auth method or the token, returns 0 with nothing set; otherwise   *)
(* all six are set.  clientTrustStorePath is never read.                 *)
ManagedGatewayProperties(f) ==
    IF f.parses /\ f.org # "" /\ f.domain /\ f.type # "" /\ f.id # ""
       /\ f.auth # "" /\ f.token
    THEN [ok |-> TRUE, prop |-> [DefaultProperties EXCEPT !.org = f.org,
              !.type = f.type, !.id = f.id, !.auth = f.auth, !.token = TRUE]]
    ELSE [ok |-> FALSE, prop |-> DefaultProperties]

(* sampleQuickstart's InitializeProperties: each key is set as it is     *)
(* read, and the first one missing returns 0; "domain" is optional and   *)
(* the auth method and token are read only for an org other than         *)
(* quickstart.  clientTrustStorePath is never read.                      *)
QuickstartProperties(f) ==
    LET p1 == [DefaultProperties EXCEPT !.org = f.org]
        p2 == [p1 EXCEPT !.type = f.type]
        p3 == [p2 EXCEPT !.id = f.id]
        p4 == [p3 EXCEPT !.auth = f.auth]
    IN CASE ~f.parses \/ f.org = "" -> [ok |-> FALSE, prop |-> DefaultProperties]
         [] f.type = ""              -> [ok |-> FALSE, prop |-> p1]
         [] f.id = ""                -> [ok |-> FALSE, prop |-> p2]
         [] f.org = "quickstart"     -> [ok |-> TRUE, prop |-> p3]
         [] f.auth = ""              -> [ok |-> FALSE, prop |-> p3]
         [] ~f.token                 -> [ok |-> FALSE, prop |-> p4]
         [] OTHER                    -> [ok |-> TRUE, prop |-> [p4 EXCEPT !.token = TRUE]]

SampleReader(a, f) ==
    IF a = "sampleManagedGateway" THEN ManagedGatewayProperties(f)
    ELSE QuickstartProperties(f)

(* The two samples that install signalHandler for SIGINT.                *)
HasSignalHandler(a) == a \in {"sampleDevice", "sampleGateway"}

ASSUME Apps \subseteq Samples \cup {"any"}
ASSUME \A a \in Apps \ {"any"} : \A i \in DOMAIN Program[a] :
           "dev" \in DOMAIN Program[a][i] => Program[a][i].dev \in Devices

-----------------------------------------------------------------------------
AppsInit ==
    /\ Init
    /\ app \in Apps
    /\ app \in Samples => kind = IF app \in DeviceSamples THEN "device" ELSE "gateway"
    /\ \/ app = "any" /\ pc = 0
       \/ app \in FileSamples /\ pc = 1 /\ \E f \in Files : FileConstructed(f)
       \/ /\ app \in Samples \ FileSamples /\ replyThread
          /\ \E f \in Files : /\ mProperties = SampleReader(app, f).prop
                              /\ pc = IF SampleReader(app, f).ok THEN 1 ELSE Done
    /\ iter = 0
    /\ interrupt = FALSE

(* Whether the call the sample is about to make throws mqtt::exception.  *)
SubscribeThrows(t) == ~Contains(callback_ptr.subs, t) /\ conn = "down"
PublishThrows == conn = "down"

(* The next instruction after a call, or Leave when it threw.          *)
After(throws) == IF throws THEN Leave ELSE pc + 1

(* One call of the sample's program.                                      *)
ExecCall(ins) ==
    \/ /\ ins.op = "connect"
       /\ \/ (ConnectInitFails \/ ConnectRefused \/ ConnectTimedOut) /\ pc' = Leave
          \/ ConnectAccepted /\ pc' = IF AuthOk THEN pc + 1 ELSE Leave
    \/ ins.op = "setCommandHandler" /\ setCommandHandler /\ pc' = pc + 1
    \/ /\ ins.op = "subscribeDeviceCommands"
       /\ subscribeDeviceCommands(ins.dev)
       /\ pc' = After(SubscribeThrows(GatewayFilter(ins.dev)))
    \/ ins.op = "publishEvent" /\ publishEvent /\ pc' = After(PublishThrows)
    \/ /\ ins.op = "publishGatewayEvent"
       /\ publishGatewayEvent /\ pc' = After(PublishThrows)
    \/ /\ ins.op = "publishDeviceEvent"
       /\ publishDeviceEvent /\ pc' = After(PublishThrows)
    \/ ins.op = "disconnect" /\ disconnect /\ pc' = Leave

(* Control flow of the sample's program: loops and the wait for Enter.   *)
ExecControl(ins) ==
    /\ \/ /\ ins.op = "while"
          /\ \/ interrupt /\ pc' = ins.exit /\ iter' = 0
             \/ ~interrupt /\ iter < MaxLoops /\ pc' = pc + 1 /\ iter' = iter + 1
       \/ /\ ins.op = "for"
          /\ IF iter < ForIterations THEN pc' = pc + 1 /\ iter' = iter + 1
                                      ELSE pc' = ins.exit /\ iter' = 0
       \/ ins.op = "goto" /\ pc' = ins.to /\ UNCHANGED iter
       \/ ins.op = "cin.get" /\ pc' = pc + 1 /\ UNCHANGED iter
    /\ UNCHANGED vars

SampleStep ==
    /\ app \in Samples /\ pc \in DOMAIN Program[app]
    /\ LET ins == Program[app][pc] IN
       \/ ExecCall(ins) /\ UNCHANGED iter
       \/ ExecControl(ins)
    /\ UNCHANGED <<app, interrupt>>

(* The end of the try block, normally or by an exception: a client       *)
(* declared in it is destroyed.                                            *)
LeaveTry ==
    /\ app \in Samples /\ pc = Leave
    /\ pc' = Returning
    /\ IF ClientInTry(app) THEN Destroy ELSE UNCHANGED vars
    /\ UNCHANGED <<app, iter, interrupt>>

(* main returns: the locals of main are destroyed.                        *)
Return ==
    /\ app \in Samples /\ pc = Returning
    /\ pc' = Done
    /\ IF ClientInTry(app) THEN UNCHANGED vars ELSE Destroy
    /\ UNCHANGED <<app, iter, interrupt>>

(* signalHandler: Ctrl-C sets interrupt.                                  *)
Interrupt ==
    /\ app \in Samples /\ HasSignalHandler(app) /\ pc # Done /\ ~interrupt
    /\ interrupt' = TRUE
    /\ UNCHANGED <<vars, app, pc, iter>>

AnyApp == app = "any" /\ AppNext /\ UNCHANGED svars

(* The broker, the platform and paho's thread, until the process ends.   *)
Environment == pc # Done /\ EnvNext /\ UNCHANGED svars

AppsNext == AnyApp \/ SampleStep \/ LeaveTry \/ Return \/ Interrupt \/ Environment

AppsSpec == AppsInit /\ [][AppsNext]_allvars

=============================================================================
