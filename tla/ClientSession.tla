---------------------------- MODULE ClientSession ----------------------------
(***************************************************************************)
(* The connection lifecycle of IOTP_DeviceClient and IOTP_GatewayClient,  *)
(* their command subscriptions, and the user-callback path of             *)
(* IOTF_Callback::message_arrived.                                         *)
(*                                                                         *)
(* The application thread calls connect(), setCommandHandler(),           *)
(* subscribeCommands() / subscribeDeviceCommands(), disconnect() and       *)
(* finally destroys the client.  Each call is one atomic step: it runs     *)
(* on the application thread and waits for its MQTT tokens.  The broker    *)
(* may drop the connection at any time.  The platform sends commands,     *)
(* which the MQTT thread hands to message_arrived in order.               *)
(*                                                                         *)
(* connect() first runs InitializeMqttClient (configuration checks, a new  *)
(* mqtt::async_client), then IOTP_Client::connect: a clean-session         *)
(* CONNECT; on success set_callback() installs a NEW IOTF_Callback, whose  *)
(* subscription registry and user callback start empty.  The CONNECT      *)
(* token completes, fails (wait_for_completion throws), or times out; a   *)
(* connection that timed out may still be established later.              *)
(*                                                                         *)
(* Topics are strings, because the parser is what a property is about.    *)
(* std::string::size_type arithmetic is taken modulo 2^SizeBits.          *)
(***************************************************************************)
EXTENDS Integers, Sequences, SequencesExt, FiniteSets, FiniteSetsExt

CONSTANTS
    Kinds,        \* client classes constructed: subset of {"device", "gateway"}
    Configs,      \* Properties records the application constructs a client with
    Files,        \* configuration files the application reads
    Devices,      \* <<deviceType, deviceId>> a gateway subscribes commands for
    CmdNames,     \* command names the platform sends
    MaxConnects,  \* connect() calls
    MaxCommands,  \* commands the platform sends
    MaxEvents,    \* events the application publishes
    SizeBits      \* width of std::string::size_type in the model

ASSUME Kinds \subseteq {"device", "gateway"} /\ Kinds # {}
ASSUME MaxConnects \in Nat /\ MaxCommands \in Nat /\ MaxEvents \in Nat /\ SizeBits \in 8..30

VARIABLES
    kind,             \* the class of the client object
    mProperties,      \* the Properties it was constructed with
    pasync_client,    \* "uninit" until InitializeMqttClient creates one
    conn,             \* the current async_client's connection: "down" | "up"
    session,          \* ghost: number of the connection the broker holds
    callback_ptr,     \* IOTF_Callback installed by set_callback, or NoCallback
    brokerSubs,       \* topic filters the broker holds for the connection
    gatewayCMDTopic,  \* IOTP_GatewayClient::gatewayCMDTopic
    deviceCMDTopic,   \* IOTP_GatewayClient::deviceCMDTopic
    inbox,            \* commands routed by the broker, not yet delivered
    sent,             \* commands the platform has sent
    lastCmd,          \* ghost: the last Command the user callback received
    appConnected,     \* the application's view: connect() returned true
    connects,         \* connect() calls so far
    destroyed,        \* ~IOTP_Client has run
    published,        \* ghost: events the platform has received
    replyThread       \* mReplyThread was started by the constructor

vars == <<kind, mProperties, pasync_client, conn, session, callback_ptr,
          brokerSubs, gatewayCMDTopic, deviceCMDTopic, inbox, sent, lastCmd,
          appConnected, connects, destroyed, published, replyThread>>

-----------------------------------------------------------------------------
(* std::string operations used by message_arrived, over size_type values  *)
(* modulo 2^SizeBits; positions are 0-based, npos is the largest value.   *)
SizeMod == 2 ^ SizeBits
npos == SizeMod - 1
(* pos + k on size_type, as in topic.find_first_of('/', pos + 5).         *)
Add(a, b) == (a + b) % SizeMod
Sub(a, b) == (a - b) % SizeMod

(* std::string::find(m, from): first position >= from where m occurs.    *)
Find(s, m, from) ==
    LET hits == {i \in from..(Len(s) - Len(m)) : SubSeq(s, i + 1, i + Len(m)) = m}
    IN IF hits = {} THEN npos ELSE Min(hits)

(* std::string::find_first_of(c, from) for a one-character set.          *)
FindFirstOf(s, c, from) ==
    LET hits == {i \in from..(Len(s) - 1) : SubSeq(s, i + 1, i + 1) = c}
    IN IF hits = {} THEN npos ELSE Min(hits)

(* std::string::substr(pos, n); pos beyond the end throws out_of_range.  *)
OutOfRange == "<std::out_of_range>"
Substr(s, pos, n) ==
    IF pos > Len(s) THEN OutOfRange
    ELSE SubSeq(s, pos + 1, pos + (IF n < Len(s) - pos THEN n ELSE Len(s) - pos))

(* The four fields message_arrived cuts out of the topic for the user    *)
(* callback, by searching for "type/", "id/", "cmd/" and "fmt/".  The     *)
(* format is substr(pos+4, nxtpos): a length that is really a position.   *)
ParseCommand(t) ==
    LET p1 == Find(t, "type/", 0)
        n1 == FindFirstOf(t, "/", Add(p1, 5))
        p2 == Find(t, "id/", 0)
        n2 == FindFirstOf(t, "/", Add(p2, 3))
        p3 == Find(t, "cmd/", 0)
        n3 == FindFirstOf(t, "/", Add(p3, 4))
        p4 == Find(t, "fmt/", Add(n3, 1))
        n4 == FindFirstOf(t, "/", Add(p4, 4))
    IN [deviceType |-> Substr(t, Add(p1, 5), Sub(n1, Add(p1, 5))),
        deviceId   |-> Substr(t, Add(p2, 3), Sub(n2, Add(p2, 3))),
        command    |-> Substr(t, Add(p3, 4), Sub(n3, Add(p3, 4))),
        format     |-> Substr(t, Add(p4, 4), n4)]

-----------------------------------------------------------------------------
(* Topics.  A command is sent to a device (a <<type, id>> pair); the      *)
(* device client's own commands use the short form without type and id.   *)
Self == <<mProperties.type, mProperties.id>>
Targets == IF kind = "gateway" THEN {Self} \cup Devices ELSE {Self}

(* IOTP_DeviceClient::commandTopic                                         *)
commandTopic == "iot-2/cmd/+/fmt/+"

GatewayFilter(d) == "iot-2/type/" \o d[1] \o "/id/" \o d[2] \o "/cmd/+/fmt/+"

(* The filter a command for target d is routed by.                       *)
FilterOf(d) == IF kind = "gateway" THEN GatewayFilter(d) ELSE commandTopic

CommandTopic(d, c) ==
    IF kind = "gateway"
    THEN "iot-2/type/" \o d[1] \o "/id/" \o d[2] \o "/cmd/" \o c \o "/fmt/json"
    ELSE "iot-2/cmd/" \o c \o "/fmt/json"

NoCallback == [subs |-> <<>>, user |-> FALSE, session |-> 0]
NoCmd == [topic |-> "", sent |-> <<>>, got |-> [deviceType |-> "", deviceId |-> "",
          command |-> "", format |-> ""]]

(* MQTT token outcomes: complete, timed out after the broker applied the  *)
(* request, timed out with the request lost.                              *)
TokenOutcomes == {"complete", "timeout_applied", "timeout_lost"}

-----------------------------------------------------------------------------
(* Properties: the default constructor; strings that only matter by      *)
(* being empty or not are booleans (domain, token, trust store, the       *)
(* client certificate and key).                                            *)
DefaultProperties ==
    [org |-> "", domain |-> TRUE, type |-> "", id |-> "", auth |-> "",
     token |-> FALSE, trust |-> FALSE, useCerts |-> FALSE, certs |-> FALSE]

(* IOTP_Client::InitializePropertiesFromFile on a file f (parses: it      *)
(* opened and is JSON; port and useCerts: the strings of "Port", default *)
(* "8883", and "useClientCertificates", default "false").  Every key      *)
(* present is copied over the defaults, whatever else is missing; the     *)
(* credentials, trust store and certificates only for an org other than   *)
(* quickstart.  The Ports of the model are "8883" and "", so std::stoi    *)
(* never sees a string that is not a number.                              *)
PropertiesFromFile(f) ==
    IF ~f.parses THEN DefaultProperties
    ELSE LET registered == f.org # "quickstart"
             certs == registered /\ f.useCerts = "true"
         IN [org |-> f.org, domain |-> TRUE, type |-> f.type, id |-> f.id,
             auth |-> IF registered THEN f.auth ELSE "",
             token |-> registered /\ f.token, trust |-> registered /\ f.trust,
             useCerts |-> certs, certs |-> certs /\ f.certs]

(* Its return value rc: false when the file does not parse or a key it    *)
(* requires is missing or empty.                                          *)
PropertiesFileRc(f) ==
    /\ f.parses /\ f.org # "" /\ f.type # "" /\ f.id # "" /\ f.port # ""
    /\ f.org # "quickstart" =>
         /\ f.auth # "" /\ f.token /\ f.trust /\ f.useCerts # ""
         /\ f.useCerts = "true" => f.certs

(* IOTP_Client(filePath): the reply thread, the response handler and the *)
(* request counter are set up only when rc is true.  IOTP_Client(Properties)*)
(* always starts the thread.                                              *)
FileConstructed(f) ==
    /\ mProperties = PropertiesFromFile(f)
    /\ replyThread = PropertiesFileRc(f)

(* The constructor: Properties copied, no async_client, no callback.      *)
Init ==
    /\ kind \in Kinds
    /\ \/ mProperties \in Configs /\ replyThread = TRUE
       \/ \E f \in Files : FileConstructed(f)
    /\ pasync_client = "uninit"
    /\ conn = "down"
    /\ session = 0
    /\ callback_ptr = NoCallback
    /\ brokerSubs = {}
    /\ gatewayCMDTopic = ""
    /\ deviceCMDTopic = ""
    /\ inbox = <<>>
    /\ sent = 0
    /\ lastCmd = NoCmd
    /\ appConnected = FALSE
    /\ connects = 0
    /\ destroyed = FALSE
    /\ published = 0

(* IOTP_DeviceClient::InitializeMqttClient: non-empty org, domain, type *)
(* and id, and a trust store unless the org is quickstart; then a new    *)
(* async_client.                                                          *)
DeviceInitialize(p) ==
    /\ p.org # "" /\ p.domain /\ p.type # "" /\ p.id # ""
    /\ p.org = "quickstart" \/ p.trust

(* IOTP_GatewayClient::InitializeMqttClient: the same checks, except     *)
(* that quickstart, in three spellings, is refused and a trust store is  *)
(* always required.                                                       *)
GatewayInitialize(p) ==
    /\ p.org # "" /\ p.org \notin {"quickstart", "QuickStart", "QUICKSTART"}
    /\ p.domain /\ p.type # "" /\ p.id # "" /\ p.trust

InitializeMqttClient ==
    IF kind = "gateway" THEN GatewayInitialize(mProperties)
    ELSE DeviceInitialize(mProperties)

(* IOTP_Client::connect's own verdict: an auth method other than "token" *)
(* makes it return false, after the CONNECT has been attempted anyway.    *)
AuthOk == mProperties.org = "quickstart" \/ mProperties.auth = "token"

(* The credentials and SSL options connect() sends, and what the platform *)
(* accepts: no authentication for quickstart; otherwise the user         *)
(* "use-token-auth" (auth method "token") with a token as password, and,  *)
(* with useCerts, the key store and private key to present.               *)
PlatformAccepts ==
    \/ mProperties.org = "quickstart"
    \/ /\ mProperties.auth = "token" /\ mProperties.token
       /\ mProperties.useCerts => mProperties.certs

(* The command topic connect() subscribes after a successful connect.    *)
ConnectTopics ==
    IF kind = "gateway" THEN {GatewayFilter(Self)}
    ELSE IF mProperties.org # "quickstart" THEN {commandTopic} ELSE {}

(* The application calls connect() while its client is not connected.    *)
ConnectCall ==
    /\ ~destroyed
    /\ conn = "down"
    /\ connects < MaxConnects
    /\ connects' = connects + 1

(* connect(): InitializeMqttClient fails; connect() returns false before  *)
(* any transport call.                                                    *)
ConnectInitFails ==
    /\ ConnectCall
    /\ ~InitializeMqttClient
    /\ appConnected' = FALSE
    /\ UNCHANGED <<kind, mProperties, published, pasync_client, conn, session,
                   callback_ptr, brokerSubs, gatewayCMDTopic, deviceCMDTopic,
                   inbox, sent, lastCmd, destroyed, replyThread>>

(* connect(): the CONNECT completes.  set_callback() installs a fresh     *)
(* IOTF_Callback; the broker starts a clean session.  If the auth check  *)
(* passed, DeviceClient::connect subscribes commandTopic (not for         *)
(* quickstart) and GatewayClient::connect sets gatewayCMDTopic and        *)
(* subscribes it, through subscribeTopic on the fresh, empty registry;    *)
(* connect() returns the auth verdict whatever that SUBSCRIBE did.        *)
ConnectAccepted ==
    /\ ConnectCall
    /\ InitializeMqttClient
    /\ PlatformAccepts
    /\ pasync_client' = "created"
    /\ conn' = "up"
    /\ session' = session + 1
    /\ LET topics == IF AuthOk THEN ConnectTopics ELSE {} IN
       \E outcome \in TokenOutcomes :
         /\ callback_ptr' = [subs    |-> IF outcome = "complete"
                                         THEN SetToSeq(topics) ELSE <<>>,
                             user    |-> FALSE,
                             session |-> session + 1]
         /\ brokerSubs' = IF outcome # "timeout_lost" THEN topics ELSE {}
    /\ gatewayCMDTopic' = IF kind = "gateway" /\ AuthOk
                          THEN GatewayFilter(Self) ELSE gatewayCMDTopic
    /\ appConnected' = AuthOk
    /\ UNCHANGED <<kind, mProperties, published, deviceCMDTopic, inbox, sent, lastCmd,
                   destroyed, replyThread>>

(* connect(): the broker refuses; wait_for_completion throws, the        *)
(* exception leaves connect().  The new async_client stays allocated.     *)
ConnectRefused ==
    /\ ConnectCall
    /\ InitializeMqttClient
    /\ pasync_client' = "created"
    /\ appConnected' = FALSE
    /\ UNCHANGED <<kind, mProperties, published, conn, session, callback_ptr, brokerSubs,
                   gatewayCMDTopic, deviceCMDTopic, inbox, sent, lastCmd,
                   destroyed, replyThread>>

(* connect(): wait_for_completion(DEFAULT_TIMEOUT) returns first; the    *)
(* listener has not succeeded, so no callback is installed, and           *)
(* is_complete() is false: connect() returns false.  The CONNECT may      *)
(* still complete later, leaving a connection with the old callback_ptr.  *)
ConnectTimedOut ==
    /\ ConnectCall
    /\ InitializeMqttClient
    /\ pasync_client' = "created"
    /\ \E late \in IF PlatformAccepts THEN BOOLEAN ELSE {FALSE} :
         /\ conn' = IF late THEN "up" ELSE "down"
         /\ session' = IF late THEN session + 1 ELSE session
    /\ appConnected' = FALSE
    /\ UNCHANGED <<kind, mProperties, published, callback_ptr, brokerSubs,
                   gatewayCMDTopic, deviceCMDTopic, inbox, sent, lastCmd,
                   destroyed, replyThread>>

(* setCommandHandler: callback_ptr->set_callback(cb).                     *)
setCommandHandler ==
    /\ ~destroyed /\ appConnected
    /\ callback_ptr' = [callback_ptr EXCEPT !.user = TRUE]
    /\ UNCHANGED <<kind, mProperties, published, pasync_client, conn, session, brokerSubs,
                   gatewayCMDTopic, deviceCMDTopic, inbox, sent, lastCmd,
                   appConnected, connects, destroyed, replyThread>>

(* Mutation: the topic is added to the registry whatever the token did.  *)
SubscribeTopic_NoCompleteCheck(t) ==
    \/ /\ Contains(callback_ptr.subs, t) \/ conn = "down"
       /\ UNCHANGED <<callback_ptr, brokerSubs>>
    \/ /\ ~Contains(callback_ptr.subs, t) /\ conn = "up"
       /\ \E outcome \in TokenOutcomes :
            /\ callback_ptr' = [callback_ptr EXCEPT !.subs = Append(@, t)]
            /\ brokerSubs' = IF outcome # "timeout_lost"
                             THEN brokerSubs \cup {t} ELSE brokerSubs

(* IOTP_Client::subscribeTopic: a topic already in the registry returns  *)
(* true at once; otherwise SUBSCRIBE (throwing when not connected), wait, *)
(* and add the topic to the registry only if the token completed.        *)
SubscribeTopic(t) ==
    \/ /\ Contains(callback_ptr.subs, t) \/ conn = "down"
       /\ UNCHANGED <<callback_ptr, brokerSubs>>
    \/ /\ ~Contains(callback_ptr.subs, t) /\ conn = "up"
       /\ \E outcome \in TokenOutcomes :
            /\ callback_ptr' = IF outcome = "complete"
                               THEN [callback_ptr EXCEPT !.subs = Append(@, t)]
                               ELSE callback_ptr
            /\ brokerSubs' = IF outcome # "timeout_lost"
                             THEN brokerSubs \cup {t} ELSE brokerSubs

(* IOTP_DeviceClient::subscribeCommands, called by the application.      *)
subscribeCommands ==
    /\ ~destroyed /\ appConnected /\ kind = "device"
    /\ SubscribeTopic(commandTopic)
    /\ UNCHANGED <<kind, mProperties, published, pasync_client, conn, session,
                   gatewayCMDTopic, deviceCMDTopic, inbox, sent, lastCmd,
                   appConnected, connects, destroyed, replyThread>>

(* IOTP_GatewayClient::subscribeGatewayCommands, which connect() calls   *)
(* and the application may call again: rebuild gatewayCMDTopic from the  *)
(* gateway's own type and id and subscribeTopic it.                       *)
subscribeGatewayCommands ==
    /\ ~destroyed /\ appConnected /\ kind = "gateway"
    /\ gatewayCMDTopic' = GatewayFilter(Self)
    /\ SubscribeTopic(GatewayFilter(Self))
    /\ UNCHANGED <<kind, mProperties, published, pasync_client, conn, session,
                   deviceCMDTopic, inbox, sent, lastCmd, appConnected,
                   connects, destroyed, replyThread>>

(* Mutation: the filter is built from the gateway's own type and id.     *)
subscribeDeviceCommands_OwnTopic(d) ==
    /\ ~destroyed /\ appConnected /\ kind = "gateway"
    /\ deviceCMDTopic' = GatewayFilter(Self)
    /\ SubscribeTopic(GatewayFilter(d))
    /\ UNCHANGED <<kind, mProperties, published, pasync_client, conn, session,
                   gatewayCMDTopic, inbox, sent, lastCmd, appConnected,
                   connects, destroyed, replyThread>>

(* IOTP_GatewayClient::subscribeDeviceCommands(type, id): overwrite       *)
(* deviceCMDTopic with the device's filter and subscribeTopic it.         *)
subscribeDeviceCommands(d) ==
    /\ ~destroyed /\ appConnected /\ kind = "gateway"
    /\ deviceCMDTopic' = GatewayFilter(d)
    /\ SubscribeTopic(GatewayFilter(d))
    /\ UNCHANGED <<kind, mProperties, published, pasync_client, conn, session,
                   gatewayCMDTopic, inbox, sent, lastCmd, appConnected,
                   connects, destroyed, replyThread>>

(* IOTP_Client::publishTopic: pasync_client->publish, which throws when *)
(* the client is not connected; the platform receives the event.  The    *)
(* event's topic and payload are not modelled.                           *)
PublishTopic ==
    /\ ~destroyed /\ appConnected
    /\ IF conn = "up"
       THEN /\ published < MaxEvents
            /\ published' = published + 1
       ELSE UNCHANGED published
    /\ UNCHANGED <<kind, mProperties, pasync_client, conn, session,
                   callback_ptr, brokerSubs, gatewayCMDTopic, deviceCMDTopic,
                   inbox, sent, lastCmd, appConnected, connects, destroyed, replyThread>>

(* IOTP_DeviceClient::publishEvent, both overloads.                       *)
publishEvent == kind = "device" /\ PublishTopic

(* IOTP_GatewayClient::publishGatewayEvent and publishDeviceEvent, both  *)
(* overloads each: the topic names the gateway or an attached device.    *)
publishGatewayEvent == kind = "gateway" /\ PublishTopic
publishDeviceEvent == kind = "gateway" /\ PublishTopic

(* IOTP_Client::unsubscribeCommands on a registry and broker state st:   *)
(* nothing unless the registry lists t; UNSUBSCRIBE throws when not       *)
(* connected; the registry entry goes only if the token completed.        *)
Unsubscribed(st, t, outcome) ==
    IF st.threw \/ t = "" \/ ~Contains(st.subs, t) THEN st
    ELSE IF conn = "down" THEN [st EXCEPT !.threw = TRUE]
    ELSE [subs   |-> IF outcome = "complete" THEN RemoveFirst(st.subs, t)
                     ELSE st.subs,
          broker |-> IF outcome # "timeout_lost" THEN st.broker \ {t}
                     ELSE st.broker,
          threw  |-> FALSE]

(* IOTP_Client::disconnect: DISCONNECT, waited for without a timeout;    *)
(* the clean session ends with its subscriptions and undelivered messages.*)
ClientDisconnect ==
    /\ conn' = "down"
    /\ brokerSubs' = {}
    /\ inbox' = <<>>

(* The topics disconnect() unsubscribes, in order, "" for none: the     *)
(* device's commandTopic; the gateway's own and its last device's topic. *)
DisconnectTopics ==
    IF kind = "gateway" THEN <<gatewayCMDTopic, deviceCMDTopic>>
    ELSE <<commandTopic, "">>

(* disconnect(): unsubscribeCommands for commandTopic (device), or for   *)
(* gatewayCMDTopic and then deviceCMDTopic (gateway), then                *)
(* IOTP_Client::disconnect, which waits for the DISCONNECT without a      *)
(* timeout; the clean session ends.  An exception from an UNSUBSCRIBE     *)
(* leaves disconnect() before the DISCONNECT.                             *)
disconnect ==
    /\ ~destroyed /\ appConnected
    /\ \E o1, o2 \in TokenOutcomes :
         LET topics == DisconnectTopics
             st0 == [subs |-> callback_ptr.subs, broker |-> brokerSubs, threw |-> FALSE]
             st  == Unsubscribed(Unsubscribed(st0, topics[1], o1), topics[2], o2)
         IN /\ callback_ptr' = [callback_ptr EXCEPT !.subs = st.subs]
            /\ IF st.threw THEN UNCHANGED <<conn, brokerSubs, inbox>>
                           ELSE ClientDisconnect
    /\ appConnected' = FALSE
    /\ UNCHANGED <<kind, mProperties, published, pasync_client, session, gatewayCMDTopic,
                   deviceCMDTopic, sent, lastCmd, connects, destroyed, replyThread>>

(* The broker or the network drops the connection; the clean session and *)
(* the messages in flight are gone.  IOTF_Callback::connection_lost only *)
(* prints, so the application is not told.                                *)
ConnectionLost ==
    /\ ~destroyed /\ conn = "up"
    /\ conn' = "down"
    /\ brokerSubs' = {}
    /\ inbox' = <<>>
    /\ UNCHANGED <<kind, mProperties, published, pasync_client, session, callback_ptr,
                   gatewayCMDTopic, deviceCMDTopic, sent, lastCmd,
                   appConnected, connects, destroyed, replyThread>>

(* The platform sends a command to a device; the broker routes it here   *)
(* when a filter of the session matches it.                               *)
PlatformCommand ==
    /\ sent < MaxCommands
    /\ sent' = sent + 1
    /\ \E d \in Targets, c \in CmdNames :
         inbox' = IF conn = "up" /\ FilterOf(d) \in brokerSubs
                  THEN Append(inbox, [topic |-> CommandTopic(d, c),
                                      sent  |-> <<d[1], d[2], c, "json">>])
                  ELSE inbox
    /\ UNCHANGED <<kind, mProperties, published, pasync_client, conn, session,
                   callback_ptr, brokerSubs, gatewayCMDTopic, deviceCMDTopic,
                   lastCmd, appConnected, connects, destroyed, replyThread>>

(* IOTF_Callback::message_arrived on the MQTT thread, for a command      *)
(* topic: no handler is registered for it, so if the callback installed  *)
(* on this connection has a user callback, it parses the topic and calls *)
(* processCommand.  A connection established after a timed-out connect  *)
(* has no IOTF_Callback of its own and drops the message.                 *)
message_arrived ==
    /\ inbox # <<>>
    /\ inbox' = Tail(inbox)
    /\ lastCmd' = IF callback_ptr.session = session /\ callback_ptr.user
                  THEN [topic |-> Head(inbox).topic, sent |-> Head(inbox).sent,
                        got   |-> ParseCommand(Head(inbox).topic)]
                  ELSE lastCmd
    /\ UNCHANGED <<kind, mProperties, published, pasync_client, conn, session,
                   callback_ptr, brokerSubs, gatewayCMDTopic, deviceCMDTopic,
                   sent, appConnected, connects, destroyed, replyThread>>

(* ~IOTP_Client: join the reply thread and delete pasync_client, which   *)
(* closes its connection.  With pasync_client still "uninit" the delete   *)
(* is of an indeterminate pointer.  A thread never started is not        *)
(* joinable: join() throws std::system_error, the catch skips the delete, *)
(* and the connection outlives the client and its IOTF_Callback.          *)
Destroy ==
    /\ ~destroyed
    /\ destroyed' = TRUE
    /\ IF replyThread THEN ClientDisconnect ELSE UNCHANGED <<conn, brokerSubs, inbox>>
    /\ appConnected' = FALSE
    /\ UNCHANGED <<kind, mProperties, published, pasync_client, session, callback_ptr,
                   gatewayCMDTopic, deviceCMDTopic, sent, lastCmd, connects, replyThread>>

(* The calls an application may make, in any order.                       *)
AppNext ==
    \/ ConnectInitFails \/ ConnectAccepted \/ ConnectRefused \/ ConnectTimedOut
    \/ setCommandHandler \/ subscribeCommands \/ subscribeGatewayCommands
    \/ \E d \in Devices : subscribeDeviceCommands(d)
    \/ publishEvent \/ publishGatewayEvent \/ publishDeviceEvent
    \/ disconnect \/ Destroy

(* The broker, the platform and paho's MQTT thread.                      *)
EnvNext == ConnectionLost \/ PlatformCommand \/ message_arrived

Next == AppNext \/ EnvNext

Spec == Init /\ [][Next]_vars

-----------------------------------------------------------------------------
Filters == {commandTopic} \cup {GatewayFilter(d) : d \in {Self} \cup Devices}

TypeOK ==
    /\ kind \in Kinds
    /\ mProperties \in Configs \cup {PropertiesFromFile(f) : f \in Files}
    /\ pasync_client \in {"uninit", "created"}
    /\ conn \in {"down", "up"}
    /\ session \in 0..MaxConnects
    /\ callback_ptr.subs \in Seq(Filters)
    /\ callback_ptr.user \in BOOLEAN
    /\ callback_ptr.session \in 0..session
    /\ brokerSubs \subseteq Filters
    /\ gatewayCMDTopic \in {"", GatewayFilter(Self)}
    /\ deviceCMDTopic \in {""} \cup {GatewayFilter(d) : d \in Devices}
    /\ Len(inbox) <= MaxCommands
    /\ sent \in 0..MaxCommands
    /\ appConnected \in BOOLEAN /\ destroyed \in BOOLEAN
    /\ connects \in 0..MaxConnects
    /\ published \in 0..MaxEvents
    /\ replyThread \in BOOLEAN

(* On the connection whose connect() installed the current IOTF_Callback,*)
(* every topic the registry lists as subscribed is subscribed at the     *)
(* broker: subscribeTopic records only completed SUBSCRIBEs, disconnect  *)
(* and a lost connection end the clean session, and every accepted       *)
(* connect starts a fresh registry.  A topic listed but not held would   *)
(* make subscribeTopic answer "already subscribed" and never subscribe.  *)
RegistryImpliesBroker ==
    (conn = "up" /\ callback_ptr.session = session)
        => ToSet(callback_ptr.subs) \subseteq brokerSubs

(* A topic that carries all four markers "type/", "id/", "cmd/", "fmt/". *)
HasAllMarkers(t) == \A m \in {"type/", "id/", "cmd/", "fmt/"} : Find(t, m, 0) # npos

(* The user callback receives, for a command topic that has all four      *)
(* markers, exactly the device type, device id, command name and format   *)
(* the platform put into that topic (spec section 8, last scenario).      *)
CommandFieldsMatchTopic ==
    (lastCmd # NoCmd /\ HasAllMarkers(lastCmd.topic))
        => lastCmd.got = [deviceType |-> lastCmd.sent[1], deviceId |-> lastCmd.sent[2],
                          command |-> lastCmd.sent[3], format |-> lastCmd.sent[4]]

=============================================================================
