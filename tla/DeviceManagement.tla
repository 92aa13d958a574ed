--------------------------- MODULE DeviceManagement ---------------------------
(***************************************************************************)
(* The device-management session of IOTP_DeviceClient together with the  *)
(* subscription registry and inbound router of IOTP_Client::IOTF_Callback.*)
(*                                                                         *)
(* Registry (IOTF_Callback): mSubscriptions, a list of topics, and        *)
(* mHandlers, a multimap topic -> handler.  subscribeCommandHandler adds  *)
(* to both after a completed MQTT SUBSCRIBE, unless (topic, handler) is   *)
(* already in mHandlers; unsubscribeCommands removes the first list entry *)
(* after a completed UNSUBSCRIBE and leaves mHandlers alone.              *)
(*                                                                         *)
(* Session (IOTP_DeviceClient): manage() registers the response handler, *)
(* sends the manage request, waits for the answer and on rc 200 registers *)
(* the firmware, action and attribute handlers; unmanage() sends the      *)
(* unmanage request and unsubscribes the response topic;                  *)
(* pushManageMessage (location update, error codes, logs) registers the   *)
(* response handler and does one request/response.  The wait for the     *)
(* answer is the ResponseCorrelator; here it yields an rc, or -1 when no  *)
(* answer can arrive because the broker does not route the response      *)
(* topic to this client, or when the wait ends empty.                     *)
(*                                                                         *)
(* Router (IOTF_Callback::message_arrived): a platform request published *)
(* on a topic the broker has subscribed for this client is handed to      *)
(* every handler registered under that exact topic.                       *)
(***************************************************************************)
EXTENDS Integers, Sequences, SequencesExt, FiniteSets

CONSTANTS
    RESPONSE,        \* SERVER_RESPONSE_TOPIC      iotdm-1/response
    UPDATE,          \* SERVER_UPDATE_TOPIC        iotdm-1/device/update
    OBSERVE,         \* SERVER_OBSERVE_TOPIC       iotdm-1/observe
    CANCEL,          \* SERVER_CANCEL_TOPIC        iotdm-1/cancel
    FW_DOWNLOAD,     \* SERVER_FIRMWARE_DOWNLOAD_TOPIC
    FW_UPDATE,       \* SERVER_FIRMWARE_UPDATE_TOPIC
    REBOOT,          \* SERVER_DEVICE_REBOOT_TOPIC
    FACTORY_RESET,   \* SERVER_FACTORY_RESET_TOPIC
    Configured,      \* handlers given to the constructor, a subset of {"fw","act","attr"}
    RCs,             \* rc values the platform answers a management request with
    MaxOps,          \* manage/unmanage/pushManageMessage calls (bounds the model)
    MaxRequests,     \* platform requests on management topics (bounds the model)
    HasUserCallback, \* whether setCommandHandler installed a user callback
    SubscribeMayFail \* whether a SUBSCRIBE/UNSUBSCRIBE token may not complete in time

ASSUME Configured \subseteq {"fw", "act", "attr"}
ASSUME 200 \in RCs /\ MaxOps \in Nat /\ MaxRequests \in Nat
ASSUME SubscribeMayFail \in BOOLEAN /\ HasUserCallback \in BOOLEAN

VARIABLES
    brokerSubs,     \* topics the broker routes to this client
    mSubscriptions, \* IOTF_Callback::mSubscriptions
    mHandlers,      \* IOTF_Callback::mHandlers: <<topic, handler>> entries in insertion order
    pc,             \* caller thread: "idle", "send", "await", "subscribing", "unsub"
    op,             \* the call in progress: "manage", "unmanage" or a ManagementCalls member
    todo,           \* subscribeCommandHandler calls manage still has to make
    result,         \* return value of the last finished call
    ops,            \* calls made
    requests,       \* platform requests published so far
    lastDispatch    \* ghost: handlers invoked, in order, for the last delivered request

vars == <<brokerSubs, mSubscriptions, mHandlers, pc, op, todo, result, ops,
          requests, lastDispatch>>

Handler == {"resp", "fw", "act", "attr"}
Topic == {RESPONSE, UPDATE, OBSERVE, CANCEL, FW_DOWNLOAD, FW_UPDATE, REBOOT,
          FACTORY_RESET}
MgmtTopics == Topic \ {RESPONSE}

(* Mutation: the action handler subscribed without its nullptr test.     *)
HandlerSubscriptions_NoNullCheck ==
       (IF "fw" \in Configured
        THEN << <<UPDATE, "fw">>, <<OBSERVE, "fw">>, <<CANCEL, "fw">>,
                <<FW_DOWNLOAD, "fw">>, <<FW_UPDATE, "fw">> >>
        ELSE <<>>)
    \o << <<REBOOT, "act">>, <<FACTORY_RESET, "act">> >>
    \o (IF "attr" \in Configured THEN << <<UPDATE, "attr">> >> ELSE <<>>)

(* The subscribeCommandHandler calls of manage() after rc 200, in order,  *)
(* for the handlers that are not nullptr.                                 *)
HandlerSubscriptions ==
       (IF "fw" \in Configured
        THEN << <<UPDATE, "fw">>, <<OBSERVE, "fw">>, <<CANCEL, "fw">>,
                <<FW_DOWNLOAD, "fw">>, <<FW_UPDATE, "fw">> >>
        ELSE <<>>)
    \o (IF "act" \in Configured
        THEN << <<REBOOT, "act">>, <<FACTORY_RESET, "act">> >> ELSE <<>>)
    \o (IF "attr" \in Configured THEN << <<UPDATE, "attr">> >> ELSE <<>>)

(* The outcome of pasync_client->subscribe / unsubscribe followed by     *)
(* wait_for_completion(DEFAULT_TIMEOUT()): the token completed, or it     *)
(* did not complete in time, in which case the broker may or may not      *)
(* have applied the request.                                              *)
TokenOutcomes ==
    IF SubscribeMayFail THEN {"complete", "timeout_applied", "timeout_lost"}
    ELSE {"complete"}

-----------------------------------------------------------------------------
(* After connect(): a fresh IOTF_Callback with an empty registry.  (The  *)
(* command topic iot-2/cmd/+/fmt/+ subscribed by connect() has no        *)
(* handler and is left to the TopicParse module.)                         *)
Init ==
    /\ brokerSubs = {}
    /\ mSubscriptions = <<>>
    /\ mHandlers = <<>>
    /\ pc = "idle"
    /\ op = "manage"
    /\ todo = <<>>
    /\ result = FALSE
    /\ ops = 0
    /\ requests = 0
    /\ lastDispatch = <<>>

(* IOTF_Callback::check_subscription(topic, handler)                      *)
HasHandler(t, h) == <<t, h>> \in ToSet(mHandlers)

(* Mutation: subscribeCommandHandler without the check_subscription test. *)
SubscribeCommandHandler_NoCheck(t, h, outcome) ==
    /\ brokerSubs' = IF outcome \in {"complete", "timeout_applied"}
                     THEN brokerSubs \cup {t} ELSE brokerSubs
    /\ IF outcome = "complete"
       THEN /\ mSubscriptions' = Append(mSubscriptions, t)
            /\ mHandlers' = Append(mHandlers, <<t, h>>)
       ELSE UNCHANGED <<mSubscriptions, mHandlers>>

(* IOTP_Client::subscribeCommandHandler(topic, handler) with the given    *)
(* token outcome: when (topic, handler) is already in mHandlers nothing   *)
(* is sent and the call succeeds; otherwise SUBSCRIBE is sent and, if the *)
(* token completed, add_subscription appends the topic to mSubscriptions  *)
(* and inserts the pair into mHandlers.  Returns rc (see SubscribeOk).    *)
SubscribeCommandHandler(t, h, outcome) ==
    IF HasHandler(t, h)
    THEN UNCHANGED <<brokerSubs, mSubscriptions, mHandlers>>
    ELSE /\ brokerSubs' = IF outcome \in {"complete", "timeout_applied"}
                          THEN brokerSubs \cup {t} ELSE brokerSubs
         /\ IF outcome = "complete"
            THEN /\ mSubscriptions' = Append(mSubscriptions, t)
                 /\ mHandlers' = Append(mHandlers, <<t, h>>)
            ELSE UNCHANGED <<mSubscriptions, mHandlers>>

SubscribeOk(t, h, outcome) == HasHandler(t, h) \/ outcome = "complete"

(* manage() and pushManageMessage() first call                            *)
(* subscribeCommandHandler(SERVER_RESPONSE_TOPIC, mResponseHandler) and   *)
(* return false when it fails.                                            *)
StartManagementCall(kind) ==
    /\ pc = "idle"
    /\ ops < MaxOps
    /\ ops' = ops + 1
    /\ op' = kind
    /\ \E outcome \in TokenOutcomes :
         /\ SubscribeCommandHandler(RESPONSE, "resp", outcome)
         /\ IF SubscribeOk(RESPONSE, "resp", outcome)
            THEN pc' = "send" /\ UNCHANGED result
            ELSE pc' = "idle" /\ result' = FALSE
    /\ UNCHANGED <<todo, requests, lastDispatch>>

manage == StartManagementCall("manage")
(* The IOTP_DeviceClient calls that are one pushManageMessage each, to    *)
(* their own DEVICE_* topic; the payload (location, error code, log) is   *)
(* abstracted.                                                            *)
ManagementCalls == {"update_device_location", "addErrorCodes",
                    "clearErrorCodes", "addLogs", "clearLogs"}

pushManageMessage == \E call \in ManagementCalls : StartManagementCall(call)

(* send_message: an empty reqId (publish not completed) makes the call    *)
(* return false; otherwise the caller waits for the answer.               *)
SendRequest ==
    /\ pc = "send"
    /\ \E sent \in BOOLEAN :
         IF sent THEN pc' = "await" /\ UNCHANGED result
         ELSE pc' = "idle" /\ result' = FALSE
    /\ UNCHANGED <<brokerSubs, mSubscriptions, mHandlers, op, todo, ops,
                   requests, lastDispatch>>

(* Mutation: wait_for_response waits without a timeout (mCond.wait), so  *)
(* it only ever ends with an answer of the platform.                      *)
Answers_NoTimeout == IF RESPONSE \in brokerSubs THEN RCs ELSE {}

(* The answers wait_for_response can end with: an rc of the platform     *)
(* when the broker routes the response topic to this client, or -1       *)
(* (res.get("rc", -1)) when the wait ends empty.                          *)
Answers == (IF RESPONSE \in brokerSubs THEN RCs ELSE {}) \cup {-1}

(* mResponseHandler->wait_for_response, then rc = res.get("rc", -1).     *)
(* manage() on rc 200 goes on to subscribe the handlers; every other     *)
(* outcome, and pushManageMessage, returns rc == 200.                     *)
AwaitResponse ==
    /\ pc = "await"
    /\ \E rc \in Answers :
         /\ IF op = "manage" /\ rc = 200
            THEN pc' = "subscribing" /\ todo' = HandlerSubscriptions
                 /\ UNCHANGED result
            ELSE pc' = "idle" /\ result' = (rc = 200) /\ UNCHANGED todo
    /\ UNCHANGED <<brokerSubs, mSubscriptions, mHandlers, op, ops, requests,
                   lastDispatch>>

(* One this->subscribeCommandHandler(topic, handler) call of manage();   *)
(* its return value is ignored.                                           *)
SubscribeNextHandler ==
    /\ pc = "subscribing"
    /\ todo # <<>>
    /\ \E outcome \in TokenOutcomes :
         SubscribeCommandHandler(Head(todo)[1], Head(todo)[2], outcome)
    /\ todo' = Tail(todo)
    /\ UNCHANGED <<pc, op, result, ops, requests, lastDispatch>>

(* After the last handler subscription manage() returns (rc == 200).     *)
ManageDone ==
    /\ pc = "subscribing"
    /\ todo = <<>>
    /\ pc' = "idle"
    /\ result' = TRUE
    /\ UNCHANGED <<brokerSubs, mSubscriptions, mHandlers, op, todo, ops,
                   requests, lastDispatch>>

(* unmanage(): send_message(DEVICE_UNMANAGE_TOPIC) and, whatever its      *)
(* outcome, unsubscribeCommands(SERVER_RESPONSE_TOPIC).                   *)
unmanage ==
    /\ pc = "idle"
    /\ ops < MaxOps
    /\ ops' = ops + 1
    /\ op' = "unmanage"
    /\ pc' = "unsub"
    /\ \E sent \in BOOLEAN : result' = sent   \* return (!reqId.empty())
    /\ UNCHANGED <<brokerSubs, mSubscriptions, mHandlers, todo, requests,
                   lastDispatch>>

(* IOTP_Client::unsubscribeCommands(topic): only when the topic is in    *)
(* mSubscriptions; after a completed UNSUBSCRIBE, remove_subscription     *)
(* erases the first matching entry of mSubscriptions.  mHandlers keeps    *)
(* the (topic, handler) pair.                                             *)
unsubscribeCommands ==
    /\ pc = "unsub"
    /\ pc' = "idle"
    /\ IF RESPONSE \in ToSet(mSubscriptions)
       THEN \E outcome \in TokenOutcomes :
              /\ brokerSubs' = IF outcome \in {"complete", "timeout_applied"}
                               THEN brokerSubs \ {RESPONSE} ELSE brokerSubs
              /\ mSubscriptions' = IF outcome = "complete"
                                   THEN RemoveFirst(mSubscriptions, RESPONSE)
                                   ELSE mSubscriptions
       ELSE UNCHANGED <<brokerSubs, mSubscriptions>>
    /\ UNCHANGED <<mHandlers, op, todo, result, ops, requests,
                   lastDispatch>>

(* The handlers message_arrived invokes for topic t, in order: one call  *)
(* per entry of mHandlers.equal_range(t); when there is none and a user  *)
(* callback is set, user_callback->processCommand.                        *)
Dispatch(t) ==
    LET hs == [i \in 1..Len(SelectSeq(mHandlers, LAMBDA e : e[1] = t)) |->
                 SelectSeq(mHandlers, LAMBDA e : e[1] = t)[i][2]]
    IN  IF hs = <<>> /\ HasUserCallback THEN <<"user">> ELSE hs

(* The platform publishes a request on a management topic.  The broker   *)
(* delivers it only if this client is subscribed; message_arrived then    *)
(* runs on the MQTT thread.                                               *)
PlatformRequest ==
    /\ requests < MaxRequests
    /\ requests' = requests + 1
    /\ \E t \in MgmtTopics :
         lastDispatch' = IF t \in brokerSubs THEN Dispatch(t) ELSE <<>>
    /\ UNCHANGED <<brokerSubs, mSubscriptions, mHandlers, pc, op, todo,
                   result, ops>>

Next ==
    \/ manage \/ pushManageMessage \/ SendRequest \/ AwaitResponse
    \/ SubscribeNextHandler \/ ManageDone \/ unmanage \/ unsubscribeCommands
    \/ PlatformRequest

(* Every step of a management call blocks on a token or on the response *)
(* handler for at most DEFAULT_TIMEOUT() and then returns: weak fairness *)
(* on each of them.  The application need not start a call, and the       *)
(* platform need not send requests.                                       *)
Fairness ==
    /\ WF_vars(SendRequest)
    /\ WF_vars(AwaitResponse)
    /\ WF_vars(SubscribeNextHandler)
    /\ WF_vars(ManageDone)
    /\ WF_vars(unsubscribeCommands)

Spec == Init /\ [][Next]_vars /\ Fairness

-----------------------------------------------------------------------------
TypeOK ==
    /\ brokerSubs \subseteq Topic
    /\ mSubscriptions \in Seq(Topic)
    /\ mHandlers \in Seq(Topic \X ({"resp"} \cup Configured))
    /\ pc \in {"idle", "send", "await", "subscribing", "unsub"}
    /\ op \in {"manage", "unmanage"} \cup ManagementCalls
    /\ result \in BOOLEAN
    /\ ops \in 0..MaxOps
    /\ requests \in 0..MaxRequests
    /\ lastDispatch \in Seq(Handler \cup {"user"})

(* While a management call waits for the platform's answer, the broker   *)
(* routes the response topic to this client, so the answer can arrive.   *)
(* (unmanage() unsubscribes the topic but leaves the response handler in *)
(* mHandlers, so a later manage() believes it is still subscribed.)      *)
ResponseRoutableWhileAwaiting ==
    pc = "await" => RESPONSE \in brokerSubs

(* Every management call the application starts (manage, unmanage,      *)
(* pushManageMessage) eventually returns to it, whatever the broker and  *)
(* the registry do: also manage() after unmanage(), when the response    *)
(* topic is no longer routed and no answer can come, returns false after *)
(* the wait times out instead of hanging the application thread.         *)
ManagementCallReturns == (pc # "idle") ~> (pc = "idle")

(* A platform request is handed to each handler at most once, however   *)
(* many times manage() and pushManageMessage() registered it: a reboot  *)
(* or firmware update request must not run twice.                        *)
NoDoubleDispatch ==
    \A i, j \in DOMAIN lastDispatch : i # j => lastDispatch[i] # lastDispatch[j]
=============================================================================
