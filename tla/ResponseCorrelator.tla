-------------------------- MODULE ResponseCorrelator --------------------------
(***************************************************************************)
(* Request/response correlation of the device-management protocol.        *)
(*                                                                         *)
(* A caller thread runs IOTP_Client::pushManageMessage (and the same      *)
(* pattern in IOTP_DeviceClient::manage): send_message builds the reqId   *)
(* as ++mReqCounter + time(), publishes the request and waits for its     *)
(* completion; then IOTP_ResponseHandler::wait_for_response locks mLock,  *)
(* does ONE mCond.wait_for(timeout) and looks the reqId up in             *)
(* mResponseMessages.  The MQTT delivery thread runs                      *)
(* IOTP_ResponseHandler::message_arrived for every message on             *)
(* iotdm-1/response: it stores the document under its reqId, unlocks and  *)
(* calls notify_all.  The platform answers each request it received, at  *)
(* any later time, or never.                                               *)
(*                                                                         *)
(* A request or response is abstracted to its reqId, its rc and a ghost   *)
(* instance number naming the send_message call it belongs to.  The       *)
(* process may restart (all in-memory state is lost, the wall clock and   *)
(* the platform are not), and the wall clock may step back: FaultSpec.   *)
(***************************************************************************)
EXTENDS Integers, Sequences, SequencesExt, FiniteSets, TLC

CONSTANTS
    MaxCalls,        \* send_message calls per process lifetime
    MaxClock,        \* the wall clock stays in 0..MaxClock seconds
    MaxRestarts,     \* process restarts under FaultSpec
    RCs              \* rc values the platform answers with

ASSUME MaxCalls \in Nat \ {0} /\ MaxClock \in Nat /\ MaxRestarts \in Nat
ASSUME 200 \in RCs

VARIABLES
    now,                \* time(&now), seconds
    mReqCounter,        \* IOTP_Client::mReqCounter
    mResponseMessages,  \* IOTP_ResponseHandler::mResponseMessages: reqId -> response
    pc,                 \* caller thread program counter
    reqId,              \* reqId of the caller's current request
    inst,               \* ghost: instance number of the current call
    wakeStatus,         \* cv_status returned by the caller's wait_for
    got,                \* the document wait_for_response returned
    result,             \* pushManageMessage's return value (rc == 200)
    mqttPc,             \* MQTT thread: "idle" or "notify" (stored, not yet notified)
    toPlatform,         \* requests the platform received and has not answered
    toDevice,           \* responses published on iotdm-1/response, not yet delivered
    calls,              \* send_message calls in this process lifetime
    restarts,           \* restarts so far
    issued,             \* ghost: reqIds generated in this process lifetime, in order
    okInTime,           \* ghost: an rc 200 for the current call was stored before it timed out
    nextInst            \* ghost: next instance number

vars == <<now, mReqCounter, mResponseMessages, pc, reqId, inst, wakeStatus,
          got, result, mqttPc, toPlatform, toDevice, calls, restarts, issued,
          okInTime, nextInst>>

callerVars == <<pc, reqId, inst, wakeStatus, got, result>>

ReqIds == 0..(MaxCalls + MaxClock)
Insts == 1..(MaxCalls * (MaxRestarts + 1))
Response == [reqId : ReqIds, rc : RCs, inst : Insts]
NoDoc == [reqId |-> -1, rc |-> -1, inst |-> 0]  \* the empty Json::Value
NoReqId == -1                                     \* the empty std::string

-----------------------------------------------------------------------------
(* The process starts: mReqCounter = 0, empty response map, no call.     *)
ProcessStart ==
    /\ mReqCounter = 0
    /\ mResponseMessages = <<>>
    /\ pc = "idle"
    /\ reqId = NoReqId
    /\ inst = 0
    /\ wakeStatus = "no_timeout"
    /\ got = NoDoc
    /\ result = FALSE
    /\ mqttPc = "idle"
    /\ calls = 0
    /\ issued = <<>>
    /\ okInTime = FALSE

Init ==
    /\ ProcessStart
    /\ now \in 0..MaxClock
    /\ toPlatform = {}
    /\ toDevice = {}
    /\ restarts = 0
    /\ nextInst = 1

(* Mutation: mReqCounter + now, the counter is never incremented.        *)
IncrementedCounter_Missing == mReqCounter

(* Mutation: the counter is advanced twice per call.                     *)
IncrementedCounter_Twice == mReqCounter + 2

(* ++mReqCounter                                                          *)
IncrementedCounter == mReqCounter + 1

(* The generated reqId: ++mReqCounter + now.                              *)
NextReqId == IncrementedCounter + now

(* send_message: build the reqId, publish, wait_for_completion.  The     *)
(* publish can complete; fail while the request still reached the        *)
(* platform (completion timed out), or fail with the request lost.  On   *)
(* failure the reqId is cleared and pushManageMessage returns false.      *)
send_message ==
    /\ pc = "idle"
    /\ calls < MaxCalls
    /\ LET id == NextReqId IN
       \E outcome \in {"complete", "incomplete", "lost"} :
         /\ mReqCounter' = IncrementedCounter
         /\ calls' = calls + 1
         /\ issued' = Append(issued, id)
         /\ inst' = nextInst
         /\ nextInst' = nextInst + 1
         /\ toPlatform' = IF outcome = "lost" THEN toPlatform
                          ELSE toPlatform \cup {<<id, nextInst>>}
         /\ IF outcome = "complete"
            THEN /\ reqId' = id
                 /\ pc' = "sent"
                 /\ UNCHANGED result
            ELSE /\ reqId' = NoReqId
                 /\ pc' = "returned"
                 /\ result' = FALSE
         /\ got' = NoDoc
         /\ okInTime' = FALSE
    /\ UNCHANGED <<now, mResponseMessages, wakeStatus, mqttPc, toDevice,
                   restarts>>

(* wait_for_response: guard g(mLock); mCond.wait_for(g, timeout) releases *)
(* the lock atomically with starting to wait.                             *)
WaitForResponse ==
    /\ pc = "sent"
    /\ pc' = "waiting"
    /\ UNCHANGED <<now, mReqCounter, mResponseMessages, reqId, inst,
                   wakeStatus, got, result, mqttPc, toPlatform, toDevice,
                   calls, restarts, issued, okInTime, nextInst>>

(* Mutation: mCond.wait(g) without a timeout.                           *)
WaitTimeout_Never == FALSE

(* wait_for returns cv_status::timeout after DEFAULT_TIMEOUT().           *)
WaitTimeout ==
    /\ pc = "waiting"
    /\ pc' = "woken"
    /\ wakeStatus' = "timeout"
    /\ UNCHANGED <<now, mReqCounter, mResponseMessages, reqId, inst, got,
                   result, mqttPc, toPlatform, toDevice, calls, restarts,
                   issued, okInTime, nextInst>>

(* wait_for returns no_timeout without a notification.                    *)
SpuriousWakeup ==
    /\ pc = "waiting"
    /\ pc' = "woken"
    /\ wakeStatus' = "no_timeout"
    /\ UNCHANGED <<now, mReqCounter, mResponseMessages, reqId, inst, got,
                   result, mqttPc, toPlatform, toDevice, calls, restarts,
                   issued, okInTime, nextInst>>

(* Mutation: the lookup takes whichever stored response comes first.     *)
LookupResponse_AnyEntry ==
    /\ pc = "woken"
    /\ LET found == wakeStatus = "no_timeout" /\ DOMAIN mResponseMessages # {}
           key   == CHOOSE k \in DOMAIN mResponseMessages : TRUE
           doc   == IF found THEN mResponseMessages[key] ELSE NoDoc
       IN /\ got' = doc
          /\ result' = (doc.rc = 200)
          /\ mResponseMessages' =
               IF found
               THEN [k \in DOMAIN mResponseMessages \ {key} |-> mResponseMessages[k]]
               ELSE mResponseMessages
    /\ pc' = "returned"
    /\ UNCHANGED <<now, mReqCounter, reqId, inst, wakeStatus, mqttPc,
                   toPlatform, toDevice, calls, restarts, issued, okInTime,
                   nextInst>>

(* After waking (with the lock re-acquired): on timeout return the empty  *)
(* document; otherwise find reqId, copy and erase the entry, or return    *)
(* the empty document when it is absent.  pushManageMessage then returns *)
(* res.get("rc", -1) == 200.                                              *)
LookupResponse ==
    /\ pc = "woken"
    /\ LET found == wakeStatus = "no_timeout" /\ reqId \in DOMAIN mResponseMessages
           doc   == IF found THEN mResponseMessages[reqId] ELSE NoDoc
       IN /\ got' = doc
          /\ result' = (doc.rc = 200)
          /\ mResponseMessages' =
               IF found
               THEN [k \in DOMAIN mResponseMessages \ {reqId} |-> mResponseMessages[k]]
               ELSE mResponseMessages
    /\ pc' = "returned"
    /\ UNCHANGED <<now, mReqCounter, reqId, inst, wakeStatus, mqttPc,
                   toPlatform, toDevice, calls, restarts, issued, okInTime,
                   nextInst>>

(* The application goes on to its next device-management call.           *)
CallerNext ==
    /\ pc = "returned"
    /\ pc' = "idle"
    /\ UNCHANGED <<now, mReqCounter, mResponseMessages, reqId, inst,
                   wakeStatus, got, result, mqttPc, toPlatform, toDevice,
                   calls, restarts, issued, okInTime, nextInst>>

(* The platform answers a request it received, echoing its reqId.         *)
PlatformRespond ==
    /\ \E req \in toPlatform, rc \in RCs :
         /\ toPlatform' = toPlatform \ {req}
         /\ toDevice' = toDevice \cup
                          {[reqId |-> req[1], rc |-> rc, inst |-> req[2]]}
    /\ UNCHANGED <<now, mReqCounter, mResponseMessages, callerVars, mqttPc,
                   calls, restarts, issued, okInTime, nextInst>>

(* IOTP_ResponseHandler::message_arrived, first half: under mLock, store  *)
(* the document under its reqId (overwriting any earlier one), unlock.    *)
ResponseArrived ==
    /\ mqttPc = "idle"
    /\ \E msg \in toDevice :
         /\ toDevice' = toDevice \ {msg}
         /\ mResponseMessages' = (msg.reqId :> msg) @@ mResponseMessages
         /\ okInTime' = (okInTime \/ ( /\ pc \in {"sent", "waiting"}
                                       /\ msg.inst = inst /\ msg.rc = 200))
    /\ mqttPc' = "notify"
    /\ UNCHANGED <<now, mReqCounter, callerVars, toPlatform, calls, restarts,
                   issued, nextInst>>

(* message_arrived, second half: mCond.notify_all() after the unlock.     *)
NotifyAll ==
    /\ mqttPc = "notify"
    /\ mqttPc' = "idle"
    /\ IF pc = "waiting"
       THEN pc' = "woken" /\ wakeStatus' = "no_timeout"
       ELSE UNCHANGED <<pc, wakeStatus>>
    /\ UNCHANGED <<now, mReqCounter, mResponseMessages, reqId, inst, got,
                   result, toPlatform, toDevice, calls, restarts, issued,
                   okInTime, nextInst>>

(* The wall clock advances one second.                                     *)
ClockTick ==
    /\ now < MaxClock
    /\ now' = now + 1
    /\ UNCHANGED <<mReqCounter, mResponseMessages, callerVars, mqttPc,
                   toPlatform, toDevice, calls, restarts, issued, okInTime,
                   nextInst>>

(* The wall clock is set back one second (NTP correction, manual set).    *)
ClockStepBack ==
    /\ now > 0
    /\ now' = now - 1
    /\ UNCHANGED <<mReqCounter, mResponseMessages, callerVars, mqttPc,
                   toPlatform, toDevice, calls, restarts, issued, okInTime,
                   nextInst>>

(* The process dies and is started again: every in-memory structure is    *)
(* rebuilt by the constructors; requests and responses already on the     *)
(* network, and the clock, survive.                                       *)
Restart ==
    /\ restarts < MaxRestarts
    /\ restarts' = restarts + 1
    /\ mReqCounter' = 0
    /\ mResponseMessages' = <<>>
    /\ pc' = "idle"
    /\ reqId' = NoReqId
    /\ inst' = 0
    /\ wakeStatus' = "no_timeout"
    /\ got' = NoDoc
    /\ result' = FALSE
    /\ mqttPc' = "idle"
    /\ calls' = 0
    /\ issued' = <<>>
    /\ okInTime' = FALSE
    /\ UNCHANGED <<now, toPlatform, toDevice, nextInst>>

Next ==
    \/ send_message \/ WaitForResponse \/ WaitTimeout \/ SpuriousWakeup
    \/ LookupResponse \/ CallerNext
    \/ PlatformRespond \/ ResponseArrived \/ NotifyAll
    \/ ClockTick

(* The fault model: the process may restart and the clock may step back.  *)
FaultNext == Next \/ ClockStepBack \/ Restart

(* The caller thread is scheduled and wait_for always times out          *)
(* eventually; the MQTT thread finishes message_arrived.                  *)
Fairness ==
    /\ WF_vars(WaitForResponse) /\ WF_vars(WaitTimeout)
    /\ WF_vars(LookupResponse) /\ WF_vars(NotifyAll)

Spec == Init /\ [][Next]_vars /\ Fairness

FaultSpec == Init /\ [][FaultNext]_vars /\ Fairness

-----------------------------------------------------------------------------
TypeOK ==
    /\ now \in 0..MaxClock
    /\ mReqCounter \in 0..MaxCalls
    /\ DOMAIN mResponseMessages \subseteq ReqIds
    /\ \A k \in DOMAIN mResponseMessages : mResponseMessages[k] \in Response
    /\ pc \in {"idle", "sent", "waiting", "woken", "returned"}
    /\ reqId \in ReqIds \cup {NoReqId}
    /\ inst \in Insts \cup {0}
    /\ nextInst \in 1..(Cardinality(Insts) + 1)
    /\ got \in Response \cup {NoDoc}
    /\ result \in BOOLEAN
    /\ mqttPc \in {"idle", "notify"}
    /\ toPlatform \subseteq ReqIds \X Insts
    /\ toDevice \subseteq Response
    /\ issued \in Seq(ReqIds)

(* Every reqId generated by send_message differs from all reqIds          *)
(* generated earlier in the same process lifetime.                        *)
UniqueReqIds ==
    \A i, j \in 1..Len(issued) : i # j => issued[i] # issued[j]

(* wait_for_response hands a caller only a response to the very request  *)
(* that call sent: never a late answer to an earlier call, nor one meant  *)
(* for a request of an earlier process lifetime.                          *)
CorrectCorrelation ==
    got # NoDoc => got.inst = inst

(* If the platform's rc 200 for this call was stored by message_arrived  *)
(* before the caller's wait timed out, pushManageMessage returns true.    *)
AckedCallSucceeds ==
    (pc = "returned" /\ okInTime) => result

(* A caller blocked in wait_for_response is never blocked forever: it   *)
(* returns (possibly empty-handed) unless the process dies first, even    *)
(* when the notify_all it waits for was lost.                             *)
CallReturns ==
    pc \in {"sent", "waiting", "woken"} ~> pc \in {"returned", "idle"}

=============================================================================
