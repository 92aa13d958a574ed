-------------------------- MODULE ManagementHandlers --------------------------
(***************************************************************************)
(* The device-management handlers the Callback Router calls on the MQTT  *)
(* thread: IOTP_DeviceFirmwareHandler with its two progress threads,     *)
(* IOTP_DeviceActionHandler and IOTP_DeviceAttributeHandler, and the end *)
(* of the IOTP_Client they send their replies through.                   *)
(*                                                                         *)
(* The application's side is environment: download() and update() return *)
(* an rc and start the application's own work, which moves the firmware *)
(* state Idle -> Downloading -> Downloaded and the update status          *)
(* NotSet -> InProgress -> Success or a failure; report_download_progress *)
(* and report_update_progress copy the application's current values into *)
(* the progress thread's IOTP_FirmwareInfo.                               *)
(***************************************************************************)
EXTENDS Integers, Sequences, SequencesExt

CONSTANTS
    PollBudget,      \* iterations of the progress loops: the literal 10
    ActionRcs,       \* rcs download(), update(), reboot(), factory_reset() may return
    MaxPerTopic,     \* platform requests per topic (bounds the model)
    ClientMayEnd     \* whether the IOTP_Client is destroyed while handlers live on

ASSUME PollBudget \in Nat \ {0} /\ 202 \in ActionRcs /\ MaxPerTopic \in Nat
ASSUME ClientMayEnd \in BOOLEAN

\* FIRMWARE_INFO_STATE_*
IDLE == 0
DOWNLOADING == 1
DOWNLOADED == 2
\* FIRMWARE_INFO_UPDATE_STATUS_*: NOT_SET, SUCCESS, IN_PROGRESS; every
\* failure status (OUT_OF_MEMORY .. INVALID_URL) behaves alike and is
\* represented by OUT_OF_MEMORY.
NOT_SET == -1
SUCCESS == 0
IN_PROGRESS == 1
OUT_OF_MEMORY == 2

\* The platform's request topics these handlers are registered for.
FwTopics == {"update", "observe", "download", "fwupdate", "cancel"}
ActionTopics == {"reboot", "factory_reset"}
RequestTopics == FwTopics \cup ActionTopics

VARIABLES
    mDownloadProgress, \* the std::thread member: "none" (not joinable), "running", "finished"
    mUpdateProgress,   \* likewise for the update progress thread
    dlNotes,           \* states reported by the download progress thread, in order
    upNotes,           \* update statuses reported by the update progress thread, in order
    appState,          \* the application's firmware state
    appStatus,         \* the application's update status
    dlAccepted,        \* the application accepted a download (its work has started)
    upAccepted,        \* the application accepted an update
    requested,         \* requests the platform has made per topic
    client,            \* the IOTP_Client: "alive" or "destroyed"
    terminated,        \* std::terminate was called
    useAfterEnd,       \* ghost: a progress thread called IOTF_send_reply on a destroyed client
    locations,         \* the locations UpdateLocation was called with, in order
    strayReply         \* ghost: the router was handed an indeterminate reply pointer

vars == <<mDownloadProgress, mUpdateProgress, dlNotes, upNotes, appState,
          appStatus, dlAccepted, upAccepted, requested, client,
          terminated, useAfterEnd, locations, strayReply>>

ThreadStates == {"none", "running", "finished"}

(* std::thread::joinable(): true from construction until join().          *)
Joinable(th) == th # "none"

-----------------------------------------------------------------------------
Init ==
    /\ mDownloadProgress = "none"
    /\ mUpdateProgress = "none"
    /\ dlNotes = <<>>
    /\ upNotes = <<>>
    /\ appState = IDLE
    /\ appStatus = NOT_SET
    /\ dlAccepted = FALSE
    /\ upAccepted = FALSE
    /\ requested = [t \in RequestTopics |-> 0]
    /\ client = "alive"
    /\ terminated = FALSE
    /\ useAfterEnd = FALSE
    /\ locations = <<>>
    /\ strayReply = FALSE

Running == ~terminated

(* A platform request on topic t reaches the handler (the router runs it *)
(* on the MQTT thread) and the handler's reply is produced.              *)
Request(t) ==
    /\ Running
    /\ client = "alive"
    /\ requested[t] < MaxPerTopic
    /\ requested' = [requested EXCEPT ![t] = @ + 1]

(* IOTP_DeviceFirmwareHandler::message_arrived for observe and cancel:    *)
(* the application hook's rc, or 200 for cancel, is packaged in the      *)
(* reply; nothing else changes.  Cancel does not touch the progress      *)
(* threads.                                                               *)
FirmwareQuery ==
    \E t \in {"observe", "cancel"} :
       /\ Request(t)
       /\ UNCHANGED <<mDownloadProgress, mUpdateProgress, dlNotes, upNotes,
                      appState, appStatus, dlAccepted, upAccepted, client,
                      terminated, useAfterEnd, locations, strayReply>>

(* The first field of an iotdm-1/device/update request names what the     *)
(* platform updates.                                                      *)
UpdateFields == {"mgmt.firmware", "location"}

(* The location IOTP_DeviceAttributeHandler hands to UpdateLocation: the  *)
(* platform's latitude, longitude and elevation when the first field is  *)
(* "location", otherwise the IOTP_DeviceLocation(0.0,0.0,0.0) it starts   *)
(* from.                                                                  *)
AttributeLocation(field) == IF field = "location" THEN "platform" ELSE "origin"

(* A JSON request on the update topic: the router calls every handler    *)
(* registered for it, the firmware handler first (verify(p), whose reply *)
(* goes back to the router) and then the attribute handler, which calls  *)
(* UpdateLocation unconditionally and returns nullptr.                   *)
UpdateTopicRequest ==
    /\ Request("update")
    /\ \E field \in UpdateFields :
         locations' = Append(locations, AttributeLocation(field))
    /\ UNCHANGED <<mDownloadProgress, mUpdateProgress, dlNotes, upNotes,
                   appState, appStatus, dlAccepted, upAccepted, client,
                   terminated, useAfterEnd, strayReply>>

(* What a handler's raw overload, message_arrived(topic, msg), returns    *)
(* for a payload that is not JSON.  The attribute handler's, called for  *)
(* the update topic, has no return statement: the router receives an     *)
(* indeterminate iotp_reply_message_ptr, which this build may leave null *)
(* or not.  The others return nullptr.                                    *)
RawReplies(t) == IF t = "update" THEN {"nullptr", "indeterminate"} ELSE {"nullptr"}

(* A request whose payload reader.parse rejects: the router calls the     *)
(* handlers' raw overloads, which parse it again, fail, print and change *)
(* nothing.                                                               *)
RawRequest ==
    \E t \in RequestTopics :
       /\ Request(t)
       /\ \E r \in RawReplies(t) : strayReply' = (strayReply \/ r = "indeterminate")
       /\ UNCHANGED <<mDownloadProgress, mUpdateProgress, dlNotes, upNotes,
                      appState, appStatus, dlAccepted, upAccepted, client,
                      terminated, useAfterEnd, locations>>

(* message_arrived on the download topic: rsp = download(p); on 202      *)
(* mDownloadProgress = std::thread(check_download_progress).  Move-      *)
(* assigning to a std::thread that is still joinable (the previous      *)
(* progress thread, running or finished but never joined) calls          *)
(* std::terminate.                                                        *)
DownloadRequest ==
    /\ Request("download")
    /\ \E rc \in ActionRcs :
         /\ IF rc = 202
            THEN /\ dlAccepted' = TRUE
                 /\ IF Joinable(mDownloadProgress)
                    THEN terminated' = TRUE /\ UNCHANGED <<mDownloadProgress, dlNotes>>
                    ELSE /\ mDownloadProgress' = "running" /\ dlNotes' = <<>>
                         /\ UNCHANGED terminated
            ELSE UNCHANGED <<dlAccepted, mDownloadProgress, dlNotes, terminated>>
    /\ UNCHANGED <<mUpdateProgress, upNotes, appState, appStatus, upAccepted,
                   client, useAfterEnd, locations, strayReply>>

(* message_arrived on the update topic: rsp = update(p); on 202          *)
(* mUpdateProgress = std::thread(check_update_progress).                 *)
UpdateRequest ==
    /\ Request("fwupdate")
    /\ \E rc \in ActionRcs :
         /\ IF rc = 202
            THEN /\ upAccepted' = TRUE
                 /\ IF Joinable(mUpdateProgress)
                    THEN terminated' = TRUE /\ UNCHANGED <<mUpdateProgress, upNotes>>
                    ELSE /\ mUpdateProgress' = "running" /\ upNotes' = <<>>
                         /\ UNCHANGED terminated
            ELSE UNCHANGED <<upAccepted, mUpdateProgress, upNotes, terminated>>
    /\ UNCHANGED <<mDownloadProgress, dlNotes, appState, appStatus, dlAccepted,
                   client, useAfterEnd, locations, strayReply>>

(* IOTP_DeviceActionHandler::message_arrived: reboot() or factory_reset() *)
(* and the reply sent straight through mClient->IOTF_send_reply.         *)
ActionRequest ==
    \E t \in ActionTopics :
       /\ Request(t)
       /\ UNCHANGED <<mDownloadProgress, mUpdateProgress, dlNotes, upNotes,
                      appState, appStatus, dlAccepted, upAccepted, client,
                      terminated, useAfterEnd, locations, strayReply>>

-----------------------------------------------------------------------------
(* Mutation: the loop runs one iteration too many (i<=10).              *)
MorePolls_OffByOne(notes) == Len(notes) <= PollBudget

(* The loop test of the progress threads: for (int i=0; i<10; i++).      *)
MorePolls(notes) == Len(notes) < PollBudget

(* Mutation: the notification carries the update status in place of    *)
(* the state.                                                            *)
DownloadPoll_ReportsStatus ==
    /\ Running
    /\ mDownloadProgress = "running"
    /\ dlNotes' = Append(dlNotes, appStatus)
    /\ useAfterEnd' = (useAfterEnd \/ client = "destroyed")
    /\ IF appState = DOWNLOADED \/ ~MorePolls(dlNotes')
       THEN mDownloadProgress' = "finished"
       ELSE UNCHANGED mDownloadProgress
    /\ UNCHANGED <<mUpdateProgress, upNotes, appState, appStatus, dlAccepted,
                   upAccepted, requested, client, terminated, locations, strayReply>>

(* One iteration of check_download_progress: sleep, report_download_     *)
(* progress(p), IOTF_send_reply(notification) while mClient is set, and *)
(* leave the loop on DOWNLOADED or after the last iteration.            *)
DownloadPoll ==
    /\ Running
    /\ mDownloadProgress = "running"
    /\ dlNotes' = Append(dlNotes, appState)
    /\ useAfterEnd' = (useAfterEnd \/ client = "destroyed")
    /\ IF appState = DOWNLOADED \/ ~MorePolls(dlNotes')
       THEN mDownloadProgress' = "finished"
       ELSE UNCHANGED mDownloadProgress
    /\ UNCHANGED <<mUpdateProgress, upNotes, appState, appStatus, dlAccepted,
                   upAccepted, requested, client, terminated, locations, strayReply>>

(* Mutation: the update loop has no early exit.                         *)
UpdatePoll_NoBreak ==
    /\ Running
    /\ mUpdateProgress = "running"
    /\ upNotes' = Append(upNotes, appStatus)
    /\ useAfterEnd' = (useAfterEnd \/ client = "destroyed")
    /\ IF ~MorePolls(upNotes')
       THEN mUpdateProgress' = "finished"
       ELSE UNCHANGED mUpdateProgress
    /\ UNCHANGED <<mDownloadProgress, dlNotes, appState, appStatus, dlAccepted,
                   upAccepted, requested, client, terminated, locations, strayReply>>

(* One iteration of check_update_progress: leave the loop once the      *)
(* reported status is not IN_PROGRESS, or after the last iteration.     *)
UpdatePoll ==
    /\ Running
    /\ mUpdateProgress = "running"
    /\ upNotes' = Append(upNotes, appStatus)
    /\ useAfterEnd' = (useAfterEnd \/ client = "destroyed")
    /\ IF appStatus # IN_PROGRESS \/ ~MorePolls(upNotes')
       THEN mUpdateProgress' = "finished"
       ELSE UNCHANGED mUpdateProgress
    /\ UNCHANGED <<mDownloadProgress, dlNotes, appState, appStatus, dlAccepted,
                   upAccepted, requested, client, terminated, locations, strayReply>>

-----------------------------------------------------------------------------
(* The application's download work advances the firmware state.          *)
AppDownloadStep ==
    /\ Running
    /\ dlAccepted
    /\ appState < DOWNLOADED
    /\ appState' = appState + 1
    /\ UNCHANGED <<mDownloadProgress, mUpdateProgress, dlNotes, upNotes,
                   appStatus, dlAccepted, upAccepted, requested,
                   client, terminated, useAfterEnd, locations, strayReply>>

(* The application's update work: NOT_SET -> IN_PROGRESS -> an outcome. *)
AppUpdateStep ==
    /\ Running
    /\ upAccepted
    /\ \/ appStatus = NOT_SET /\ appStatus' = IN_PROGRESS
       \/ appStatus = IN_PROGRESS /\ appStatus' \in {SUCCESS, OUT_OF_MEMORY}
    /\ UNCHANGED <<mDownloadProgress, mUpdateProgress, dlNotes, upNotes,
                   appState, dlAccepted, upAccepted, requested,
                   client, terminated, useAfterEnd, locations, strayReply>>

(* The application destroys the device client.  ~IOTP_Client joins the   *)
(* reply worker and deletes the MQTT client; its members mLock, mCond and *)
(* mReplyMsgs are destroyed before mFirmwareHandler, whose destructor    *)
(* joins the progress threads, and the application may hold the handler *)
(* longer still.                                                          *)
ClientEnd ==
    /\ Running
    /\ ClientMayEnd
    /\ client = "alive"
    /\ client' = "destroyed"
    /\ UNCHANGED <<mDownloadProgress, mUpdateProgress, dlNotes, upNotes,
                   appState, appStatus, dlAccepted, upAccepted, requested,
                    terminated, useAfterEnd, locations, strayReply>>

Next ==
    \/ FirmwareQuery \/ UpdateTopicRequest \/ DownloadRequest \/ UpdateRequest
    \/ ActionRequest \/ RawRequest
    \/ DownloadPoll \/ UpdatePoll
    \/ AppDownloadStep \/ AppUpdateStep \/ ClientEnd

Spec == Init /\ [][Next]_vars

-----------------------------------------------------------------------------
TypeOK ==
    /\ mDownloadProgress \in ThreadStates /\ mUpdateProgress \in ThreadStates
    /\ dlNotes \in Seq({IDLE, DOWNLOADING, DOWNLOADED})
    /\ upNotes \in Seq({NOT_SET, SUCCESS, IN_PROGRESS, OUT_OF_MEMORY})
    /\ appState \in {IDLE, DOWNLOADING, DOWNLOADED}
    /\ appStatus \in {NOT_SET, SUCCESS, IN_PROGRESS, OUT_OF_MEMORY}
    /\ requested \in [RequestTopics -> 0..MaxPerTopic]
    /\ client \in {"alive", "destroyed"}
    /\ terminated \in BOOLEAN /\ useAfterEnd \in BOOLEAN
    /\ locations \in Seq({"platform", "origin"}) /\ strayReply \in BOOLEAN

(* Download progress (check_download_progress): at most ten notifications *)
(* are sent, DOWNLOADED is only ever the last one, and a thread that has *)
(* ended either used its ten polls or reported DOWNLOADED.               *)
DownloadReportsWellFormed ==
    /\ Len(dlNotes) <= PollBudget
    /\ \A i \in 1..(Len(dlNotes) - 1) : dlNotes[i] # DOWNLOADED
    /\ mDownloadProgress = "finished" =>
         (Len(dlNotes) = PollBudget \/ Last(dlNotes) = DOWNLOADED)

(* Update progress (check_update_progress): at most ten notifications,  *)
(* every one but the last reports IN_PROGRESS, and a thread that has     *)
(* ended used its ten polls or reported a status other than IN_PROGRESS. *)
UpdateReportsWellFormed ==
    /\ Len(upNotes) <= PollBudget
    /\ \A i \in 1..(Len(upNotes) - 1) : upNotes[i] = IN_PROGRESS
    /\ mUpdateProgress = "finished" =>
         (Len(upNotes) = PollBudget \/ Last(upNotes) # IN_PROGRESS)

(* The process never calls std::terminate: one progress thread per active *)
(* download or update, a later one replacing the earlier.                *)
NoTerminate == ~terminated

(* No progress notification is sent through a destroyed IOTP_Client.    *)
NoSendAfterClientEnd == ~useAfterEnd
====
