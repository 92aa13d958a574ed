--------------------------- MODULE ReplyDispatcher ---------------------------
(***************************************************************************)
(* The outbound reply queue of IOTP_Client (src/src/IOTP_Client.cpp).     *)
(*                                                                         *)
(* Producers (the MQTT delivery thread running a handler, a firmware      *)
(* progress thread) call IOTF_send_reply, which pushes onto mReplyMsgs    *)
(* under mLock and calls mCond.notify_one().  One worker thread runs      *)
(* _send_reply: it locks mLock, waits on mCond with a 10 s timeout, and   *)
(* only when the wait did not time out pops ONE reply and publishes it    *)
(* while still holding mLock.  The destructor sets mExit and joins the    *)
(* worker.                                                                 *)
(*                                                                         *)
(* The condition variable is modelled by the worker's program counter:   *)
(* a notify_one reaches the worker only while it is in "waiting"; in any  *)
(* other state the notification is lost, as for std::condition_variable.  *)
(***************************************************************************)
EXTENDS Naturals, Sequences, SequencesExt

CONSTANTS
    Producers,      \* threads that call IOTF_send_reply
    MaxReplies,     \* replies each producer sends (bounds the model)
    NoThread,       \* mLock is free
    Worker,         \* the mReplyThread running _send_reply
    AllowTeardown   \* whether the destructor may run in this model

ASSUME MaxReplies \in Nat \ {0}
ASSUME AllowTeardown \in BOOLEAN

VARIABLES
    mReplyMsgs,   \* the std::queue of replies
    mLock,        \* holder of mLock
    mExit,        \* the exit flag read by the worker loop
    wpc,          \* worker program counter
    wakeStatus,   \* the cv_status returned by the last wait_for
    inFlight,     \* the reply being published (popped, lock still held)
    sent,         \* replies sent so far by each producer
    client,       \* "running", "exiting" (mExit set, joining) or "joined"
    enqueued,     \* history: every reply in the order it was pushed
    published     \* history: every reply in the order publish was called

vars == <<mReplyMsgs, mLock, mExit, wpc, wakeStatus, inFlight, sent,
          client, enqueued, published>>

Reply == Producers \X (1..MaxReplies)
NoReply == <<>>

-----------------------------------------------------------------------------
(* Constructor: InitializeProperties sets mExit = false and starts the    *)
(* worker thread, which begins at the top of its while loop.              *)
Init ==
    /\ mReplyMsgs = <<>>
    /\ mLock = NoThread
    /\ mExit = FALSE
    /\ wpc = "loop"
    /\ wakeStatus = "no_timeout"
    /\ inFlight = NoReply
    /\ sent = [p \in Producers |-> 0]
    /\ client = "running"
    /\ enqueued = <<>>
    /\ published = <<>>

(* notify_one: wakes the worker only if it is blocked in wait_for.        *)
NotifyOne ==
    IF wpc = "waiting"
    THEN wpc' = "woken" /\ wakeStatus' = "no_timeout"
    ELSE UNCHANGED <<wpc, wakeStatus>>

(* Mutation: the lock taken by the producer is never released.          *)
IOTF_send_reply_NoUnlock(p) ==
    /\ client # "joined"
    /\ sent[p] < MaxReplies
    /\ mLock = NoThread
    /\ LET r == <<p, sent[p] + 1>> IN
         /\ mReplyMsgs' = Append(mReplyMsgs, r)
         /\ enqueued' = Append(enqueued, r)
    /\ sent' = [sent EXCEPT ![p] = @ + 1]
    /\ NotifyOne
    /\ mLock' = p
    /\ UNCHANGED <<mExit, inFlight, client, published>>

(* IOTF_send_reply: lock, push a copy of the reply, notify_one, unlock.   *)
(* It blocks while the worker holds mLock during a publish.               *)
IOTF_send_reply(p) ==
    /\ client # "joined"
    /\ sent[p] < MaxReplies
    /\ mLock = NoThread
    /\ LET r == <<p, sent[p] + 1>> IN
         /\ mReplyMsgs' = Append(mReplyMsgs, r)
         /\ enqueued' = Append(enqueued, r)
    /\ sent' = [sent EXCEPT ![p] = @ + 1]
    /\ NotifyOne
    /\ UNCHANGED <<mLock, mExit, inFlight, client, published>>

(* while (mExit == false): the unsynchronised read of the flag.           *)
WorkerLoop ==
    /\ wpc = "loop"
    /\ wpc' = IF mExit THEN "done" ELSE "lock"
    /\ UNCHANGED <<mReplyMsgs, mLock, mExit, wakeStatus, inFlight, sent,
                   client, enqueued, published>>

(* unique_lock lck(mLock) followed by mCond.wait_for, which releases the  *)
(* lock atomically with starting to wait.                                 *)
WorkerWait ==
    /\ wpc = "lock"
    /\ mLock = NoThread
    /\ wpc' = "waiting"
    /\ UNCHANGED <<mReplyMsgs, mLock, mExit, wakeStatus, inFlight, sent,
                   client, enqueued, published>>

(* Mutation: mCond.wait(lck) with no timeout never returns timeout.      *)
WorkerTimeout_Never == FALSE

(* wait_for returns cv_status::timeout after DEFAULT_TIMEOUT() ms.        *)
WorkerTimeout ==
    /\ wpc = "waiting"
    /\ wpc' = "woken"
    /\ wakeStatus' = "timeout"
    /\ UNCHANGED <<mReplyMsgs, mLock, mExit, inFlight, sent, client,
                   enqueued, published>>

(* wait_for may also return no_timeout without any notify_one.            *)
SpuriousWakeup ==
    /\ wpc = "waiting"
    /\ wpc' = "woken"
    /\ wakeStatus' = "no_timeout"
    /\ UNCHANGED <<mReplyMsgs, mLock, mExit, inFlight, sent, client,
                   enqueued, published>>

(* Mutation: the worker takes the newest reply (back) instead of front(). *)
WorkerReacquire_Back ==
    /\ wpc = "woken"
    /\ mLock = NoThread
    /\ IF wakeStatus = "no_timeout" /\ mReplyMsgs # <<>>
       THEN /\ inFlight' = Last(mReplyMsgs)
            /\ mReplyMsgs' = Front(mReplyMsgs)
            /\ mLock' = Worker
            /\ wpc' = "publishing"
       ELSE /\ wpc' = "loop"
            /\ UNCHANGED <<inFlight, mReplyMsgs, mLock>>
    /\ UNCHANGED <<mExit, wakeStatus, sent, client, enqueued, published>>

(* wait_for re-acquires mLock before returning.  On no_timeout with a     *)
(* non-empty queue the worker pops the front reply and goes on to         *)
(* publish it with the lock held; otherwise (timeout, or the "notified    *)
(* but queue is empty" branch) it unlocks and loops.                      *)
WorkerReacquire ==
    /\ wpc = "woken"
    /\ mLock = NoThread
    /\ IF wakeStatus = "no_timeout" /\ mReplyMsgs # <<>>
       THEN /\ inFlight' = Head(mReplyMsgs)
            /\ mReplyMsgs' = Tail(mReplyMsgs)
            /\ mLock' = Worker
            /\ wpc' = "publishing"
       ELSE /\ wpc' = "loop"
            /\ UNCHANGED <<inFlight, mReplyMsgs, mLock>>
    /\ UNCHANGED <<mExit, wakeStatus, sent, client, enqueued, published>>

(* pasync_client->publish, wait_for_completion, then lck.unlock().  The  *)
(* completion flag is computed and ignored: no retry either way.          *)
WorkerPublish ==
    /\ wpc = "publishing"
    /\ published' = Append(published, inFlight)
    /\ inFlight' = NoReply
    /\ mLock' = NoThread
    /\ wpc' = "loop"
    /\ UNCHANGED <<mReplyMsgs, mExit, wakeStatus, sent, client, enqueued>>

(* ~IOTP_Client: mExit = true, then mReplyThread.join().                  *)
Destroy ==
    /\ AllowTeardown
    /\ client = "running"
    /\ mExit' = TRUE
    /\ client' = "exiting"
    /\ UNCHANGED <<mReplyMsgs, mLock, wpc, wakeStatus, inFlight, sent,
                   enqueued, published>>

(* join() returns once the worker has left its loop.                      *)
Join ==
    /\ client = "exiting"
    /\ wpc = "done"
    /\ client' = "joined"
    /\ UNCHANGED <<mReplyMsgs, mLock, mExit, wpc, wakeStatus, inFlight,
                   sent, enqueued, published>>

WorkerStep ==
    WorkerLoop \/ WorkerWait \/ WorkerTimeout \/ WorkerReacquire
    \/ WorkerPublish

Next ==
    \/ \E p \in Producers : IOTF_send_reply(p)
    \/ WorkerStep
    \/ SpuriousWakeup
    \/ Destroy
    \/ Join

(* The worker thread is scheduled by the OS and wait_for always times    *)
(* out eventually: weak fairness on each worker step and on join.  No    *)
(* fairness on producers (they may stop sending) nor on spurious wakeups. *)
Fairness ==
    /\ WF_vars(WorkerLoop)
    /\ WF_vars(WorkerWait)
    /\ WF_vars(WorkerTimeout)
    /\ WF_vars(WorkerReacquire)
    /\ WF_vars(WorkerPublish)
    /\ WF_vars(Join)

Spec == Init /\ [][Next]_vars /\ Fairness

-----------------------------------------------------------------------------
TypeOK ==
    /\ mReplyMsgs \in Seq(Reply)
    /\ mLock \in {NoThread, Worker}
    /\ mExit \in BOOLEAN
    /\ wpc \in {"loop", "lock", "waiting", "woken", "publishing", "done"}
    /\ wakeStatus \in {"timeout", "no_timeout"}
    /\ inFlight \in Reply \cup {NoReply}
    /\ sent \in [Producers -> 0..MaxReplies]
    /\ client \in {"running", "exiting", "joined"}
    /\ enqueued \in Seq(Reply)
    /\ published \in Seq(Reply)

(* The reply path as the FIFO channel it promises to be.  The reply the   *)
(* worker has popped and is publishing with mLock held is still at the    *)
(* head of the channel; publish is the channel's delivery; the channel    *)
(* closes when join() returns.                                             *)
Channel == INSTANCE ReplyChannel WITH
    Msgs <- Reply,
    queue <- IF inFlight = NoReply THEN mReplyMsgs ELSE <<inFlight>> \o mReplyMsgs,
    delivered <- published,
    open <- client # "joined"

(* _send_reply implements the FIFO channel: whatever producers, the       *)
(* worker's lock, timed-out and spurious wake-ups and the teardown do,    *)
(* every step leaves the queue, the published replies and the channel's   *)
(* openness as a channel step would: no reply is reordered, duplicated,   *)
(* dropped from the queue, or taken from anywhere but its head.           *)
ImplementsReplyChannel == Channel!Spec

(* Every reply handed to IOTF_send_reply while the client lives is       *)
(* eventually published by _send_reply.                                   *)
EveryReplyPublished ==
    \A r \in Reply : (r \in ToSet(enqueued)) ~> (r \in ToSet(published))

(* Once the destructor sets mExit, join() eventually returns: the worker *)
(* leaves its wait_for loop without needing another reply.               *)
TeardownCompletes == (client = "exiting") ~> (client = "joined")
=============================================================================
