----------------------------- MODULE ReplyChannel -----------------------------
(***************************************************************************)
(* What IOTP_Client's outbound reply path promises its producers (spec:    *)
(* "outbound replies are published in the order they were enqueued"): a   *)
(* FIFO channel.  A reply sent while the channel is open joins the end of *)
(* the queue; the transport receives the reply at its head; the owner may *)
(* close the channel, after which nothing more is sent.  Replies still    *)
(* queued at close are never delivered: the channel promises order, not  *)
(* delivery.                                                               *)
(***************************************************************************)
EXTENDS Sequences

CONSTANT Msgs   \* the replies producers may send

VARIABLES
    queue,      \* replies accepted and not yet delivered, oldest first
    delivered,  \* replies handed to the transport, in order
    open        \* the channel still accepts replies

Init == queue = <<>> /\ delivered = <<>> /\ open = TRUE

Send(m) ==
    /\ open
    /\ queue' = Append(queue, m)
    /\ UNCHANGED <<delivered, open>>

Deliver ==
    /\ queue # <<>>
    /\ delivered' = Append(delivered, Head(queue))
    /\ queue' = Tail(queue)
    /\ UNCHANGED open

Close ==
    /\ open
    /\ open' = FALSE
    /\ UNCHANGED <<queue, delivered>>

Next == (\E m \in Msgs : Send(m)) \/ Deliver \/ Close

Spec == Init /\ [][Next]_<<queue, delivered, open>>
===============================================================================
