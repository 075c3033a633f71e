------------------------------ MODULE SendQueue ------------------------------
(***************************************************************************)
(* The send queue of a connection (library/net.c: dnet_io_req_queue,       *)
(* dnet_send_reply, dnet_send_reply_threshold, dnet_send_request;          *)
(* library/pool.c: dnet_process_send_single).                              *)
(*                                                                         *)
(* Any thread appends requests under st->send_lock and asks for EPOLLOUT   *)
(* events; the network thread sends the first request and unlinks it.      *)
(* Iterators (the producers) queue their replies through the threshold     *)
(* function: they count them in send_queue_size, outside the lock, and go  *)
(* to sleep above the high watermark.  The network thread counts down for  *)
(* every request it has sent and wakes the sleepers at the low watermark.  *)
(***************************************************************************)
EXTENDS Integers, Sequences, FiniteSets

CONSTANTS
    Producers,  \* IO threads that run an iterator for this connection
    High,       \* DNET_SEND_WATERMARK_HIGH
    Low,        \* DNET_SEND_WATERMARK_LOW
    MaxReplies, \* bound: replies of one iterator
    MaxOthers,  \* bound: other requests and replies sent to the peer
    Resets,     \* the connection may break or be reset
    MaxSpurious \* bound: returns of pthread_cond_wait without a reason

ASSUME WatermarkAssumption == High \in Nat /\ Low \in Nat /\ Low < High
ASSUME SendBounds == MaxReplies \in Nat /\ MaxOthers \in Nat /\ MaxSpurious \in Nat
ASSUME SendFlags == Resets \in BOOLEAN
ASSUME ProducersAssumption == IsFiniteSet(Producers)

VARIABLES
    send_list,          \* st->send_list: what each request comes from
    send_queue_size,    \* st->send_queue_size
    scheduled,          \* EPOLLOUT is registered for write_s
    need_exit,          \* st->need_exit # 0, the socket is shut down
    pc,                 \* producer -> where it is
    replies,            \* producer -> replies it has begun to send
    others,             \* other requests queued so far
    spurious,           \* spurious wakeups so far
    npc                 \* where the network thread is

vars == <<send_list, send_queue_size, scheduled, need_exit, pc, replies, others, spurious, npc>>

TypeOK ==
    /\ send_list \in Seq({"reply", "other"})
    /\ send_queue_size \in Nat
    /\ scheduled \in BOOLEAN /\ need_exit \in BOOLEAN
    /\ pc \in [Producers -> {"next", "queue", "inc", "lock", "wait", "done"}]
    /\ replies \in [Producers -> 0..MaxReplies]
    /\ others \in 0..MaxOthers /\ spurious \in 0..MaxSpurious
    /\ npc \in {"poll", "peek", "send", "dec", "wake", "reset", "gone"}

Init ==
    /\ send_list = <<>> /\ send_queue_size = 0
    /\ scheduled = FALSE /\ need_exit = FALSE
    /\ pc = [p \in Producers |-> "next"] /\ replies = [p \in Producers |-> 0]
    /\ others = 0 /\ spurious = 0
    /\ npc = "poll"

-----------------------------------------------------------------------------
(* Queueing. *)

\* Faulty form: nobody asks for EPOLLOUT while the queue is not empty.
EnqueueUnscheduled(kind) ==
    /\ send_list' = Append(send_list, kind)
    /\ UNCHANGED scheduled

\* dnet_io_req_queue under send_lock.
Enqueue(kind) ==
    /\ send_list' = Append(send_list, kind)
    /\ scheduled' = (scheduled \/ ~need_exit)

\* dnet_iterator_callback_send for the next key: nothing is sent to a peer that
\* has been disconnected, the iterator is interrupted.
IteratorInterrupted(p) ==
    /\ pc[p] = "next" /\ need_exit
    /\ pc' = [pc EXCEPT ![p] = "done"]
    /\ UNCHANGED <<send_list, send_queue_size, scheduled, need_exit, replies, others, spurious, npc>>

IteratorSends(p) ==
    /\ pc[p] = "next" /\ ~need_exit
    /\ replies[p] < MaxReplies
    /\ pc' = [pc EXCEPT ![p] = "queue"]
    /\ replies' = [replies EXCEPT ![p] = @ + 1]
    /\ UNCHANGED <<send_list, send_queue_size, scheduled, need_exit, others, spurious, npc>>

\* There are no more keys.
IteratorEnds(p) ==
    /\ pc[p] = "next"
    /\ pc' = [pc EXCEPT ![p] = "done"]
    /\ UNCHANGED <<send_list, send_queue_size, scheduled, need_exit, replies, others, spurious, npc>>

\* dnet_send_reply_threshold: dnet_send_reply queues a copy of the reply.
SendReply(p) ==
    /\ pc[p] = "queue"
    /\ Enqueue("reply")
    /\ pc' = [pc EXCEPT ![p] = "inc"]
    /\ UNCHANGED <<send_queue_size, need_exit, replies, others, spurious, npc>>

\* There is no memory for the copy: the error ends the iterator, uncounted.
SendReplyNoMemory(p) ==
    /\ pc[p] = "queue"
    /\ pc' = [pc EXCEPT ![p] = "done"]
    /\ UNCHANGED <<send_list, send_queue_size, scheduled, need_exit, replies, others, spurious, npc>>

\* Faulty form: the producer never sleeps.
CountReplySleepless(p) ==
    /\ pc[p] = "inc"
    /\ send_queue_size' = send_queue_size + 1
    /\ pc' = [pc EXCEPT ![p] = "next"]
    /\ UNCHANGED <<send_list, scheduled, need_exit, replies, others, spurious, npc>>

\* Then atomic_inc, and the decision to sleep.
CountReply(p) ==
    /\ pc[p] = "inc"
    /\ send_queue_size' = send_queue_size + 1
    /\ pc' = [pc EXCEPT ![p] = IF send_queue_size + 1 > High THEN "lock" ELSE "next"]
    /\ UNCHANGED <<send_list, scheduled, need_exit, replies, others, spurious, npc>>

\* pthread_cond_wait, without looking at the queue again.
Sleep(p) ==
    /\ pc[p] = "lock"
    /\ pc' = [pc EXCEPT ![p] = "wait"]
    /\ UNCHANGED <<send_list, send_queue_size, scheduled, need_exit, replies, others, spurious, npc>>

SpuriousWakeup(p) ==
    /\ spurious < MaxSpurious
    /\ pc[p] = "wait"
    /\ pc' = [pc EXCEPT ![p] = "next"]
    /\ spurious' = spurious + 1
    /\ UNCHANGED <<send_list, send_queue_size, scheduled, need_exit, replies, others, npc>>

\* dnet_send and the like from any other thread.
SendOther ==
    /\ others < MaxOthers
    /\ others' = others + 1
    /\ Enqueue("other")
    /\ UNCHANGED <<send_queue_size, need_exit, pc, replies, spurious, npc>>

-----------------------------------------------------------------------------
(* The network thread. *)

\* epoll_wait returns EPOLLOUT.
PollOut ==
    /\ npc = "poll" /\ scheduled
    /\ npc' = "peek"
    /\ UNCHANGED <<send_list, send_queue_size, scheduled, need_exit, pc, replies, others, spurious>>

\* dnet_process_send_single looks at the queue under send_lock.
PeekFirst ==
    /\ npc = "peek" /\ send_list # <<>>
    /\ npc' = "send"
    /\ UNCHANGED <<send_list, send_queue_size, scheduled, need_exit, pc, replies, others, spurious>>

PeekEmpty ==
    /\ npc = "peek" /\ send_list = <<>>
    /\ scheduled' = FALSE
    /\ npc' = "poll"
    /\ UNCHANGED <<send_list, send_queue_size, need_exit, pc, replies, others, spurious>>

\* dnet_send_request sends (the rest of) the request; it is unlinked.
SendAll ==
    /\ npc = "send" /\ ~need_exit
    /\ send_list' = Tail(send_list)
    /\ npc' = "dec"
    /\ UNCHANGED <<send_queue_size, scheduled, need_exit, pc, replies, others, spurious>>

\* The socket takes less (-EAGAIN): the rest is sent after the next event.
SendSome ==
    /\ npc = "send" /\ ~need_exit
    /\ npc' = "poll"
    /\ UNCHANGED <<send_list, send_queue_size, scheduled, need_exit, pc, replies, others, spurious>>

\* atomic_dec for whatever was sent, if the counter is positive.  Nobody else
\* counts down, so the test and the decrement can be one step.
CountSent ==
    /\ npc = "dec"
    /\ send_queue_size' = IF send_queue_size > 0 THEN send_queue_size - 1 ELSE 0
    /\ npc' = IF send_queue_size = Low + 1 THEN "wake" ELSE "peek"
    /\ UNCHANGED <<send_list, scheduled, need_exit, pc, replies, others, spurious>>

\* The broadcast at the low watermark is a later step, outside the lock: it also
\* wakes who fell asleep since.
WakeProducers ==
    /\ npc = "wake"
    /\ pc' = [p \in Producers |-> IF pc[p] = "wait" THEN "next" ELSE pc[p]]
    /\ npc' = "peek"
    /\ UNCHANGED <<send_list, send_queue_size, scheduled, need_exit, replies, others, spurious>>

\* send() fails: dnet_send_request sets need_exit.
SendFails ==
    /\ npc = "send" /\ Resets
    /\ need_exit' = TRUE
    /\ npc' = "reset"
    /\ UNCHANGED <<send_list, send_queue_size, scheduled, pc, replies, others, spurious>>

\* Another thread resets the state and shuts the socket down.
StateReset ==
    /\ Resets /\ ~need_exit
    /\ need_exit' = TRUE
    /\ UNCHANGED <<send_list, send_queue_size, scheduled, pc, replies, others, spurious, npc>>

\* The network thread resets the state and forgets it; the queue is freed with
\* the last reference of the state.
NetworkReset ==
    /\ \/ npc = "reset"
       \/ npc = "poll" /\ need_exit
    /\ scheduled' = FALSE
    /\ npc' = "gone"
    /\ UNCHANGED <<send_list, send_queue_size, need_exit, pc, replies, others, spurious>>

-----------------------------------------------------------------------------
ProducerNext(p) ==
    \/ IteratorInterrupted(p) \/ IteratorSends(p) \/ IteratorEnds(p)
    \/ SendReply(p) \/ SendReplyNoMemory(p) \/ CountReply(p) \/ Sleep(p)

NetworkNext ==
    \/ PollOut \/ PeekFirst \/ PeekEmpty \/ SendAll \/ SendSome \/ CountSent
    \/ WakeProducers \/ SendFails \/ NetworkReset

Next ==
    \/ \E p \in Producers : ProducerNext(p) \/ SpuriousWakeup(p)
    \/ SendOther \/ NetworkNext \/ StateReset

Spec == Init /\ [][Next]_vars

\* The threads run, and a peer that stays connected reads what it is sent.
Fairness ==
    /\ \A p \in Producers : WF_vars(ProducerNext(p))
    /\ WF_vars(NetworkNext)
    /\ SF_vars(SendAll)

FairSpec == Spec /\ Fairness

-----------------------------------------------------------------------------
(* Properties *)

\* A request is never left in the queue of a live connection without EPOLLOUT
\* being asked for: emptying the queue and filling it do not miss each other.
QueueScheduled == send_list # <<>> /\ ~need_exit => scheduled

\* How far the watermarks bound the queue (net.c:1195-1203, pool.c:480-486).  An
\* iterator may exceed the high watermark by two replies: it counts a reply only
\* after queueing it, and a broadcast that comes late wakes it once more.  Every
\* request that was never counted lets one more reply in for good, since it is
\* counted down like a reply, and so does every spurious wakeup.
QueueBounded ==
    Len(send_list) <= High + 2 * Cardinality(Producers) + others + spurious

\* What is queued on a live connection is sent.
QueuedThenSent == send_list # <<>> ~> send_list = <<>> \/ need_exit

\* An iterator is interrupted when its peer has been disconnected
\* (dnet.c:625-626).
InterruptedAfterReset == \A p \in Producers : need_exit ~> pc[p] = "done"
=============================================================================
