-------------------------- MODULE SendQueueProofs --------------------------
(***************************************************************************)
(* The send queue is typed, never waits without EPOLLOUT, and is bounded,  *)
(* for any finite set of iterators and any watermarks.                     *)
(***************************************************************************)
EXTENDS SendQueue, FiniteSetTheorems, TLAPS

\* Iterators that have queued a reply and not counted it yet.
Uncounted == {p \in Producers : pc[p] = "inc"}

\* Iterators that have seen the high watermark and sleep, or are about to.
Asleep == {p \in Producers : pc[p] \in {"lock", "wait"}}

\* The network thread has something to send when it sends, and is done only
\* with a connection that is closed.
NetworkPlace ==
    /\ npc = "send" => send_list # <<>>
    /\ npc \in {"reset", "gone"} => need_exit

SInv == TypeOK /\ NetworkPlace /\ QueueScheduled

\* What was unlinked is counted down after it.
Unlinked == IF npc = "dec" THEN 1 ELSE 0

\* Every queued request was counted, will be counted by its iterator, or is one of
\* the others.
Accounted == Len(send_list) + Unlinked <= send_queue_size + Cardinality(Uncounted) + others

\* Above the high watermark every counted reply has put an iterator to sleep; the
\* broadcast, which comes when the counter is low, forgets them once.
CountBounded ==
    /\ send_queue_size <= High + Cardinality(Producers) + Cardinality(Asleep) + spurious
    /\ npc = "wake" => send_queue_size <= High + Cardinality(Asleep) + spurious

IInv == SInv /\ Accounted /\ CountBounded

-----------------------------------------------------------------------------
(* Types and EPOLLOUT. *)

\* A step of an iterator keeps the types and the schedule.
LEMMA ProducerSafe ==
    ASSUME NEW p \in Producers, SInv, ProducerNext(p) \/ SpuriousWakeup(p)
    PROVE  SInv'
<1> USE SendBounds DEF SInv, TypeOK, NetworkPlace, QueueScheduled
<1>1. CASE IteratorInterrupted(p) \/ IteratorEnds(p) \/ SendReplyNoMemory(p)
    BY <1>1, Zenon DEF IteratorInterrupted, IteratorEnds, SendReplyNoMemory
<1>2. CASE IteratorSends(p)
    <2>1. replies[p] + 1 \in 0..MaxReplies
        BY <1>2, SMTT(30) DEF IteratorSends
    <2>2. replies' \in [Producers -> 0..MaxReplies]
        BY <1>2, <2>1, Zenon DEF IteratorSends
    <2> QED
        BY <1>2, <2>2, Zenon DEF IteratorSends
<1>3. CASE SendReply(p)
    <2>1. /\ send_list' \in Seq({"reply", "other"})
          /\ send_list' # <<>>
        BY <1>3, SMTT(30) DEF SendReply, Enqueue
    <2> QED
        BY <1>3, <2>1, Zenon DEF SendReply, Enqueue
<1>4. CASE CountReply(p)
    BY <1>4, SMTT(30) DEF CountReply
<1>5. CASE Sleep(p)
    BY <1>5, Zenon DEF Sleep
<1>6. CASE SpuriousWakeup(p)
    BY <1>6, SMTT(30) DEF SpuriousWakeup
<1> QED
    BY <1>1, <1>2, <1>3, <1>4, <1>5, <1>6, Zenon DEF ProducerNext

\* So does a step of the network thread.
LEMMA NetworkSafe ==
    ASSUME SInv, NetworkNext
    PROVE  SInv'
<1> USE DEF SInv, TypeOK, NetworkPlace, QueueScheduled
<1>1. CASE PollOut \/ PeekFirst \/ PeekEmpty \/ SendSome
    BY <1>1, Zenon DEF PollOut, PeekFirst, PeekEmpty, SendSome
<1>2. CASE SendAll
    <2>1. Tail(send_list) \in Seq({"reply", "other"})
        BY <1>2, SMTT(30) DEF SendAll
    <2> QED
        BY <1>2, <2>1, Zenon DEF SendAll
<1>3. CASE CountSent
    BY <1>3, SMTT(30) DEF CountSent
<1>4. CASE WakeProducers
    BY <1>4, Zenon DEF WakeProducers
<1>5. CASE SendFails
    BY <1>5, Zenon DEF SendFails
<1>6. CASE NetworkReset
    BY <1>6, Zenon DEF NetworkReset
<1> QED
    BY <1>1, <1>2, <1>3, <1>4, <1>5, <1>6, Zenon DEF NetworkNext

\* Every step keeps the types and the schedule.
LEMMA SInvStep == SInv /\ [Next]_vars => SInv'
<1> SUFFICES ASSUME SInv, [Next]_vars PROVE SInv'
    BY Zenon
<1>1. CASE SendOther
    <2>1. /\ send_list' \in Seq({"reply", "other"})
          /\ send_list' # <<>>
        BY <1>1, SMTT(30) DEF SendOther, Enqueue, SInv, TypeOK
    <2>2. others' \in 0..MaxOthers
        BY <1>1, SendBounds, SMTT(30) DEF SendOther, SInv, TypeOK
    <2>3. scheduled' \in BOOLEAN /\ QueueScheduled'
        BY <1>1, Zenon DEF SendOther, Enqueue, SInv, TypeOK, QueueScheduled
    <2>4. TypeOK'
        BY <1>1, <2>1, <2>2, <2>3, Zenon DEF SendOther, SInv, TypeOK
    <2>5. NetworkPlace'
        BY <1>1, <2>1, Zenon DEF SendOther, SInv, NetworkPlace
    <2> QED
        BY <2>3, <2>4, <2>5, Zenon DEF SInv
<1>2. CASE StateReset
    BY <1>2, Zenon DEF StateReset, SInv, TypeOK, NetworkPlace, QueueScheduled
<1>3. CASE UNCHANGED vars
    BY <1>3, Zenon DEF vars, SInv, TypeOK, NetworkPlace, QueueScheduled
<1>4. CASE \E p \in Producers : ProducerNext(p) \/ SpuriousWakeup(p)
    <2>1. PICK p \in Producers : ProducerNext(p) \/ SpuriousWakeup(p)
        BY <1>4, Zenon
    <2> QED
        BY <2>1, ProducerSafe, Zenon
<1>5. CASE NetworkNext
    BY <1>5, NetworkSafe, Zenon
<1> QED
    BY <1>1, <1>2, <1>3, <1>4, <1>5, Zenon DEF Next

\* The invariant holds of an empty queue.
LEMMA SInvInit == Init => SInv
<1> SUFFICES ASSUME Init PROVE SInv
    BY Zenon
<1>1. /\ send_list \in Seq({"reply", "other"})
      /\ others \in 0..MaxOthers /\ spurious \in 0..MaxSpurious
    BY SendBounds, SMTT(30) DEF Init
<1>2. /\ pc \in [Producers -> {"next", "queue", "inc", "lock", "wait", "done"}]
      /\ replies \in [Producers -> 0..MaxReplies]
    BY SendBounds, SMTT(30) DEF Init
<1>3. TypeOK
    BY <1>1, <1>2, Zenon DEF Init, TypeOK
<1> QED
    BY <1>3, Zenon DEF Init, SInv, NetworkPlace, QueueScheduled

-----------------------------------------------------------------------------
(* The length of the queue. *)

\* The counts are of finite sets, and no iterator is in both.
LEMMA Counts ==
    ASSUME TypeOK
    PROVE  /\ IsFiniteSet(Uncounted) /\ Cardinality(Uncounted) \in Nat
           /\ IsFiniteSet(Asleep) /\ Cardinality(Asleep) \in Nat
           /\ Cardinality(Producers) \in Nat
           /\ Cardinality(Uncounted) + Cardinality(Asleep) <= Cardinality(Producers)
<1>1. Uncounted \subseteq Producers /\ Asleep \subseteq Producers
    BY Zenon DEF Uncounted, Asleep
<1>2. IsFiniteSet(Uncounted) /\ IsFiniteSet(Asleep) /\ IsFiniteSet(Uncounted \cup Asleep)
    BY <1>1, ProducersAssumption, FS_Subset, FS_Union, Zenon
<1>3. Cardinality(Uncounted \cup Asleep) <= Cardinality(Producers)
    BY <1>1, ProducersAssumption, FS_Subset, Zenon
<1>4. Uncounted \cap Asleep = {}
    BY Zenon DEF Uncounted, Asleep
<1>5. Cardinality(Uncounted \cap Asleep) = 0
    BY <1>4, FS_EmptySet, Zenon
<1>6. Cardinality(Uncounted \cup Asleep) =
          Cardinality(Uncounted) + Cardinality(Asleep) - Cardinality(Uncounted \cap Asleep)
    BY <1>2, FS_Union, Zenon
<1>7. /\ Cardinality(Uncounted) \in Nat /\ Cardinality(Asleep) \in Nat
      /\ Cardinality(Producers) \in Nat
    BY <1>2, ProducersAssumption, FS_CardinalityType, Zenon
<1> QED
    BY <1>2, <1>3, <1>5, <1>6, <1>7, SMTT(30)

\* The same after a step.
LEMMA CountsNext == TypeOK' => Cardinality(Asleep)' \in Nat
<1> SUFFICES ASSUME TypeOK' PROVE Cardinality(Asleep)' \in Nat
    BY Zenon
<1>1. Asleep' \subseteq Producers
    BY Zenon DEF Asleep
<1>2. IsFiniteSet(Asleep')
    BY <1>1, ProducersAssumption, FS_Subset, Zenon
<1> QED
    BY <1>2, FS_CardinalityType, Zenon

\* The arithmetic of the bound: l requests, q of them counted, u not yet, a of the
\* n iterators asleep, o others, s spurious wakeups, the high watermark h.
LEMMA SumBound ==
    ASSUME NEW l \in Nat, NEW q \in Nat, NEW u \in Nat, NEW a \in Nat, NEW n \in Nat,
           NEW o \in Nat, NEW s \in Nat, NEW h \in Nat,
           l <= q + u + o, q <= h + n + a + s, u + a <= n
    PROVE  l <= h + 2 * n + o + s
BY SMTT(30)

\* What holds of the counts bounds the queue.
LEMMA IInvBounds == IInv => QueueBounded
<1> SUFFICES ASSUME IInv PROVE QueueBounded
    BY Zenon
<1>1. TypeOK
    BY Zenon DEF IInv, SInv
<1>2. /\ Len(send_list) \in Nat /\ send_queue_size \in Nat /\ others \in Nat /\ spurious \in Nat
      /\ Unlinked \in {0, 1} /\ High \in Nat
    BY <1>1, SendBounds, WatermarkAssumption, SMTT(30) DEF TypeOK, Unlinked
<1>3. Len(send_list) <= send_queue_size + Cardinality(Uncounted) + others
    BY <1>1, <1>2, Counts, SMTT(30) DEF IInv, Accounted
<1>4. send_queue_size <= High + Cardinality(Producers) + Cardinality(Asleep) + spurious
    BY Zenon DEF IInv, CountBounded
<1>5. /\ Cardinality(Uncounted) \in Nat /\ Cardinality(Asleep) \in Nat
      /\ Cardinality(Producers) \in Nat
      /\ Cardinality(Uncounted) + Cardinality(Asleep) <= Cardinality(Producers)
    BY <1>1, Counts, Zenon
<1>6. Len(send_list) <= High + 2 * Cardinality(Producers) + others + spurious
    BY <1>2, <1>3, <1>4, <1>5, SumBound, Zenon
<1> QED
    BY <1>6, Zenon DEF QueueBounded

\* A step of an iterator leaves every request accounted for.
LEMMA ProducerBounded ==
    ASSUME NEW p \in Producers, IInv, ProducerNext(p) \/ SpuriousWakeup(p)
    PROVE  Accounted' /\ CountBounded'
<1>1. TypeOK
    BY Zenon DEF IInv, SInv
<1>2. TypeOK'
    BY ProducerSafe, Zenon DEF IInv, SInv
<1>3. /\ Len(send_list) \in Nat /\ send_queue_size \in Nat /\ others \in Nat /\ spurious \in Nat
      /\ High \in Nat /\ pc \in [Producers -> {"next", "queue", "inc", "lock", "wait", "done"}]
    BY <1>1, SendBounds, WatermarkAssumption, SMTT(30) DEF TypeOK
<1>4. /\ npc' = npc /\ others' = others /\ Unlinked' = Unlinked /\ Unlinked \in {0, 1}
    BY Zenon DEF ProducerNext, IteratorInterrupted, IteratorSends, IteratorEnds, SendReply,
           SendReplyNoMemory, CountReply, Sleep, SpuriousWakeup, Unlinked
<1> DEFINE a == Cardinality(Asleep)
           n == Cardinality(Producers)
<1>a. a \in Nat /\ n \in Nat
    BY <1>1, Counts, Zenon
<1>b. /\ send_queue_size <= High + n + a + spurious
      /\ npc = "wake" => send_queue_size <= High + a + spurious
    BY Zenon DEF IInv, CountBounded
<1>5. CASE \/ IteratorInterrupted(p) \/ IteratorSends(p) \/ IteratorEnds(p)
           \/ SendReplyNoMemory(p) \/ Sleep(p)
    <2>1. Uncounted' = Uncounted /\ Asleep' = Asleep
        BY <1>3, <1>5, Zenon DEF IteratorInterrupted, IteratorSends, IteratorEnds,
                          SendReplyNoMemory, Sleep, Uncounted, Asleep
    <2>2. UNCHANGED <<send_list, send_queue_size, spurious>>
        BY <1>5, Zenon DEF IteratorInterrupted, IteratorSends, IteratorEnds,
                    SendReplyNoMemory, Sleep
    <2> QED
        BY <1>4, <2>1, <2>2, Zenon DEF IInv, Accounted, CountBounded
<1>6. CASE SendReply(p)
    <2>1. /\ Uncounted' = Uncounted \cup {p} /\ p \notin Uncounted /\ Asleep' = Asleep
        BY <1>3, <1>6, Zenon DEF SendReply, Uncounted, Asleep
    <2>2. Cardinality(Uncounted') = Cardinality(Uncounted) + 1
        BY <1>1, <2>1, Counts, FS_AddElement, Zenon
    <2>3. Len(send_list') = Len(send_list) + 1 /\ UNCHANGED <<send_queue_size, spurious>>
        BY <1>1, <1>6, SMTT(30) DEF SendReply, Enqueue, TypeOK
    <2>4. Accounted'
        BY <1>1, <1>3, <1>4, <2>2, <2>3, Counts, SMTT(30) DEF IInv, Accounted
    <2>5. CountBounded'
        BY <1>4, <2>1, <2>3, Zenon DEF IInv, CountBounded
    <2> QED
        BY <2>4, <2>5, Zenon
<1>7. CASE CountReply(p)
    <2>1. /\ Uncounted' = Uncounted \ {p} /\ p \in Uncounted
          /\ p \notin Asleep
          /\ Asleep' = IF send_queue_size + 1 > High THEN Asleep \cup {p} ELSE Asleep
        BY <1>3, <1>7, Zenon DEF CountReply, Uncounted, Asleep
    <2>2. Cardinality(Uncounted') = Cardinality(Uncounted) - 1
        BY <1>1, <2>1, Counts, FS_RemoveElement, Zenon
    <2>3. send_queue_size' = send_queue_size + 1 /\ UNCHANGED <<send_list, spurious>>
        BY <1>7, Zenon DEF CountReply
    <2>4. Accounted'
        BY <1>1, <1>3, <1>4, <2>2, <2>3, Counts, SMTT(30) DEF IInv, Accounted
    <2>5. CASE send_queue_size + 1 > High
        <3>1. Cardinality(Asleep') = a + 1
            BY <1>1, <2>1, <2>5, Counts, FS_AddElement, Zenon
        <3> HIDE DEF a, n
        <3>2. /\ send_queue_size' <= High + n + (a + 1) + spurious
              /\ npc = "wake" => send_queue_size' <= High + (a + 1) + spurious
            BY <1>3, <1>a, <1>b, <2>3, SMTT(30)
        <3> QED
            BY <1>4, <2>3, <2>4, <3>1, <3>2, Zenon DEF n, CountBounded
    <2>6. CASE ~(send_queue_size + 1 > High)
        <3>1. Asleep' = Asleep
            BY <2>1, <2>6, Zenon
        <3> QED
            BY <1>1, <1>3, <1>4, <2>3, <2>4, <2>6, <3>1, Counts, SMTT(30) DEF CountBounded
    <2> QED
        BY <2>5, <2>6, Zenon
<1>8. CASE SpuriousWakeup(p)
    <2>1. Uncounted' = Uncounted /\ Asleep' = Asleep \ {p} /\ p \in Asleep
        BY <1>3, <1>8, Zenon DEF SpuriousWakeup, Uncounted, Asleep
    <2>2. Cardinality(Asleep') = a - 1
        BY <1>1, <2>1, Counts, FS_RemoveElement, Zenon
    <2>3. spurious' = spurious + 1 /\ UNCHANGED <<send_list, send_queue_size>>
        BY <1>8, Zenon DEF SpuriousWakeup
    <2>4. Accounted'
        BY <1>4, <2>1, <2>3, Zenon DEF IInv, Accounted
    <2> HIDE DEF a, n
    <2>5. /\ send_queue_size <= High + n + (a - 1) + (spurious + 1)
          /\ npc = "wake" => send_queue_size <= High + (a - 1) + (spurious + 1)
        BY <1>3, <1>a, <1>b, SMTT(30)
    <2>6. CountBounded'
        BY <1>4, <2>2, <2>3, <2>5, Zenon DEF n, CountBounded
    <2> QED
        BY <2>4, <2>6, Zenon
<1> QED
    BY <1>5, <1>6, <1>7, <1>8, Zenon DEF ProducerNext

\* So does a step of the network thread: what it unlinks it counts down, and it
\* wakes the iterators when the counter is low.
LEMMA NetworkBounded ==
    ASSUME IInv, NetworkNext
    PROVE  Accounted' /\ CountBounded'
<1>1. TypeOK
    BY Zenon DEF IInv, SInv
<1>2. /\ Len(send_list) \in Nat /\ send_queue_size \in Nat /\ others \in Nat /\ spurious \in Nat
      /\ High \in Nat /\ Low \in Nat /\ Low < High
    BY <1>1, SendBounds, WatermarkAssumption, SMTT(30) DEF TypeOK
<1>3. CASE PollOut \/ PeekFirst \/ PeekEmpty \/ SendSome \/ SendFails \/ NetworkReset
    <2>1. /\ UNCHANGED <<send_list, send_queue_size, others, spurious, pc>>
          /\ Unlinked = Unlinked' /\ npc' # "wake"
        BY <1>3, Zenon DEF PollOut, PeekFirst, PeekEmpty, SendSome, SendFails, NetworkReset, Unlinked
    <2>2. Uncounted' = Uncounted /\ Asleep' = Asleep
        BY <2>1, Zenon DEF Uncounted, Asleep
    <2> QED
        BY <2>1, <2>2, Zenon DEF IInv, Accounted, CountBounded
<1>4. CASE SendAll
    <2>1. /\ UNCHANGED <<send_queue_size, others, spurious, pc>>
          /\ Unlinked = 0 /\ Unlinked' = 1 /\ npc' # "wake"
        BY <1>4, Zenon DEF SendAll, Unlinked
    <2>2. Uncounted' = Uncounted /\ Asleep' = Asleep
        BY <2>1, Zenon DEF Uncounted, Asleep
    <2>3. Len(send_list') = Len(send_list) - 1
        BY <1>1, <1>4, SMTT(30) DEF SendAll, IInv, SInv, NetworkPlace, TypeOK
    <2>4. Accounted'
        BY <1>1, <1>2, <2>1, <2>2, <2>3, Counts, SMTT(30) DEF IInv, Accounted
    <2>5. CountBounded'
        BY <2>1, <2>2, Zenon DEF IInv, CountBounded
    <2> QED
        BY <2>4, <2>5, Zenon
<1>5. CASE CountSent
    <2>1. /\ UNCHANGED <<send_list, others, spurious, pc>>
          /\ Unlinked = 1 /\ Unlinked' = 0
          /\ send_queue_size' = IF send_queue_size > 0 THEN send_queue_size - 1 ELSE 0
          /\ npc' = "wake" => send_queue_size = Low + 1
        BY <1>5, Zenon DEF CountSent, Unlinked
    <2>2. Uncounted' = Uncounted /\ Asleep' = Asleep
        BY <2>1, Zenon DEF Uncounted, Asleep
    <2>3. Accounted'
        BY <1>1, <1>2, <2>1, <2>2, Counts, SMTT(30) DEF IInv, Accounted
    <2>4. send_queue_size' <= High + Cardinality(Producers) + Cardinality(Asleep) + spurious
        BY <1>1, <1>2, <2>1, Counts, SMTT(30) DEF IInv, CountBounded
    <2>5. npc' = "wake" => send_queue_size' <= High + Cardinality(Asleep) + spurious
        BY <1>1, <1>2, <2>1, Counts, SMTT(30)
    <2> QED
        BY <2>1, <2>2, <2>3, <2>4, <2>5, Zenon DEF CountBounded
<1>6. CASE WakeProducers
    <2>1. /\ UNCHANGED <<send_list, send_queue_size, others, spurious>>
          /\ Unlinked = 0 /\ Unlinked' = 0 /\ npc = "wake" /\ npc' = "peek"
        BY <1>6, Zenon DEF WakeProducers, Unlinked
    <2>2. Uncounted' = Uncounted
        BY <1>6, Zenon DEF WakeProducers, Uncounted
    <2>3. TypeOK'
        BY NetworkSafe, Zenon DEF IInv, SInv
    <2>4. Cardinality(Asleep') \in Nat /\ Cardinality(Asleep) <= Cardinality(Producers)
        BY <1>1, <2>3, Counts, CountsNext, SMTT(30)
    <2>5. Accounted'
        BY <2>1, <2>2, Zenon DEF IInv, Accounted
    <2>6. send_queue_size <= High + Cardinality(Asleep) + spurious
        BY <2>1, Zenon DEF IInv, CountBounded
    <2>7. CountBounded'
        BY <1>1, <1>2, <2>1, <2>4, <2>6, Counts, SMTT(30) DEF CountBounded
    <2> QED
        BY <2>5, <2>7, Zenon
<1> QED
    BY <1>3, <1>4, <1>5, <1>6, Zenon DEF NetworkNext

\* Every step keeps the counts.
LEMMA IInvStep == IInv /\ [Next]_vars => Accounted' /\ CountBounded'
<1> SUFFICES ASSUME IInv, [Next]_vars PROVE Accounted' /\ CountBounded'
    BY Zenon
<1>1. TypeOK
    BY Zenon DEF IInv, SInv
<1>2. Len(send_list) \in Nat /\ send_queue_size \in Nat /\ others \in Nat
    BY <1>1, SendBounds, SMTT(30) DEF TypeOK
<1>3. CASE SendOther
    <2>1. /\ UNCHANGED <<send_queue_size, spurious, pc, npc>> /\ others' = others + 1
          /\ Len(send_list') = Len(send_list) + 1
        BY <1>1, <1>3, SMTT(30) DEF SendOther, Enqueue, TypeOK
    <2>2. Uncounted' = Uncounted /\ Asleep' = Asleep /\ Unlinked' = Unlinked /\ Unlinked \in {0, 1}
        BY <2>1, Zenon DEF Uncounted, Asleep, Unlinked
    <2>3. Accounted'
        BY <1>1, <1>2, <2>1, <2>2, Counts, SMTT(30) DEF IInv, Accounted
    <2> QED
        BY <2>1, <2>2, <2>3, Zenon DEF IInv, CountBounded
<1>4. CASE StateReset \/ UNCHANGED vars
    <2>1. UNCHANGED <<send_list, send_queue_size, others, spurious, pc, npc>>
        BY <1>4, Zenon DEF StateReset, vars
    <2> QED
        BY <2>1, Zenon DEF IInv, Accounted, CountBounded, Uncounted, Asleep, Unlinked
<1>5. CASE \E p \in Producers : ProducerNext(p) \/ SpuriousWakeup(p)
    <2>1. PICK p \in Producers : ProducerNext(p) \/ SpuriousWakeup(p)
        BY <1>5, Zenon
    <2> QED
        BY <2>1, ProducerBounded, Zenon
<1>6. CASE NetworkNext
    BY <1>6, NetworkBounded, Zenon
<1> QED
    BY <1>3, <1>4, <1>5, <1>6, Zenon DEF Next

-----------------------------------------------------------------------------
\* EPOLLOUT is asked for as long as there is something to send on a live
\* connection (dnet_io_req_queue against dnet_process_send_single).
THEOREM ScheduledTheorem == Spec => [](TypeOK /\ QueueScheduled)
<1>1. SInv => TypeOK /\ QueueScheduled
    BY Zenon DEF SInv
<1> QED
    BY <1>1, SInvInit, SInvStep, PTL DEF Spec

\* The queue of a connection is bounded, however the iterators, the other
\* senders and the network thread interleave (dnet_send_reply_threshold against
\* dnet_process_send_single).
THEOREM BoundedTheorem == Spec => []QueueBounded
<1>1. Init => IInv
    <2> SUFFICES ASSUME Init PROVE IInv
        BY Zenon
    <2>1. SInv /\ TypeOK
        BY SInvInit, Zenon DEF SInv
    <2>2. /\ send_queue_size = 0 /\ others = 0 /\ spurious = 0
          /\ Len(send_list) = 0 /\ Unlinked = 0 /\ npc # "wake"
        BY Zenon DEF Init, Unlinked
    <2> QED
        BY <2>1, <2>2, Counts, WatermarkAssumption, SMTT(30) DEF IInv, Accounted, CountBounded
<1>2. IInv /\ [Next]_vars => IInv'
    <2> SUFFICES ASSUME IInv, [Next]_vars PROVE IInv'
        BY Zenon
    <2>1. SInv'
        BY SInvStep, Zenon DEF IInv
    <2> QED
        BY <2>1, IInvStep, Zenon DEF IInv
<1> QED
    BY <1>1, <1>2, IInvBounds, PTL DEF Spec
=============================================================================
