------------------------------- MODULE IoPool -------------------------------
(***************************************************************************)
(* A pool of IO threads and its queue (library/pool.c: dnet_schedule_io,   *)
(* take_request, dnet_io_process).                                         *)
(*                                                                         *)
(* The network threads append received requests to pool->list.  An IO      *)
(* thread takes the first request of the list that it may work on: any     *)
(* command, and a reply whose transaction no other thread has claimed.  A  *)
(* thread claims a transaction while it works on a reply marked MORE.  The *)
(* claims are there so that the replies to one transaction are handled one *)
(* at a time and in order (ReplyOrder).                                    *)
(*                                                                         *)
(* One action is one critical section of pool->lock, or the end of         *)
(* dnet_process_recv.                                                      *)
(***************************************************************************)
EXTENDS Naturals, Sequences

CONSTANTS
    Threads,    \* IO threads of the pool
    Tids,       \* transactions of this node that get replies
    NoTid,      \* ~0ULL: no claim
    Commands,   \* requests of other nodes
    MaxReplies, \* bound: replies to one transaction
    Exits       \* dnet_io_exit may be called

ASSUME TidsAssumption == NoTid \notin Tids /\ Commands \cap Tids = {}
ASSUME BoundAssumption == MaxReplies \in Nat /\ Exits \in BOOLEAN

\* A received request: a command, or the n-th reply to a transaction.
Reply(tid, n, more) == [reply |-> TRUE, id |-> tid, n |-> n, more |-> more]
Command(c) == [reply |-> FALSE, id |-> c, n |-> 1, more |-> FALSE]

Requests ==
    {Reply(tid, n, more) : tid \in Tids, n \in 1..MaxReplies, more \in BOOLEAN}
    \cup {Command(c) : c \in Commands}

NoRequest == [reply |-> FALSE, id |-> NoTid, n |-> 0, more |-> FALSE]

VARIABLES
    list,       \* pool->list
    trans,      \* pool->trans: thread -> claimed transaction, or NoTid
    pc,         \* thread -> where it is
    cur,        \* thread -> request it works on
    received,   \* transaction -> replies received so far
    complete,   \* transactions whose last reply, and commands that, have been received
    finished,   \* transaction -> number of the reply handled last
    need_exit,  \* n->need_exit
    phase       \* dnet_io_exit: network threads run, are joined, pool is freed

vars == <<list, trans, pc, cur, received, complete, finished, need_exit, phase>>

TypeOK ==
    /\ list \in Seq(Requests)
    /\ trans \in [Threads -> Tids \cup {NoTid}]
    /\ pc \in [Threads -> {"loop", "wait", "woken", "work", "exit"}]
    /\ cur \in [Threads -> Requests \cup {NoRequest}]
    /\ received \in [Tids -> 0..MaxReplies]
    /\ complete \subseteq Tids \cup Commands
    /\ finished \in [Tids -> 0..MaxReplies]
    /\ need_exit \in BOOLEAN /\ phase \in {"run", "joined", "freed"}

Init ==
    /\ list = <<>>
    /\ trans = [t \in Threads |-> NoTid]
    /\ pc = [t \in Threads |-> "loop"]
    /\ cur = [t \in Threads |-> NoRequest]
    /\ received = [tid \in Tids |-> 0]
    /\ complete = {}
    /\ finished = [tid \in Tids |-> 0]
    /\ need_exit = FALSE /\ phase = "run"

-----------------------------------------------------------------------------
(* The network threads: dnet_schedule_io. *)

\* pthread_cond_signal wakes one of the threads that wait, if any does.
Signal(p) ==
    \/ /\ \A t \in Threads : p[t] # "wait"
       /\ pc' = p
    \/ \E t \in Threads :
        /\ p[t] = "wait"
        /\ pc' = [p EXCEPT ![t] = "woken"]

\* The next reply to tid arrives; more is its DNET_FLAGS_MORE.
ScheduleReply(tid, more) ==
    /\ phase = "run"
    /\ tid \notin complete /\ received[tid] < MaxReplies
    /\ list' = Append(list, Reply(tid, received[tid] + 1, more))
    /\ received' = [received EXCEPT ![tid] = @ + 1]
    /\ complete' = IF more THEN complete ELSE complete \cup {tid}
    /\ Signal(pc)
    /\ UNCHANGED <<trans, cur, finished, need_exit, phase>>

ScheduleCommand(c) ==
    /\ phase = "run"
    /\ c \notin complete
    /\ list' = Append(list, Command(c))
    /\ complete' = complete \cup {c}
    /\ Signal(pc)
    /\ UNCHANGED <<trans, cur, received, finished, need_exit, phase>>

-----------------------------------------------------------------------------
(* The IO threads: dnet_io_process. *)

\* Faulty form: a transaction somebody else has claimed is not left alone.
MayTakeClaimed(claims, t, r) ==
    \/ ~r.reply
    \/ claims[t] = r.id
    \/ claims[t] = NoTid

\* Whether take_request by t accepts r: a command, a reply to the transaction t
\* has claimed, or one nobody has claimed while t has no claim.
MayTake(claims, t, r) ==
    \/ ~r.reply
    \/ claims[t] = r.id
    \/ claims[t] = NoTid /\ \A u \in Threads : claims[u] # r.id

\* take_request: the first acceptable request of the list.
Chosen(claims, t) ==
    {i \in 1..Len(list) :
        /\ MayTake(claims, t, list[i])
        /\ \A j \in 1..(i - 1) : ~MayTake(claims, t, list[j])}

\* Faulty form: the claim is left out.
ClaimNothing(claims, t, r) == claims

\* The claims after t takes r: its own is dropped with the last reply, and a
\* new one is made only if there will be more replies.
Claim(claims, t, r) ==
    IF ~r.reply THEN claims
    ELSE [claims EXCEPT ![t] = IF r.more THEN r.id ELSE NoTid]

\* list_del_init of the i-th request.
Unlink(i) == [j \in 1..(Len(list) - 1) |-> IF j < i THEN list[j] ELSE list[j + 1]]

\* t takes the i-th request and leaves the lock with it.
Take(claims, t, i) ==
    /\ trans' = Claim(claims, t, list[i])
    /\ cur' = [cur EXCEPT ![t] = list[i]]
    /\ list' = Unlink(i)
    /\ pc' = [pc EXCEPT ![t] = "work"]

\* The claim of t is cleared at the start of a round.
NoClaim(t) == [trans EXCEPT ![t] = NoTid]

\* A round finds a request.
RoundTakes(t) ==
    /\ pc[t] = "loop" /\ ~need_exit
    /\ \E i \in Chosen(NoClaim(t), t) : Take(NoClaim(t), t, i)
    /\ UNCHANGED <<received, complete, finished, need_exit, phase>>

\* It finds none and waits: pthread_cond_timedwait.
RoundWaits(t) ==
    /\ pc[t] = "loop" /\ ~need_exit
    /\ Chosen(NoClaim(t), t) = {}
    /\ trans' = NoClaim(t)
    /\ pc' = [pc EXCEPT ![t] = "wait"]
    /\ UNCHANGED <<list, cur, received, complete, finished, need_exit, phase>>

\* The wait is over, by a signal, after a second, or for no reason: look again.
WaitTakes(t) ==
    /\ pc[t] \in {"wait", "woken"}
    /\ \E i \in Chosen(trans, t) : Take(trans, t, i)
    /\ UNCHANGED <<received, complete, finished, need_exit, phase>>

WaitFails(t) ==
    /\ pc[t] \in {"wait", "woken"}
    /\ Chosen(trans, t) = {}
    /\ pc' = [pc EXCEPT ![t] = "loop"]
    /\ UNCHANGED <<list, trans, cur, received, complete, finished, need_exit, phase>>

\* dnet_process_recv returns; the request is freed and the state is put.
Finish(t) ==
    /\ pc[t] = "work"
    /\ pc' = [pc EXCEPT ![t] = "loop"]
    /\ cur' = [cur EXCEPT ![t] = NoRequest]
    /\ finished' = IF cur[t].reply THEN [finished EXCEPT ![cur[t].id] = cur[t].n]
                   ELSE finished
    /\ UNCHANGED <<list, trans, received, complete, need_exit, phase>>

\* dnet_io_exit; the threads leave their loop.
NeedExit ==
    /\ Exits
    /\ ~need_exit
    /\ need_exit' = TRUE
    /\ UNCHANGED <<list, trans, pc, cur, received, complete, finished, phase>>

\* dnet_io_exit has joined the network threads.
NetworkExit ==
    /\ need_exit /\ phase = "run"
    /\ phase' = "joined"
    /\ UNCHANGED <<list, trans, pc, cur, received, complete, finished, need_exit>>

ThreadExit(t) ==
    /\ pc[t] = "loop" /\ need_exit
    /\ pc' = [pc EXCEPT ![t] = "exit"]
    /\ UNCHANGED <<list, trans, cur, received, complete, finished, need_exit, phase>>

\* dnet_work_pool_cleanup, when it has joined all threads of the pool: what is
\* left of the list is freed.
Cleanup ==
    /\ phase = "joined"
    /\ \A t \in Threads : pc[t] = "exit"
    /\ list' = <<>>
    /\ phase' = "freed"
    /\ UNCHANGED <<trans, pc, cur, received, complete, finished, need_exit>>

-----------------------------------------------------------------------------
ThreadNext(t) ==
    \/ RoundTakes(t) \/ RoundWaits(t) \/ WaitTakes(t) \/ WaitFails(t)
    \/ Finish(t) \/ ThreadExit(t)

Next ==
    \/ \E tid \in Tids, more \in BOOLEAN : ScheduleReply(tid, more)
    \/ \E c \in Commands : ScheduleCommand(c)
    \/ \E t \in Threads : ThreadNext(t)
    \/ NeedExit \/ NetworkExit \/ Cleanup

Spec == Init /\ [][Next]_vars

\* The threads run, and a wait ends after a second at the latest.
FairSpec == Spec /\ \A t \in Threads : WF_vars(ThreadNext(t))

-----------------------------------------------------------------------------
(* Properties *)

Busy(tid) == {t \in Threads : cur[t].reply /\ cur[t].id = tid}

\* The replies to one transaction are handled by one thread at a time.
ReplyExclusive == \A tid \in Tids : \A t, u \in Busy(tid) : t = u

\* What waits in the queue for a transaction is exactly what was received after
\* the replies handled and the one being handled, in order: nothing is lost,
\* handled twice or overtaken, until dnet_io_exit frees the queue.
QueueInOrder == phase # "freed" => \A tid \in Tids :
    LET mine == SelectSeq(list, LAMBDA r : r.reply /\ r.id = tid)
        taken == received[tid] - Len(mine)
    IN  /\ \A i \in 1..Len(mine) : mine[i].n = taken + i
        /\ \A t \in Busy(tid) : cur[t].n = taken /\ finished[tid] = taken - 1
        /\ Busy(tid) = {} => finished[tid] = taken

\* A pool with the two properties is, for its users, a queue per transaction
\* that one worker empties.
Working == {[tid |-> cur[t].id, n |-> cur[t].n] : t \in {u \in Threads : cur[u].reply}}

Order == INSTANCE ReplyOrder WITH working <- Working

ImplementsReplyOrder == Order!Spec

\* All received replies get handled, unless the node exits: a reply passed over
\* because its transaction was claimed is not forgotten, and a signal spent on
\* a thread that may not take the request does not strand it.
ReplyHandled ==
    (\E tid \in Tids : finished[tid] < received[tid])
        ~> (need_exit \/ \A tid \in Tids : finished[tid] = received[tid])
=============================================================================
