---------------------------- MODULE IoPoolProofs ----------------------------
(***************************************************************************)
(* The inductive invariant of IoPool, for every set of threads,            *)
(* transactions and commands and any number of replies: replies of one     *)
(* transaction are never handled by two threads and are handled in the     *)
(* order they were received.                                               *)
(*                                                                         *)
(* A claim protects the replies behind one marked MORE.  The last reply is *)
(* handled without a claim: there it is the absence of further replies     *)
(* that protects, which the invariant has to know.                         *)
(***************************************************************************)
EXTENDS IoPool, TLAPS

\* The i-th element of the queue is a reply to tid.
ReplyAt(i, tid) == i \in 1..Len(list) /\ list[i].reply /\ list[i].id = tid

BusyWith(t, tid) == cur[t].reply /\ cur[t].id = tid

\* Claims differ; a thread that waits has none, one that works on a reply with
\* more to come has claimed its transaction.
ClaimInv ==
    /\ \A t, u \in Threads : trans[t] = trans[u] /\ trans[t] # NoTid => t = u
    /\ \A t \in Threads : pc[t] \in {"wait", "woken"} => trans[t] = NoTid
    /\ \A t \in Threads : cur[t].reply /\ cur[t].more => trans[t] = cur[t].id
    /\ \A t \in Threads : cur[t].reply => pc[t] = "work"

\* Queued replies are newer than the handled ones and in order, and the last
\* one closes its transaction.
QueueInv == \A tid \in Tids :
    /\ finished[tid] <= received[tid]
    /\ \A i \in 1..Len(list) : ReplyAt(i, tid) =>
        /\ finished[tid] < list[i].n /\ list[i].n <= received[tid]
        /\ ~list[i].more => tid \in complete /\ list[i].n = received[tid]
    /\ \A i, j \in 1..Len(list) :
        ReplyAt(i, tid) /\ ReplyAt(j, tid) /\ i < j => list[i].n < list[j].n

\* The reply being handled is the next one.
WorkInv == \A tid \in Tids : \A t \in Threads : BusyWith(t, tid) =>
    /\ cur[t].n = finished[tid] + 1 /\ cur[t].n <= received[tid]
    /\ ~cur[t].more => tid \in complete /\ cur[t].n = received[tid]
    /\ \A i \in 1..Len(list) : ReplyAt(i, tid) => list[i].n > cur[t].n
    /\ \A u \in Threads : BusyWith(u, tid) => u = t

\* No reply is missing.
NoGap == phase # "freed" => \A tid \in Tids : \A n \in 1..MaxReplies :
    finished[tid] < n /\ n <= received[tid] =>
        \/ \E i \in 1..Len(list) : ReplyAt(i, tid) /\ list[i].n = n
        \/ \E t \in Threads : BusyWith(t, tid) /\ cur[t].n = n

PhaseInv == phase = "freed" => \A t \in Threads : pc[t] = "exit"

IInv == TypeOK /\ ClaimInv /\ QueueInv /\ WorkInv /\ NoGap /\ PhaseInv

-----------------------------------------------------------------------------
(* Requests. *)

\* The fields of requests.
LEMMA RequestFacts ==
    /\ \A r \in Requests : /\ r.reply \in BOOLEAN /\ r.more \in BOOLEAN /\ r.n \in Nat
                           /\ r.reply => r.id \in Tids /\ r.n \in 1..MaxReplies
    /\ ~NoRequest.reply
    /\ \A tid \in Tids, n \in 1..MaxReplies, more \in BOOLEAN :
        /\ Reply(tid, n, more) \in Requests
        /\ Reply(tid, n, more).reply /\ Reply(tid, n, more).id = tid
        /\ Reply(tid, n, more).n = n /\ Reply(tid, n, more).more = more
    /\ \A c \in Commands : Command(c) \in Requests /\ ~Command(c).reply
<1>1. ASSUME NEW r \in Requests
      PROVE  /\ r.reply \in BOOLEAN /\ r.more \in BOOLEAN /\ r.n \in Nat
             /\ r.reply => r.id \in Tids /\ r.n \in 1..MaxReplies
  <2>1. \/ \E tid \in Tids, n \in 1..MaxReplies, more \in BOOLEAN : r = Reply(tid, n, more)
        \/ \E c \in Commands : r = Command(c)
    BY SMTT(30) DEF Requests
  <2>2. ASSUME NEW tid \in Tids, NEW n \in 1..MaxReplies, NEW more \in BOOLEAN,
               r = Reply(tid, n, more)
        PROVE  /\ r.reply \in BOOLEAN /\ r.more \in BOOLEAN /\ r.n \in Nat
               /\ r.reply => r.id \in Tids /\ r.n \in 1..MaxReplies
    BY <2>2, BoundAssumption, SMTT(30) DEF Reply
  <2>3. ASSUME NEW c \in Commands, r = Command(c)
        PROVE  /\ r.reply \in BOOLEAN /\ r.more \in BOOLEAN /\ r.n \in Nat /\ ~r.reply
    BY <2>3, Zenon DEF Command
  <2> QED
    BY <2>1, <2>2, <2>3, Zenon
<1>2. ~NoRequest.reply
  BY Zenon DEF NoRequest
<1>3. ASSUME NEW tid \in Tids, NEW n \in 1..MaxReplies, NEW more \in BOOLEAN
      PROVE  /\ Reply(tid, n, more) \in Requests
             /\ Reply(tid, n, more).reply /\ Reply(tid, n, more).id = tid
             /\ Reply(tid, n, more).n = n /\ Reply(tid, n, more).more = more
  <2>1. Reply(tid, n, more) \in Requests
    BY SMTT(30) DEF Requests
  <2> QED
    BY <2>1, Zenon DEF Reply
<1>4. ASSUME NEW c \in Commands
      PROVE  Command(c) \in Requests /\ ~Command(c).reply
  <2>1. Command(c) \in Requests
    BY SMTT(30) DEF Requests
  <2> QED
    BY <2>1, Zenon DEF Command
<1> QED
  BY <1>1, <1>2, <1>3, <1>4, Zenon

\* A thread at work on a reply is at work for its transaction.
LEMMA BusyFacts ==
    ASSUME TypeOK, NEW t \in Threads, cur[t].reply
    PROVE  cur[t].id \in Tids /\ BusyWith(t, cur[t].id)
<1>1. cur[t] \in Requests
  BY RequestFacts, SMTT(30) DEF TypeOK
<1> QED
  BY <1>1, RequestFacts, Zenon DEF BusyWith

\* The invariant holds of an empty pool.
LEMMA InitIInv == Init => IInv
<1> SUFFICES ASSUME Init PROVE IInv
  BY Zenon
<1> USE TidsAssumption, BoundAssumption DEF Init
<1>1. TypeOK
  <2>1. list \in Seq(Requests)
    BY SMTT(30)
  <2>2. /\ received \in [Tids -> 0..MaxReplies] /\ finished \in [Tids -> 0..MaxReplies]
        /\ trans \in [Threads -> Tids \cup {NoTid}]
        /\ cur \in [Threads -> Requests \cup {NoRequest}]
    BY SMTT(30)
  <2> QED
    BY <2>1, <2>2, Zenon DEF TypeOK
<1>2. Len(list) = 0 /\ \A t \in Threads : ~cur[t].reply
  BY RequestFacts, Zenon
<1>3. ClaimInv /\ PhaseInv
  BY <1>2, Zenon DEF ClaimInv, PhaseInv
<1>4. QueueInv /\ WorkInv /\ NoGap
  BY <1>2, SMTT(30) DEF QueueInv, WorkInv, NoGap, ReplyAt, BusyWith
<1> QED
  BY <1>1, <1>3, <1>4, Zenon DEF IInv

-----------------------------------------------------------------------------
(* The network threads. *)

\* A signal only turns a waiting thread into a woken one.
LEMMA SignalStep ==
    ASSUME IInv, Signal(pc)
    PROVE  /\ pc' \in [Threads -> {"loop", "wait", "woken", "work", "exit"}]
           /\ \A t \in Threads : pc'[t] = pc[t] \/ (pc[t] = "wait" /\ pc'[t] = "woken")
  BY ZenonT(30), Zenon DEF IInv, TypeOK, Signal

\* dnet_schedule_io queues a reply behind the ones received before it.
LEMMA ScheduleReplyStep ==
    ASSUME IInv, NEW tid \in Tids, NEW more \in BOOLEAN, ScheduleReply(tid, more)
    PROVE  IInv'
<1> DEFINE r == Reply(tid, received[tid] + 1, more)
<1>1. /\ r \in Requests /\ r.reply /\ r.id = tid /\ r.n = received[tid] + 1 /\ r.more = more
      /\ received[tid] + 1 \in 1..MaxReplies /\ received[tid] \in Nat
  <2>1. received[tid] + 1 \in 1..MaxReplies /\ received[tid] \in Nat
    BY BoundAssumption, SMTT(30) DEF ScheduleReply, IInv, TypeOK
  <2> QED
    BY <2>1, RequestFacts, SMTT(30)
<1> HIDE DEF r
<1>2. /\ list' = Append(list, r) /\ list \in Seq(Requests)
      /\ UNCHANGED <<trans, cur, finished, need_exit, phase>> /\ phase = "run"
      /\ received' = [received EXCEPT ![tid] = @ + 1]
      /\ complete' = IF more THEN complete ELSE complete \cup {tid}
      /\ tid \notin complete
      /\ Signal(pc)
  BY Zenon DEF ScheduleReply, IInv, TypeOK, r
<1> PICK len \in Nat : len = Len(list)
  BY <1>2, SMTT(30)
<1>3. /\ list' \in Seq(Requests) /\ Len(list) = len /\ Len(list') = len + 1
      /\ \A i \in 1..len : list'[i] = list[i]
      /\ list'[len + 1] = r
  BY <1>1, <1>2, SMTT(30)
<1>4. \A i \in 1..len : \A x \in Tids : ReplyAt(i, x)' <=> ReplyAt(i, x)
  BY <1>3, SMTT(30) DEF ReplyAt
<1>5. \A x \in Tids : ReplyAt(len + 1, x)' <=> x = tid
  BY <1>1, <1>3, SMTT(30) DEF ReplyAt
<1>6. TypeOK'
  BY <1>1, <1>2, <1>3, SignalStep, SMTT(30) DEF IInv, TypeOK
<1>7. ClaimInv' /\ PhaseInv'
  BY <1>2, SignalStep, Zenon DEF IInv, TypeOK, ClaimInv, PhaseInv
<1>8. /\ \A x \in Tids : received'[x] = IF x = tid THEN received[x] + 1 ELSE received[x]
      /\ \A x \in Tids : received[x] \in Nat /\ finished[x] \in Nat
  BY <1>2, BoundAssumption, SMTT(30) DEF IInv, TypeOK
<1>9. QueueInv'
  <2> SUFFICES ASSUME NEW x \in Tids
               PROVE  /\ finished[x] <= received'[x]
                      /\ \A i \in 1..Len(list') : ReplyAt(i, x)' =>
                          /\ finished[x] < list'[i].n /\ list'[i].n <= received'[x]
                          /\ ~list'[i].more => x \in complete' /\ list'[i].n = received'[x]
                      /\ \A i, j \in 1..Len(list') :
                          ReplyAt(i, x)' /\ ReplyAt(j, x)' /\ i < j => list'[i].n < list'[j].n
    BY <1>2, ZenonT(30), ZenonT(30) DEF QueueInv
  <2>1. /\ finished[x] <= received[x]
        /\ \A i \in 1..Len(list) : ReplyAt(i, x) =>
            /\ finished[x] < list[i].n /\ list[i].n <= received[x] /\ list[i].n \in Nat
            /\ ~list[i].more => x \in complete /\ list[i].n = received[x]
        /\ \A i, j \in 1..Len(list) :
            ReplyAt(i, x) /\ ReplyAt(j, x) /\ i < j => list[i].n < list[j].n
    <3>1. /\ finished[x] <= received[x]
          /\ \A i \in 1..Len(list) : ReplyAt(i, x) =>
              /\ finished[x] < list[i].n /\ list[i].n <= received[x]
              /\ ~list[i].more => x \in complete /\ list[i].n = received[x]
          /\ \A i, j \in 1..Len(list) :
              ReplyAt(i, x) /\ ReplyAt(j, x) /\ i < j => list[i].n < list[j].n
      BY <1>2, ZenonT(30), Zenon DEF IInv, QueueInv
    <3>3. \A i \in 1..Len(list) : list[i] \in Requests
      BY SMTT(30) DEF IInv, TypeOK
    <3>2. \A i \in 1..Len(list) : list[i].n \in Nat
      BY <3>3, RequestFacts, ZenonT(30), Zenon
    <3> QED
      BY <3>1, <3>2, ZenonT(30), Zenon
  <2> QED
    BY <2>1, <1>1, <1>2, <1>3, <1>4, <1>5, <1>8, SMTT(30)
<1>10. WorkInv'
  <2> SUFFICES ASSUME NEW x \in Tids, NEW t \in Threads, BusyWith(t, x)
               PROVE  /\ cur[t].n = finished[x] + 1 /\ cur[t].n <= received'[x]
                      /\ ~cur[t].more => x \in complete' /\ cur[t].n = received'[x]
                      /\ \A i \in 1..Len(list') : ReplyAt(i, x)' => list'[i].n > cur[t].n
                      /\ \A u \in Threads : BusyWith(u, x) => u = t
    BY <1>2, SMTT(30) DEF WorkInv, BusyWith
  <2>1. /\ cur[t].n = finished[x] + 1 /\ cur[t].n <= received[x]
        /\ ~cur[t].more => x \in complete /\ cur[t].n = received[x]
        /\ \A i \in 1..Len(list) : ReplyAt(i, x) => list[i].n > cur[t].n
        /\ \A u \in Threads : BusyWith(u, x) => u = t
    BY Zenon DEF IInv, WorkInv
  <2> QED
    BY <2>1, <1>1, <1>2, <1>3, <1>4, <1>5, <1>8, SMTT(30)
<1>11. NoGap'
  <2> SUFFICES ASSUME NEW x \in Tids, NEW n \in 1..MaxReplies,
                      finished[x] < n, n <= received'[x],
                      ~\E t \in Threads : BusyWith(t, x) /\ cur[t].n = n
               PROVE  \E i \in 1..Len(list') : ReplyAt(i, x)' /\ list'[i].n = n
    BY <1>2, SMTT(30) DEF NoGap, BusyWith
  <2>1. CASE n <= received[x]
    <3>1. \E i \in 1..Len(list) : ReplyAt(i, x) /\ list[i].n = n
      BY <2>1, <1>2, Zenon DEF IInv, NoGap
    <3> QED
      BY <3>1, <1>3, <1>4, SMTT(30)
  <2>2. CASE ~(n <= received[x])
    <3>1. x = tid /\ n = received[x] + 1
      BY <2>2, <1>8, SMTT(30)
    <3> QED
      BY <3>1, <1>1, <1>3, <1>5, SMTT(30)
  <2> QED
    BY <2>1, <2>2, Zenon
<1> QED
  BY <1>6, <1>7, <1>9, <1>10, <1>11, Zenon DEF IInv

\* dnet_schedule_io queues a command, which no claim concerns.
LEMMA ScheduleCommandStep ==
    ASSUME IInv, NEW c \in Commands, ScheduleCommand(c)
    PROVE  IInv'
<1> DEFINE r == Command(c)
<1>1. r \in Requests /\ ~r.reply
  BY RequestFacts, Zenon
<1> HIDE DEF r
<1>2. /\ list' = Append(list, r) /\ list \in Seq(Requests)
      /\ UNCHANGED <<trans, cur, received, finished, need_exit, phase>>
      /\ complete' = complete \cup {c} /\ phase = "run"
      /\ Signal(pc)
  BY Zenon DEF ScheduleCommand, IInv, TypeOK, r
<1> PICK len \in Nat : len = Len(list)
  BY <1>2, SMTT(30)
<1>3. /\ list' \in Seq(Requests) /\ Len(list) = len /\ Len(list') = len + 1
      /\ \A i \in 1..len : list'[i] = list[i]
      /\ list'[len + 1] = r
  BY <1>1, <1>2, SMTT(30)
<1>4. \A i \in 1..(len + 1) : \A x \in Tids : ReplyAt(i, x)' <=> i \in 1..len /\ ReplyAt(i, x)
  BY <1>1, <1>3, SMTT(30) DEF ReplyAt
<1>5. TypeOK'
  BY <1>1, <1>2, <1>3, SignalStep, Zenon DEF IInv, TypeOK
<1>6. ClaimInv' /\ PhaseInv'
  BY <1>2, SignalStep, SMTT(30) DEF IInv, TypeOK, ClaimInv, PhaseInv
<1>7. QueueInv'
  BY <1>2, <1>3, <1>4, SMTT(30) DEF IInv, QueueInv
<1>8. WorkInv'
  BY <1>2, <1>3, <1>4, SMTT(30) DEF IInv, WorkInv, BusyWith
<1>9. NoGap'
  BY <1>2, <1>3, <1>4, SMTT(30) DEF IInv, NoGap, BusyWith
<1> QED
  BY <1>5, <1>6, <1>7, <1>8, <1>9, Zenon DEF IInv

-----------------------------------------------------------------------------
(* The IO threads. *)

\* A step that leaves queue and work alone.
LEMMA QueueFrame ==
    ASSUME IInv, UNCHANGED <<list, cur, received, complete, finished>>,
           phase' # "freed" => phase # "freed"
    PROVE  QueueInv' /\ WorkInv' /\ NoGap'
<1>1. /\ \A i : \A x : ReplyAt(i, x)' <=> ReplyAt(i, x)
      /\ \A t : \A x : BusyWith(t, x)' <=> BusyWith(t, x)
  BY Zenon DEF ReplyAt, BusyWith
<1> QED
  BY <1>1, SMTT(30) DEF IInv, QueueInv, WorkInv, NoGap

\* The request a thread without a claim may take is the next one of its
\* transaction, and nobody handles that transaction.
LEMMA ChosenIsNext ==
    ASSUME IInv, phase # "freed",
           NEW claims, NEW t \in Threads, claims[t] = NoTid,
           \A u \in Threads : u # t => claims[u] = trans[u],
           pc[t] # "work",
           NEW i \in Chosen(claims, t), list[i].reply
    PROVE  /\ list[i].id \in Tids
           /\ \A u \in Threads : ~BusyWith(u, list[i].id)
           /\ \A u \in Threads : u # t => trans[u] # list[i].id
           /\ list[i].n = finished[list[i].id] + 1
<1> DEFINE tid == list[i].id
<1>1. /\ i \in 1..Len(list) /\ list[i] \in Requests /\ list \in Seq(Requests)
      /\ MayTake(claims, t, list[i])
      /\ \A j \in 1..(i - 1) : ~MayTake(claims, t, list[j])
  BY SMTT(30) DEF Chosen, IInv, TypeOK
<1>2. tid \in Tids /\ list[i].n \in 1..MaxReplies
  BY <1>1, RequestFacts, Zenon
<1>3. \A u \in Threads : u # t => trans[u] # tid
  BY <1>1, <1>2, TidsAssumption, Zenon DEF MayTake
<1>4. /\ ReplyAt(i, tid)
      /\ finished[tid] < list[i].n /\ list[i].n <= received[tid]
      /\ finished[tid] \in Nat /\ received[tid] \in Nat
  BY <1>1, <1>2, BoundAssumption, SMTT(30) DEF ReplyAt, IInv, QueueInv, TypeOK
<1>5. \A u \in Threads : ~BusyWith(u, tid)
  <2> SUFFICES ASSUME NEW u \in Threads, BusyWith(u, tid)
               PROVE  FALSE
    BY Zenon
  <2>1. u # t
    BY Zenon DEF BusyWith, IInv, ClaimInv
  <2>2. ~cur[u].more
    BY <1>3, <2>1, Zenon DEF BusyWith, IInv, ClaimInv
  <2>3. cur[u].n = received[tid] /\ list[i].n > cur[u].n
    BY <1>1, <1>2, <1>4, <2>2, SMTT(30) DEF IInv, WorkInv
  <2> QED
    BY <1>2, <1>4, <2>3, SMTT(30)
<1>6. list[i].n = finished[tid] + 1
  <2>1. /\ finished[tid] + 1 \in 1..MaxReplies /\ finished[tid] + 1 <= received[tid]
        /\ finished[tid] < finished[tid] + 1
    BY <1>2, <1>4, BoundAssumption, SMTT(30)
  <2>5. \/ \E j \in 1..Len(list) : ReplyAt(j, tid) /\ list[j].n = finished[tid] + 1
        \/ \E u \in Threads : BusyWith(u, tid) /\ cur[u].n = finished[tid] + 1
    BY <1>2, <2>1, ZenonT(30), Zenon DEF IInv, NoGap
  <2>2. PICK j \in 1..Len(list) : ReplyAt(j, tid) /\ list[j].n = finished[tid] + 1
    BY <1>5, <2>5, ZenonT(30), Zenon
  <2>3. ~(i < j)
    BY <1>1, <1>2, <1>4, <2>2, SMTT(30) DEF IInv, QueueInv
  <2>4. ~(j < i)
    BY <1>1, <2>2, SMTT(30) DEF MayTake, ReplyAt
  <2> QED
    BY <1>1, <2>2, <2>3, <2>4, SMTT(30)
<1> QED
  BY <1>2, <1>3, <1>5, <1>6, Zenon

\* Taking the chosen request out of the queue.
LEMMA TakeStep ==
    ASSUME IInv,
           NEW claims \in [Threads -> Tids \cup {NoTid}], NEW t \in Threads,
           claims[t] = NoTid, \A u \in Threads : u # t => claims[u] = trans[u],
           pc[t] \in {"loop", "wait", "woken"},
           NEW i \in Chosen(claims, t), Take(claims, t, i),
           UNCHANGED <<received, complete, finished, need_exit, phase>>
    PROVE  IInv'
<1> DEFINE r == list[i]
           old(j) == IF j < i THEN j ELSE j + 1
<1> PICK len \in Nat : len = Len(list)
  BY SMTT(30) DEF IInv, TypeOK
<1>1. /\ list \in Seq(Requests) /\ i \in 1..len /\ r \in Requests /\ phase # "freed"
      /\ cur \in [Threads -> Requests \cup {NoRequest}] /\ ~cur[t].reply
  BY SMTT(30) DEF IInv, TypeOK, Chosen, PhaseInv, ClaimInv
<1>2. /\ trans' = Claim(claims, t, r) /\ cur' = [cur EXCEPT ![t] = r]
      /\ pc' = [pc EXCEPT ![t] = "work"]
      /\ list' = [j \in 1..(len - 1) |-> IF j < i THEN list[j] ELSE list[j + 1]]
  BY Zenon DEF Take, Unlink
<1>3. /\ list' \in Seq(Requests) /\ Len(list') = len - 1
      /\ \A j \in 1..(len - 1) : list'[j] = IF j < i THEN list[j] ELSE list[j + 1]
  BY <1>1, <1>2, SMTT(30)
<1>4. /\ \A j \in 1..(len - 1) : old(j) \in 1..len /\ list'[j] = list[old(j)] /\ old(j) # i
      /\ \A j \in 1..(len - 1) : \A x \in Tids : ReplyAt(j, x)' <=> ReplyAt(old(j), x)
      /\ \A j, k \in 1..(len - 1) : j < k => old(j) < old(k)
  <2>1. \A j \in 1..(len - 1) : old(j) \in 1..len /\ list'[j] = list[old(j)] /\ old(j) # i
    <3> SUFFICES ASSUME NEW j \in 1..(len - 1)
                 PROVE  old(j) \in 1..len /\ list'[j] = list[old(j)] /\ old(j) # i
      BY Zenon
    <3>1. CASE j < i
      BY <1>1, <1>3, <3>1, SMTT(30)
    <3>2. CASE ~(j < i)
      BY <1>1, <1>3, <3>2, SMTT(30)
    <3> QED
      BY <3>1, <3>2, Zenon
  <2>2. \A j, k \in 1..(len - 1) : j < k => old(j) < old(k)
    BY <1>1, SMTT(30)
  <2> QED
    BY <1>3, <2>1, <2>2, Zenon DEF ReplyAt
<1>15. \A k \in 1..len : k # i => \E j \in 1..(len - 1) : old(j) = k
  <2> SUFFICES ASSUME NEW k \in 1..len, k # i
               PROVE  \E j \in 1..(len - 1) : old(j) = k
    BY Zenon
  <2>1. CASE k < i
    <3>1. k \in 1..(len - 1) /\ old(k) = k
      BY <1>1, <2>1, SMTT(30)
    <3> QED
      BY <3>1, Zenon
  <2>2. CASE k > i
    <3>1. k - 1 \in 1..(len - 1) /\ old(k - 1) = k
      BY <1>1, <2>2, SMTT(30)
    <3> QED
      BY <3>1, Zenon
  <2> QED
    BY <1>1, <2>1, <2>2, SMTT(30)
<1>5. /\ cur'[t] = r
      /\ \A u \in Threads : u # t => cur'[u] = cur[u]
      /\ \A u \in Threads : \A x \in Tids : u # t => (BusyWith(u, x)' <=> BusyWith(u, x))
      /\ \A x \in Tids : BusyWith(t, x)' <=> r.reply /\ r.id = x
      /\ \A x \in Tids : ~BusyWith(t, x)
  BY <1>1, <1>2, Zenon DEF BusyWith
<1>6. r.reply => /\ r.id \in Tids
                 /\ \A u \in Threads : ~BusyWith(u, r.id)
                 /\ \A u \in Threads : u # t => trans[u] # r.id
                 /\ r.n = finished[r.id] + 1
  BY <1>1, ChosenIsNext, Zenon
<1>7. /\ r.reply \in BOOLEAN /\ r.more \in BOOLEAN /\ r.n \in Nat
      /\ r.reply => ReplyAt(i, r.id)
  BY <1>1, RequestFacts, Zenon DEF ReplyAt
<1>8. \A x \in Tids : received[x] \in Nat /\ finished[x] \in Nat
  BY BoundAssumption, SMTT(30) DEF IInv, TypeOK
<1>16. Len(list)' = len - 1
  BY <1>3, Zenon
<1> HIDE DEF r, old
<1>9. TypeOK'
  <2>1. trans' \in [Threads -> Tids \cup {NoTid}]
    BY <1>2, <1>6, <1>7, Zenon DEF Claim
  <2> QED
    BY <1>1, <1>2, <1>3, <2>1, Zenon DEF IInv, TypeOK
<1>10. ClaimInv' /\ PhaseInv'
  <2>1. /\ \A u \in Threads : u # t => trans'[u] = trans[u]
        /\ r.reply => trans'[t] = IF r.more THEN r.id ELSE NoTid
        /\ ~r.reply => trans'[t] = NoTid
    BY <1>2, <1>7, Zenon DEF Claim
  <2>2. /\ pc'[t] = "work" /\ \A u \in Threads : u # t => pc'[u] = pc[u]
    BY <1>2, Zenon DEF IInv, TypeOK
  <2>3. ClaimInv'
    BY <2>1, <2>2, <1>5, <1>6, <1>7, SMTT(30) DEF IInv, ClaimInv
  <2>4. PhaseInv'
    BY <1>1, Zenon DEF PhaseInv
  <2> QED
    BY <2>3, <2>4, Zenon
<1>11. ASSUME NEW x \in Tids
       PROVE  \A j \in 1..len : ReplyAt(j, x) =>
                /\ finished[x] < list[j].n /\ list[j].n <= received[x] /\ list[j].n \in Nat
                /\ ~list[j].more => x \in complete /\ list[j].n = received[x]
                /\ \A k \in 1..len : ReplyAt(k, x) /\ j < k => list[j].n < list[k].n
  <2>1. \A j \in 1..len : ReplyAt(j, x) => list[j].n \in Nat
    BY <1>1, RequestFacts, SMTT(30) DEF ReplyAt
  <2> QED
    BY <2>1, Zenon DEF IInv, QueueInv
<1>12. QueueInv'
  <2> SUFFICES ASSUME NEW x \in Tids
               PROVE  /\ \A j \in 1..(len - 1) : ReplyAt(j, x)' =>
                           /\ finished[x] < list'[j].n /\ list'[j].n <= received[x]
                           /\ ~list'[j].more => x \in complete /\ list'[j].n = received[x]
                      /\ \A j, k \in 1..(len - 1) :
                           ReplyAt(j, x)' /\ ReplyAt(k, x)' /\ j < k => list'[j].n < list'[k].n
    BY <1>16, Zenon DEF IInv, QueueInv
  <2>1. ASSUME NEW j \in 1..(len - 1), ReplyAt(j, x)'
        PROVE  /\ finished[x] < list'[j].n /\ list'[j].n <= received[x]
               /\ ~list'[j].more => x \in complete /\ list'[j].n = received[x]
    <3>1. old(j) \in 1..len /\ list'[j] = list[old(j)] /\ ReplyAt(old(j), x)
      BY <1>4, <2>1, ZenonT(30), Zenon
    <3> QED
      BY <1>11, <3>1, ZenonT(30), ZenonT(30)
  <2>2. ASSUME NEW j \in 1..(len - 1), NEW k \in 1..(len - 1),
               ReplyAt(j, x)', ReplyAt(k, x)', j < k
        PROVE  list'[j].n < list'[k].n
    <3>1. /\ old(j) \in 1..len /\ list'[j] = list[old(j)] /\ ReplyAt(old(j), x)
          /\ old(k) \in 1..len /\ list'[k] = list[old(k)] /\ ReplyAt(old(k), x)
          /\ old(j) < old(k)
      BY <1>4, <2>2, ZenonT(30), Zenon
    <3> QED
      BY <1>11, <3>1, ZenonT(30), Zenon
  <2> QED
    BY <2>1, <2>2, ZenonT(30), Zenon
<1>13. WorkInv'
  <2> SUFFICES ASSUME NEW x \in Tids, NEW u \in Threads, BusyWith(u, x)'
               PROVE  /\ cur'[u].n = finished[x] + 1 /\ cur'[u].n <= received[x]
                      /\ ~cur'[u].more => x \in complete /\ cur'[u].n = received[x]
                      /\ \A j \in 1..(len - 1) : ReplyAt(j, x)' => list'[j].n > cur'[u].n
                      /\ \A v \in Threads : BusyWith(v, x)' => v = u
    BY <1>16, Zenon DEF WorkInv
  <2>1. CASE u = t
    <3>1. r.reply /\ r.id = x /\ ReplyAt(i, x) /\ r = list[i]
      BY <1>5, <1>7, <2>1, Zenon DEF r
    <3>2. \A k \in 1..len : k # i /\ ReplyAt(k, x) => list[k].n > r.n
      BY <1>1, <1>6, <1>7, <1>8, <1>11, <3>1, SMTT(30)
    <3>3. \A j \in 1..(len - 1) : ReplyAt(j, x)' => list'[j].n > r.n
      BY <1>4, <3>2, SMTT(30)
    <3> QED
      BY <1>1, <1>5, <1>6, <1>11, <2>1, <3>1, <3>3, SMTT(30)
  <2>2. CASE u # t
    <3>1. BusyWith(u, x) /\ cur'[u] = cur[u] /\ ~BusyWith(t, x)'
      BY <1>5, <1>6, <2>2, Zenon
    <3>2. /\ cur[u].n = finished[x] + 1 /\ cur[u].n <= received[x]
          /\ ~cur[u].more => x \in complete /\ cur[u].n = received[x]
          /\ \A j \in 1..len : ReplyAt(j, x) => list[j].n > cur[u].n
          /\ \A v \in Threads : BusyWith(v, x) => v = u
      BY <3>1, Zenon DEF IInv, WorkInv
    <3>3. \A j \in 1..(len - 1) : ReplyAt(j, x)' => list'[j].n > cur[u].n
      BY <1>4, <3>2, Zenon
    <3>4. \A v \in Threads : BusyWith(v, x)' => v = u
      BY <1>5, <3>1, <3>2, Zenon
    <3> QED
      BY <3>1, <3>2, <3>3, <3>4, ZenonT(30), Zenon
  <2> QED
    BY <2>1, <2>2, Zenon
<1>14. NoGap'
  <2> SUFFICES ASSUME NEW x \in Tids, NEW n \in 1..MaxReplies,
                      finished'[x] < n, n <= received'[x]
               PROVE  \/ \E j \in 1..Len(list') : ReplyAt(j, x)' /\ list'[j].n = n
                      \/ \E u \in Threads : BusyWith(u, x)' /\ cur'[u].n = n
    BY Zenon DEF NoGap
  <2>1. \/ \E j \in 1..Len(list) : ReplyAt(j, x) /\ list[j].n = n
        \/ \E u \in Threads : BusyWith(u, x) /\ cur[u].n = n
    BY <1>1, ZenonT(30), Zenon DEF IInv, NoGap
  <2>2. CASE \E u \in Threads : BusyWith(u, x) /\ cur[u].n = n
    BY <1>5, <2>2, ZenonT(30), Zenon
  <2>3. CASE \E j \in 1..len : ReplyAt(j, x) /\ list[j].n = n
    <3> PICK j \in 1..len : ReplyAt(j, x) /\ list[j].n = n
      BY <2>3, SMTT(30)
    <3>1. CASE j = i
      BY <1>5, <3>1, ZenonT(30), Zenon DEF ReplyAt, r
    <3>2. CASE j # i
      <4>1. PICK k \in 1..(len - 1) : old(k) = j
        BY <1>15, <3>2, Zenon
      <4>2. ReplyAt(k, x)' /\ list'[k].n = n
        BY <1>4, <4>1, Zenon
      <4> QED
        BY <1>16, <4>2, Zenon
    <3> QED
      BY <3>1, <3>2, ZenonT(30), Zenon
  <2> QED
    BY <2>1, <2>2, <2>3, Zenon
<1> QED
  BY <1>9, <1>10, <1>12, <1>13, <1>14, Zenon DEF IInv

\* Every step of a pool thread keeps the invariant.
LEMMA ThreadStep ==
    ASSUME IInv, NEW t \in Threads, ThreadNext(t)
    PROVE  IInv'
<1> DEFINE claims == NoClaim(t)
<1>1. /\ claims \in [Threads -> Tids \cup {NoTid}] /\ claims[t] = NoTid
      /\ \A u \in Threads : u # t => claims[u] = trans[u]
  BY Zenon DEF NoClaim, IInv, TypeOK
<1>2. CASE RoundTakes(t)
  <2>1. PICK i \in Chosen(claims, t) : Take(claims, t, i)
    BY <1>2, Zenon DEF RoundTakes
  <2> HIDE DEF claims
  <2> QED
    BY <1>1, <1>2, <2>1, TakeStep, Zenon DEF RoundTakes
<1>3. CASE WaitTakes(t)
  <2>1. PICK i \in Chosen(trans, t) : Take(trans, t, i)
    BY <1>3, Zenon DEF WaitTakes
  <2>2. trans \in [Threads -> Tids \cup {NoTid}] /\ trans[t] = NoTid
    BY <1>3, Zenon DEF WaitTakes, IInv, TypeOK, ClaimInv
  <2> QED
    BY <1>3, <2>1, <2>2, TakeStep, Zenon DEF WaitTakes
<1>4. CASE RoundWaits(t)
  <2>1. TypeOK' /\ ClaimInv' /\ PhaseInv'
    BY <1>1, <1>4, ZenonT(30) DEF RoundWaits, NoClaim, IInv, TypeOK, ClaimInv, PhaseInv
  <2> QED
    BY <1>4, <2>1, QueueFrame, Zenon DEF RoundWaits, IInv
<1>5. CASE WaitFails(t)
  <2>1. TypeOK' /\ ClaimInv' /\ PhaseInv'
    BY <1>5, Zenon DEF WaitFails, IInv, TypeOK, ClaimInv, PhaseInv
  <2> QED
    BY <1>5, <2>1, QueueFrame, Zenon DEF WaitFails, IInv
<1>6. CASE ThreadExit(t)
  <2>1. TypeOK' /\ ClaimInv' /\ PhaseInv'
    BY <1>6, Zenon DEF ThreadExit, IInv, TypeOK, ClaimInv, PhaseInv
  <2> QED
    BY <1>6, <2>1, QueueFrame, Zenon DEF ThreadExit, IInv
<1>7. CASE Finish(t)
  <2>1. /\ pc[t] = "work" /\ pc' = [pc EXCEPT ![t] = "loop"]
        /\ cur' = [cur EXCEPT ![t] = NoRequest]
        /\ finished' = IF cur[t].reply THEN [finished EXCEPT ![cur[t].id] = cur[t].n] ELSE finished
        /\ UNCHANGED <<list, trans, received, complete, need_exit, phase>>
    BY <1>7, Zenon DEF Finish
  <2>2. /\ \A i : \A x : ReplyAt(i, x)' <=> ReplyAt(i, x)
        /\ \A u \in Threads : u # t => cur'[u] = cur[u]
        /\ \A u \in Threads : \A x \in Tids : BusyWith(u, x)' <=> u # t /\ BusyWith(u, x)
        /\ ~cur'[t].reply
    BY <2>1, RequestFacts, SMTT(30) DEF ReplyAt, BusyWith, IInv, TypeOK
  <2>3. cur[t].reply => /\ cur[t].id \in Tids /\ BusyWith(t, cur[t].id)
                        /\ cur[t].n \in 1..MaxReplies
    BY RequestFacts, SMTT(30) DEF BusyWith, IInv, TypeOK
  <2>4. \A x \in Tids : /\ finished[x] \in Nat /\ received[x] \in Nat
                         /\ finished'[x] = IF BusyWith(t, x) THEN finished[x] + 1 ELSE finished[x]
    BY <2>1, <2>3, BoundAssumption, SMTT(30) DEF BusyWith, IInv, TypeOK, WorkInv
  <2>5. TypeOK'
    BY <2>1, <2>3, SMTT(30) DEF IInv, TypeOK
  <2>6. ClaimInv' /\ PhaseInv'
    BY <2>1, <2>2, Zenon DEF IInv, TypeOK, ClaimInv, PhaseInv
  <2>7. QueueInv'
    <3> SUFFICES ASSUME NEW x \in Tids
                 PROVE  /\ finished'[x] <= received[x]
                        /\ \A i \in 1..Len(list) : ReplyAt(i, x) => finished'[x] < list[i].n
      BY <2>1, <2>2, ZenonT(30), ZenonT(30) DEF IInv, QueueInv
    <3>1. CASE BusyWith(t, x)
      BY <2>4, <3>1, ZenonT(30), ZenonT(30) DEF IInv, WorkInv
    <3>2. CASE ~BusyWith(t, x)
      BY <2>4, <3>2, Zenon DEF IInv, QueueInv
    <3> QED
      BY <3>1, <3>2, Zenon
  <2>8. WorkInv'
    <3> SUFFICES ASSUME NEW x \in Tids, NEW u \in Threads, BusyWith(u, x), u # t
                 PROVE  /\ cur[u].n = finished'[x] + 1 /\ cur[u].n <= received[x]
                        /\ ~cur[u].more => x \in complete /\ cur[u].n = received[x]
                        /\ \A i \in 1..Len(list) : ReplyAt(i, x) => list[i].n > cur[u].n
                        /\ \A v \in Threads : BusyWith(v, x) => v = u
      BY <2>1, <2>2, SMTT(30) DEF WorkInv
    <3>1. ~BusyWith(t, x)
      BY Zenon DEF IInv, WorkInv
    <3> QED
      BY <2>4, <3>1, Zenon DEF IInv, WorkInv
  <2>9. NoGap'
    <3> SUFFICES ASSUME NEW x \in Tids, NEW n \in 1..MaxReplies, phase # "freed",
                        finished'[x] < n, n <= received[x]
                 PROVE  \/ \E i \in 1..Len(list) : ReplyAt(i, x) /\ list[i].n = n
                        \/ \E u \in Threads : u # t /\ BusyWith(u, x) /\ cur[u].n = n
      BY <2>1, <2>2, SMTT(30) DEF NoGap
    <3>1. finished[x] < n
      BY <2>4, SMTT(30)
    <3>2. BusyWith(t, x) => cur[t].n # n
      BY <2>4, SMTT(30) DEF IInv, WorkInv
    <3> QED
      BY <3>1, <3>2, Zenon DEF IInv, NoGap
  <2> QED
    BY <2>5, <2>6, <2>7, <2>8, <2>9, Zenon DEF IInv
<1> QED
  BY <1>2, <1>3, <1>4, <1>5, <1>6, <1>7, Zenon DEF ThreadNext

\* Every step keeps the invariant.
LEMMA Inductive ==
    ASSUME IInv, [Next]_vars
    PROVE  IInv'
<1>1. CASE NeedExit \/ NetworkExit \/ UNCHANGED vars
  <2>1. TypeOK' /\ ClaimInv'
    BY <1>1, Zenon DEF NeedExit, NetworkExit, vars, IInv, TypeOK, ClaimInv
  <2>2. CASE NetworkExit
    <3>1. PhaseInv'
      BY <2>2, Zenon DEF NetworkExit, PhaseInv
    <3> QED
      BY <2>1, <2>2, <3>1, QueueFrame, Zenon DEF NetworkExit, IInv
  <2>3. CASE NeedExit \/ UNCHANGED vars
    <3>1. PhaseInv'
      BY <2>3, Zenon DEF NeedExit, vars, IInv, PhaseInv
    <3> QED
      BY <2>1, <2>3, <3>1, QueueFrame, Zenon DEF NeedExit, vars, IInv
  <2> QED
    BY <1>1, <2>2, <2>3, Zenon
<1>2. CASE Cleanup
  <2>1. list' \in Seq(Requests) /\ Len(list') = 0
    BY <1>2, SMTT(30) DEF Cleanup
  <2>2. TypeOK' /\ ClaimInv' /\ PhaseInv' /\ NoGap'
    BY <1>2, <2>1, Zenon DEF Cleanup, IInv, TypeOK, ClaimInv, PhaseInv, NoGap
  <2>3. /\ \A i : i \notin 1..Len(list')
        /\ \A t : \A x : BusyWith(t, x)' <=> BusyWith(t, x)
        /\ cur' = cur /\ received' = received /\ complete' = complete /\ finished' = finished
    BY <1>2, <2>1, SMTT(30) DEF Cleanup, BusyWith
  <2>4. QueueInv'
    BY <2>3, ZenonT(30), Zenon DEF IInv, QueueInv
  <2>5. WorkInv'
    BY <2>3, ZenonT(30), Zenon DEF IInv, WorkInv
  <2> QED
    BY <2>2, <2>4, <2>5, Zenon DEF IInv
<1> QED
  BY <1>1, <1>2, ScheduleReplyStep, ScheduleCommandStep, ThreadStep, Zenon DEF Next

\* The invariant holds always.
LEMMA Invariance == Spec => []IInv
  BY InitIInv, Inductive, PTL DEF Spec

-----------------------------------------------------------------------------
(* What the pool promises. *)

\* Replies to one transaction are never handled by two threads at once.
THEOREM ExclusiveTheorem == Spec => [](TypeOK /\ ReplyExclusive)
<1>1. IInv => TypeOK /\ ReplyExclusive
  BY Zenon DEF IInv, WorkInv, ReplyExclusive, Busy, BusyWith
<1> QED
  BY <1>1, Invariance, PTL

\* Membership in the set of replies being handled.
LEMMA WorkingMember ==
    ASSUME NEW w
    PROVE  w \in Working <=> \E t \in Threads : cur[t].reply /\ w = [tid |-> cur[t].id, n |-> cur[t].n]
  BY Zenon DEF Working

\* Taking a reply starts the next reply of its transaction; taking a command
\* is invisible.
LEMMA TakeMaps ==
    ASSUME IInv, NEW claims, NEW t \in Threads,
           claims[t] = NoTid, \A u \in Threads : u # t => claims[u] = trans[u],
           pc[t] \in {"loop", "wait", "woken"},
           NEW i \in Chosen(claims, t), Take(claims, t, i),
           UNCHANGED <<received, finished>>
    PROVE  \/ \E tid \in Tids : Order!Start(tid)
           \/ Working' = Working
<1> PICK r : r = list[i]
  BY Zenon
<1>1. /\ r \in Requests /\ phase # "freed" /\ ~cur[t].reply /\ i \in 1..Len(list)
      /\ cur \in [Threads -> Requests \cup {NoRequest}]
  BY SMTT(30) DEF IInv, TypeOK, Chosen, PhaseInv, ClaimInv
<1>2. cur'[t] = r /\ \A u \in Threads : u # t => cur'[u] = cur[u]
  BY <1>1, Zenon DEF Take
<1>3. CASE ~r.reply
  <2>1. \A w : w \in Working' <=> w \in Working
    BY <1>1, <1>2, <1>3, Zenon DEF Working
  <2> QED
    BY <2>1, ZenonT(30), Zenon
<1>4. CASE r.reply
  <2>1. /\ r.id \in Tids /\ \A u \in Threads : ~BusyWith(u, r.id)
        /\ r.n = finished[r.id] + 1
    BY <1>1, <1>4, ChosenIsNext, ZenonT(30)
  <2>2. finished[r.id] < received[r.id]
    <3>1. ReplyAt(i, r.id)
      BY <1>1, <1>4, Zenon DEF ReplyAt
    <3>2. finished[r.id] < list[i].n /\ list[i].n <= received[r.id]
      BY <1>1, <2>1, <3>1, Zenon DEF IInv, QueueInv
    <3>3. finished[r.id] \in Nat /\ received[r.id] \in Nat
      BY <2>1, BoundAssumption, SMTT(30) DEF IInv, TypeOK
    <3> QED
      BY <2>1, <3>2, <3>3, SMTT(30)
  <2>3. \A w \in Working : w.tid # r.id
    BY <2>1, SMTT(30) DEF Working, BusyWith
  <2>4. Working' = Working \cup {[tid |-> r.id, n |-> r.n]}
    <3>1. \A w : w \in Working' <=> w \in Working \/ w = [tid |-> r.id, n |-> r.n]
      BY <1>1, <1>2, <1>4, SMTT(30) DEF Working
    <3> QED
      BY <3>1, Zenon
  <2> QED
    BY <2>1, <2>2, <2>3, <2>4, Zenon DEF Order!Start, Working
<1> QED
  BY <1>3, <1>4, Zenon

\* The pool implements ReplyOrder: for its users, each transaction has a queue
\* of replies that are handled one at a time, once, and in order.
THEOREM OrderTheorem == Spec => ImplementsReplyOrder
<1>1. Init => Order!Init
  BY RequestFacts, SMTT(30) DEF Init, Order!Init, Working
<1>2. IInv /\ [Next]_vars => [Order!Next]_<<received, Working, finished>>
  <2> SUFFICES ASSUME IInv, [Next]_vars
               PROVE  Order!Next \/ UNCHANGED <<received, Working, finished>>
    BY Zenon
  <2>1. ASSUME NEW tid \in Tids, NEW more \in BOOLEAN, ScheduleReply(tid, more)
        PROVE  Order!Next
    BY <2>1, Zenon DEF ScheduleReply, Order!Next, Order!Receive, Working
  <2>2. ASSUME NEW t \in Threads, RoundTakes(t)
        PROVE  Order!Next \/ UNCHANGED <<received, Working, finished>>
    <3> PICK claims : claims = NoClaim(t)
      BY Zenon
    <3>1. claims[t] = NoTid /\ \A u \in Threads : u # t => claims[u] = trans[u]
      BY Zenon DEF NoClaim, IInv, TypeOK
    <3>2. PICK i \in Chosen(claims, t) : Take(claims, t, i)
      BY <2>2, Zenon DEF RoundTakes
    <3> QED
      BY <2>2, <3>1, <3>2, TakeMaps, Zenon DEF RoundTakes, Order!Next
  <2>3. ASSUME NEW t \in Threads, WaitTakes(t)
        PROVE  Order!Next \/ UNCHANGED <<received, Working, finished>>
    <3>1. trans[t] = NoTid
      BY <2>3, Zenon DEF WaitTakes, IInv, ClaimInv
    <3>2. PICK i \in Chosen(trans, t) : Take(trans, t, i)
      BY <2>3, Zenon DEF WaitTakes
    <3> QED
      BY <2>3, <3>1, <3>2, TakeMaps, Zenon DEF WaitTakes, Order!Next
  <2>4. ASSUME NEW t \in Threads, Finish(t)
        PROVE  Order!Next \/ UNCHANGED <<received, Working, finished>>
    <3>1. /\ cur \in [Threads -> Requests \cup {NoRequest}]
          /\ ~cur'[t].reply /\ \A u \in Threads : u # t => cur'[u] = cur[u]
      BY <2>4, RequestFacts, SMTT(30) DEF Finish, IInv, TypeOK
    <3>2. CASE ~cur[t].reply
      <4>1. \A w : w \in Working' <=> w \in Working
        BY <3>1, <3>2, Zenon DEF Working
      <4>2. Working' = Working
        BY <4>1, Zenon
      <4> QED
        BY <2>4, <3>2, <4>2, Zenon DEF Finish
    <3>3. CASE cur[t].reply
      <4> PICK r : r = cur[t]
        BY Zenon
      <4>1. /\ r.reply /\ r.id \in Tids /\ BusyWith(t, r.id)
        BY <3>3, BusyFacts, Zenon DEF IInv
      <4>2. r.n = finished[r.id] + 1 /\ \A u \in Threads : BusyWith(u, r.id) => u = t
        BY <4>1, Zenon DEF IInv, WorkInv
      <4>3. \A w : w \in Working' <=> w \in Working /\ w # [tid |-> r.id, n |-> r.n]
        BY <3>1, <3>3, <4>2, SMTT(30) DEF Working, BusyWith
      <4>4. [tid |-> r.id, n |-> r.n] \in Working
        BY <4>1, WorkingMember, Zenon
      <4>5. Working' = Working \ {[tid |-> r.id, n |-> r.n]}
        BY <4>3, Zenon
      <4>6. finished' = [finished EXCEPT ![r.id] = @ + 1] /\ received' = received
        BY <2>4, <3>3, <4>2, Zenon DEF Finish
      <4> QED
        BY <4>1, <4>2, <4>4, <4>5, <4>6, Zenon DEF Order!Next, Order!Finish, Working
    <3> QED
      BY <3>2, <3>3, Zenon
  <2>5. ASSUME UNCHANGED <<received, cur, finished>>
        PROVE  UNCHANGED <<received, Working, finished>>
    BY <2>5, Zenon DEF Working
  <2> QED
    BY <2>1, <2>2, <2>3, <2>4, <2>5, Zenon
    DEF Next, ThreadNext, ScheduleCommand, RoundWaits, WaitFails, ThreadExit, NeedExit,
        NetworkExit, Cleanup, vars
<1> QED
  BY <1>1, <1>2, Invariance, PTL DEF Spec, ImplementsReplyOrder, Order!Spec

=============================================================================
