------------------------------ MODULE Request ------------------------------
(***************************************************************************)
(* A request of the C++ client: the callback objects of                    *)
(* bindings/cpp/callback_p.h.  default_callback counts the transactions of *)
(* a request; multigroup_callback asks the groups one after another until  *)
(* one gives the answer (lookup, read) or all of it (bulk read).  start()  *)
(* runs in the thread of the user, handle() in the IO thread of each       *)
(* transaction; whichever of them sees the last transaction end must       *)
(* finish() the request and delete the object.                             *)
(*                                                                         *)
(* A transaction is <<g, k>>, the k-th one sent to group g; its last reply *)
(* and its destroying callback come in that order (Trans.tla).  A thread   *)
(* is the starter or the transaction whose callback it runs. Only m_mutex  *)
(* of multigroup_callback is held over several steps; what is done under   *)
(* the mutex of default_callback is one step.                              *)
(***************************************************************************)
EXTENDS Integers, Sequences, FiniteSets

CONSTANTS
    GroupSeq,   \* the groups of the request, in the order they are asked
    Ids,        \* the ids of a bulk read, 1..n in the order of io_attr_set
    Unlimited   \* static_cast<size_t>(-1)

GroupSet == {GroupSeq[i] : i \in DOMAIN GroupSeq}
Trans == GroupSet \X Ids
Starter == <<"starter", 0>>    \* the thread that called start()
Free == <<"free", 0>>
Runners == {Starter} \cup Trans
Status == {0, -2, -5}          \* success, -ENOENT, another error

Multi == {"lookup", "read", "bulk"}
Kinds == Multi \cup {"write", "remove", "stat", "exec", "single", "iterator", "cmd"}

VARIABLES
    kind,         \* the callback class
    throws,       \* the session's policy has throw_at_start
    pc,           \* pc[t]: where thread t is
    m_count, m_complete, m_statuses,
    m_group_index, m_has_finished,
    m_mutex,      \* who holds the mutex of multigroup_callback
    pend,         \* transactions next_group() or start() has still to create
    num,          \* how many it creates
    hole,         \* next_group() of a bulk read met an id without a state
    tr,           \* tr[x]: how far transaction x is
    asked,        \* asked[x]: the ids transaction x carries
    ios_set,      \* ids of the bulk read that are not there yet
    got,          \* got[i]: how many results the user got for id i
    failed_groups, read_result, written,
    error, finishes, thrown, deleted,
    late          \* what was done to the object after it was deleted

cbVars == <<m_count, m_complete, m_statuses>>
groupVars == <<m_group_index, m_has_finished, m_mutex>>
sendVars == <<pend, num, hole, asked>>
dataVars == <<ios_set, got, failed_groups, read_result, written>>
endVars == <<error, finishes, thrown, deleted>>
vars == <<kind, throws, pc, cbVars, groupVars, sendVars, tr, dataVars, endVars, late>>

-----------------------------------------------------------------------------
Init ==
    /\ kind \in Kinds /\ throws \in BOOLEAN
    /\ pc = [t \in Runners |-> IF t = Starter THEN "new" ELSE "idle"]
    /\ m_count = 1 /\ m_complete = 0 /\ m_statuses = {}
    /\ m_group_index = 0 /\ m_has_finished = FALSE /\ m_mutex = Free
    /\ pend = {} /\ num = 0 /\ hole = FALSE
    /\ tr = [x \in Trans |-> "idle"] /\ asked = [x \in Trans |-> {}]
    /\ ios_set = Ids /\ got = [i \in Ids |-> 0]
    /\ failed_groups = {} /\ read_result = "none" /\ written = {}
    /\ error = 0 /\ finishes = 0 /\ thrown = FALSE /\ deleted = FALSE /\ late = {}

Touch(how) == late' = IF deleted THEN late \cup {how} ELSE late
At(t, where) == pc' = [pc EXCEPT ![t] = where]

-----------------------------------------------------------------------------
(* The kinds that send to all their targets at once: set_count(unlimited), *)
(* so that handle() never ends the request while start() is sending.       *)

\* Faulty form: the count is set at once.
StartOnCounted(k, targets) ==
    /\ pc[Starter] = "new" /\ kind = k
    /\ m_count' = Cardinality(targets)
    /\ pend' = targets \X {1} /\ num' = Cardinality(targets)
    /\ At(Starter, "sending")
    /\ UNCHANGED <<kind, throws, m_complete, m_statuses, groupVars, hole, asked, tr, dataVars,
                   endVars, late>>

StartOn(k, targets) ==
    /\ pc[Starter] = "new" /\ kind = k
    /\ m_count' = Unlimited
    /\ pend' = targets \X {1} /\ num' = Cardinality(targets)
    /\ At(Starter, "sending")
    /\ UNCHANGED <<kind, throws, m_complete, m_statuses, groupVars, hole, asked, tr, dataVars,
                   endVars, late>>

StartWrite    == StartOn("write", GroupSet)
StartRemove   == StartOn("remove", GroupSet)
StartStat     == \E ts \in SUBSET GroupSet : StartOn("stat", ts)
StartCmd      == \E ts \in SUBSET GroupSet : StartOn("cmd", ts)
StartSingle   == \E g \in GroupSet : StartOn("single", {g})
StartIterator == StartOn("iterator", {GroupSeq[1]})

\* dnet_send_cmd() without a single state is an error and start() is over.
StartExec ==
    \/ \E ts \in SUBSET GroupSet : ts # {} /\ StartOn("exec", ts)
    \/ /\ pc[Starter] = "new" /\ kind = "exec"
       /\ m_count' = Unlimited
       /\ error' = -6
       /\ At(Starter, "finish")
       /\ UNCHANGED <<kind, throws, m_complete, m_statuses, groupVars, sendVars, tr, dataVars,
                      finishes, thrown, deleted, late>>

StartMulti ==
    /\ pc[Starter] = "new" /\ kind \in Multi
    /\ At(Starter, "iter")
    /\ UNCHANGED <<kind, throws, cbVars, groupVars, sendVars, tr, dataVars, endVars, late>>

-----------------------------------------------------------------------------
(* iterate_groups(), under m_mutex.                                        *)

Lock(t) ==
    /\ pc[t] = "iter" /\ m_mutex = Free
    /\ m_mutex' = t
    /\ Touch("lock")
    /\ At(t, "loop")
    /\ UNCHANGED <<kind, throws, cbVars, m_group_index, m_has_finished, sendVars, tr, dataVars, endVars>>

\* read_callback and lookup_callback ask the group with one transaction.
OneRequest(g) ==
    /\ pend' = {<<g, 1>>} /\ num' = 1
    /\ UNCHANGED <<hole, asked>>

\* read_bulk_callback::next_group(): the ids still missing go, in order, in one
\* transaction for each run of ids of one state.  route[i] is the state of id i,
\* 0 when there is none; at the first such id nothing more is sent, the run
\* before it included.
BulkRequest(g, route) ==
    LET Next1(i) == {j \in ios_set : j > i /\ \A k \in ios_set : k > i => k >= j}
        First    == CHOOSE i \in ios_set : \A j \in ios_set : i <= j
        Holes    == {i \in ios_set : route[i] = 0}
        Last     == {i \in ios_set : Next1(i) = {} \/ \E j \in Next1(i) : route[j] # route[i]}
        Sent     == {i \in Last : /\ \A j \in Holes : j > i
                                  /\ \A j \in Next1(i) : route[j] # 0}
        Run(i)   == {j \in ios_set : j <= i /\ \A k \in Sent : k < i => k < j}
    IN  /\ pend' = IF route[First] = 0 THEN {} ELSE {g} \X Sent
        /\ num' = Cardinality(pend')
        /\ hole' = (Holes # {})
        /\ asked' = [x \in Trans |-> IF x \in pend' THEN Run(x[2]) ELSE asked[x]]

\* The next group: cb.clear(), set_count(unlimited), and the requests to it.
NextGroup(t) ==
    /\ pc[t] = "loop" /\ m_group_index < Len(GroupSeq)
    /\ m_group_index' = m_group_index + 1
    /\ m_complete' = 0 /\ m_statuses' = {} /\ m_count' = Unlimited
    /\ LET g == GroupSeq[m_group_index + 1]
       IN  \/ kind # "bulk" /\ OneRequest(g)
           \/ kind = "bulk" /\ \E route \in [Ids -> 0..2] : BulkRequest(g, route)
    /\ Touch("loop")
    /\ At(t, "sending")
    /\ UNCHANGED <<kind, throws, m_has_finished, m_mutex, tr, dataVars, endVars>>

\* No group is left: an error only if not one of them answered.
NoMoreGroups(t) ==
    /\ pc[t] = "loop" /\ m_group_index = Len(GroupSeq)
    /\ error' = IF m_has_finished THEN error ELSE -6
    /\ Touch("loop")
    /\ At(t, "leaveTrue")
    /\ UNCHANGED <<kind, throws, cbVars, groupVars, sendVars, tr, dataVars, finishes, thrown, deleted>>

-----------------------------------------------------------------------------
(* Creating the transactions.                                              *)

SendOk(t, x) ==
    /\ pc[t] = "sending" /\ x \in pend
    /\ pend' = pend \ {x}
    /\ tr' = [tr EXCEPT ![x] = "sent"]
    /\ UNCHANGED <<kind, throws, pc, cbVars, groupVars, num, hole, asked, dataVars, endVars, late>>

\* The transaction is destroyed in this thread: handle() counts it and, with
\* an unlimited count, returns false.  read and lookup go on to the next group,
\* single_cmd and iterator end with the error, the others ignore it.
SendFails(t, x) ==
    /\ pc[t] = "sending" /\ x \in pend
    /\ pend' = pend \ {x}
    /\ tr' = [tr EXCEPT ![x] = "done"]
    /\ m_complete' = m_complete + 1
    /\ IF kind \in {"single", "iterator"}
       THEN error' = -6 /\ At(t, "finish")
       ELSE error' = error /\ IF kind \in {"lookup", "read"} THEN At(t, "loop") ELSE pc' = pc
    /\ UNCHANGED <<kind, throws, m_count, m_statuses, groupVars, num, hole, asked, dataVars,
                   finishes, thrown, deleted, late>>

-----------------------------------------------------------------------------
(* The answer.                                                             *)

\* read_callback remembers the groups that do not have the object.
NoteFailed(statuses) ==
    failed_groups' = IF kind = "read" /\ statuses # {} /\ statuses \subseteq {-2}
                     THEN failed_groups \cup {GroupSeq[m_group_index]} ELSE failed_groups

check_answer(statuses, ios) ==
    IF kind = "bulk" THEN ios = {} \/ m_group_index = Len(GroupSeq) ELSE 0 \in statuses

\* All transactions to a group are over: seen by the thread that sent them, in
\* set_count(), or by the one whose callback is the last, in handle().
GroupOver(t, yes, no) ==
    /\ m_has_finished' = (m_has_finished \/ m_statuses # {})
    /\ NoteFailed(m_statuses)
    /\ At(t, IF check_answer(m_statuses, ios_set) THEN yes ELSE no)

SetCount(t) ==
    /\ pc[t] = "sending" /\ pend = {}
    /\ kind = "cmd" => \A x \in Trans : tr[x] \in {"idle", "done"}
    /\ m_count' = num
    /\ Touch("count")
    /\ IF kind \in Multi
       THEN \/ /\ num = m_complete /\ ~hole
               /\ GroupOver(t, "leaveTrue", "loop")
            \/ /\ num = m_complete /\ hole          \* *error is set: try the next group
               /\ At(t, "loop") /\ UNCHANGED <<m_has_finished, failed_groups>>
            \/ /\ num # m_complete
               /\ At(t, "leaveFalse") /\ UNCHANGED <<m_has_finished, failed_groups>>
       ELSE /\ At(t, IF num = m_complete THEN "finish" ELSE "idle")
            /\ UNCHANGED <<m_has_finished, failed_groups>>
    /\ UNCHANGED <<kind, throws, m_complete, m_statuses, m_group_index, m_mutex, sendVars, tr,
                   ios_set, got, read_result, written, endVars>>

\* dnet_request_cmd() sleeps until its transactions are over or the time is.
CmdTimeout ==
    /\ kind = "cmd" /\ pc[Starter] = "sending" /\ pend = {}
    /\ error' = -110
    /\ At(Starter, "finish")
    /\ UNCHANGED <<kind, throws, cbVars, groupVars, sendVars, tr, dataVars, finishes, thrown, deleted, late>>

\* The lock_guard of iterate_groups() goes out of scope.
Leave(t) ==
    /\ pc[t] \in {"leaveTrue", "leaveFalse"}
    /\ m_mutex' = Free
    /\ Touch("unlock")
    /\ At(t, IF pc[t] = "leaveTrue" THEN "finish" ELSE "idle")
    /\ UNCHANGED <<kind, throws, cbVars, m_group_index, m_has_finished, sendVars, tr, dataVars, endVars>>

\* finish(): a successful read is written back to the groups without the
\* object; then the result is completed and the object deleted.  With
\* throw_at_start an error met by start() is thrown instead.
Finish(t) ==
    /\ pc[t] = "finish"
    /\ deleted' = TRUE
    /\ IF t = Starter /\ throws /\ error # 0
       THEN thrown' = TRUE /\ UNCHANGED <<finishes, written>>
       ELSE /\ finishes' = finishes + 1
            /\ written' = IF error = 0 /\ read_result # "none" THEN failed_groups ELSE {}
            /\ UNCHANGED thrown
    /\ Touch("finish")
    /\ At(t, "idle")
    /\ UNCHANGED <<kind, throws, cbVars, groupVars, sendVars, tr, ios_set, got, failed_groups,
                   read_result, error>>

-----------------------------------------------------------------------------
(* The callbacks of the transactions.                                      *)

\* A bulk read gets one reply per id before the last one.
Data(x, i) ==
    /\ kind = "bulk" /\ tr[x] = "sent" /\ i \in asked[x] /\ i \in ios_set
    /\ ios_set' = ios_set \ {i}
    /\ got' = [got EXCEPT ![i] = @ + 1]
    /\ Touch("handle")
    /\ UNCHANGED <<kind, throws, pc, cbVars, groupVars, sendVars, tr, failed_groups, read_result,
                   written, endVars>>

Reply(x, st) ==
    /\ tr[x] = "sent"
    /\ tr' = [tr EXCEPT ![x] = "replied"]
    /\ m_statuses' = m_statuses \cup {st}
    /\ read_result' = IF kind = "read" /\ st = 0 THEN x[1] ELSE read_result
    /\ Touch("handle")
    /\ UNCHANGED <<kind, throws, pc, m_count, m_complete, groupVars, sendVars, ios_set, got,
                   failed_groups, written, endVars>>

\* is_trans_destroyed(): the transaction is counted; the last one ends the
\* group, and with it the request or the turn of this group.
Destroy(x) ==
    /\ tr[x] = "replied"
    /\ tr' = [tr EXCEPT ![x] = "done"]
    /\ m_complete' = m_complete + 1
    /\ Touch("handle")
    /\ IF m_count = m_complete + 1
       THEN IF kind \in Multi
            THEN GroupOver(x, "finish", "iter")
            ELSE At(x, "finish") /\ UNCHANGED <<m_has_finished, failed_groups>>
       ELSE UNCHANGED <<pc, m_has_finished, failed_groups>>
    /\ UNCHANGED <<kind, throws, m_count, m_statuses, m_group_index, m_mutex, sendVars, ios_set,
                   got, read_result, written, endVars>>

-----------------------------------------------------------------------------
Start == StartWrite \/ StartRemove \/ StartStat \/ StartCmd \/ StartSingle \/ StartIterator
         \/ StartExec \/ StartMulti

Thread(t) ==
    \/ Lock(t) \/ NextGroup(t) \/ NoMoreGroups(t) \/ SetCount(t) \/ Leave(t) \/ Finish(t)
    \/ \E x \in Trans : SendOk(t, x) \/ SendFails(t, x)

Callback(x) == Destroy(x) \/ (\E st \in Status : Reply(x, st)) \/ (\E i \in Ids : Data(x, i))

\* The request is over and every transaction with it.
Done == /\ deleted /\ \A t \in Runners : pc[t] = "idle"
        /\ \A x \in Trans : tr[x] \in {"idle", "done"}
        /\ UNCHANGED vars

Next == Start \/ CmdTimeout \/ Done \/ (\E t \in Runners : Thread(t)) \/ (\E x \in Trans : Callback(x))

Spec == Init /\ [][Next]_vars

\* Threads run and every transaction ends (Trans.tla); no timeout is needed.
FairSpec == /\ Spec /\ WF_vars(Start)
            /\ \A t \in Runners : WF_vars(Thread(t))
            /\ \A x \in Trans : WF_vars(Callback(x))

-----------------------------------------------------------------------------
TypeOK ==
    /\ pc \in [Runners -> {"new", "idle", "iter", "loop", "sending", "leaveTrue", "leaveFalse", "finish"}]
    /\ m_complete \in 0..Cardinality(Trans) /\ m_group_index \in 0..Len(GroupSeq)
    /\ m_mutex \in Runners \cup {Free}
    /\ tr \in [Trans -> {"idle", "sent", "replied", "done"}]
    /\ pend \subseteq Trans /\ ios_set \subseteq Ids /\ failed_groups \subseteq GroupSet

\* "finished is called, which is guaranteed to be called once": the starter and
\* the IO threads never both finish a request, and never with a transaction of
\* it still running.  (dnet_request_cmd() may time out before its transactions.)
FinishOnce ==
    /\ finishes + (IF thrown THEN 1 ELSE 0) <= 1
    /\ (deleted /\ kind # "cmd") => \A x \in Trans : tr[x] \in {"idle", "done"}

\* No thread uses the object after it was deleted, with one exception: the
\* thread that sent the request may still have to unlock m_mutex.
OnlyUnlockLate == kind # "cmd" => late \subseteq {"unlock"}

\* GroupSet are asked in turn: while one of them is being asked no other
\* transaction runs, and only one thread is past the mutex.
InTurn ==
    kind \in Multi =>
        /\ Cardinality({x[1] : x \in {y \in Trans : tr[y] \in {"sent", "replied"}}}) <= 1
        /\ Cardinality({t \in Runners : pc[t] \in {"loop", "sending", "leaveTrue", "leaveFalse"}}) <= 1

\* Read recovery writes only to groups that answered -ENOENT, never to the one
\* the data came from.
ReadRecovery ==
    written # {} => /\ kind = "read" /\ read_result \notin written
                    /\ \A g \in written : tr[<<g, 1>>] = "done"
                    /\ GroupSeq[m_group_index] = read_result

\* A lookup or read ends without an error exactly when a group answered, and
\* goes past a group only if that group did not give the answer.
MultiOutcome ==
    (deleted /\ kind \in {"lookup", "read"}) =>
        /\ error = 0 <=> m_has_finished
        /\ m_group_index < Len(GroupSeq) => 0 \in m_statuses

\* A bulk read gives each id once at most, and an id it does not give was asked
\* of the last group, if that group had a state for every id.
BulkOutcome ==
    (kind = "bulk" /\ deleted) =>
        /\ \A i \in Ids : got[i] <= 1
        /\ ~hole => \A i \in ios_set : \E k \in Ids : i \in asked[<<GroupSeq[Len(GroupSeq)], k>>]

\* Every request ends: finished or thrown, whatever groups fail.
RequestEnds == <>deleted

=============================================================================
