----------------------------- MODULE ClientWait -----------------------------
(***************************************************************************)
(* The calls of the C client library that send transactions and sleep      *)
(* until they are over: dnet_write_file_id, dnet_read_file_id,             *)
(* dnet_request_stat and dnet_remove_object without a callback,            *)
(* dnet_request_cmd, dnet_update_status and dnet_remove_file               *)
(* (library/dnet_common.c).  The sleeping thread and the completion        *)
(* callbacks, which run on the IO threads, share a struct dnet_wait: a     *)
(* reference counter, a condition value `cond' and a status.  The caller   *)
(* may leave on a timeout while callbacks are still to run.                *)
(*                                                                         *)
(* One call is modelled at a time.  A transaction is named by the group    *)
(* or state it goes to and ends as Trans.tla shows: one last reply (the    *)
(* answer, or -ETIMEDOUT from the checker), then the destroying callback.  *)
(* Each step of a callback between two accesses to the shared memory is    *)
(* an action.  bad records an access to memory already freed, crashed the  *)
(* use of a NULL command.                                                  *)
(***************************************************************************)
EXTENDS Integers, FiniteSets

CONSTANTS
    Groups,    \* the groups of the session, or the connected states
    INT_MAX,   \* the references dnet_write_file_id_raw holds while sending
    HOLD,      \* the references dnet_remove_file_raw holds while sending (1024)
    Garbage    \* values malloc() may leave in priv->refcnt

\* The callbacks may run while the transactions are sent, so the references held
\* meanwhile are more than the groups.
ASSUME GroupsAssumption == IsFiniteSet(Groups)
ASSUME GarbageAssumption == Garbage \subseteq Int
ASSUME HeldAssumption ==
    /\ INT_MAX \in Nat /\ INT_MAX > Cardinality(Groups)
    /\ HOLD \in Nat /\ HOLD > Cardinality(Groups)

ENXIO     == -6
ENOENT    == -2
EIO       == -5
ETIMEDOUT == -110

\* ~0, the value of cond that dnet_read_file_raw_exec() waits to see changed.
WaitInit == -1

NoReply == 1

Ops == {"write", "read", "stat", "request_cmd", "update_status", "remove", "remove_file"}

VARIABLES
    op,       \* the call that is running
    cpc,       \* where its caller is
    targets,  \* the transactions it sends
    w,        \* the struct dnet_wait
    p,        \* wc, or the priv structure of request_cmd and update_status
    tr,       \* tr[g]: how far the transaction to g is
    reply,    \* reply[g]: the status its last reply carried
    ccur,      \* the group dnet_read_file_raw() is trying
    werr,     \* the error of dnet_wait_event()
    ret,      \* what the call returns
    bad,      \* freed memory was used
    crashed   \* a NULL command was used

clientVars == <<op, cpc, targets, w, p, tr, reply, ccur, werr, ret, bad, crashed>>

-----------------------------------------------------------------------------
(* The shared memory.  dnet_wait_alloc() gives the caller one reference.   *)

dnet_wait_alloc(cond, refcnt, status) ==
    [refcnt |-> refcnt, cond |-> cond, status |-> status, freed |-> FALSE]

\* dnet_wait_put(): the last reference frees the structure.
dnet_wait_put(x) ==
    [x EXCEPT !.refcnt = @ - 1, !.freed = @ \/ x.refcnt = 1]

\* Faulty form: the waiter is not told.
WakeNobody(x) == x

\* dnet_wakeup(w, cond++) and dnet_wakeup(w, cond = v).
WakeCount(x) == [x EXCEPT !.cond = @ + 1]
WakeWith(x, v) == [x EXCEPT !.cond = v]

NoPriv == [refcnt |-> 0, freed |-> FALSE]

\* wc lives exactly as long as the wait structure (dnet_write_complete_free).
PrivOf(x) == IF op = "write" THEN [p EXCEPT !.freed = x.freed] ELSE p

UsesW == bad' = (bad \/ w.freed)
UsesP == bad' = (bad \/ p.freed)
UsesBoth == bad' = (bad \/ w.freed \/ p.freed)

-----------------------------------------------------------------------------
ClientInit ==
    /\ op = "none" /\ cpc = "idle" /\ targets = {} /\ ccur = "none"
    /\ w = dnet_wait_alloc(0, 0, 0) /\ p = NoPriv
    /\ tr = [g \in Groups |-> "idle"] /\ reply = [g \in Groups |-> NoReply]
    /\ werr = 0 /\ ret = 0 /\ bad = FALSE /\ crashed = FALSE

Begin(o, ts, x, q, at) ==
    /\ cpc = "idle"
    /\ op' = o /\ targets' = ts /\ w' = x /\ p' = q /\ cpc' = at
    /\ tr' = [g \in Groups |-> "idle"] /\ reply' = [g \in Groups |-> NoReply]
    /\ ccur' = "none" /\ werr' = 0
    /\ UNCHANGED <<bad, crashed>>

\* The local file is opened and INT_MAX references are taken: the callbacks
\* that run while the transactions are sent never drop the last one.  Without
\* the file, or with nothing to send from local_offset on, nothing is sent.
CallWrite ==
    \/ /\ Begin("write", Groups, dnet_wait_alloc(0, INT_MAX, ENXIO), NoPriv, "send")
       /\ ret' = 0
    \/ /\ Begin("write", {}, dnet_wait_alloc(0, 1, 0), NoPriv, "put")
       /\ ret' \in {ENOENT, 0}

\* One dnet_wait serves the reads from all groups of dnet_mix_states().
CallRead ==
    /\ Begin("read", Groups, dnet_wait_alloc(WaitInit, 1, 0), NoPriv, "next")
    /\ ret' = ENXIO

\* With an id one transaction is sent, without it one to every state.
CallStat ==
    \E ts \in SUBSET Groups :
        Begin("stat", ts, dnet_wait_alloc(0, 1, 0), NoPriv, "send") /\ ret' = 0

CallRequestCmd ==
    \E ts \in SUBSET Groups :
        Begin("request_cmd", ts, dnet_wait_alloc(0, 1, 0), NoPriv, "send") /\ ret' = 0

\* priv->refcnt is never initialised.
CallUpdateStatus ==
    \E g \in Groups, n \in Garbage :
        /\ Begin("update_status", {g}, dnet_wait_alloc(0, 2, 0),
                 [NoPriv EXCEPT !.refcnt = n], "send")
        /\ ret' = 0

\* One reference is taken, whatever the number of transactions.
CallRemove ==
    Begin("remove", Groups, dnet_wait_alloc(0, 2, 0), NoPriv, "send") /\ ret' = 0

CallRemoveFile ==
    Begin("remove_file", Groups, dnet_wait_alloc(0, 1 + HOLD, 0), NoPriv, "send") /\ ret' = 0

-----------------------------------------------------------------------------
(* Sending.  A transaction that cannot be sent is destroyed by the sender, *)
(* which runs the callback; without a transaction or a state the callback  *)
(* gets a NULL command.                                                    *)

\* The reference each transaction takes for itself.
Got(x) == IF op \in {"stat", "request_cmd"} THEN [x EXCEPT !.refcnt = @ + 1] ELSE x

Send(g) ==
    /\ cpc = "send" /\ g \in targets /\ tr[g] = "idle"
    /\ tr' = [tr EXCEPT ![g] = "sent"]
    /\ w' = Got(w)
    /\ UNCHANGED <<op, cpc, targets, p, reply, ccur, werr, ret, bad, crashed>>

SendFails(g, null) ==
    /\ cpc = "send" /\ g \in targets /\ tr[g] = "idle"
    /\ null => op \in {"stat", "update_status"}
    /\ tr' = [tr EXCEPT ![g] = "done"]
    /\ w' = dnet_wait_put(WakeCount(Got(w)))
    /\ IF op = "update_status"
       THEN /\ p' = [refcnt |-> p.refcnt - 1, freed |-> p.refcnt = 1]
            /\ crashed' = (null /\ p.refcnt # 1)
       ELSE p' = p /\ UNCHANGED crashed
    /\ UsesW
    /\ UNCHANGED <<op, cpc, targets, reply, ccur, werr, ret>>

\* The references held in advance, without one for each transaction and one for
\* the caller.
Surplus ==
    CASE op = "write"       -> INT_MAX - Cardinality(targets) - 1
      [] op = "remove_file" -> HOLD - Cardinality(targets)
      [] OTHER              -> 0

\* All are sent.
Sent ==
    /\ cpc = "send" /\ ~crashed /\ \A g \in targets : tr[g] # "idle"
    /\ w' = [w EXCEPT !.refcnt = @ - Surplus]
    /\ UsesW
    /\ cpc' = "wait"
    /\ UNCHANGED <<op, targets, p, tr, reply, ccur, werr, ret, crashed>>

-----------------------------------------------------------------------------
(* The completion callbacks: the last reply, then the destruction.         *)

Status == {0, ENOENT, ETIMEDOUT}

\* dnet_write_complete(): the status is overwritten only while it is an error.
WriteComplete(st) == w' = [w EXCEPT !.status = IF @ < 0 THEN st ELSE @] /\ UsesBoth

\* dnet_remove_complete(): the last error stays.
RemoveComplete(st) == w' = [w EXCEPT !.status = IF st # 0 THEN st ELSE @] /\ bad' = (bad \/ (st # 0 /\ w.freed))

\* dnet_read_file_complete() on the acknowledgement or an error.
ReadComplete(st) == w' = WakeWith(w, IF st # 0 THEN st ELSE 1) /\ UsesW

\* dnet_stat_complete() only logs; dnet_request_cmd_complete() calls p->complete.
StatComplete == UNCHANGED <<w, bad>>
RequestCmdComplete == w' = w /\ UsesP
UpdateStatusComplete == w' = w /\ UsesP

LastReply(g, st) ==
    /\ tr[g] = "sent" /\ op # "none"
    /\ CASE op = "write"                      -> WriteComplete(st)
         [] op \in {"remove", "remove_file"}  -> RemoveComplete(st)
         [] op = "read"                       -> ReadComplete(st)
         [] op = "stat"                       -> StatComplete
         [] op = "request_cmd"                -> RequestCmdComplete
         [] op = "update_status"              -> UpdateStatusComplete
    /\ tr' = [tr EXCEPT ![g] = "answered"]
    /\ reply' = [reply EXCEPT ![g] = st]
    /\ UNCHANGED <<op, cpc, targets, p, ccur, werr, ret, crashed>>

\* A read gets the data before its acknowledgement; the local file cannot be
\* written, and the waiter is told so at once.
ReadData(g) ==
    /\ op = "read" /\ tr[g] = "sent"
    /\ w' = WakeWith(w, EIO) /\ UsesW
    /\ UNCHANGED <<op, cpc, targets, p, tr, reply, ccur, werr, ret, crashed>>

\* is_trans_destroyed(): wake the caller up.
DestroyWake(g) ==
    /\ tr[g] = "answered"
    /\ w' = IF op = "read" THEN WakeWith(w, IF reply[g] # 0 THEN reply[g] ELSE 1) ELSE WakeCount(w)
    /\ IF op \in {"write", "request_cmd", "update_status"} THEN UsesBoth ELSE UsesW
    /\ tr' = [tr EXCEPT ![g] = "waking"]
    /\ UNCHANGED <<op, cpc, targets, p, reply, ccur, werr, ret, crashed>>

\* Faulty form: the reference about to be put is counted as gone.
FreesPrivEarly == w.refcnt <= 2

\* The holder of the last reference frees request_cmd's p with it.
FreesPriv == w.refcnt = 1

\* dnet_request_cmd_complete() looks at the counter before its own put.
DestroyLook(g) ==
    /\ op = "request_cmd" /\ tr[g] = "waking"
    /\ p' = [p EXCEPT !.freed = @ \/ FreesPriv]
    /\ bad' = (bad \/ w.freed \/ (p.freed /\ FreesPriv))
    /\ tr' = [tr EXCEPT ![g] = "putting"]
    /\ UNCHANGED <<op, cpc, targets, w, reply, ccur, werr, ret, crashed>>

DestroyPut(g) ==
    /\ tr[g] = IF op = "request_cmd" THEN "putting" ELSE "waking"
    /\ LET x == dnet_wait_put(w) IN w' = x /\ p' = PrivOf(x)
    /\ UsesW
    /\ tr' = [tr EXCEPT ![g] = IF op = "update_status" THEN "priv" ELSE "done"]
    /\ UNCHANGED <<op, cpc, targets, reply, ccur, werr, ret, crashed>>

\* dnet_update_status_complete() drops priv, or reads the command's size.
DestroyPriv(g) ==
    /\ tr[g] = "priv"
    /\ p' = [refcnt |-> p.refcnt - 1, freed |-> p.freed \/ p.refcnt = 1]
    /\ UsesP
    /\ tr' = [tr EXCEPT ![g] = "done"]
    /\ UNCHANGED <<op, cpc, targets, w, reply, ccur, werr, ret, crashed>>

-----------------------------------------------------------------------------
(* The caller: dnet_wait_event(), then the result, then its reference.     *)

Woken ==
    CASE op = "remove" -> w.cond # Cardinality(targets)
      [] op = "read"   -> w.cond # WaitInit
      [] OTHER         -> w.cond = Cardinality(targets)

Wait(err) ==
    /\ cpc = "wait" /\ (err = 0 => Woken)
    /\ werr' = err
    /\ UsesW
    /\ cpc' = "result"
    /\ UNCHANGED <<op, targets, w, p, tr, reply, ccur, ret, crashed>>

\* w->status and w->cond are read after wait_lock was released.
ResultOf ==
    IF werr # 0 THEN werr
    ELSE CASE op = "write" /\ w.status # 0           -> w.status
           [] op \in {"remove", "remove_file"} /\ w.status < 0 -> w.status
           [] op \in {"stat", "request_cmd"}         -> Cardinality(targets)
           [] op = "read" /\ w.cond < 0              -> w.cond
           [] OTHER                                  -> 0

Result ==
    /\ cpc = "result"
    /\ ret' = ResultOf
    /\ UsesW
    /\ cpc' = CASE op = "read" /\ ResultOf # 0 -> "next"
               [] op = "request_cmd"          -> "look"
               [] OTHER                       -> "put"
    /\ UNCHANGED <<op, targets, w, p, tr, reply, ccur, werr, crashed>>

\* dnet_read_file_raw(): the next group, with the same wait structure.
ReadNext(g) ==
    /\ cpc = "next" /\ tr[g] = "idle"
    /\ ccur' = g
    /\ \/ /\ tr' = [tr EXCEPT ![g] = "sent"]
          /\ w' = [w EXCEPT !.refcnt = @ + 1, !.cond = WaitInit]
          /\ cpc' = "wait" /\ ret' = ret
       \/ /\ tr' = [tr EXCEPT ![g] = "done"]
          /\ w' = WakeWith(w, 1)
          /\ cpc' = "next" /\ ret' = ENXIO
    /\ UsesW
    /\ UNCHANGED <<op, targets, p, reply, werr, crashed>>

ReadGivesUp ==
    /\ cpc = "next" /\ \A g \in targets : tr[g] # "idle"
    /\ cpc' = "put"
    /\ UNCHANGED <<op, targets, w, p, tr, reply, ccur, werr, ret, bad, crashed>>

CallerLook ==
    /\ cpc = "look"
    /\ p' = [p EXCEPT !.freed = @ \/ FreesPriv]
    /\ bad' = (bad \/ w.freed \/ (p.freed /\ FreesPriv))
    /\ cpc' = "put"
    /\ UNCHANGED <<op, targets, w, tr, reply, ccur, werr, ret, crashed>>

CallerPut ==
    /\ cpc = "put"
    /\ LET x == dnet_wait_put(w) IN w' = x /\ p' = PrivOf(x)
    /\ UsesW
    /\ cpc' = IF op = "update_status" THEN "priv" ELSE "returned"
    /\ UNCHANGED <<op, targets, tr, reply, ccur, werr, ret, crashed>>

\* dnet_update_status() copies the status out of priv and drops it.
CallerPriv ==
    /\ cpc = "priv"
    /\ p' = [refcnt |-> p.refcnt - 1, freed |-> p.freed \/ p.refcnt = 1]
    /\ UsesP
    /\ cpc' = "returned"
    /\ UNCHANGED <<op, targets, w, tr, reply, ccur, werr, ret, crashed>>

Settled == \A g \in Groups : tr[g] \in {"idle", "done"}

\* The program goes on to its next call; this one's callbacks are over.
Again ==
    /\ cpc = "returned" /\ Settled /\ ~bad
    /\ cpc' = "idle" /\ op' = "none" /\ targets' = {} /\ ccur' = "none"
    /\ w' = dnet_wait_alloc(0, 0, 0) /\ p' = NoPriv
    /\ tr' = [g \in Groups |-> "idle"] /\ reply' = [g \in Groups |-> NoReply]
    /\ werr' = 0 /\ ret' = 0
    /\ UNCHANGED <<bad, crashed>>

-----------------------------------------------------------------------------
Calls == CallWrite \/ CallRead \/ CallStat \/ CallRequestCmd \/ CallUpdateStatus
         \/ CallRemove \/ CallRemoveFile

Callback(g) ==
    \/ \E st \in Status : LastReply(g, st)
    \/ ReadData(g) \/ DestroyWake(g) \/ DestroyLook(g) \/ DestroyPut(g) \/ DestroyPriv(g)

Caller ==
    \/ Sent \/ Wait(0) \/ Result \/ ReadGivesUp \/ CallerLook \/ CallerPut \/ CallerPriv
    \/ \E g \in Groups : Send(g) \/ (\E null \in BOOLEAN : SendFails(g, null)) \/ ReadNext(g)

\* What a process does after it used freed memory is not defined.
Undefined == (bad \/ crashed) /\ UNCHANGED clientVars

ClientNext ==
    \/ Calls \/ Caller \/ Wait(ETIMEDOUT) \/ Again \/ Undefined
    \/ \E g \in Groups : Callback(g)

ClientSpec == ClientInit /\ [][ClientNext]_clientVars

\* The caller runs when it can and the IO threads finish every transaction;
\* the timeout of dnet_wait_event() need not ever fire.
ClientFairSpec == ClientSpec /\ WF_clientVars(Caller) /\ \A g \in Groups : WF_clientVars(Callback(g))

-----------------------------------------------------------------------------
Sound == op \notin {"remove", "update_status"}

ClientTypeOK ==
    /\ op \in Ops \cup {"none"}
    /\ cpc \in {"idle", "send", "next", "wait", "result", "look", "put", "priv", "returned"}
    /\ targets \subseteq Groups
    /\ w \in [refcnt : Int, cond : Int, status : Int, freed : BOOLEAN]
    /\ p \in [refcnt : Int, freed : BOOLEAN]
    /\ tr \in [Groups -> {"idle", "sent", "answered", "waking", "putting", "priv", "done"}]
    /\ reply \in [Groups -> Status \cup {NoReply}]

\* No callback and no caller ever touches a wait or a priv structure that was
\* freed, however late the callbacks run after the caller timed out.  Left
\* out: dnet_remove_object() without a callback, which takes one reference for
\* all its transactions, when there is more than one, and dnet_update_status(),
\* whose priv->refcnt is never set.
NoUseAfterFree ==
    (Sound \/ (op = "remove" /\ Cardinality(targets) = 1)) => ~bad

\* The counter is the number of those who still hold the structure: once the
\* caller returned and every callback ran it has been freed, exactly then.
WaitReleased ==
    (Sound /\ cpc = "returned") => (w.freed <=> Settled)

\* wc is freed with the wait structure, and nobody frees request_cmd's p while
\* a callback that will read it is outstanding.
PrivOutlivesCallbacks ==
    (op = "request_cmd" /\ p.freed) =>
        /\ cpc \in {"put", "returned"}
        /\ \A g \in targets : tr[g] \in {"putting", "done"}

\* Without a timeout a counting call returns only after every transaction it
\* sent was destroyed.
ReturnsAfterAll ==
    (Sound /\ op # "read" /\ cpc \in {"look", "put", "returned"} /\ werr = 0) =>
        \A g \in targets : tr[g] \in {"waking", "putting", "done"}

\* dnet_write_file_id() returns success exactly when a group stored the data
\* (an empty write aside), whatever order the answers came in.
WriteOutcome ==
    (op = "write" /\ cpc = "returned" /\ targets # {} /\ werr = 0) =>
        (ret = 0 <=> \E g \in targets : reply[g] = 0)

\* dnet_read_file_id() returns success only if some group acknowledged the read,
\* even when the acknowledgement came while the next group was being waited for.
ReadOutcome ==
    (op = "read" /\ cpc = "returned" /\ ret = 0) =>
        \E g \in targets : reply[g] = 0

\* dnet_remove_file() reports an error of any group that answered with one; a
\* group it could not send to counts as a success.
RemoveOutcome ==
    (op = "remove_file" /\ cpc = "returned" /\ werr = 0) =>
        (ret = 0 <=> \A g \in targets : reply[g] \in {0, NoReply})

\* A struct dnet_wait is freed once, when the caller has returned and every callback
\* ran, and so is dnet_request_cmd()'s private data; nobody touches them later,
\* however late callbacks run after a timeout (but for the calls that count wrongly).
\* Without a timeout a call returns after all of its transactions, with what the
\* groups answered.
WaitsReleased ==
    /\ ClientTypeOK /\ NoUseAfterFree /\ WaitReleased /\ PrivOutlivesCallbacks
    /\ ReturnsAfterAll /\ WriteOutcome /\ ReadOutcome /\ RemoveOutcome

\* interface.h: without a callback dnet_remove_object() blocks until the
\* server's acknowledge.
RemoveBlocks ==
    (op = "remove" /\ cpc = "returned" /\ werr = 0) =>
        \A g \in targets : tr[g] \in {"waking", "done"}

\* Every call returns once its transactions end, without any timeout.
CallsReturn == (cpc = "send" /\ Sound) ~> (cpc = "returned")

=============================================================================
