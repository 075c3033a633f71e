-------------------------------- MODULE Trans --------------------------------
(***************************************************************************)
(* Life of the transactions of one connection (library/trans.c and the     *)
(* transaction parts of library/net.c and library/pool.c).                 *)
(*                                                                         *)
(* A transaction t is allocated and sent by its sender, is found by the IO *)
(* thread that processes a reply to it, and is dropped by the stall        *)
(* checker when it times out or by whoever resets the connection.  It sits *)
(* in two places under st->trans_lock: trans_root, where replies look it   *)
(* up, and trans_list, where the droppers look for it.  It is freed, after *)
(* a last callback marked DNET_FLAGS_DESTROY, by whoever puts its last     *)
(* reference.                                                              *)
(*                                                                         *)
(* One action is one critical section or one callback boundary.  Threads:  *)
(* the sender of each transaction, the IO thread that works on a reply to  *)
(* it (the pool gives replies to one transaction to one thread at a time,  *)
(* see IoPool), the checker thread and the network thread.                 *)
(***************************************************************************)
EXTENDS Integers, FiniteSets

CONSTANTS
    Trans,          \* transactions
    NoTrans,        \* no transaction
    MaxMore,        \* bound: replies with DNET_FLAGS_MORE per transaction
    StallCount,     \* n->stall_count
    NoMemory,       \* malloc may fail in the senders
    PeerCloses,     \* the connection may break
    Times           \* transactions may time out

ASSUME TransAssumption == IsFiniteSet(Trans) /\ NoTrans \notin Trans
ASSUME NumbersAssumption == MaxMore \in Nat /\ StallCount \in Nat \ {0}
ASSUME FlagsAssumption ==
    NoMemory \in BOOLEAN /\ PeerCloses \in BOOLEAN /\ Times \in BOOLEAN

\* Who may empty trans_list: the checker thread, the network thread, and an IO
\* thread whose command or reply handler calls dnet_state_reset.
Droppers == {"checker", "net", "handler"}

VARIABLES
    route,      \* the state is in the route table (and its group's list)
    sock,       \* the socket has been neither closed by the peer nor shut down
    stref,      \* references of the state
    stall,      \* st->stall
    trans_root, \* transactions in the tree
    trans_list, \* transactions in the timeout list
    head,       \* dropper -> its private list of moved transactions
    ref,        \* transaction -> t->refcnt
    freed,      \* transactions whose memory was freed
    finals,     \* transaction -> number of callbacks marked as final
    queued,     \* transactions whose request is in, or has left, the send queue
    sent,       \* transaction -> replies the peer has sent: MOREs, and the last one
    inbox,      \* transaction -> replies received and not taken: MOREs, and the last one
    spc,        \* transaction -> where its sender is
    wpc,        \* transaction -> where the IO thread that works on it is
    wmore,      \* transaction -> DNET_FLAGS_MORE of the reply being worked on
    dpc,        \* dropper -> where it is
    dcur        \* dropper -> transaction it is dropping, or NoTrans

stVars == <<route, sock, stref, stall>>
memVars == <<ref, freed, finals>>
netVars == <<queued, sent, inbox>>
pcVars == <<spc, wpc, wmore, dpc, dcur>>
vars == <<route, sock, stref, stall, trans_root, trans_list, head, ref, freed, finals,
          queued, sent, inbox, spc, wpc, wmore, dpc, dcur>>

\* The thread that puts the last reference goes through a "destroy" and a
\* "final" position before it continues.
SenderPCs == {"idle", "insert", "queue", "put", "destroy", "final", "remove",
              "put1", "destroy1", "final1", "put2", "destroy2", "final2",
              "release", "done", "failed"}
WorkerPCs == {"idle", "cb", "put1", "destroy1", "final1", "relist",
              "put2", "destroy2", "final2", "release"}
DropperPCs == {"run", "clean", "cb", "put", "destroy", "final", "gone"}

Replies == [more : 0..MaxMore, last : 0..1]

TypeOK ==
    /\ route \in BOOLEAN /\ sock \in BOOLEAN
    /\ stref \in Int /\ stall \in 0..StallCount
    /\ trans_root \subseteq Trans /\ trans_list \subseteq Trans
    /\ head \in [Droppers -> SUBSET Trans]
    /\ ref \in [Trans -> Nat] /\ freed \subseteq Trans /\ finals \in [Trans -> Nat]
    /\ queued \subseteq Trans /\ sent \in [Trans -> Replies]
    /\ inbox \in [Trans -> Replies]
    /\ spc \in [Trans -> SenderPCs]
    /\ wpc \in [Trans -> WorkerPCs] /\ wmore \in [Trans -> BOOLEAN]
    /\ dpc \in [Droppers -> DropperPCs] /\ dcur \in [Droppers -> Trans \cup {NoTrans}]

\* A connected state: the network thread has the reference dnet_state_create
\* leaves behind.
Init ==
    /\ route = TRUE /\ sock = TRUE /\ stref = 1 /\ stall = 0
    /\ trans_root = {} /\ trans_list = {}
    /\ head = [d \in Droppers |-> {}]
    /\ ref = [t \in Trans |-> 0] /\ freed = {} /\ finals = [t \in Trans |-> 0]
    /\ queued = {}
    /\ sent = [t \in Trans |-> [more |-> 0, last |-> 0]]
    /\ inbox = [t \in Trans |-> [more |-> 0, last |-> 0]]
    /\ spc = [t \in Trans |-> "idle"]
    /\ wpc = [t \in Trans |-> "idle"] /\ wmore = [t \in Trans |-> FALSE]
    /\ dpc = [d \in Droppers |-> "run"] /\ dcur = [d \in Droppers |-> NoTrans]

-----------------------------------------------------------------------------
(* Shared steps. *)

\* list_del_init of t->trans_list_entry, whichever list it is in.
OffLists(t) ==
    /\ trans_list' = trans_list \ {t}
    /\ head' = [d \in Droppers |-> head[d] \ {t}]

\* dnet_trans_put; the thread that drops the last reference goes to `dead'.
Put(t) == ref' = [ref EXCEPT ![t] = @ - 1]
AfterPut(t, alive, dead) == IF ref[t] = 1 THEN dead ELSE alive

\* dnet_trans_destroy up to its callback: off the lists, out of the tree, and
\* into complete() with DNET_FLAGS_DESTROY.
Destroy(t) ==
    /\ OffLists(t)
    /\ trans_root' = trans_root \ {t}
    /\ finals' = [finals EXCEPT ![t] = @ + 1]

\* From "destroy" to "final" in the copies of a thread's program.
FinalOf == [destroy |-> "final", destroy1 |-> "final1", destroy2 |-> "final2"]

\* The rest of dnet_trans_destroy: put the state, free the transaction.
Free(t) ==
    /\ freed' = freed \cup {t}
    /\ stref' = stref - 1

-----------------------------------------------------------------------------
(* The sender: dnet_trans_alloc_send. *)

\* dnet_state_get_first finds no state: the only callback is a final one.
SendNoState(t) ==
    /\ spc[t] = "idle"
    /\ ~route
    /\ finals' = [finals EXCEPT ![t] = @ + 1]
    /\ spc' = [spc EXCEPT ![t] = "failed"]
    /\ UNCHANGED <<stVars, trans_root, trans_list, head, ref, freed, netVars, wpc, wmore, dpc, dcur>>

\* dnet_state_get_first, then dnet_trans_alloc fails; the state is put again.
SendNoTrans(t) ==
    /\ NoMemory
    /\ spc[t] = "idle"
    /\ route
    /\ finals' = [finals EXCEPT ![t] = @ + 1]
    /\ spc' = [spc EXCEPT ![t] = "failed"]
    /\ UNCHANGED <<stVars, trans_root, trans_list, head, ref, freed, netVars, wpc, wmore, dpc, dcur>>

\* Faulty form: the sender uses t after queueing it without dnet_trans_get.
SendAllocNoGet(t) ==
    /\ spc[t] = "idle"
    /\ route
    /\ stref' = stref + 2
    /\ ref' = [ref EXCEPT ![t] = 1]
    /\ spc' = [spc EXCEPT ![t] = "insert"]
    /\ UNCHANGED <<route, sock, stall, trans_root, trans_list, head, freed, finals, netVars,
                   wpc, wmore, dpc, dcur>>

\* Faulty form: t->st is set without dnet_state_get.
SendAllocNoStateGet(t) ==
    /\ spc[t] = "idle"
    /\ route
    /\ stref' = stref + 1
    /\ ref' = [ref EXCEPT ![t] = 2]
    /\ spc' = [spc EXCEPT ![t] = "insert"]
    /\ UNCHANGED <<route, sock, stall, trans_root, trans_list, head, freed, finals, netVars,
                   wpc, wmore, dpc, dcur>>

\* dnet_state_get_first and dnet_trans_alloc: a reference of the state for the
\* sender, one for t->st, and the first reference of t, then dnet_trans_get.
SendAlloc(t) ==
    /\ spc[t] = "idle"
    /\ route
    /\ stref' = stref + 2
    /\ ref' = [ref EXCEPT ![t] = 2]
    /\ spc' = [spc EXCEPT ![t] = "insert"]
    /\ UNCHANGED <<route, sock, stall, trans_root, trans_list, head, freed, finals, netVars,
                   wpc, wmore, dpc, dcur>>

\* dnet_trans_send under trans_lock.
SendInsert(t) ==
    /\ spc[t] = "insert"
    /\ trans_root' = trans_root \cup {t}
    /\ trans_list' = trans_list \cup {t}
    /\ spc' = [spc EXCEPT ![t] = "queue"]
    /\ UNCHANGED <<stVars, head, memVars, netVars, wpc, wmore, dpc, dcur>>

\* dnet_io_req_queue.
SendQueue(t) ==
    /\ spc[t] = "queue"
    /\ queued' = queued \cup {t}
    /\ spc' = [spc EXCEPT ![t] = "put"]
    /\ UNCHANGED <<stVars, trans_root, trans_list, head, memVars, sent, inbox, wpc, wmore, dpc, dcur>>

SendQueueFails(t) ==
    /\ NoMemory
    /\ spc[t] = "queue"
    /\ spc' = [spc EXCEPT ![t] = "remove"]
    /\ UNCHANGED <<stVars, trans_root, trans_list, head, memVars, netVars, wpc, wmore, dpc, dcur>>

\* Faulty form: the error path puts its references but leaves t in the tree
\* and on the list.
SendRemoveNothing(t) ==
    /\ spc[t] = "remove"
    /\ spc' = [spc EXCEPT ![t] = "put1"]
    /\ UNCHANGED <<stVars, trans_root, trans_list, head, memVars, netVars, wpc, wmore, dpc, dcur>>

\* err_out_remove: dnet_trans_remove.
SendRemove(t) ==
    /\ spc[t] = "remove"
    /\ OffLists(t)
    /\ trans_root' = trans_root \ {t}
    /\ spc' = [spc EXCEPT ![t] = "put1"]
    /\ UNCHANGED <<stVars, memVars, netVars, wpc, wmore, dpc, dcur>>

\* The puts: one in dnet_trans_send, and after an error a second one in
\* dnet_trans_alloc_send_state.
SendPut(t) ==
    /\ \/ /\ spc[t] = "put"
          /\ spc' = [spc EXCEPT ![t] = AfterPut(t, "release", "destroy")]
       \/ /\ spc[t] = "put1"
          /\ spc' = [spc EXCEPT ![t] = AfterPut(t, "put2", "destroy1")]
       \/ /\ spc[t] = "put2"
          /\ spc' = [spc EXCEPT ![t] = AfterPut(t, "release", "destroy2")]
    /\ Put(t)
    /\ UNCHANGED <<stVars, trans_root, trans_list, head, freed, finals, netVars, wpc, wmore, dpc, dcur>>

SendDestroy(t) ==
    /\ spc[t] \in {"destroy", "destroy1", "destroy2"}
    /\ spc' = [spc EXCEPT ![t] = FinalOf[@]]
    /\ Destroy(t)
    /\ UNCHANGED <<stVars, ref, freed, netVars, wpc, wmore, dpc, dcur>>

SendFree(t) ==
    /\ spc[t] \in {"final", "final1", "final2"}
    /\ spc' = [spc EXCEPT ![t] = IF @ = "final1" THEN "put2" ELSE "release"]
    /\ Free(t)
    /\ UNCHANGED <<route, sock, stall, trans_root, trans_list, head, ref, finals, netVars,
                   wpc, wmore, dpc, dcur>>

\* dnet_trans_alloc_send: dnet_state_put.
SendRelease(t) ==
    /\ spc[t] = "release"
    /\ stref' = stref - 1
    /\ spc' = [spc EXCEPT ![t] = "done"]
    /\ UNCHANGED <<route, sock, stall, trans_root, trans_list, head, memVars, netVars,
                   wpc, wmore, dpc, dcur>>

-----------------------------------------------------------------------------
(* The peer and the network thread. *)

\* The peer answers a request it got with some replies marked MORE and one
\* that is not; the network thread passes them to the IO pool in order
\* (dnet_process_recv_single), each with a reference of the state.
PeerMore(t) ==
    /\ sock /\ dpc["net"] = "run"
    /\ t \in queued /\ sent[t].last = 0 /\ sent[t].more < MaxMore
    /\ sent' = [sent EXCEPT ![t].more = @ + 1]
    /\ inbox' = [inbox EXCEPT ![t].more = @ + 1]
    /\ stref' = stref + 1
    /\ UNCHANGED <<route, sock, stall, trans_root, trans_list, head, memVars, queued, pcVars>>

PeerLast(t) ==
    /\ sock /\ dpc["net"] = "run"
    /\ t \in queued /\ sent[t].last = 0
    /\ sent' = [sent EXCEPT ![t].last = 1]
    /\ inbox' = [inbox EXCEPT ![t].last = 1]
    /\ stref' = stref + 1
    /\ UNCHANGED <<route, sock, stall, trans_root, trans_list, head, memVars, queued, pcVars>>

\* The connection breaks, or another call of the network thread on it fails.
PeerClose ==
    /\ PeerCloses
    /\ sock
    /\ sock' = FALSE
    /\ UNCHANGED <<route, stref, stall, trans_root, trans_list, head, memVars, netVars, pcVars>>

-----------------------------------------------------------------------------
(* The IO thread: dnet_process_recv on a reply. *)

\* The next reply to t, if any: the MOREs come before the last one.
Takes(t, more) ==
    IF more THEN inbox[t].more > 0 ELSE inbox[t].more = 0 /\ inbox[t].last = 1

Taken(t, more) ==
    IF more THEN [inbox EXCEPT ![t].more = @ - 1] ELSE [inbox EXCEPT ![t].last = 0]

\* dnet_trans_search finds nothing: the reply is ignored.
RecvMissing(t, more) ==
    /\ wpc[t] = "idle"
    /\ Takes(t, more)
    /\ t \notin trans_root
    /\ inbox' = Taken(t, more)
    /\ wpc' = [wpc EXCEPT ![t] = "release"]
    /\ UNCHANGED <<stVars, trans_root, trans_list, head, memVars, queued, sent, spc, wmore, dpc, dcur>>

\* Faulty form: the transaction stays on the timeout list while complete() runs.
RecvFoundStaysListed(t, more) ==
    /\ wpc[t] = "idle"
    /\ Takes(t, more)
    /\ t \in trans_root
    /\ inbox' = Taken(t, more)
    /\ ref' = [ref EXCEPT ![t] = @ + 1]
    /\ trans_root' = IF more THEN trans_root ELSE trans_root \ {t}
    /\ wmore' = [wmore EXCEPT ![t] = more]
    /\ wpc' = [wpc EXCEPT ![t] = "cb"]
    /\ UNCHANGED <<stVars, trans_list, head, freed, finals, queued, sent, spc, dpc, dcur>>

\* Under trans_lock: take a reference, out of the tree on the last reply, and
\* off the timeout list in any case.  Then complete() is called.
RecvFound(t, more) ==
    /\ wpc[t] = "idle"
    /\ Takes(t, more)
    /\ t \in trans_root
    /\ inbox' = Taken(t, more)
    /\ ref' = [ref EXCEPT ![t] = @ + 1]
    /\ trans_root' = IF more THEN trans_root ELSE trans_root \ {t}
    /\ OffLists(t)
    /\ wmore' = [wmore EXCEPT ![t] = more]
    /\ wpc' = [wpc EXCEPT ![t] = "cb"]
    /\ UNCHANGED <<stVars, freed, finals, queued, sent, spc, dpc, dcur>>

RecvCallbackEnd(t) ==
    /\ wpc[t] = "cb"
    /\ wpc' = [wpc EXCEPT ![t] = "put1"]
    /\ UNCHANGED <<stVars, trans_root, trans_list, head, memVars, netVars, spc, wmore, dpc, dcur>>

AfterPut1(t) == IF wmore[t] THEN "relist" ELSE "put2"

RecvPut(t) ==
    /\ \/ /\ wpc[t] = "put1"
          /\ wpc' = [wpc EXCEPT ![t] = AfterPut(t, AfterPut1(t), "destroy1")]
       \/ /\ wpc[t] = "put2"
          /\ wpc' = [wpc EXCEPT ![t] = AfterPut(t, "release", "destroy2")]
    /\ Put(t)
    /\ UNCHANGED <<stVars, trans_root, trans_list, head, freed, finals, netVars, spc, wmore, dpc, dcur>>

\* dnet_trans_timestamp under trans_lock: list_move_tail to trans_list.
RecvRelist(t) ==
    /\ wpc[t] = "relist"
    /\ trans_list' = trans_list \cup {t}
    /\ head' = [d \in Droppers |-> head[d] \ {t}]
    /\ wpc' = [wpc EXCEPT ![t] = "release"]
    /\ UNCHANGED <<stVars, trans_root, memVars, netVars, spc, wmore, dpc, dcur>>

RecvDestroy(t) ==
    /\ wpc[t] \in {"destroy1", "destroy2"}
    /\ wpc' = [wpc EXCEPT ![t] = FinalOf[@]]
    /\ Destroy(t)
    /\ UNCHANGED <<stVars, ref, freed, netVars, spc, wmore, dpc, dcur>>

RecvFree(t) ==
    /\ wpc[t] \in {"final1", "final2"}
    /\ wpc' = [wpc EXCEPT ![t] = IF @ = "final1" THEN AfterPut1(t) ELSE "release"]
    /\ Free(t)
    /\ UNCHANGED <<route, sock, stall, trans_root, trans_list, head, ref, finals, netVars,
                   spc, wmore, dpc, dcur>>

\* dnet_io_process: dnet_state_put of the request's reference.
RecvRelease(t) ==
    /\ wpc[t] = "release"
    /\ stref' = stref - 1
    /\ wpc' = [wpc EXCEPT ![t] = "idle"]
    /\ UNCHANGED <<route, sock, stall, trans_root, trans_list, head, memVars, netVars,
                   spc, wmore, dpc, dcur>>

-----------------------------------------------------------------------------
(* The droppers. *)

\* Faulty form: moved transactions can still be found by replies.
MoveKeepsTree(d, X) ==
    /\ trans_list' = trans_list \ X
    /\ head' = [head EXCEPT ![d] = @ \cup X]
    /\ UNCHANGED trans_root

\* dnet_trans_iterate_move_transaction moves X to the list of d.
Move(d, X) ==
    /\ trans_root' = trans_root \ X
    /\ trans_list' = trans_list \ X
    /\ head' = [head EXCEPT ![d] = @ \cup X]

\* dnet_check_all_states on a state of the route table where the transactions
\* of X have timed out.  The list is in the order of the time stamps, so which
\* ones are found depends on the passage of time only: any X may be.
CheckMove(X) ==
    /\ Times
    /\ route /\ dpc["checker"] = "run"
    /\ X # {} /\ X \subseteq trans_list
    /\ stall + 1 < StallCount
    /\ stall' = stall + 1
    /\ Move("checker", X)
    /\ dpc' = [dpc EXCEPT !["checker"] = "clean"]
    /\ UNCHANGED <<route, sock, stref, memVars, netVars, spc, wpc, wmore, dcur>>

\* Nothing has timed out.
CheckQuiet ==
    /\ route /\ dpc["checker"] = "run"
    /\ stall' = 0
    /\ UNCHANGED <<route, sock, stref, trans_root, trans_list, head, memVars, netVars, pcVars>>

\* Faulty form: the reset leaves the transactions where they are.
ResetKeepsList(d) ==
    /\ route' = FALSE
    /\ sock' = FALSE
    /\ dpc' = [dpc EXCEPT ![d] = "clean"]
    /\ UNCHANGED <<trans_root, trans_list, head>>

\* dnet_state_reset_nolock_noclean by d: out of the route table, need_exit set,
\* socket shut down, and then every transaction of the list is moved.
Reset(d) ==
    /\ route' = FALSE
    /\ sock' = FALSE
    /\ Move(d, trans_list)
    /\ dpc' = [dpc EXCEPT ![d] = "clean"]

\* Too many stalls in a row: the checker resets the state.
CheckReset ==
    /\ Times
    /\ route /\ dpc["checker"] = "run"
    /\ trans_list # {}
    /\ stall + 1 >= StallCount
    /\ stall' = StallCount
    /\ Reset("checker")
    /\ UNCHANGED <<stref, memVars, netVars, spc, wpc, wmore, dcur>>

\* dnet_io_process_network sees the socket fail: dnet_state_reset.
NetReset ==
    /\ dpc["net"] = "run"
    /\ ~sock
    /\ Reset("net")
    /\ UNCHANGED <<stref, stall, memVars, netVars, spc, wpc, wmore, dcur>>

\* dnet_cmd_reverse_lookup or the reply to an authentication request fails.
HandlerReset ==
    /\ PeerCloses
    /\ dpc["handler"] = "run"
    /\ route
    /\ Reset("handler")
    /\ UNCHANGED <<stref, stall, memVars, netVars, spc, wpc, wmore, dcur>>

\* dnet_trans_clean_list: next transaction, complete() with -ETIMEDOUT.
DropNext(d, t) ==
    /\ dpc[d] = "clean"
    /\ t \in head[d]
    /\ head' = [head EXCEPT ![d] = @ \ {t}]
    /\ dcur' = [dcur EXCEPT ![d] = t]
    /\ dpc' = [dpc EXCEPT ![d] = "cb"]
    /\ UNCHANGED <<stVars, trans_root, trans_list, memVars, netVars, spc, wpc, wmore>>

DropCallbackEnd(d) ==
    /\ dpc[d] = "cb"
    /\ dpc' = [dpc EXCEPT ![d] = "put"]
    /\ UNCHANGED <<stVars, trans_root, trans_list, head, memVars, netVars, spc, wpc, wmore, dcur>>

DropPut(d) ==
    /\ dpc[d] = "put"
    /\ Put(dcur[d])
    /\ dpc' = [dpc EXCEPT ![d] = AfterPut(dcur[d], "clean", "destroy")]
    /\ dcur' = [dcur EXCEPT ![d] = AfterPut(dcur[d], NoTrans, dcur[d])]
    /\ UNCHANGED <<stVars, trans_root, trans_list, head, freed, finals, netVars, spc, wpc, wmore>>

DropDestroy(d) ==
    /\ dpc[d] = "destroy"
    /\ Destroy(dcur[d])
    /\ dpc' = [dpc EXCEPT ![d] = "final"]
    /\ UNCHANGED <<stVars, ref, freed, netVars, spc, wpc, wmore, dcur>>

DropFree(d) ==
    /\ dpc[d] = "final"
    /\ Free(dcur[d])
    /\ dpc' = [dpc EXCEPT ![d] = "clean"]
    /\ dcur' = [dcur EXCEPT ![d] = NoTrans]
    /\ UNCHANGED <<route, sock, stall, trans_root, trans_list, head, ref, finals, netVars,
                   spc, wpc, wmore>>

\* The checker and the handler have emptied their list and go on.
DropDone(d) ==
    /\ d # "net"
    /\ dpc[d] = "clean" /\ head[d] = {}
    /\ dpc' = [dpc EXCEPT ![d] = "run"]
    /\ UNCHANGED <<stVars, trans_root, trans_list, head, memVars, netVars, spc, wpc, wmore, dcur>>

\* The network thread puts its reference of the state and forgets it.
NetDone ==
    /\ dpc["net"] = "clean" /\ head["net"] = {}
    /\ stref' = stref - 1
    /\ dpc' = [dpc EXCEPT !["net"] = "gone"]
    /\ UNCHANGED <<route, sock, stall, trans_root, trans_list, head, memVars, netVars,
                   spc, wpc, wmore, dcur>>

-----------------------------------------------------------------------------
SenderNext(t) ==
    \/ SendNoState(t) \/ SendNoTrans(t) \/ SendAlloc(t) \/ SendInsert(t)
    \/ SendQueue(t) \/ SendQueueFails(t) \/ SendRemove(t)
    \/ SendPut(t) \/ SendDestroy(t) \/ SendFree(t) \/ SendRelease(t)

WorkerNext(t) ==
    \/ \E more \in BOOLEAN : RecvMissing(t, more) \/ RecvFound(t, more)
    \/ RecvCallbackEnd(t) \/ RecvPut(t) \/ RecvRelist(t)
    \/ RecvDestroy(t) \/ RecvFree(t) \/ RecvRelease(t)

DropperNext(d) ==
    \/ \E t \in Trans : DropNext(d, t)
    \/ DropCallbackEnd(d) \/ DropPut(d) \/ DropDestroy(d) \/ DropFree(d) \/ DropDone(d)

Next ==
    \/ \E t \in Trans : SenderNext(t) \/ WorkerNext(t) \/ PeerMore(t) \/ PeerLast(t)
    \/ \E d \in Droppers : DropperNext(d)
    \/ \E X \in SUBSET Trans : CheckMove(X)
    \/ CheckQuiet \/ CheckReset
    \/ PeerClose \/ HandlerReset \/ NetReset \/ NetDone

Spec == Init /\ [][Next]_vars

\* Threads run, IO threads take what is in their queue, the network thread
\* notices a dead socket, and a transaction that is on the list of a state the
\* checker looks at again and again times out in the end.  Nothing makes the
\* peer answer or callers send.
TimesOut(t) ==
    /\ t \in trans_list
    /\ CheckReset \/ \E X \in SUBSET Trans : t \in X /\ CheckMove(X)

Fairness ==
    /\ \A t \in Trans :
        /\ WF_vars(spc[t] # "idle" /\ SenderNext(t))
        /\ WF_vars(WorkerNext(t))
        /\ SF_vars(TimesOut(t))
    /\ \A d \in Droppers : WF_vars(DropperNext(d))
    /\ WF_vars(NetReset) /\ WF_vars(NetDone)

FairSpec == Spec /\ Fairness

-----------------------------------------------------------------------------
(* Properties *)

\* The threads that are inside complete() of t.
InCallback(t) ==
    {w \in {"sender"} : spc[t] \in {"final", "final1", "final2"}} \cup
    {w \in {"worker"} : wpc[t] \in {"cb", "final1", "final2"}} \cup
    {d \in Droppers : dcur[d] = t /\ dpc[d] \in {"cb", "final"}}

\* The threads that still have work to do on the memory of t.
Touching(t) ==
    {w \in {"sender"} : spc[t] \notin {"idle", "release", "done", "failed"}} \cup
    {w \in {"worker"} : wpc[t] \notin {"idle", "release"}} \cup
    {d \in Droppers : dcur[d] = t /\ dpc[d] \in {"cb", "put", "destroy", "final"}}

\* The callback of a transaction is never running in two threads at once:
\* neither the checker nor a reset drops a transaction whose reply is being
\* delivered, and a late reply does not find one that is being dropped
\* (net.c:699-704, trans.c:332-338).
CallbackExclusive == \A t \in Trans : \A v, w \in InCallback(t) : v = w

\* A transaction gets at most one callback that is_trans_destroyed() takes as
\* the final one, and no callback of it is running once it is freed.
FinalOnce == \A t \in Trans :
    /\ finals[t] <= 1
    /\ finals[t] = 1 /\ t \in freed => InCallback(t) = {}

\* Freed memory of a transaction is in no list or tree and no thread still
\* works on it, although the IO thread puts its reference before it moves the
\* transaction back to the timeout list (net.c:718-729).
NoUseAfterFree == \A t \in freed :
    /\ Touching(t) = {}
    /\ t \notin trans_root \cup trans_list \cup UNION {head[d] : d \in Droppers}

\* Who answers for the reference a transaction is born with: its sender, the
\* tree, the list of a dropper, the dropper or the IO thread that took it.
Owners(t) ==
    {w \in {"sender"} : spc[t] \in {"insert", "put1", "put2"}} \cup
    {w \in {"tree"} : t \in trans_root} \cup
    {w \in {"worker"} : wpc[t] \in {"cb", "put1", "put2"} /\ ~wmore[t]} \cup
    {d \in Droppers : t \in head[d] \/ (dcur[d] = t /\ dpc[d] \in {"cb", "put"})}

\* At any moment at most one of them does, so nobody drops that reference
\* twice, and the other references belong to the sender and to the IO thread.
RefsExact == \A t \in Trans :
    /\ \A v, w \in Owners(t) : v = w
    /\ ref[t] = Cardinality(Owners(t))
               + (IF spc[t] \in {"insert", "queue", "put", "remove", "put1"} THEN 1 ELSE 0)
               + (IF wpc[t] \in {"cb", "put1"} THEN 1 ELSE 0)

Allocated == {t \in Trans : spc[t] \notin {"idle", "failed"} /\ t \notin freed}
Unread(more) == {t \in Trans : IF more THEN inbox[t].more > 0 ELSE inbox[t].last = 1}

\* While a thread, a transaction or a received reply refers to the state, or it
\* is in the route table, it has a reference: dnet_state_put of the network
\* thread or of a sender never frees a state in use.
StateAlive ==
    /\ stref >= 0
    /\ stref = 0 =>
        /\ ~route /\ dpc["net"] = "gone"
        /\ Allocated = {} /\ Unread(TRUE) = {} /\ Unread(FALSE) = {}
        /\ \A t \in Trans : spc[t] \in {"idle", "done", "failed"} /\ wpc[t] = "idle"

\* A transaction that has been sent gets its final callback.
SentThenFinal == \A t \in Trans : spc[t] = "insert" ~> finals[t] = 1

\* A transaction that is on the list of a state in the route table gets its
\* final callback: by its last reply, by a timeout or by a reset, which is to
\* "move and then drop all its transactions" (net.c:824-826).
ListedThenFinal == \A t \in Trans : t \in trans_list /\ route ~> finals[t] = 1
=============================================================================
