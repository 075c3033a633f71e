------------------------------ MODULE Commands ------------------------------
(***************************************************************************)
(* dnet_process_cmd_raw() (library/dnet.c) and its handlers: several IO    *)
(* threads serve one request each, under the operation lock of its key,    *)
(* and answer it.  A reply with DNET_FLAGS_MORE leaves the transaction of  *)
(* the client open, a reply without it (a final one) ends it; an           *)
(* acknowledge is sent only while DNET_FLAGS_NEED_ACK is set, and the      *)
(* handlers of the backend and of the cache clear and set that flag.       *)
(*                                                                         *)
(* The cache is Cache.tla reduced to what decides who answers: a key is    *)
(* not cached, cached, or holds an append that was not written yet.  The   *)
(* operation lock is OpLock.tla reduced to its owner.                      *)
(***************************************************************************)
EXTENDS Naturals, Sequences, FiniteSets

CONSTANTS
    Trans,         \* transactions, one IO thread serves each
    Keys,
    Nobody,        \* no owner of a lock
    RequestsOf     \* requests a transaction may carry

\* A request is a record: cmd, key, keys of a bulk read, flags, and ro, the new
\* value of the read-only switch.

VARIABLES
    req,      \* the request of a transaction
    flags,    \* its flags, as the handlers change them
    rflags,   \* flags of read_cmd, the reads of a bulk read
    step,     \* where its thread is
    nth,      \* reads of the bulk read that are done
    status,   \* err: TRUE for 0
    sent,     \* replies, in the order they were queued
    owner,    \* the operation lock of a key
    cached,   \* "none", "data", or "append" for an object with only_append()
    dirty,    \* m_syncset: cached objects that are to be written
    disk,     \* keys the backend holds
    ro,       \* n->ro
    notify,   \* notify_list: transactions that asked for notifications
    updates,  \* backend writes of the key since a notification was added
    kept      \* keys that were written with success and not removed since

cmdVars == <<req, flags, rflags, step, nth, status, sent, owner, cached, dirty, disk, ro, notify, updates, kept>>
storeVars == <<cached, dirty, disk, ro, notify, updates, kept>>

Key(t) == req[t].key
Is(t, cmd) == step[t] = "run" /\ req[t].cmd = cmd

-----------------------------------------------------------------------------
(* Replies.                                                                *)

\* dnet_send_reply() and dnet_send_read_data(): more to come if the caller says
\* so, if an acknowledge will follow, or if the flag is set already.
Reply(what, fl, more) == [what |-> what, ok |-> TRUE, final |-> ~(more \/ "NEED_ACK" \in fl \/ "MORE" \in fl)]

\* Faulty form: errors are not acknowledged.
AckSuccess(fl, ok, recursive) ==
    IF "NEED_ACK" \in fl /\ ok THEN <<[what |-> "ack", ok |-> ok, final |-> ~(recursive /\ "MORE" \in fl)]>>
    ELSE <<>>

\* dnet_send_ack(): a recursive command keeps DNET_FLAGS_MORE.
Ack(fl, ok, recursive) ==
    IF "NEED_ACK" \in fl
    THEN <<[what |-> "ack", ok |-> ok, final |-> ~(recursive /\ "MORE" \in fl)]>>
    ELSE <<>>

Send(t, replies) == sent' = [sent EXCEPT ![t] = @ \o replies]
Flags(t, fl) == flags' = [flags EXCEPT ![t] = fl]
NoAck(fl) == fl \ {"NEED_ACK"}

\* Leaves the switch with err.
Break(t, ok) ==
    /\ status' = [status EXCEPT ![t] = ok]
    /\ step' = [step EXCEPT ![t] = "ack"]

-----------------------------------------------------------------------------
(* The operation lock around a command.                                    *)

\* dnet_oplock().
Start(t) ==
    /\ step[t] = "new"
    /\ IF "NOLOCK" \in flags[t]
       THEN UNCHANGED owner
       ELSE owner[Key(t)] = Nobody /\ owner' = [owner EXCEPT ![Key(t)] = t]
    /\ step' = [step EXCEPT ![t] = "run"]
    /\ UNCHANGED <<req, flags, rflags, nth, status, sent, storeVars>>

\* The tail of dnet_process_cmd_raw(): acknowledge, then dnet_opunlock(), which
\* frees the entry of the key whoever holds it.
Finish(t) ==
    /\ step[t] = "ack"
    /\ Send(t, Ack(flags[t], status[t], FALSE))
    /\ owner' = IF "NOLOCK" \in flags[t] THEN owner ELSE [owner EXCEPT ![Key(t)] = Nobody]
    /\ step' = [step EXCEPT ![t] = "done"]
    /\ UNCHANGED <<req, flags, rflags, nth, status, storeVars>>

-----------------------------------------------------------------------------
(* Commands that do not touch the storage.                                 *)

\* dnet_cmd_auth().
Auth(t) ==
    /\ Is(t, "AUTH")
    /\ \E ok \in BOOLEAN : Break(t, ok)
    /\ UNCHANGED <<req, flags, rflags, nth, sent, owner, storeVars>>

\* dnet_cmd_status(): switches read-only mode and tells the state of the node.
Status(t) ==
    /\ Is(t, "STATUS")
    /\ ro' = req[t].ro
    /\ Send(t, <<Reply("status", flags[t], TRUE)>>)
    /\ Break(t, TRUE)
    /\ UNCHANGED <<req, flags, rflags, nth, owner, cached, dirty, disk, notify, updates, kept>>

\* dnet_cmd_reverse_lookup(): the ids of the node go out with flags of their
\* own; an incompatible version is acknowledged with an error.
ReverseLookup(t) ==
    /\ Is(t, "REVERSE_LOOKUP")
    /\ \/ Send(t, <<Reply("ids", {}, FALSE)>>) /\ Break(t, TRUE) /\ UNCHANGED flags
       \/ Flags(t, flags[t] \cup {"NEED_ACK"}) /\ Break(t, FALSE) /\ UNCHANGED sent
    /\ UNCHANGED <<req, rflags, nth, owner, storeVars>>

\* A reply for every state, or an error after some of them.
PerState(t) ==
    /\ \E n \in 0..2, ok \in BOOLEAN :
          Send(t, [i \in 1..n |-> Reply("state", flags[t], TRUE)]) /\ Break(t, ok)
    /\ UNCHANGED <<req, flags, rflags, nth, owner, storeVars>>

\* dnet_cmd_route_list() and dnet_cmd_stat_count().
RouteList(t) == Is(t, "ROUTE_LIST") /\ PerState(t)
StatCount(t) == Is(t, "STAT_COUNT") /\ PerState(t)

\* dnet_notify_add(): the acknowledge is put off until the notification is
\* removed.  It fails when there is no memory.
NotifyAdd(t) ==
    /\ Is(t, "NOTIFY")
    /\ \/ notify' = Append(notify, t) /\ Flags(t, NoAck(flags[t])) /\ Break(t, TRUE)
       \/ Break(t, FALSE) /\ UNCHANGED <<notify, flags>>
    /\ UNCHANGED <<req, rflags, nth, sent, owner, cached, dirty, disk, ro, updates, kept>>

\* dnet_notify_remove(): the first notification of this key, whoever asked for
\* it, gets a final reply.
NotifyRemove(t) ==
    /\ Is(t, "NOTIFY_DROP")
    /\ LET mine == {i \in DOMAIN notify : Key(notify[i]) = Key(t)}
       IN IF mine = {}
          THEN Break(t, FALSE) /\ UNCHANGED <<sent, notify>>
          ELSE LET i == CHOOSE j \in mine : \A k \in mine : j <= k
               IN /\ Send(notify[i], <<Reply("dropped", {}, FALSE)>>)
                  /\ notify' = SubSeq(notify, 1, i - 1) \o SubSeq(notify, i + 1, Len(notify))
                  /\ Break(t, TRUE)
    /\ UNCHANGED <<req, flags, rflags, nth, owner, cached, dirty, disk, ro, updates, kept>>

-----------------------------------------------------------------------------
(* Writes and removals.                                                    *)

Asked(u, k) == (\E i \in DOMAIN notify : notify[i] = u) /\ Key(u) = k

\* n writes of key k by the backend.
Stored(k, n) == updates' = [u \in Trans |-> IF Asked(u, k) THEN updates[u] + n ELSE updates[u]]

\* dnet_update_notify(): a reply for every notification of key k, after the
\* reply to the write itself.
Notified(snt, k) ==
    [u \in Trans |-> IF Asked(u, k) THEN Append(snt[u], Reply("notification", {}, TRUE)) ELSE snt[u]]

\* local_session::write(), which the cache stores objects with: it goes through
\* dnet_process_cmd_raw() without a lock, and fails in read-only mode.
LocalDisk(k) == IF ro THEN disk ELSE disk \cup {k}
LocalNotified(k) == IF ro THEN sent ELSE Notified(sent, k)
LocalStored(k, n) == Stored(k, n + IF ro THEN 0 ELSE 1)

Refused(t) == ro /\ req[t].cmd \in {"WRITE", "DEL"}

RefuseReadOnly(t) ==
    /\ step[t] = "run" /\ Refused(t)
    /\ Break(t, FALSE)
    /\ UNCHANGED <<req, flags, rflags, nth, sent, owner, storeVars>>

\* Does cache_t::write() take the command, or answer -ENOTSUP?
CacheTakes(t) == "NOCACHE" \notin flags[t] /\ (cached[Key(t)] # "none" \/ "CACHE" \in flags[t])
OverAppend(t) == "APPEND" \notin flags[t] /\ cached[Key(t)] = "append"

\* cache_t::write(): the data stays in memory and the file info is the answer;
\* a checksum mismatch of a compare-and-swap is an error.
WriteCached(t) ==
    /\ Is(t, "WRITE") /\ ~Refused(t) /\ CacheTakes(t) /\ ~OverAppend(t)
    /\ \/ /\ cached' = [cached EXCEPT ![Key(t)] =
                           IF "APPEND" \in flags[t] /\ @ \in {"none", "append"} THEN "append" ELSE "data"]
          /\ dirty' = dirty \cup {Key(t)} /\ kept' = kept \cup {Key(t)}
          /\ Flags(t, NoAck(flags[t]))
          /\ Send(t, <<Reply("info", NoAck(flags[t]), FALSE)>>)
          /\ Break(t, TRUE)
       \/ /\ "CAS" \in flags[t] /\ cached[Key(t)] = "data"
          /\ Break(t, FALSE)
          /\ UNCHANGED <<cached, dirty, kept, flags, sent>>
    /\ UNCHANGED <<req, rflags, nth, owner, disk, ro, notify, updates>>

\* cache_t::write() over an append: the append goes to the disk, the backend
\* gets the write and answers it, the object is read back into the cache, and
\* only then DNET_FLAGS_NEED_ACK is dropped.
WriteOverAppend(t) ==
    /\ Is(t, "WRITE") /\ ~Refused(t) /\ CacheTakes(t) /\ OverAppend(t)
    /\ disk' = disk \cup {Key(t)} /\ kept' = kept \cup {Key(t)}
    /\ \/ /\ sent' = [LocalNotified(Key(t)) EXCEPT ![t] = Append(@, Reply("info", flags[t], FALSE))]
          /\ LocalStored(Key(t), 1)
       \/ sent' = LocalNotified(Key(t)) /\ LocalStored(Key(t), 0)
    /\ cached' = [cached EXCEPT ![Key(t)] = "data"] /\ dirty' = dirty \ {Key(t)}
    /\ Flags(t, NoAck(flags[t]))
    /\ Break(t, TRUE)
    /\ UNCHANGED <<req, rflags, nth, owner, ro, notify>>

\* The backend: the file info is the only answer, or the acknowledge is when no
\* file info is wanted or the write fails.  A compare-and-swap is checked first.
WriteDisk(t) ==
    /\ Is(t, "WRITE") /\ ~Refused(t) /\ ~CacheTakes(t)
    /\ \/ /\ "CAS" \in flags[t] /\ Key(t) \in disk
          /\ Break(t, FALSE)
          /\ UNCHANGED <<flags, sent, disk, updates, kept>>
       \/ /\ disk' = disk \cup {Key(t)} /\ kept' = kept \cup {Key(t)}
          /\ IF "NO_FILE_INFO" \in flags[t]
             THEN Flags(t, flags[t] \cup {"NEED_ACK"}) /\ sent' = Notified(sent, Key(t))
             ELSE /\ Flags(t, NoAck(flags[t]))
                  /\ sent' = Notified([sent EXCEPT ![t] = Append(@, Reply("info", NoAck(flags[t]), FALSE))], Key(t))
          /\ Stored(Key(t), 1)
          /\ Break(t, TRUE)
       \/ /\ Flags(t, flags[t] \cup {"NEED_ACK"})
          /\ Break(t, FALSE)
          /\ UNCHANGED <<sent, disk, updates, kept>>
    /\ UNCHANGED <<req, rflags, nth, owner, cached, dirty, ro, notify>>

\* cache_t::remove(), which never leaves the command to the backend, or
\* blob_del().
Del(t) ==
    /\ Is(t, "DEL") /\ ~Refused(t)
    /\ disk' = disk \ {Key(t)} /\ kept' = kept \ {Key(t)}
    /\ IF "NOCACHE" \in flags[t]
       THEN Break(t, Key(t) \in disk) /\ UNCHANGED <<cached, dirty>>
       ELSE /\ cached' = [cached EXCEPT ![Key(t)] = "none"] /\ dirty' = dirty \ {Key(t)}
            /\ Break(t, Key(t) \in disk \/ cached[Key(t)] # "none")
    /\ UNCHANGED <<req, flags, rflags, nth, sent, owner, ro, notify, updates>>

-----------------------------------------------------------------------------
(* Reads.                                                                  *)

\* dnet_cmd_cache_io() and the backend, for a read of key k with flags fl: the
\* cache after it, the flags after it, the replies, and err.  An append is
\* written first; the cache reads a missing object from the disk only when the
\* request says so; an offset past the cached size is an error.
ReadOutcomes(k, fl) ==
    LET synced == cached[k] = "append" /\ "NOCACHE" \notin fl
        here == k \in IF synced THEN LocalDisk(k) ELSE disk
        left == IF synced THEN "none" ELSE cached[k]
        now == IF left = "none" /\ "CACHE" \in fl /\ here THEN "data" ELSE left
        answer == [cache |-> now, fl |-> NoAck(fl), replies |-> <<Reply("data", NoAck(fl), FALSE)>>, ok |-> TRUE]
        error(c, f) == [cache |-> c, fl |-> f, replies |-> <<>>, ok |-> FALSE]
    IN IF "NOCACHE" \notin fl /\ now = "data"
       THEN {answer, error(now, fl)}
       ELSE IF "NOCACHE" \notin fl /\ "CACHE" \in fl
            THEN {error(now, fl)}
            ELSE {error(left, fl \cup {"NEED_ACK"})} \cup IF here THEN {[answer EXCEPT !.cache = left]} ELSE {}

\* What a read leaves in the cache and on the disk, and the replies of
\* transaction t: an append it met is written, and the writers' watchers hear
\* of it first.
ReadStores(t, k, fl, o, replies) ==
    LET synced == cached[k] = "append" /\ "NOCACHE" \notin fl
    IN /\ cached' = [cached EXCEPT ![k] = o.cache]
       /\ IF synced
          THEN /\ dirty' = dirty \ {k} /\ disk' = LocalDisk(k) /\ LocalStored(k, 0)
               /\ sent' = [LocalNotified(k) EXCEPT ![t] = @ \o replies]
          ELSE /\ Send(t, replies)
               /\ UNCHANGED <<dirty, disk, updates>>

Read(t) ==
    /\ Is(t, "READ")
    /\ \E o \in ReadOutcomes(Key(t), flags[t]) :
          ReadStores(t, Key(t), flags[t], o, o.replies) /\ Flags(t, o.fl) /\ Break(t, o.ok)
    /\ UNCHANGED <<req, rflags, nth, owner, ro, notify, kept>>

\* dnet_cmd_cache_lookup(): cache_t::lookup() looks whether the key is cached;
\* whatever it does then, the result is -ENOTSUP and the backend looks too.
LookupCache(t) ==
    /\ Is(t, "LOOKUP")
    /\ step' = [step EXCEPT ![t] = IF "NOCACHE" \notin flags[t] /\ cached[Key(t)] # "none"
                                   THEN "lookup" ELSE "file_info"]
    /\ UNCHANGED <<req, flags, rflags, nth, status, sent, owner, storeVars>>

\* The rest of cache_t::lookup(), without its lock: a local lookup of the
\* backend; what is on the disk keeps two of the flags only, what is not is
\* answered from the cache.
LookupLocal(t) ==
    /\ step[t] = "lookup"
    /\ LET fl == IF Key(t) \in disk THEN flags[t] \cap {"MORE", "NEED_ACK"} ELSE NoAck(flags[t])
       IN Flags(t, fl) /\ Send(t, <<Reply("info", fl, FALSE)>>)
    /\ step' = [step EXCEPT ![t] = "file_info"]
    /\ UNCHANGED <<req, rflags, nth, status, owner, storeVars>>

\* blob_file_info().
LookupDisk(t) ==
    /\ step[t] = "file_info"
    /\ Send(t, IF Key(t) \in disk THEN <<Reply("info", flags[t], FALSE)>> ELSE <<>>)
    /\ Break(t, Key(t) \in disk)
    /\ UNCHANGED <<req, flags, rflags, nth, owner, storeVars>>

-----------------------------------------------------------------------------
(* dnet_cmd_bulk_read(): drops the lock, runs the reads one by one through *)
(* dnet_process_cmd_raw(), takes the lock back.                            *)

BulkStart(t) ==
    /\ Is(t, "BULK_READ")
    /\ rflags' = [rflags EXCEPT ![t] = flags[t] \cup {"MORE"}]
    /\ Flags(t, IF req[t].keys # <<>> THEN NoAck(flags[t]) ELSE flags[t])
    /\ owner' = IF "NOLOCK" \in flags[t] THEN owner ELSE [owner EXCEPT ![Key(t)] = Nobody]
    /\ status' = [status EXCEPT ![t] = FALSE]
    /\ step' = [step EXCEPT ![t] = "bulk"]
    /\ UNCHANGED <<req, nth, sent, storeVars>>

\* Faulty form: the lock is not taken back.
BulkLockNot(t) ==
    /\ step[t] = "bulk"
    /\ step' = [step EXCEPT ![t] = IF nth[t] < Len(req[t].keys) THEN "bulk_read" ELSE "ack"]
    /\ UNCHANGED <<req, flags, rflags, nth, status, sent, owner, storeVars>>

\* The lock is the one of cmd->id, not of the key that is read.
BulkLock(t) ==
    /\ step[t] = "bulk"
    /\ IF "NOLOCK" \in flags[t]
       THEN UNCHANGED owner
       ELSE owner[Key(t)] = Nobody /\ owner' = [owner EXCEPT ![Key(t)] = t]
    /\ step' = [step EXCEPT ![t] = IF nth[t] < Len(req[t].keys) THEN "bulk_read" ELSE "ack"]
    /\ UNCHANGED <<req, flags, rflags, nth, status, sent, storeVars>>

\* One read with its acknowledge and its unlock.  A read that failed and was
\* acknowledged returns what sending the acknowledge did.
BulkRead(t) ==
    /\ step[t] = "bulk_read"
    /\ LET k == req[t].keys[nth[t] + 1]
           last == nth[t] + 1 = Len(req[t].keys)
       IN \E o \in ReadOutcomes(k, rflags[t]) :
             /\ ReadStores(t, k, rflags[t], o, o.replies \o Ack(o.fl, o.ok, TRUE))
             /\ rflags' = [rflags EXCEPT ![t] = o.fl]
             /\ status' = [status EXCEPT ![t] = @ \/ o.ok \/ "NEED_ACK" \in o.fl]
             /\ Flags(t, IF last THEN flags[t] \cup {"NEED_ACK"} ELSE flags[t])
    /\ nth' = [nth EXCEPT ![t] = @ + 1]
    /\ owner' = IF "NOLOCK" \in flags[t] THEN owner ELSE [owner EXCEPT ![Key(t)] = Nobody]
    /\ step' = [step EXCEPT ![t] = "bulk"]
    /\ UNCHANGED <<req, ro, notify, kept>>

-----------------------------------------------------------------------------
(* The thread of the cache, cache_t::life_check(), and evictions.  An      *)
(* object leaves m_syncset whether its write succeeds or not.              *)

\* A dirty object is written under the operation lock of its key and stays.
Sync(k) ==
    /\ k \in dirty /\ cached[k] = "data" /\ owner[k] = Nobody
    /\ dirty' = dirty \ {k} /\ disk' = LocalDisk(k)
    /\ sent' = LocalNotified(k) /\ LocalStored(k, 0)
    /\ UNCHANGED <<req, flags, rflags, step, nth, status, owner, cached, ro, notify, kept>>

\* erase_element() and sync_after_append() write what is dirty, without the
\* operation lock, and the object is gone.
Evict(k) ==
    /\ cached[k] # "none"
    /\ cached' = [cached EXCEPT ![k] = "none"] /\ dirty' = dirty \ {k}
    /\ IF k \in dirty
       THEN disk' = LocalDisk(k) /\ sent' = LocalNotified(k) /\ LocalStored(k, 0)
       ELSE UNCHANGED <<disk, sent, updates>>
    /\ UNCHANGED <<req, flags, rflags, step, nth, status, owner, ro, notify, kept>>

Served == (\A t \in Trans : step[t] = "done") /\ UNCHANGED cmdVars

-----------------------------------------------------------------------------
CommandsInit ==
    /\ req \in {r \in [Trans -> UNION {RequestsOf[t] : t \in Trans}] : \A t \in Trans : r[t] \in RequestsOf[t]}
    /\ flags = [t \in Trans |-> req[t].flags] /\ rflags = [t \in Trans |-> {}]
    /\ step = [t \in Trans |-> "new"] /\ nth = [t \in Trans |-> 0] /\ status = [t \in Trans |-> FALSE]
    /\ sent = [t \in Trans |-> <<>>]
    /\ owner = [k \in Keys |-> Nobody]
    /\ cached = [k \in Keys |-> "none"] /\ dirty = {} /\ disk \in {{}, Keys} /\ ro = FALSE
    /\ notify = <<>> /\ updates = [t \in Trans |-> 0] /\ kept = {}

Control(t) == Auth(t) \/ Status(t) \/ ReverseLookup(t) \/ RouteList(t) \/ StatCount(t) \/ NotifyAdd(t) \/ NotifyRemove(t)
Store(t) == RefuseReadOnly(t) \/ WriteCached(t) \/ WriteOverAppend(t) \/ WriteDisk(t) \/ Del(t)
Fetch(t) == Read(t) \/ LookupCache(t) \/ LookupLocal(t) \/ LookupDisk(t)
Bulk(t) == BulkStart(t) \/ BulkLock(t) \/ BulkRead(t)
Serve(t) == Start(t) \/ Control(t) \/ Store(t) \/ Fetch(t) \/ Bulk(t) \/ Finish(t)

CommandsNext == (\E t \in Trans : Serve(t)) \/ (\E k \in Keys : Sync(k) \/ Evict(k)) \/ Served

CommandsSpec == CommandsInit /\ [][CommandsNext]_cmdVars

-----------------------------------------------------------------------------
Final(t) == {i \in DOMAIN sent[t] : sent[t][i].final}
Wants(t) == "NEED_ACK" \in req[t].flags /\ req[t].cmd # "NOTIFY"
Infos(t) == {i \in DOMAIN sent[t] : sent[t][i].what = "info"}

\* A lookup that the cache and the backend both answered.
LookedTwice(t) == req[t].cmd = "LOOKUP" /\ Cardinality(Infos(t)) > 1

\* The client's transaction ends with the final reply: nothing is sent after
\* it, not even by a notification that is removed while the key is written.
\* Only a lookup of a cached key that reached the disk between the two looks
\* may be answered again.
NothingAfterFinal == \A t \in Trans : ~LookedTwice(t) => Final(t) \subseteq {Len(sent[t])}

\* Every request that asked for an acknowledge ends the client's transaction,
\* whichever of the cache, the backend and the dispatcher answers it: a handler
\* that drops the flag has answered itself.
AckSent == \A t \in Trans : step[t] = "done" /\ Wants(t) => Final(t) # {}

MeetsAppend(t) ==
    /\ req[t].cmd = "WRITE" /\ req[t].flags \cap {"APPEND", "NOCACHE"} = {}
    /\ \E u \in Trans : req[u].cmd = "WRITE" /\ {"APPEND", "CACHE"} \subseteq req[u].flags /\ Key(u) = Key(t)

\* The same, but for a write that may meet an append in the cache.
AckSentButAppend ==
    \A t \in Trans : step[t] = "done" /\ Wants(t) /\ ~MeetsAppend(t) => Final(t) # {}

\* A notification hears of every write the backend stored since it was added,
\* also of those the cache made later (but not of one that went past the
\* dispatcher because it met an append), and is ended when it is removed.
NotifiedOfWrites ==
    \A t \in Trans : req[t].cmd = "NOTIFY" /\ step[t] = "done" =>
        /\ \/ Cardinality({i \in DOMAIN sent[t] : sent[t][i].what = "notification"}) = updates[t]
           \/ \E u \in Trans : MeetsAppend(u) /\ Key(u) = Key(t)
        /\ Final(t) = {} <=> \E i \in DOMAIN notify : notify[i] = t

\* Lookups with DNET_FLAGS_NOLOCK: cache_t::lookup() loses the flag, and the
\* command unlocks what it never locked.
LostNoLock(t) == "NOLOCK" \in req[t].flags /\ "NOLOCK" \notin flags[t]

\* A command that must be locked owns the lock of its key from dnet_oplock() to
\* the acknowledge, also after a bulk read gave it away and took it back.
LockedWhileServed ==
    \A t \in Trans :
        step[t] \in {"run", "lookup", "file_info", "bulk_read", "ack"} /\ "NOLOCK" \notin req[t].flags =>
            owner[Key(t)] = t \/ \E u \in Trans : LostNoLock(u)

\* DNET_FLAGS_NOLOCK means that the command has nothing to do with the lock.
NoLockKeepsLocks ==
    [][\A t \in Trans : "NOLOCK" \in req[t].flags /\ step'[t] # step[t] => owner' = owner]_cmdVars

\* A bulk read answers with the data of the keys it read, then one final
\* acknowledge, also when there is nothing to read.
BulkAnswered ==
    \A t \in Trans : req[t].cmd = "BULK_READ" /\ step[t] = "done" =>
        /\ nth[t] = Len(req[t].keys)
        /\ Final(t) = {Len(sent[t])} /\ sent[t][Len(sent[t])].what = "ack"
        /\ \A i \in DOMAIN sent[t] : sent[t][i].what = "data" => sent[t][Len(sent[t])].ok

\* What was written with success stays in the cache or on the disk until it is
\* removed, unless the node went read-only: then the cache's own writes are
\* refused too, and what was dirty is lost when it leaves the cache.
WrittenIsKept ==
    \A k \in kept : \/ k \in disk \/ cached[k] # "none"
                     \/ \E t \in Trans : req[t].cmd = "STATUS" /\ req[t].ro

\* Every request is served, bulk reads that wait for their lock again included.
AllServed == \A t \in Trans : <>(step[t] = "done")

=============================================================================
