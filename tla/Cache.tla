------------------------------- MODULE Cache -------------------------------
(***************************************************************************)
(* One cache_t of the in-memory cache (src/cache/cache.cpp) as the io      *)
(* threads and the life-check thread use it: READ, WRITE and DEL commands  *)
(* arrive with the operation lock of their key (dnet_process_cmd_raw), the *)
(* cache works under m_lock and gives it up around every disk operation    *)
(* that it does not make in erase_element, and the life-check thread       *)
(* expires objects and writes dirty ones back.                             *)
(*                                                                         *)
(* A step is what happens under one hold of m_lock, or one disk operation  *)
(* made without it.  The content of an object is the sequence of the       *)
(* chunks written to it; every chunk has size 1.                           *)
(***************************************************************************)
EXTENDS Integers, Sequences, FiniteSets, TLC

LOCAL INSTANCE Functions

CONSTANTS
    Keys,          \* ids of objects
    Workers,       \* io threads
    Requests,      \* the requests clients may send, a set of records (see Request)
    MaxSize,       \* m_max_cache_size
    SyncTimeout,   \* n->cache_sync_timeout
    MaxCommands,   \* bound: number of commands processed
    MaxTime,       \* bound: the clock
    NoKey

VARIABLES
    set,      \* m_set: the objects, by key
    lru,      \* m_lru, least recently used first
    lifeset,  \* m_lifeset
    syncset,  \* m_syncset
    used,     \* m_cache_size
    disk,     \* what the backend stores: key -> content or Absent
    oplock,   \* key -> the thread that holds its operation lock
    worker,   \* io threads
    life,     \* the life-check thread
    now,      \* time(NULL)
    exit,     \* m_need_exit, then the destructor
    issued,   \* commands started so far; also names the chunk a write brings
    unlinked, \* the containers an object was erased from without being linked there
    truth,    \* history: what a client of the key expects to read
    raced,    \* history: keys changed while the life-check thread had them in flight
    soft,     \* history: keys some CACHE_ONLY command touched
    casBroken \* history: a compare-and-swap write replaced content it did not name

cacheVars == <<set, lru, lifeset, syncset, used>>
history == <<truth, raced, soft, casBroken>>
vars == <<cacheVars, disk, oplock, worker, life, now, exit, issued, unlinked, history>>

Absent == <<0>>           \* no content; chunks are positive, Hole fills a gap
Hole == -1                \* a byte nobody wrote (vector::resize fills with zeroes)
Free == "free"
LifeCheck == "life"

\* A client request.  "cas" says that it is a compare-and-swap whose checksum
\* (io->parent) is that of no content the key ever has.
Request == [op: {"read", "write", "del"}, key: Keys, cache: BOOLEAN, only: BOOLEAN,
            append: BOOLEAN, offset: {0, 1}, life: Nat, fromDisk: BOOLEAN, cas: BOOLEAN]

ASSUME CacheAssumption ==
    /\ MaxSize \in Nat /\ SyncTimeout \in Nat \ {0} /\ MaxCommands \in Nat /\ MaxTime \in Nat
    /\ Requests \subseteq Request /\ NoKey \notin Keys

\* data_t: lifetime and synctime are 0 when unset.
Object(data, fromDisk) ==
    [data |-> data, lifetime |-> 0, synctime |-> 0,
     fromDisk |-> fromDisk, drop |-> FALSE, onlyAppend |-> FALSE]

NoRequest == [op |-> "none", key |-> NoKey]
Idle == [pc |-> "idle", req |-> NoRequest, chunk |-> 0, data |-> <<>>]
Sleeping == [pc |-> "life", key |-> NoKey, data |-> <<>>, remove |-> <<>>]

Cached(k) == k \in DOMAIN set

-----------------------------------------------------------------------------
(* Contents. *)

\* What a write at an offset leaves of the old content: everything in front of
\* the offset, and nothing behind what is written.
Overwrite(old, offset, chunk) ==
    [i \in 1..(offset + 1) |-> IF i = offset + 1 THEN chunk
                               ELSE IF i <= Len(old) THEN old[i] ELSE Hole]

Content(v) == IF v = Absent THEN <<>> ELSE v

\* The backend's WRITE handler.
DiskWrite(k, req, chunk) ==
    IF req.append THEN Append(Content(disk[k]), chunk)
                  ELSE Overwrite(Content(disk[k]), req.offset, chunk)

-----------------------------------------------------------------------------
(* The containers.  A state of the cache is a record, so that the helpers  *)
(* compose as the calls of the code do.                                    *)

State == [set |-> set, lru |-> lru, lifeset |-> lifeset, syncset |-> syncset,
          used |-> used, disk |-> disk, unlinked |-> unlinked]

Become(s) ==
    /\ set' = s.set /\ lru' = s.lru /\ lifeset' = s.lifeset /\ syncset' = s.syncset
    /\ used' = s.used /\ disk' = s.disk /\ unlinked' = s.unlinked

Unlru(s, k) == [s EXCEPT !.lru = SelectSeq(s.lru, LAMBDA x : x # k)]

\* Faulty form: nothing is written.
SyncElementNot(s, k, o) == s

\* sync_element: a whole write, or an append of what was only appended.
SyncElement(s, k, o) ==
    [s EXCEPT !.disk[k] = IF o.onlyAppend THEN Content(s.disk[k]) \o o.data ELSE o.data]

\* erase_element.  A dirty object is written to disk with m_lock held.
EraseElement(s, k) ==
    LET o  == s.set[k]
        s1 == IF o.synctime # 0 THEN SyncElement(s, k, o) ELSE s
    IN  [Unlru(s1, k) EXCEPT
            !.set = Restrict(@, DOMAIN @ \ {k}),
            !.lifeset = @ \ {k},
            !.syncset = @ \ {k},
            !.used = @ - Len(o.data),
            !.unlinked = @ \cup (IF o.lifetime # 0 /\ k \notin s.lifeset THEN {"m_lifeset"} ELSE {})
                           \cup (IF o.synctime # 0 /\ k \notin s.syncset THEN {"m_syncset"} ELSE {})]

\* resize, from the element at position i of m_lru on.
RECURSIVE ResizeFrom(_, _, _, _)
ResizeFrom(s, i, removed, reserve) ==
    IF i > Len(s.lru) \/ MaxSize + removed > s.used + reserve THEN s
    ELSE LET k == s.lru[i]
             o == s.set[k]
         IN  IF o.synctime # 0 \/ o.drop
             THEN LET s1 == IF o.drop THEN s
                            ELSE [s EXCEPT !.set[k].drop = TRUE, !.set[k].synctime = 1]
                  IN  ResizeFrom(s1, i + 1, removed + Len(o.data), reserve)
             ELSE ResizeFrom(EraseElement(s, k), i, removed, reserve)

Resize(s, reserve) == ResizeFrom(s, 1, 0, reserve)

\* create_data
CreateData(s, k, data, fromDisk) ==
    LET s1 == IF s.used + Len(data) > MaxSize THEN Resize(s, Len(data)) ELSE s
    IN  [s1 EXCEPT !.set = (k :> Object(data, fromDisk)) @@ @, !.lru = Append(@, k),
                   !.used = @ + Len(data)]

\* The middle of write: make room for the new size, move the object to the end.
Reserve(s, k, size) ==
    LET s1 == Unlru([s EXCEPT !.used = @ - Len(s.set[k].data)], k)
        s2 == IF s1.used + size > MaxSize THEN Resize(s1, size * 2) ELSE s1
    IN  [s2 EXCEPT !.lru = Append(@, k), !.used = @ + size]

\* The last part of write, for an object that is in m_set.  A write without a
\* lifetime takes the object out of m_lifeset and leaves its lifetime as it is.
Modify(s, k, req, chunk) ==
    LET old  == s.set[k].data
        data == IF req.append THEN Append(old, chunk) ELSE Overwrite(old, req.offset, chunk)
        s1   == Reserve(s, k, Len(data))
        o    == s1.set[k]
        sync == o.synctime = 0 /\ ~req.only
    IN  [s1 EXCEPT
            !.set[k] = [o EXCEPT !.drop = FALSE, !.data = data,
                                 !.synctime = IF sync THEN now + SyncTimeout ELSE @,
                                 !.lifetime = IF req.life # 0 THEN req.life + now ELSE @],
            !.syncset = IF sync THEN @ \cup {k} ELSE @,
            !.lifeset = (@ \ {k}) \cup (IF req.life # 0 THEN {k} ELSE {}),
            !.unlinked = @ \cup (IF o.lifetime # 0 /\ k \notin s1.lifeset THEN {"m_lifeset"} ELSE {})]

\* The append-only branch of write.
AppendOnly(s, k, chunk) ==
    LET s1 == IF k \in DOMAIN s.set THEN s
              ELSE [CreateData(s, k, <<>>, FALSE) EXCEPT
                        !.set[k].onlyAppend = TRUE,
                        !.set[k].synctime = now + SyncTimeout,
                        !.syncset = @ \cup {k}]
        s2 == Reserve(s1, k, Len(s1.set[k].data) + 1)
    IN  [s2 EXCEPT !.set[k].data = Append(@, chunk)]

\* The first part of sync_after_append: the object leaves the cache, its data
\* still has to be appended to the disk after m_lock is released.
DetachAppended(s, k) ==
    EraseElement([s EXCEPT !.set[k].synctime = 0, !.syncset = @ \ {k}], k)

\* The LRU touch of read.
Touch(s, k) == [Unlru(s, k) EXCEPT !.lru = Append(@, k), !.set[k].drop = FALSE]

-----------------------------------------------------------------------------
(* History: what clients expect, and what the life-check thread has in     *)
(* flight: an object taken out of the cache to be appended to the disk, a  *)
(* copy waiting to be written back, a key waiting to be removed from disk. *)

InFlight(k) == \/ life.key = k /\ life.pc \in {"append", "lock"}
               \/ \E i \in DOMAIN life.remove : life.remove[i] = k

Stored(t, k) == IF k \in DOMAIN t THEN t[k].data ELSE Absent

\* Keys in flight that the step of w works on or drops from the cache.
NoteRace(w) ==
    raced' = raced \cup {k \in Keys : InFlight(k) /\ (\/ k = worker[w].req.key
                                                      \/ Stored(set', k) # Stored(set, k))}

Expect(k, v) == truth' = [truth EXCEPT ![k] = v]

-----------------------------------------------------------------------------
(* Io threads. *)

Goto(w, pc) == worker' = [worker EXCEPT ![w].pc = pc]
Carry(w, pc, data) == worker' = [worker EXCEPT ![w].pc = pc, ![w].data = data]

\* Faulty form: nobody waits.
TakesAnyway(k, who) == oplock' = [oplock EXCEPT ![k] = who]

\* dnet_oplock
Takes(k, who) == oplock[k] = Free /\ oplock' = [oplock EXCEPT ![k] = who]

\* A command is taken from the queue and its operation lock is acquired.
Start(w) ==
    /\ worker[w].pc = "idle" /\ exit = "no"
    /\ issued < MaxCommands /\ now + SyncTimeout <= MaxTime
    /\ \E req \in Requests :
        /\ Takes(req.key, w)
        /\ worker' = [worker EXCEPT ![w] = [pc |-> "cache", req |-> req, chunk |-> issued + 1,
                                            data |-> <<>>]]
        /\ soft' = IF req.only THEN soft \cup {req.key} ELSE soft
    /\ issued' = issued + 1
    /\ UNCHANGED <<cacheVars, disk, life, now, exit, unlinked, truth, raced, casBroken>>

\* The command is answered and the operation lock released.
Finish(w) ==
    /\ worker[w].pc = "done"
    /\ oplock' = [oplock EXCEPT ![worker[w].req.key] = Free]
    /\ worker' = [worker EXCEPT ![w] = Idle]
    /\ UNCHANGED <<cacheVars, disk, life, now, exit, issued, unlinked, history>>

CacheStep(w, op) == worker[w].pc = "cache" /\ worker[w].req.op = op
Others == UNCHANGED <<oplock, life, now, exit, issued, soft>>

\* cache_t::write up to its first return or release of m_lock.
WriteMiss(w) ==
    LET req == worker[w].req IN
    /\ CacheStep(w, "write") /\ ~Cached(req.key) /\ ~req.cache
    /\ Goto(w, "backend")
    /\ UNCHANGED <<cacheVars, disk, unlinked, truth, raced, casBroken>> /\ Others

WriteAppends(w) ==
    LET req == worker[w].req
        k   == req.key
    IN
    /\ CacheStep(w, "write") /\ ~req.only /\ req.append
    /\ Cached(k) \/ req.cache
    /\ Cached(k) => set[k].onlyAppend
    /\ Become(AppendOnly(State, k, worker[w].chunk))
    /\ Expect(k, Append(Content(truth[k]), worker[w].chunk))
    /\ Goto(w, "done")
    /\ NoteRace(w) /\ UNCHANGED casBroken /\ Others

\* A write that is not an append to an object that was only appended: its data
\* goes to disk first, then the command itself, then the object is read back.
WriteAfterAppends(w) ==
    LET req == worker[w].req IN
    /\ CacheStep(w, "write") /\ ~req.only /\ ~req.append
    /\ Cached(req.key) /\ set[req.key].onlyAppend
    /\ Carry(w, "writeSync", set[req.key].data)
    /\ Become(DetachAppended(State, req.key))
    /\ UNCHANGED <<truth, casBroken>> /\ NoteRace(w) /\ Others

\* A write behind the start of an object that is not cached reads it first.
WritePopulates(w) ==
    LET req == worker[w].req IN
    /\ CacheStep(w, "write") /\ ~Cached(req.key) /\ req.cache
    /\ ~req.only /\ ~req.append /\ req.offset # 0
    /\ Goto(w, "writePopulate")
    /\ UNCHANGED <<cacheVars, disk, unlinked, truth, raced, casBroken>> /\ Others

\* The rest of write, on the state s in which the object is ensured.
WriteData(w, s) ==
    LET req == worker[w].req
        k   == req.key
        s1  == IF k \in DOMAIN s.set THEN s ELSE CreateData(s, k, <<>>, req.fromDisk)
        mismatch == req.cas /\ s1.set[k].data # <<>>
    IN
    /\ Become(IF mismatch THEN s1 ELSE Modify(s1, k, req, worker[w].chunk))
    /\ Goto(w, "done")
    /\ IF mismatch THEN UNCHANGED <<truth, casBroken>>
       ELSE /\ Expect(k, IF req.append THEN Append(Content(truth[k]), worker[w].chunk)
                         ELSE Overwrite(Content(truth[k]), req.offset, worker[w].chunk))
            /\ casBroken' = (casBroken \/ (req.cas /\ truth[k] # Absent))
    /\ NoteRace(w) /\ Others

WriteCached(w) ==
    LET req == worker[w].req
        k   == req.key
    IN
    /\ CacheStep(w, "write") /\ (Cached(k) \/ req.cache)
    /\ req.only \/ ~(IF Cached(k) THEN set[k].onlyAppend ELSE req.append)
    /\ req.only \/ Cached(k) \/ req.offset = 0
    /\ WriteData(w, State)

\* cache_t::read
ReadHit(w) ==
    LET k == worker[w].req.key IN
    /\ CacheStep(w, "read") /\ Cached(k) /\ ~set[k].onlyAppend
    /\ Become(Touch(State, k))
    /\ Carry(w, "done", set[k].data)
    /\ UNCHANGED <<truth, raced, casBroken>> /\ Others

ReadAppended(w) ==
    LET k == worker[w].req.key IN
    /\ CacheStep(w, "read") /\ Cached(k) /\ set[k].onlyAppend
    /\ Carry(w, "readSync", set[k].data)
    /\ Become(DetachAppended(State, k))
    /\ UNCHANGED <<truth, casBroken>> /\ NoteRace(w) /\ Others

\* What read does when the object is not cached: populate, or answer ENOENT, or
\* ENOTSUP, which sends the command to the backend.
ReadNext(req) == IF req.cache /\ ~req.only THEN "readPopulate"
                 ELSE IF req.cache THEN "done" ELSE "backend"

ReadMiss(w) ==
    /\ CacheStep(w, "read") /\ ~Cached(worker[w].req.key)
    /\ Goto(w, ReadNext(worker[w].req))
    /\ UNCHANGED <<cacheVars, disk, unlinked, truth, raced, casBroken>> /\ Others

\* cache_t::remove, up to the release of m_lock.
Remove(w) ==
    LET req == worker[w].req
        k   == req.key
        s   == IF set[k].synctime # 0 /\ ~req.only
               THEN [State EXCEPT !.set[k].synctime = 0, !.syncset = @ \ {k}] ELSE State
    IN
    /\ CacheStep(w, "del")
    /\ IF Cached(k)
       THEN /\ Become(EraseElement(s, k))
            /\ Goto(w, IF ~req.only \/ set[k].fromDisk THEN "removeDisk" ELSE "done")
       ELSE /\ Goto(w, IF ~req.only THEN "removeDisk" ELSE "done")
            /\ UNCHANGED <<cacheVars, disk, unlinked>>
    /\ UNCHANGED <<truth, casBroken>> /\ NoteRace(w) /\ Others

-----------------------------------------------------------------------------
(* Disk operations of an io thread, m_lock released. *)

DiskStep(w) == UNCHANGED <<cacheVars, unlinked>> /\ NoteRace(w) /\ Others

\* The second part of sync_after_append.
SyncAppended(w) ==
    LET k == worker[w].req.key IN
    /\ worker[w].pc \in {"writeSync", "readSync"}
    /\ disk' = [disk EXCEPT ![k] = Content(@) \o worker[w].data]
    /\ Goto(w, IF worker[w].pc = "writeSync" THEN "handler" ELSE ReadNext(worker[w].req))
    /\ UNCHANGED <<truth, casBroken>> /\ DiskStep(w)

\* The command handler of the backend, called by the write that follows an append
\* or by dnet_process_cmd_raw when the cache does not want the command.
Backend(w) ==
    LET req == worker[w].req
        k   == req.key
        mismatch == req.cas /\ worker[w].pc = "backend" /\ disk[k] # Absent
    IN
    /\ worker[w].pc \in {"handler", "backend"}
    /\ CASE req.op = "write" /\ ~mismatch ->
              /\ disk' = [disk EXCEPT ![k] = DiskWrite(k, req, worker[w].chunk)]
              /\ Expect(k, IF req.append THEN Append(Content(truth[k]), worker[w].chunk)
                           ELSE Overwrite(Content(truth[k]), req.offset, worker[w].chunk))
              /\ Carry(w, IF worker[w].pc = "handler" THEN "writeReread" ELSE "done", <<>>)
         [] req.op = "write" /\ mismatch ->
              Goto(w, "done") /\ UNCHANGED <<disk, truth>>
         [] req.op = "read" ->
              Carry(w, "done", Content(disk[k])) /\ UNCHANGED <<disk, truth>>
    /\ casBroken' = (casBroken \/ (req.op = "write" /\ req.cas /\ ~mismatch /\ truth[k] # Absent))
    /\ DiskStep(w)

\* populate_from_disk reads the object ...
PopulateRead(w) ==
    LET k == worker[w].req.key IN
    /\ worker[w].pc \in {"writePopulate", "writeReread", "readPopulate"}
    /\ Carry(w, CASE worker[w].pc = "writePopulate" -> "writeCreate"
                  [] worker[w].pc = "writeReread" -> "rereadCreate"
                  [] OTHER -> "readCreate", disk[k])
    /\ UNCHANGED <<disk, truth, casBroken>> /\ DiskStep(w)

\* ... and makes an element of it with m_lock taken again.  Without one, a read
\* that had to populate answers ENOENT.
Populated(w) ==
    LET req == worker[w].req
        k   == req.key
        s   == IF worker[w].data = Absent THEN State
               ELSE CreateData(State, k, worker[w].data,
                               worker[w].pc = "writeCreate" /\ req.fromDisk)
    IN
    \/ /\ worker[w].pc = "writeCreate"
       /\ WriteData(w, s)
    \/ /\ worker[w].pc \in {"rereadCreate", "readCreate"}
       /\ Become(IF worker[w].pc = "readCreate" /\ k \in DOMAIN s.set THEN Touch(s, k) ELSE s)
       /\ Carry(w, "done", Content(worker[w].data))
       /\ UNCHANGED <<truth, casBroken>> /\ NoteRace(w) /\ Others

\* dnet_remove_local
RemoveDisk(w) ==
    LET k == worker[w].req.key IN
    /\ worker[w].pc = "removeDisk"
    /\ disk' = [disk EXCEPT ![k] = Absent]
    /\ Expect(k, Absent)
    /\ Goto(w, "done") /\ UNCHANGED casBroken /\ DiskStep(w)

-----------------------------------------------------------------------------
(* The life-check thread. *)

LifeGoto(pc) == life' = [life EXCEPT !.pc = pc]
LifeOthers == UNCHANGED <<worker, now, exit, issued, soft, casBroken>>
Quiet == UNCHANGED <<cacheVars, disk, oplock, unlinked, truth, raced>>

Oldest(ks, time) == {k \in ks : \A j \in ks : set[k][time] <= set[j][time]}
Lifetime(k) == set[k].lifetime
Synctime(k) == set[k].synctime

\* One object whose time is over.  It is written to disk if it is dirty; it is
\* removed from disk later, if its writer asked for that.
Expire ==
    /\ life.pc = "life" /\ exit = "no"
    /\ \E k \in Oldest(lifeset, "lifetime") :
        /\ Lifetime(k) <= now
        /\ life' = IF set[k].fromDisk THEN [life EXCEPT !.remove = Append(@, k)] ELSE life
        /\ Become(EraseElement(State, k))
        /\ raced' = raced \cup (IF InFlight(k) THEN {k} ELSE {})
        /\ Expect(k, IF set[k].fromDisk THEN Absent ELSE truth[k])
    /\ UNCHANGED oplock /\ LifeOthers

ExpireDone ==
    /\ life.pc = "life"
    /\ exit # "no" \/ \A k \in lifeset : Lifetime(k) > now
    /\ LifeGoto("sync") /\ Quiet /\ LifeOthers

\* One dirty object is due.  The objects that were only appended leave the cache;
\* of the others a copy is taken.  m_lock is released before the operation lock
\* is acquired.
SyncDue ==
    /\ life.pc = "sync" /\ exit = "no"
    /\ \E k \in Oldest(syncset, "synctime") :
        /\ Synctime(k) <= now
        /\ life' = [life EXCEPT !.pc = IF set[k].onlyAppend THEN "append" ELSE "lock",
                                !.key = k, !.data = set[k].data]
        /\ IF set[k].onlyAppend
           THEN Become(DetachAppended(State, k))
           ELSE Become([State EXCEPT !.set[k].synctime = 0, !.syncset = @ \ {k}])
        /\ raced' = raced \cup (IF InFlight(k) THEN {k} ELSE {})
    /\ UNCHANGED <<oplock, truth>> /\ LifeOthers

LifeAppend ==
    /\ life.pc = "append"
    /\ disk' = [disk EXCEPT ![life.key] = Content(@) \o life.data]
    /\ life' = [life EXCEPT !.pc = "sync", !.key = NoKey, !.data = <<>>]
    /\ UNCHANGED <<cacheVars, oplock, unlinked, truth, raced>> /\ LifeOthers

LifeLock ==
    /\ life.pc = "lock"
    /\ Takes(life.key, LifeCheck)
    /\ LifeGoto("write")
    /\ UNCHANGED <<cacheVars, disk, unlinked, truth, raced>> /\ LifeOthers

LifeWrite ==
    /\ life.pc = "write"
    /\ disk' = [disk EXCEPT ![life.key] = life.data]
    /\ oplock' = [oplock EXCEPT ![life.key] = Free]
    /\ LifeGoto("relock")
    /\ UNCHANGED <<cacheVars, unlinked, truth, raced>> /\ LifeOthers

\* An object that resize marked leaves the cache once it is on disk.
LifeErase ==
    /\ life.pc = "relock"
    /\ IF Cached(life.key) /\ set[life.key].drop
       THEN Become(EraseElement(State, life.key))
       ELSE UNCHANGED <<cacheVars, disk, unlinked>>
    /\ life' = [life EXCEPT !.pc = "sync", !.key = NoKey, !.data = <<>>]
    /\ UNCHANGED <<oplock, truth, raced>> /\ LifeOthers

SyncDone ==
    /\ life.pc = "sync"
    /\ exit # "no" \/ \A k \in syncset : Synctime(k) > now
    /\ LifeGoto("remove") /\ Quiet /\ LifeOthers

LifeRemove ==
    /\ life.pc = "remove"
    /\ IF life.remove # <<>>
       THEN /\ disk' = [disk EXCEPT ![Head(life.remove)] = Absent]
            /\ life' = [life EXCEPT !.remove = Tail(@)]
       ELSE /\ life' = [Sleeping EXCEPT !.pc = IF exit = "no" THEN "life" ELSE "joined"]
            /\ UNCHANGED disk
    /\ UNCHANGED <<cacheVars, oplock, unlinked, truth, raced>> /\ LifeOthers

-----------------------------------------------------------------------------
(* The end: cache_manager stops the thread, joins it and empties the cache. *)

Stop ==
    /\ exit = "no" /\ \A w \in Workers : worker[w].pc = "idle"
    /\ exit' = "stop"
    /\ UNCHANGED <<cacheVars, disk, oplock, worker, life, now, issued, unlinked, history>>

\* The loops of ~cache_t: resize(0) with no size allowed, then m_syncset, then
\* m_lifeset.
RECURSIVE EraseAll(_, _)
EraseAll(s, ks) ==
    IF ks = {} THEN s
    ELSE LET k == CHOOSE x \in ks : TRUE IN EraseAll(EraseElement(s, k), ks \ {k})

Clean == {k \in Keys : Cached(k) /\ set[k].synctime = 0 /\ ~set[k].drop}

Destroy ==
    /\ exit = "stop" /\ life.pc = "joined"
    /\ exit' = "done"
    /\ LET s == EraseAll(EraseAll(State, Clean), syncset)
       IN  Become(EraseAll(s, s.lifeset))
    /\ UNCHANGED <<oplock, worker, life, now, issued, history>>

Tick == /\ now < MaxTime /\ exit = "no"
        /\ now' = now + 1
        /\ UNCHANGED <<cacheVars, disk, oplock, worker, life, exit, issued, unlinked, history>>

-----------------------------------------------------------------------------
Init ==
    /\ set = <<>> /\ lru = <<>> /\ lifeset = {} /\ syncset = {} /\ used = 0
    /\ disk = [k \in Keys |-> Absent]
    /\ oplock = [k \in Keys |-> Free]
    /\ worker = [w \in Workers |-> Idle]
    /\ life = Sleeping
    /\ now = 1 /\ exit = "no" /\ issued = 0 /\ unlinked = {}
    /\ truth = [k \in Keys |-> Absent] /\ raced = {} /\ soft = {} /\ casBroken = FALSE

WorkerNext(w) ==
    \/ Start(w) \/ Finish(w)
    \/ WriteMiss(w) \/ WriteAppends(w) \/ WriteAfterAppends(w)
    \/ WritePopulates(w) \/ WriteCached(w)
    \/ ReadHit(w) \/ ReadAppended(w) \/ ReadMiss(w) \/ Remove(w)
    \/ SyncAppended(w) \/ Backend(w) \/ PopulateRead(w) \/ Populated(w) \/ RemoveDisk(w)

LifeNext ==
    \/ Expire \/ ExpireDone \/ SyncDue \/ LifeAppend \/ LifeLock \/ LifeWrite
    \/ LifeErase \/ SyncDone \/ LifeRemove

\* What a set does after it erased an element of no set is not defined.
Next == /\ unlinked = {}
        /\ (\E w \in Workers : WorkerNext(w)) \/ LifeNext \/ Stop \/ Destroy \/ Tick

Spec == Init /\ [][Next]_vars

-----------------------------------------------------------------------------
(* Properties. *)

TypeOK ==
    /\ DOMAIN set \subseteq Keys /\ lifeset \subseteq Keys /\ syncset \subseteq Keys
    /\ \A k \in DOMAIN set : set[k].lifetime \in Nat /\ set[k].synctime \in Nat
    /\ used \in Nat /\ now \in 1..MaxTime /\ exit \in {"no", "stop", "done"}
    /\ oplock \in [Keys -> Workers \cup {Free, LifeCheck}]

\* The containers describe one set of objects, whatever the threads did: the LRU
\* list has every object of m_set once, m_syncset has the ones with a synctime,
\* and m_cache_size is the sum of their sizes (every function under m_lock).
ContainersAgree ==
    /\ Len(lru) = Cardinality(DOMAIN set) /\ {lru[i] : i \in DOMAIN lru} = DOMAIN set
    /\ syncset = {k \in DOMAIN set : set[k].synctime # 0}
    /\ lifeset \subseteq {k \in DOMAIN set : set[k].lifetime # 0}
    /\ used = FoldFunction(LAMBDA o, n : n + Len(o.data), 0, set)

\* populate_from_disk inserts an object without looking for one: m_lock was
\* released, only the operation lock keeps another thread from inserting it.
NoSecondObject ==
    \A w \in Workers : worker[w].pc \in {"writeCreate", "rereadCreate", "readCreate"}
                            => ~Cached(worker[w].req.key)

\* What a command that starts now would find: the cached content, appended to
\* what is on disk if it was only appended, or else the disk.
Visible(k) == IF ~Cached(k) THEN disk[k]
              ELSE IF set[k].onlyAppend THEN Content(disk[k]) \o set[k].data
              ELSE set[k].data

InProgress(k) == oplock[k] # Free
                 /\ (oplock[k] = LifeCheck \/ worker[oplock[k]].pc \notin {"cache", "done"})

\* Between commands a key reads as its last acknowledged write left it, except
\* while the life-check thread moves it, and unless a command changed it or
\* resize dropped it in the window in which that thread holds neither lock.
Coherent ==
    \A k \in Keys \ (raced \cup soft) :
        \/ InProgress(k)
        \/ InFlight(k) /\ ~(life.key = k /\ life.pc = "lock")
        \/ Visible(k) = truth[k]

\* After ~cache_t every acknowledged write that was not CACHE_ONLY is on disk.
StoppedThenDurable ==
    exit = "done" => set = <<>> /\ \A k \in Keys \ (raced \cup soft) : disk[k] = truth[k]

\* An object is erased only from containers it is linked in (safe_link hooks),
\* except that m_lifeset may be asked to erase one whose lifetime a later write
\* has dropped.
LinkedErase == unlinked \subseteq {"m_lifeset"}

\* The claim of the safe_link hooks without the exception.
AlwaysLinked == unlinked = {}

\* "raw.size() is zero only if there is no such file on the server" (write): a
\* compare-and-swap with the checksum of something else never replaces content.
CasCompares == ~casBroken

============================================================================
