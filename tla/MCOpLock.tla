------------------------------ MODULE MCOpLock ------------------------------
(***************************************************************************)
(* The operation locks, and what relies on them: OpLock with an entry for  *)
(* each thread and with fewer, the tree that keeps the entries (and the    *)
(* transactions), the updates of secondary indexes, which hold the lock of *)
(* their object across messages, searches in indexes and the containers of *)
(* iterator responses.                                                     *)
(***************************************************************************)
EXTENDS OpLock, Sequences

CONSTANTS
    FewTryThreads, FewEntries, FewMaxRef, Updates, Indices, Elsewhere, Wishes,
    None, MaxFaults, Tables, Shards, Content, Queries, Missing, NGroups,
    Responses, MaxLen, MaxKey, i1, i2, d1, d2, x1, x2

VARIABLES
    part,    \* the component a behaviour is about; the others rest
    few_list, few_tree, few_refcnt, few_locked, few_waiting, few_pc, few_key,
    few_ent, few_exhausted,
    wish, list, table, upc, read, old, inserts, removes, requests_in_progress,
    scopes, functor, uerr, finished, acks, msgs, lgen, lrefs, lbusy, ugen,
    twice, ifaults,
    query, kind, stored, group, phase, answer, connected, unprocessed, ferr,
    found, completes,
    tree, present,
    box, sorted, at, diff, cpc

fewVars == <<few_list, few_tree, few_refcnt, few_locked, few_waiting, few_pc,
             few_key, few_ent, few_exhausted>>
indexVars == <<wish, list, table, upc, read, old, inserts, removes,
               requests_in_progress, scopes, functor, uerr, finished, acks,
               msgs, lgen, lrefs, lbusy, ugen, twice, ifaults>>
findVars == <<query, kind, stored, group, phase, answer, connected,
              unprocessed, ferr, found, completes>>
rbVars == <<tree, present>>
containerVars == <<box, sorted, at, diff, cpc>>
allVars == <<vars, fewVars, indexVars, findVars, rbVars, containerVars, part>>

Few == INSTANCE OpLock WITH
    TryThreads <- FewTryThreads, Entries <- FewEntries,
    MaxRef <- FewMaxRef, lock_list <- few_list, lock_tree <- few_tree,
    refcnt <- few_refcnt, locked <- few_locked, waiting <- few_waiting,
    pc <- few_pc, key <- few_key, ent <- few_ent,
    exhausted <- few_exhausted
Ix == INSTANCE Indexes
Find == INSTANCE IndexFind
Rb == INSTANCE RbTree
Box == INSTANCE Container

\* The lists a client asks for: no index, both, or another value in one.
MCWishes == {[i \in Indices |-> None], [i \in Indices |-> d1],
             [i \in Indices |-> IF i = i1 THEN d2 ELSE None]}

\* Ascending tables of two shards, with objects in common and without.
MCContent == <<{Missing, <<2>>, <<1, 2>>}, {Missing, <<3>>}>>
MCQueries == {<<x1>>, <<x1, x2>>, <<x1, x1>>}

\* Responses with equal keys, and with equal keys and times.
MCResponses == {[key |-> 1, ts |-> 1, size |-> 1], [key |-> 1, ts |-> 2, size |-> 1],
                [key |-> 1, ts |-> 1, size |-> 2], [key |-> 2, ts |-> 1, size |-> 1]}

-----------------------------------------------------------------------------
MCInit ==
    /\ part \in {"oplock", "few", "index", "find", "tree", "box"}
    /\ Init /\ (part # "oplock" => key = [t \in Threads |-> CHOOSE k \in Keys : TRUE])
    /\ IF part = "few" THEN Few!Init
       ELSE /\ few_list = 0 /\ few_tree = 0 /\ few_refcnt = 0
            /\ few_locked = 0 /\ few_waiting = 0 /\ few_pc = 0
            /\ few_key = 0 /\ few_ent = 0 /\ few_exhausted = 0
    /\ IF part = "index" THEN Ix!IndexesInit
       ELSE /\ wish = 0 /\ list = 0 /\ table = 0 /\ upc = 0 /\ read = 0
            /\ old = 0 /\ inserts = 0 /\ removes = 0
            /\ requests_in_progress = 0 /\ scopes = 0 /\ functor = 0
            /\ uerr = 0 /\ finished = 0 /\ acks = 0 /\ msgs = 0
            /\ lgen = 0 /\ lrefs = 0 /\ lbusy = 0 /\ ugen = 0 /\ twice = 0
            /\ ifaults = 0
    /\ IF part = "find" THEN Find!FindInit
       ELSE /\ query = 0 /\ kind = 0 /\ stored = 0 /\ group = 0
            /\ phase = 0 /\ answer = 0 /\ connected = 0 /\ unprocessed = 0
            /\ ferr = 0 /\ found = 0 /\ completes = 0
    /\ IF part = "tree" THEN Rb!RbInit
       ELSE tree = 0 /\ present = 0
    /\ IF part = "box" THEN Box!ContainerInit
       ELSE box = 0 /\ sorted = 0 /\ at = 0 /\ diff = 0 /\ cpc = 0

\* Component one takes a step, the others rest.
Only(one) ==
    /\ part = one /\ UNCHANGED part
    /\ one # "oplock" => UNCHANGED vars
    /\ one # "few" => UNCHANGED fewVars
    /\ one # "index" => UNCHANGED indexVars
    /\ one # "find" => UNCHANGED findVars
    /\ one # "tree" => UNCHANGED rbVars
    /\ one # "box" => UNCHANGED containerVars

MCNext ==
    \/ part = "oplock" /\ Next /\ Only("oplock")
    \/ part = "few" /\ Few!Next /\ Only("few")
    \/ part = "index" /\ Ix!IndexesNext /\ Only("index")
    \/ part = "find" /\ Find!FindNext /\ Only("find")
    \/ part = "tree" /\ Rb!RbNext /\ Only("tree")
    \/ part = "box" /\ Box!ContainerNext /\ Only("box")

\* Threads run on inside an operation, IO threads serve what they took, and
\* every transaction ends.
MCSpec ==
    /\ MCInit /\ [][MCNext]_allVars
    /\ \A t \in Threads : WF_vars(part = "oplock" /\ (OplockWait(t) \/ OplockGrab(t)))
    /\ \A t \in Threads : WF_vars(part = "oplock" /\ Opunlock(t))
    /\ \A t \in Threads : WF_vars(part = "oplock" /\ OpunlockClear(t))
    /\ \A u \in Updates : WF_indexVars(part = "index" /\ (Ix!Arrive(u) \/ Ix!Process(u)))
    /\ WF_indexVars(part = "index" /\ (\E m \in msgs : Ix!Deliver(m)))
    /\ WF_findVars(part = "find" /\ Find!Run)
    /\ \A s \in Shards : WF_findVars(part = "find" /\ Find!Shard(s))

-----------------------------------------------------------------------------
\* With fewer entries than threads, and callers of dnet_optrylock: a key still
\* has one holder, no entry serves a key nobody asked for, and the free list and
\* the tree share the entries, also when calls are refused.
FewEntriesSafe == part = "few" => Few!TypeOK /\ Few!MutualExclusion /\ Few!NoStaleEntry /\ Few!TableConsistent

\* While one update of the indexes of an object is in progress, up to the last
\* answer of another node, no other one is, unless an update that needed no other
\* node released the lock twice.  After set_indexes() the tables say what the
\* object's list says, update_indexes() loses no index that was asked for, and a
\* client gets one final answer, after the last table (indexes.cpp).
\* find_all_indexes() and find_any_indexes() give exactly the objects with all, or
\* any, of the indexes, each once with the data of each index that has it; a search
\* completes once, with an error if and only if a shard failed in every group.
IndexesExact ==
    /\ part = "index" =>
          Ix!UpdatesExclude /\ Ix!TablesFollowList /\ Ix!UpdatesMerge /\ Ix!AnsweredOnce
    /\ part = "find" => Find!FoundIsExact /\ Find!FindCompletesOnce

\* After any insertions and erasures (rbtree.c) the tree is a red-black tree of
\* exactly the keys that were inserted and not erased, in their order; and
\* dnet_iterator_response_container_diff() leaves exactly what has to be recovered,
\* each key once and in order.
StructuresExact ==
    /\ part = "tree" => Rb!RedBlack /\ Rb!WalkInOrder
    /\ part = "box" => Box!DiffIsExact

\* An update of indexes that nobody answered yet, a search that is not over.
Pending ==
    CASE part = "index" -> ifaults = 0 /\ \E u \in Updates : acks[u] = <<>>
      [] part = "find"  -> completes = <<>>
      [] OTHER          -> FALSE

\* A key that is waited for is granted again and again (locks.c); every update of
\* indexes is answered when nothing fails, in whatever order the lock, the tables
\* and the other nodes get to it, and every search completes.
LockedCallsEnd == KeyProgress /\ (Pending ~> ~Pending)
=============================================================================
