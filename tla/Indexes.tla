------------------------------ MODULE Indexes ------------------------------
(***************************************************************************)
(* Updates of the secondary indexes of one object: update_indexes_functor, *)
(* process_internal_indexes (indexes/indexes.cpp) and the requests of      *)
(* session_set_indexes (bindings/cpp/session_indexes.cpp).                 *)
(*                                                                         *)
(* The object has a list of its indexes, and each index a table of its     *)
(* objects, kept on this node or on another one.  set_indexes() replaces   *)
(* the list, and the server of the list brings the tables up to date;      *)
(* update_indexes() merges into the list while the client itself sends to  *)
(* the tables.  An index without the object maps to None.                  *)
(*                                                                         *)
(* The operation lock of the object is kept as in OpLock.tla: an entry     *)
(* with a count of references, found by the key.  A dnet_opunlock works on *)
(* the entry the key has at that time.                                     *)
(***************************************************************************)
EXTENDS Integers, Sequences, FiniteSets

CONSTANTS
    Updates,    \* requests of clients
    Indices,
    Elsewhere,  \* indexes whose tables are on another node
    Wishes,     \* lists a client may ask for
    None,
    MaxFaults   \* bound: reads, writes, sends and remote updates that fail

Nothing == [i \in Indices |-> None]
NoList == None

VARIABLES
    wish,      \* update -> [kind, list]
    list,      \* the stored list, or NoList
    table,     \* index -> the object's data in its table
    upc,       \* update -> where its IO thread is
    read,      \* update -> what sess.read() gave
    old,       \* update -> remote_indexes
    inserts, removes,       \* update -> inserted_ids and removed_ids that are left
    requests_in_progress,
    scopes,    \* update -> replies to come from other nodes
    functor,   \* update -> the thread's own reference of the functor
    uerr,      \* update -> err is not 0
    finished,
    acks,      \* update -> status of every final answer to the client
    msgs,      \* INDEXES_INTERNAL requests on their way: [update, index, data, scope]
    lgen, lrefs, lbusy,     \* the lock's entry: its generation and references; generations that are locked
    ugen,      \* update -> generation of the entry it waits for or holds
    twice,     \* a lock that others hold or wait for was released once more
    ifaults

lockVars == <<lgen, lrefs, lbusy, ugen, twice>>
storeVars == <<list, table, msgs>>
threadVars == <<upc, read, old, inserts, removes, uerr, finished>>
countVars == <<requests_in_progress, scopes, functor, acks>>
indexVars == <<wish, storeVars, threadVars, countVars, lockVars, ifaults>>

IndexesInit ==
    /\ wish \in [Updates -> [kind : {"set", "update"}, list : Wishes]]
    /\ list = NoList /\ table = Nothing
    /\ upc = [u \in Updates |-> "new"]
    /\ read = [u \in Updates |-> NoList] /\ old = [u \in Updates |-> Nothing]
    /\ inserts = [u \in Updates |-> {}] /\ removes = [u \in Updates |-> {}]
    /\ requests_in_progress = [u \in Updates |-> 1] /\ scopes = [u \in Updates |-> 0]
    /\ functor = [u \in Updates |-> FALSE]
    /\ uerr = [u \in Updates |-> FALSE] /\ finished = [u \in Updates |-> FALSE]
    /\ acks = [u \in Updates |-> <<>>]
    /\ msgs = {}
    /\ lgen = 0 /\ lrefs = 0 /\ lbusy = {} /\ ugen = [u \in Updates |-> 0] /\ twice = FALSE
    /\ ifaults = 0

Goes(u, pc) == upc' = [upc EXCEPT ![u] = pc]
Fault == ifaults < MaxFaults /\ ifaults' = ifaults + 1

-----------------------------------------------------------------------------
(* The lock of the object.                                                 *)

Held(u) == ugen[u] \in lbusy /\ upc[u] \notin {"new", "wait"} /\ (functor[u] \/ scopes[u] > 0)

\* The client sends its requests: INDEXES_UPDATE, and INDEXES_INTERNAL for each
\* index of update_indexes().  dnet_oplock() finds or makes the entry.
Arrive(u) ==
    /\ upc[u] = "new"
    /\ Goes(u, "wait")
    /\ lgen' = IF lrefs = 0 THEN lgen + 1 ELSE lgen
    /\ lrefs' = lrefs + 1
    /\ ugen' = [ugen EXCEPT ![u] = lgen']
    /\ msgs' = IF wish[u].kind = "set" THEN msgs
               ELSE msgs \cup {[update |-> u, index |-> i, data |-> wish[u].list[i], scope |-> FALSE]
                                 : i \in {j \in Indices : wish[u].list[j] # None}}
    /\ UNCHANGED <<wish, list, table, read, old, inserts, removes, uerr, finished, countVars, lbusy, twice, ifaults>>

\* The lock is taken, and the functor made.
Locked(u) ==
    /\ upc[u] = "wait" /\ ugen[u] \notin lbusy
    /\ lbusy' = lbusy \cup {ugen[u]}
    /\ functor' = [functor EXCEPT ![u] = TRUE]
    /\ Goes(u, "read")
    /\ UNCHANGED <<wish, storeVars, read, old, inserts, removes, uerr, finished, requests_in_progress, scopes,
                   acks, lgen, lrefs, ugen, twice, ifaults>>

\* n calls of dnet_opunlock() in a row; only the first belongs to a dnet_oplock().
Unlocks(n) ==
    LET left == IF lrefs > n THEN lrefs - n ELSE 0
    IN  /\ lrefs' = left
        /\ lbusy' = IF lrefs > 1 THEN lbusy \ {lgen} ELSE lbusy

-----------------------------------------------------------------------------
(* update_indexes_functor::process().                                      *)

\* sess.read(): an error leaves no data, like an object without a list.
ReadList(u, fails) ==
    /\ upc[u] = "read"
    /\ IF fails THEN Fault ELSE UNCHANGED ifaults
    /\ LET data == IF fails THEN NoList ELSE list
       IN  /\ read' = [read EXCEPT ![u] = data]
           /\ old' = [old EXCEPT ![u] = IF data = NoList THEN Nothing ELSE data]
    /\ Goes(u, "convert")
    /\ UNCHANGED <<wish, storeVars, inserts, removes, uerr, finished, countVars, lockVars>>

\* Faulty form: the new list replaces the old one.
NewListReplaces(u) == wish[u].list

\* convert_object_indexes(): the new list, or both lists with the new data.
NewList(u) ==
    IF wish[u].kind = "set" THEN wish[u].list
    ELSE [i \in Indices |-> IF wish[u].list[i] # None THEN wish[u].list[i] ELSE old[u][i]]

Inserted(u) == {i \in Indices : wish[u].list[i] \notin {None, old[u][i]}}
Removed(u) == {i \in Indices : wish[u].list[i] = None /\ old[u][i] # None}

\* A list that is the same is not written, and nothing else is done.  Otherwise
\* the indexes with new data and those that are not in the list any more follow.
Convert(u, fails) ==
    /\ upc[u] = "convert"
    /\ IF fails THEN Fault ELSE UNCHANGED ifaults
    /\ IF read[u] # NoList /\ read[u] = NewList(u)
       THEN ~fails /\ Goes(u, "complete") /\ UNCHANGED <<list, inserts, removes, uerr>>
       ELSE /\ list' = IF fails THEN list ELSE NewList(u)
            /\ uerr' = [uerr EXCEPT ![u] = fails]
            /\ IF fails \/ wish[u].kind = "update"
               THEN Goes(u, "complete") /\ UNCHANGED <<inserts, removes>>
               ELSE /\ inserts' = [inserts EXCEPT ![u] = Inserted(u)]
                    /\ removes' = [removes EXCEPT ![u] = Removed(u)]
                    /\ Goes(u, "send")
    /\ UNCHANGED <<wish, table, msgs, read, old, finished, countVars, lockVars>>

\* The indexes still to be updated with place in Elsewhere (or not), the inserted
\* ones first.
Turn(u, place) ==
    LET ins == {i \in inserts[u] : (i \in Elsewhere) = place}
        rem == {i \in removes[u] : (i \in Elsewhere) = place}
    IN  IF ins # {} THEN ins ELSE rem

Taken(u, i) ==
    /\ inserts' = [inserts EXCEPT ![u] = @ \ {i}]
    /\ removes' = [removes EXCEPT ![u] = @ \ {i}]

SendRemote(u, i) ==
    /\ upc[u] = "send" /\ i \in Turn(u, TRUE)
    /\ Taken(u, i)
    /\ requests_in_progress' = [requests_in_progress EXCEPT ![u] = @ + 1]
    /\ scopes' = [scopes EXCEPT ![u] = @ + 1]
    /\ msgs' = msgs \cup {[update |-> u, index |-> i, data |-> wish[u].list[i], scope |-> TRUE]}
    /\ UNCHANGED <<wish, list, table, upc, read, old, uerr, finished, functor, acks, lockVars, ifaults>>

\* dnet_trans_alloc_send() fails: it has told on_reply_received(), which took
\* the request off the count, and send_remote() takes it off again.  The error is
\* kept in a variable of the loop; process() ends with its own err, which is 0.
SendFails(u, i) ==
    /\ upc[u] = "send" /\ i \in Turn(u, TRUE)
    /\ Fault
    /\ inserts' = [inserts EXCEPT ![u] = {}] /\ removes' = [removes EXCEPT ![u] = {}]
    /\ requests_in_progress' = [requests_in_progress EXCEPT ![u] = @ - 1]
    /\ Goes(u, "complete")
    /\ UNCHANGED <<wish, storeVars, read, old, uerr, finished, scopes, functor, acks, lockVars>>

\* convert_index_table() under the lock of the index.
Tabled(i, data) == table' = [table EXCEPT ![i] = data]

\* update_index_internal() for a table on this node.
Local(u, i, fails) ==
    /\ upc[u] = "send" /\ Turn(u, TRUE) = {} /\ i \in Turn(u, FALSE)
    /\ IF fails
       THEN /\ Fault /\ Goes(u, "complete") /\ uerr' = [uerr EXCEPT ![u] = TRUE]
            /\ inserts' = [inserts EXCEPT ![u] = {}] /\ removes' = [removes EXCEPT ![u] = {}]
            /\ UNCHANGED table
       ELSE Taken(u, i) /\ Tabled(i, wish[u].list[i]) /\ UNCHANGED <<upc, uerr, ifaults>>
    /\ UNCHANGED <<wish, list, msgs, read, old, finished, countVars, lockVars>>

Sent(u) ==
    /\ upc[u] = "send" /\ inserts[u] = {} /\ removes[u] = {}
    /\ Goes(u, "complete")
    /\ UNCHANGED <<wish, storeVars, read, old, inserts, removes, uerr, finished, countVars, lockVars, ifaults>>

\* The count of requests drops to zero.
Last(u) == requests_in_progress[u] = 1

\* complete(): a reply with more to follow.
Complete(u) ==
    /\ upc[u] = "complete"
    /\ requests_in_progress' = [requests_in_progress EXCEPT ![u] = @ - 1]
    /\ finished' = [finished EXCEPT ![u] = Last(u)]
    /\ Goes(u, "return")
    /\ UNCHANGED <<wish, storeVars, read, old, inserts, removes, uerr, scopes, functor, acks, lockVars, ifaults>>

\* dnet_process_indexes() has the last reference unless scopes of requests have one.
FreesFunctor(u) == scopes[u] = 0

\* dnet_process_indexes() lets go of the functor, whose destructor unlocks; then
\* dnet_process_cmd_raw() acknowledges and unlocks, unless it was told not to.
Return(u) ==
    /\ upc[u] = "return"
    /\ functor' = [functor EXCEPT ![u] = FALSE]
    /\ IF FreesFunctor(u) THEN Unlocks(1) ELSE UNCHANGED <<lrefs, lbusy>>
    /\ Goes(u, IF finished[u] /\ ~uerr[u] THEN "tail" ELSE "done")
    /\ UNCHANGED <<wish, storeVars, read, old, inserts, removes, uerr, finished, requests_in_progress, scopes,
                   acks, lgen, ugen, twice, ifaults>>

RawTail(u) ==
    /\ upc[u] = "tail"
    /\ acks' = [acks EXCEPT ![u] = Append(@, TRUE)]
    /\ twice' = (twice \/ lrefs > 0) /\ Unlocks(1)
    /\ Goes(u, "done")
    /\ UNCHANGED <<wish, storeVars, read, old, inserts, removes, uerr, finished, requests_in_progress, scopes,
                   functor, lgen, ugen, ifaults>>

-----------------------------------------------------------------------------
(* Tables on other nodes.                                                  *)

\* process_internal_indexes() of a client's own request.
Direct(m) ==
    /\ m \in msgs /\ ~m.scope
    /\ msgs' = msgs \ {m}
    /\ Tabled(m.index, m.data)
    /\ UNCHANGED <<wish, list, threadVars, countVars, lockVars, ifaults>>

\* process_internal_indexes() for another node, and on_reply_received() with its
\* answer: the last one is the final answer to the client, with the status of
\* this transaction; the last reference of the functor unlocks.  A transaction
\* that fails may still have been served (its answer was lost).
Remote(m, fails) ==
    /\ m \in msgs /\ m.scope
    /\ LET u == m.update
       IN  /\ msgs' = msgs \ {m}
           /\ IF fails THEN Fault /\ (UNCHANGED table \/ Tabled(m.index, m.data))
              ELSE Tabled(m.index, m.data) /\ UNCHANGED ifaults
           /\ requests_in_progress' = [requests_in_progress EXCEPT ![u] = @ - 1]
           /\ scopes' = [scopes EXCEPT ![u] = @ - 1]
           /\ acks' = IF Last(u) THEN [acks EXCEPT ![u] = Append(@, ~fails)] ELSE acks
           /\ IF scopes[u] = 1 /\ ~functor[u] THEN Unlocks(1) ELSE UNCHANGED <<lrefs, lbusy>>
    /\ UNCHANGED <<wish, list, threadVars, functor, lgen, ugen, twice>>

Updated == (\A u \in Updates : upc[u] = "done") /\ msgs = {} /\ UNCHANGED indexVars

-----------------------------------------------------------------------------
Process(u) ==
    \/ Locked(u) \/ Sent(u) \/ Complete(u) \/ Return(u) \/ RawTail(u)
    \/ \E fails \in BOOLEAN : ReadList(u, fails) \/ Convert(u, fails) \/ \E i \in Indices : Local(u, i, fails)
    \/ \E i \in Indices : SendRemote(u, i) \/ SendFails(u, i)

Deliver(m) == Direct(m) \/ \E fails \in BOOLEAN : Remote(m, fails)

IndexesNext ==
    \/ \E u \in Updates : Arrive(u) \/ Process(u)
    \/ \E m \in msgs : Deliver(m)
    \/ Updated

\* IO threads run, and every transaction ends.
IndexesSpec ==
    /\ IndexesInit /\ [][IndexesNext]_indexVars
    /\ \A u \in Updates : WF_indexVars(Arrive(u) \/ Process(u))
    /\ WF_indexVars(\E m \in msgs : Deliver(m))

-----------------------------------------------------------------------------
Quiet == (\A u \in Updates : upc[u] \in {"new", "done"}) /\ msgs = {}

\* While one update of the object is in progress, up to the last answer from
\* another node, no other one is, however they end: unless an update that needed
\* no other node released the lock twice.
UpdatesExclude == ~twice => \A u, v \in Updates : Held(u) /\ Held(v) => u = v

\* After set_indexes() the tables say what the list says, whatever the order in
\* which updates, and their requests to other nodes, were served (no failures,
\* and no lock that was released twice).
TablesFollowList ==
    Quiet /\ ifaults = 0 /\ ~twice /\ (\A u \in Updates : wish[u].kind = "set") =>
        table = IF list = NoList THEN Nothing ELSE list

\* update_indexes() never loses an index: what a client asked for stays in the
\* list and in the table if nobody replaces the list.
UpdatesMerge ==
    Quiet /\ ifaults = 0 /\ ~twice /\ (\A u \in Updates : wish[u].kind = "update") =>
        \A u \in Updates, i \in Indices :
            upc[u] = "done" /\ wish[u].list[i] # None => list[i] # None /\ table[i] # None

\* A client gets one final answer, and not before its tables are done.
AnsweredOnce ==
    \A u \in Updates : Len(acks[u]) <= 1 /\ (acks[u] # <<>> /\ ifaults = 0 => scopes[u] = 0 /\ upc[u] \in {"done", "return"})

\* Every update is answered when nothing fails.
UpdatesAnswered == \A u \in Updates : <>(acks[u] # <<>> \/ ifaults > 0)

\* indexes.cpp:762: "Do not send final ACK, it will be sent when all indexes are
\* fully updated": a final answer without an error means that they are.
AckedIsIndexed ==
    \A u \in Updates :
        acks[u] = <<TRUE>> /\ Quiet /\ wish[u].kind = "set" /\ (\A v \in Updates \ {u} : wish[v] = wish[u])
            => table = wish[u].list

\* debian/changelog:471: "Fixed timeout on error during indexes processing".
ErrorsAnswered == \A u \in Updates : <>(acks[u] # <<>>)

\* debian/changelog:280: the lock is dropped at the end of the functor, "and do
\* not unlock at the end of dnet_process_cmd_raw()": an update is alone.
UpdatesAlwaysExclude == \A u, v \in Updates : Held(u) /\ Held(v) => u = v
=============================================================================
