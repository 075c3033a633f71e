-------------------------------- MODULE Range --------------------------------
(***************************************************************************)
(* session::read_data_range() and remove_data_range() of                   *)
(* bindings/cpp/session.cpp with blob_read_range() of the eblob backend.   *)
(* The client walks over the ring of a group: dnet_search_range() gives    *)
(* the node that owns the current id and the id where its range ends, the  *)
(* node sends the keys it has there and their number, and the client goes  *)
(* on from the next id.  io.start and io.num are meant as LIMIT(start,     *)
(* num) and are carried from node to node.                                 *)
(***************************************************************************)
EXTENDS Naturals, Sequences, FiniteSets, FiniteSetsExt

CONSTANTS
    MaxId,      \* bound: ids are 0..MaxId
    KeySets,    \* what the group may store
    Limits,     \* io.start and io.num of the requests
    WORD        \* modulus of the unsigned counters

KeyIds == 0..MaxId
Stray == {0, 3}   \* what a reply that was never filled in may hold

VARIABLES
    ids,        \* ids of the group's nodes, ascending
    keys,       \* keys stored in the group
    command, first, last, start0, num0,
    rangepc,
    id, next, need_exit, has_any, io_start, io_num,
    rep_num,    \* scope::rep: the last summary a node sent
    last_exception,
    delivered,  \* delivered[k]: times key k came
    missed,     \* keys of the nodes that failed
    completions \* calls of handler.complete()

rangeVars == <<ids, keys, command, first, last, start0, num0, rangepc, id, next, need_exit, has_any,
               io_start, io_num, rep_num, last_exception, delivered, missed, completions>>
request == <<ids, keys, command, first, last, start0, num0>>

-----------------------------------------------------------------------------
(* __dnet_idc_search(): the binary search over the sorted ids of a group.   *)

Sorted(S) == [i \in 1..Cardinality(S) |-> CHOOSE x \in S : Cardinality({y \in S : y < x}) = i - 1]

\* A key before every id belongs to the last one.
Around(i) == IF i = 0 THEN Len(ids) ELSE i

IdcSearch(key) ==
    LET bisect[l \in 0..Len(ids), h \in 0..Len(ids) + 1] ==
            IF h - l <= 1 THEN h - 1
            ELSE LET i == l + (h - l) \div 2 IN
                 IF ids[i] < key THEN bisect[i, h]
                 ELSE IF ids[i] > key THEN bisect[l, i] ELSE i
    IN  Around(bisect[0, Len(ids) + 1])

SearchRange(key) ==
    LET i == IdcSearch(key)
    IN  [start |-> ids[i], next |-> ids[IF i = Len(ids) THEN 1 ELSE i + 1]]

\* The node that has a key is the one a lookup of the key finds.
Owner(key) == SearchRange(key).start

-----------------------------------------------------------------------------
RangeInit ==
    /\ ids \in {Sorted(S) : S \in (SUBSET KeyIds) \ {{}}} /\ keys \in KeySets
    /\ command \in {"read", "remove"}
    /\ first \in KeyIds /\ last \in first..MaxId
    /\ \E limit \in Limits : start0 = limit[1] /\ num0 = limit[2]
    /\ (command = "remove" => start0 = 0 /\ num0 = 0)
    /\ rangepc = "next" /\ id = first /\ next = first /\ need_exit = FALSE /\ has_any = FALSE
    /\ io_start = start0 /\ io_num = num0 /\ rep_num \in Stray /\ last_exception = FALSE
    /\ delivered = [k \in KeyIds |-> 0] /\ missed = {} /\ completions = <<>>

Finish(error) == completions' = Append(completions, error) /\ rangepc' = "done"

\* Faulty form: the node that owns the last id is left out.
OverEarly(r) == id > r.next \/ r.start = r.next \/ r.next >= last

\* The range of the node reaches the end of the range asked for.
Over(r) == id > r.next \/ r.start = r.next \/ r.next > last

\* do_next(): the end, or a request to the node that owns the current id.
\* scope::result stays empty, so that the end reports the last exception.
DoNext ==
    /\ rangepc = "next"
    /\ has_any' = FALSE
    /\ IF need_exit
       THEN Finish(last_exception) /\ UNCHANGED <<next, need_exit>>
       ELSE LET r == SearchRange(id)
            IN  /\ next' = IF Over(r) THEN last ELSE r.next
                /\ need_exit' = Over(r)
                /\ rangepc' = "wait" /\ UNCHANGED completions
    /\ UNCHANGED <<request, id, io_start, io_num, rep_num, last_exception, delivered, missed>>

\* The group is not in the route table: dnet_search_range() fails.  The final
\* handler of the node before completes the result; read_data_range() itself,
\* at the first node, does not.
DoNextFails ==
    /\ rangepc = "next" /\ ~need_exit
    /\ has_any' = FALSE
    /\ IF id = first THEN rangepc' = "done" /\ UNCHANGED completions ELSE Finish(TRUE)
    /\ UNCHANGED <<request, id, next, need_exit, io_start, io_num, rep_num, last_exception,
                   delivered, missed>>

\* blob_read_range(): keys of the range the node has, from the start-th on and
\* at most num of them; the summary counts all of the keys after start.
Segment == {k \in keys : id <= k /\ k <= next /\ Owner(k) = Owner(id)}
Sent(segment) ==
    LET pos == Cardinality(segment)
        from == IF command = "read" THEN io_start ELSE 0
    IN  IF from >= pos THEN 0
        ELSE IF command = "read" /\ io_num > 0 /\ io_num < pos - from THEN io_num ELSE pos - from
Summary(segment) == (WORD + Cardinality(segment) - (IF command = "read" THEN io_start ELSE 0)) % WORD

Deliver(ks) ==
    /\ delivered' = [k \in KeyIds |-> IF k \in ks THEN delivered[k] + 1 ELSE delivered[k]]
    /\ keys' = IF command = "remove" THEN keys \ ks ELSE keys
    /\ has_any' = TRUE

\* The keys, in no particular order, and the summary if there was any key.  A
\* node that fails on the way answers with its error, after some of the keys;
\* the error is an entry like the others, since no checker is set.  rep is what
\* scope::rep holds then: without a summary, what the node before left there.
Replies(segment, rep) ==
    \/ /\ \E ks \in kSubset(Sent(segment), segment) : Deliver(ks)
       /\ rep = IF segment = {} THEN rep_num ELSE Summary(segment)
       /\ UNCHANGED missed
    \/ /\ \E n \in 0..Sent(segment) : \E ks \in kSubset(n, segment) :
             Deliver(ks) /\ missed' = missed \cup (segment \ ks)
       /\ rep = rep_num

\* read_data_range_callback::operator()(error_info) without an error.
ReadOk ==
    /\ rangepc = "wait" /\ command = "read"
    /\ \E segment \in {Segment} : \E rep \in {rep_num, Summary(segment)} :
          /\ Replies(segment, rep)
          /\ IF io_start < rep
             THEN /\ rep_num' = rep - io_start
                  /\ io_start' = 0
                  /\ io_num' = (WORD + io_num - rep_num') % WORD
                  /\ last_exception' = FALSE
                  /\ IF io_num' = 0
                     THEN Finish(FALSE) /\ UNCHANGED id
                     ELSE rangepc' = "next" /\ id' = next /\ UNCHANGED completions
             ELSE /\ rep_num' = rep
                  /\ io_start' = io_start - rep /\ rangepc' = "next" /\ id' = next
                  /\ UNCHANGED <<io_num, last_exception, completions>>
    /\ UNCHANGED <<ids, command, first, last, start0, num0, next, need_exit>>

\* remove_data_range_callback: no limits.
RemoveOk ==
    /\ rangepc = "wait" /\ command = "remove"
    /\ \E segment \in {Segment} : \E rep \in {rep_num, Summary(segment)} :
          Replies(segment, rep) /\ rep_num' = rep
    /\ rangepc' = "next" /\ id' = next
    /\ UNCHANGED <<ids, command, first, last, start0, num0, next, need_exit, io_start, io_num,
                   last_exception, completions>>

\* The node cannot be asked: the walk goes on behind it.  (A removal which got
\* neither an entry nor an error would complete there and go on; Request.tla has
\* no such end of a read.)
NodeFails ==
    /\ rangepc = "wait"
    /\ last_exception' = TRUE /\ missed' = missed \cup Segment
    /\ rangepc' = "next" /\ id' = next
    /\ UNCHANGED <<request, next, need_exit, has_any, io_start, io_num, rep_num, delivered, completions>>

RangeOver == rangepc = "done" /\ UNCHANGED rangeVars

RangeStep == DoNext \/ ReadOk \/ RemoveOk \/ NodeFails
RangeNext == RangeStep \/ DoNextFails \/ RangeOver

RangeSpec == RangeInit /\ [][RangeNext]_rangeVars

-----------------------------------------------------------------------------
Asked == {k \in KeyIds : first <= k /\ k <= last}

\* The binary search finds the last id that is not behind the key, and the last
\* one of all for a key before every id.
SearchIsNearest ==
    \A key \in KeyIds :
        LET ring == {ids[i] : i \in DOMAIN ids}
            before == {i \in ring : i <= key}
        IN  Owner(key) = IF before = {} THEN Max(ring) ELSE Max(before)

\* The walk over the ring misses no node and visits none twice, wherever the
\* range starts and ends on the ring: a request without limits gives every key
\* of the range once, except those of the nodes that failed.
EveryKeyOnce ==
    completions # <<>> /\ need_exit /\ start0 = 0 /\ num0 = 0 =>
        \A k \in KeyIds :
            delivered[k] <= 1 /\
            (k \in Asked \cap keys /\ k \notin missed => delivered[k] = 1) /\
            (delivered[k] = 1 => k \in Asked)

\* A removed key is gone, and nothing outside of the range is removed.
RemovedInRange ==
    command = "remove" => \A k \in KeyIds : delivered[k] > 0 => k \in Asked /\ k \notin keys

\* The result completes once, however the walk ends, unless the search for the
\* first node fails.
CompletesOnce ==
    /\ Len(completions) <= 1
    /\ rangepc = "done" /\ (need_exit \/ id # first) => Len(completions) = 1

\* The walk ends: it goes round the ring at most once.
RangeEnds == <>(rangepc = "done")

\* packet.h on io.start and io.num: "used in range request as start and number
\* for LIMIT(start, num)".
HonoursLimit ==
    rangepc = "done" /\ command = "read" /\ missed = {} /\ need_exit /\ num0 > 0 =>
        LET total == Cardinality(Asked \cap keys)
            got == {k \in KeyIds : delivered[k] > 0}
        IN  Cardinality(got) = IF start0 >= total THEN 0 ELSE Min({num0, total - start0})

=============================================================================
