----------------------------- MODULE IndexFind -----------------------------
(***************************************************************************)
(* Search of objects by their indexes: find_indexes_functor of the client  *)
(* (bindings/cpp/session_indexes.cpp) and process_find_indexes of the      *)
(* server (indexes/indexes.cpp).                                           *)
(*                                                                         *)
(* The table of an index is split into shards.  The client asks every      *)
(* shard at the same time and turns to the next group for a shard that     *)
(* failed; a result may come before the client has connected its handler   *)
(* to it, and the results of two shards are handled at the same time.      *)
(***************************************************************************)
EXTENDS Integers, Sequences, FiniteSets

CONSTANTS
    Tables,    \* indexes
    Shards,    \* 1..n
    Content,   \* shard -> what an index's table may hold there: ascending sequences of objects
    Queries,   \* sequences of indexes that are asked for
    Missing,   \* an index with no table in a shard
    NGroups    \* known_groups.size()

Kinds == {"intersect", "unite"}

VARIABLES
    query, kind,
    stored,     \* shard -> index -> its table
    group,      \* shard -> group_index of its last request
    phase,      \* shard -> what became of it
    answer,     \* shard -> the reply, or its error
    connected,  \* shards whose result has its handler
    unprocessed,
    ferr,       \* this->error
    found,      \* entries given to the user, by shard
    completes   \* calls of handler.complete(), with the error

findVars == <<query, kind, stored, group, phase, answer, connected, unprocessed, ferr, found, completes>>

Failed == Missing  \* a reply with an error instead of a table

-----------------------------------------------------------------------------
(* process_find_indexes().  What a table keeps for an object is the pair of *)
(* the index and the object.                                               *)

Entry(o, i) == [id |-> o, indexes |-> <<<<i, o>>>>]

\* Faulty form: the table keeps objects that are not in the result.
InBothOneSided(result, table) ==
    <<SelectSeq(result, LAMBDA e : \E k \in DOMAIN table : table[k] = e.id), table>>

\* Two calls of set_intersection leave the same objects on both sides.
InBoth(result, table) ==
    LET kept == SelectSeq(result, LAMBDA e : \E k \in DOMAIN table : table[k] = e.id)
        own  == SelectSeq(table, LAMBDA o : \E k \in DOMAIN result : result[k].id = o)
    IN  <<kept, own>>

Intersected(result, table, i) ==
    LET both == InBoth(result, table)
    IN  [k \in DOMAIN both[1] |->
            [both[1][k] EXCEPT !.indexes = Append(@, <<i, both[2][k]>>)]]

\* Objects already in the result get one more index, others go to the end.
United(result, table, i) ==
    LET known(o) == \E k \in DOMAIN result : result[k].id = o
        new == SelectSeq(table, LAMBDA o : ~known(o))
    IN  [k \in DOMAIN result |->
            IF \E n \in DOMAIN table : table[n] = result[k].id
            THEN [result[k] EXCEPT !.indexes = Append(@, <<i, result[k].id>>)] ELSE result[k]]
        \o [k \in DOMAIN new |-> Entry(new[k], i)]

\* The loop over the indexes of the request, up to the n-th.
Find(s, q, how) ==
    LET tab(n) == stored[s][q[n]]
        step[n \in 0..Len(q)] ==
            IF n = 0 THEN <<>>
            ELSE CASE step[n - 1] = Failed -> Failed
                   [] step[n - 1] # Failed /\ tab(n) = Missing ->
                        IF how = "unite" THEN step[n - 1] ELSE Failed
                   [] step[n - 1] # Failed /\ tab(n) # Missing ->
                        CASE how = "unite" -> United(step[n - 1], tab(n), q[n])
                          [] how = "intersect" /\ n = 1 -> [k \in DOMAIN tab(n) |-> Entry(tab(n)[k], q[n])]
                          [] how = "intersect" /\ n > 1 -> Intersected(step[n - 1], tab(n), q[n])
    IN  step[Len(q)]

-----------------------------------------------------------------------------
(* find_indexes_functor.                                                   *)

FindInit ==
    /\ query \in Queries /\ kind \in Kinds
    /\ stored \in {t \in [Shards -> [Tables -> UNION {Content[s] : s \in Shards}]] :
                     \A s \in Shards, i \in Tables : t[s][i] \in Content[s]}
    /\ group = [s \in Shards |-> 0] /\ phase = [s \in Shards |-> "unsent"]
    /\ answer = [s \in Shards |-> Failed] /\ connected = {}
    /\ unprocessed = Cardinality(Shards) /\ ferr = FALSE
    /\ found = [s \in Shards |-> <<>>] /\ completes = <<>>

\* run(): the requests to the first group.
Run ==
    /\ \A s \in Shards : phase[s] = "unsent"
    /\ phase' = [s \in Shards |-> "sent"]
    /\ UNCHANGED <<query, kind, stored, group, answer, connected, unprocessed, ferr, found, completes>>

\* run() connects the results after all requests are sent; on_result() connects
\* the one to the next group.
ConnectResult(s) ==
    /\ phase[s] \in {"sent", "replied"} /\ s \notin connected
    /\ group[s] = 0 => \A r \in Shards : r < s => r \in connected \/ phase[r] \notin {"sent", "replied"} \/ group[r] > 0
    /\ connected' = connected \cup {s}
    /\ UNCHANGED <<query, kind, stored, group, phase, answer, unprocessed, ferr, found, completes>>

\* The node of the shard answers, or its transaction fails.
Reply(s, fails) ==
    /\ phase[s] = "sent"
    /\ phase' = [phase EXCEPT ![s] = "replied"]
    /\ answer' = [answer EXCEPT ![s] = IF fails THEN Failed ELSE Find(s, query, kind)]
    /\ UNCHANGED <<query, kind, stored, group, connected, unprocessed, ferr, found, completes>>

\* on_result() with an error: the next group, or the first error is kept.
OnError(s) ==
    /\ phase[s] = "replied" /\ s \in connected /\ answer[s] = Failed
    /\ IF group[s] + 1 >= NGroups
       THEN ferr' = TRUE /\ phase' = [phase EXCEPT ![s] = "handled"] /\ UNCHANGED <<group, connected>>
       ELSE /\ phase' = [phase EXCEPT ![s] = "sent"] /\ group' = [group EXCEPT ![s] = @ + 1]
            /\ connected' = connected \ {s}
            /\ UNCHANGED ferr
    /\ UNCHANGED <<query, kind, stored, answer, unprocessed, found, completes>>

OnResult(s) ==
    /\ phase[s] = "replied" /\ s \in connected /\ answer[s] # Failed
    /\ found' = [found EXCEPT ![s] = @ \o answer[s]]
    /\ phase' = [phase EXCEPT ![s] = "handled"]
    /\ UNCHANGED <<query, kind, stored, group, answer, connected, unprocessed, ferr, completes>>

LastShard == unprocessed = 1

\* The end of on_result(): the last shard completes the result.
Processed(s) ==
    /\ phase[s] = "handled"
    /\ phase' = [phase EXCEPT ![s] = "over"]
    /\ unprocessed' = unprocessed - 1
    /\ completes' = IF LastShard THEN Append(completes, ferr) ELSE completes
    /\ UNCHANGED <<query, kind, stored, group, answer, connected, ferr, found>>

Found == (\A s \in Shards : phase[s] = "over") /\ UNCHANGED findVars

-----------------------------------------------------------------------------
Shard(s) == ConnectResult(s) \/ OnError(s) \/ OnResult(s) \/ Processed(s) \/ \E fails \in BOOLEAN : Reply(s, fails)

FindNext == Run \/ Found \/ \E s \in Shards : Shard(s)

\* The client goes on, and every transaction ends.
FindSpec ==
    /\ FindInit /\ [][FindNext]_findVars
    /\ WF_findVars(Run)
    /\ \A s \in Shards : WF_findVars(Shard(s))

-----------------------------------------------------------------------------
Holds(s, i, o) == stored[s][i] # Missing /\ \E k \in DOMAIN stored[s][i] : stored[s][i][k] = o

\* The objects of a shard that have all indexes of the request, or any.
Matching(s) ==
    LET all == UNION {{t[k] : k \in DOMAIN t} : t \in Content[s] \ {Missing}}
        has(o, n) == Holds(s, query[n], o)
    IN  {o \in all : IF kind = "unite" THEN \E n \in DOMAIN query : has(o, n)
                     ELSE \A n \in DOMAIN query : has(o, n)}

\* What the user gets of a shard is exactly the objects with all the indexes (or
\* any of them), each one once, each with the data of every index of the request
\* that has it: in particular both intersections leave lists that are aligned.
FoundIsExact ==
    \A s \in Shards :
        phase[s] = "over" /\ answer[s] # Failed =>
            /\ {found[s][k].id : k \in DOMAIN found[s]} = Matching(s)
            /\ Len(found[s]) = Cardinality(Matching(s))
            /\ \A k \in DOMAIN found[s] :
                  found[s][k].indexes =
                      SelectSeq([n \in DOMAIN query |-> <<query[n], found[s][k].id>>],
                                LAMBDA x : Holds(s, x[1], x[2]))

\* The result completes once, after the last shard, with an error if and only if
\* some shard failed in every group.
FindCompletesOnce ==
    /\ Len(completes) <= 1
    /\ completes # <<>> =>
          /\ \A s \in Shards : phase[s] = "over"
          /\ completes[1] = \E s \in Shards : answer[s] = Failed

\* A search ends.
FindEnds == <>(completes # <<>>)
=============================================================================
