---------------------------- MODULE AsyncResult ----------------------------
(***************************************************************************)
(* async_result and async_result_handler (bindings/cpp/async_result.cpp)   *)
(* with the filters, checkers and error handlers of session.cpp.  An IO    *)
(* thread feeds entries into the result and completes it once (Request.tla *)
(* shows that it does); the thread of the user connects handlers, iterates *)
(* over the result, waits for it or gets the stored entries, at any time.  *)
(*                                                                         *)
(* With aggregated() (bindings/cpp/functional_p.h) the entries of several  *)
(* results go into one.  Every step under the lock of the result is one    *)
(* action; the iterator's own queue has a lock of its own.                 *)
(***************************************************************************)
EXTENDS Naturals, Sequences, FiniteSets

CONSTANTS
    Sources,    \* the results that aggregated() joins
    Plain,      \* the source of a plain request
    MaxEntries  \* bound: entries the result gets

\* What the properties see of an entry: the status of its reply, whether it has
\* data, and whether more replies of the same transaction follow.
Entries == {[ok |-> TRUE, data |-> TRUE, more |-> TRUE], [ok |-> TRUE, data |-> TRUE, more |-> FALSE],
            [ok |-> TRUE, data |-> FALSE, more |-> FALSE], [ok |-> FALSE, data |-> FALSE, more |-> FALSE]}
Filters == {"positive", "negative", "all", "all_with_ack"}
Checkers == {"no_check", "at_least_one", "all_groups", "quorum"}

VARIABLES
    filter, checker, total,
    sources,      \* {Plain}, or Sources when the result is aggregated
    ended,        \* sources that are complete
    failed,       \* sources that completed with an error
    left,         \* aggregator_handler::finished
    has_success,  \* aggregator_handler::has_success
    last_error,   \* aggregator_handler::error
    input,        \* all entries, in the order process() took them
    statuses,     \* results of the last replies
    results,      \* entries stored in the result
    handler,      \* who gets the entries: nobody, the user or an iterator
    final,        \* who gets the end
    finished, err,
    cleaned,      \* the error handler ran: how many groups it removes from
    seen,         \* entries the handler of the user got
    ends,         \* calls of the final handler, with their error
    queue, iter_finished, iter_state, \* the iterator
    iterated,     \* entries the iterator gave
    user          \* where the thread of the user is

cfgVars == <<filter, checker, total, sources>>
aggVars == <<ended, failed, left, has_success, last_error>>
dataVars == <<input, statuses, results, handler, final, finished, err, cleaned>>
userVars == <<seen, ends>>
iterVars == <<queue, iter_finished, iter_state, iterated>>
asyncVars == <<cfgVars, aggVars, dataVars, userVars, iterVars, user>>

-----------------------------------------------------------------------------
(* Filters and checkers.                                                   *)

Passes(e) ==
    CASE filter = "positive"     -> e.ok /\ e.data
      [] filter = "negative"     -> ~e.ok
      [] filter = "all"          -> e.data
      [] filter = "all_with_ack" -> TRUE

Successes(sts) == Len(SelectSeq(sts, LAMBDA ok : ok))

Checks(sts) ==
    CASE checker = "no_check"     -> TRUE
      [] checker = "at_least_one" -> Successes(sts) > 0
      [] checker = "all_groups"   -> Successes(sts) = total
      [] checker = "quorum"       -> Successes(sts) > total \div 2

\* async_result_handler::check(): the first negative reply if nothing succeeded
\* and there is one, too few results otherwise.
CheckError(sts) ==
    CASE Checks(sts)                                     -> "none"
      [] ~Checks(sts) /\ Successes(sts) = 0 /\ sts # <<>> -> "reply"
      [] OTHER                                           -> "few"

-----------------------------------------------------------------------------
AsyncInit ==
    /\ filter \in Filters /\ checker \in Checkers
    /\ \/ sources = {Plain} /\ total \in 1..2
       \/ sources = Sources /\ total = 0
    /\ ended = {} /\ failed = {}
    /\ left = Cardinality(sources) /\ has_success = FALSE /\ last_error = "none"
    /\ input = <<>> /\ statuses = <<>> /\ results = <<>>
    /\ handler = "none" /\ final = "none" /\ finished = FALSE /\ err = "none" /\ cleaned = 0
    /\ seen = <<>> /\ ends = <<>>
    /\ queue = <<>> /\ iter_finished = FALSE /\ iter_state = "none" /\ iterated = <<>>
    /\ user = "free"

-----------------------------------------------------------------------------
(* The IO threads.                                                         *)

\* async_result_handler::process(): the status of a last reply is kept, the
\* entry is filtered and goes to the handler or is stored.
Process(e) ==
    /\ input' = Append(input, e)
    /\ statuses' = IF e.more THEN statuses ELSE Append(statuses, e.ok)
    /\ IF ~Passes(e)
       THEN UNCHANGED <<results, seen, queue>>
       ELSE CASE handler = "none" -> results' = Append(results, e) /\ UNCHANGED <<seen, queue>>
              [] handler = "user" -> seen' = Append(seen, e) /\ UNCHANGED <<results, queue>>
              [] handler = "iter" -> queue' = Append(queue, e) /\ UNCHANGED <<results, seen>>

\* aggregator_handler::on_entry().
Entry(s, e) ==
    /\ s \in sources \ ended /\ Len(input) < MaxEntries
    /\ has_success' = (has_success \/ e.ok)
    /\ Process(e)
    /\ UNCHANGED <<cfgVars, ended, failed, left, last_error, handler, final, finished, err, cleaned,
                   ends, iter_finished, iter_state, iterated, user>>

\* The error handler runs when the checker, asked, says no.
Cleans(error) == IF error = "none" /\ ~Checks(statuses) THEN Successes(statuses) ELSE cleaned

\* async_result_handler::complete(): the checker is asked only when the request
\* itself did not fail, and the error handler only when the checker says no.
Complete(error) ==
    /\ finished' = TRUE
    /\ err' = IF error # "none" THEN error ELSE CheckError(statuses)
    /\ cleaned' = Cleans(error)
    /\ CASE final = "none" -> UNCHANGED <<ends, iter_finished>>
         [] final = "user" -> ends' = Append(ends, err') /\ UNCHANGED iter_finished
         [] final = "iter" -> iter_finished' = TRUE /\ UNCHANGED ends

\* A plain request completes the result with its own error.  The last source of
\* an aggregate does it in aggregator_handler::on_finished(), with no error if
\* any entry was a success.
SourceEnds(s, error) ==
    /\ s \in sources \ ended
    /\ ended' = ended \cup {s}
    /\ failed' = IF error # "none" THEN failed \cup {s} ELSE failed
    /\ last_error' = IF error # "none" THEN error ELSE last_error
    /\ left' = left - 1
    /\ IF left = 1
       THEN Complete(IF s # Plain /\ has_success THEN "none" ELSE last_error')
       ELSE UNCHANGED <<finished, err, cleaned, ends, iter_finished>>
    /\ UNCHANGED <<cfgVars, has_success, input, statuses, results, handler, final, seen,
                   queue, iter_state, iterated, user>>

-----------------------------------------------------------------------------
(* The thread of the user.                                                 *)

\* Faulty form: what came before the handler is lost.
HandedNothing == <<>>

\* Entries already stored are handed over at once, and so is the end.
Handed == results
Ended == IF finished THEN Append(ends, err) ELSE ends

\* connect(): the handlers of the user.
Connect ==
    /\ user = "free"
    /\ user' = "connected"
    /\ handler' = "user" /\ final' = "user"
    /\ seen' = Handed
    /\ ends' = Ended
    /\ UNCHANGED <<cfgVars, aggVars, input, statuses, results, finished, err, cleaned, iterVars>>

\* connect(result_array_function): entries stay in the result, which the final
\* handler reads.
ConnectArray ==
    /\ user = "free"
    /\ user' = "array"
    /\ final' = "user"
    /\ ends' = Ended
    /\ UNCHANGED <<cfgVars, aggVars, input, statuses, results, handler, finished, err, cleaned,
                   seen, iterVars>>

\* begin(): an iterator connects its queue.
IterBegin ==
    /\ user = "free"
    /\ user' = "iterating"
    /\ handler' = "iter" /\ final' = "iter"
    /\ queue' = Handed /\ iter_finished' = finished /\ iter_state' = "data_waiting"
    /\ UNCHANGED <<cfgVars, aggVars, input, statuses, results, finished, err, cleaned, userVars, iterated>>

\* iterator::ensure_data(): sleeps until there is an entry or the end.
IterNext ==
    /\ user = "iterating" /\ iter_state = "data_waiting"
    /\ queue # <<>> \/ iter_finished
    /\ IF queue # <<>>
       THEN /\ iterated' = Append(iterated, Head(queue)) /\ queue' = Tail(queue)
            /\ iter_state' = "data_ready"
       ELSE iter_state' = "data_at_end" /\ UNCHANGED <<iterated, queue>>
    /\ UNCHANGED <<cfgVars, aggVars, dataVars, userVars, iter_finished, user>>

IterIncrement ==
    /\ user = "iterating" /\ iter_state = "data_ready"
    /\ iter_state' = "data_waiting"
    /\ UNCHANGED <<cfgVars, aggVars, dataVars, userVars, queue, iter_finished, iterated, user>>

\* get() and wait(): sleep until the result is complete.
Get ==
    /\ user = "free" /\ finished
    /\ user' = "got"
    /\ seen' = results
    /\ UNCHANGED <<cfgVars, aggVars, dataVars, ends, iterVars>>

Idle == finished /\ user # "free" /\ iter_state \in {"none", "data_at_end"} /\ UNCHANGED asyncVars

-----------------------------------------------------------------------------
UserStep == Connect \/ ConnectArray \/ IterBegin \/ Get
Iterate == IterNext \/ IterIncrement
Source(s) == (\E e \in Entries : Entry(s, e)) \/ (\E e \in {"none", "request"} : SourceEnds(s, e))

AsyncNext == UserStep \/ Iterate \/ Idle \/ \E s \in sources : Source(s)

AsyncSpec == AsyncInit /\ [][AsyncNext]_asyncVars

-----------------------------------------------------------------------------
Wanted == SelectSeq(input, Passes)

\* An entry is delivered exactly once and in order, whether the user connected
\* before it came, between two entries, or after the end; the iterator has the
\* rest in its queue.
DeliveredOnce ==
    /\ user = "connected" => seen = Wanted
    /\ user = "iterating" => iterated \o queue = Wanted
    /\ user \in {"free", "array", "got"} => results = Wanted
    /\ user = "got" => seen = Wanted

\* The final handler runs exactly once, after the last entry, also when it is
\* connected to a result that is complete already.
EndedOnce ==
    /\ Len(ends) <= 1
    /\ user \in {"connected", "array"} => (finished <=> Len(ends) = 1)
    /\ finished <=> ended = sources

\* What the user is told at the end is the verdict of the checker on all last
\* replies, unless the request itself failed with nothing to show for it.
VerdictOfChecker ==
    finished =>
        /\ err = "none" => Checks(statuses)
        /\ err = "request" => failed # {} /\ (sources = Sources => Successes(statuses) = 0)
        /\ err \in {"reply", "few"} => ~Checks(statuses)
        /\ Len(ends) = 1 => ends[1] = err

\* When the checker turns a request down, remove_on_fail removes every replica
\* the request did write; an accepted request keeps all of its replicas.
RejectedThenRemoved ==
    finished => cleaned = IF err \in {"reply", "few"} THEN Successes(statuses) ELSE 0

\* An iterator reaches its end.
IterationEnds == (user = "iterating") ~> (iter_state = "data_at_end")

=============================================================================
