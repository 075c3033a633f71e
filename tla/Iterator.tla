------------------------------ MODULE Iterator ------------------------------
(***************************************************************************)
(* Iterators of a node: dnet_iterator_start() and its callbacks            *)
(* (library/dnet.c) run in one IO thread each and send the keys of the     *)
(* backend that fall into the ranges of the request; dnet_iterator_set_    *)
(* state() (library/dnet_common.c) pauses, continues and cancels them from *)
(* other IO threads, and dnet_iterator_cancel_all() at exit.               *)
(*                                                                         *)
(* Every critical section of n->iterator_lock and it->lock is one action.  *)
(***************************************************************************)
EXTENDS Naturals, Sequences, FiniteSets

CONSTANTS
    Iters,        \* requests to start an iterator
    NoId,         \* not in n->iterator_list
    NoControl,    \* no control request in an IO thread
    Objects,      \* what the backend iterates over: keys with timestamps, in its order
    Configs,      \* what a request may ask for
    Leaving,      \* bound: requests whose peer may disconnect
    MaxControls   \* bound: control requests

\* A request is a record: flags, key ranges, and tb..te, its time range.

VARIABLES
    iconf,     \* the request
    ipc,       \* where its thread is
    ipos,      \* the object the backend calls back with
    iid,       \* it->id while it is listed
    act,       \* it->state
    isent,     \* keys that were sent
    ierr,      \* the result
    since,     \* keys sent since the state was set
    ctl,       \* the control request in flight
    controls,  \* control requests so far
    gone,      \* st->need_exit: peers that disconnected
    nexit      \* n->need_exit

iterVars == <<iconf, ipc, ipos, iid, act, isent, ierr, since, ctl, controls, gone, nexit>>

Running(i) == ipc[i] \in {"run", "check", "wait"}
Listed == {i \in Iters : iid[i] # NoId}

-----------------------------------------------------------------------------
(* Ranges.                                                                 *)

\* dnet_iterator_check_key_range(): ranges that are all empty are ignored.
KeyRanged(c) ==
    "KEY_RANGE" \in c.flags /\ \E n \in DOMAIN c.ranges : c.ranges[n] # <<0, 0>>

\* Either check turns down a range that ends before it begins.
BadRange(c) ==
    \/ "KEY_RANGE" \in c.flags /\ \E n \in DOMAIN c.ranges : c.ranges[n][1] > c.ranges[n][2]
    \/ "TS_RANGE" \in c.flags /\ c.tb > c.te

\* dnet_iterator_check_ts_range() means to ignore a time range that is empty; the
\* second comparison is of no bytes at all, so it never does.
TsRanged(c) == "TS_RANGE" \in c.flags

\* dnet_iterator_callback_common(): is the object wanted?
Wants(c, o) ==
    /\ KeyRanged(c) => \E n \in DOMAIN c.ranges : c.ranges[n][1] <= o.key /\ o.key < c.ranges[n][2]
    /\ TsRanged(c) => c.tb <= o.ts /\ o.ts <= c.te

-----------------------------------------------------------------------------
(* The thread of an iterator.                                              *)

\* The request is taken from the queue of the pool.
IterTake(i) ==
    /\ ipc[i] = "queued" /\ ~nexit
    /\ ipc' = [ipc EXCEPT ![i] = "taken"]
    /\ UNCHANGED <<iconf, ipos, iid, act, isent, ierr, since, ctl, controls, gone, nexit>>

\* dnet_iterator_list_next_id_nolock(): the first free id.
NextId ==
    LET taken == {iid[j] : j \in Listed}
    IN CHOOSE n \in 0..Cardinality(Listed) : n \notin taken /\ \A m \in 0..(n - 1) : m \in taken

Refuse(i, err) ==
    /\ ipc' = [ipc EXCEPT ![i] = "done"] /\ ierr' = [ierr EXCEPT ![i] = err]
    /\ UNCHANGED <<iid, act>>

\* dnet_iterator_start() up to the backend: checks, then dnet_iterator_create(),
\* which may find no memory.
IterCreate(i) ==
    /\ ipc[i] = "taken"
    /\ IF BadRange(iconf[i])
       THEN Refuse(i, "ERANGE")
       ELSE \/ Refuse(i, "ENOMEM")
            \/ /\ ipc' = [ipc EXCEPT ![i] = "run"] /\ UNCHANGED ierr
               /\ iid' = [iid EXCEPT ![i] = NextId]
               /\ act' = [act EXCEPT ![i] = "START"]
    /\ UNCHANGED <<iconf, ipos, isent, since, ctl, controls, gone, nexit>>

\* The backend is through or a callback failed: dnet_iterator_destroy().
End(i, err) ==
    /\ ipc' = [ipc EXCEPT ![i] = "done"] /\ ierr' = [ierr EXCEPT ![i] = err]
    /\ iid' = [iid EXCEPT ![i] = NoId]

\* dnet_iterator_callback_common() up to flow control: an object outside the
\* ranges is skipped, an object for a peer that is gone ends the iterator.
IterCallback(i) ==
    /\ ipc[i] = "run"
    /\ IF ipos[i] > Len(Objects)
       THEN End(i, "none") /\ UNCHANGED <<ipos, isent, since>>
       ELSE LET o == Objects[ipos[i]]
            IN IF ~Wants(iconf[i], o)
               THEN ipos' = [ipos EXCEPT ![i] = @ + 1] /\ UNCHANGED <<ipc, iid, ierr, isent, since>>
               ELSE IF i \in gone
                    THEN End(i, "EINTR") /\ UNCHANGED <<ipos, isent, since>>
                    ELSE /\ isent' = [isent EXCEPT ![i] = Append(@, o.key)]
                         /\ since' = [since EXCEPT ![i] = @ + 1]
                         /\ ipc' = [ipc EXCEPT ![i] = "check"]
                         /\ UNCHANGED <<ipos, iid, ierr>>
    /\ UNCHANGED <<iconf, act, ctl, controls, gone, nexit>>

\* dnet_iterator_flow_control().
IterFlow(i) ==
    /\ ipc[i] = "check"
    /\ CASE act[i] = "PAUSE"  -> ipc' = [ipc EXCEPT ![i] = "wait"] /\ UNCHANGED <<ipos, iid, ierr>>
         [] act[i] = "CANCEL" -> End(i, "ENOEXEC") /\ UNCHANGED ipos
         [] act[i] = "START"  -> /\ ipc' = [ipc EXCEPT ![i] = "run"] /\ ipos' = [ipos EXCEPT ![i] = @ + 1]
                                 /\ UNCHANGED <<iid, ierr>>
    /\ UNCHANGED <<iconf, act, isent, since, ctl, controls, gone, nexit>>

-----------------------------------------------------------------------------
(* Control.                                                                *)

\* dnet_iterator_verify_state().
Allowed == {<<"START", "PAUSE">>, <<"START", "CANCEL">>, <<"PAUSE", "START">>, <<"PAUSE", "CANCEL">>}

\* Faulty form: an iterator that is woken up begins its callback again.
SetStatesRepeats(s, action) ==
    LET to == IF action = "CONTINUE" THEN "START" ELSE action
        changed == {i \in s : <<act[i], to>> \in Allowed}
    IN /\ act' = [i \in Iters |-> IF i \in changed THEN to ELSE act[i]]
       /\ since' = [i \in Iters |-> IF i \in changed THEN 0 ELSE since[i]]
       /\ ipc' = [i \in Iters |-> IF i \in changed /\ ipc[i] = "wait" THEN "run" ELSE ipc[i]]

\* dnet_iterator_set_state_nolock() for the iterators in set s: a paused one is
\* woken up.
SetStates(s, action) ==
    LET to == IF action = "CONTINUE" THEN "START" ELSE action
        changed == {i \in s : <<act[i], to>> \in Allowed}
    IN /\ act' = [i \in Iters |-> IF i \in changed THEN to ELSE act[i]]
       /\ since' = [i \in Iters |-> IF i \in changed THEN 0 ELSE since[i]]
       /\ ipc' = [i \in Iters |-> IF i \in changed /\ act[i] = "PAUSE" /\ ipc[i] = "wait" THEN "check" ELSE ipc[i]]

\* A client sends a control request, and an IO thread takes it.
ControlTake(action, id) ==
    /\ ctl = NoControl /\ ~nexit /\ controls < MaxControls
    /\ ctl' = [action |-> action, id |-> id] /\ controls' = controls + 1
    /\ UNCHANGED <<iconf, ipc, ipos, iid, act, isent, ierr, since, gone, nexit>>

\* dnet_iterator_set_state(): finds the iterator by its id, or answers -ENOENT.
ControlSet ==
    /\ ctl # NoControl
    /\ SetStates({i \in Listed : iid[i] = ctl.id}, ctl.action)
    /\ ctl' = NoControl
    /\ UNCHANGED <<iconf, ipos, iid, isent, ierr, controls, gone, nexit>>

\* dnet_node_cleanup_common_resources(): need_exit, then
\* dnet_iterator_cancel_all(); threads are joined afterwards.
IterExit ==
    /\ ~nexit
    /\ nexit' = TRUE
    /\ SetStates(Listed, "CANCEL")
    /\ UNCHANGED <<iconf, ipos, iid, isent, ierr, ctl, controls, gone>>

Disconnect(i) ==
    /\ i \in Leaving \ gone
    /\ gone' = gone \cup {i}
    /\ UNCHANGED <<iconf, ipc, ipos, iid, act, isent, ierr, since, ctl, controls, nexit>>

\* All that is left are threads nobody wakes up.
IterOver ==
    /\ nexit /\ ctl = NoControl
    /\ \A i \in Iters : ipc[i] \in {"queued", "done"} \/ (ipc[i] = "wait" /\ act[i] = "PAUSE")
    /\ UNCHANGED iterVars

-----------------------------------------------------------------------------
IterInit ==
    /\ iconf \in [Iters -> Configs]
    /\ ipc = [i \in Iters |-> "queued"] /\ ipos = [i \in Iters |-> 1] /\ iid = [i \in Iters |-> NoId]
    /\ act = [i \in Iters |-> "START"] /\ isent = [i \in Iters |-> <<>>] /\ ierr = [i \in Iters |-> "none"]
    /\ since = [i \in Iters |-> 0] /\ ctl = NoControl /\ controls = 0 /\ gone = {} /\ nexit = FALSE

IterStep(i) == IterCreate(i) \/ IterCallback(i) \/ IterFlow(i)

IterNext ==
    \/ \E i \in Iters : IterTake(i) \/ IterStep(i) \/ Disconnect(i)
    \/ \E a \in {"PAUSE", "CONTINUE", "CANCEL"}, n \in 0..(Cardinality(Iters) - 1) : ControlTake(a, n)
    \/ ControlSet \/ IterExit \/ IterOver

IterSpec == IterInit /\ [][IterNext]_iterVars

\* Threads run on, and requests that were taken are served.
IterFair == IterSpec /\ (\A i \in Iters : WF_iterVars(IterStep(i))) /\ WF_iterVars(ControlSet)

-----------------------------------------------------------------------------
KeysOf(c, asks(_, _)) ==
    LET wanted == SelectSeq(Objects, LAMBDA o : asks(c, o))
    IN [n \in DOMAIN wanted |-> wanted[n].key]

\* What a request means: with both times zero there is no time range.
Means(c, o) ==
    /\ KeyRanged(c) => \E n \in DOMAIN c.ranges : c.ranges[n][1] <= o.key /\ o.key < c.ranges[n][2]
    /\ "TS_RANGE" \in c.flags /\ <<c.tb, c.te>> # <<0, 0>> => c.tb <= o.ts /\ o.ts <= c.te

\* An iterator that was not interrupted sends every key it was asked for exactly
\* once, however often it was paused and continued; one that was has sent the
\* first of them.
SentInOrder ==
    \A i \in Iters :
        /\ isent[i] = SubSeq(KeysOf(iconf[i], Wants), 1, Len(isent[i]))
        /\ ipc[i] = "done" /\ ierr[i] = "none" => isent[i] = KeysOf(iconf[i], Wants)

\* The comment on the time range: if both times are empty there is none.
EmptyTimesAskForAll ==
    \A i \in Iters : ipc[i] = "done" /\ ierr[i] = "none" => isent[i] = KeysOf(iconf[i], Means)

\* A pause or a cancel is heeded before the second key after it.
StopsAfterOne == \A i \in Iters : Running(i) /\ act[i] # "START" => since[i] <= 1

\* The list holds exactly the iterators whose threads run, with different ids,
\* so a control request that finds one by id finds it alive.
ListedWhileRunning ==
    /\ \A i \in Iters : Running(i) <=> i \in Listed
    /\ \A i, j \in Listed : iid[i] = iid[j] => i = j

\* No wakeup is lost, not at exit either: an iterator ends unless it is paused,
\* and a thread waits only while it is.  (One that is created after the others
\* were cancelled can still be paused by a request in flight.)
IteratorsEnd == \A i \in Iters : Running(i) ~> (ipc[i] = "done" \/ (ipc[i] = "wait" /\ act[i] = "PAUSE"))

=============================================================================
