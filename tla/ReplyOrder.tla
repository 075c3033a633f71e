------------------------------ MODULE ReplyOrder ------------------------------
(***************************************************************************)
(* What the users of an IO pool rely on (net.c: dnet_process_recv changes  *)
(* the transaction of a reply without further locks around its callback):  *)
(* the replies to a transaction are handled one at a time, each once, in   *)
(* the order in which they were received.                                  *)
(***************************************************************************)
EXTENDS Naturals

CONSTANTS Tids, MaxReplies

VARIABLES
    received,   \* transaction -> replies received
    working,    \* replies being handled
    finished    \* transaction -> replies handled

Init ==
    /\ received = [tid \in Tids |-> 0]
    /\ working = {}
    /\ finished = [tid \in Tids |-> 0]

Receive(tid) ==
    /\ received[tid] < MaxReplies
    /\ received' = [received EXCEPT ![tid] = @ + 1]
    /\ UNCHANGED <<working, finished>>

Start(tid) ==
    /\ finished[tid] < received[tid]
    /\ \A w \in working : w.tid # tid
    /\ working' = working \cup {[tid |-> tid, n |-> finished[tid] + 1]}
    /\ UNCHANGED <<received, finished>>

Finish(tid) ==
    /\ [tid |-> tid, n |-> finished[tid] + 1] \in working
    /\ working' = working \ {[tid |-> tid, n |-> finished[tid] + 1]}
    /\ finished' = [finished EXCEPT ![tid] = @ + 1]
    /\ UNCHANGED received

Next == \E tid \in Tids : Receive(tid) \/ Start(tid) \/ Finish(tid)

Spec == Init /\ [][Next]_<<received, working, finished>>
=============================================================================
