------------------------------- MODULE KeyLock -------------------------------
(***************************************************************************)
(* What the operation locks of library/locks.c promise to their callers:   *)
(* a thread holds at most one key, and a key is granted only while no      *)
(* other thread holds it.                                                  *)
(***************************************************************************)
CONSTANTS Threads, Keys, NoKey

VARIABLE holds      \* thread -> the key it holds, or NoKey

Init == holds = [t \in Threads |-> NoKey]

Grant(t, k) ==
    /\ holds[t] = NoKey
    /\ \A u \in Threads : holds[u] # k
    /\ holds' = [holds EXCEPT ![t] = k]

Release(t) ==
    /\ holds[t] # NoKey
    /\ holds' = [holds EXCEPT ![t] = NoKey]

Next == \E t \in Threads : Release(t) \/ \E k \in Keys : Grant(t, k)

Spec == Init /\ [][Next]_holds
=============================================================================
