------------------------------- MODULE OpLock -------------------------------
(***************************************************************************)
(* Per-key operation locks of a server node (library/locks.c).             *)
(*                                                                         *)
(* A fixed array of entries is handed out on demand: an entry in use is in *)
(* lock_tree under its key and counts its users in refcnt, an idle one is  *)
(* in lock_list.  The table is guarded by locks->lock and the `locked'     *)
(* flag of an entry by entry->lock, so lock and unlock are two critical    *)
(* sections each, with a gap between them; one action models each critical *)
(* section.                                                                *)
(*                                                                         *)
(* A thread is an execution context that brackets its work on one key with *)
(* dnet_oplock / dnet_opunlock, as dnet_process_cmd_raw does.  When        *)
(* lock_list is empty dnet_oplock returns without a lock and its caller,   *)
(* which gets no result, works all the same.                               *)
(***************************************************************************)
EXTENDS Naturals, FiniteSets

CONSTANTS
    Threads,    \* contexts that process commands
    TryThreads, \* those of them that may also call dnet_optrylock
    Keys,       \* object ids
    Entries,    \* the `num' entries dnet_locks_init allocates
    NoEntry,    \* the NULL entry pointer
    NoKey,      \* no key, in the abstract view
    MaxRef      \* bound: dnet_optrylock is not called beyond this refcnt

ASSUME ThreadsAssumption == IsFiniteSet(Threads) /\ TryThreads \subseteq Threads
ASSUME EntriesAssumption == IsFiniteSet(Entries) /\ NoEntry \notin Entries
ASSUME KeysAssumption == NoKey \notin Keys
ASSUME MaxRefAssumption == MaxRef \in Nat

VARIABLES
    lock_list,  \* set of idle entries
    lock_tree,  \* key -> the entry that serves it, or NoEntry
    refcnt,     \* entry -> number of references
    locked,     \* entry -> its `locked' flag
    waiting,    \* threads asleep in pthread_cond_wait
    pc,         \* thread -> where it is in the lock protocol
    key,        \* thread -> key of its latest operation
    ent,        \* thread -> its local `entry' pointer
    exhausted   \* "oplock list is empty" has been logged

vars == <<lock_list, lock_tree, refcnt, locked, waiting, pc, key, ent, exhausted>>

\* "lock", "trylock", "unlock" are the gaps between the two critical sections
\* of an operation; in "work" the thread believes it holds key[t].
PCs == {"idle", "lock", "trylock", "work", "unlock"}

TypeOK ==
    /\ lock_list \subseteq Entries
    /\ lock_tree \in [Keys -> Entries \cup {NoEntry}]
    /\ refcnt \in [Entries -> Nat]
    /\ locked \in [Entries -> {0, 1}]
    /\ waiting \subseteq Threads
    /\ pc \in [Threads -> PCs]
    /\ key \in [Threads -> Keys]
    /\ ent \in [Threads -> Entries \cup {NoEntry}]
    /\ exhausted \in BOOLEAN

\* dnet_locks_init: every entry is idle.
Init ==
    /\ lock_list = Entries
    /\ lock_tree = [k \in Keys |-> NoEntry]
    /\ refcnt = [e \in Entries |-> 0]
    /\ locked = [e \in Entries |-> 0]
    /\ waiting = {}
    /\ pc = [t \in Threads |-> "idle"]
    /\ key \in [Threads -> Keys]
    /\ ent = [t \in Threads |-> NoEntry]
    /\ exhausted = FALSE

-----------------------------------------------------------------------------
(* The two critical sections on the table. *)

\* Faulty form: the reference is not counted.
EnsureFoundUncounted(t, k) ==
    /\ lock_tree[k] # NoEntry
    /\ ent' = [ent EXCEPT ![t] = lock_tree[k]]
    /\ UNCHANGED <<lock_list, lock_tree, refcnt, locked, exhausted>>

\* dnet_oplock_ensure finds an entry under k and takes a reference.
EnsureFound(t, k) ==
    LET e == lock_tree[k] IN
    /\ e # NoEntry
    /\ refcnt' = [refcnt EXCEPT ![e] = @ + 1]
    /\ ent' = [ent EXCEPT ![t] = e]
    /\ UNCHANGED <<lock_list, lock_tree, locked, exhausted>>

\* dnet_oplock_ensure moves an idle entry from the list to the tree.  The code
\* takes the first of the list; which entry it is makes no difference.
EnsureFresh(t, k) ==
    /\ lock_tree[k] = NoEntry
    /\ \E e \in lock_list :
        /\ lock_list' = lock_list \ {e}
        /\ lock_tree' = [lock_tree EXCEPT ![k] = e]
        /\ locked' = [locked EXCEPT ![e] = 0]
        /\ refcnt' = [refcnt EXCEPT ![e] = 1]
        /\ ent' = [ent EXCEPT ![t] = e]
    /\ UNCHANGED exhausted

\* dnet_oplock_ensure finds neither: it logs and returns NULL.
EnsureEmpty(t, k) ==
    /\ lock_tree[k] = NoEntry
    /\ lock_list = {}
    /\ ent' = [ent EXCEPT ![t] = NoEntry]
    /\ exhausted' = TRUE
    /\ UNCHANGED <<lock_list, lock_tree, refcnt, locked>>

\* dnet_oplock_take: drop a reference of the entry under k.  With the last one
\* the entry goes back to the list, its `locked' flag as it is, and the caller
\* gets NULL; otherwise the caller gets the entry.
TakeMissing(t, k) ==
    /\ lock_tree[k] = NoEntry
    /\ ent' = [ent EXCEPT ![t] = NoEntry]
    /\ UNCHANGED <<lock_list, lock_tree, refcnt>>

\* Faulty form: the entry leaves the tree but is not put back on the list.
TakeLastLeak(t, k) ==
    LET e == lock_tree[k] IN
    /\ e # NoEntry
    /\ refcnt[e] = 1
    /\ refcnt' = [refcnt EXCEPT ![e] = 0]
    /\ lock_tree' = [lock_tree EXCEPT ![k] = NoEntry]
    /\ ent' = [ent EXCEPT ![t] = NoEntry]
    /\ UNCHANGED lock_list

TakeLast(t, k) ==
    LET e == lock_tree[k] IN
    /\ e # NoEntry
    /\ refcnt[e] = 1
    /\ refcnt' = [refcnt EXCEPT ![e] = 0]
    /\ lock_tree' = [lock_tree EXCEPT ![k] = NoEntry]
    /\ lock_list' = lock_list \cup {e}
    /\ ent' = [ent EXCEPT ![t] = NoEntry]

TakeShared(t, k) ==
    LET e == lock_tree[k] IN
    /\ e # NoEntry
    /\ refcnt[e] # 1
    /\ refcnt' = [refcnt EXCEPT ![e] = @ - 1]
    /\ ent' = [ent EXCEPT ![t] = e]
    /\ UNCHANGED <<lock_list, lock_tree>>

-----------------------------------------------------------------------------
(* dnet_oplock *)

Oplock(t, k) ==
    /\ pc[t] = "idle"
    /\ key' = [key EXCEPT ![t] = k]
    /\ \/ EnsureFound(t, k) /\ pc' = [pc EXCEPT ![t] = "lock"]
       \/ EnsureFresh(t, k) /\ pc' = [pc EXCEPT ![t] = "lock"]
       \/ EnsureEmpty(t, k) /\ pc' = [pc EXCEPT ![t] = "work"]
    /\ UNCHANGED waiting

\* The loop around pthread_cond_wait: the flag is set, sleep.
OplockWait(t) ==
    /\ pc[t] = "lock"
    /\ t \notin waiting
    /\ locked[ent[t]] = 1
    /\ waiting' = waiting \cup {t}
    /\ UNCHANGED <<lock_list, lock_tree, refcnt, locked, pc, key, ent, exhausted>>

\* Faulty form: the flag is not looked at again after the wait.
OplockGrabUnchecked(t) ==
    /\ pc[t] = "lock"
    /\ t \notin waiting
    /\ locked' = [locked EXCEPT ![ent[t]] = 1]
    /\ pc' = [pc EXCEPT ![t] = "work"]
    /\ UNCHANGED <<lock_list, lock_tree, refcnt, waiting, key, ent, exhausted>>

OplockGrab(t) ==
    /\ pc[t] = "lock"
    /\ t \notin waiting
    /\ locked[ent[t]] = 0
    /\ locked' = [locked EXCEPT ![ent[t]] = 1]
    /\ pc' = [pc EXCEPT ![t] = "work"]
    /\ UNCHANGED <<lock_list, lock_tree, refcnt, waiting, key, ent, exhausted>>

\* POSIX lets pthread_cond_wait return without a signal.
SpuriousWakeup(t) ==
    /\ t \in waiting
    /\ waiting' = waiting \ {t}
    /\ UNCHANGED <<lock_list, lock_tree, refcnt, locked, pc, key, ent, exhausted>>

(* dnet_opunlock *)

Opunlock(t) ==
    /\ pc[t] = "work"
    /\ \/ TakeMissing(t, key[t]) /\ pc' = [pc EXCEPT ![t] = "idle"]
       \/ TakeLast(t, key[t]) /\ pc' = [pc EXCEPT ![t] = "idle"]
       \/ TakeShared(t, key[t]) /\ pc' = [pc EXCEPT ![t] = "unlock"]
    /\ UNCHANGED <<locked, waiting, key, exhausted>>

\* Faulty form: nobody is woken.
SignalNobody(e) == UNCHANGED waiting

\* pthread_cond_signal wakes one of the threads that sleep on the entry.
Signal(e) ==
    LET sleepers == {u \in waiting : ent[u] = e} IN
    \/ sleepers = {} /\ waiting' = waiting
    \/ \E u \in sleepers : waiting' = waiting \ {u}

OpunlockClear(t) ==
    /\ pc[t] = "unlock"
    /\ locked' = [locked EXCEPT ![ent[t]] = 0]
    /\ Signal(ent[t])
    /\ pc' = [pc EXCEPT ![t] = "idle"]
    /\ ent' = [ent EXCEPT ![t] = NoEntry]
    /\ UNCHANGED <<lock_list, lock_tree, refcnt, key, exhausted>>

(* dnet_optrylock *)

Optrylock(t, k) ==
    /\ t \in TryThreads
    /\ pc[t] = "idle"
    /\ lock_tree[k] # NoEntry => refcnt[lock_tree[k]] < MaxRef
    /\ key' = [key EXCEPT ![t] = k]
    /\ \/ EnsureFound(t, k) /\ pc' = [pc EXCEPT ![t] = "trylock"]
       \/ EnsureFresh(t, k) /\ pc' = [pc EXCEPT ![t] = "trylock"]
       \/ EnsureEmpty(t, k) /\ UNCHANGED pc
    /\ UNCHANGED waiting

OptrylockGrab(t) ==
    /\ pc[t] = "trylock"
    /\ locked[ent[t]] = 0
    /\ locked' = [locked EXCEPT ![ent[t]] = 1]
    /\ pc' = [pc EXCEPT ![t] = "work"]
    /\ UNCHANGED <<lock_list, lock_tree, refcnt, waiting, key, ent, exhausted>>

\* -EBUSY: the reference the first half took stays with the entry.
OptrylockBusy(t) ==
    /\ pc[t] = "trylock"
    /\ locked[ent[t]] = 1
    /\ pc' = [pc EXCEPT ![t] = "idle"]
    /\ ent' = [ent EXCEPT ![t] = NoEntry]
    /\ UNCHANGED <<lock_list, lock_tree, refcnt, locked, waiting, key, exhausted>>

-----------------------------------------------------------------------------
Next ==
    \E t \in Threads :
        \/ \E k \in Keys : Oplock(t, k) \/ Optrylock(t, k)
        \/ OplockWait(t)
        \/ OplockGrab(t)
        \/ SpuriousWakeup(t)
        \/ Opunlock(t)
        \/ OpunlockClear(t)
        \/ OptrylockGrab(t)
        \/ OptrylockBusy(t)

Spec == Init /\ [][Next]_vars

\* Each thread runs on once it is inside an operation; nothing forces it to
\* start one, and nothing favours a waiter over a newcomer.
Fairness ==
    \A t \in Threads :
        /\ WF_vars(OplockWait(t) \/ OplockGrab(t))
        /\ WF_vars(Opunlock(t))
        /\ WF_vars(OpunlockClear(t))

FairSpec == Spec /\ Fairness

-----------------------------------------------------------------------------
(* Properties *)

Holders(k) == {t \in Threads : pc[t] = "work" /\ key[t] = k}

\* Until dnet_oplock has once found its list empty, at most one thread at a
\* time is between dnet_oplock and dnet_opunlock for a key, whatever the gaps
\* between the table lock and the entry lock (locks.c:166-256).
MutualExclusion ==
    ~exhausted => \A t, u \in Threads :
        pc[t] = "work" /\ pc[u] = "work" /\ key[t] = key[u] => t = u

\* An entry that goes back to the list on the last reference is not one that
\* another thread still sleeps on, holds or is about to clear: the pointer a
\* thread keeps across the gap still serves its key (locks.c:208-214).
NoStaleEntry ==
    ~exhausted => \A t \in Threads :
        pc[t] # "idle" => lock_tree[key[t]] = ent[t] /\ ent[t] # NoEntry

\* No lost wakeup: while a thread sleeps on an entry, the flag is set by a
\* thread that will signal, or some other thread has been woken or has yet to
\* look at the flag and will signal when it is done (locks.c:232-253).
NoLostWakeup ==
    ~exhausted => \A t \in waiting :
        \/ \E u \in Threads : ent[u] = ent[t] /\ pc[u] \in {"work", "unlock"}
        \/ \E u \in Threads \ waiting : ent[u] = ent[t] /\ pc[u] \in {"lock", "trylock"}

\* Every entry is idle or serves exactly one key, and is referenced exactly
\* when it is in the tree, even after the list has run empty (locks.c:174-185,
\* 208-211).
TableConsistent ==
    /\ \A k, l \in Keys : lock_tree[k] = lock_tree[l] /\ lock_tree[k] # NoEntry => k = l
    /\ \A e \in Entries :
        /\ e \in lock_list <=> \A k \in Keys : lock_tree[k] # e
        /\ e \in lock_list <=> refcnt[e] = 0

\* The key each thread holds, as its callers see it.
Holds == [t \in Threads |-> IF pc[t] = "work" THEN key[t] ELSE NoKey]

Abstract == INSTANCE KeyLock WITH holds <- Holds

\* The table implements a lock per key: every step of locks.c grants one free
\* key to one thread, releases one, or changes nothing a caller can see.
ImplementsKeyLock == Abstract!Spec

\* With an entry for every thread the list never runs empty.
NeverExhausted == ~exhausted

\* Whenever a thread waits for a key, some thread gets to hold that key.
KeyProgress ==
    \A k \in Keys :
        (\E t \in Threads : pc[t] = "lock" /\ key[t] = k) ~> (Holders(k) # {})
=============================================================================
