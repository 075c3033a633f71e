---------------------------- MODULE OpLockProofs ----------------------------
(***************************************************************************)
(* Proofs about OpLock for every set of threads, keys and entries.         *)
(*                                                                         *)
(* A thread that finds the list empty works without an entry, and its      *)
(* dnet_opunlock then drops a reference that is not its own, so nothing    *)
(* but the structure of the table survives an exhausted list.  The         *)
(* inductive invariant therefore has an unconditional part (TableInv) and  *)
(* a part that holds while ~exhausted (UserInv), which says who the        *)
(* references of an entry belong to and who may have set its flag.         *)
(***************************************************************************)
EXTENDS OpLock, FiniteSetTheorems, TLAPS

\* The threads whose operation holds a reference of entry e.
Users(e) == {t \in Threads : ent[t] = e /\ pc[t] \in {"lock", "trylock", "work"}}

TableInv == TypeOK /\ TableConsistent

\* A busy thread's pointer is the entry that serves its key.
PointerInv ==
    /\ \A t \in Threads : pc[t] # "idle" => lock_tree[key[t]] = ent[t] /\ ent[t] # NoEntry
    /\ \A t \in Threads : pc[t] = "idle" => ent[t] = NoEntry
    /\ \A t \in waiting : pc[t] = "lock"
    /\ \A t \in Threads : pc[t] = "trylock" => t \in TryThreads

\* A user is covered by a reference.  A dnet_optrylock that was refused leaves
\* a reference without a user; without such callers the two numbers agree.
CountInv ==
    /\ \A e \in Entries : Cardinality(Users(e)) <= refcnt[e]
    /\ TryThreads = {} => \A e \in Entries : Cardinality(Users(e)) = refcnt[e]

\* The flag of an entry in use is set exactly by its one holder.
FlagInv ==
    /\ \A t \in Threads : pc[t] \in {"work", "unlock"} => locked[ent[t]] = 1
    /\ \A t, u \in Threads :
        pc[t] \in {"work", "unlock"} /\ pc[u] \in {"work", "unlock"} /\ ent[t] = ent[u] => t = u
    /\ \A e \in Entries \ lock_list : locked[e] = 1 =>
        \E t \in Threads : ent[t] = e /\ pc[t] \in {"work", "unlock"}

UserInv == PointerInv /\ CountInv /\ FlagInv /\ NoLostWakeup

IInv == TableInv /\ (~exhausted => UserInv)

-----------------------------------------------------------------------------
(* Counting users. *)

\* The threads that use an entry can be counted.
LEMMA UsersFinite ==
    ASSUME NEW e
    PROVE  /\ IsFiniteSet(Users(e))
           /\ Cardinality(Users(e)) \in Nat
           /\ Cardinality(Users(e)) = 0 <=> Users(e) = {}
<1>1. Users(e) \in SUBSET Threads
  BY Zenon DEF Users
<1>2. IsFiniteSet(Users(e))
  BY <1>1, FS_Subset, ThreadsAssumption, Zenon
<1> QED
  BY <1>2, FS_CardinalityType, FS_EmptySet, Zenon

\* Two different users need two references.
LEMMA OneUser ==
    ASSUME NEW e, Cardinality(Users(e)) <= 1,
           NEW t \in Users(e), NEW u \in Users(e)
    PROVE  t = u
<1>1. IsFiniteSet(Users(e)) /\ Cardinality(Users(e)) \in Nat /\ Cardinality(Users(e)) # 0
  BY UsersFinite, Zenon
<1>2. Cardinality(Users(e)) = 1
  BY <1>1, SMTT(30)
<1>3. PICK x : Users(e) = {x}
  BY <1>1, <1>2, FS_Singleton, Zenon
<1> QED
  BY <1>3, Zenon

-----------------------------------------------------------------------------
(* The table. *)

\* All entries are idle at first.
LEMMA TableInit == Init => TableInv
<1> SUFFICES ASSUME Init PROVE TableInv
  BY Zenon
<1>1. TypeOK
  BY EntriesAssumption, Zenon DEF Init, TypeOK, PCs
<1>2. TableConsistent
  BY EntriesAssumption, Zenon DEF Init, TableConsistent
<1> QED
  BY <1>1, <1>2, Zenon DEF TableInv

\* Every step keeps the table consistent.
LEMMA TableStep == TableInv /\ [Next]_vars => TableInv'
<1> SUFFICES ASSUME TableInv, [Next]_vars
             PROVE  TableInv'
  BY Zenon
<1> USE EntriesAssumption, ThreadsAssumption DEF TableInv, TypeOK, TableConsistent, PCs
<1>1. ASSUME NEW t \in Threads, NEW k \in Keys, EnsureFound(t, k), UNCHANGED waiting,
             pc' \in [Threads -> PCs], key' \in [Threads -> Keys]
      PROVE  TableInv'
  BY <1>1, SMTT(30) DEF EnsureFound
<1>2. ASSUME NEW t \in Threads, NEW k \in Keys, EnsureFresh(t, k), UNCHANGED waiting,
             pc' \in [Threads -> PCs], key' \in [Threads -> Keys]
      PROVE  TableInv'
  <2>1. PICK e \in lock_list :
          /\ lock_list' = lock_list \ {e}
          /\ lock_tree' = [lock_tree EXCEPT ![k] = e]
          /\ locked' = [locked EXCEPT ![e] = 0]
          /\ refcnt' = [refcnt EXCEPT ![e] = 1]
          /\ ent' = [ent EXCEPT ![t] = e]
    BY <1>2, Zenon DEF EnsureFresh
  <2>2. TypeOK'
    BY <1>2, <2>1, Zenon DEF EnsureFresh
  <2>3. \A j \in Keys : j # k => lock_tree'[j] = lock_tree[j] /\ lock_tree[j] # e
    BY <2>1, Zenon
  <2>4. lock_tree'[k] = e /\ lock_tree[k] = NoEntry
    BY <1>2, <2>1, SMTT(30) DEF EnsureFresh
  <2>5. \A d \in Entries : d # e => refcnt'[d] = refcnt[d] /\ (d \in lock_list' <=> d \in lock_list)
    BY <2>1, Zenon
  <2>6. refcnt'[e] = 1 /\ e \notin lock_list'
    BY <2>1, Zenon
  <2> HIDE DEF TableInv, TypeOK, PCs
  <2>7. TableConsistent
    BY Zenon DEF TableInv
  <2>8. \A j, l \in Keys : lock_tree'[j] = lock_tree'[l] /\ lock_tree'[j] # NoEntry => j = l
    BY <2>3, <2>4, <2>7, SMTT(30)
  <2>9. \A d \in Entries : d # e =>
          /\ d \in lock_list' <=> \A j \in Keys : lock_tree'[j] # d
          /\ d \in lock_list' <=> refcnt'[d] = 0
    BY <2>3, <2>4, <2>5, <2>7, SMTT(30)
  <2>10. TableConsistent'
    BY <2>4, <2>6, <2>8, <2>9, SMTT(30)
  <2> QED
    BY <2>2, <2>10, Zenon DEF TableInv
<1>3. ASSUME NEW t \in Threads, NEW k \in Keys, EnsureEmpty(t, k), UNCHANGED waiting,
             pc' \in [Threads -> PCs], key' \in [Threads -> Keys]
      PROVE  TableInv'
  BY <1>3, Zenon DEF EnsureEmpty
<1>4. ASSUME NEW t \in Threads, NEW k \in Keys, Oplock(t, k)
      PROVE  TableInv'
  <2>1. UNCHANGED waiting /\ pc' \in [Threads -> PCs] /\ key' \in [Threads -> Keys]
    BY <1>4, Zenon DEF Oplock
  <2> QED
    BY <1>1, <1>2, <1>3, <1>4, <2>1, Zenon DEF Oplock
<1>5. ASSUME NEW t \in Threads, NEW k \in Keys, Optrylock(t, k)
      PROVE  TableInv'
  <2>1. UNCHANGED waiting /\ pc' \in [Threads -> PCs] /\ key' \in [Threads -> Keys]
    BY <1>5, Zenon DEF Optrylock
  <2> QED
    BY <1>1, <1>2, <1>3, <1>5, <2>1, Zenon DEF Optrylock
<1>6. ASSUME NEW t \in Threads, Opunlock(t)
      PROVE  TableInv'
  <2>1. key[t] \in Keys
    BY Zenon
  <2>2. CASE TakeMissing(t, key[t]) /\ pc' = [pc EXCEPT ![t] = "idle"]
    BY <1>6, <2>1, <2>2, Zenon DEF Opunlock, TakeMissing
  <2>3. CASE TakeLast(t, key[t]) /\ pc' = [pc EXCEPT ![t] = "idle"]
    <3> DEFINE e == lock_tree[key[t]]
    <3>1. TypeOK' /\ e \in Entries
      BY <1>6, <2>1, <2>3, SMTT(30) DEF Opunlock, TakeLast
    <3>2. \A j \in Keys : j # key[t] => lock_tree'[j] = lock_tree[j] /\ lock_tree[j] # e
      BY <1>6, <2>1, <2>3, <3>1, Zenon DEF Opunlock, TakeLast
    <3>3. lock_tree'[key[t]] = NoEntry
      BY <1>6, <2>1, <2>3, Zenon DEF Opunlock, TakeLast
    <3>4. \A d \in Entries : d # e => refcnt'[d] = refcnt[d] /\ (d \in lock_list' <=> d \in lock_list)
      BY <1>6, <2>1, <2>3, <3>1, Zenon DEF Opunlock, TakeLast
    <3>5. refcnt'[e] = 0 /\ e \in lock_list'
      BY <1>6, <2>1, <2>3, <3>1, Zenon DEF Opunlock, TakeLast
    <3> QED
      BY <2>1, <3>1, <3>2, <3>3, <3>4, <3>5, SMTT(30)
  <2>4. CASE TakeShared(t, key[t]) /\ pc' = [pc EXCEPT ![t] = "unlock"]
    <3> DEFINE e == lock_tree[key[t]]
    <3>1. e \in Entries /\ refcnt[e] # 0 /\ refcnt[e] # 1
      BY <2>1, <2>4, SMTT(30) DEF TakeShared
    <3>2. refcnt' \in [Entries -> Nat] /\ refcnt'[e] # 0
      BY <2>4, <3>1, SMTT(30) DEF TakeShared
    <3>3. TypeOK'
      BY <1>6, <2>1, <2>4, <3>1, <3>2, Zenon DEF Opunlock, TakeShared
    <3>4. \A d \in Entries : d # e => refcnt'[d] = refcnt[d]
      BY <2>4, <3>1, Zenon DEF TakeShared
    <3> QED
      BY <2>4, <3>1, <3>2, <3>3, <3>4, SMTT(30) DEF TakeShared
  <2> QED
    BY <1>6, <2>2, <2>3, <2>4, Zenon DEF Opunlock
<1>7. ASSUME NEW t \in Threads,
             \/ OplockWait(t) \/ OplockGrab(t) \/ SpuriousWakeup(t)
             \/ OptrylockGrab(t) \/ OptrylockBusy(t)
      PROVE  TableInv'
  BY <1>7, SMTT(30) DEF OplockWait, OplockGrab, SpuriousWakeup, OptrylockGrab, OptrylockBusy
<1>8. ASSUME NEW t \in Threads, OpunlockClear(t)
      PROVE  TableInv'
  BY <1>8, Zenon DEF OpunlockClear, Signal
<1>9. CASE UNCHANGED vars
  BY <1>9, Zenon DEF vars
<1> QED
  BY <1>4, <1>5, <1>6, <1>7, <1>8, <1>9, Zenon DEF Next

-----------------------------------------------------------------------------
(* The users, while the list has not been found empty. *)

\* At first no thread uses an entry.
LEMMA UserInit == Init => UserInv
<1> SUFFICES ASSUME Init PROVE UserInv
  BY Zenon
<1>1. PointerInv /\ FlagInv /\ NoLostWakeup
  BY Zenon DEF Init, PointerInv, FlagInv, NoLostWakeup
<1>2. ASSUME NEW e \in Entries PROVE Cardinality(Users(e)) = 0 /\ refcnt[e] = 0
  BY FS_EmptySet, EntriesAssumption, Zenon DEF Init, Users
<1> QED
  BY <1>1, <1>2, SMTT(30) DEF UserInv, CountInv

\* dnet_oplock and dnet_optrylock on an entry another operation uses.
LEMMA EnsureFoundStep ==
    ASSUME TableInv, UserInv, NEW t \in Threads, NEW k \in Keys, pc[t] = "idle",
           EnsureFound(t, k), NEW p \in {"lock", "trylock"},
           p = "trylock" => t \in TryThreads,
           pc' = [pc EXCEPT ![t] = p], key' = [key EXCEPT ![t] = k], UNCHANGED waiting,
           ~exhausted
    PROVE  UserInv'
<1> USE EntriesAssumption, ThreadsAssumption DEF TableInv, TypeOK, PCs, UserInv
<1>1. PICK e \in Entries :
        /\ lock_tree[k] = e
        /\ ent' = [ent EXCEPT ![t] = e]
        /\ refcnt' = [refcnt EXCEPT ![e] = @ + 1]
  BY Zenon DEF EnsureFound
<1>2. PointerInv'
  BY Zenon DEF PointerInv, EnsureFound
<1>3. FlagInv'
  <2>1. \A u \in Threads :
          /\ pc'[u] \in {"work", "unlock"} <=> pc[u] \in {"work", "unlock"}
          /\ pc[u] \in {"work", "unlock"} => ent'[u] = ent[u]
    BY <1>1, Zenon
  <2>2. UNCHANGED <<lock_list, locked>>
    BY Zenon DEF EnsureFound
  <2> QED
    BY <2>1, <2>2, SMTT(30) DEF FlagInv
<1>4. NoLostWakeup'
  BY <1>1, SMTT(30) DEF NoLostWakeup, PointerInv, EnsureFound
<1>5. CountInv'
  <2>1. \A d \in Entries \ {e} : Users(d)' = Users(d)
    BY <1>1, Zenon DEF Users, PointerInv
  <2>2. Users(e)' = Users(e) \cup {t} /\ t \notin Users(e)
    BY <1>1, SMTT(30) DEF Users, PointerInv
  <2>3. Cardinality(Users(e)') = Cardinality(Users(e)) + 1
    BY <2>2, UsersFinite, FS_AddElement, Zenon
  <2> QED
    BY <1>1, <2>1, <2>3, UsersFinite, SMTT(30) DEF CountInv
<1> QED
  BY <1>2, <1>3, <1>4, <1>5, Zenon

\* dnet_oplock and dnet_optrylock on a fresh entry.
LEMMA EnsureFreshStep ==
    ASSUME TableInv, UserInv, NEW t \in Threads, NEW k \in Keys, pc[t] = "idle",
           EnsureFresh(t, k), NEW p \in {"lock", "trylock"},
           p = "trylock" => t \in TryThreads,
           pc' = [pc EXCEPT ![t] = p], key' = [key EXCEPT ![t] = k], UNCHANGED waiting,
           ~exhausted
    PROVE  UserInv'
<1> USE EntriesAssumption, ThreadsAssumption DEF TableInv, TypeOK, PCs, UserInv
<1>1. PICK e \in lock_list :
        /\ lock_list' = lock_list \ {e}
        /\ lock_tree' = [lock_tree EXCEPT ![k] = e]
        /\ locked' = [locked EXCEPT ![e] = 0]
        /\ refcnt' = [refcnt EXCEPT ![e] = 1]
        /\ ent' = [ent EXCEPT ![t] = e]
  BY Zenon DEF EnsureFresh
<1>2. refcnt[e] = 0 /\ lock_tree[k] = NoEntry /\ \A j \in Keys : lock_tree[j] # e
  BY <1>1, Zenon DEF TableConsistent, EnsureFresh
<1>3. \A u \in Threads : ent[u] # e
  BY <1>1, <1>2, Zenon DEF PointerInv
<1>4. PointerInv'
  BY <1>1, <1>2, SMTT(30) DEF PointerInv
<1>5. FlagInv'
  <2>1. \A u \in Threads : pc'[u] \in {"work", "unlock"} => u # t /\ pc'[u] = pc[u] /\ ent'[u] = ent[u]
    BY <1>1, Zenon
  <2>2. \A d \in Entries \ lock_list' : locked'[d] = 1 => d \in Entries \ lock_list /\ locked[d] = 1
    BY <1>1, SMTT(30)
  <2>3. \A u \in Threads : pc[u] \in {"work", "unlock"} => u # t /\ pc'[u] = pc[u] /\ ent'[u] = ent[u]
    BY <1>1, Zenon
  <2>4. \A u \in Threads : pc'[u] \in {"work", "unlock"} => locked'[ent'[u]] = 1
    BY <1>1, <1>3, <2>1, SMTT(30) DEF FlagInv, PointerInv
  <2> QED
    BY <2>1, <2>2, <2>3, <2>4, SMTT(30) DEF FlagInv
<1>6. NoLostWakeup'
  BY <1>1, SMTT(30) DEF NoLostWakeup, PointerInv, EnsureFresh
<1>7. CountInv'
  <2>1. \A d \in Entries \ {e} : Users(d)' = Users(d)
    BY <1>1, Zenon DEF Users, PointerInv
  <2>2. Users(e)' = {t}
    BY <1>1, <1>3, Zenon DEF Users
  <2>3. Cardinality(Users(e)') = 1
    BY <2>2, FS_Singleton, Zenon
  <2> QED
    BY <1>1, <2>1, <2>3, SMTT(30) DEF CountInv
<1> QED
  BY <1>4, <1>5, <1>6, <1>7, Zenon

\* dnet_opunlock by the only user: no other thread still has the pointer.
LEMMA TakeLastStep ==
    ASSUME TableInv, UserInv, NEW t \in Threads, pc[t] = "work", TakeLast(t, key[t]),
           pc' = [pc EXCEPT ![t] = "idle"], UNCHANGED <<locked, waiting, key, exhausted>>,
           ~exhausted
    PROVE  UserInv'
<1> USE EntriesAssumption, ThreadsAssumption DEF TableInv, TypeOK, PCs, UserInv
<1>1. PICK e \in Entries :
        /\ lock_tree[key[t]] = e
        /\ refcnt[e] = 1
        /\ refcnt' = [refcnt EXCEPT ![e] = 0]
        /\ lock_tree' = [lock_tree EXCEPT ![key[t]] = NoEntry]
        /\ lock_list' = lock_list \cup {e}
        /\ ent' = [ent EXCEPT ![t] = NoEntry]
  BY Zenon DEF TakeLast
<1>2. ent[t] = e
  BY <1>1, Zenon DEF PointerInv
<1>3. \A u \in Threads : ent[u] = e => u = t
  <2> SUFFICES ASSUME NEW u \in Threads, ent[u] = e PROVE u = t
    BY Zenon
  <2>1. CASE pc[u] = "unlock"
    BY <1>2, <2>1, SMTT(30) DEF FlagInv
  <2>2. CASE pc[u] \in {"lock", "trylock", "work"}
    <3>1. t \in Users(e) /\ u \in Users(e) /\ Cardinality(Users(e)) <= 1
      BY <1>1, <1>2, <2>2, Zenon DEF Users, CountInv
    <3> QED
      BY <3>1, OneUser, Zenon
  <2>3. pc[u] # "idle"
    BY <1>1, Zenon DEF PointerInv
  <2> QED
    BY <2>1, <2>2, <2>3, Zenon
<1>4. PointerInv'
  BY <1>1, <1>2, <1>3, SMTT(30) DEF PointerInv
<1>5. FlagInv'
  <2>1. \A u \in Threads : pc'[u] \in {"work", "unlock"} => u # t /\ pc'[u] = pc[u] /\ ent'[u] = ent[u]
    BY <1>1, Zenon
  <2>2. \A d \in Entries \ lock_list' : d # e /\ d \in Entries \ lock_list
    BY <1>1, Zenon
  <2>3. \A u \in Threads : ent[u] # e => u # t /\ pc'[u] = pc[u] /\ ent'[u] = ent[u]
    BY <1>1, <1>2, Zenon
  <2> QED
    BY <2>1, <2>2, <2>3, SMTT(30) DEF FlagInv
<1>6. NoLostWakeup'
  BY <1>1, <1>2, <1>3, SMTT(30) DEF NoLostWakeup, PointerInv
<1>7. CountInv'
  <2>1. \A d \in Entries \ {e} : Users(d)' = Users(d)
    BY <1>1, <1>2, Zenon DEF Users
  <2>2. Users(e)' = {}
    BY <1>1, <1>3, Zenon DEF Users
  <2>3. Cardinality(Users(e)') = 0
    BY <2>2, FS_EmptySet, Zenon
  <2> QED
    BY <1>1, <2>1, <2>3, SMTT(30) DEF CountInv
<1> QED
  BY <1>4, <1>5, <1>6, <1>7, Zenon

\* dnet_opunlock while others have references.
LEMMA TakeSharedStep ==
    ASSUME TableInv, UserInv, NEW t \in Threads, pc[t] = "work", TakeShared(t, key[t]),
           pc' = [pc EXCEPT ![t] = "unlock"], UNCHANGED <<locked, waiting, key, exhausted>>,
           ~exhausted
    PROVE  UserInv'
<1> USE EntriesAssumption, ThreadsAssumption DEF TableInv, TypeOK, PCs, UserInv
<1>1. PICK e \in Entries :
        /\ lock_tree[key[t]] = e
        /\ refcnt' = [refcnt EXCEPT ![e] = @ - 1]
        /\ ent' = [ent EXCEPT ![t] = e]
        /\ UNCHANGED <<lock_list, lock_tree>>
  BY Zenon DEF TakeShared
<1>2. ent[t] = e /\ ent' = ent
  BY <1>1, Zenon DEF PointerInv
<1>3. PointerInv'
  BY <1>1, <1>2, ZenonT(30) DEF PointerInv
<1>4. FlagInv'
  BY <1>1, <1>2, SMTT(30) DEF FlagInv
<1>5. NoLostWakeup'
  BY <1>1, <1>2, SMTT(30) DEF NoLostWakeup, PointerInv
<1>6. CountInv'
  <2>1. \A d \in Entries \ {e} : Users(d)' = Users(d)
    BY <1>1, <1>2, SMTT(30) DEF Users
  <2>2. Users(e)' = Users(e) \ {t} /\ t \in Users(e)
    BY <1>2, Zenon DEF Users
  <2>3. Cardinality(Users(e)') = Cardinality(Users(e)) - 1
    BY <2>2, UsersFinite, FS_RemoveElement, Zenon
  <2> QED
    BY <1>1, <2>1, <2>3, UsersFinite, SMTT(30) DEF CountInv
<1> QED
  BY <1>3, <1>4, <1>5, <1>6, Zenon

\* The second critical section of the three operations.
LEMMA EntryStep ==
    ASSUME TableInv, UserInv, NEW t \in Threads, ~exhausted,
           \/ OplockWait(t) \/ OplockGrab(t) \/ SpuriousWakeup(t)
           \/ OptrylockGrab(t) \/ OptrylockBusy(t) \/ OpunlockClear(t)
    PROVE  UserInv'
<1> USE EntriesAssumption, ThreadsAssumption DEF TableInv, TypeOK, PCs, UserInv
<1>1. CASE OplockWait(t) \/ SpuriousWakeup(t)
  <2>1. PointerInv' /\ FlagInv'
    BY <1>1, SMTT(30) DEF OplockWait, SpuriousWakeup, PointerInv, FlagInv
  <2>2. CountInv'
    <3>1. \A e \in Entries : Users(e)' = Users(e) /\ refcnt'[e] = refcnt[e]
      BY <1>1, Zenon DEF OplockWait, SpuriousWakeup, Users
    <3> QED
      BY <3>1, Zenon DEF CountInv
  <2>3. NoLostWakeup'
    <3>1. CASE OplockWait(t)
      <4>1. ent[t] \in Entries \ lock_list
        BY <3>1, SMTT(30) DEF OplockWait, PointerInv, TableConsistent
      <4>2. PICK h \in Threads : ent[h] = ent[t] /\ pc[h] \in {"work", "unlock"}
        BY <3>1, <4>1, Zenon DEF OplockWait, FlagInv
      <4> QED
        BY <3>1, <4>2, SMTT(30) DEF OplockWait, NoLostWakeup, PointerInv
    <3>2. CASE SpuriousWakeup(t)
      BY <3>2, Zenon DEF SpuriousWakeup, NoLostWakeup, PointerInv
    <3> QED
      BY <1>1, <3>1, <3>2, Zenon
  <2> QED
    BY <2>1, <2>2, <2>3, Zenon
<1>2. CASE OplockGrab(t) \/ OptrylockGrab(t)
  <2>1. ent[t] \in Entries \ lock_list /\ t \notin waiting
    BY <1>2, Zenon DEF OplockGrab, OptrylockGrab, PointerInv, TableConsistent
  <2>2. PointerInv'
    BY <1>2, <2>1, SMTT(30) DEF OplockGrab, OptrylockGrab, PointerInv
  <2>3. \A u \in Threads : pc[u] \in {"work", "unlock"} => ent[u] # ent[t]
    BY <1>2, SMTT(30) DEF OplockGrab, OptrylockGrab, FlagInv
  <2>4. FlagInv'
    <3>1. /\ UNCHANGED <<lock_list, ent>>
          /\ locked' = [locked EXCEPT ![ent[t]] = 1]
          /\ pc' = [pc EXCEPT ![t] = "work"]
      BY <1>2, Zenon DEF OplockGrab, OptrylockGrab
    <3>2. \A u \in Threads \ {t} : pc'[u] = pc[u]
      BY <3>1, Zenon
    <3>3. \A u \in Threads : pc'[u] \in {"work", "unlock"} => locked'[ent[u]] = 1
      BY <2>1, <3>1, <3>2, SMTT(30) DEF FlagInv, PointerInv
    <3>4. \A e \in Entries \ lock_list : e # ent[t] => locked'[e] = locked[e]
      BY <3>1, Zenon
    <3>5. \A e \in Entries \ lock_list : locked'[e] = 1 =>
            \E u \in Threads : ent[u] = e /\ pc'[u] \in {"work", "unlock"}
      BY <3>1, <3>2, <3>4, SMTT(30) DEF FlagInv
    <3> QED
      BY <2>3, <3>1, <3>2, <3>3, <3>5, SMTT(30) DEF FlagInv
  <2>5. NoLostWakeup'
    BY <1>2, <2>1, SMTT(30) DEF OplockGrab, OptrylockGrab, NoLostWakeup, PointerInv
  <2>6. CountInv'
    <3>1. \A e \in Entries : Users(e)' = Users(e) /\ refcnt'[e] = refcnt[e]
      BY <1>2, SMTT(30) DEF OplockGrab, OptrylockGrab, Users
    <3> QED
      BY <3>1, Zenon DEF CountInv
  <2> QED
    BY <2>2, <2>4, <2>5, <2>6, Zenon
<1>3. CASE OptrylockBusy(t)
  <2>1. ent[t] \in Entries \ lock_list /\ t \notin waiting
    BY <1>3, SMTT(30) DEF OptrylockBusy, PointerInv, TableConsistent
  <2>2. PICK h \in Threads : ent[h] = ent[t] /\ pc[h] \in {"work", "unlock"}
    BY <1>3, <2>1, Zenon DEF OptrylockBusy, FlagInv
  <2>3. PointerInv' /\ FlagInv'
    BY <1>3, SMTT(30) DEF OptrylockBusy, PointerInv, FlagInv
  <2>4. NoLostWakeup'
    BY <1>3, <2>1, <2>2, SMTT(30) DEF OptrylockBusy, NoLostWakeup, PointerInv
  <2>5. CountInv'
    <3>1. \A e \in Entries : Users(e)' \in SUBSET Users(e) /\ refcnt'[e] = refcnt[e]
      BY <1>3, Zenon DEF OptrylockBusy, Users
    <3>2. \A e \in Entries : Cardinality(Users(e)') \in Nat /\ Cardinality(Users(e)') <= Cardinality(Users(e))
      BY <3>1, UsersFinite, FS_Subset, FS_CardinalityType, Zenon
    <3>3. TryThreads # {}
      BY <1>3, Zenon DEF OptrylockBusy, PointerInv
    <3> QED
      BY <3>1, <3>2, <3>3, UsersFinite, SMTT(30) DEF CountInv
  <2> QED
    BY <2>3, <2>4, <2>5, Zenon
<1>4. CASE OpunlockClear(t)
  <2>1. ent[t] \in Entries \ lock_list /\ t \notin waiting
    BY <1>4, Zenon DEF OpunlockClear, PointerInv, TableConsistent
  <2>2. PointerInv'
    BY <1>4, <2>1, Zenon DEF OpunlockClear, Signal, PointerInv
  <2>3. \A u \in Threads : pc[u] \in {"work", "unlock"} /\ u # t => ent[u] # ent[t]
    BY <1>4, Zenon DEF OpunlockClear, FlagInv
  <2>4. FlagInv'
    BY <1>4, <2>1, <2>3, SMTT(30) DEF OpunlockClear, FlagInv
  <2>5. NoLostWakeup'
    <3> SUFFICES ASSUME NEW u \in waiting'
                 PROVE  \/ \E v \in Threads : ent'[v] = ent'[u] /\ pc'[v] \in {"work", "unlock"}
                        \/ \E v \in Threads \ waiting' :
                              ent'[v] = ent'[u] /\ pc'[v] \in {"lock", "trylock"}
      BY Zenon DEF NoLostWakeup
    <3>1. u \in waiting /\ u \in Threads /\ u # t /\ ent'[u] = ent[u] /\ pc'[u] = pc[u] /\ pc[u] = "lock"
      BY <1>4, <2>1, Zenon DEF OpunlockClear, Signal, PointerInv
    <3>2. CASE ent[u] # ent[t]
      BY <1>4, <3>1, <3>2, ZenonT(30) DEF OpunlockClear, Signal, NoLostWakeup
    <3>3. CASE ent[u] = ent[t]
      <4>1. PICK v \in waiting : ent[v] = ent[t] /\ waiting' = waiting \ {v}
        BY <1>4, <3>1, <3>3, Zenon DEF OpunlockClear, Signal
      <4>2. v \in Threads \ waiting' /\ v # t /\ pc[v] = "lock"
        BY <1>4, <4>1, Zenon DEF OpunlockClear, PointerInv
      <4> QED
        BY <1>4, <3>1, <3>3, <4>1, <4>2, Zenon DEF OpunlockClear
    <3> QED
      BY <3>2, <3>3, Zenon
  <2>6. CountInv'
    <3>1. \A e \in Entries : Users(e)' = Users(e) /\ refcnt'[e] = refcnt[e]
      BY <1>4, Zenon DEF OpunlockClear, Users
    <3> QED
      BY <3>1, Zenon DEF CountInv
  <2> QED
    BY <2>2, <2>4, <2>5, <2>6, Zenon
<1> QED
  BY <1>1, <1>2, <1>3, <1>4, Zenon

-----------------------------------------------------------------------------
(* The invariant is inductive, and what follows from it. *)

\* Every step keeps the invariant, as long as the list has not run empty.
LEMMA Inductive == IInv /\ [Next]_vars => IInv'
<1> SUFFICES ASSUME IInv, [Next]_vars
             PROVE  IInv'
  BY Zenon
<1>1. TableInv'
  BY TableStep, Zenon DEF IInv
<1> SUFFICES ASSUME ~exhausted' PROVE UserInv'
  BY <1>1, Zenon DEF IInv
<1>2. ASSUME NEW t \in Threads, NEW k \in Keys, Oplock(t, k)
      PROVE  ~exhausted /\ UserInv'
  <2>1. ~exhausted /\ ~EnsureEmpty(t, k)
    BY <1>2, Zenon DEF Oplock, EnsureFound, EnsureFresh, EnsureEmpty, IInv, TableInv, TypeOK
  <2>2. /\ pc[t] = "idle" /\ key' = [key EXCEPT ![t] = k] /\ UNCHANGED waiting
        /\ pc' = [pc EXCEPT ![t] = "lock"]
        /\ EnsureFound(t, k) \/ EnsureFresh(t, k)
        /\ TableInv /\ UserInv
    BY <1>2, <2>1, Zenon DEF Oplock, IInv
  <2>3. "lock" = "trylock" => t \in TryThreads
    BY <1>2, Zenon DEF Oplock
  <2>4. "lock" \in {"lock", "trylock"}
    BY Zenon
  <2>5. CASE EnsureFound(t, k)
    BY <2>1, <2>2, <2>3, <2>4, <2>5, EnsureFoundStep, Zenon
  <2>6. CASE EnsureFresh(t, k)
    BY <2>1, <2>2, <2>3, <2>4, <2>6, EnsureFreshStep, Zenon
  <2> QED
    BY <2>1, <2>2, <2>5, <2>6, Zenon
<1>3. ASSUME NEW t \in Threads, NEW k \in Keys, Optrylock(t, k)
      PROVE  ~exhausted /\ UserInv'
  <2>1. ~exhausted /\ ~EnsureEmpty(t, k)
    BY <1>3, SMTT(30) DEF Optrylock, EnsureFound, EnsureFresh, EnsureEmpty, IInv, TableInv, TypeOK
  <2>2. /\ pc[t] = "idle" /\ key' = [key EXCEPT ![t] = k] /\ UNCHANGED waiting
        /\ pc' = [pc EXCEPT ![t] = "trylock"]
        /\ EnsureFound(t, k) \/ EnsureFresh(t, k)
        /\ TableInv /\ UserInv
    BY <1>3, <2>1, Zenon DEF Optrylock, IInv
  <2>3. "trylock" = "trylock" => t \in TryThreads
    BY <1>3, Zenon DEF Optrylock
  <2>4. "trylock" \in {"lock", "trylock"}
    BY Zenon
  <2>5. CASE EnsureFound(t, k)
    BY <2>1, <2>2, <2>3, <2>4, <2>5, EnsureFoundStep, Zenon
  <2>6. CASE EnsureFresh(t, k)
    BY <2>1, <2>2, <2>3, <2>4, <2>6, EnsureFreshStep, Zenon
  <2> QED
    BY <2>1, <2>2, <2>5, <2>6, Zenon
<1>4. ASSUME NEW t \in Threads, Opunlock(t)
      PROVE  ~exhausted /\ UserInv'
  BY <1>4, TakeLastStep, TakeSharedStep, Zenon
     DEF Opunlock, TakeMissing, IInv, UserInv, PointerInv
<1>5. ASSUME NEW t \in Threads,
             \/ OplockWait(t) \/ OplockGrab(t) \/ SpuriousWakeup(t)
             \/ OptrylockGrab(t) \/ OptrylockBusy(t) \/ OpunlockClear(t)
      PROVE  ~exhausted /\ UserInv'
  BY <1>5, EntryStep, SMTT(30)
     DEF OplockWait, OplockGrab, SpuriousWakeup, OptrylockGrab, OptrylockBusy, OpunlockClear, IInv
<1>6. CASE UNCHANGED vars
  <2>1. \A e \in Entries : Users(e)' = Users(e)
    BY <1>6, Zenon DEF vars, Users
  <2>2. UserInv
    BY <1>6, Zenon DEF vars, IInv
  <2>3. PointerInv'
    BY <1>6, <2>2, Zenon DEF vars, UserInv, PointerInv
  <2>4. CountInv'
    BY <1>6, <2>1, <2>2, Zenon DEF vars, UserInv, CountInv
  <2>5. FlagInv'
    BY <1>6, <2>2, Zenon DEF vars, UserInv, FlagInv
  <2>6. NoLostWakeup'
    BY <1>6, <2>2, Zenon DEF vars, UserInv, NoLostWakeup
  <2> QED
    BY <1>6, <2>3, <2>4, <2>5, <2>6, Zenon DEF vars, UserInv
<1> QED
  BY <1>2, <1>3, <1>4, <1>5, <1>6, Zenon DEF Next

\* The invariant holds always.
LEMMA Invariance == Spec => []IInv
<1>1. Init => IInv
  BY TableInit, UserInit, Zenon DEF IInv
<1> QED
  BY <1>1, Inductive, PTL DEF Spec

\* A set flag has one holder, so one key has one.
LEMMA IInvExcludes == IInv => MutualExclusion
  BY EntriesAssumption, SMTT(30) DEF IInv, TableInv, TypeOK, UserInv, PointerInv, FlagInv, MutualExclusion

-----------------------------------------------------------------------------
(* Results. *)

\* Every entry is idle or serves exactly one key, whatever the number of
\* entries and however often the list runs empty.
THEOREM TableTheorem == Spec => [](TypeOK /\ TableConsistent)
<1>1. Spec => []TableInv
  BY TableInit, TableStep, PTL DEF Spec
<1> QED
  BY <1>1, PTL DEF TableInv

\* For any threads, keys and entries: as long as dnet_oplock has not found its
\* list empty, two threads are never at work on the same key.
THEOREM MutualExclusionTheorem == Spec => []MutualExclusion
  BY Invariance, IInvExcludes, PTL

\* For any threads, keys and entries: as long as dnet_oplock has not found its
\* list empty, no thread is left with a pointer to an entry that was recycled.
THEOREM NoStaleEntryTheorem == Spec => []NoStaleEntry
<1>1. IInv => NoStaleEntry
  BY Zenon DEF IInv, UserInv, PointerInv, NoStaleEntry
<1> QED
  BY <1>1, Invariance, PTL

\* For any threads, keys and entries: as long as dnet_oplock has not found its
\* list empty, pthread_cond_signal in dnet_opunlock leaves no sleeper behind.
THEOREM NoLostWakeupTheorem == Spec => []NoLostWakeup
<1>1. IInv => NoLostWakeup
  BY Zenon DEF IInv, UserInv, NoLostWakeup
<1> QED
  BY <1>1, Invariance, PTL

\* When the list is empty every entry has a user, and a thread uses at most
\* one entry: an idle thread finds the list empty only if there are fewer
\* entries than threads.
LEMMA EntryForIdle ==
    ASSUME IInv, ~exhausted, TryThreads = {}, Cardinality(Threads) <= Cardinality(Entries),
           NEW t \in Threads, pc[t] = "idle"
    PROVE  lock_list # {}
<1> SUFFICES ASSUME lock_list = {} PROVE FALSE
  BY Zenon
<1> USE DEF IInv, TableInv, UserInv
<1>1. \A e \in Entries : Users(e) # {}
  <2> SUFFICES ASSUME NEW e \in Entries PROVE Users(e) # {}
    BY Zenon
  <2>1. refcnt[e] # 0
    BY Zenon DEF TableConsistent
  <2> QED
    BY <2>1, UsersFinite, Zenon DEF CountInv
<1> DEFINE f == [e \in Entries |-> CHOOSE u \in Users(e) : TRUE]
<1>2. \A e \in Entries : f[e] \in Users(e)
  BY <1>1, Zenon
<1>3. f \in [Entries -> Threads \ {t}]
  BY <1>2, Zenon DEF Users, f
<1>a. \A e \in Entries : ent[f[e]] = e
  BY <1>2, Zenon DEF Users
<1>4. \A d, e \in Entries : f[d] = f[e] => d = e
  BY <1>a, Zenon
<1>5. IsFiniteSet(Threads \ {t}) /\ Cardinality(Threads \ {t}) = Cardinality(Threads) - 1
  BY FS_RemoveElement, ThreadsAssumption, Zenon
<1>6. Cardinality(Threads) \in Nat /\ Cardinality(Entries) \in Nat
  BY FS_CardinalityType, ThreadsAssumption, EntriesAssumption, Zenon
<1>7. Cardinality(Threads \ {t}) < Cardinality(Entries)
  BY <1>5, <1>6, SMTT(30)
<1> HIDE DEF f
<1>8. \E d, e \in Entries : d # e /\ f[d] = f[e]
  BY <1>3, <1>5, <1>7, EntriesAssumption, FS_PigeonHole, SMTT(30)
<1> QED
  BY <1>4, <1>8, Zenon

\* With no more threads than entries, and no callers of dnet_optrylock, the
\* list is never found empty: exclusion is then unconditional.
THEOREM NeverExhaustedTheorem ==
    ASSUME TryThreads = {}, Cardinality(Threads) <= Cardinality(Entries)
    PROVE  Spec => []NeverExhausted
<1>1. Init => NeverExhausted
  BY Zenon DEF Init, NeverExhausted
<1>2. IInv /\ NeverExhausted /\ [Next]_vars => NeverExhausted'
  <2> SUFFICES ASSUME IInv, ~exhausted, [Next]_vars PROVE ~exhausted'
    BY Zenon DEF NeverExhausted
  <2>1. ASSUME NEW t \in Threads, NEW k \in Keys, Oplock(t, k) PROVE ~exhausted'
    BY <2>1, EntryForIdle, Zenon DEF Oplock, EnsureFound, EnsureFresh, EnsureEmpty
  <2>2. ASSUME NEW t \in Threads, NEW k \in Keys, Optrylock(t, k) PROVE ~exhausted'
    BY <2>2, Zenon DEF Optrylock
  <2> QED
    BY <2>1, <2>2, Zenon DEF Next, OplockWait, OplockGrab, SpuriousWakeup, Opunlock, OpunlockClear,
         OptrylockGrab, OptrylockBusy, vars
<1> QED
  BY <1>1, <1>2, Invariance, PTL DEF Spec

\* Under the same condition the table refines the abstract lock: every step
\* grants one free key, releases one, or is invisible to the callers.
THEOREM RefinementTheorem ==
    ASSUME TryThreads = {}, Cardinality(Threads) <= Cardinality(Entries)
    PROVE  Spec => ImplementsKeyLock
<1>1. Init => Abstract!Init
  BY Zenon DEF Init, Abstract!Init, Holds
<1>2. IInv /\ NeverExhausted /\ [Next]_vars => [Abstract!Next]_Holds
  <2> SUFFICES ASSUME IInv, ~exhausted, [Next]_vars
               PROVE  Abstract!Next \/ UNCHANGED Holds
    BY Zenon DEF NeverExhausted
  <2> USE KeysAssumption DEF IInv, TableInv, TypeOK
  <2>1. ASSUME NEW t \in Threads, NEW k \in Keys, Oplock(t, k) PROVE UNCHANGED Holds
    <3>1. ~EnsureEmpty(t, k)
      BY <2>1, EntryForIdle, Zenon DEF Oplock, EnsureEmpty
    <3> QED
      BY <2>1, <3>1, Zenon DEF Oplock, Holds, PCs
  <2>2. ASSUME NEW t \in Threads, OplockGrab(t) PROVE Abstract!Grant(t, key[t])
    <3>1. \A u \in Threads : pc[u] = "work" => key[u] # key[t]
      BY <2>2, SMTT(30) DEF OplockGrab, UserInv, PointerInv, FlagInv
    <3>2. \A u \in Threads : Holds[u] # key[t]
      BY <3>1, Zenon DEF Holds
    <3>3. Holds[t] = NoKey
      BY <2>2, Zenon DEF Holds, OplockGrab
    <3>4. Holds' = [Holds EXCEPT ![t] = key[t]]
      BY <2>2, Zenon DEF Holds, OplockGrab
    <3> QED
      BY <3>2, <3>3, <3>4, Zenon DEF Abstract!Grant
  <2>3. ASSUME NEW t \in Threads, Opunlock(t) PROVE Abstract!Release(t)
    <3>1. Holds[t] # NoKey
      BY <2>3, SMTT(30) DEF Opunlock, Holds
    <3>2. pc' = [pc EXCEPT ![t] = "idle"] \/ pc' = [pc EXCEPT ![t] = "unlock"]
      BY <2>3, Zenon DEF Opunlock
    <3>3. Holds' = [Holds EXCEPT ![t] = NoKey]
      BY <2>3, <3>2, Zenon DEF Opunlock, Holds
    <3> QED
      BY <3>1, <3>3, Zenon DEF Abstract!Release
  <2>4. ASSUME NEW t \in Threads,
               \/ OplockWait(t) \/ SpuriousWakeup(t) \/ OpunlockClear(t)
        PROVE  UNCHANGED Holds
    BY <2>4, Zenon DEF OplockWait, SpuriousWakeup, OpunlockClear, Holds
  <2>5. ASSUME NEW t \in Threads, OptrylockGrab(t) \/ OptrylockBusy(t) PROVE FALSE
    BY <2>5, Zenon DEF OptrylockGrab, OptrylockBusy, UserInv, PointerInv
  <2>6. ASSUME NEW t \in Threads, NEW k \in Keys, Optrylock(t, k) PROVE FALSE
    BY <2>6, Zenon DEF Optrylock
  <2>7. CASE UNCHANGED vars
    BY <2>7, Zenon DEF vars, Holds
  <2>8. \A t \in Threads : key[t] \in Keys
    BY Zenon
  <2> QED
    BY <2>1, <2>2, <2>3, <2>4, <2>5, <2>6, <2>7, <2>8, Zenon DEF Next, Abstract!Next
<1> QED
  BY <1>1, <1>2, Invariance, NeverExhaustedTheorem, PTL
     DEF Spec, ImplementsKeyLock, Abstract!Spec
=============================================================================
