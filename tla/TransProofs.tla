---------------------------- MODULE TransProofs -----------------------------
(***************************************************************************)
(* Proofs about Trans for any finite set of transactions, as long as       *)
(* memory lasts.  The inductive invariant IInv of TransSteps accounts for  *)
(* every reference of a transaction.                                       *)
(***************************************************************************)
EXTENDS TransSteps, FiniteSetTheorems

-----------------------------------------------------------------------------
(* The droppers, the checker, the peer and the resets. *)

\* What the other droppers are at.
OthersStay(d0) == \A d \in Droppers : d # d0 => dpc'[d] = dpc[d] /\ dcur'[d] = dcur[d]

\* The dropper d0.
LEMMA DropperStep ==
    ASSUME IInv, ~NoMemory, NEW d0 \in Droppers, DropperNext(d0)
    PROVE  \A t \in Trans : TInv(t)'
<1>0. Fns /\ Fns' /\ DInv(d0)
  BY DropperRest, Zenon DEF IInv, Rest, TypeOK, Fns
<1>1. ASSUME NEW t \in Trans, DropNext(d0, t)
      PROVE  \A u \in Trans : TInv(u)'
  <2>1. ASSUME NEW u \in Trans, u # t
        PROVE  Same(u)
    BY <1>0, <1>1, <2>1, TransAssumption, SMTT(30) DEF Same, DropNext, DInv, Fns, memVars
  <2>2. /\ dpc[d0] = "clean" /\ dcur[d0] # t /\ dpc'[d0] = "cb" /\ dcur'[d0] = t
        /\ OthersStay(d0) /\ t \in head[d0]
        /\ \A d \in Droppers : t \in head'[d] <=> t \in head[d] /\ d # d0
        /\ UNCHANGED <<trans_root, trans_list, ref, freed, finals, spc, wpc, wmore>>
    BY <1>0, <1>1, TransAssumption, Zenon DEF DropNext, DInv, Fns, OthersStay, memVars
  <2>3. TInv(t)
    BY Zenon DEF IInv
  <2>4. TInv(t)'
    BY <1>0, <2>2, <2>3, SMTT(30) DEF Fns, OthersStay, TInv, PCInv, HeldInv, HeldBy, HeldByWorker, CountInv,
         Held, SenderRef, WorkerRef, ListInv, DyingInv, Dying, DestroyedBy, FinalsInv
  <2> QED
    BY <2>1, <2>4, Frame, Zenon DEF IInv
<1>2. CASE DropCallbackEnd(d0)
  <2>1. ASSUME NEW t \in Trans, t # dcur[d0]
        PROVE  Same(t)
    BY <1>0, <1>2, <2>1, TransAssumption, Zenon DEF Same, DropCallbackEnd, Fns, memVars
  <2>2. ASSUME NEW t \in Trans, t = dcur[d0]
        PROVE  TInv(t)'
    <3>1. /\ dpc[d0] = "cb" /\ dpc'[d0] = "put" /\ OthersStay(d0)
          /\ UNCHANGED <<trans_root, trans_list, head, ref, freed, finals, spc, wpc, wmore, dcur>>
      BY <1>0, <1>2, <2>2, TransAssumption, Zenon DEF DropCallbackEnd, Fns, OthersStay, memVars
    <3>2. TInv(t)
      BY Zenon DEF IInv
    <3>3. HeldBy(d0, t) \/ DestroyedBy(d0, t)
      BY <1>0, <2>2, <3>1, Zenon DEF Fns, HeldBy, DestroyedBy
    <3>4. /\ Held(t) /\ ref[t] > 0 /\ ~Dying(t) /\ t \notin head[d0]
          /\ spc[t] # "insert" /\ t \notin trans_root /\ ~HeldByWorker(t)
          /\ \A d \in Droppers : HeldBy(d, t) => d = d0
      BY <1>0, <2>2, <3>1, <3>2, <3>3, SMTT(30)
      DEF Fns, TInv, HeldInv, CountInv, DyingInv, Dying, Held, DestroyedBy, SenderRef, WorkerRef
    <3>5. /\ \A d \in Droppers : HeldBy(d, t)' <=> HeldBy(d, t)
          /\ \A d \in Droppers : DestroyedBy(d, t)' <=> DestroyedBy(d, t)
      BY <1>0, <2>2, <3>1, <3>2, <3>4, TransAssumption, Zenon
      DEF Fns, OthersStay, HeldBy, DestroyedBy, Held, Dying
    <3>6. Held(t)' /\ ~Dying(t)'
      BY <1>0, <2>2, <3>1, <3>3, <3>4, <3>5, Zenon DEF Fns, Held, HeldByWorker, Dying
    <3>7. PCInv(t)' /\ HeldInv(t)'
      BY <1>0, <2>2, <3>1, <3>2, <3>4, <3>5, TransAssumption, Zenon
      DEF Fns, TInv, PCInv, HeldInv, HeldByWorker
    <3>8. CountInv(t)' /\ ListInv(t)'
      BY <1>0, <3>1, <3>2, <3>4, <3>6, Zenon DEF Fns, TInv, CountInv, ListInv, SenderRef, WorkerRef
    <3>9. DyingInv(t)'
      BY <1>0, <2>2, <3>1, <3>2, <3>4, <3>5, <3>6, Zenon DEF Fns, TInv, DyingInv, Dying, CountInv
    <3>10. FinalsInv(t)'
      BY <1>0, <2>2, <3>1, <3>2, <3>4, <3>5, <3>6, TransAssumption, Zenon
      DEF Fns, OthersStay, TInv, FinalsInv, DyingInv, Dying, DestroyedBy
    <3> QED
      BY <3>7, <3>8, <3>9, <3>10, Zenon DEF TInv
  <2> QED
    BY <2>1, <2>2, Frame, Zenon DEF IInv
<1>3. CASE DropPut(d0)
  <2>1. ASSUME NEW t \in Trans, t # dcur[d0]
        PROVE  Same(t)
    BY <1>0, <1>3, <2>1, TransAssumption, Zenon DEF Same, DropPut, Fns, Put, AfterPut
  <2>2. ASSUME NEW t \in Trans, t = dcur[d0]
        PROVE  TInv(t)'
    <3>1. /\ dpc[d0] = "put" /\ OthersStay(d0) /\ ref'[t] = ref[t] - 1
          /\ ref[t] = 1 => dpc'[d0] = "destroy" /\ dcur'[d0] = t
          /\ ref[t] # 1 => dpc'[d0] = "clean" /\ dcur'[d0] = NoTrans
          /\ UNCHANGED <<trans_root, trans_list, head, freed, finals, spc, wpc, wmore>>
      BY <1>0, <1>3, <2>2, TransAssumption, Zenon DEF DropPut, Fns, OthersStay, Put, AfterPut
    <3>2. TInv(t)
      BY Zenon DEF IInv
    <3>3. HeldBy(d0, t) \/ DestroyedBy(d0, t)
      BY <1>0, <2>2, <3>1, Zenon DEF Fns, HeldBy, DestroyedBy
    <3>4. /\ Held(t) /\ ref[t] > 0 /\ ~Dying(t) /\ t \notin head[d0]
          /\ spc[t] # "insert" /\ t \notin trans_root /\ ~HeldByWorker(t)
          /\ \A d \in Droppers : HeldBy(d, t) => d = d0
      BY <1>0, <2>2, <3>1, <3>2, <3>3, SMTT(30)
      DEF Fns, TInv, HeldInv, CountInv, DyingInv, Dying, Held, DestroyedBy, SenderRef, WorkerRef
    <3>5. /\ \A d \in Droppers : ~HeldBy(d, t)'
          /\ \A d \in Droppers : DestroyedBy(d, t)' <=> d = d0 /\ ref[t] = 1
      BY <1>0, <2>2, <3>1, <3>2, <3>4, TransAssumption, Zenon
      DEF Fns, OthersStay, HeldBy, DestroyedBy, Held, Dying
    <3>6. ~Held(t)' /\ (Dying(t)' <=> ref[t] = 1)
      BY <1>0, <2>2, <3>1, <3>3, <3>4, <3>5, Zenon DEF Fns, Held, HeldByWorker, Dying
    <3>7. PCInv(t)' /\ HeldInv(t)'
      BY <1>0, <2>2, <3>1, <3>2, <3>4, <3>5, TransAssumption, Zenon
      DEF Fns, TInv, PCInv, HeldInv, HeldByWorker
    <3>8. CountInv(t)' /\ ListInv(t)'
      <4>1. /\ SenderRef(t)' = SenderRef(t) /\ WorkerRef(t)' = WorkerRef(t)
            /\ SenderRef(t) \in Nat /\ WorkerRef(t) \in Nat
        BY <3>1, Zenon DEF SenderRef, WorkerRef
      <4>2. CountInv(t)'
        BY <3>1, <3>2, <3>4, <3>6, <4>1, SMTT(30) DEF TInv, CountInv
      <4>3. ListInv(t)'
        BY <3>1, <3>2, Zenon DEF TInv, ListInv
      <4> QED
        BY <4>2, <4>3, Zenon
    <3>9. DyingInv(t)'
      BY <1>0, <2>2, <3>1, <3>2, <3>4, <3>5, <3>6, SMTT(30) DEF Fns, TInv, DyingInv, Dying, CountInv
    <3>10. FinalsInv(t)'
      BY <1>0, <2>2, <3>1, <3>2, <3>4, <3>5, <3>6, TransAssumption, Zenon
      DEF Fns, OthersStay, TInv, FinalsInv, DyingInv, Dying, DestroyedBy
    <3> QED
      BY <3>7, <3>8, <3>9, <3>10, Zenon DEF TInv
  <2> QED
    BY <2>1, <2>2, Frame, Zenon DEF IInv
<1>4. CASE DropDestroy(d0)
  <2>1. ASSUME NEW t \in Trans, t # dcur[d0]
        PROVE  Same(t)
    BY <1>0, <1>4, <2>1, TransAssumption, Zenon DEF Same, DropDestroy, Fns, Destroy, OffLists
  <2>2. ASSUME NEW t \in Trans, t = dcur[d0]
        PROVE  TInv(t)'
    <3>1. /\ dpc[d0] = "destroy" /\ dpc'[d0] = "final" /\ OthersStay(d0)
          /\ t \notin trans_root' /\ t \notin trans_list' /\ \A d \in Droppers : t \notin head'[d]
          /\ finals'[t] = finals[t] + 1
          /\ UNCHANGED <<ref, freed, spc, wpc, wmore, dcur>>
      BY <1>0, <1>4, <2>2, TransAssumption, Zenon DEF DropDestroy, Fns, OthersStay, Destroy, OffLists
    <3>2. TInv(t)
      BY Zenon DEF IInv
    <3>3. HeldBy(d0, t) \/ DestroyedBy(d0, t)
      BY <1>0, <2>2, <3>1, Zenon DEF Fns, HeldBy, DestroyedBy
    <3>4. /\ Dying(t) /\ ref[t] = 0 /\ ~Held(t)
          /\ spc[t] \notin {"insert", "queue", "put", "destroy", "final", "idle", "failed"}
          /\ wpc[t] \notin {"cb", "put1", "destroy2", "final2"} /\ t \notin freed
          /\ \A d \in Droppers : DestroyedBy(d, t) => d = d0
      BY <1>0, <2>2, <3>1, <3>2, <3>3, SMTT(30)
      DEF Fns, TInv, HeldInv, CountInv, DyingInv, Dying, Held, DestroyedBy, SenderRef, WorkerRef
    <3>5. /\ \A d \in Droppers : ~HeldBy(d, t)'
          /\ \A d \in Droppers : DestroyedBy(d, t)' <=> d = d0
      BY <1>0, <2>2, <3>1, <3>2, <3>4, TransAssumption, Zenon
      DEF Fns, OthersStay, HeldBy, DestroyedBy, Held, Dying
    <3>6. ~Held(t)' /\ Dying(t)'
      BY <1>0, <2>2, <3>1, <3>3, <3>4, <3>5, Zenon DEF Fns, Held, HeldByWorker, Dying
    <3>7. PCInv(t)' /\ HeldInv(t)'
      BY <1>0, <2>2, <3>1, <3>2, <3>4, <3>5, TransAssumption, Zenon
      DEF Fns, TInv, PCInv, HeldInv, HeldByWorker
    <3>8. CountInv(t)' /\ ListInv(t)'
      BY <1>0, <3>1, <3>2, <3>4, <3>6, Zenon DEF Fns, TInv, CountInv, ListInv, Held, SenderRef, WorkerRef
    <3>9. DyingInv(t)'
      BY <1>0, <2>2, <3>1, <3>2, <3>4, <3>5, <3>6, Zenon DEF Fns, TInv, DyingInv, Dying, CountInv
    <3>10. FinalsInv(t)'
      BY <1>0, <2>2, <3>1, <3>2, <3>4, <3>5, <3>6, TransAssumption, SMTT(30)
      DEF Fns, OthersStay, TInv, FinalsInv, DyingInv, Dying, DestroyedBy
    <3> QED
      BY <3>7, <3>8, <3>9, <3>10, Zenon DEF TInv
  <2> QED
    BY <2>1, <2>2, Frame, Zenon DEF IInv
<1>5. CASE DropFree(d0)
  <2>1. ASSUME NEW t \in Trans, t # dcur[d0]
        PROVE  Same(t)
    BY <1>0, <1>5, <2>1, TransAssumption, Zenon DEF Same, DropFree, Fns, Free
  <2>2. ASSUME NEW t \in Trans, t = dcur[d0]
        PROVE  TInv(t)'
    <3>1. /\ dpc[d0] = "final" /\ dpc'[d0] = "clean" /\ dcur'[d0] = NoTrans
          /\ OthersStay(d0) /\ t \in freed'
          /\ UNCHANGED <<trans_root, trans_list, head, ref, finals, spc, wpc, wmore>>
      BY <1>0, <1>5, <2>2, TransAssumption, Zenon DEF DropFree, Fns, OthersStay, Free
    <3>2. TInv(t)
      BY Zenon DEF IInv
    <3>3. HeldBy(d0, t) \/ DestroyedBy(d0, t)
      BY <1>0, <2>2, <3>1, Zenon DEF Fns, HeldBy, DestroyedBy
    <3>4. /\ Dying(t) /\ ref[t] = 0 /\ ~Held(t)
          /\ spc[t] \notin {"insert", "queue", "put", "destroy", "final", "idle", "failed"}
          /\ wpc[t] \notin {"cb", "put1", "destroy2", "final2"} /\ t \notin freed
          /\ \A d \in Droppers : DestroyedBy(d, t) => d = d0
      BY <1>0, <2>2, <3>1, <3>2, <3>3, SMTT(30)
      DEF Fns, TInv, HeldInv, CountInv, DyingInv, Dying, Held, DestroyedBy, SenderRef, WorkerRef
    <3>5. /\ \A d \in Droppers : ~HeldBy(d, t)'
          /\ \A d \in Droppers : ~DestroyedBy(d, t)'
      BY <1>0, <2>2, <3>1, <3>2, <3>4, TransAssumption, SMTT(30)
      DEF Fns, OthersStay, HeldBy, DestroyedBy, Held, Dying
    <3>6. ~Held(t)' /\ ~Dying(t)'
      BY <1>0, <2>2, <3>1, <3>3, <3>4, <3>5, Zenon DEF Fns, Held, HeldByWorker, Dying
    <3>7. PCInv(t)' /\ HeldInv(t)'
      BY <1>0, <2>2, <3>1, <3>2, <3>4, <3>5, TransAssumption, Zenon
      DEF Fns, TInv, PCInv, HeldInv, HeldByWorker
    <3>8. CountInv(t)' /\ ListInv(t)'
      BY <1>0, <3>1, <3>2, <3>4, <3>6, Zenon DEF Fns, TInv, CountInv, ListInv, SenderRef, WorkerRef
    <3>9. DyingInv(t)'
      BY <1>0, <2>2, <3>1, <3>2, <3>4, <3>5, <3>6, Zenon DEF Fns, TInv, DyingInv, Dying, CountInv
    <3>10. FinalsInv(t)'
      BY <1>0, <2>2, <3>1, <3>2, <3>4, <3>5, <3>6, TransAssumption, ZenonT(30)
      DEF Fns, OthersStay, TInv, FinalsInv, DyingInv, Dying, DestroyedBy
    <3> QED
      BY <3>7, <3>8, <3>9, <3>10, Zenon DEF TInv
  <2> QED
    BY <2>1, <2>2, Frame, Zenon DEF IInv
<1>6. CASE DropDone(d0)
  <2>1. ASSUME NEW t \in Trans
        PROVE  Same(t)
    BY <1>0, <1>6, TransAssumption, Zenon DEF Same, DropDone, DInv, Fns, memVars
  <2> QED
    BY <2>1, Frame, Zenon DEF IInv
<1> QED
  BY <1>1, <1>2, <1>3, <1>4, <1>5, <1>6, Zenon DEF DropperNext

\* Moving listed transactions to the list of d0.
LEMMA MoveStep ==
    ASSUME IInv, NEW d0 \in Droppers, NEW X \in SUBSET trans_list,
           Move(d0, X), UNCHANGED <<memVars, spc, wpc, wmore, dcur>>,
           \A d \in Droppers : dcur[d] # NoTrans => dpc'[d] = dpc[d]
    PROVE  \A t \in Trans : TInv(t)'
<1> USE TransAssumption DEF IInv, TypeOK, memVars, Move
<1>1. ASSUME NEW t \in Trans, t \notin X
      PROVE  Same(t)
  BY <1>1, Zenon DEF Same
<1>2. ASSUME NEW t \in Trans, t \in X
      PROVE  TInv(t)'
  <2>1. /\ t \in trans_root /\ t \notin trans_root' /\ t \notin trans_list'
        /\ \A d \in Droppers : t \in head'[d] <=> d = d0
        /\ \A d \in Droppers : HeldBy(d, t)' <=> d = d0
        /\ \A d \in Droppers : DestroyedBy(d, t)' <=> DestroyedBy(d, t)
        /\ dcur'[d0] = t => DestroyedBy(d0, t)
    BY <1>2, SMTT(30) DEF TInv, ListInv, HeldInv, HeldBy, DestroyedBy, DInv, DropperPCs
  <2>2. Held(t) /\ Held(t)' /\ (Dying(t)' <=> Dying(t)) /\ ~Dying(t)
    BY <1>2, <2>1, SMTT(30) DEF Held, Dying, HeldBy, DestroyedBy, TInv, DyingInv, CountInv,
                      SenderRef, WorkerRef
  <2>3. dcur'[d0] # t
    BY <2>1, <2>2, Zenon DEF Dying
  <2>4. PCInv(t)' /\ HeldInv(t)' /\ CountInv(t)' /\ ListInv(t)'
    BY <1>2, <2>1, <2>2, <2>3, SMTT(30)
    DEF TInv, PCInv, HeldInv, HeldByWorker, CountInv, SenderRef, WorkerRef, ListInv
  <2>5. DyingInv(t)' /\ FinalsInv(t)'
    BY <1>2, <2>1, <2>2, Zenon DEF TInv, DyingInv, FinalsInv, Dying, DestroyedBy
  <2> QED
    BY <2>4, <2>5, Zenon DEF TInv
<1> QED
  BY <1>1, <1>2, Frame, Zenon

\* The checker, the peer, and the resets.
LEMMA OtherStep ==
    ASSUME IInv,
           \/ \E t \in Trans : PeerMore(t) \/ PeerLast(t)
           \/ \E X \in SUBSET Trans : CheckMove(X)
           \/ CheckQuiet \/ CheckReset \/ PeerClose \/ HandlerReset \/ NetReset \/ NetDone
    PROVE  \A t \in Trans : TInv(t)'
<1> USE DEF IInv, TypeOK, stVars, memVars, netVars, pcVars
<1>1. ASSUME \/ \E t \in Trans : PeerMore(t) \/ PeerLast(t)
             \/ CheckQuiet \/ PeerClose \/ NetDone
      PROVE  \A t \in Trans : TInv(t)'
  <2>1. ASSUME NEW t \in Trans
        PROVE  Same(t)
    BY <1>1, TransAssumption, Zenon DEF Same, DInv, PeerMore, PeerLast, CheckQuiet, PeerClose, NetDone, Droppers
  <2> QED
    BY <2>1, Frame, Zenon
<1>2. ASSUME NEW X \in SUBSET Trans, CheckMove(X)
      PROVE  \A t \in Trans : TInv(t)'
  <2>1. \A d \in Droppers : dcur[d] # NoTrans => dpc'[d] = dpc[d]
    BY <1>2, Zenon DEF CheckMove, DInv
  <2> QED
    BY <1>2, <2>1, MoveStep, Zenon DEF CheckMove, Droppers
<1>3. ASSUME NEW d0 \in Droppers, dpc[d0] = "run", Reset(d0),
             UNCHANGED <<memVars, spc, wpc, wmore, dcur>>
      PROVE  \A t \in Trans : TInv(t)'
  <2>1. \A d \in Droppers : dcur[d] # NoTrans => dpc'[d] = dpc[d]
    BY <1>3, Zenon DEF Reset, DInv
  <2> QED
    BY <1>3, <2>1, MoveStep, Zenon DEF Reset
<1>4. CASE CheckReset
  BY <1>3, <1>4, Zenon DEF CheckReset, Droppers
<1>5. CASE NetReset
  BY <1>3, <1>5, Zenon DEF NetReset, Droppers
<1>6. CASE HandlerReset
  BY <1>3, <1>6, Zenon DEF HandlerReset, Droppers
<1> QED
  BY <1>1, <1>2, <1>4, <1>5, <1>6, Zenon

-----------------------------------------------------------------------------
(* The invariant and what follows from it. *)

\* The invariant holds before any transaction is sent.
LEMMA InitIInv == Init => IInv
<1> SUFFICES ASSUME Init PROVE IInv
  BY Zenon
<1> USE TransAssumption, NumbersAssumption DEF Init
<1>1. TypeOK
  BY SMTT(30) DEF TypeOK, Replies, SenderPCs, WorkerPCs, DropperPCs
<1>2. \A t \in Trans : TInv(t) /\ InboxInv(t)
  BY SMTT(30) DEF TInv, InboxInv, PCInv, HeldInv, HeldBy, HeldByWorker, CountInv, Held, SenderRef,
         WorkerRef, ListInv, DyingInv, Dying, DestroyedBy, FinalsInv
<1> QED
  BY <1>1, <1>2, Zenon DEF IInv, DInv

\* Every step keeps the invariant, while memory lasts.
LEMMA NextIInv ==
    ASSUME IInv, ~NoMemory, [Next]_vars
    PROVE  IInv'
<1>1. ASSUME NEW t \in Trans, SenderNext(t)
      PROVE  IInv'
  BY <1>1, SenderStep, SenderRest, Zenon DEF IInv, Rest
<1>2. ASSUME NEW t \in Trans, WorkerNext(t)
      PROVE  IInv'
  BY <1>2, WorkerStep, WorkerRest, Zenon DEF IInv, Rest
<1>3. ASSUME NEW d \in Droppers, DropperNext(d)
      PROVE  IInv'
  BY <1>3, DropperStep, DropperRest, Zenon DEF IInv, Rest
<1>4. CASE UNCHANGED vars
  <2>1. ASSUME NEW t \in Trans
        PROVE  Same(t)
    BY <1>4, Zenon DEF vars, Same
  <2>2. \A t \in Trans : TInv(t)'
    BY <2>1, Frame, Zenon DEF IInv
  <2>3. Rest'
    BY <1>4, Zenon DEF vars, IInv, Rest, TypeOK, DInv, InboxInv
  <2> QED
    BY <2>2, <2>3, Zenon DEF IInv, Rest
<1> QED
  BY <1>1, <1>2, <1>3, <1>4, OtherStep, OtherRest, Zenon DEF Next, IInv, Rest

\* The invariant holds always.
LEMMA Invariance ==
    ASSUME ~NoMemory
    PROVE  Spec => []IInv
  BY InitIInv, NextIInv, PTL DEF Spec

\* With ~NoMemory the owners of RefsExact are those of Held.
LEMMA IInvRefs == IInv => RefsExact
<1> SUFFICES ASSUME IInv, NEW t \in Trans
             PROVE  /\ \A v, w \in Owners(t) : v = w
                    /\ ref[t] = Cardinality(Owners(t))
                        + (IF spc[t] \in {"insert", "queue", "put", "remove", "put1"} THEN 1 ELSE 0)
                        + (IF wpc[t] \in {"cb", "put1"} THEN 1 ELSE 0)
  BY Zenon DEF RefsExact
<1>1. TInv(t)
  BY Zenon DEF IInv
<1>2. \A v, w \in Owners(t) : v = w
  BY <1>1, Zenon DEF Owners, TInv, PCInv, HeldInv, HeldBy, HeldByWorker, Droppers
<1>3. Held(t) <=> Owners(t) # {}
  BY <1>1, Zenon DEF Owners, Held, HeldBy, HeldByWorker, TInv, PCInv, Droppers
<1>4. Cardinality(Owners(t)) = IF Held(t) THEN 1 ELSE 0
  <2>1. CASE Owners(t) = {}
    BY <1>3, <2>1, FS_EmptySet, Zenon
  <2>2. CASE Owners(t) # {}
    <3> PICK w : w \in Owners(t)
      BY <2>2, Zenon
    <3>1. Owners(t) = {w}
      BY <1>2, Zenon
    <3> QED
      BY <1>3, <2>2, <3>1, FS_Singleton, Zenon
  <2> QED
    BY <2>1, <2>2, Zenon
<1>5. /\ SenderRef(t) = IF spc[t] \in {"insert", "queue", "put", "remove", "put1"} THEN 1 ELSE 0
      /\ WorkerRef(t) = IF wpc[t] \in {"cb", "put1"} THEN 1 ELSE 0
  BY <1>1, Zenon DEF TInv, PCInv, SenderRef, WorkerRef
<1> QED
  BY <1>1, <1>2, <1>4, <1>5, SMTT(30) DEF TInv, CountInv

\* What is freed has no references, and the final callback was before that.
LEMMA IInvFreed == IInv => NoUseAfterFree /\ FinalOnce
<1> SUFFICES ASSUME IInv PROVE NoUseAfterFree /\ FinalOnce
  BY Zenon
<1> USE DEF IInv, TypeOK
<1>1. ASSUME NEW t \in freed
      PROVE  /\ t \in Trans /\ ref[t] = 0 /\ ~Held(t) /\ ~Dying(t)
             /\ SenderRef(t) = 0 /\ WorkerRef(t) = 0
  BY SMTT(30) DEF TInv, CountInv, DyingInv, SenderRef, WorkerRef
<1>2. ASSUME NEW t \in freed
      PROVE  Touching(t) = {}
  <2>1. spc[t] \in {"release", "done"}
    BY <1>1, SMTT(30) DEF TInv, PCInv, DyingInv, Dying, SenderRef
  <2>2. wpc[t] \in {"idle", "release"}
    BY <1>1, Zenon DEF TInv, PCInv, ListInv, Held, HeldByWorker, Dying, WorkerRef, WorkerPCs
  <2>3. \A d \in Droppers : dcur[d] = t => dpc[d] \notin {"cb", "put", "destroy", "final"}
    BY <1>1, Zenon DEF Held, HeldBy, Dying, DestroyedBy
  <2> QED
    BY <2>1, <2>2, <2>3, Zenon DEF Touching
<1>3. NoUseAfterFree
  <2> SUFFICES ASSUME NEW t \in freed
               PROVE  t \notin trans_root \cup trans_list \cup UNION {head[d] : d \in Droppers}
    BY <1>2, Zenon DEF NoUseAfterFree
  <2>1. t \notin trans_root /\ t \notin trans_list /\ \A d \in Droppers : t \notin head[d]
    BY <1>1, Zenon DEF Held, HeldBy, TInv, ListInv
  <2> QED
    BY <2>1, Zenon
<1>4. FinalOnce
  <2> SUFFICES ASSUME NEW t \in Trans
               PROVE  finals[t] <= 1 /\ (finals[t] = 1 /\ t \in freed => InCallback(t) = {})
    BY Zenon DEF FinalOnce
  <2>1. finals[t] <= 1
    BY SMTT(30) DEF TInv, FinalsInv
  <2>2. t \in freed => InCallback(t) = {}
    BY <1>2, Zenon DEF Touching, InCallback
  <2> QED
    BY <2>1, <2>2, Zenon
<1> QED
  BY <1>3, <1>4, Zenon

-----------------------------------------------------------------------------
(* The references of the state. *)

\* The senders and the IO threads that have one, and the replies under way, each
\* with its number.
Sending == {t \in Trans : spc[t] \notin {"idle", "done", "failed"}}
Working == {t \in Trans : wpc[t] # "idle"}
Waiting == {x \in Trans \X (1..MaxMore) : x[2] <= inbox[x[1]].more}
NetRef == IF dpc["net"] = "gone" THEN 0 ELSE 1

\* Every reference of the state is somebody's, and the one of the network thread
\* covers the route table.
StateInv ==
    /\ stref = NetRef + Cardinality(Allocated) + Cardinality(Sending) + Cardinality(Working)
               + Cardinality(Unread(FALSE)) + Cardinality(Waiting)
    /\ dpc["net"] # "run" => ~route

\* The changes of the references and of the counts agree.
Balanced(n, a, s, w, l, m) ==
    /\ NetRef' = NetRef + n
    /\ Cardinality(Allocated)' = Cardinality(Allocated) + a
    /\ Cardinality(Sending)' = Cardinality(Sending) + s
    /\ Cardinality(Working)' = Cardinality(Working) + w
    /\ Cardinality(Unread(FALSE))' = Cardinality(Unread(FALSE)) + l
    /\ Cardinality(Waiting)' = Cardinality(Waiting) + m
    /\ stref' = stref + n + a + s + w + l + m

\* What is counted is finite.
LEMMA Finite ==
    ASSUME TypeOK
    PROVE  /\ IsFiniteSet(Allocated) /\ Cardinality(Allocated) \in Nat
           /\ IsFiniteSet(Sending) /\ Cardinality(Sending) \in Nat
           /\ IsFiniteSet(Working) /\ Cardinality(Working) \in Nat
           /\ IsFiniteSet(Unread(FALSE)) /\ Cardinality(Unread(FALSE)) \in Nat
           /\ IsFiniteSet(Waiting) /\ Cardinality(Waiting) \in Nat
<1>1. /\ Allocated \subseteq Trans /\ Sending \subseteq Trans /\ Working \subseteq Trans
      /\ Unread(FALSE) \subseteq Trans
  BY Zenon DEF Allocated, Sending, Working, Unread
<1>2. /\ IsFiniteSet(Allocated) /\ IsFiniteSet(Sending) /\ IsFiniteSet(Working)
      /\ IsFiniteSet(Unread(FALSE))
  BY <1>1, TransAssumption, FS_Subset, Zenon
<1>3. IsFiniteSet(1..MaxMore)
  BY NumbersAssumption, FS_Interval, SMTT(30)
<1>4. IsFiniteSet(Trans \X (1..MaxMore))
  BY <1>3, TransAssumption, FS_Product, Zenon
<1>5. Waiting \in SUBSET (Trans \X (1..MaxMore))
  BY Zenon DEF Waiting
<1>6. IsFiniteSet(Waiting)
  BY <1>4, <1>5, FS_Subset, Zenon
<1> QED
  BY <1>2, <1>6, FS_CardinalityType, Zenon

\* Balanced changes keep the count.
LEMMA Balance ==
    ASSUME TypeOK, StateInv, dpc'["net"] # "run" => ~route',
           NEW n \in Int, NEW a \in Int, NEW s \in Int, NEW w \in Int, NEW l \in Int, NEW m \in Int,
           Balanced(n, a, s, w, l, m)
    PROVE  StateInv'
<1> DEFINE A == Cardinality(Allocated)
           S == Cardinality(Sending)
           W == Cardinality(Working)
           L == Cardinality(Unread(FALSE))
           M == Cardinality(Waiting)
<1>1. A \in Nat /\ S \in Nat /\ W \in Nat /\ L \in Nat /\ M \in Nat /\ NetRef \in {0, 1}
  BY Finite, Zenon DEF NetRef
<1>2. stref = NetRef + A + S + W + L + M
  BY Zenon DEF StateInv
<1>3. /\ NetRef' = NetRef + n /\ A' = A + a /\ S' = S + s /\ W' = W + w /\ L' = L + l /\ M' = M + m
      /\ stref' = stref + n + a + s + w + l + m
  BY Zenon DEF Balanced
<1>4. stref' = NetRef' + A' + S' + W' + L' + M'
  <2> HIDE DEF A, S, W, L, M
  <2> QED
    BY <1>1, <1>2, <1>3, SMTT(30)
<1> QED
  BY <1>4, Zenon DEF StateInv

\* The counts when an element comes or goes.
LEMMA PlusOne ==
    ASSUME NEW S, IsFiniteSet(S), NEW x, x \notin S
    PROVE  Cardinality(S \cup {x}) = Cardinality(S) + 1
  BY FS_AddElement, Zenon

\* Cardinality without one element.
LEMMA MinusOne ==
    ASSUME NEW S, IsFiniteSet(S), NEW x \in S
    PROVE  Cardinality(S \ {x}) = Cardinality(S) + (-1)
<1>1. Cardinality(S) \in Nat
  BY FS_CardinalityType, Zenon
<1> QED
  BY <1>1, FS_RemoveElement, Zenon

\* A step that leaves a set as it is.
LEMMA PlusNone ==
    ASSUME TypeOK
    PROVE  /\ NetRef' = NetRef => NetRef' = NetRef + 0
           /\ Allocated' = Allocated => Cardinality(Allocated)' = Cardinality(Allocated) + 0
           /\ Sending' = Sending => Cardinality(Sending)' = Cardinality(Sending) + 0
           /\ Working' = Working => Cardinality(Working)' = Cardinality(Working) + 0
           /\ Unread(FALSE)' = Unread(FALSE) =>
                Cardinality(Unread(FALSE))' = Cardinality(Unread(FALSE)) + 0
           /\ Waiting' = Waiting => Cardinality(Waiting)' = Cardinality(Waiting) + 0
<1>1. /\ Cardinality(Allocated) \in Nat /\ Cardinality(Sending) \in Nat
      /\ Cardinality(Working) \in Nat /\ Cardinality(Unread(FALSE)) \in Nat
      /\ Cardinality(Waiting) \in Nat /\ NetRef \in Nat
  BY Finite, Zenon DEF NetRef
<1>2. \A x \in Nat : x = x + 0
  BY SMTT(30)
<1> QED
  BY <1>1, <1>2, Zenon

\* What a sender does to the references.
LEMMA SenderRefs ==
    ASSUME IInv, ~NoMemory, StateInv, NEW t0 \in Trans, SenderNext(t0)
    PROVE  StateInv'
<1>0. TypeOK /\ TInv(t0) /\ spc \in [Trans -> SenderPCs] /\ stref \in Int
  BY Zenon DEF IInv, TypeOK
<1>1. \/ SendNoState(t0) \/ SendAlloc(t0) \/ SendInsert(t0) \/ SendQueue(t0)
      \/ SendPut(t0) \/ SendDestroy(t0) \/ SendFree(t0) \/ SendRelease(t0)
  <2>1. spc[t0] # "remove"
    BY <1>0, Zenon DEF TInv, PCInv
  <2>2. ~SendNoTrans(t0) /\ ~SendQueueFails(t0) /\ ~SendRemove(t0)
    BY <2>1, Zenon DEF SendNoTrans, SendQueueFails, SendRemove
  <2> QED
    BY <2>2, Zenon DEF SenderNext
<1>2. UNCHANGED <<route, inbox, wpc, dpc>>
  BY <1>1, Zenon DEF SendNoState, SendAlloc, SendInsert, SendQueue, SendPut, SendDestroy, SendFree,
              SendRelease, stVars, netVars
<1>3. UNCHANGED <<NetRef, Working, Unread(FALSE), Waiting>>
  BY <1>2, Zenon DEF NetRef, Working, Unread, Waiting
<1>4. dpc'["net"] # "run" => ~route'
  BY <1>2, Zenon DEF StateInv
<1>5. CASE SendNoState(t0) \/ SendInsert(t0) \/ SendQueue(t0) \/ SendPut(t0) \/ SendDestroy(t0)
  <2>1. UNCHANGED <<stref, freed>>
    BY <1>5, Zenon DEF SendNoState, SendInsert, SendQueue, SendPut, SendDestroy, stVars, memVars
  <2>2. /\ \A t \in Trans : t # t0 => spc'[t] = spc[t]
        /\ spc[t0] \in {"idle", "failed"} <=> spc'[t0] \in {"idle", "failed"}
        /\ spc[t0] \in {"idle", "done", "failed"} <=> spc'[t0] \in {"idle", "done", "failed"}
    BY <1>0, <1>5, SMTT(30) DEF SendNoState, SendInsert, SendQueue, SendPut, AfterPut, SendDestroy, FinalOf
  <2>3. UNCHANGED <<Allocated, Sending>>
    BY <2>1, <2>2, Zenon DEF Allocated, Sending
  <2>4. stref' = stref + 0 + 0 + 0 + 0 + 0 + 0
    BY <1>0, <2>1, <2>3, SMTT(30)
  <2>5. Balanced(0, 0, 0, 0, 0, 0)
    BY <2>4, <1>0, <1>3, <2>1, <2>3, PlusNone, Zenon DEF Balanced
  <2> QED
    BY <1>0, <1>4, <2>5, Balance, SMTT(30)
<1>6. CASE SendAlloc(t0)
  <2>1. /\ Allocated' = Allocated \cup {t0} /\ t0 \notin Allocated
        /\ Sending' = Sending \cup {t0} /\ t0 \notin Sending
    BY <1>0, <1>6, Zenon DEF SendAlloc, Allocated, Sending, TInv, DyingInv
  <2>2. /\ Cardinality(Allocated') = Cardinality(Allocated) + 1
        /\ Cardinality(Sending') = Cardinality(Sending) + 1
    BY <1>0, <2>1, Finite, PlusOne, Zenon
  <2>3. stref' = stref + 2
    BY <1>6, Zenon DEF SendAlloc
  <2>4. stref' = stref + 0 + 1 + 1 + 0 + 0 + 0
    BY <1>0, <2>2, <2>3, SMTT(30)
  <2>5. Balanced(0, 1, 1, 0, 0, 0)
    BY <2>4, <1>0, <1>3, <2>2, <2>3, PlusNone, Zenon DEF Balanced
  <2> QED
    BY <1>0, <1>4, <2>5, Balance, SMTT(30)
<1>7. CASE SendFree(t0)
  <2>1. spc[t0] = "final" /\ t0 \notin freed /\ spc' = [spc EXCEPT ![t0] = "release"]
    BY <1>0, <1>7, Zenon DEF SendFree, TInv, PCInv, DyingInv, Dying
  <2>2. Allocated' = Allocated \ {t0} /\ t0 \in Allocated /\ Sending' = Sending
    BY <1>0, <1>7, <2>1, Zenon DEF SendFree, Free, Allocated, Sending
  <2>3. Cardinality(Allocated') = Cardinality(Allocated) + (-1)
    BY <1>0, <2>2, Finite, MinusOne, Zenon
  <2>4. stref' = stref - 1
    BY <1>7, Zenon DEF SendFree, Free
  <2>5. stref' = stref + 0 + (-1) + 0 + 0 + 0 + 0
    BY <1>0, <2>2, <2>3, <2>4, SMTT(30)
  <2>6. Balanced(0, -1, 0, 0, 0, 0)
    BY <2>5, <1>0, <1>3, <2>2, <2>3, <2>4, PlusNone, Zenon DEF Balanced
  <2> QED
    BY <1>0, <1>4, <2>6, Balance, SMTT(30)
<1>8. CASE SendRelease(t0)
  <2>1. Sending' = Sending \ {t0} /\ t0 \in Sending /\ Allocated' = Allocated
    BY <1>0, <1>8, Zenon DEF SendRelease, memVars, Allocated, Sending
  <2>2. Cardinality(Sending') = Cardinality(Sending) + (-1)
    BY <1>0, <2>1, Finite, MinusOne, Zenon
  <2>3. stref' = stref - 1
    BY <1>8, Zenon DEF SendRelease
  <2>4. stref' = stref + 0 + 0 + (-1) + 0 + 0 + 0
    BY <1>0, <2>1, <2>2, <2>3, SMTT(30)
  <2>5. Balanced(0, 0, -1, 0, 0, 0)
    BY <2>4, <1>0, <1>3, <2>1, <2>2, <2>3, PlusNone, Zenon DEF Balanced
  <2> QED
    BY <1>0, <1>4, <2>5, Balance, SMTT(30)
<1> QED
  BY <1>1, <1>5, <1>6, <1>7, <1>8, Zenon

\* An IO thread takes over the reference of the reply it takes.
LEMMA TakeRefs ==
    ASSUME IInv, StateInv, NEW t0 \in Trans, NEW more \in BOOLEAN,
           wpc[t0] = "idle", Takes(t0, more), inbox' = Taken(t0, more),
           Working' = Working \cup {t0},
           UNCHANGED <<route, stref, freed, spc, dpc>>
    PROVE  StateInv'
<1>0. TypeOK /\ stref \in Int /\ inbox \in [Trans -> Replies] /\ MaxMore \in Nat
  BY NumbersAssumption, Zenon DEF IInv, TypeOK
<1>1. UNCHANGED <<NetRef, Allocated, Sending>>
  BY Zenon DEF NetRef, Allocated, Sending
<1>2. dpc'["net"] # "run" => ~route'
  BY Zenon DEF StateInv
<1>3. t0 \notin Working
  BY Zenon DEF Working
<1>4. Cardinality(Working)' = Cardinality(Working) + 1
  BY <1>0, <1>3, Finite, PlusOne, Zenon
<1>5. CASE more
  <2>1. /\ inbox[t0].more \in 1..MaxMore /\ inbox'[t0].more = inbox[t0].more - 1
        /\ inbox'[t0].last = inbox[t0].last
        /\ \A t \in Trans : t # t0 => inbox'[t] = inbox[t]
    BY <1>0, <1>5, SMTT(30) DEF Takes, Taken, Replies
  <2>2. Unread(FALSE)' = Unread(FALSE)
    BY <2>1, Zenon DEF Unread
  <2> DEFINE x0 == <<t0, inbox[t0].more>>
  <2>3. x0 \in Waiting
    BY <2>1, SMTT(30) DEF Waiting
  <2>4. Waiting' = Waiting \ {x0}
    <3>1. ASSUME NEW x \in Trans \X (1..MaxMore)
          PROVE  x[2] <= inbox'[x[1]].more <=> x[2] <= inbox[x[1]].more /\ x # x0
      <4>1. PICK t \in Trans, i \in 1..MaxMore : x = <<t, i>>
        BY SMTT(30)
      <4>2. CASE t = t0
        BY <1>0, <2>1, <4>1, <4>2, SMTT(30)
      <4>3. CASE t # t0
        BY <2>1, <4>1, <4>3, Zenon
      <4> QED
        BY <4>2, <4>3, Zenon
    <3> QED
      BY <3>1, Zenon DEF Waiting
  <2>5. Cardinality(Waiting)' = Cardinality(Waiting) + (-1)
    BY <1>0, <2>3, <2>4, Finite, MinusOne, Zenon
  <2>6. stref' = stref + 0 + 0 + 0 + 1 + 0 + (-1)
    BY <1>0, SMTT(30)
  <2>7. Balanced(0, 0, 0, 1, 0, -1)
    BY <1>0, <1>1, <1>4, <2>2, <2>5, <2>6, PlusNone, Zenon DEF Balanced
  <2> QED
    BY <1>0, <1>2, <2>7, Balance, SMTT(30)
<1>6. CASE ~more
  <2>1. /\ inbox[t0].last = 1 /\ inbox'[t0].last = 0
        /\ \A t \in Trans : inbox'[t].more = inbox[t].more
        /\ \A t \in Trans : t # t0 => inbox'[t] = inbox[t]
    BY <1>0, <1>6, Zenon DEF Takes, Taken, Replies
  <2>2. Unread(FALSE)' = Unread(FALSE) \ {t0} /\ t0 \in Unread(FALSE)
    BY <2>1, SMTT(30) DEF Unread
  <2>3. Waiting' = Waiting
    BY <2>1, Zenon DEF Waiting
  <2>4. Cardinality(Unread(FALSE))' = Cardinality(Unread(FALSE)) + (-1)
    BY <1>0, <2>2, Finite, MinusOne, Zenon
  <2>5. stref' = stref + 0 + 0 + 0 + 1 + (-1) + 0
    BY <1>0, SMTT(30)
  <2>6. Balanced(0, 0, 0, 1, -1, 0)
    BY <1>0, <1>1, <1>4, <2>3, <2>4, <2>5, PlusNone, Zenon DEF Balanced
  <2> QED
    BY <1>0, <1>2, <2>6, Balance, SMTT(30)
<1> QED
  BY <1>5, <1>6, Zenon

\* Whoever frees a transaction puts its reference.
LEMMA FreeRefs ==
    ASSUME IInv, StateInv, NEW t \in Trans, Dying(t), Free(t), Working' = Working,
           dpc'["net"] # "run" => ~route', NetRef' = NetRef, UNCHANGED <<inbox, spc>>
    PROVE  StateInv'
<1>0. TypeOK /\ TInv(t) /\ stref \in Int
  BY Zenon DEF IInv, TypeOK
<1>1. UNCHANGED <<Sending, Unread(FALSE), Waiting>>
  BY Zenon DEF Sending, Unread, Waiting
<1>2. Allocated' = Allocated \ {t} /\ t \in Allocated
  BY <1>0, Zenon DEF Free, Allocated, TInv, DyingInv
<1>3. Cardinality(Allocated)' = Cardinality(Allocated) + (-1)
  BY <1>0, <1>2, Finite, MinusOne, Zenon
<1>4. stref' = stref + 0 + (-1) + 0 + 0 + 0 + 0
  BY <1>0, SMTT(30) DEF Free
<1>5. Balanced(0, -1, 0, 0, 0, 0)
  BY <1>0, <1>1, <1>3, <1>4, PlusNone, Zenon DEF Balanced
<1> QED
  BY <1>0, <1>5, Balance, SMTT(30)

\* What an IO thread does to the references.
LEMMA WorkerRefs ==
    ASSUME IInv, StateInv, NEW t0 \in Trans, WorkerNext(t0)
    PROVE  StateInv'
<1>0. TypeOK /\ TInv(t0) /\ wpc \in [Trans -> WorkerPCs] /\ stref \in Int
  BY Zenon DEF IInv, TypeOK
<1>1. UNCHANGED <<route, spc, dpc>>
  BY Zenon DEF WorkerNext, RecvMissing, RecvFound, RecvCallbackEnd, RecvPut, RecvRelist,
         RecvDestroy, RecvFree, RecvRelease, stVars
<1>2. UNCHANGED <<NetRef, Sending>> /\ (dpc'["net"] # "run" => ~route')
  BY <1>1, Zenon DEF NetRef, Sending, StateInv
<1>3. ASSUME NEW more \in BOOLEAN, RecvMissing(t0, more) \/ RecvFound(t0, more)
      PROVE  StateInv'
  <2>1. /\ wpc[t0] = "idle" /\ Takes(t0, more) /\ inbox' = Taken(t0, more)
        /\ UNCHANGED <<stref, freed>>
    BY <1>3, Zenon DEF RecvMissing, RecvFound, stVars, memVars
  <2>2. Working' = Working \cup {t0}
    BY <1>0, <1>3, Zenon DEF RecvMissing, RecvFound, Working
  <2> QED
    BY <1>1, <2>1, <2>2, TakeRefs, Zenon
<1>4. CASE RecvCallbackEnd(t0) \/ RecvPut(t0) \/ RecvRelist(t0) \/ RecvDestroy(t0)
  <2>1. UNCHANGED <<stref, freed, inbox>>
    BY <1>4, Zenon DEF RecvCallbackEnd, RecvPut, RecvRelist, RecvDestroy, stVars, memVars, netVars
  <2>2. /\ \A t \in Trans : t # t0 => wpc'[t] = wpc[t]
        /\ wpc[t0] # "idle" /\ wpc'[t0] # "idle"
    BY <1>0, <1>4, SMTT(30) DEF RecvCallbackEnd, RecvPut, AfterPut, AfterPut1, RecvRelist, RecvDestroy, FinalOf
  <2>3. UNCHANGED <<Allocated, Working, Unread(FALSE), Waiting>>
    BY <1>1, <2>1, <2>2, Zenon DEF Allocated, Working, Unread, Waiting
  <2>4. stref' = stref + 0 + 0 + 0 + 0 + 0 + 0
    BY <1>0, <2>1, SMTT(30)
  <2>5. Balanced(0, 0, 0, 0, 0, 0)
    BY <1>0, <1>2, <2>3, <2>4, PlusNone, Zenon DEF Balanced
  <2> QED
    BY <1>0, <1>2, <2>5, Balance, SMTT(30)
<1>5. CASE RecvFree(t0)
  <2>1. wpc[t0] = "final2" /\ Free(t0) /\ inbox' = inbox
    BY <1>0, <1>5, Zenon DEF RecvFree, TInv, PCInv, netVars
  <2>2. Working' = Working /\ Dying(t0)
    BY <1>0, <1>5, <2>1, Zenon DEF RecvFree, Working, Dying
  <2> QED
    BY <1>1, <1>2, <2>1, <2>2, FreeRefs, Zenon
<1>6. CASE RecvRelease(t0)
  <2>1. Working' = Working \ {t0} /\ t0 \in Working
    BY <1>0, <1>6, Zenon DEF RecvRelease, Working
  <2>2. Cardinality(Working)' = Cardinality(Working) + (-1)
    BY <1>0, <2>1, Finite, MinusOne, Zenon
  <2>3. UNCHANGED <<Allocated, Unread(FALSE), Waiting>>
    BY <1>1, <1>6, Zenon DEF RecvRelease, memVars, netVars, Allocated, Unread, Waiting
  <2>4. stref' = stref + 0 + 0 + 0 + (-1) + 0 + 0
    BY <1>0, <1>6, SMTT(30) DEF RecvRelease
  <2>5. Balanced(0, 0, 0, -1, 0, 0)
    BY <1>0, <1>2, <2>2, <2>3, <2>4, PlusNone, Zenon DEF Balanced
  <2> QED
    BY <1>0, <1>2, <2>5, Balance, SMTT(30)
<1> QED
  BY <1>3, <1>4, <1>5, <1>6, Zenon DEF WorkerNext

\* A step that touches no reference of the state.
LEMMA SameRefs ==
    ASSUME IInv, StateInv, UNCHANGED <<stref, freed, inbox, spc, wpc>>, NetRef' = NetRef,
           dpc'["net"] # "run" => ~route'
    PROVE  StateInv'
<1>1. TypeOK /\ stref \in Int
  BY Zenon DEF IInv, TypeOK
<1>2. UNCHANGED <<Allocated, Sending, Working, Unread(FALSE), Waiting>>
  BY Zenon DEF Allocated, Sending, Working, Unread, Waiting
<1>3. stref' = stref + 0 + 0 + 0 + 0 + 0 + 0
  BY <1>1, SMTT(30)
<1>4. Balanced(0, 0, 0, 0, 0, 0)
  BY <1>1, <1>2, <1>3, PlusNone, Zenon DEF Balanced
<1> QED
  BY <1>1, <1>4, Balance, SMTT(30)

\* What a dropper does to the references.
LEMMA DropperRefs ==
    ASSUME IInv, StateInv, NEW d0 \in Droppers, DropperNext(d0)
    PROVE  StateInv'
<1>0. TypeOK /\ DInv(d0) /\ dpc \in [Droppers -> DropperPCs] /\ "net" \in Droppers
  BY Zenon DEF IInv, TypeOK, Droppers
<1>1. UNCHANGED <<route, inbox, spc, wpc>>
  BY Zenon DEF DropperNext, DropNext, DropCallbackEnd, DropPut, DropDestroy, DropFree, DropDone,
         stVars, netVars
<1>2. /\ dpc'["net"] = "gone" <=> dpc["net"] = "gone"
      /\ dpc'["net"] = "run" <=> dpc["net"] = "run"
  BY <1>0, Zenon DEF DropperNext, DropNext, DropCallbackEnd, DropPut, AfterPut, DropDestroy, DropFree, DropDone
<1>3. NetRef' = NetRef /\ (dpc'["net"] # "run" => ~route')
  BY <1>1, <1>2, Zenon DEF NetRef, StateInv
<1>4. CASE DropFree(d0)
  <2>1. dcur[d0] \in Trans /\ Dying(dcur[d0])
    BY <1>0, <1>4, Zenon DEF DropFree, DInv, TypeOK, Dying, DestroyedBy
  <2>2. Free(dcur[d0]) /\ Working' = Working
    BY <1>1, <1>4, Zenon DEF DropFree, Working
  <2> QED
    BY <1>1, <1>3, <2>1, <2>2, FreeRefs, Zenon
<1>5. CASE ~DropFree(d0)
  <2>1. UNCHANGED <<stref, freed>>
    BY <1>5, Zenon DEF DropperNext, DropNext, DropCallbackEnd, DropPut, DropDestroy, DropDone, stVars, memVars
  <2> QED
    BY <1>1, <1>3, <2>1, SameRefs, Zenon
<1> QED
  BY <1>4, <1>5, Zenon

\* The peer's replies come with a reference each.
LEMMA PeerRefs ==
    ASSUME IInv, StateInv, NEW t0 \in Trans, PeerMore(t0) \/ PeerLast(t0)
    PROVE  StateInv'
<1>0. /\ TypeOK /\ stref \in Int /\ inbox \in [Trans -> Replies] /\ sent \in [Trans -> Replies]
      /\ InboxInv(t0) /\ MaxMore \in Nat
  BY NumbersAssumption, Zenon DEF IInv, TypeOK
<1>1. UNCHANGED <<route, freed, spc, wpc, dpc>> /\ stref' = stref + 1
  BY Zenon DEF PeerMore, PeerLast, memVars, pcVars
<1>2. UNCHANGED <<NetRef, Allocated, Sending, Working>> /\ (dpc'["net"] # "run" => ~route')
  BY <1>1, Zenon DEF NetRef, Allocated, Sending, Working, StateInv
<1>3. CASE PeerMore(t0)
  <2>1. /\ inbox[t0].more + 1 \in 1..MaxMore /\ inbox'[t0].more = inbox[t0].more + 1
        /\ inbox'[t0].last = inbox[t0].last /\ inbox[t0].more \in Nat
        /\ \A t \in Trans : t # t0 => inbox'[t] = inbox[t]
    BY <1>0, <1>3, SMTT(30) DEF PeerMore, Replies, InboxInv
  <2>2. Unread(FALSE)' = Unread(FALSE)
    BY <2>1, Zenon DEF Unread
  <2> DEFINE x0 == <<t0, inbox[t0].more + 1>>
  <2>3. x0 \notin Waiting
    BY <2>1, SMTT(30) DEF Waiting
  <2>4. Waiting' = Waiting \cup {x0}
    <3>1. ASSUME NEW x \in Trans \X (1..MaxMore)
          PROVE  x[2] <= inbox'[x[1]].more <=> x[2] <= inbox[x[1]].more \/ x = x0
      <4>1. PICK t \in Trans, i \in 1..MaxMore : x = <<t, i>>
        BY SMTT(30)
      <4>2. CASE t = t0
        BY <1>0, <2>1, <4>1, <4>2, SMTT(30)
      <4>3. CASE t # t0
        BY <2>1, <4>1, <4>3, Zenon
      <4> QED
        BY <4>2, <4>3, Zenon
    <3>2. x0 \in Trans \X (1..MaxMore)
      BY <2>1, Zenon
    <3> QED
      BY <3>1, <3>2, Zenon DEF Waiting
  <2>5. Cardinality(Waiting)' = Cardinality(Waiting) + 1
    BY <1>0, <2>3, <2>4, Finite, PlusOne, Zenon
  <2>6. stref' = stref + 0 + 0 + 0 + 0 + 0 + 1
    BY <1>0, <1>1, SMTT(30)
  <2>7. Balanced(0, 0, 0, 0, 0, 1)
    BY <1>0, <1>2, <2>2, <2>5, <2>6, PlusNone, Zenon DEF Balanced
  <2> QED
    BY <1>0, <1>2, <2>7, Balance, SMTT(30)
<1>4. CASE PeerLast(t0)
  <2>1. /\ inbox[t0].last = 0 /\ inbox'[t0].last = 1
        /\ \A t \in Trans : inbox'[t].more = inbox[t].more
        /\ \A t \in Trans : t # t0 => inbox'[t] = inbox[t]
    BY <1>0, <1>4, SMTT(30) DEF PeerLast, Replies, InboxInv
  <2>2. Unread(FALSE)' = Unread(FALSE) \cup {t0} /\ t0 \notin Unread(FALSE)
    BY <2>1, SMTT(30) DEF Unread
  <2>3. Waiting' = Waiting
    BY <2>1, Zenon DEF Waiting
  <2>4. Cardinality(Unread(FALSE))' = Cardinality(Unread(FALSE)) + 1
    BY <1>0, <2>2, Finite, PlusOne, Zenon
  <2>5. stref' = stref + 0 + 0 + 0 + 0 + 1 + 0
    BY <1>0, <1>1, SMTT(30)
  <2>6. Balanced(0, 0, 0, 0, 1, 0)
    BY <1>0, <1>2, <2>3, <2>4, <2>5, PlusNone, Zenon DEF Balanced
  <2> QED
    BY <1>0, <1>2, <2>6, Balance, SMTT(30)
<1> QED
  BY <1>3, <1>4, Zenon

\* The network thread puts its reference when the state has left the route table.
LEMMA NetRefs ==
    ASSUME IInv, StateInv, NetDone
    PROVE  StateInv'
<1>0. TypeOK /\ stref \in Int /\ dpc \in [Droppers -> DropperPCs] /\ "net" \in Droppers
  BY Zenon DEF IInv, TypeOK, Droppers
<1>1. NetRef = 1 /\ NetRef' = 0 /\ ~route'
  BY <1>0, Zenon DEF NetDone, NetRef, StateInv
<1>2. UNCHANGED <<Allocated, Sending, Working, Unread(FALSE), Waiting>>
  BY Zenon DEF NetDone, memVars, netVars, Allocated, Sending, Working, Unread, Waiting
<1>3. stref' = stref + (-1) + 0 + 0 + 0 + 0 + 0 /\ NetRef' = NetRef + (-1)
  BY <1>0, <1>1, SMTT(30) DEF NetDone
<1>4. Balanced(-1, 0, 0, 0, 0, 0)
  BY <1>0, <1>2, <1>3, PlusNone, Zenon DEF Balanced
<1> QED
  BY <1>0, <1>1, <1>4, Balance, SMTT(30)

\* The timeouts and the resets touch no reference of the state.
LEMMA ResetRefs ==
    ASSUME IInv, StateInv,
           \/ \E X \in SUBSET Trans : CheckMove(X)
           \/ CheckQuiet \/ CheckReset \/ PeerClose \/ HandlerReset \/ NetReset \/ UNCHANGED vars
    PROVE  StateInv'
<1>0. dpc \in [Droppers -> DropperPCs] /\ Droppers = {"net", "checker", "handler"}
  BY Zenon DEF IInv, TypeOK, Droppers
<1>1. UNCHANGED <<stref, freed, inbox, spc, wpc>>
  BY Zenon DEF CheckMove, CheckQuiet, CheckReset, PeerClose, HandlerReset, NetReset,
         stVars, memVars, netVars, pcVars, vars
<1>2. /\ dpc'["net"] = "gone" <=> dpc["net"] = "gone"
      /\ dpc'["net"] # "run" => dpc["net"] # "run" \/ ~route'
      /\ route' => route
  BY <1>0, SMTT(30) DEF CheckMove, CheckQuiet, CheckReset, PeerClose, HandlerReset, NetReset, Reset,
              stVars, pcVars, vars
<1>3. NetRef' = NetRef /\ (dpc'["net"] # "run" => ~route')
  BY <1>2, Zenon DEF NetRef, StateInv
<1> QED
  BY <1>1, <1>3, SameRefs, Zenon

\* At first the network thread has the only reference of the state.
LEMMA InitRefs == Init => StateInv
<1> SUFFICES ASSUME Init PROVE StateInv
  BY Zenon
<1>1. /\ Allocated = {} /\ Sending = {} /\ Working = {} /\ Unread(FALSE) = {}
  BY SMTT(30) DEF Init, Allocated, Sending, Working, Unread
<1>2. Waiting = {}
  BY NumbersAssumption, SMTT(30) DEF Init, Waiting
<1>3. NetRef = 1 /\ stref = 1 /\ dpc["net"] = "run"
  BY Zenon DEF Init, NetRef, Droppers
<1>4. /\ Cardinality(Allocated) = 0 /\ Cardinality(Sending) = 0 /\ Cardinality(Working) = 0
      /\ Cardinality(Unread(FALSE)) = 0 /\ Cardinality(Waiting) = 0
  BY <1>1, <1>2, FS_EmptySet, Zenon
<1>5. 1 = 1 + 0 + 0 + 0 + 0 + 0
  BY SMTT(30)
<1> QED
  BY <1>3, <1>4, <1>5, Zenon DEF StateInv

\* Every step keeps the account of the references of the state.
LEMMA NextRefs ==
    ASSUME IInv, ~NoMemory, StateInv, [Next]_vars
    PROVE  StateInv'
<1>1. ASSUME NEW t \in Trans, SenderNext(t) \/ WorkerNext(t) \/ PeerMore(t) \/ PeerLast(t)
      PROVE  StateInv'
  BY <1>1, SenderRefs, WorkerRefs, PeerRefs, Zenon
<1>2. ASSUME NEW d \in Droppers, DropperNext(d)
      PROVE  StateInv'
  BY <1>2, DropperRefs, Zenon
<1> QED
  BY <1>1, <1>2, NetRefs, ResetRefs, Zenon DEF Next

\* As long as anything refers to the state it has a reference.
LEMMA IInvAlive == IInv /\ StateInv => StateAlive
<1> SUFFICES ASSUME IInv, StateInv PROVE StateAlive
  BY Zenon
<1> DEFINE A == Cardinality(Allocated)
           S == Cardinality(Sending)
           W == Cardinality(Working)
           L == Cardinality(Unread(FALSE))
           M == Cardinality(Waiting)
<1>0. TypeOK /\ inbox \in [Trans -> Replies] /\ MaxMore \in Nat
  BY NumbersAssumption, Zenon DEF IInv, TypeOK
<1>1. A \in Nat /\ S \in Nat /\ W \in Nat /\ L \in Nat /\ M \in Nat /\ NetRef \in {0, 1}
  BY <1>0, Finite, Zenon DEF NetRef
<1>2. stref = NetRef + A + S + W + L + M
  BY Zenon DEF StateInv
<1>3. /\ stref >= 0
      /\ stref = 0 => NetRef = 0 /\ A = 0 /\ S = 0 /\ W = 0 /\ L = 0 /\ M = 0
  <2> HIDE DEF A, S, W, L, M
  <2> QED
    BY <1>1, <1>2, SMTT(30)
<1>4. ASSUME stref = 0
      PROVE  /\ ~route /\ dpc["net"] = "gone"
             /\ Allocated = {} /\ Unread(TRUE) = {} /\ Unread(FALSE) = {}
             /\ \A t \in Trans : spc[t] \in {"idle", "done", "failed"} /\ wpc[t] = "idle"
  <2>1. Allocated = {} /\ Sending = {} /\ Working = {} /\ Unread(FALSE) = {} /\ Waiting = {}
    BY <1>0, <1>3, <1>4, Finite, FS_EmptySet, Zenon
  <2>2. dpc["net"] = "gone"
    BY <1>3, <1>4, SMTT(30) DEF NetRef
  <2>3. ~route
    BY <2>2, Zenon DEF StateInv
  <2>4. \A t \in Trans : spc[t] \in {"idle", "done", "failed"} /\ wpc[t] = "idle"
    BY <2>1, Zenon DEF Sending, Working
  <2>5. Unread(TRUE) = {}
    <3> SUFFICES ASSUME NEW t \in Unread(TRUE) PROVE FALSE
      BY Zenon
    <3>1. t \in Trans /\ inbox[t].more \in 1..MaxMore /\ 1 \in 1..MaxMore
      BY <1>0, SMTT(30) DEF Unread, Replies
    <3>2. <<t, 1>> \in Waiting
      BY <3>1, SMTT(30) DEF Waiting
    <3> QED
      BY <2>1, <3>2, Zenon
  <2> QED
    BY <2>1, <2>2, <2>3, <2>4, <2>5, Zenon
<1> QED
  BY <1>3, <1>4, Zenon DEF StateAlive

-----------------------------------------------------------------------------
\* As long as no sender runs out of memory, complete() of a transaction is
\* never running in two threads, whatever replies, timeouts and resets meet.
THEOREM CallbackTheorem ==
    ASSUME ~NoMemory
    PROVE  Spec => []CallbackExclusive
<1>1. Spec => []IInv
  BY Invariance, Zenon
<1> QED
  BY <1>1, IInvCallback, PTL

\* As long as no sender runs out of memory, every reference of a transaction
\* belongs to somebody, and the one it is born with to at most one.
THEOREM RefsTheorem ==
    ASSUME ~NoMemory
    PROVE  Spec => [](TypeOK /\ RefsExact)
<1>1. Spec => []IInv
  BY Invariance, Zenon
<1>2. IInv => TypeOK /\ RefsExact
  BY IInvRefs, Zenon DEF IInv
<1> QED
  BY <1>1, <1>2, PTL

\* As long as no sender runs out of memory, a transaction is not used after it
\* is freed.
THEOREM FreedTheorem ==
    ASSUME ~NoMemory
    PROVE  Spec => []NoUseAfterFree
<1>1. Spec => []IInv
  BY Invariance, Zenon
<1> QED
  BY <1>1, IInvFreed, PTL

\* As long as no sender runs out of memory, the final callback of a transaction
\* runs at most once, and no callback of it runs once it is freed.
THEOREM FinalTheorem ==
    ASSUME ~NoMemory
    PROVE  Spec => []FinalOnce
<1>1. Spec => []IInv
  BY Invariance, Zenon
<1> QED
  BY <1>1, IInvFreed, PTL

\* As long as no sender runs out of memory, the state is not freed while a thread,
\* a transaction, a received reply or the route table refers to it, and nobody
\* puts a reference that is not there.
THEOREM AliveTheorem ==
    ASSUME ~NoMemory
    PROVE  Spec => []StateAlive
<1>1. Init => IInv /\ StateInv
  BY InitIInv, InitRefs, Zenon
<1>2. IInv /\ StateInv /\ [Next]_vars => (IInv /\ StateInv)'
  BY NextIInv, NextRefs, Zenon
<1> QED
  BY <1>1, <1>2, IInvAlive, PTL DEF Spec

=============================================================================
