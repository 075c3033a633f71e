----------------------------- MODULE TransSteps -----------------------------
(***************************************************************************)
(* The inductive invariant of Trans, for any finite set of transactions    *)
(* and as long as memory lasts.  Every step keeps its simple part: the     *)
(* types, the droppers' pointers and the bounds on replies under way.  A   *)
(* step of a sender or of an IO thread keeps TInv, the part that accounts  *)
(* for the references of the transactions.                                 *)
(***************************************************************************)
EXTENDS Trans, TLAPS

\* The dropper d answers for the first reference of t.
HeldBy(d, t) == t \in head[d] \/ (dcur[d] = t /\ dpc[d] \in {"cb", "put"})

\* The IO thread took the last reply to t and answers for its first reference.
HeldByWorker(t) == wpc[t] \in {"cb", "put1", "put2"} /\ ~wmore[t]

Held(t) ==
    \/ spc[t] = "insert"
    \/ t \in trans_root
    \/ HeldByWorker(t)
    \/ \E d \in Droppers : HeldBy(d, t)

\* The sender's and the IO thread's own references.
SenderRef(t) == IF spc[t] \in {"insert", "queue", "put"} THEN 1 ELSE 0
WorkerRef(t) == IF wpc[t] \in {"cb", "put1"} THEN 1 ELSE 0

\* The dropper d has put the last reference of t and destroys it.
DestroyedBy(d, t) == dcur[d] = t /\ dpc[d] \in {"destroy", "final"}

Dying(t) ==
    \/ spc[t] \in {"destroy", "final"}
    \/ wpc[t] \in {"destroy2", "final2"}
    \/ \E d \in Droppers : DestroyedBy(d, t)

\* Program counters that out-of-memory paths alone reach, or none.
PCInv(t) ==
    /\ spc[t] \in {"idle", "failed", "insert", "queue", "put", "destroy", "final",
                   "release", "done"}
    /\ wpc[t] \notin {"destroy1", "final1"}
    /\ wpc[t] \in {"put2", "destroy2", "final2"} => ~wmore[t]
    /\ wpc[t] = "relist" => wmore[t]

\* One answers for the first reference.
HeldInv(t) ==
    /\ spc[t] = "insert" => t \notin trans_root /\ ~HeldByWorker(t)
    /\ t \in trans_root => ~HeldByWorker(t)
    /\ \A d \in Droppers : HeldBy(d, t) =>
        /\ spc[t] # "insert" /\ t \notin trans_root /\ ~HeldByWorker(t)
        /\ \A e \in Droppers : HeldBy(e, t) => e = d
        /\ ~(t \in head[d] /\ dcur[d] = t)

CountInv(t) == ref[t] = (IF Held(t) THEN 1 ELSE 0) + SenderRef(t) + WorkerRef(t)

\* A transaction on the timeout list can be found and is not in a callback; the
\* one in the callback of a MORE reply can be found.
ListInv(t) ==
    /\ t \in trans_list => t \in trans_root /\ wpc[t] \in {"idle", "release"}
    /\ wpc[t] \in {"cb", "put1", "relist"} /\ wmore[t] => t \in trans_root

\* One destroys it.
DyingInv(t) ==
    /\ spc[t] \in {"destroy", "final"} => wpc[t] \notin {"destroy2", "final2"}
    /\ \A d \in Droppers : DestroyedBy(d, t) =>
        /\ spc[t] \notin {"destroy", "final"}
        /\ wpc[t] \notin {"destroy2", "final2"}
        /\ \A e \in Droppers : DestroyedBy(e, t) => e = d
    /\ ref[t] = 0 <=> Dying(t) \/ t \in freed \/ spc[t] \in {"idle", "failed"}
    /\ Dying(t) => t \notin freed
    /\ spc[t] \in {"idle", "failed"} => t \notin freed /\ ~Dying(t)

FinalsInv(t) ==
    finals[t] = IF \/ t \in freed \/ spc[t] \in {"final", "failed"} \/ wpc[t] = "final2"
                   \/ \E d \in Droppers : dcur[d] = t /\ dpc[d] = "final"
                THEN 1 ELSE 0

InboxInv(t) == inbox[t].more <= sent[t].more /\ inbox[t].last <= sent[t].last

TInv(t) == PCInv(t) /\ HeldInv(t) /\ CountInv(t) /\ ListInv(t) /\ DyingInv(t) /\ FinalsInv(t)

DInv(d) == dpc[d] \in {"cb", "put", "destroy", "final"} <=> dcur[d] # NoTrans

IInv ==
    /\ TypeOK
    /\ \A d \in Droppers : DInv(d)
    /\ \A t \in Trans : TInv(t) /\ InboxInv(t)

\* The places of the threads tell who runs a callback.
LEMMA IInvCallback == IInv => CallbackExclusive
<1> SUFFICES ASSUME IInv, NEW t \in Trans, NEW v \in InCallback(t), NEW w \in InCallback(t)
             PROVE  v = w
  BY Zenon DEF CallbackExclusive
<1>1. TInv(t) /\ ref[t] \in Nat
  BY Zenon DEF IInv, TypeOK
<1> QED
  BY <1>1, SMTT(30) DEF InCallback, TInv, PCInv, HeldInv, HeldBy, HeldByWorker, CountInv, Held,
     SenderRef, WorkerRef, ListInv, DyingInv, Dying, DestroyedBy, Droppers

-----------------------------------------------------------------------------
(* Types, the droppers' pointers and the replies under way. *)

Rest == TypeOK /\ (\A d \in Droppers : DInv(d)) /\ (\A t \in Trans : InboxInv(t))

\* A step of a sender keeps the types and the places of droppers and replies.
LEMMA SenderRest ==
    ASSUME IInv, ~NoMemory, NEW t0 \in Trans, SenderNext(t0)
    PROVE  Rest'
<1>0. TypeOK /\ (\A d \in Droppers : DInv(d)) /\ (\A t \in Trans : InboxInv(t))
  BY Zenon DEF IInv
<1>1. spc[t0] \notin {"remove", "put1", "put2"} /\ (spc[t0] = "put" => ref[t0] > 0)
  BY SMTT(30) DEF IInv, TypeOK, TInv, PCInv, CountInv, SenderRef, WorkerRef
<1>2. UNCHANGED <<dpc, dcur, sent, inbox>>
  BY Zenon DEF SenderNext, SendNoState, SendNoTrans, SendAlloc, SendInsert, SendQueue, SendQueueFails,
         SendRemove, SendPut, SendDestroy, SendFree, SendRelease, netVars, pcVars
<1>3. (\A d \in Droppers : DInv(d)') /\ (\A t \in Trans : InboxInv(t)')
  BY <1>0, <1>2, Zenon DEF DInv, InboxInv
<1>4. TypeOK'
  <2>1. CASE SendNoState(t0)
    BY <1>0, <2>1, SMTT(30) DEF SendNoState, TypeOK, SenderPCs, stVars, memVars, netVars
  <2>2. CASE SendAlloc(t0)
    BY <1>0, <2>2, SMTT(30) DEF SendAlloc, TypeOK, SenderPCs, stVars, memVars, netVars
  <2>3. CASE SendInsert(t0)
    BY <1>0, <2>3, Zenon DEF SendInsert, TypeOK, SenderPCs, stVars, memVars, netVars
  <2>4. CASE SendQueue(t0)
    BY <1>0, <2>4, Zenon DEF SendQueue, TypeOK, SenderPCs, stVars, memVars, netVars
  <2>5. CASE SendPut(t0)
    <3>1. ref' \in [Trans -> Nat] /\ spc' \in [Trans -> SenderPCs]
      BY <1>0, <1>1, <2>5, SMTT(30) DEF SendPut, Put, AfterPut, TypeOK, SenderPCs
    <3> QED
      BY <1>0, <2>5, <3>1, Zenon DEF SendPut, TypeOK, stVars, netVars
  <2>6. CASE SendDestroy(t0)
    <3>1. spc' \in [Trans -> SenderPCs] /\ finals' \in [Trans -> Nat]
      BY <1>0, <2>6, SMTT(30) DEF SendDestroy, Destroy, FinalOf, TypeOK, SenderPCs
    <3>2. /\ trans_root' \subseteq Trans /\ trans_list' \subseteq Trans
          /\ head' \in [Droppers -> SUBSET Trans]
      BY <1>0, <2>6, Zenon DEF SendDestroy, Destroy, OffLists, TypeOK
    <3> QED
      BY <1>0, <2>6, <3>1, <3>2, Zenon DEF SendDestroy, TypeOK, stVars, netVars
  <2>7. CASE SendFree(t0)
    BY <1>0, <2>7, SMTT(30) DEF SendFree, Free, TypeOK, SenderPCs, netVars
  <2>8. CASE SendRelease(t0)
    BY <1>0, <2>8, SMTT(30) DEF SendRelease, TypeOK, SenderPCs, memVars, netVars
  <2>9. ~SendNoTrans(t0) /\ ~SendQueueFails(t0) /\ ~SendRemove(t0)
    BY <1>1, Zenon DEF SendNoTrans, SendQueueFails, SendRemove
  <2> QED
    BY <2>1, <2>2, <2>3, <2>4, <2>5, <2>6, <2>7, <2>8, <2>9, Zenon DEF SenderNext
<1> QED
  BY <1>3, <1>4, Zenon DEF Rest

\* An IO thread takes a reply that was sent.
LEMMA TakeReply ==
    ASSUME IInv, NEW t0 \in Trans, NEW more \in BOOLEAN,
           Takes(t0, more), inbox' = Taken(t0, more), sent' = sent
    PROVE  inbox' \in [Trans -> Replies] /\ \A t \in Trans : InboxInv(t)'
<1> USE NumbersAssumption
<1>1. /\ inbox \in [Trans -> Replies] /\ sent \in [Trans -> Replies]
      /\ \A t \in Trans : InboxInv(t)
  BY Zenon DEF IInv, TypeOK
<1>2. CASE more
  BY <1>1, <1>2, SMTT(30) DEF Takes, Taken, InboxInv, Replies
<1>3. CASE ~more
  BY <1>1, <1>3, SMTT(30) DEF Takes, Taken, InboxInv, Replies
<1> QED
  BY <1>2, <1>3, Zenon

\* The same for a step of an IO thread,
LEMMA WorkerRest ==
    ASSUME IInv, NEW t0 \in Trans, WorkerNext(t0)
    PROVE  Rest'
<1>0. TypeOK /\ (\A d \in Droppers : DInv(d)) /\ (\A t \in Trans : InboxInv(t))
  BY Zenon DEF IInv
<1>1. wpc[t0] \in {"put1", "put2"} => ref[t0] > 0
  BY SMTT(30) DEF IInv, TypeOK, TInv, PCInv, CountInv, HeldByWorker, Held, SenderRef, WorkerRef
<1>2. UNCHANGED <<dpc, dcur>>
  BY Zenon DEF WorkerNext, RecvMissing, RecvFound, RecvCallbackEnd, RecvPut, RecvRelist,
         RecvDestroy, RecvFree, RecvRelease, pcVars
<1>3. \A d \in Droppers : DInv(d)'
  BY <1>0, <1>2, Zenon DEF DInv
<1>4. ASSUME UNCHANGED <<sent, inbox>>
      PROVE  \A t \in Trans : InboxInv(t)'
  BY <1>0, <1>4, Zenon DEF InboxInv
<1>5. ASSUME NEW more \in BOOLEAN, RecvMissing(t0, more)
      PROVE  TypeOK' /\ \A t \in Trans : InboxInv(t)'
  <2>1. inbox' \in [Trans -> Replies] /\ \A t \in Trans : InboxInv(t)'
    BY <1>5, TakeReply, Zenon DEF RecvMissing
  <2> QED
    BY <1>0, <1>5, <2>1, Zenon DEF RecvMissing, TypeOK, WorkerPCs, stVars, memVars, netVars
<1>6. ASSUME NEW more \in BOOLEAN, RecvFound(t0, more)
      PROVE  TypeOK' /\ \A t \in Trans : InboxInv(t)'
  <2>1. inbox' \in [Trans -> Replies] /\ \A t \in Trans : InboxInv(t)'
    BY <1>6, TakeReply, Zenon DEF RecvFound
  <2>2. trans_list' \subseteq Trans /\ head' \in [Droppers -> SUBSET Trans]
    BY <1>0, <1>6, Zenon DEF RecvFound, OffLists, TypeOK
  <2>3. /\ trans_root' \subseteq Trans /\ ref' \in [Trans -> Nat]
        /\ wpc' \in [Trans -> WorkerPCs] /\ wmore' \in [Trans -> BOOLEAN]
    BY <1>0, <1>6, SMTT(30) DEF RecvFound, TypeOK, WorkerPCs
  <2> QED
    BY <1>0, <1>6, <2>1, <2>2, <2>3, Zenon DEF RecvFound, TypeOK, stVars, memVars, netVars
<1>7. CASE RecvCallbackEnd(t0)
  <2>1. TypeOK' /\ UNCHANGED <<sent, inbox>>
    BY <1>0, <1>7, Zenon DEF RecvCallbackEnd, TypeOK, WorkerPCs, stVars, memVars, netVars
  <2> QED
    BY <1>3, <1>4, <2>1, Zenon DEF Rest
<1>8. CASE RecvPut(t0)
  <2>1. ref' \in [Trans -> Nat] /\ wpc' \in [Trans -> WorkerPCs]
    BY <1>0, <1>1, <1>8, SMTT(30) DEF RecvPut, Put, AfterPut, AfterPut1, TypeOK, WorkerPCs
  <2>2. TypeOK' /\ UNCHANGED <<sent, inbox>>
    BY <1>0, <1>8, <2>1, Zenon DEF RecvPut, TypeOK, stVars, netVars
  <2> QED
    BY <1>3, <1>4, <2>2, Zenon DEF Rest
<1>9. CASE RecvRelist(t0)
  <2>1. TypeOK' /\ UNCHANGED <<sent, inbox>>
    BY <1>0, <1>9, Zenon DEF RecvRelist, TypeOK, WorkerPCs, stVars, memVars, netVars
  <2> QED
    BY <1>3, <1>4, <2>1, Zenon DEF Rest
<1>10. CASE RecvDestroy(t0)
  <2>1. wpc' \in [Trans -> WorkerPCs] /\ finals' \in [Trans -> Nat]
    BY <1>0, <1>10, SMTT(30) DEF RecvDestroy, Destroy, FinalOf, TypeOK, WorkerPCs
  <2>2. /\ trans_root' \subseteq Trans /\ trans_list' \subseteq Trans
        /\ head' \in [Droppers -> SUBSET Trans]
    BY <1>0, <1>10, Zenon DEF RecvDestroy, Destroy, OffLists, TypeOK
  <2>3. TypeOK' /\ UNCHANGED <<sent, inbox>>
    BY <1>0, <1>10, <2>1, <2>2, Zenon DEF RecvDestroy, TypeOK, stVars, netVars
  <2> QED
    BY <1>3, <1>4, <2>3, Zenon DEF Rest
<1>11. CASE RecvFree(t0)
  <2>1. TypeOK' /\ UNCHANGED <<sent, inbox>>
    BY <1>0, <1>11, SMTT(30) DEF RecvFree, Free, AfterPut1, TypeOK, WorkerPCs, netVars
  <2> QED
    BY <1>3, <1>4, <2>1, Zenon DEF Rest
<1>12. CASE RecvRelease(t0)
  <2>1. TypeOK' /\ UNCHANGED <<sent, inbox>>
    BY <1>0, <1>12, SMTT(30) DEF RecvRelease, TypeOK, WorkerPCs, memVars, netVars
  <2> QED
    BY <1>3, <1>4, <2>1, Zenon DEF Rest
<1> QED
  BY <1>3, <1>5, <1>6, <1>7, <1>8, <1>9, <1>10, <1>11, <1>12, Zenon DEF WorkerNext, Rest

\* for a step of a dropper,
LEMMA DropperRest ==
    ASSUME IInv, NEW d0 \in Droppers, DropperNext(d0)
    PROVE  Rest'
<1>0. TypeOK /\ (\A d \in Droppers : DInv(d)) /\ (\A t \in Trans : InboxInv(t))
  BY Zenon DEF IInv
<1>1. dpc[d0] = "put" => dcur[d0] \in Trans /\ ref[dcur[d0]] > 0
  <2> SUFFICES ASSUME dpc[d0] = "put"
               PROVE  dcur[d0] \in Trans /\ ref[dcur[d0]] > 0
    BY Zenon
  <2>1. dcur[d0] \in Trans
    BY <1>0, Zenon DEF TypeOK, DInv
  <2>2. Held(dcur[d0])
    BY <2>1, Zenon DEF Held, HeldBy
  <2> QED
    BY <2>1, <2>2, SMTT(30) DEF IInv, TInv, CountInv, SenderRef, WorkerRef
<1>2. UNCHANGED <<sent, inbox>>
  BY Zenon DEF DropperNext, DropNext, DropCallbackEnd, DropPut, DropDestroy, DropFree, DropDone, netVars
<1>3. \A t \in Trans : InboxInv(t)'
  BY <1>0, <1>2, Zenon DEF InboxInv
<1>4. ASSUME NEW t \in Trans, DropNext(d0, t)
      PROVE  TypeOK' /\ \A d \in Droppers : DInv(d)'
  BY <1>0, <1>4, TransAssumption, Zenon DEF DropNext, TypeOK, DInv, DropperPCs, stVars, memVars, netVars
<1>5. CASE DropCallbackEnd(d0)
  <2>1. TypeOK'
    BY <1>0, <1>5, Zenon DEF DropCallbackEnd, TypeOK, DropperPCs, stVars, memVars, netVars
  <2>2. \A d \in Droppers : DInv(d)'
    BY <1>0, <1>5, Zenon DEF DropCallbackEnd, TypeOK, DInv
  <2> QED
    BY <1>3, <2>1, <2>2, Zenon DEF Rest
<1>6. CASE DropPut(d0)
  <2>1. ref' \in [Trans -> Nat]
    BY <1>0, <1>1, <1>6, SMTT(30) DEF DropPut, Put, TypeOK
  <2>2. TypeOK'
    BY <1>0, <1>6, <2>1, TransAssumption, Zenon
    DEF DropPut, AfterPut, TypeOK, DropperPCs, stVars, memVars, netVars
  <2>3. \A d \in Droppers : DInv(d)'
    BY <1>0, <1>1, <1>6, TransAssumption, Zenon DEF DropPut, AfterPut, TypeOK, DInv
  <2> QED
    BY <1>3, <2>2, <2>3, Zenon DEF Rest
<1>7. CASE DropDestroy(d0)
  <2>1. dcur[d0] \in Trans
    BY <1>0, <1>7, Zenon DEF DropDestroy, TypeOK, DInv
  <2>2. /\ trans_root' \subseteq Trans /\ trans_list' \subseteq Trans
        /\ head' \in [Droppers -> SUBSET Trans] /\ finals' \in [Trans -> Nat]
    BY <1>0, <1>7, <2>1, SMTT(30) DEF DropDestroy, Destroy, OffLists, TypeOK
  <2>3. TypeOK'
    BY <1>0, <1>7, <2>2, Zenon DEF DropDestroy, TypeOK, DropperPCs, stVars, memVars, netVars
  <2>4. \A d \in Droppers : DInv(d)'
    BY <1>0, <1>7, Zenon DEF DropDestroy, TypeOK, DInv
  <2> QED
    BY <1>3, <2>3, <2>4, Zenon DEF Rest
<1>8. CASE DropFree(d0)
  <2>1. dcur[d0] \in Trans
    BY <1>0, <1>8, Zenon DEF DropFree, TypeOK, DInv
  <2>2. TypeOK'
    BY <1>0, <1>8, <2>1, SMTT(30) DEF DropFree, Free, TypeOK, DropperPCs, stVars, memVars, netVars
  <2>3. \A d \in Droppers : DInv(d)'
    BY <1>0, <1>8, Zenon DEF DropFree, TypeOK, DInv
  <2> QED
    BY <1>3, <2>2, <2>3, Zenon DEF Rest
<1>9. CASE DropDone(d0)
  <2>1. TypeOK' /\ \A d \in Droppers : DInv(d)'
    BY <1>0, <1>9, Zenon DEF DropDone, TypeOK, DInv, DropperPCs, stVars, memVars, netVars
  <2> QED
    BY <1>3, <2>1, Zenon DEF Rest
<1> QED
  BY <1>3, <1>4, <1>5, <1>6, <1>7, <1>8, <1>9, Zenon DEF DropperNext, Rest

\* and for the peer, the checking thread and the resets.
LEMMA OtherRest ==
    ASSUME IInv,
           \/ \E t \in Trans : PeerMore(t) \/ PeerLast(t)
           \/ \E X \in SUBSET Trans : CheckMove(X)
           \/ CheckQuiet \/ CheckReset \/ PeerClose \/ HandlerReset \/ NetReset \/ NetDone
    PROVE  Rest'
<1>0. TypeOK /\ (\A d \in Droppers : DInv(d)) /\ (\A t \in Trans : InboxInv(t))
  BY Zenon DEF IInv
<1>1. ASSUME NEW t \in Trans, PeerMore(t) \/ PeerLast(t)
      PROVE  Rest'
  <2>1. /\ sent' \in [Trans -> Replies] /\ inbox' \in [Trans -> Replies]
        /\ \A u \in Trans : InboxInv(u)'
    <3>1. CASE PeerMore(t)
      BY <1>0, <3>1, NumbersAssumption, SMTT(30) DEF PeerMore, TypeOK, Replies, InboxInv
    <3>2. CASE PeerLast(t)
      BY <1>0, <3>2, NumbersAssumption, SMTT(30) DEF PeerLast, TypeOK, Replies, InboxInv
    <3> QED
      BY <1>1, <3>1, <3>2, Zenon
  <2>2. stref' \in Int /\ UNCHANGED <<route, sock, stall, trans_root, trans_list, head, memVars,
                                      queued, pcVars>>
    BY <1>0, <1>1, SMTT(30) DEF PeerMore, PeerLast, TypeOK
  <2> QED
    BY <1>0, <2>1, <2>2, Zenon DEF Rest, TypeOK, DInv, memVars, pcVars
<1>2. ASSUME UNCHANGED <<trans_root, trans_list, head, memVars, netVars, pcVars>>,
             route' \in BOOLEAN, sock' \in BOOLEAN, stref' \in Int, stall' \in 0..StallCount
      PROVE  Rest'
  BY <1>0, <1>2, Zenon DEF Rest, TypeOK, DInv, InboxInv, memVars, netVars, pcVars
\* A dropper that starts, with the transactions of X.
<1>3. ASSUME NEW d0 \in Droppers, NEW X \in SUBSET Trans, Move(d0, X), dpc[d0] = "run",
             dpc' = [dpc EXCEPT ![d0] = "clean"],
             route' \in BOOLEAN, sock' \in BOOLEAN, stall' \in 0..StallCount,
             UNCHANGED <<stref, memVars, netVars, spc, wpc, wmore, dcur>>
      PROVE  Rest'
  <2>1. /\ trans_root' \subseteq Trans /\ trans_list' \subseteq Trans
        /\ head' \in [Droppers -> SUBSET Trans]
    BY <1>0, <1>3, Zenon DEF Move, TypeOK
  <2>2. dpc' \in [Droppers -> DropperPCs] /\ \A d \in Droppers : DInv(d)'
    BY <1>0, <1>3, Zenon DEF TypeOK, DInv, DropperPCs
  <2>3. \A t \in Trans : InboxInv(t)'
    BY <1>0, <1>3, Zenon DEF InboxInv, netVars
  <2> QED
    BY <1>0, <1>3, <2>1, <2>2, <2>3, Zenon DEF Rest, TypeOK, memVars, netVars
<1>4. {"checker", "net", "handler"} \subseteq Droppers /\ trans_list \in SUBSET Trans
  BY <1>0, Zenon DEF Droppers, TypeOK
<1>5. ASSUME NEW X \in SUBSET Trans, CheckMove(X)
      PROVE  Rest'
  <2>1. route' \in BOOLEAN /\ sock' \in BOOLEAN /\ stall' \in 0..StallCount
    BY <1>0, <1>5, NumbersAssumption, SMTT(30) DEF CheckMove, TypeOK
  <2> QED
    BY <1>3, <1>4, <1>5, <2>1, Zenon DEF CheckMove
<1>6. CASE CheckQuiet
  BY <1>0, <1>2, <1>6, NumbersAssumption, SMTT(30) DEF CheckQuiet, TypeOK
<1>7. CASE CheckReset
  <2>1. route' \in BOOLEAN /\ sock' \in BOOLEAN /\ stall' \in 0..StallCount
    <3>1. StallCount \in 0..StallCount
      BY NumbersAssumption, SMTT(30)
    <3> QED
      BY <1>7, <3>1, Zenon DEF CheckReset, Reset
  <2>2. /\ Move("checker", trans_list) /\ dpc["checker"] = "run"
        /\ dpc' = [dpc EXCEPT !["checker"] = "clean"]
        /\ UNCHANGED <<stref, memVars, netVars, spc, wpc, wmore, dcur>>
    BY <1>7, Zenon DEF CheckReset, Reset
  <2> QED
    BY <1>3, <1>4, <2>1, <2>2, Zenon
<1>8. CASE PeerClose
  BY <1>0, <1>2, <1>8, Zenon DEF PeerClose, TypeOK
<1>9. CASE HandlerReset
  BY <1>0, <1>3, <1>4, <1>9, Zenon DEF HandlerReset, Reset, TypeOK
<1>10. CASE NetReset
  BY <1>0, <1>3, <1>4, <1>10, Zenon DEF NetReset, Reset, TypeOK
<1>11. CASE NetDone
  <2>1. dpc' \in [Droppers -> DropperPCs] /\ \A d \in Droppers : DInv(d)'
    BY <1>0, <1>4, <1>11, Zenon DEF NetDone, TypeOK, DInv, DropperPCs
  <2> QED
    BY <1>0, <1>11, <2>1, SMTT(30) DEF NetDone, Rest, TypeOK, InboxInv, memVars, netVars
<1> QED
  BY <1>1, <1>5, <1>6, <1>7, <1>8, <1>9, <1>10, <1>11, Zenon

-----------------------------------------------------------------------------
(* A transaction that a step does not concern. *)

Same(t) ==
    /\ spc'[t] = spc[t] /\ wpc'[t] = wpc[t] /\ wmore'[t] = wmore[t]
    /\ ref'[t] = ref[t] /\ finals'[t] = finals[t]
    /\ t \in freed' <=> t \in freed
    /\ t \in trans_root' <=> t \in trans_root
    /\ t \in trans_list' <=> t \in trans_list
    /\ \A d \in Droppers :
        /\ t \in head'[d] <=> t \in head[d]
        /\ dcur'[d] = t <=> dcur[d] = t
        /\ dcur[d] = t => dpc'[d] = dpc[d]

\* A step that does not concern a transaction keeps what is said of it.
LEMMA Frame ==
    ASSUME NEW t \in Trans, TInv(t), Same(t)
    PROVE  TInv(t)'
<1>1. /\ \A d \in Droppers : HeldBy(d, t)' <=> HeldBy(d, t)
      /\ \A d \in Droppers : DestroyedBy(d, t)' <=> DestroyedBy(d, t)
      /\ \A d \in Droppers : (dcur[d] = t /\ dpc[d] = "final")' <=> dcur[d] = t /\ dpc[d] = "final"
      /\ HeldByWorker(t)' <=> HeldByWorker(t)
      /\ SenderRef(t)' = SenderRef(t) /\ WorkerRef(t)' = WorkerRef(t)
  BY Zenon DEF Same, HeldBy, DestroyedBy, HeldByWorker, SenderRef, WorkerRef
<1>2. /\ Held(t)' <=> Held(t)
      /\ Dying(t)' <=> Dying(t)
  BY <1>1, Zenon DEF Same, Held, Dying
<1> QED
  BY <1>1, <1>2, SMTT(30) DEF Same, TInv, PCInv, HeldInv, CountInv, ListInv, DyingInv, FinalsInv

\* The functions of the state and their domains.
Fns ==
    /\ ref \in [Trans -> Nat] /\ finals \in [Trans -> Nat]
    /\ spc \in [Trans -> SenderPCs] /\ wpc \in [Trans -> WorkerPCs] /\ wmore \in [Trans -> BOOLEAN]
    /\ head \in [Droppers -> SUBSET Trans]
    /\ dpc \in [Droppers -> DropperPCs] /\ dcur \in [Droppers -> Trans \cup {NoTrans}]

-----------------------------------------------------------------------------
(* The sender and the IO thread. *)

\* The sender that destroys t takes it off the lists, where it was not.
LEMMA SendDestroyStep ==
    ASSUME Fns, Fns', NEW t \in Trans, TInv(t), SendDestroy(t)
    PROVE  TInv(t)'
<1>1. spc[t] = "destroy"
  BY Zenon DEF SendDestroy, TInv, PCInv
<1>2. /\ spc'[t] = "final"
      /\ t \notin trans_root' /\ t \notin trans_list' /\ \A d \in Droppers : t \notin head'[d]
      /\ finals'[t] = finals[t] + 1
      /\ UNCHANGED <<ref, freed, wpc, wmore, dpc, dcur>>
  BY <1>1, SMTT(30) DEF SendDestroy, Fns, Destroy, OffLists, FinalOf
<1>3. Dying(t) /\ Dying(t)' /\ t \notin freed
  BY <1>1, <1>2, Zenon DEF TInv, DyingInv, Dying
<1>4. /\ ref[t] = 0 /\ ~Held(t) /\ SenderRef(t) = 0 /\ WorkerRef(t) = 0
      /\ wpc[t] \notin {"destroy2", "final2"}
      /\ \A d \in Droppers : ~DestroyedBy(d, t)
  BY <1>1, <1>3, SMTT(30) DEF TInv, DyingInv, CountInv, SenderRef, WorkerRef
<1>5. \A d \in Droppers : ~HeldBy(d, t) /\ ~HeldBy(d, t)' /\ ~DestroyedBy(d, t)'
  BY <1>2, <1>4, Zenon DEF HeldBy, DestroyedBy, Held
<1>6. ~HeldByWorker(t)' /\ ~Held(t)' /\ SenderRef(t)' = 0 /\ WorkerRef(t)' = 0
  BY <1>2, <1>4, <1>5, Zenon DEF Held, HeldByWorker, SenderRef, WorkerRef
<1>7. PCInv(t)'
  BY <1>2, Zenon DEF TInv, PCInv
<1>8. HeldInv(t)'
  BY <1>2, <1>5, <1>6, Zenon DEF HeldInv
<1>9. ListInv(t)'
  BY <1>2, <1>4, Zenon DEF TInv, ListInv, WorkerRef, Held
<1>10. CountInv(t)'
  BY <1>2, <1>4, <1>6, SMTT(30) DEF CountInv
<1>11. DyingInv(t)'
  BY <1>2, <1>3, <1>4, <1>5, Zenon DEF DyingInv
<1>12. finals[t] = 0
  BY <1>1, <1>3, <1>4, Zenon DEF TInv, FinalsInv, DestroyedBy
<1>13. FinalsInv(t)'
  BY <1>2, <1>12, SMTT(30) DEF FinalsInv
<1> QED
  BY <1>7, <1>8, <1>9, <1>10, <1>11, <1>13, Zenon DEF TInv

\* The sender that puts its reference of t hands it on, or destroys it.
LEMMA SendPutStep ==
    ASSUME Fns, Fns', NEW t \in Trans, TInv(t), SendPut(t)
    PROVE  TInv(t)'
<1>1. /\ spc[t] = "put" /\ spc'[t] = (IF ref[t] = 1 THEN "destroy" ELSE "release")
      /\ ref'[t] = ref[t] - 1 /\ ref[t] \in Nat
      /\ UNCHANGED <<trans_root, trans_list, head, freed, finals, wpc, wmore, dpc, dcur>>
  BY SMTT(30) DEF SendPut, Put, AfterPut, Fns, TInv, PCInv
<1>2. SenderRef(t) = 1 /\ SenderRef(t)' = 0 /\ WorkerRef(t)' = WorkerRef(t) /\ WorkerRef(t) \in {0, 1}
  BY <1>1, Zenon DEF SenderRef, WorkerRef
<1>3. /\ HeldByWorker(t)' <=> HeldByWorker(t)
      /\ \A d \in Droppers : (HeldBy(d, t)' <=> HeldBy(d, t)) /\ (DestroyedBy(d, t)' <=> DestroyedBy(d, t))
  BY <1>1, Zenon DEF HeldByWorker, HeldBy, DestroyedBy
<1>4. Held(t)' <=> Held(t)
  BY <1>1, <1>3, Zenon DEF Held
<1>5. PCInv(t)' /\ HeldInv(t)' /\ ListInv(t)'
  BY <1>1, <1>3, Zenon DEF TInv, PCInv, HeldInv, ListInv
<1>6. CountInv(t)'
  BY <1>1, <1>2, <1>4, SMTT(30) DEF TInv, CountInv
<1>7. ref[t] # 0 /\ ~Dying(t) /\ t \notin freed
  BY <1>1, <1>2, SMTT(30) DEF TInv, CountInv, DyingInv
<1>8. /\ wpc[t] \notin {"destroy2", "final2"} /\ \A d \in Droppers : ~DestroyedBy(d, t)
      /\ ref'[t] = 0 <=> spc'[t] = "destroy"
  BY <1>1, <1>7, SMTT(30) DEF Dying
<1>9. Dying(t)' <=> spc'[t] = "destroy"
  BY <1>1, <1>3, <1>8, Zenon DEF Dying
<1>10. DyingInv(t)'
  BY <1>1, <1>3, <1>7, <1>8, <1>9, Zenon DEF DyingInv
<1>11. FinalsInv(t)'
  BY <1>1, Zenon DEF TInv, FinalsInv
<1> QED
  BY <1>5, <1>6, <1>10, <1>11, Zenon DEF TInv

\* The sender of t0.
LEMMA SenderStep ==
    ASSUME IInv, ~NoMemory, NEW t0 \in Trans, SenderNext(t0)
    PROVE  \A t \in Trans : TInv(t)'
<1>0. \/ SendNoState(t0) \/ SendAlloc(t0) \/ SendInsert(t0) \/ SendQueue(t0)
      \/ SendPut(t0) \/ SendDestroy(t0) \/ SendFree(t0) \/ SendRelease(t0)
  <2>1. spc[t0] # "remove"
    BY Zenon DEF IInv, TInv, PCInv
  <2>2. ~SendNoTrans(t0) /\ ~SendQueueFails(t0) /\ ~SendRemove(t0)
    BY <2>1, Zenon DEF SendNoTrans, SendQueueFails, SendRemove
  <2> QED
    BY <2>2, Zenon DEF SenderNext
<1>3. Fns /\ Fns' /\ TInv(t0)
  BY SenderRest, Zenon DEF IInv, Rest, TypeOK, Fns
<1> USE DEF Fns, stVars, memVars, netVars, pcVars
<1>1. ASSUME NEW t \in Trans, t # t0
      PROVE  Same(t)
  <2>1. CASE SendNoState(t0)
    BY <1>1, <1>3, <2>1, Zenon DEF Same, SendNoState
  <2>2. CASE SendAlloc(t0)
    BY <1>1, <1>3, <2>2, Zenon DEF Same, SendAlloc
  <2>3. CASE SendInsert(t0)
    BY <1>1, <1>3, <2>3, Zenon DEF Same, SendInsert
  <2>4. CASE SendQueue(t0)
    BY <1>1, <1>3, <2>4, Zenon DEF Same, SendQueue
  <2>5. CASE SendPut(t0)
    BY <1>1, <1>3, <2>5, Zenon DEF Same, SendPut, Put, AfterPut
  <2>6. CASE SendDestroy(t0)
    BY <1>1, <1>3, <2>6, Zenon DEF Same, SendDestroy, Destroy, OffLists, FinalOf
  <2>7. CASE SendFree(t0)
    BY <1>1, <1>3, <2>7, Zenon DEF Same, SendFree, Free
  <2>8. CASE SendRelease(t0)
    BY <1>1, <1>3, <2>8, Zenon DEF Same, SendRelease
  <2> HIDE DEF Fns, stVars, memVars, netVars, pcVars
  <2> QED
    BY <1>0, <2>1, <2>2, <2>3, <2>4, <2>5, <2>6, <2>7, <2>8, Zenon
<1>2. TInv(t0)'
  <2> USE DEF TInv, PCInv, HeldInv, HeldBy, HeldByWorker, CountInv, Held, SenderRef, WorkerRef,
     ListInv, DyingInv, Dying, DestroyedBy, FinalsInv,
     SenderPCs, WorkerPCs
  <2>1. CASE SendNoState(t0)
    BY <1>3, <2>1, SMTT(30) DEF SendNoState
  <2>2. CASE SendAlloc(t0)
    BY <1>3, <2>2, SMTT(30) DEF SendAlloc
  <2>3. CASE SendInsert(t0)
    BY <1>3, <2>3, SMTT(30) DEF SendInsert
  <2>4. CASE SendQueue(t0)
    BY <1>3, <2>4, SMTT(30) DEF SendQueue
  <2>5. CASE SendPut(t0)
    BY <1>3, <2>5, SendPutStep, Zenon
  <2>6. CASE SendDestroy(t0)
    BY <1>3, <2>6, SendDestroyStep, Zenon
  <2>7. CASE SendFree(t0)
    BY <1>3, <2>7, SMTT(30) DEF SendFree, Free
  <2>8. CASE SendRelease(t0)
    BY <1>3, <2>8, SMTT(30) DEF SendRelease
  <2> HIDE DEF Fns, stVars, memVars, netVars, pcVars, TInv, PCInv, HeldInv, HeldBy,
     HeldByWorker, CountInv, Held, SenderRef, WorkerRef, ListInv, DyingInv, Dying, DestroyedBy,
     FinalsInv, SenderPCs, WorkerPCs
  <2> QED
    BY <1>0, <2>1, <2>2, <2>3, <2>4, <2>5, <2>6, <2>7, <2>8, Zenon
<1> QED
  BY <1>1, <1>2, Frame, Zenon DEF IInv

\* The IO thread that destroys t takes it off the lists, where it was not.
LEMMA RecvDestroyStep ==
    ASSUME Fns, Fns', NEW t \in Trans, TInv(t), RecvDestroy(t)
    PROVE  TInv(t)'
<1>1. wpc[t] = "destroy2"
  BY Zenon DEF RecvDestroy, TInv, PCInv
<1>2. /\ wpc'[t] = "final2"
      /\ t \notin trans_root' /\ t \notin trans_list' /\ \A d \in Droppers : t \notin head'[d]
      /\ finals'[t] = finals[t] + 1
      /\ UNCHANGED <<ref, freed, spc, wmore, dpc, dcur>>
  BY <1>1, SMTT(30) DEF RecvDestroy, Fns, Destroy, OffLists, FinalOf
<1>3. Dying(t) /\ Dying(t)' /\ t \notin freed
  BY <1>1, <1>2, Zenon DEF TInv, DyingInv, Dying
<1>4. /\ ref[t] = 0 /\ ~Held(t) /\ SenderRef(t) = 0 /\ WorkerRef(t) = 0
      /\ spc[t] \notin {"idle", "failed", "destroy", "final"}
      /\ \A d \in Droppers : ~DestroyedBy(d, t)
  BY <1>1, <1>3, SMTT(30) DEF TInv, DyingInv, CountInv, SenderRef, WorkerRef
<1>5. \A d \in Droppers : ~HeldBy(d, t) /\ ~HeldBy(d, t)' /\ ~DestroyedBy(d, t)'
  BY <1>2, <1>4, Zenon DEF HeldBy, DestroyedBy, Held
<1>6. ~Held(t)' /\ SenderRef(t)' = 0 /\ WorkerRef(t)' = 0
  BY <1>1, <1>2, <1>4, <1>5, Zenon DEF Held, HeldByWorker, SenderRef, WorkerRef
<1>7. PCInv(t)' /\ HeldInv(t)' /\ ListInv(t)'
  BY <1>1, <1>2, <1>5, Zenon DEF TInv, PCInv, HeldInv, HeldByWorker, ListInv
<1>8. CountInv(t)'
  BY <1>2, <1>4, <1>6, SMTT(30) DEF CountInv
<1>9. DyingInv(t)'
  BY <1>2, <1>3, <1>4, <1>5, Zenon DEF DyingInv
<1>10. finals[t] = 0
  BY <1>1, <1>3, <1>4, Zenon DEF TInv, FinalsInv, DestroyedBy
<1>11. FinalsInv(t)'
  BY <1>2, <1>10, SMTT(30) DEF FinalsInv
<1> QED
  BY <1>7, <1>8, <1>9, <1>11, Zenon DEF TInv

\* The references of t do not change hands.
LEMMA KeepsHands ==
    ASSUME Fns, Fns', NEW t \in Trans,
           UNCHANGED <<spc, trans_root, dpc, dcur>>,
           \A d \in Droppers : t \in head'[d] <=> t \in head[d]
    PROVE  /\ SenderRef(t)' = SenderRef(t)
           /\ \A d \in Droppers : (HeldBy(d, t)' <=> HeldBy(d, t)) /\ (DestroyedBy(d, t)' <=> DestroyedBy(d, t))
  BY Zenon DEF SenderRef, HeldBy, DestroyedBy

\* Nobody destroys a transaction that is referenced.
LEMMA Referenced ==
    ASSUME NEW t \in Trans, TInv(t), ref[t] # 0
    PROVE  ~Dying(t) /\ t \notin freed /\ spc[t] \notin {"idle", "failed"}
<1>1. DyingInv(t)
  BY Zenon DEF TInv
<1> QED
  BY <1>1, Zenon DEF DyingInv

\* A transaction with a reference is not dying.
LEMMA StaysAlive ==
    ASSUME NEW t \in Trans, ~Dying(t)', t \notin freed', spc'[t] \notin {"idle", "failed"}, ref'[t] # 0
    PROVE  DyingInv(t)'
  BY Zenon DEF DyingInv, Dying

\* The IO thread finds nobody waiting for a reply, ends the callback, or lets go
\* of the state: references stay where they are.
LEMMA WorkerMoves ==
    ASSUME Fns, Fns', NEW t \in Trans, TInv(t),
           UNCHANGED <<ref, freed, finals, spc, wmore, trans_root, trans_list, head, dpc, dcur>>,
           \/ wpc[t] = "idle" /\ wpc'[t] = "release"
           \/ wpc[t] = "cb" /\ wpc'[t] = "put1"
           \/ wpc[t] = "release" /\ wpc'[t] = "idle"
    PROVE  TInv(t)'
<1>3. /\ SenderRef(t)' = SenderRef(t)
      /\ \A d \in Droppers : (HeldBy(d, t)' <=> HeldBy(d, t)) /\ (DestroyedBy(d, t)' <=> DestroyedBy(d, t))
  BY KeepsHands, Zenon
<1>4. (HeldByWorker(t)' <=> HeldByWorker(t)) /\ WorkerRef(t)' = WorkerRef(t)
  BY Zenon DEF HeldByWorker, WorkerRef
<1>5. (Held(t)' <=> Held(t)) /\ (Dying(t)' <=> Dying(t))
  BY <1>3, <1>4, Zenon DEF Held, Dying
<1>6. PCInv(t)'
  BY Zenon DEF TInv, PCInv
<1>7. ListInv(t)'
  BY Zenon DEF TInv, ListInv
<1>8. HeldInv(t)'
  BY <1>3, <1>4, Zenon DEF TInv, HeldInv
<1>9. CountInv(t)'
  BY <1>3, <1>4, <1>5, Zenon DEF TInv, CountInv
<1>10. DyingInv(t)'
  BY <1>3, <1>5, Zenon DEF TInv, DyingInv
<1>11. FinalsInv(t)'
  BY Zenon DEF TInv, FinalsInv
<1> QED
  BY <1>6, <1>7, <1>8, <1>9, <1>10, <1>11, Zenon DEF TInv

\* The IO thread takes a reply to t, and with the last one its first reference.
LEMMA RecvFoundStep ==
    ASSUME Fns, Fns', NEW t \in Trans, TInv(t), NEW more \in BOOLEAN, RecvFound(t, more)
    PROVE  TInv(t)'
<1>1. /\ wpc[t] = "idle" /\ wpc'[t] = "cb" /\ wmore'[t] = more
      /\ t \in trans_root /\ (t \in trans_root' <=> more) /\ t \notin trans_list'
      /\ ref'[t] = ref[t] + 1
  BY Zenon DEF RecvFound, Fns, OffLists
<1>2. UNCHANGED <<freed, finals, spc, dpc, dcur>> /\ \A d \in Droppers : t \notin head'[d]
  BY Zenon DEF RecvFound, OffLists
<1>3. HeldInv(t)
  BY Zenon DEF TInv
<1>4. spc[t] # "insert" /\ \A d \in Droppers : ~HeldBy(d, t)
  BY <1>1, <1>3, Zenon DEF HeldInv
<1>5. \A d \in Droppers : ~HeldBy(d, t)' /\ (DestroyedBy(d, t)' <=> DestroyedBy(d, t))
  BY <1>2, <1>4, Zenon DEF HeldBy, DestroyedBy
<1>6. WorkerRef(t) = 0 /\ WorkerRef(t)' = 1 /\ SenderRef(t)' = SenderRef(t) /\ (HeldByWorker(t)' <=> ~more)
  BY <1>1, <1>2, Zenon DEF WorkerRef, SenderRef, HeldByWorker
<1>7. Held(t) /\ Held(t)'
  BY <1>1, <1>6, Zenon DEF Held
<1>8. ref[t] = 1 + SenderRef(t) /\ SenderRef(t) \in {0, 1}
  BY <1>6, <1>7, SMTT(30) DEF TInv, CountInv, SenderRef
<1>9. ~Dying(t) /\ t \notin freed /\ spc[t] \notin {"idle", "failed"}
  BY <1>8, Referenced, SMTT(30)
<1>10. ~Dying(t)'
  BY <1>1, <1>2, <1>5, <1>9, Zenon DEF Dying
<1>11. PCInv(t)'
  BY <1>1, <1>2, Zenon DEF TInv, PCInv
<1>12. ListInv(t)'
  BY <1>1, Zenon DEF ListInv
<1>13. HeldInv(t)'
  BY <1>1, <1>2, <1>4, <1>5, <1>6, Zenon DEF HeldInv
<1>14. CountInv(t)'
  BY <1>1, <1>6, <1>7, <1>8, Zenon DEF CountInv
<1>15. DyingInv(t)'
  BY <1>1, <1>2, <1>8, <1>9, <1>10, StaysAlive, SMTT(30)
<1>16. FinalsInv(t)
  BY Zenon DEF TInv
<1>17. FinalsInv(t)'
  BY <1>1, <1>2, <1>16, Zenon DEF FinalsInv
<1> QED
  BY <1>11, <1>12, <1>13, <1>14, <1>15, <1>17, Zenon DEF TInv

\* The IO thread drops the reference of its callback, then the first one.
LEMMA RecvPutStep ==
    ASSUME Fns, Fns', NEW t \in Trans, TInv(t), RecvPut(t)
    PROVE  TInv(t)'
<1>1. /\ ref'[t] = ref[t] - 1
      /\ UNCHANGED <<freed, finals, spc, wmore, trans_root, trans_list, head, dpc, dcur>>
  BY Zenon DEF RecvPut, Fns, Put
<1>2. /\ SenderRef(t)' = SenderRef(t)
      /\ \A d \in Droppers : (HeldBy(d, t)' <=> HeldBy(d, t)) /\ (DestroyedBy(d, t)' <=> DestroyedBy(d, t))
  BY <1>1, KeepsHands, Zenon
<1>3. \/ wpc[t] = "put1" /\ Held(t)
      \/ wpc[t] = "put2" /\ HeldByWorker(t) /\ Held(t) /\ ~wmore[t]
  BY Zenon DEF RecvPut, TInv, PCInv, ListInv, HeldByWorker, Held
<1>4. ref[t] = 1 + SenderRef(t) + WorkerRef(t) /\ SenderRef(t) \in {0, 1}
  BY <1>3, Zenon DEF TInv, CountInv, SenderRef
<1>5. ~Dying(t) /\ t \notin freed /\ spc[t] \notin {"idle", "failed"}
  <2>1. ref[t] # 0
    BY <1>3, <1>4, SMTT(30) DEF WorkerRef
  <2> QED
    BY <2>1, Referenced, Zenon
<1>6. finals[t] = 0 /\ \A d \in Droppers : ~DestroyedBy(d, t)
  BY <1>3, <1>5, Zenon DEF TInv, FinalsInv, Dying, DestroyedBy
<1>7. CASE wpc[t] = "put1"
  <2>1. wpc'[t] = IF wmore[t] THEN "relist" ELSE "put2"
    BY <1>4, <1>7, SMTT(30) DEF RecvPut, Fns, AfterPut, AfterPut1, WorkerRef
  <2>2. WorkerRef(t) = 1 /\ WorkerRef(t)' = 0 /\ (HeldByWorker(t)' <=> HeldByWorker(t))
    BY <1>1, <1>7, <2>1, Zenon DEF WorkerRef, HeldByWorker
  <2>3. Held(t)' /\ ~Dying(t)'
    BY <1>1, <1>2, <1>3, <1>5, <2>1, <2>2, Zenon DEF Held, Dying
  <2>4. PCInv(t)'
    BY <1>1, <2>1, Zenon DEF TInv, PCInv
  <2>5. HeldInv(t)'
    BY <1>1, <1>2, <2>2, Zenon DEF TInv, HeldInv
  <2>6. ListInv(t)'
    BY <1>1, <1>7, <2>1, Zenon DEF TInv, ListInv
  <2>7. CountInv(t)'
    <3>1. ref'[t] = 1 + SenderRef(t) /\ SenderRef(t)' = SenderRef(t)
      BY <1>1, <1>2, <1>4, <2>2, SMTT(30)
    <3> QED
      BY <1>4, <2>2, <2>3, <3>1, SMTT(30) DEF CountInv
  <2>8. DyingInv(t)'
    <3>1. ref'[t] # 0
      BY <1>1, <1>4, <2>2, SMTT(30)
    <3> QED
      BY <1>1, <1>5, <2>3, <3>1, StaysAlive, Zenon
  <2>9. FinalsInv(t)'
    BY <1>1, <1>5, <1>6, <2>1, Zenon DEF FinalsInv, Dying, DestroyedBy
  <2> QED
    BY <2>4, <2>5, <2>6, <2>7, <2>8, <2>9, Zenon DEF TInv
<1>8. CASE wpc[t] = "put2"
  <2>1. wpc'[t] = IF ref[t] = 1 THEN "destroy2" ELSE "release"
    BY <1>8, Zenon DEF RecvPut, Fns, AfterPut
  <2>2. WorkerRef(t) = 0 /\ WorkerRef(t)' = 0 /\ HeldByWorker(t) /\ ~HeldByWorker(t)'
    BY <1>3, <1>8, <2>1, Zenon DEF WorkerRef, HeldByWorker
  <2>3. spc[t] # "insert" /\ t \notin trans_root /\ \A d \in Droppers : ~HeldBy(d, t)
    BY <2>2, Zenon DEF TInv, HeldInv
  <2>4. ~Held(t)'
    BY <1>1, <1>2, <2>2, <2>3, Zenon DEF Held
  <2>5. Dying(t)' <=> ref[t] = 1
    BY <1>1, <1>2, <1>5, <2>1, Zenon DEF Dying
  <2>6. PCInv(t)'
    BY <1>1, <1>3, <1>8, <2>1, Zenon DEF TInv, PCInv
  <2>7. HeldInv(t)'
    BY <1>1, <1>2, <2>2, <2>3, Zenon DEF HeldInv
  <2>8. ListInv(t)'
    BY <1>1, <2>1, <2>3, Zenon DEF TInv, ListInv
  <2>9. CountInv(t)'
    <3>1. ref'[t] = SenderRef(t) /\ SenderRef(t)' = SenderRef(t)
      BY <1>1, <1>2, <1>4, <2>2, SMTT(30)
    <3> QED
      BY <1>4, <2>2, <2>4, <3>1, SMTT(30) DEF CountInv
  <2>10. DyingInv(t)'
    <3>1. spc'[t] \notin {"idle", "failed", "destroy", "final"} /\ t \notin freed'
      BY <1>1, <1>5, Zenon DEF Dying
    <3>2. \A d \in Droppers : ~DestroyedBy(d, t)'
      BY <1>2, <1>6, Zenon
    <3>3. ref'[t] = 0 <=> Dying(t)'
      BY <1>1, <1>4, <2>2, <2>5, SMTT(30)
    <3> QED
      BY <3>1, <3>2, <3>3, Zenon DEF DyingInv
  <2>11. FinalsInv(t)'
    BY <1>1, <1>5, <1>6, <2>1, Zenon DEF FinalsInv, Dying, DestroyedBy
  <2> QED
    BY <2>6, <2>7, <2>8, <2>9, <2>10, <2>11, Zenon DEF TInv
<1> QED
  BY <1>3, <1>7, <1>8, Zenon

\* After the callback of a MORE reply t is back on the timeout list.
LEMMA RecvRelistStep ==
    ASSUME Fns, Fns', NEW t \in Trans, TInv(t), RecvRelist(t)
    PROVE  TInv(t)'
<1>1. /\ wpc[t] = "relist" /\ wpc'[t] = "release" /\ t \in trans_root
      /\ \A d \in Droppers : t \notin head[d] /\ t \notin head'[d]
  BY Zenon DEF RecvRelist, Fns, TInv, PCInv, ListInv, HeldInv, HeldBy
<1>2. UNCHANGED <<ref, freed, finals, spc, wmore, trans_root, dpc, dcur>>
  BY Zenon DEF RecvRelist, memVars
<1>3. /\ SenderRef(t)' = SenderRef(t)
      /\ \A d \in Droppers : (HeldBy(d, t)' <=> HeldBy(d, t)) /\ (DestroyedBy(d, t)' <=> DestroyedBy(d, t))
  BY <1>1, <1>2, KeepsHands, Zenon
<1>4. ~HeldByWorker(t) /\ ~HeldByWorker(t)' /\ WorkerRef(t)' = WorkerRef(t)
  BY <1>1, Zenon DEF HeldByWorker, WorkerRef
<1>5. (Held(t)' <=> Held(t)) /\ (Dying(t)' <=> Dying(t))
  BY <1>1, <1>2, <1>3, <1>4, Zenon DEF Held, Dying
<1>6. PCInv(t)' /\ ListInv(t)'
  BY <1>1, <1>2, Zenon DEF TInv, PCInv, ListInv
<1>7. HeldInv(t)'
  BY <1>1, <1>2, <1>3, <1>4, Zenon DEF TInv, HeldInv
<1>8. CountInv(t)'
  BY <1>2, <1>3, <1>4, <1>5, Zenon DEF TInv, CountInv
<1>9. DyingInv(t)'
  BY <1>1, <1>2, <1>3, <1>5, Zenon DEF TInv, DyingInv
<1>10. FinalsInv(t)'
  BY <1>1, <1>2, Zenon DEF TInv, FinalsInv
<1> QED
  BY <1>6, <1>7, <1>8, <1>9, <1>10, Zenon DEF TInv

\* The IO thread frees what it destroyed.
LEMMA RecvFreeStep ==
    ASSUME Fns, Fns', NEW t \in Trans, TInv(t), RecvFree(t)
    PROVE  TInv(t)'
<1>1. wpc[t] = "final2" /\ wpc'[t] = "release"
  BY Zenon DEF RecvFree, Fns, TInv, PCInv
<1>2. /\ t \in freed'
      /\ UNCHANGED <<ref, finals, spc, wmore, trans_root, trans_list, head, dpc, dcur>>
  BY Zenon DEF RecvFree, Free
<1>3. /\ SenderRef(t)' = SenderRef(t)
      /\ \A d \in Droppers : (HeldBy(d, t)' <=> HeldBy(d, t)) /\ (DestroyedBy(d, t)' <=> DestroyedBy(d, t))
  BY <1>2, KeepsHands, Zenon
<1>4. /\ ref[t] = 0 /\ spc[t] \notin {"idle", "failed", "destroy", "final"}
      /\ \A d \in Droppers : ~DestroyedBy(d, t)
  BY <1>1, Zenon DEF TInv, DyingInv, Dying
<1>5. ~HeldByWorker(t) /\ ~HeldByWorker(t)' /\ WorkerRef(t)' = WorkerRef(t)
  BY <1>1, Zenon DEF HeldByWorker, WorkerRef
<1>6. (Held(t)' <=> Held(t)) /\ ~Dying(t)'
  BY <1>1, <1>2, <1>3, <1>4, <1>5, Zenon DEF Held, Dying
<1>7. PCInv(t)' /\ ListInv(t)'
  BY <1>1, <1>2, Zenon DEF TInv, PCInv, ListInv
<1>8. HeldInv(t)'
  BY <1>1, <1>2, <1>3, <1>5, Zenon DEF TInv, HeldInv
<1>9. CountInv(t)'
  BY <1>2, <1>3, <1>5, <1>6, Zenon DEF TInv, CountInv
<1>10. DyingInv(t)'
  BY <1>1, <1>2, <1>3, <1>4, <1>6, Zenon DEF DyingInv
<1>11. FinalsInv(t)'
  BY <1>1, <1>2, Zenon DEF TInv, FinalsInv
<1> QED
  BY <1>7, <1>8, <1>9, <1>10, <1>11, Zenon DEF TInv

\* The IO thread with a reply to t0.
LEMMA WorkerStep ==
    ASSUME IInv, ~NoMemory, NEW t0 \in Trans, WorkerNext(t0)
    PROVE  \A t \in Trans : TInv(t)'
<1>3. Fns /\ Fns' /\ TInv(t0)
  BY WorkerRest, Zenon DEF IInv, Rest, TypeOK, Fns
<1> USE DEF Fns, stVars, memVars, netVars, pcVars
<1>1. ASSUME NEW t \in Trans, t # t0
      PROVE  Same(t)
  <2>1. CASE \E more \in BOOLEAN : RecvMissing(t0, more)
    BY <1>1, <1>3, <2>1, Zenon DEF Same, RecvMissing
  <2>2. CASE \E more \in BOOLEAN : RecvFound(t0, more)
    <3>1. /\ spc' = spc /\ freed' = freed /\ finals' = finals /\ dpc' = dpc /\ dcur' = dcur
          /\ wpc'[t] = wpc[t] /\ wmore'[t] = wmore[t] /\ ref'[t] = ref[t]
      <4> HIDE DEF Fns
      <4>1. UNCHANGED <<spc, freed, finals, dpc, dcur>>
        BY <2>2, Zenon DEF RecvFound
      <4>2. wpc' = [wpc EXCEPT ![t0] = "cb"] /\ ref' = [ref EXCEPT ![t0] = @ + 1]
        BY <2>2, Zenon DEF RecvFound
      <4>3. wmore'[t] = wmore[t]
        BY <1>1, <1>3, <2>2, ZenonT(30) DEF RecvFound, Fns
      <4>4. wpc'[t] = wpc[t] /\ ref'[t] = ref[t]
        BY <1>1, <1>3, <4>2, Zenon DEF Fns
      <4> QED
        BY <4>1, <4>3, <4>4, Zenon
    <3>2. /\ t \in trans_root' <=> t \in trans_root
          /\ t \in trans_list' <=> t \in trans_list
          /\ \A d \in Droppers : t \in head'[d] <=> t \in head[d]
      <4> HIDE DEF Fns
      <4>1. trans_root' \in {trans_root, trans_root \ {t0}}
        BY <2>2, Zenon DEF RecvFound
      <4>2. trans_list' = trans_list \ {t0} /\ head' = [d \in Droppers |-> head[d] \ {t0}]
        BY <2>2, Zenon DEF RecvFound, OffLists
      <4>3. \A d \in Droppers : t \in head'[d] <=> t \in head[d]
        BY <1>1, <4>2, Zenon
      <4> QED
        BY <1>1, <4>1, <4>2, <4>3, Zenon
    <3> QED
      BY <3>1, <3>2, Zenon DEF Same
  <2>3. CASE RecvCallbackEnd(t0)
    BY <1>1, <1>3, <2>3, Zenon DEF Same, RecvCallbackEnd
  <2>4. CASE RecvPut(t0)
    BY <1>1, <1>3, <2>4, Zenon DEF Same, RecvPut, Put, AfterPut, AfterPut1
  <2>5. CASE RecvRelist(t0)
    BY <1>1, <1>3, <2>5, Zenon DEF Same, RecvRelist
  <2>6. CASE RecvDestroy(t0)
    BY <1>1, <1>3, <2>6, Zenon DEF Same, RecvDestroy, Destroy, OffLists, FinalOf
  <2>7. CASE RecvFree(t0)
    BY <1>1, <1>3, <2>7, Zenon DEF Same, RecvFree, Free, AfterPut1
  <2>8. CASE RecvRelease(t0)
    BY <1>1, <1>3, <2>8, Zenon DEF Same, RecvRelease
  <2> HIDE DEF Fns, stVars, memVars, netVars, pcVars
  <2> QED
    BY <2>1, <2>2, <2>3, <2>4, <2>5, <2>6, <2>7, <2>8, Zenon DEF WorkerNext
<1>2. TInv(t0)'
  <2>1. CASE \E more \in BOOLEAN : RecvMissing(t0, more)
    BY <1>3, <2>1, WorkerMoves, Zenon DEF RecvMissing
  <2>2. CASE \E more \in BOOLEAN : RecvFound(t0, more)
    BY <1>3, <2>2, RecvFoundStep, Zenon
  <2>3. CASE RecvCallbackEnd(t0)
    BY <1>3, <2>3, WorkerMoves, Zenon DEF RecvCallbackEnd
  <2>4. CASE RecvPut(t0)
    BY <1>3, <2>4, RecvPutStep, Zenon
  <2>5. CASE RecvRelist(t0)
    BY <1>3, <2>5, RecvRelistStep, Zenon
  <2>6. CASE RecvDestroy(t0)
    BY <1>3, <2>6, RecvDestroyStep, Zenon
  <2>7. CASE RecvFree(t0)
    BY <1>3, <2>7, RecvFreeStep, Zenon
  <2>8. CASE RecvRelease(t0)
    BY <1>3, <2>8, WorkerMoves, Zenon DEF RecvRelease
  <2> HIDE DEF Fns, stVars, memVars, netVars, pcVars
  <2> QED
    BY <2>1, <2>2, <2>3, <2>4, <2>5, <2>6, <2>7, <2>8, Zenon DEF WorkerNext
<1> QED
  BY <1>1, <1>2, Frame, Zenon DEF IInv

=============================================================================
