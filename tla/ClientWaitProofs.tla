-------------------------- MODULE ClientWaitProofs --------------------------
(***************************************************************************)
(* The waits of the C client for any finite set of groups: the references  *)
(* of the wait structure are counted exactly, nobody touches it or the     *)
(* private data after they were freed, and a call returns what its groups  *)
(* answered.                                                               *)
(***************************************************************************)
EXTENDS ClientWait, FiniteSetTheorems, TLAPS

\* What is assumed of the constants.
Constants ==
    /\ IsFiniteSet(Groups) /\ Garbage \in SUBSET Int
    /\ INT_MAX \in Nat /\ INT_MAX > Cardinality(Groups)
    /\ HOLD \in Nat /\ HOLD > Cardinality(Groups)

\* The calls whose references are counted rightly.
Counted == Sound \/ (op = "remove" /\ Cardinality(targets) = 1)

\* Transactions not sent yet, those whose callback holds a reference, and those
\* that have woken the caller up.
Idle == {g \in targets : tr[g] = "idle"}
Holding == {g \in targets : tr[g] \in {"sent", "answered", "waking", "putting"}}
Woke == {g \in targets : tr[g] \in {"waking", "putting", "done"}}

\* The caller's reference, and those it holds in advance while it sends.
CallerRef == IF cpc \in {"idle", "returned"} THEN 0 ELSE 1
Reserved ==
    IF cpc = "send" /\ op \in {"write", "remove_file", "remove"}
    THEN Surplus + Cardinality(Idle) ELSE 0

\* Which call is where, and how far its transactions are.
PlaceInv ==
    /\ cpc = "idle" <=> op = "none"
    /\ cpc = "idle" => ~bad
    /\ op = "none" => targets = {}
    /\ cpc = "next" => op = "read"
    /\ cpc = "look" => op = "request_cmd"
    /\ cpc = "priv" => op = "update_status"
    /\ op = "read" => targets = Groups /\ cpc # "send"
    /\ op # "read" /\ cpc \notin {"idle", "send"} => Idle = {}
    /\ werr \in {0, ETIMEDOUT} /\ ret \in Int
    /\ \A g \in Groups :
        /\ g \notin targets => tr[g] = "idle"
        /\ tr[g] = "putting" => op = "request_cmd"
        /\ tr[g] = "priv" => op = "update_status"
        /\ tr[g] \in {"idle", "sent"} => reply[g] = NoReply
        /\ tr[g] = "answered" => reply[g] \in Status

\* The counter is exact, and the structure is freed when nobody holds it.
RefInv ==
    Counted =>
        /\ w.refcnt = CallerRef + Cardinality(Holding) + Reserved
        /\ w.freed <=> cpc = "returned" /\ Holding = {}
        /\ ~bad

\* wc goes with the wait structure, p when nobody is going to read it.
PrivInv ==
    /\ op = "write" => (p.freed <=> w.freed)
    /\ op = "request_cmd" /\ p.freed =>
        /\ cpc \in {"put", "returned"}
        /\ \A g \in targets : tr[g] \in {"putting", "done"}

\* The condition counts the transactions that are over.
CondInv ==
    Sound /\ op # "read" =>
        /\ w.cond = Cardinality(Woke)
        /\ cpc \in {"result", "look", "put", "returned"} /\ werr = 0 => Woke = targets

\* The status of a write is good once a group stored the data.
WriteInv ==
    op = "write" /\ targets # {} =>
        /\ w.status \in {0, ENXIO, ENOENT, ETIMEDOUT}
        /\ w.status = 0 <=> \E g \in targets : reply[g] = 0
        /\ cpc \in {"put", "returned"} /\ werr = 0 => (ret = 0 <=> w.status = 0)

\* A read that was not told of an error was told of an acknowledgement.
ReadInv ==
    op = "read" =>
        /\ cpc \in {"next", "wait", "result"} => ret # 0
        /\ cpc \in {"wait", "result"} /\ w.cond >= 0 => \E g \in targets : reply[g] = 0
        /\ cpc \in {"put", "returned"} /\ ret = 0 => \E g \in targets : reply[g] = 0

\* The status of a removal is that of a group that failed.
RemoveInv ==
    op = "remove_file" =>
        /\ w.status \in {0, ENOENT, ETIMEDOUT}
        /\ w.status = 0 <=> \A g \in targets : reply[g] \in {0, NoReply}
        /\ cpc \in {"put", "returned"} /\ werr = 0 => (ret = 0 <=> w.status = 0)

IInv == ClientTypeOK /\ PlaceInv /\ RefInv /\ PrivInv /\ CondInv /\ WriteInv /\ ReadInv /\ RemoveInv

-----------------------------------------------------------------------------
(* Sets of transactions and their sizes. *)

\* A set of groups is finite.
LEMMA SubsetCard ==
    ASSUME Constants, NEW S \in SUBSET Groups
    PROVE  IsFiniteSet(S) /\ Cardinality(S) \in Nat /\ Cardinality(S) <= Cardinality(Groups)
<1>1. IsFiniteSet(S) /\ Cardinality(S) <= Cardinality(Groups)
  BY FS_Subset, Zenon DEF Constants
<1> QED
  BY <1>1, FS_CardinalityType, Zenon

\* One more or one less.
LEMMA CardMove ==
    ASSUME Constants, NEW S \in SUBSET Groups, NEW g \in Groups
    PROVE  /\ g \notin S => Cardinality(S \cup {g}) = Cardinality(S) + 1
           /\ g \in S => Cardinality(S \ {g}) = Cardinality(S) - 1 /\ Cardinality(S) > 0
           /\ g \in S => S \cup {g} = S
           /\ g \notin S => S \ {g} = S
<1>1. IsFiniteSet(S) /\ Cardinality(S) \in Nat /\ IsFiniteSet(S \ {g}) /\ Cardinality(S \ {g}) \in Nat
  BY SubsetCard, Zenon
<1>2. g \notin S => Cardinality(S \cup {g}) = Cardinality(S) + 1
  BY <1>1, FS_AddElement, Zenon
<1>3. g \in S => Cardinality(S \ {g}) = Cardinality(S) - 1
  BY <1>1, FS_RemoveElement, Zenon
<1>4. g \in S => Cardinality(S) > 0
  BY <1>1, <1>3, SMTT(30)
<1> QED
  BY <1>2, <1>3, <1>4, Zenon

\* Nobody, and one alone.
LEMMA CardSmall ==
    ASSUME Constants, NEW S \in SUBSET Groups
    PROVE  /\ Cardinality(S) = 0 <=> S = {}
           /\ \A g \in S : Cardinality(S) = 1 <=> S = {g}
<1>1. Cardinality(S) = 0 <=> S = {}
  BY SubsetCard, FS_EmptySet, Zenon
<1>2. ASSUME NEW g \in S
      PROVE  Cardinality(S) = 1 <=> S = {g}
  <2>1. Cardinality(S \ {g}) = Cardinality(S) - 1 /\ Cardinality(S) \in Nat
    BY CardMove, SubsetCard, Zenon
  <2>2. Cardinality(S) = 1 <=> Cardinality(S \ {g}) = 0
    BY <2>1, SMTT(30)
  <2>3. IsFiniteSet(S \ {g})
    BY SubsetCard, Zenon
  <2>4. Cardinality(S \ {g}) = 0 <=> S \ {g} = {}
    BY <2>3, FS_EmptySet, Zenon
  <2> QED
    BY <2>2, <2>4, Zenon
<1> QED
  BY <1>1, <1>2, Zenon

\* The sets the invariant counts are sets of groups, and no more is held in advance
\* than there is.
LEMMA Sizes ==
    ASSUME Constants, ClientTypeOK
    PROVE  /\ Idle \in SUBSET Groups /\ Cardinality(Idle) \in Nat
           /\ Holding \in SUBSET Groups /\ Cardinality(Holding) \in Nat
           /\ Woke \in SUBSET Groups /\ Cardinality(Woke) \in Nat
           /\ Cardinality(targets) \in Nat /\ Surplus \in Nat /\ Reserved \in Nat
<1>1. targets \in SUBSET Groups /\ Idle \in SUBSET Groups /\ Holding \in SUBSET Groups /\ Woke \in SUBSET Groups
  BY Zenon DEF ClientTypeOK, Idle, Holding, Woke
<1>2. /\ Cardinality(Idle) \in Nat /\ Cardinality(Holding) \in Nat /\ Cardinality(Woke) \in Nat
      /\ Cardinality(targets) \in Nat /\ Cardinality(targets) <= Cardinality(Groups)
  BY <1>1, SubsetCard, Zenon
<1>3. Cardinality(Groups) \in Nat
  BY SubsetCard, Zenon
<1>4. Surplus \in Nat
  BY <1>2, <1>3, SMTT(30) DEF Surplus, Constants
<1>5. Reserved \in Nat
  BY <1>2, <1>4, SMTT(30) DEF Reserved
<1> QED
  BY <1>1, <1>2, <1>4, <1>5, Zenon

\* A transaction moves on.
LEMMA Moves ==
    ASSUME NEW g \in Groups, g \in targets, targets' = targets, ClientTypeOK, NEW v,
           tr' = [tr EXCEPT ![g] = v], v # "idle"
    PROVE  /\ tr'[g] = v /\ \A h \in Groups : h # g => tr'[h] = tr[h]
           /\ Idle' = Idle \ {g}
           /\ v \in {"sent", "answered", "waking", "putting"} => Holding' = Holding \cup {g}
           /\ v \notin {"sent", "answered", "waking", "putting"} => Holding' = Holding \ {g}
           /\ v \in {"waking", "putting", "done"} => Woke' = Woke \cup {g}
           /\ v \notin {"waking", "putting", "done"} => Woke' = Woke \ {g}
<1>1. tr'[g] = v /\ \A h \in Groups : h # g => tr'[h] = tr[h]
  BY Zenon DEF ClientTypeOK
<1>2. targets \in SUBSET Groups
  BY Zenon DEF ClientTypeOK
<1>3. Idle' = Idle \ {g}
  BY <1>1, <1>2, Zenon DEF Idle
<1>4. /\ v \in {"sent", "answered", "waking", "putting"} => Holding' = Holding \cup {g}
      /\ v \notin {"sent", "answered", "waking", "putting"} => Holding' = Holding \ {g}
  BY <1>1, <1>2, Zenon DEF Holding
<1>5. /\ v \in {"waking", "putting", "done"} => Woke' = Woke \cup {g}
      /\ v \notin {"waking", "putting", "done"} => Woke' = Woke \ {g}
  BY <1>1, <1>2, Zenon DEF Woke
<1> QED
  BY <1>1, <1>3, <1>4, <1>5, Zenon

-----------------------------------------------------------------------------
(* The start of a call. *)

\* The steps that set a call up leave nothing sent.
LEMMA Begun ==
    ASSUME Constants, NEW o, NEW ts \in SUBSET Groups, NEW x, NEW q, NEW at,
           Begin(o, ts, x, q, at)
    PROVE  /\ Idle' = ts /\ Holding' = {} /\ Woke' = {}
           /\ tr' \in [Groups -> {"idle"}] /\ reply' \in [Groups -> {NoReply}]
           /\ Cardinality(Holding') = 0 /\ Cardinality(Woke') = 0
<1>1. tr' \in [Groups -> {"idle"}] /\ reply' \in [Groups -> {NoReply}] /\ targets' = ts
  BY Zenon DEF Begin
<1>2. \A g \in ts : tr'[g] = "idle"
  BY <1>1, Zenon
<1>3. Idle' = ts /\ Holding' = {} /\ Woke' = {}
  BY <1>1, <1>2, Zenon DEF Idle, Holding, Woke
<1> QED
  BY <1>1, <1>3, FS_EmptySet, Zenon

\* A call that starts in a good state, with the right references.
Starts(o, ts, c, n, st, q, at) ==
    /\ o \in Ops /\ ret' \in Int /\ c \in Int /\ n \in Int /\ st \in Int
    /\ q \in [refcnt : Int, freed : BOOLEAN] /\ ~q.freed
    /\ at \in {"send", "next", "put"} /\ (at = "next" <=> o = "read") /\ (at = "put" => ts = {})
    /\ o = "read" => ts = Groups /\ ret' # 0
    /\ o # "read" => c = 0
    /\ o = "write" /\ ts # {} => st = ENXIO
    /\ o = "remove_file" => st = 0 /\ at = "send"
    /\ Counted' => n = 1 + Reserved'

\* It keeps the invariant.
LEMMA BeginStep ==
    ASSUME Constants, IInv, NEW o, NEW ts \in SUBSET Groups, NEW c, NEW n, NEW st, NEW q, NEW at,
           Begin(o, ts, dnet_wait_alloc(c, n, st), q, at), Starts(o, ts, c, n, st, q, at)
    PROVE  IInv'
<1> USE DEF Starts
<1>0. PICK x : x = dnet_wait_alloc(c, n, st)
  BY Zenon
<1>1. /\ op' = o /\ targets' = ts /\ w' = x /\ p' = q /\ cpc' = at /\ werr' = 0 /\ cpc = "idle"
      /\ bad' = bad
  BY <1>0, Zenon DEF Begin
<1>2. /\ Idle' = ts /\ Holding' = {} /\ Woke' = {}
      /\ tr' \in [Groups -> {"idle"}] /\ reply' \in [Groups -> {NoReply}]
      /\ Cardinality(Holding') = 0 /\ Cardinality(Woke') = 0
  BY Begun, Zenon
<1>3. /\ x \in [refcnt : Int, cond : Int, status : Int, freed : BOOLEAN] /\ ~x.freed
      /\ x.refcnt = n /\ x.cond = c /\ x.status = st
  BY <1>0, SMTT(30) DEF dnet_wait_alloc
<1>4. \A g \in Groups : tr'[g] = "idle" /\ reply'[g] = NoReply
  BY <1>2, Zenon
<1>5. /\ tr' \in [Groups -> {"idle", "sent", "answered", "waking", "putting", "priv", "done"}]
      /\ reply' \in [Groups -> Status \cup {NoReply}]
  BY <1>2, SMTT(30)
<1>6. ClientTypeOK'
  BY <1>1, <1>3, <1>5, SMTT(30) DEF ClientTypeOK
<1>7. ~bad'
  BY <1>1, Zenon DEF IInv, PlaceInv
<1>8. o # "none"
  BY SMTT(30) DEF Ops
<1>9. PlaceInv'
  BY <1>1, <1>2, <1>4, <1>7, <1>8, SMTT(30) DEF PlaceInv
<1>10. RefInv'
  <2>1. CallerRef' = 1
    BY <1>1, SMTT(30) DEF CallerRef
  <2> QED
    BY <1>1, <1>2, <1>3, <1>7, <2>1, SMTT(30) DEF RefInv
<1>11. PrivInv' /\ CondInv'
  BY <1>1, <1>2, <1>3, SMTT(30) DEF PrivInv, CondInv
<1>12. WriteInv' /\ ReadInv' /\ RemoveInv'
  BY <1>1, <1>3, <1>4, SMTT(30) DEF WriteInv, ReadInv, RemoveInv, ENXIO, NoReply
<1> QED
  BY <1>6, <1>9, <1>10, <1>11, <1>12, Zenon DEF IInv

\* Every call starts in a good state.
LEMMA CallsStep ==
    ASSUME Constants, IInv, Calls
    PROVE  IInv'
<1>1. /\ Cardinality(Groups) \in Nat /\ INT_MAX \in Nat /\ HOLD \in Nat
      /\ Groups \in SUBSET Groups /\ {} \in SUBSET Groups
  BY SubsetCard, Zenon DEF Constants
<1>4. NoPriv \in [refcnt : Int, freed : BOOLEAN] /\ ~NoPriv.freed
  BY SMTT(30) DEF NoPriv
<1>2. ASSUME NEW n \in Int
      PROVE  LET q == [NoPriv EXCEPT !.refcnt = n] IN q \in [refcnt : Int, freed : BOOLEAN] /\ ~q.freed
  <2>1. [NoPriv EXCEPT !.refcnt = n] \in [refcnt : Int, freed : BOOLEAN]
    BY <1>4, SMTT(30)
  <2>2. ~[NoPriv EXCEPT !.refcnt = n].freed
    BY Zenon DEF NoPriv
  <2> QED
    BY <2>1, <2>2, Zenon
<1>5. /\ 0 \in Int /\ 1 \in Int /\ 2 \in Int /\ ENXIO \in Int /\ ENOENT \in Int /\ WaitInit \in Int
      /\ INT_MAX \in Int /\ 1 + HOLD \in Int /\ ENXIO # 0
  BY <1>1, SMTT(30) DEF ENXIO, ENOENT, WaitInit
<1>7. CASE CallWrite
  <2>1. CASE Begin("write", Groups, dnet_wait_alloc(0, INT_MAX, ENXIO), NoPriv, "send") /\ ret' = 0
    <3>1. op' = "write" /\ targets' = Groups /\ cpc' = "send" /\ Idle' = Groups
      BY <1>1, <2>1, Begun, Zenon DEF Begin
    <3>2. Reserved' = INT_MAX - 1
      BY <1>1, <3>1, SMTT(30) DEF Reserved, Surplus
    <3>3. INT_MAX = 1 + Reserved'
      BY <1>1, <3>2, SMTT(30)
    <3>s. Starts("write", Groups, 0, INT_MAX, ENXIO, NoPriv, "send")
      BY <1>4, <1>5, <2>1, <3>3, SMTT(30) DEF Starts, Ops
    <3> QED
      BY <1>1, <2>1, <3>s, BeginStep, Zenon
  <2>2. CASE Begin("write", {}, dnet_wait_alloc(0, 1, 0), NoPriv, "put") /\ ret' \in {ENOENT, 0}
    <3>1. cpc' = "put"
      BY <2>2, Zenon DEF Begin
    <3>2. 1 = 1 + Reserved'
      BY <3>1, SMTT(30) DEF Reserved
    <3>s. Starts("write", {}, 0, 1, 0, NoPriv, "put")
      BY <1>4, <1>5, <2>2, <3>2, SMTT(30) DEF Starts, Ops
    <3> QED
      BY <1>1, <2>2, <3>s, BeginStep, Zenon
  <2> QED
    BY <1>7, <2>1, <2>2, Zenon DEF CallWrite
<1>8. CASE CallRead
  <2>1. Begin("read", Groups, dnet_wait_alloc(WaitInit, 1, 0), NoPriv, "next") /\ ret' = ENXIO
    BY <1>8, Zenon DEF CallRead
  <2>2. cpc' = "next"
    BY <2>1, Zenon DEF Begin
  <2>3. 1 = 1 + Reserved'
    BY <2>2, SMTT(30) DEF Reserved
  <2>s. Starts("read", Groups, WaitInit, 1, 0, NoPriv, "next")
    BY <1>4, <1>5, <2>1, <2>3, SMTT(30) DEF Starts, Ops
  <2> QED
    BY <1>1, <2>1, <2>s, BeginStep, Zenon
<1>9. CASE CallStat \/ CallRequestCmd
  <2>1. PICK o \in {"stat", "request_cmd"}, ts \in SUBSET Groups :
            Begin(o, ts, dnet_wait_alloc(0, 1, 0), NoPriv, "send") /\ ret' = 0
    BY <1>9, Zenon DEF CallStat, CallRequestCmd
  <2>2. op' = o
    BY <2>1, Zenon DEF Begin
  <2>3. 1 = 1 + Reserved'
    BY <2>2, SMTT(30) DEF Reserved
  <2>s. Starts(o, ts, 0, 1, 0, NoPriv, "send")
    BY <1>4, <1>5, <2>1, <2>3, SMTT(30) DEF Starts, Ops
  <2> QED
    BY <1>1, <2>1, <2>s, BeginStep, Zenon
<1>10. CASE CallUpdateStatus
  <2>1. PICK g \in Groups, n \in Garbage :
            /\ Begin("update_status", {g}, dnet_wait_alloc(0, 2, 0), [NoPriv EXCEPT !.refcnt = n], "send")
            /\ ret' = 0
    BY <1>10, Zenon DEF CallUpdateStatus
  <2>2. op' = "update_status" /\ n \in Int /\ {g} \in SUBSET Groups
    BY <2>1, Zenon DEF Begin, Constants
  <2>3. ~Counted'
    BY <2>2, Zenon DEF Counted, Sound
  <2>s. Starts("update_status", {g}, 0, 2, 0, [NoPriv EXCEPT !.refcnt = n], "send")
    BY <1>2, <1>5, <2>1, <2>2, <2>3, SMTT(30) DEF Starts, Ops
  <2> QED
    BY <1>1, <2>1, <2>s, BeginStep, Zenon
<1>11. CASE CallRemove
  <2>1. Begin("remove", Groups, dnet_wait_alloc(0, 2, 0), NoPriv, "send") /\ ret' = 0
    BY <1>11, Zenon DEF CallRemove
  <2>2. op' = "remove" /\ targets' = Groups /\ cpc' = "send" /\ Idle' = Groups
    BY <1>1, <2>1, Begun, Zenon DEF Begin
  <2>3. Counted' => 2 = 1 + Reserved'
    BY <2>2, SMTT(30) DEF Reserved, Surplus, Counted, Sound
  <2>s. Starts("remove", Groups, 0, 2, 0, NoPriv, "send")
    BY <1>4, <1>5, <2>1, <2>3, SMTT(30) DEF Starts, Ops
  <2> QED
    BY <1>1, <2>1, <2>s, BeginStep, Zenon
<1>12. CASE CallRemoveFile
  <2>1. Begin("remove_file", Groups, dnet_wait_alloc(0, 1 + HOLD, 0), NoPriv, "send") /\ ret' = 0
    BY <1>12, Zenon DEF CallRemoveFile
  <2>2. op' = "remove_file" /\ targets' = Groups /\ cpc' = "send" /\ Idle' = Groups
    BY <1>1, <2>1, Begun, Zenon DEF Begin
  <2>3. 1 + HOLD = 1 + Reserved'
    BY <1>1, <2>2, SMTT(30) DEF Reserved, Surplus
  <2>s. Starts("remove_file", Groups, 0, 1 + HOLD, 0, NoPriv, "send")
    BY <1>4, <1>5, <2>1, <2>3, SMTT(30) DEF Starts, Ops
  <2> QED
    BY <1>1, <2>1, <2>s, BeginStep, Zenon
<1> QED
  BY <1>7, <1>8, <1>9, <1>10, <1>11, <1>12, Zenon DEF Calls

-----------------------------------------------------------------------------
(* The callbacks. *)

WaitRec == [refcnt : Int, cond : Int, status : Int, freed : BOOLEAN]

\* What the operations on the wait structure change.
LEMMA Fields ==
    ASSUME NEW x \in WaitRec, NEW v \in Int
    PROVE  /\ x.refcnt \in Int /\ x.cond \in Int /\ x.status \in Int /\ x.freed \in BOOLEAN
           /\ LET y == [x EXCEPT !.refcnt = v] IN
                 y \in WaitRec /\ y.refcnt = v /\ y.cond = x.cond /\ y.status = x.status /\ y.freed = x.freed
           /\ LET y == [x EXCEPT !.cond = v] IN
                 y \in WaitRec /\ y.refcnt = x.refcnt /\ y.cond = v /\ y.status = x.status /\ y.freed = x.freed
           /\ LET y == [x EXCEPT !.status = v] IN
                 y \in WaitRec /\ y.refcnt = x.refcnt /\ y.cond = x.cond /\ y.status = v /\ y.freed = x.freed
BY SMTT(30) DEF WaitRec

\* dnet_wait_put().
LEMMA PutFields ==
    ASSUME NEW x \in WaitRec
    PROVE  LET y == dnet_wait_put(x) IN
              /\ y \in WaitRec /\ y.refcnt = x.refcnt - 1 /\ (y.freed <=> x.freed \/ x.refcnt = 1)
              /\ y.cond = x.cond /\ y.status = x.status
<1>1. x.refcnt - 1 \in Int /\ (x.freed \/ x.refcnt = 1) \in BOOLEAN
  BY SMTT(30) DEF WaitRec
<1>2. DOMAIN x = {"refcnt", "cond", "status", "freed"}
  BY SMTT(30) DEF WaitRec
<1>4. ASSUME NEW n \in Int, NEW b \in BOOLEAN
      PROVE  [x EXCEPT !.refcnt = n, !.freed = b] \in WaitRec
  <2>1. [x EXCEPT !.refcnt = n, !.freed = b] = [[x EXCEPT !.refcnt = n] EXCEPT !.freed = b]
    BY SMTT(30) DEF WaitRec
  <2>2. [x EXCEPT !.refcnt = n] \in WaitRec
    BY Fields, Zenon
  <2>3. \A y \in WaitRec : [y EXCEPT !.freed = b] \in WaitRec
    BY SMTT(30) DEF WaitRec
  <2> QED
    BY <2>1, <2>2, <2>3, Zenon
<1>5. dnet_wait_put(x) = [x EXCEPT !.refcnt = x.refcnt - 1, !.freed = x.freed \/ x.refcnt = 1]
  BY SMTT(30) DEF dnet_wait_put, WaitRec
<1>6. dnet_wait_put(x) \in WaitRec
  BY <1>1, <1>4, <1>5, Zenon
<1>7. LET y == dnet_wait_put(x) IN
        /\ y.refcnt = x.refcnt - 1 /\ y.freed = (x.freed \/ x.refcnt = 1)
        /\ y.cond = x.cond /\ y.status = x.status
  BY <1>2, Zenon DEF dnet_wait_put
<1> QED
  BY <1>6, <1>7, Zenon

\* A callback runs only for a transaction of the call.
LEMMA CallbackTarget ==
    ASSUME IInv, NEW g \in Groups, tr[g] # "idle"
    PROVE  g \in targets /\ op # "none" /\ cpc # "idle"
BY Zenon DEF IInv, PlaceInv

\* The places of the caller and the other transactions do not change with one.
LEMMA PlaceKept ==
    ASSUME Constants, IInv, NEW g \in Groups, tr[g] # "idle",
           UNCHANGED <<op, targets, cpc, werr, ret>>, NEW v, tr' = [tr EXCEPT ![g] = v], v # "idle",
           v = "putting" => op = "request_cmd", v = "priv" => op = "update_status", v # "sent",
           v = "answered" => reply'[g] \in Status,
           \A h \in Groups : h # g => reply'[h] = reply[h]
    PROVE  PlaceInv'
<1>1. g \in targets /\ op # "none" /\ cpc # "idle"
  BY CallbackTarget, Zenon
<1>2. ClientTypeOK /\ PlaceInv
  BY Zenon DEF IInv
<1>3. tr'[g] = v /\ (\A h \in Groups : h # g => tr'[h] = tr[h]) /\ Idle' = Idle \ {g}
  BY <1>1, <1>2, Moves, Zenon
<1>4. ASSUME NEW h \in Groups
      PROVE  /\ h \notin targets' => tr'[h] = "idle"
             /\ tr'[h] = "putting" => op' = "request_cmd"
             /\ tr'[h] = "priv" => op' = "update_status"
             /\ tr'[h] \in {"idle", "sent"} => reply'[h] = NoReply
             /\ tr'[h] = "answered" => reply'[h] \in Status
  BY <1>1, <1>2, <1>3, Zenon DEF PlaceInv
<1> QED
  BY <1>1, <1>2, <1>3, <1>4, Zenon DEF PlaceInv

\* What is known of the outcome does not change with the other fields.
LEMMA OutcomesKept ==
    ASSUME IInv, UNCHANGED <<op, targets, cpc, werr, ret, reply>>, w'.status = w.status,
           op = "read" => w'.cond = w.cond
    PROVE  WriteInv' /\ ReadInv' /\ RemoveInv'
BY Zenon DEF IInv, WriteInv, ReadInv, RemoveInv

\* As long as somebody holds the structure it is there.
LEMMA HeldAlive ==
    ASSUME IInv, NEW g \in Groups, tr[g] \in {"sent", "answered", "waking", "putting"}, Counted
    PROVE  g \in Holding /\ ~w.freed /\ ~bad
<1>1. tr[g] # "idle"
  BY Zenon
<1>2. g \in Holding
  BY <1>1, CallbackTarget, Zenon DEF Holding
<1> QED
  BY <1>2, Zenon DEF IInv, RefInv

\* What the number of references depends on.
LEMMA RefsKept ==
    ASSUME IInv, UNCHANGED <<op, targets, cpc>>, Idle' = Idle, Holding' = Holding,
           w'.refcnt = w.refcnt, w'.freed = w.freed, Counted => ~bad'
    PROVE  RefInv'
<1>1. Reserved' = Reserved /\ CallerRef' = CallerRef /\ (Counted' <=> Counted)
  BY Zenon DEF Reserved, CallerRef, Counted, Sound, Surplus
<1> QED
  BY <1>1, Zenon DEF IInv, RefInv

\* The last reply of a transaction.
LEMMA ReplyStep ==
    ASSUME Constants, IInv, NEW g \in Groups, NEW st \in Status, LastReply(g, st)
    PROVE  IInv'
<1>1. /\ tr[g] = "sent" /\ tr' = [tr EXCEPT ![g] = "answered"] /\ reply' = [reply EXCEPT ![g] = st]
      /\ UNCHANGED <<op, cpc, targets, p, werr, ret>>
  BY Zenon DEF LastReply
<1>2. ClientTypeOK /\ w \in WaitRec /\ st \in Int /\ st <= 0 /\ g \in targets /\ op \in Ops
  <2>1. ClientTypeOK /\ tr[g] # "idle"
    BY <1>1, Zenon DEF IInv
  <2>2. g \in targets /\ op # "none"
    BY <2>1, CallbackTarget, Zenon
  <2>3. st \in Int /\ st <= 0
    BY SMTT(30) DEF Status, ENOENT, ETIMEDOUT
  <2> QED
    BY <2>1, <2>2, <2>3, Zenon DEF ClientTypeOK, WaitRec
<1>3. reply'[g] = st /\ reply[g] = NoReply /\ \A h \in Groups : h # g => reply'[h] = reply[h]
  BY <1>1, <1>2, Zenon DEF ClientTypeOK, IInv, PlaceInv
<1>4. /\ w' \in WaitRec /\ w'.refcnt = w.refcnt /\ w'.freed = w.freed
      /\ op # "read" => w'.cond = w.cond
      /\ op = "read" => w'.cond = IF st # 0 THEN st ELSE 1
      /\ op = "write" => w'.status = IF w.status < 0 THEN st ELSE w.status
      /\ op = "remove_file" => w'.status = IF st # 0 THEN st ELSE w.status
  <2>1. w.status \in Int /\ (IF w.status < 0 THEN st ELSE w.status) \in Int /\ (IF st # 0 THEN st ELSE w.status) \in Int
        /\ (IF st # 0 THEN st ELSE 1) \in Int
    BY <1>2, SMTT(30) DEF WaitRec
  <2>2. CASE op = "write"
    <3>1. w' = [w EXCEPT !.status = IF w.status < 0 THEN st ELSE w.status]
      BY <2>2, SMTT(30) DEF LastReply, WriteComplete
    <3>2. PICK n \in Int : n = (IF w.status < 0 THEN st ELSE w.status)
      BY <2>1, Zenon
    <3>3. w' = [w EXCEPT !.status = n]
      BY <3>1, <3>2, Zenon
    <3>4. w' \in WaitRec /\ w'.refcnt = w.refcnt /\ w'.freed = w.freed /\ w'.status = n
          /\ w'.cond = w.cond
      BY <1>2, <3>3, SMTT(30) DEF WaitRec
    <3> QED
      BY <2>2, <3>2, <3>4, Zenon
  <2>3. CASE op \in {"remove", "remove_file"}
    <3>1. w' = [w EXCEPT !.status = IF st # 0 THEN st ELSE w.status]
      BY <2>3, Zenon DEF LastReply, RemoveComplete
    <3>2. PICK n \in Int : n = (IF st # 0 THEN st ELSE w.status)
      BY <2>1, Zenon
    <3>3. w' = [w EXCEPT !.status = n]
      BY <3>1, <3>2, Zenon
    <3>4. w' \in WaitRec /\ w'.refcnt = w.refcnt /\ w'.freed = w.freed /\ w'.status = n
          /\ w'.cond = w.cond
      BY <1>2, <3>3, SMTT(30) DEF WaitRec
    <3> QED
      BY <2>3, <3>2, <3>4, Zenon
  <2>4. CASE op = "read"
    <3>1. w' = [w EXCEPT !.cond = IF st # 0 THEN st ELSE 1]
      BY <2>4, SMTT(30) DEF LastReply, ReadComplete, WakeWith
    <3>2. PICK n \in Int : n = (IF st # 0 THEN st ELSE 1)
      BY <2>1, Zenon
    <3>3. w' = [w EXCEPT !.cond = n]
      BY <3>1, <3>2, Zenon
    <3>4. w' \in WaitRec /\ w'.refcnt = w.refcnt /\ w'.freed = w.freed /\ w'.cond = n
          /\ w'.status = w.status
      BY <1>2, <3>3, SMTT(30) DEF WaitRec
    <3> QED
      BY <2>4, <3>2, <3>4, Zenon
  <2>5. CASE op \in {"stat", "request_cmd", "update_status"}
    <3>1. w' = w
      BY <2>5, Zenon DEF LastReply, StatComplete, RequestCmdComplete, UpdateStatusComplete
    <3> QED
      BY <1>2, <2>5, <3>1, SMTT(30)
  <2> QED
    BY <1>2, <2>2, <2>3, <2>4, <2>5, Zenon DEF Ops
<1>5. Counted => ~bad'
  <2> SUFFICES ASSUME Counted PROVE ~bad'
    BY Zenon
  <2>1. ~w.freed /\ ~bad /\ (op \in {"write", "request_cmd"} => ~p.freed) /\ op # "update_status"
    BY <1>1, <1>2, HeldAlive, Zenon DEF IInv, PrivInv, Counted, Sound
  <2> QED
    BY <1>2, <2>1, Zenon DEF LastReply, Ops, WriteComplete, RemoveComplete, ReadComplete, StatComplete,
       RequestCmdComplete, UsesBoth, UsesW, UsesP
<1>6. /\ tr'[g] = "answered" /\ (\A h \in Groups : h # g => tr'[h] = tr[h])
      /\ Idle' = Idle /\ Holding' = Holding /\ Woke' = Woke
  <2>1. g \notin Idle /\ g \in Holding /\ g \notin Woke
    BY <1>1, <1>2, Zenon DEF Idle, Holding, Woke
  <2>2. /\ Idle' = Idle \ {g} /\ Holding' = Holding \cup {g} /\ Woke' = Woke \ {g}
        /\ tr'[g] = "answered" /\ (\A h \in Groups : h # g => tr'[h] = tr[h])
    BY <1>1, <1>2, Moves, Zenon
  <2> QED
    BY <2>1, <2>2, Zenon
<1>7. ClientTypeOK'
  BY <1>1, <1>2, <1>4, SMTT(30) DEF ClientTypeOK, WaitRec
<1>8. PlaceInv'
  BY <1>1, <1>3, PlaceKept, Zenon
<1>9. RefInv'
  BY <1>1, <1>4, <1>5, <1>6, RefsKept, Zenon
<1>10. PrivInv' /\ CondInv'
  BY <1>1, <1>2, <1>4, <1>6, Zenon DEF IInv, PrivInv, CondInv, Sound
<1>11. ~(Sound /\ op # "read" /\ cpc \in {"put", "returned"} /\ werr = 0)
  BY <1>1, <1>2, Zenon DEF IInv, CondInv, Woke
<1>12. WriteInv'
  <2> SUFFICES ASSUME op = "write", targets # {} PROVE WriteInv'
    BY <1>1, Zenon DEF WriteInv
  <2>1. w.status \in {0, ENXIO, ENOENT, ETIMEDOUT} /\ (w.status = 0 <=> \E h \in targets : reply[h] = 0)
    BY Zenon DEF IInv, WriteInv
  <2>2. w'.status = IF w.status = 0 THEN 0 ELSE st
    BY <1>4, <2>1, SMTT(30) DEF ENXIO, ENOENT, ETIMEDOUT
  <2>3. targets \in SUBSET Groups
    BY <1>2, Zenon DEF ClientTypeOK
  <2>4. (\E h \in targets : reply'[h] = 0) <=> w.status = 0 \/ st = 0
    BY <1>2, <1>3, <2>1, <2>3, SMTT(30) DEF NoReply
  <2> QED
    BY <1>1, <1>11, <2>1, <2>2, <2>4, SMTT(30) DEF WriteInv, Status, Sound
<1>13. RemoveInv'
  <2> SUFFICES ASSUME op = "remove_file" PROVE RemoveInv'
    BY <1>1, Zenon DEF RemoveInv
  <2>1. w.status \in {0, ENOENT, ETIMEDOUT} /\ (w.status = 0 <=> \A h \in targets : reply[h] \in {0, NoReply})
    BY Zenon DEF IInv, RemoveInv
  <2>2. targets \in SUBSET Groups
    BY <1>2, Zenon DEF ClientTypeOK
  <2>3. (\A h \in targets : reply'[h] \in {0, NoReply}) <=> w.status = 0 /\ st = 0
    BY <1>2, <1>3, <2>1, <2>2, SMTT(30) DEF NoReply
  <2> QED
    BY <1>1, <1>4, <1>11, <2>1, <2>3, SMTT(30) DEF RemoveInv, Status, Sound
<1>14. ReadInv'
  <2> SUFFICES ASSUME op = "read" PROVE ReadInv'
    BY <1>1, Zenon DEF ReadInv
  <2>1. \A h \in targets : reply[h] = 0 => reply'[h] = 0
    BY <1>2, <1>3, SMTT(30) DEF NoReply, ClientTypeOK
  <2>2. w'.cond >= 0 => reply'[g] = 0
    BY <1>2, <1>3, <1>4, SMTT(30)
  <2> QED
    BY <1>1, <1>2, <2>1, <2>2, Zenon DEF IInv, ReadInv
<1> QED
  BY <1>7, <1>8, <1>9, <1>10, <1>12, <1>13, <1>14, Zenon DEF IInv

\* The data of a read that cannot be stored.
LEMMA ReadDataStep ==
    ASSUME Constants, IInv, NEW g \in Groups, ReadData(g)
    PROVE  IInv'
<1>1. /\ op = "read" /\ tr[g] = "sent" /\ w' = [w EXCEPT !.cond = EIO] /\ bad' = (bad \/ w.freed)
      /\ UNCHANGED <<op, cpc, targets, p, tr, reply, werr, ret>>
  BY Zenon DEF ReadData, WakeWith, UsesW
<1>2. ClientTypeOK /\ w \in WaitRec /\ EIO \in Int /\ EIO < 0
  BY SMTT(30) DEF IInv, ClientTypeOK, WaitRec, EIO
<1>3. w' \in WaitRec /\ w'.refcnt = w.refcnt /\ w'.freed = w.freed /\ w'.cond = EIO /\ w'.status = w.status
  BY <1>1, <1>2, Fields, Zenon
<1>4. Counted /\ ~bad'
  <2>1. Counted
    BY <1>1, Zenon DEF Counted, Sound
  <2> QED
    BY <1>1, <2>1, HeldAlive, Zenon
<1>5. Idle' = Idle /\ Holding' = Holding
  BY <1>1, Zenon DEF Idle, Holding
<1>6. ClientTypeOK' /\ PlaceInv'
  BY <1>1, <1>2, <1>3, <1>4, <1>5, Zenon DEF IInv, ClientTypeOK, PlaceInv, WaitRec
<1>7. RefInv'
  BY <1>1, <1>3, <1>4, <1>5, RefsKept, Zenon
<1>8. PrivInv' /\ CondInv' /\ WriteInv' /\ RemoveInv'
  BY <1>1, Zenon DEF PrivInv, CondInv, WriteInv, RemoveInv
<1>9. ~(w'.cond >= 0)
  BY <1>2, <1>3, SMTT(30)
<1>10. ReadInv'
  BY <1>1, <1>9, Zenon DEF IInv, ReadInv
<1> QED
  BY <1>6, <1>7, <1>8, <1>10, Zenon DEF IInv

\* A callback wakes the caller up.
LEMMA DestroyWakeStep ==
    ASSUME Constants, IInv, NEW g \in Groups, DestroyWake(g)
    PROVE  IInv'
<1>1. /\ tr[g] = "answered" /\ tr' = [tr EXCEPT ![g] = "waking"]
      /\ UNCHANGED <<op, cpc, targets, p, reply, werr, ret>>
  BY Zenon DEF DestroyWake
<1>2. ClientTypeOK /\ w \in WaitRec /\ g \in targets /\ reply[g] \in Status
  BY <1>1, CallbackTarget, Zenon DEF IInv, ClientTypeOK, PlaceInv, WaitRec
<1>3. /\ w.cond \in Int /\ w.cond + 1 \in Int
      /\ (IF reply[g] # 0 THEN reply[g] ELSE 1) \in Int
      /\ (IF reply[g] # 0 THEN reply[g] ELSE 1) >= 0 => reply[g] = 0
  BY <1>2, SMTT(30) DEF WaitRec, Status, ENOENT, ETIMEDOUT
<1>4. /\ w' \in WaitRec /\ w'.refcnt = w.refcnt /\ w'.freed = w.freed /\ w'.status = w.status
      /\ op # "read" => w'.cond = w.cond + 1
      /\ op = "read" => w'.cond = IF reply[g] # 0 THEN reply[g] ELSE 1
  <2>1. CASE op = "read"
    <3>1. w' = [w EXCEPT !.cond = IF reply[g] # 0 THEN reply[g] ELSE 1]
      BY <2>1, Zenon DEF DestroyWake, WakeWith
    <3>2. PICK n \in Int : n = (IF reply[g] # 0 THEN reply[g] ELSE 1)
      BY <1>3, Zenon
    <3>3. w' = [w EXCEPT !.cond = n]
      BY <3>1, <3>2, Zenon
    <3>4. w' \in WaitRec /\ w'.refcnt = w.refcnt /\ w'.freed = w.freed /\ w'.cond = n
          /\ w'.status = w.status
      BY <1>2, <3>3, SMTT(30) DEF WaitRec
    <3> QED
      BY <2>1, <3>2, <3>4, Zenon
  <2>2. CASE op # "read"
    <3>1. w' = [w EXCEPT !.cond = w.cond + 1]
      BY <2>2, Zenon DEF DestroyWake, WakeCount
    <3>2. PICK n \in Int : n = w.cond + 1
      BY <1>3, Zenon
    <3>3. w' = [w EXCEPT !.cond = n]
      BY <3>1, <3>2, Zenon
    <3>4. w' \in WaitRec /\ w'.refcnt = w.refcnt /\ w'.freed = w.freed /\ w'.cond = n
          /\ w'.status = w.status
      BY <1>2, <3>3, SMTT(30) DEF WaitRec
    <3> QED
      BY <2>2, <3>2, <3>4, Zenon
  <2> QED
    BY <2>1, <2>2, Zenon
<1>5. Counted => ~bad'
  <2> SUFFICES ASSUME Counted PROVE ~bad'
    BY Zenon
  <2>1. ~w.freed /\ ~bad /\ (op \in {"write", "request_cmd"} => ~p.freed) /\ op # "update_status"
    BY <1>1, <1>2, HeldAlive, Zenon DEF IInv, PrivInv, Counted, Sound
  <2> QED
    BY <2>1, Zenon DEF DestroyWake, UsesBoth, UsesW
<1>6. /\ tr'[g] = "waking" /\ (\A h \in Groups : h # g => tr'[h] = tr[h])
      /\ Idle' = Idle /\ Holding' = Holding /\ Woke' = Woke \cup {g} /\ g \notin Woke
  <2>1. g \notin Idle /\ g \in Holding /\ g \notin Woke
    BY <1>1, <1>2, Zenon DEF Idle, Holding, Woke
  <2>2. /\ Idle' = Idle \ {g} /\ Holding' = Holding \cup {g} /\ Woke' = Woke \cup {g}
        /\ tr'[g] = "waking" /\ (\A h \in Groups : h # g => tr'[h] = tr[h])
    BY <1>1, <1>2, Moves, Zenon
  <2> QED
    BY <2>1, <2>2, Zenon
<1>7. ClientTypeOK'
  BY <1>1, <1>2, <1>4, SMTT(30) DEF ClientTypeOK, WaitRec
<1>8. PlaceInv'
  BY <1>1, PlaceKept, Zenon
<1>9. RefInv'
  BY <1>1, <1>4, <1>5, <1>6, RefsKept, Zenon
<1>10. PrivInv'
  BY <1>1, <1>2, <1>4, Zenon DEF IInv, PrivInv
<1>11. CondInv'
  <2>1. Cardinality(Woke') = Cardinality(Woke) + 1
    BY <1>2, <1>6, Sizes, CardMove, Zenon
  <2>2. Woke # targets
    BY <1>2, <1>6, Zenon
  <2> QED
    BY <1>1, <1>4, <2>1, <2>2, Zenon DEF IInv, CondInv, Sound
<1>12. WriteInv' /\ RemoveInv'
  BY <1>1, <1>4, Zenon DEF IInv, WriteInv, RemoveInv
<1>13. ReadInv'
  BY <1>1, <1>2, <1>3, <1>4, Zenon DEF IInv, ReadInv
<1> QED
  BY <1>7, <1>8, <1>9, <1>10, <1>11, <1>12, <1>13, Zenon DEF IInv

PrivRec == [refcnt : Int, freed : BOOLEAN]

\* What the operations on the private data change.
LEMMA PrivFields ==
    ASSUME NEW x \in PrivRec, NEW b \in BOOLEAN
    PROVE  [x EXCEPT !.freed = b] \in PrivRec /\ [x EXCEPT !.freed = b].freed = b
<1>1. [x EXCEPT !.freed = b] \in PrivRec
  BY SMTT(30) DEF PrivRec
<1>2. "freed" \in DOMAIN x
  BY SMTT(30) DEF PrivRec
<1> QED
  BY <1>1, <1>2, Zenon

\* One that holds the last reference holds it alone, and the caller is gone.
LEMMA LastHolder ==
    ASSUME Constants, IInv, NEW g \in Holding, Counted
    PROVE  w.refcnt = 1 <=> cpc = "returned" /\ Holding = {g}
<1>1. ClientTypeOK /\ g \in Groups /\ g \in targets /\ tr[g] # "idle" /\ Holding \in SUBSET Groups
  BY Zenon DEF IInv, ClientTypeOK, Holding
<1>2. cpc # "idle"
  BY <1>1, CallbackTarget, Zenon
<1>3. Reserved \in Nat /\ (cpc = "returned" => Reserved = 0)
  BY <1>1, Sizes, Zenon DEF Reserved
<1>4. CallerRef = IF cpc = "returned" THEN 0 ELSE 1
  BY <1>2, Zenon DEF CallerRef
<1>5. Cardinality(Holding) \in Nat /\ Cardinality(Holding) > 0 /\ (Cardinality(Holding) = 1 <=> Holding = {g})
  BY <1>1, SubsetCard, CardMove, CardSmall, Zenon
<1>6. w.refcnt = CallerRef + Cardinality(Holding) + Reserved
  BY Zenon DEF IInv, RefInv
<1> QED
  BY <1>3, <1>4, <1>5, <1>6, SMTT(30)

\* With all sent, a transaction of request_cmd that holds no reference is over.
LEMMA NoneHolding ==
    ASSUME IInv, op # "update_status", Idle = {}, NEW g \in targets, g \notin Holding
    PROVE  tr[g] = "done" /\ g \in Groups
<1>1. g \in Groups /\ tr[g] \in {"idle", "sent", "answered", "waking", "putting", "priv", "done"}
  BY Zenon DEF IInv, ClientTypeOK
<1>2. tr[g] \notin {"sent", "answered", "waking", "putting"}
  BY Zenon DEF Holding
<1>3. tr[g] # "idle"
  BY Zenon DEF Idle
<1>4. tr[g] # "priv"
  BY <1>1, Zenon DEF IInv, PlaceInv
<1> QED
  BY <1>1, <1>2, <1>3, <1>4, Zenon

\* dnet_request_cmd_complete() looks at the counter.
LEMMA DestroyLookStep ==
    ASSUME Constants, IInv, NEW g \in Groups, DestroyLook(g)
    PROVE  IInv'
<1>1. /\ op = "request_cmd" /\ tr[g] = "waking" /\ tr' = [tr EXCEPT ![g] = "putting"]
      /\ UNCHANGED <<op, cpc, targets, w, reply, werr, ret>>
      /\ p' = [p EXCEPT !.freed = p.freed \/ w.refcnt = 1]
      /\ bad' = (bad \/ w.freed \/ (p.freed /\ w.refcnt = 1))
  BY Zenon DEF DestroyLook, FreesPriv
<1>2. ClientTypeOK /\ w \in WaitRec /\ p \in PrivRec /\ g \in targets /\ op # "none"
  BY <1>1, CallbackTarget, Zenon DEF IInv, ClientTypeOK, WaitRec, PrivRec
<1>3. (p.freed \/ w.refcnt = 1) \in BOOLEAN
  BY Zenon
<1>4. p' \in PrivRec /\ p'.freed = (p.freed \/ w.refcnt = 1)
  BY <1>1, <1>2, <1>3, PrivFields, Zenon
<1>5. Counted /\ g \in Holding /\ ~w.freed /\ ~bad /\ ~p.freed
  <2>1. Counted
    BY <1>1, Zenon DEF Counted, Sound
  <2> QED
    BY <1>1, <1>2, <2>1, HeldAlive, Zenon DEF IInv, PrivInv
<1>6. /\ tr'[g] = "putting" /\ (\A h \in Groups : h # g => tr'[h] = tr[h])
      /\ Idle' = Idle /\ Holding' = Holding /\ Woke' = Woke
  <2>1. g \notin Idle /\ g \in Holding /\ g \in Woke
    BY <1>1, <1>2, Zenon DEF Idle, Holding, Woke
  <2>2. /\ Idle' = Idle \ {g} /\ Holding' = Holding \cup {g} /\ Woke' = Woke \cup {g}
        /\ tr'[g] = "putting" /\ (\A h \in Groups : h # g => tr'[h] = tr[h])
    BY <1>1, <1>2, Moves, Zenon
  <2> QED
    BY <2>1, <2>2, Zenon
<1>7. ClientTypeOK'
  BY <1>1, <1>2, <1>4, SMTT(30) DEF ClientTypeOK, PrivRec
<1>8. PlaceInv'
  BY <1>1, PlaceKept, Zenon
<1>9. RefInv'
  BY <1>1, <1>5, <1>6, RefsKept, Zenon
<1>10. PrivInv'
  <2> SUFFICES ASSUME w.refcnt = 1
               PROVE  cpc = "returned" /\ \A h \in targets : tr'[h] \in {"putting", "done"}
    BY <1>1, <1>4, <1>5, Zenon DEF PrivInv
  <2>1. cpc = "returned" /\ Holding = {g}
    BY <1>5, LastHolder, Zenon
  <2>2. Idle = {}
    BY <1>1, <2>1, Zenon DEF IInv, PlaceInv
  <2>3. ASSUME NEW h \in targets, h # g
        PROVE  tr[h] = "done" /\ h \in Groups
    <3>1. h \notin Holding
      BY <2>1, <2>3, Zenon
    <3> QED
      BY <1>1, <2>2, <3>1, NoneHolding, Zenon
  <2> QED
    BY <1>6, <2>1, <2>3, Zenon
<1>11. CondInv' /\ WriteInv' /\ RemoveInv' /\ ReadInv'
  BY <1>1, <1>6, Zenon DEF IInv, CondInv, WriteInv, RemoveInv, ReadInv, Sound
<1> QED
  BY <1>7, <1>8, <1>9, <1>10, <1>11, Zenon DEF IInv

\* A callback puts its reference.
LEMMA DestroyPutStep ==
    ASSUME Constants, IInv, NEW g \in Groups, DestroyPut(g)
    PROVE  IInv'
<1>1. PICK v \in {"priv", "done"} :
        /\ tr' = [tr EXCEPT ![g] = v] /\ (v = "priv" <=> op = "update_status")
        /\ tr[g] \in {"waking", "putting"}
        /\ UNCHANGED <<op, cpc, targets, reply, werr, ret>>
        /\ w' = dnet_wait_put(w) /\ p' = PrivOf(w') /\ bad' = (bad \/ w.freed)
  BY Zenon DEF DestroyPut, UsesW
<1>2. ClientTypeOK /\ w \in WaitRec /\ p \in PrivRec /\ g \in targets /\ g \in Holding /\ g \in Woke
  BY <1>1, CallbackTarget, Zenon DEF IInv, ClientTypeOK, WaitRec, PrivRec, Holding, Woke
<1>3. /\ w' \in WaitRec /\ w'.refcnt = w.refcnt - 1 /\ (w'.freed <=> w.freed \/ w.refcnt = 1)
      /\ w'.cond = w.cond /\ w'.status = w.status
  BY <1>1, <1>2, PutFields, Zenon
<1>4. p' \in PrivRec /\ (op = "write" => p'.freed = w'.freed) /\ (op # "write" => p' = p)
  <2>1. w'.freed \in BOOLEAN
    BY <1>3, SMTT(30) DEF WaitRec
  <2> QED
    BY <1>1, <1>2, <2>1, PrivFields, Zenon DEF PrivOf
<1>5. /\ tr'[g] = v /\ (\A h \in Groups : h # g => tr'[h] = tr[h])
      /\ Idle' = Idle /\ Holding' = Holding \ {g} /\ (v = "done" => Woke' = Woke)
  <2>1. g \notin Idle
    BY <1>1, Zenon DEF Idle
  <2>2. /\ Idle' = Idle \ {g} /\ Holding' = Holding \ {g} /\ (v = "done" => Woke' = Woke \cup {g})
        /\ tr'[g] = v /\ (\A h \in Groups : h # g => tr'[h] = tr[h])
    BY <1>1, <1>2, Moves, Zenon
  <2> QED
    BY <1>2, <2>1, <2>2, Zenon
<1>6. ClientTypeOK'
  BY <1>1, <1>2, <1>3, <1>4, SMTT(30) DEF ClientTypeOK, WaitRec, PrivRec
<1>7. PlaceInv'
  BY <1>1, PlaceKept, Zenon
<1>8. RefInv'
  <2> SUFFICES ASSUME Counted' PROVE RefInv'
    BY Zenon DEF RefInv
  <2>1. Counted /\ Reserved' = Reserved /\ CallerRef' = CallerRef
    BY <1>1, <1>5, Zenon DEF Reserved, CallerRef, Counted, Sound, Surplus
  <2>2. ~w.freed /\ ~bad /\ w.refcnt = CallerRef + Cardinality(Holding) + Reserved
    BY <1>1, <2>1, HeldAlive, Zenon DEF IInv, RefInv
  <2>3. w.refcnt = 1 <=> cpc = "returned" /\ Holding = {g}
    BY <1>2, <2>1, LastHolder, Zenon
  <2>4. Cardinality(Holding') = Cardinality(Holding) - 1 /\ Cardinality(Holding) \in Nat /\ Reserved \in Nat
    BY <1>2, <1>5, CardMove, Sizes, Zenon
  <2>5. CallerRef \in Nat
    BY SMTT(30) DEF CallerRef
  <2>6. w'.refcnt = CallerRef' + Cardinality(Holding') + Reserved'
    BY <1>3, <2>1, <2>2, <2>4, <2>5, SMTT(30)
  <2>7. w'.freed <=> cpc' = "returned" /\ Holding' = {}
    BY <1>1, <1>2, <1>3, <1>5, <2>2, <2>3, Zenon
  <2> QED
    BY <1>1, <2>2, <2>6, <2>7, Zenon DEF RefInv
<1>9. PrivInv'
  <2>1. targets \in SUBSET Groups
    BY <1>2, Zenon DEF ClientTypeOK
  <2>2. op' = "write" => (p'.freed <=> w'.freed)
    BY <1>1, <1>4, Zenon
  <2>3. ASSUME op = "request_cmd", p.freed
        PROVE  cpc' \in {"put", "returned"} /\ \A h \in targets : tr'[h] \in {"putting", "done"}
    <3>1. cpc \in {"put", "returned"} /\ \A h \in targets : tr[h] \in {"putting", "done"}
      BY <2>3, Zenon DEF IInv, PrivInv
    <3>2. v = "done"
      BY <1>1, <2>3, Zenon
    <3> QED
      BY <1>1, <1>5, <2>1, <3>1, <3>2, Zenon
  <2> QED
    BY <1>1, <1>4, <2>2, <2>3, Zenon DEF PrivInv
<1>10. CondInv'
  BY <1>1, <1>3, <1>5, Zenon DEF IInv, CondInv, Sound
<1>11. WriteInv' /\ ReadInv' /\ RemoveInv'
  BY <1>1, <1>3, OutcomesKept, Zenon
<1> QED
  BY <1>6, <1>7, <1>8, <1>9, <1>10, <1>11, Zenon DEF IInv

\* dnet_update_status_complete() drops its private data.
LEMMA DestroyPrivStep ==
    ASSUME Constants, IInv, NEW g \in Groups, DestroyPriv(g)
    PROVE  IInv'
<1>1. /\ tr[g] = "priv" /\ tr' = [tr EXCEPT ![g] = "done"]
      /\ UNCHANGED <<op, cpc, targets, w, reply, werr, ret>>
      /\ p' = [refcnt |-> p.refcnt - 1, freed |-> p.freed \/ p.refcnt = 1]
  BY Zenon DEF DestroyPriv
<1>2. ClientTypeOK /\ op = "update_status"
  BY <1>1, Zenon DEF IInv, PlaceInv
<1>3. p' \in PrivRec
  BY <1>1, <1>2, SMTT(30) DEF ClientTypeOK, PrivRec
<1>4. ClientTypeOK'
  BY <1>1, <1>2, <1>3, SMTT(30) DEF ClientTypeOK, PrivRec
<1>5. PlaceInv'
  BY <1>1, PlaceKept, Zenon
<1>6. ~Counted' /\ ~Sound'
  BY <1>1, <1>2, Zenon DEF Counted, Sound
<1>7. RefInv' /\ PrivInv' /\ CondInv' /\ WriteInv' /\ ReadInv' /\ RemoveInv'
  BY <1>1, <1>2, <1>6, Zenon DEF RefInv, PrivInv, CondInv, WriteInv, ReadInv, RemoveInv
<1> QED
  BY <1>4, <1>5, <1>7, Zenon DEF IInv

\* Every callback keeps the invariant.
LEMMA CallbackStep ==
    ASSUME Constants, IInv, NEW g \in Groups, Callback(g)
    PROVE  IInv'
BY ReplyStep, ReadDataStep, DestroyWakeStep, DestroyLookStep, DestroyPutStep, DestroyPrivStep, Zenon
   DEF Callback

-----------------------------------------------------------------------------
(* The caller. *)

\* A transaction takes a reference for itself unless it was taken in advance.
TakesOne == IF op \in {"stat", "request_cmd"} THEN 1 ELSE 0

\* What Got() changes.
LEMMA GotFields ==
    ASSUME NEW x \in WaitRec
    PROVE  /\ Got(x) \in WaitRec /\ Got(x).refcnt = x.refcnt + TakesOne /\ Got(x).freed = x.freed
           /\ Got(x).cond = x.cond /\ Got(x).status = x.status
<1>1. x.refcnt \in Int /\ x.refcnt + 1 \in Int /\ x.refcnt + 0 = x.refcnt
  BY SMTT(30) DEF WaitRec
<1>2. CASE op \in {"stat", "request_cmd"}
  <2>1. Got(x) = [x EXCEPT !.refcnt = x.refcnt + 1] /\ TakesOne = 1
    BY <1>2, Zenon DEF Got, TakesOne
  <2>n. PICK n \in Int : n = x.refcnt + 1
    BY <1>1, Zenon
  <2>2. PICK y : n = x.refcnt + 1 /\ y = Got(x) /\ y = [x EXCEPT !.refcnt = n]
    BY <2>1, <2>n, Zenon
  <2>3. y \in WaitRec /\ y.refcnt = n /\ y.cond = x.cond /\ y.status = x.status /\ y.freed = x.freed
    BY <2>2, SMTT(30) DEF WaitRec
  <2>4. n = x.refcnt + TakesOne
    BY <2>1, <2>2, Zenon
  <2> QED
    BY <2>2, <2>3, <2>4, Zenon
<1>3. CASE op \notin {"stat", "request_cmd"}
  <2>1. Got(x) = x /\ TakesOne = 0
    BY <1>3, Zenon DEF Got, TakesOne
  <2> QED
    BY <1>1, <2>1, Zenon
<1> QED
  BY <1>2, <1>3, Zenon

\* A transaction is sent, or could not be.
LEMMA SendMoves ==
    ASSUME Constants, IInv, NEW g \in Groups, cpc = "send", g \in targets, tr[g] = "idle",
           NEW v \in {"sent", "done"}, tr' = [tr EXCEPT ![g] = v],
           UNCHANGED <<op, cpc, targets, reply, werr, ret>>
    PROVE  /\ PlaceInv' /\ op # "read" /\ op # "none"
           /\ Holding \in SUBSET Groups /\ Woke \in SUBSET Groups
           /\ g \notin Holding /\ g \notin Woke
           /\ v = "sent" => Holding' = Holding \cup {g} /\ Woke' = Woke
           /\ v = "done" => Holding' = Holding /\ Woke' = Woke \cup {g}
           /\ (Counted' <=> Counted) /\ CallerRef = 1 /\ CallerRef' = 1
           /\ Reserved \in Nat /\ Reserved' \in Nat
           /\ Counted => Reserved = Reserved' + 1 - TakesOne
<1>1. ClientTypeOK /\ PlaceInv /\ op # "read" /\ op # "none"
  BY Zenon DEF IInv, PlaceInv
<1>2. g \in Idle /\ g \notin Holding /\ g \notin Woke
  BY Zenon DEF Idle, Holding, Woke
<1>3. Idle \in SUBSET Groups /\ Holding \in SUBSET Groups /\ Woke \in SUBSET Groups
  BY <1>1, Sizes, Zenon
<1>4. /\ tr'[g] = v /\ (\A h \in Groups : h # g => tr'[h] = tr[h]) /\ Idle' = Idle \ {g}
      /\ v = "sent" => Holding' = Holding \cup {g} /\ Woke' = Woke \ {g}
      /\ v = "done" => Holding' = Holding \ {g} /\ Woke' = Woke \cup {g}
  BY <1>1, Moves, Zenon
<1>5. PlaceInv'
  <2>1. ASSUME NEW h \in Groups
        PROVE  /\ h \notin targets' => tr'[h] = "idle"
               /\ tr'[h] = "putting" => op' = "request_cmd"
               /\ tr'[h] = "priv" => op' = "update_status"
               /\ tr'[h] \in {"idle", "sent"} => reply'[h] = NoReply
               /\ tr'[h] = "answered" => reply'[h] \in Status
    BY <1>1, <1>4, Zenon DEF PlaceInv
  <2> QED
    BY <1>1, <2>1, Zenon DEF PlaceInv
<1>6. /\ Cardinality(Idle') = Cardinality(Idle) - 1 /\ Cardinality(Idle) \in Nat /\ Cardinality(Idle) > 0
      /\ Surplus \in Nat
  BY <1>1, <1>2, <1>3, <1>4, CardMove, Sizes, Zenon
<1>7. (Counted' <=> Counted) /\ CallerRef = 1 /\ CallerRef' = 1 /\ Surplus' = Surplus
  BY Zenon DEF Counted, Sound, CallerRef, Surplus
<1>8. Counted => (op \in {"write", "remove_file", "remove"} <=> op \notin {"stat", "request_cmd"})
  BY <1>1, SMTT(30) DEF Counted, Sound, ClientTypeOK, Ops
<1>9. /\ Reserved = IF op \in {"write", "remove_file", "remove"} THEN Surplus + Cardinality(Idle) ELSE 0
      /\ Reserved' = IF op \in {"write", "remove_file", "remove"} THEN Surplus + Cardinality(Idle') ELSE 0
  BY <1>7, Zenon DEF Reserved
<1>10. /\ Reserved \in Nat /\ Reserved' \in Nat
       /\ Counted => Reserved = Reserved' + 1 - TakesOne
  BY <1>6, <1>8, <1>9, SMTT(30) DEF TakesOne
<1> QED
  BY <1>1, <1>2, <1>3, <1>4, <1>5, <1>7, <1>10, Zenon

\* A transaction is sent.
LEMMA SendStep ==
    ASSUME Constants, IInv, NEW g \in Groups, Send(g)
    PROVE  IInv'
<1>1. /\ cpc = "send" /\ g \in targets /\ tr[g] = "idle" /\ tr' = [tr EXCEPT ![g] = "sent"] /\ w' = Got(w)
      /\ UNCHANGED <<op, cpc, targets, p, reply, werr, ret, bad>>
  BY Zenon DEF Send
<1>2. ClientTypeOK /\ w \in WaitRec /\ w.refcnt \in Int
  BY SMTT(30) DEF IInv, ClientTypeOK, WaitRec
<1>3. /\ w' \in WaitRec /\ w'.refcnt = w.refcnt + TakesOne /\ w'.freed = w.freed
      /\ w'.cond = w.cond /\ w'.status = w.status
  BY <1>1, <1>2, GotFields, Zenon
<1>4. /\ PlaceInv' /\ op # "read" /\ op # "none"
      /\ Holding \in SUBSET Groups /\ g \notin Holding
      /\ Holding' = Holding \cup {g} /\ Woke' = Woke
      /\ (Counted' <=> Counted) /\ CallerRef = 1 /\ CallerRef' = 1
      /\ Reserved \in Nat /\ Reserved' \in Nat
      /\ Counted => Reserved = Reserved' + 1 - TakesOne
  BY <1>1, SendMoves, Zenon
<1>5. ClientTypeOK'
  BY <1>1, <1>2, <1>3, SMTT(30) DEF ClientTypeOK, WaitRec
<1>6. RefInv'
  <2> SUFFICES ASSUME Counted PROVE RefInv'
    BY <1>4, Zenon DEF RefInv
  <2>1. w.refcnt = CallerRef + Cardinality(Holding) + Reserved /\ ~w.freed /\ ~bad
    BY <1>1, Zenon DEF IInv, RefInv
  <2>2. Cardinality(Holding') = Cardinality(Holding) + 1 /\ Cardinality(Holding) \in Nat
    BY <1>4, CardMove, SubsetCard, Zenon
  <2>3. TakesOne \in Int
    BY SMTT(30) DEF TakesOne
  <2>4. w'.refcnt = CallerRef' + Cardinality(Holding') + Reserved'
    BY <1>3, <1>4, <2>1, <2>2, <2>3, SMTT(30)
  <2> QED
    BY <1>1, <1>3, <2>1, <2>4, Zenon DEF RefInv
<1>7. PrivInv' /\ CondInv'
  BY <1>1, <1>3, <1>4, Zenon DEF IInv, PrivInv, CondInv, Sound
<1>8. WriteInv' /\ ReadInv' /\ RemoveInv'
  BY <1>1, <1>3, OutcomesKept, Zenon
<1> QED
  BY <1>4, <1>5, <1>6, <1>7, <1>8, Zenon DEF IInv

\* A transaction cannot be sent: its callback runs at once, and the structure stays.
LEMMA SendFailsStep ==
    ASSUME Constants, IInv, NEW g \in Groups, NEW null \in BOOLEAN, SendFails(g, null)
    PROVE  IInv'
<1>1. /\ cpc = "send" /\ g \in targets /\ tr[g] = "idle" /\ tr' = [tr EXCEPT ![g] = "done"]
      /\ UNCHANGED <<op, cpc, targets, reply, werr, ret>>
      /\ w' = dnet_wait_put(WakeCount(Got(w))) /\ bad' = (bad \/ w.freed)
      /\ op = "update_status" => p' = [refcnt |-> p.refcnt - 1, freed |-> p.refcnt = 1]
      /\ op # "update_status" => p' = p
  BY Zenon DEF SendFails, UsesW
<1>2. ClientTypeOK /\ w \in WaitRec /\ w.refcnt \in Int /\ w.cond \in Int /\ w.cond + 1 \in Int
      /\ p \in PrivRec /\ p.refcnt - 1 \in Int
  BY SMTT(30) DEF IInv, ClientTypeOK, WaitRec, PrivRec
<1>3. PICK x \in WaitRec : /\ x = Got(w) /\ x.refcnt = w.refcnt + TakesOne /\ x.freed = w.freed
                           /\ x.cond = w.cond /\ x.status = w.status
  BY <1>2, GotFields, Zenon
<1>4. PICK y \in WaitRec : /\ y = WakeCount(x) /\ y.refcnt = x.refcnt /\ y.freed = x.freed
                           /\ y.cond = w.cond + 1 /\ y.status = x.status
  <2>1. WakeCount(x) = [x EXCEPT !.cond = w.cond + 1]
    BY <1>3, Zenon DEF WakeCount
  <2>n. PICK n \in Int : n = w.cond + 1
    BY <1>2, Zenon
  <2>2. PICK z : n = w.cond + 1 /\ z = WakeCount(x) /\ z = [x EXCEPT !.cond = n]
    BY <2>1, <2>n, Zenon
  <2>3. z \in WaitRec /\ z.refcnt = x.refcnt /\ z.cond = n /\ z.status = x.status /\ z.freed = x.freed
    BY <2>2, SMTT(30) DEF WaitRec
  <2> QED
    BY <2>2, <2>3, Zenon
<1>5. /\ w' \in WaitRec /\ w'.refcnt = w.refcnt + TakesOne - 1 /\ (w'.freed <=> w.freed \/ w.refcnt + TakesOne = 1)
      /\ w'.cond = w.cond + 1 /\ w'.status = w.status
  <2>1. w' = dnet_wait_put(y)
    BY <1>1, <1>3, <1>4, Zenon
  <2>2. /\ w' \in WaitRec /\ w'.refcnt = y.refcnt - 1 /\ (w'.freed <=> y.freed \/ y.refcnt = 1)
        /\ w'.cond = y.cond /\ w'.status = y.status
    BY <2>1, PutFields, Zenon
  <2>3. y.refcnt = w.refcnt + TakesOne /\ y.freed = w.freed /\ y.cond = w.cond + 1 /\ y.status = w.status
    BY <1>3, <1>4, Zenon
  <2>4. y.refcnt - 1 = w.refcnt + TakesOne - 1 /\ (y.refcnt = 1 <=> w.refcnt + TakesOne = 1)
    <3>1. TakesOne \in Int
      BY SMTT(30) DEF TakesOne
    <3> QED
      BY <1>2, <2>3, <3>1, SMTT(30)
  <2> QED
    BY <2>2, <2>3, <2>4, Zenon
<1>6. /\ PlaceInv' /\ op # "read" /\ op # "none"
      /\ Holding \in SUBSET Groups /\ Woke \in SUBSET Groups /\ g \notin Woke
      /\ Holding' = Holding /\ Woke' = Woke \cup {g}
      /\ (Counted' <=> Counted) /\ CallerRef = 1 /\ CallerRef' = 1
      /\ Reserved \in Nat /\ Reserved' \in Nat
      /\ Counted => Reserved = Reserved' + 1 - TakesOne
  BY <1>1, SendMoves, Zenon
<1>7. p' \in PrivRec
  <2>1. [refcnt |-> p.refcnt - 1, freed |-> p.refcnt = 1] \in PrivRec
    BY <1>2, SMTT(30) DEF PrivRec
  <2> QED
    BY <1>1, <1>2, <2>1, Zenon
<1>8. ClientTypeOK'
  BY <1>1, <1>2, <1>5, <1>7, SMTT(30) DEF ClientTypeOK, WaitRec, PrivRec
<1>9. RefInv' /\ (Counted => ~w'.freed /\ ~w.freed)
  <2> SUFFICES ASSUME Counted PROVE RefInv' /\ ~w'.freed /\ ~w.freed
    BY <1>6, Zenon DEF RefInv
  <2>1. w.refcnt = CallerRef + Cardinality(Holding) + Reserved /\ ~w.freed /\ ~bad
    BY <1>1, Zenon DEF IInv, RefInv
  <2>2. Cardinality(Holding) \in Nat
    BY <1>6, SubsetCard, Zenon
  <2>t. TakesOne \in Int
    BY SMTT(30) DEF TakesOne
  <2>3. w'.refcnt = CallerRef' + Cardinality(Holding) + Reserved' /\ w.refcnt + TakesOne # 1
    BY <1>2, <1>5, <1>6, <2>1, <2>2, <2>t, SMTT(30)
  <2> QED
    BY <1>1, <1>5, <1>6, <2>1, <2>3, Zenon DEF RefInv
<1>10. PrivInv'
  BY <1>1, <1>9, Zenon DEF IInv, PrivInv, Counted, Sound
<1>11. CondInv'
  <2>1. Cardinality(Woke') = Cardinality(Woke) + 1
    BY <1>6, CardMove, Zenon
  <2> QED
    BY <1>1, <1>5, <2>1, Zenon DEF IInv, CondInv, Sound
<1>12. WriteInv' /\ ReadInv' /\ RemoveInv'
  BY <1>1, <1>5, <1>6, OutcomesKept, Zenon
<1> QED
  BY <1>6, <1>8, <1>9, <1>10, <1>11, <1>12, Zenon DEF IInv

\* The caller goes on; the transactions stay where they are.
LEMMA CallerMoves ==
    ASSUME IInv, UNCHANGED <<op, targets, tr, reply>>, werr' \in {0, ETIMEDOUT}, ret' \in Int,
           cpc # "idle", cpc' \notin {"idle", "send"},
           cpc' = "next" => op = "read", cpc' = "look" => op = "request_cmd",
           cpc' = "priv" => op = "update_status", op # "read" => Idle = {}
    PROVE  /\ PlaceInv' /\ Idle' = Idle /\ Holding' = Holding /\ Woke' = Woke
           /\ (Counted' <=> Counted) /\ (Sound' <=> Sound)
<1>1. Idle' = Idle /\ Holding' = Holding /\ Woke' = Woke /\ (Counted' <=> Counted) /\ (Sound' <=> Sound)
  BY Zenon DEF Idle, Holding, Woke, Counted, Sound
<1>2. ASSUME NEW h \in Groups
      PROVE  /\ h \notin targets' => tr'[h] = "idle"
             /\ tr'[h] = "putting" => op' = "request_cmd"
             /\ tr'[h] = "priv" => op' = "update_status"
             /\ tr'[h] \in {"idle", "sent"} => reply'[h] = NoReply
             /\ tr'[h] = "answered" => reply'[h] \in Status
  BY Zenon DEF IInv, PlaceInv
<1>3. /\ op' # "none" /\ (op' = "read" => targets' = Groups /\ cpc' # "send")
      /\ op' # "read" => Idle' = {}
  BY <1>1, Zenon DEF IInv, PlaceInv
<1> QED
  BY <1>1, <1>2, <1>3, Zenon DEF PlaceInv

\* Once all are sent nothing is held in advance; until the caller's put the structure is there.
LEMMA CallerHolds ==
    ASSUME IInv, cpc \notin {"idle", "send", "returned"}, Counted
    PROVE  w.refcnt = 1 + Cardinality(Holding) + 0 /\ ~w.freed /\ ~bad
<1>1. CallerRef = 1 /\ Reserved = 0
  BY Zenon DEF CallerRef, Reserved
<1> QED
  BY <1>1, Zenon DEF IInv, RefInv

\* The caller's steps that leave the structure alone.
LEMMA CallerRefs ==
    ASSUME IInv, UNCHANGED <<op, targets>>, cpc \notin {"idle", "send", "returned"},
           cpc' \notin {"idle", "send", "returned"}, Holding' = Holding,
           w'.refcnt = w.refcnt, w'.freed = w.freed, Counted => ~bad'
    PROVE  RefInv'
<1>1. CallerRef' = 1 /\ Reserved' = 0 /\ (Counted' <=> Counted)
  BY Zenon DEF CallerRef, Reserved, Counted, Sound
<1> QED
  BY <1>1, CallerHolds, Zenon DEF RefInv

\* All are sent, and what was held in advance goes.
LEMMA SentStep ==
    ASSUME Constants, IInv, Sent
    PROVE  IInv'
<1>1. /\ cpc = "send" /\ cpc' = "wait" /\ (\A g \in targets : tr[g] # "idle")
      /\ w' = [w EXCEPT !.refcnt = w.refcnt - Surplus] /\ bad' = (bad \/ w.freed)
      /\ UNCHANGED <<op, targets, p, tr, reply, werr, ret>>
  BY Zenon DEF Sent, UsesW
<1>2. /\ ClientTypeOK /\ w \in WaitRec /\ op # "read" /\ op # "none" /\ Idle = {}
      /\ werr \in {0, ETIMEDOUT} /\ ret \in Int
  BY <1>1, Zenon DEF IInv, PlaceInv, ClientTypeOK, WaitRec, Idle
<1>3. Surplus \in Nat /\ Cardinality(Holding) \in Nat
  BY <1>2, Sizes, Zenon
<1>4. w.refcnt \in Int /\ w.refcnt - Surplus \in Int
  BY <1>2, <1>3, SMTT(30) DEF WaitRec
<1>5. PICK n \in Int : n = w.refcnt - Surplus /\ w' = [w EXCEPT !.refcnt = n]
  BY <1>1, <1>4, Zenon
<1>6. w' \in WaitRec /\ w'.refcnt = n /\ w'.cond = w.cond /\ w'.status = w.status /\ w'.freed = w.freed
  BY <1>2, <1>5, SMTT(30) DEF WaitRec
<1>7. /\ PlaceInv' /\ Holding' = Holding /\ Woke' = Woke
      /\ (Counted' <=> Counted) /\ (Sound' <=> Sound)
  BY <1>1, <1>2, CallerMoves, Zenon
<1>8. ClientTypeOK'
  BY <1>1, <1>2, <1>6, SMTT(30) DEF ClientTypeOK, WaitRec
<1>9. RefInv'
  <2> SUFFICES ASSUME Counted PROVE RefInv'
    BY <1>7, Zenon DEF RefInv
  <2>1. Cardinality(Idle) = 0
    BY <1>2, FS_EmptySet, Zenon
  <2>2. Reserved = Surplus
    <3>1. CASE op \in {"write", "remove_file", "remove"}
      BY <1>1, <1>3, <2>1, <3>1, SMTT(30) DEF Reserved
    <3>2. CASE op \notin {"write", "remove_file", "remove"}
      BY <3>2, Zenon DEF Reserved, Surplus
    <3> QED
      BY <3>1, <3>2, Zenon
  <2>3. w.refcnt = 1 + Cardinality(Holding) + Surplus /\ ~w.freed /\ ~bad
    BY <1>1, <2>2, Zenon DEF IInv, RefInv, CallerRef
  <2>4. w'.refcnt = 1 + Cardinality(Holding) + 0
    BY <1>3, <1>5, <1>6, <2>3, SMTT(30)
  <2>5. CallerRef' = 1 /\ Reserved' = 0
    BY <1>1, Zenon DEF CallerRef, Reserved
  <2> QED
    BY <1>1, <1>6, <1>7, <2>3, <2>4, <2>5, Zenon DEF RefInv
<1>10. PrivInv' /\ CondInv'
  BY <1>1, <1>6, <1>7, Zenon DEF IInv, PrivInv, CondInv
<1>11. WriteInv' /\ ReadInv' /\ RemoveInv'
  BY <1>1, <1>2, <1>6, Zenon DEF IInv, WriteInv, ReadInv, RemoveInv
<1> QED
  BY <1>7, <1>8, <1>9, <1>10, <1>11, Zenon DEF IInv

\* The caller is woken up, or tired of waiting.
LEMMA WaitStep ==
    ASSUME Constants, IInv, NEW err \in {0, ETIMEDOUT}, Wait(err)
    PROVE  IInv'
<1>1. /\ cpc = "wait" /\ (err = 0 => Woken) /\ werr' = err /\ bad' = (bad \/ w.freed) /\ cpc' = "result"
      /\ UNCHANGED <<op, targets, w, p, tr, reply, ret>>
  BY Zenon DEF Wait, UsesW
<1>2. ClientTypeOK /\ op # "none" /\ (op # "read" => Idle = {}) /\ ret \in Int
  BY <1>1, Zenon DEF IInv, PlaceInv
<1>3. /\ PlaceInv' /\ Holding' = Holding /\ Woke' = Woke
      /\ (Counted' <=> Counted) /\ (Sound' <=> Sound)
  BY <1>1, <1>2, CallerMoves, Zenon
<1>4. ClientTypeOK'
  BY <1>1, <1>2, Zenon DEF ClientTypeOK
<1>5. RefInv'
  BY <1>1, <1>3, CallerHolds, CallerRefs, Zenon
<1>6. PrivInv'
  BY <1>1, Zenon DEF IInv, PrivInv
<1>7. CondInv'
  <2> SUFFICES ASSUME Sound, op # "read", err = 0 PROVE Woke = targets
    BY <1>1, <1>3, Zenon DEF IInv, CondInv
  <2>1. w.cond = Cardinality(targets) /\ w.cond = Cardinality(Woke)
    BY <1>1, Zenon DEF Woken, Sound, IInv, CondInv
  <2>2. Woke \in SUBSET targets /\ targets \in SUBSET Groups
    BY <1>2, Zenon DEF Woke, ClientTypeOK
  <2>3. IsFiniteSet(targets)
    BY <2>2, SubsetCard, Zenon
  <2> QED
    BY <2>1, <2>2, <2>3, FS_Subset, Zenon
<1>8. WriteInv' /\ ReadInv' /\ RemoveInv'
  BY <1>1, <1>2, Zenon DEF IInv, WriteInv, ReadInv, RemoveInv
<1> QED
  BY <1>3, <1>4, <1>5, <1>6, <1>7, <1>8, Zenon DEF IInv

\* The caller reads the outcome.
LEMMA ResultStep ==
    ASSUME Constants, IInv, Result
    PROVE  IInv'
<1>1. /\ cpc = "result" /\ ret' = ResultOf /\ bad' = (bad \/ w.freed)
      /\ cpc' \in {"next", "look", "put"}
      /\ cpc' = "next" <=> op = "read" /\ ResultOf # 0
      /\ cpc' = "look" <=> op = "request_cmd"
      /\ UNCHANGED <<op, targets, w, p, tr, reply, werr>>
  BY Zenon DEF Result, UsesW
<1>2. /\ ClientTypeOK /\ w \in WaitRec /\ op # "none" /\ (op # "read" => Idle = {})
      /\ ret \in Int /\ werr \in {0, ETIMEDOUT}
  BY <1>1, Zenon DEF IInv, PlaceInv, ClientTypeOK, WaitRec
<1>3. w.status \in Int /\ w.cond \in Int /\ Cardinality(targets) \in Int /\ ETIMEDOUT \in Int /\ ETIMEDOUT # 0
  <2>1. Cardinality(targets) \in Nat
    BY <1>2, Sizes, Zenon
  <2> QED
    BY <1>2, <2>1, SMTT(30) DEF WaitRec, ETIMEDOUT
<1>4. /\ ResultOf \in Int
      /\ werr # 0 => ResultOf = werr
      /\ op = "write" /\ werr = 0 => ResultOf = w.status
      /\ op = "remove_file" /\ werr = 0 => ResultOf = IF w.status < 0 THEN w.status ELSE 0
      /\ op = "read" /\ werr = 0 => ResultOf = IF w.cond < 0 THEN w.cond ELSE 0
  <2>1. CASE werr # 0
    <3>1. ResultOf = werr
      BY <2>1, Zenon DEF ResultOf
    <3>2. ResultOf \in Int
      BY <1>2, <1>3, <2>1, <3>1, SMTT(30)
    <3> QED
      BY <2>1, <3>1, <3>2, Zenon
  <2>2. CASE werr = 0 /\ op = "write"
    <3>1. ResultOf = w.status
      BY <1>3, <2>2, SMTT(30) DEF ResultOf
    <3> QED
      BY <1>3, <2>2, <3>1, Zenon
  <2>3. CASE werr = 0 /\ op \in {"remove", "remove_file"}
    <3>1. ResultOf = IF w.status < 0 THEN w.status ELSE 0
      BY <1>3, <2>3, SMTT(30) DEF ResultOf
    <3>2. ResultOf \in Int
      BY <1>3, <3>1, SMTT(30)
    <3> QED
      BY <2>3, <3>1, <3>2, Zenon
  <2>4. CASE werr = 0 /\ op = "read"
    <3>1. ResultOf = IF w.cond < 0 THEN w.cond ELSE 0
      BY <1>3, <2>4, SMTT(30) DEF ResultOf
    <3>2. ResultOf \in Int
      BY <1>3, <3>1, SMTT(30)
    <3> QED
      BY <2>4, <3>1, <3>2, Zenon
  <2>5. CASE werr = 0 /\ op \notin {"write", "remove", "remove_file", "read"}
    <3>1. ResultOf \in {Cardinality(targets), 0}
      BY <2>5, Zenon DEF ResultOf
    <3>2. ResultOf \in Int
      BY <1>3, <3>1, SMTT(30)
    <3> QED
      BY <2>5, <3>2, Zenon
  <2> QED
    BY <2>1, <2>2, <2>3, <2>4, <2>5, Zenon
<1>5. /\ PlaceInv' /\ Holding' = Holding /\ Woke' = Woke
      /\ (Counted' <=> Counted) /\ (Sound' <=> Sound)
  BY <1>1, <1>2, <1>4, CallerMoves, Zenon
<1>6. ClientTypeOK'
  BY <1>1, <1>2, Zenon DEF ClientTypeOK
<1>7. RefInv'
  BY <1>1, <1>5, CallerHolds, CallerRefs, Zenon
<1>8. PrivInv' /\ CondInv'
  BY <1>1, <1>5, Zenon DEF IInv, PrivInv, CondInv
<1>9. WriteInv'
  BY <1>1, <1>4, Zenon DEF IInv, WriteInv
<1>10. RemoveInv'
  <2> SUFFICES ASSUME op = "remove_file" PROVE RemoveInv'
    BY <1>1, Zenon DEF RemoveInv
  <2>1. w.status \in {0, ENOENT, ETIMEDOUT}
    BY Zenon DEF IInv, RemoveInv
  <2>2. werr = 0 => (ret' = 0 <=> w.status = 0)
    BY <1>1, <1>4, <2>1, SMTT(30) DEF ENOENT, ETIMEDOUT
  <2> QED
    BY <1>1, <2>2, Zenon DEF IInv, RemoveInv
<1>11. ReadInv'
  <2> SUFFICES ASSUME op = "read" PROVE ReadInv'
    BY <1>1, Zenon DEF ReadInv
  <2>1. cpc' = "next" => ret' # 0
    BY <1>1, Zenon
  <2>2. ret' = 0 => w.cond >= 0
    BY <1>1, <1>2, <1>3, <1>4, SMTT(30)
  <2> QED
    BY <1>1, <2>1, <2>2, Zenon DEF IInv, ReadInv
<1> QED
  BY <1>5, <1>6, <1>7, <1>8, <1>9, <1>10, <1>11, Zenon DEF IInv

\* dnet_read_file_raw() tries the next group, or cannot.
LEMMA ReadNextStep ==
    ASSUME Constants, IInv, NEW g \in Groups, ReadNext(g)
    PROVE  IInv'
<1>1. /\ cpc = "next" /\ tr[g] = "idle" /\ bad' = (bad \/ w.freed)
      /\ UNCHANGED <<op, targets, p, reply, werr>>
  BY Zenon DEF ReadNext, UsesW
<1>2. \/ /\ tr' = [tr EXCEPT ![g] = "sent"] /\ cpc' = "wait" /\ ret' = ret
         /\ w' = [w EXCEPT !.refcnt = @ + 1, !.cond = WaitInit]
      \/ /\ tr' = [tr EXCEPT ![g] = "done"] /\ cpc' = "next" /\ ret' = ENXIO
         /\ w' = [w EXCEPT !.cond = 1]
  BY Zenon DEF ReadNext, WakeWith
<1>3. /\ ClientTypeOK /\ w \in WaitRec /\ op = "read" /\ targets = Groups /\ ret \in Int /\ ret # 0
      /\ werr \in {0, ETIMEDOUT} /\ Counted
  BY <1>1, Zenon DEF IInv, PlaceInv, ClientTypeOK, WaitRec, ReadInv, Counted, Sound
<1>4. PICK v \in {"sent", "done"} : tr' = [tr EXCEPT ![g] = v] /\ cpc' = IF v = "sent" THEN "wait" ELSE "next"
  BY <1>2, Zenon
<1>5. w.refcnt = 1 + Cardinality(Holding) + 0 /\ ~w.freed /\ ~bad
  BY <1>1, <1>3, CallerHolds, Zenon
<1>6. ENXIO \in Int /\ ENXIO # 0 /\ WaitInit \in Int /\ WaitInit < 0 /\ "sent" # "done" /\ "wait" # "next"
  BY SMTT(30) DEF ENXIO, WaitInit
<1>7. /\ v = "sent" => tr' = [tr EXCEPT ![g] = "sent"] /\ cpc' = "wait" /\ ret' = ret
                       /\ w' = [w EXCEPT !.refcnt = @ + 1, !.cond = WaitInit]
      /\ v = "done" => cpc' = "next" /\ ret' = ENXIO /\ w' = [w EXCEPT !.cond = 1]
  BY <1>2, <1>4, <1>6, Zenon
<1>8. ret' \in Int /\ ret' # 0 /\ cpc' \in {"wait", "next"}
  BY <1>3, <1>6, <1>7, Zenon
<1>9. /\ w' \in WaitRec /\ w'.freed = w.freed /\ w'.status = w.status
      /\ v = "sent" => w'.refcnt = w.refcnt + 1 /\ w'.cond = WaitInit
      /\ v = "done" => w'.refcnt = w.refcnt
  <2>1. CASE v = "sent"
    <3>1. PICK x : x = [w EXCEPT !.refcnt = w.refcnt + 1]
      BY Zenon
    <3>2. /\ x \in WaitRec /\ x.refcnt = w.refcnt + 1 /\ x.freed = w.freed /\ x.status = w.status
      BY <1>3, <3>1, SMTT(30) DEF WaitRec
    <3>3. w' = [x EXCEPT !.cond = WaitInit]
      BY <1>3, <1>6, <1>7, <2>1, <3>1, SMTT(30) DEF WaitRec
    <3>4. w' \in WaitRec /\ w'.refcnt = x.refcnt /\ w'.freed = x.freed /\ w'.status = x.status /\ w'.cond = WaitInit
      BY <1>6, <3>2, <3>3, SMTT(30) DEF WaitRec
    <3> QED
      BY <1>6, <2>1, <3>2, <3>4, Zenon
  <2>2. CASE v = "done"
    BY <1>3, <1>6, <1>7, <2>2, SMTT(30) DEF WaitRec
  <2> QED
    BY <2>1, <2>2, Zenon
<1>10. /\ tr'[g] = v /\ (\A h \in Groups : h # g => tr'[h] = tr[h])
       /\ v = "sent" => Holding' = Holding \cup {g}
       /\ v = "done" => Holding' = Holding \ {g}
  BY <1>1, <1>3, <1>4, Moves, Zenon
<1>11. Holding \in SUBSET Groups /\ g \notin Holding /\ Cardinality(Holding) \in Nat
  <2>1. g \notin Holding
    BY <1>1, Zenon DEF Holding
  <2> QED
    BY <1>3, <2>1, Sizes, Zenon
<1>12. ClientTypeOK'
  <2>1. tr' \in [Groups -> {"idle", "sent", "answered", "waking", "putting", "priv", "done"}]
    BY <1>3, <1>4, SMTT(30) DEF ClientTypeOK
  <2> QED
    BY <1>1, <1>3, <1>8, <1>9, <2>1, Zenon DEF ClientTypeOK, WaitRec
<1>13. PlaceInv'
  <2>1. ASSUME NEW h \in Groups
        PROVE  /\ h \notin targets' => tr'[h] = "idle"
               /\ tr'[h] = "putting" => op' = "request_cmd"
               /\ tr'[h] = "priv" => op' = "update_status"
               /\ tr'[h] \in {"idle", "sent"} => reply'[h] = NoReply
               /\ tr'[h] = "answered" => reply'[h] \in Status
    BY <1>1, <1>3, <1>10, Zenon DEF IInv, PlaceInv
  <2> QED
    BY <1>1, <1>3, <1>8, <2>1, Zenon DEF PlaceInv
<1>14. RefInv'
  <2>1. CallerRef' = 1 /\ Reserved' = 0
    BY <1>8, Zenon DEF CallerRef, Reserved
  <2>2. w'.refcnt = 1 + Cardinality(Holding') + 0
    <3>1. CASE v = "sent"
      <4>1. Holding' = Holding \cup {g}
        BY <1>10, <3>1, Zenon
      <4>2. Cardinality(Holding') = Cardinality(Holding) + 1
        BY <1>11, <4>1, CardMove, Zenon
      <4> QED
        BY <1>3, <1>5, <1>9, <1>11, <3>1, <4>2, SMTT(30)
    <3>2. CASE v = "done"
      <4>1. Holding' = Holding
        BY <1>10, <1>11, <3>2, Zenon
      <4> QED
        BY <1>5, <1>9, <3>2, <4>1, Zenon
    <3> QED
      BY <3>1, <3>2, Zenon
  <2>3. ~w'.freed /\ ~bad' /\ cpc' # "returned"
    BY <1>1, <1>5, <1>8, <1>9, Zenon
  <2>4. w'.refcnt = CallerRef' + Cardinality(Holding') + Reserved'
    BY <2>1, <2>2, Zenon
  <2> QED
    BY <2>3, <2>4, Zenon DEF RefInv
<1>15. PrivInv' /\ CondInv' /\ WriteInv' /\ RemoveInv'
  BY <1>1, <1>3, Zenon DEF PrivInv, CondInv, WriteInv, RemoveInv
<1>16. ReadInv'
  <2>1. cpc' = "wait" => ~(w'.cond >= 0)
    BY <1>6, <1>7, <1>9, SMTT(30)
  <2> QED
    BY <1>8, <2>1, Zenon DEF ReadInv
<1> QED
  BY <1>12, <1>13, <1>14, <1>15, <1>16, Zenon DEF IInv

\* No group is left to read from.
LEMMA ReadGivesUpStep ==
    ASSUME Constants, IInv, ReadGivesUp
    PROVE  IInv'
<1>1. cpc = "next" /\ cpc' = "put" /\ UNCHANGED <<op, targets, w, p, tr, reply, werr, ret, bad>>
  BY Zenon DEF ReadGivesUp
<1>2. ClientTypeOK /\ op = "read" /\ ret \in Int /\ ret # 0 /\ werr \in {0, ETIMEDOUT}
  BY <1>1, Zenon DEF IInv, PlaceInv, ReadInv
<1>3. PlaceInv' /\ Holding' = Holding
  BY <1>1, <1>2, CallerMoves, Zenon
<1>4. ClientTypeOK'
  BY <1>1, <1>2, Zenon DEF ClientTypeOK
<1>5. RefInv'
  BY <1>1, <1>3, CallerHolds, CallerRefs, Zenon
<1>6. PrivInv' /\ CondInv' /\ WriteInv' /\ RemoveInv' /\ ReadInv'
  BY <1>1, <1>2, Zenon DEF PrivInv, CondInv, WriteInv, RemoveInv, ReadInv
<1> QED
  BY <1>3, <1>4, <1>5, <1>6, Zenon DEF IInv

\* dnet_request_cmd() looks at the counter before its own put.
LEMMA CallerLookStep ==
    ASSUME Constants, IInv, CallerLook
    PROVE  IInv'
<1>1. /\ cpc = "look" /\ cpc' = "put" /\ p' = [p EXCEPT !.freed = p.freed \/ w.refcnt = 1]
      /\ bad' = (bad \/ w.freed \/ (p.freed /\ w.refcnt = 1))
      /\ UNCHANGED <<op, targets, w, tr, reply, werr, ret>>
  BY Zenon DEF CallerLook, FreesPriv
<1>2. /\ ClientTypeOK /\ p \in PrivRec /\ op = "request_cmd" /\ Idle = {} /\ ret \in Int
      /\ werr \in {0, ETIMEDOUT} /\ ~p.freed /\ Counted
  BY <1>1, Zenon DEF IInv, PlaceInv, PrivInv, ClientTypeOK, PrivRec, Counted, Sound
<1>3. p' \in PrivRec /\ p'.freed = (p.freed \/ w.refcnt = 1)
  BY <1>1, <1>2, PrivFields, Zenon
<1>4. PlaceInv' /\ Holding' = Holding /\ Woke' = Woke /\ (Sound' <=> Sound)
  BY <1>1, <1>2, CallerMoves, Zenon
<1>5. w.refcnt = 1 + Cardinality(Holding) + 0 /\ ~w.freed /\ ~bad
  BY <1>1, <1>2, CallerHolds, Zenon
<1>6. ClientTypeOK'
  BY <1>1, <1>2, <1>3, Zenon DEF ClientTypeOK, PrivRec
<1>7. RefInv'
  BY <1>1, <1>2, <1>4, <1>5, CallerRefs, Zenon
<1>8. PrivInv'
  <2> SUFFICES ASSUME w.refcnt = 1
               PROVE  \A g \in targets : tr[g] = "done"
    BY <1>1, <1>2, <1>3, Zenon DEF PrivInv
  <2>1. Cardinality(Holding) \in Nat /\ Holding \in SUBSET Groups
    BY <1>2, Sizes, Zenon
  <2>2. Cardinality(Holding) = 0
    BY <1>5, <2>1, SMTT(30)
  <2>3. Holding = {}
    BY <2>1, <2>2, CardSmall, Zenon
  <2> QED
    BY <1>2, <2>3, NoneHolding, Zenon
<1>9. CondInv' /\ WriteInv' /\ RemoveInv' /\ ReadInv'
  BY <1>1, <1>2, <1>4, Zenon DEF IInv, CondInv, WriteInv, RemoveInv, ReadInv
<1> QED
  BY <1>4, <1>6, <1>7, <1>8, <1>9, Zenon DEF IInv

\* The caller puts its reference.
LEMMA CallerPutStep ==
    ASSUME Constants, IInv, CallerPut
    PROVE  IInv'
<1>1. /\ cpc = "put" /\ w' = dnet_wait_put(w) /\ p' = PrivOf(w') /\ bad' = (bad \/ w.freed)
      /\ cpc' = IF op = "update_status" THEN "priv" ELSE "returned"
      /\ UNCHANGED <<op, targets, tr, reply, werr, ret>>
  BY Zenon DEF CallerPut, UsesW
<1>2. /\ ClientTypeOK /\ w \in WaitRec /\ p \in PrivRec /\ (op # "read" => Idle = {}) /\ ret \in Int
      /\ werr \in {0, ETIMEDOUT}
  BY <1>1, Zenon DEF IInv, PlaceInv, ClientTypeOK, WaitRec, PrivRec
<1>3. /\ w' \in WaitRec /\ w'.refcnt = w.refcnt - 1 /\ (w'.freed <=> w.freed \/ w.refcnt = 1)
      /\ w'.cond = w.cond /\ w'.status = w.status
  BY <1>1, <1>2, PutFields, Zenon
<1>4. p' \in PrivRec /\ (op = "write" => p'.freed = w'.freed) /\ (op # "write" => p' = p)
  <2>1. w'.freed \in BOOLEAN
    BY <1>3, SMTT(30) DEF WaitRec
  <2> QED
    BY <1>1, <1>2, <2>1, PrivFields, Zenon DEF PrivOf
<1>5. /\ PlaceInv' /\ Holding' = Holding /\ Woke' = Woke
      /\ (Counted' <=> Counted) /\ (Sound' <=> Sound)
  BY <1>1, <1>2, CallerMoves, Zenon
<1>6. ClientTypeOK'
  BY <1>1, <1>2, <1>3, <1>4, Zenon DEF ClientTypeOK, WaitRec, PrivRec
<1>7. RefInv'
  <2> SUFFICES ASSUME Counted PROVE RefInv'
    BY <1>5, Zenon DEF RefInv
  <2>1. w.refcnt = 1 + Cardinality(Holding) + 0 /\ ~w.freed /\ ~bad
    BY <1>1, CallerHolds, Zenon
  <2>2. cpc' = "returned" /\ CallerRef' = 0 /\ Reserved' = 0
    BY <1>1, Zenon DEF CallerRef, Reserved, Counted, Sound
  <2>3. Holding \in SUBSET Groups /\ Cardinality(Holding) \in Nat
    BY <1>2, Sizes, Zenon
  <2>4. w'.refcnt = 0 + Cardinality(Holding) + 0 /\ (w.refcnt = 1 <=> Cardinality(Holding) = 0)
    BY <1>3, <2>1, <2>3, SMTT(30)
  <2>5. w'.refcnt = CallerRef' + Cardinality(Holding') + Reserved'
    BY <1>5, <2>2, <2>4, Zenon
  <2>6. w'.freed <=> cpc' = "returned" /\ Holding' = {}
    BY <1>3, <1>5, <2>1, <2>2, <2>3, <2>4, CardSmall, Zenon
  <2> QED
    BY <1>1, <2>1, <2>5, <2>6, Zenon DEF RefInv
<1>8. PrivInv'
  BY <1>1, <1>4, Zenon DEF IInv, PrivInv
<1>9. CondInv'
  BY <1>1, <1>3, <1>5, Zenon DEF IInv, CondInv
<1>10. WriteInv' /\ ReadInv' /\ RemoveInv'
  BY <1>1, <1>3, Zenon DEF IInv, WriteInv, ReadInv, RemoveInv
<1> QED
  BY <1>5, <1>6, <1>7, <1>8, <1>9, <1>10, Zenon DEF IInv

\* dnet_update_status() drops its private data.
LEMMA CallerPrivStep ==
    ASSUME Constants, IInv, CallerPriv
    PROVE  IInv'
<1>1. /\ cpc = "priv" /\ cpc' = "returned"
      /\ p' = [refcnt |-> p.refcnt - 1, freed |-> p.freed \/ p.refcnt = 1]
      /\ UNCHANGED <<op, targets, w, tr, reply, werr, ret>>
  BY Zenon DEF CallerPriv
<1>2. ClientTypeOK /\ op = "update_status" /\ Idle = {} /\ ret \in Int /\ werr \in {0, ETIMEDOUT}
  BY <1>1, Zenon DEF IInv, PlaceInv
<1>3. p' \in PrivRec
  BY <1>1, <1>2, SMTT(30) DEF ClientTypeOK, PrivRec
<1>4. ClientTypeOK'
  BY <1>1, <1>2, <1>3, Zenon DEF ClientTypeOK, PrivRec
<1>5. PlaceInv'
  BY <1>1, <1>2, CallerMoves, Zenon
<1>6. ~Counted' /\ ~Sound'
  BY <1>1, <1>2, Zenon DEF Counted, Sound
<1>7. RefInv' /\ PrivInv' /\ CondInv' /\ WriteInv' /\ ReadInv' /\ RemoveInv'
  BY <1>1, <1>2, <1>6, Zenon DEF RefInv, PrivInv, CondInv, WriteInv, ReadInv, RemoveInv
<1> QED
  BY <1>4, <1>5, <1>7, Zenon DEF IInv

\* Every step of the caller keeps the invariant.
LEMMA CallerStep ==
    ASSUME Constants, IInv, Caller \/ Wait(ETIMEDOUT)
    PROVE  IInv'
BY SentStep, WaitStep, ResultStep, ReadGivesUpStep, CallerLookStep, CallerPutStep, CallerPrivStep,
   SendStep, SendFailsStep, ReadNextStep, Zenon DEF Caller

-----------------------------------------------------------------------------
(* Between two calls. *)

\* No call runs.
Rest ==
    /\ op = "none" /\ cpc = "idle" /\ targets = {} /\ w = dnet_wait_alloc(0, 0, 0) /\ p = NoPriv
    /\ tr = [g \in Groups |-> "idle"] /\ reply = [g \in Groups |-> NoReply]
    /\ werr = 0 /\ ret = 0 /\ ~bad

\* Then the invariant holds.
LEMMA RestInv == Constants /\ Rest => IInv
<1> SUFFICES ASSUME Constants, Rest PROVE IInv
  BY Zenon
<1>1. w \in WaitRec /\ ~w.freed /\ w.refcnt = 0 /\ w.cond = 0 /\ w.status = 0
  BY SMTT(30) DEF Rest, dnet_wait_alloc, WaitRec
<1>2. p \in PrivRec /\ ~p.freed
  BY SMTT(30) DEF Rest, NoPriv, PrivRec
<1>3. /\ tr \in [Groups -> {"idle", "sent", "answered", "waking", "putting", "priv", "done"}]
      /\ reply \in [Groups -> Status \cup {NoReply}]
      /\ \A g \in Groups : tr[g] = "idle" /\ reply[g] = NoReply
  BY SMTT(30) DEF Rest
<1>4. Holding = {} /\ Woke = {} /\ Idle = {}
  BY Zenon DEF Rest, Holding, Woke, Idle
<1>5. Cardinality(Holding) = 0 /\ Cardinality(Woke) = 0
  BY <1>4, FS_EmptySet, Zenon
<1>6. ClientTypeOK
  BY <1>1, <1>2, <1>3, Zenon DEF Rest, ClientTypeOK, WaitRec, PrivRec
<1>7. PlaceInv
  <2>1. 0 \in Int
    BY SMTT(30)
  <2> QED
    BY <1>3, <2>1, Zenon DEF Rest, PlaceInv
<1>8. RefInv
  <2>1. CallerRef = 0 /\ Reserved = 0
    BY Zenon DEF Rest, CallerRef, Reserved
  <2>2. w.refcnt = CallerRef + Cardinality(Holding) + Reserved
    BY <1>1, <1>5, <2>1, SMTT(30)
  <2> QED
    BY <1>1, <2>2, Zenon DEF Rest, RefInv
<1>9. PrivInv /\ CondInv /\ WriteInv /\ ReadInv /\ RemoveInv
  BY <1>1, <1>5, Zenon DEF Rest, PrivInv, CondInv, WriteInv, ReadInv, RemoveInv
<1> QED
  BY <1>6, <1>7, <1>8, <1>9, Zenon DEF IInv

\* A step that changes nothing.
LEMMA SameInv ==
    ASSUME IInv, UNCHANGED clientVars
    PROVE  IInv'
<1>1. UNCHANGED <<op, cpc, targets, w, p, tr, reply, werr, ret, bad>>
  BY Zenon DEF clientVars
<1>2. ClientTypeOK' /\ PrivInv'
  BY <1>1, Zenon DEF IInv, ClientTypeOK, PrivInv
<1>6. WriteInv' /\ ReadInv' /\ RemoveInv'
  BY <1>1, OutcomesKept, Zenon
<1>3. Idle' = Idle /\ Holding' = Holding /\ Woke' = Woke
  BY <1>1, Zenon DEF Idle, Holding, Woke
<1>4. PlaceInv' /\ CondInv'
  BY <1>1, <1>3, Zenon DEF IInv, PlaceInv, CondInv, Sound
<1>5. RefInv'
  BY <1>1, <1>3, RefsKept, Zenon DEF IInv, RefInv
<1> QED
  BY <1>2, <1>4, <1>5, <1>6, Zenon DEF IInv

-----------------------------------------------------------------------------
(* What the invariant says. *)

\* Every property of the waits follows.
LEMMA IInvWaits ==
    ASSUME Constants, IInv
    PROVE  WaitsReleased
<1>1. ClientTypeOK /\ NoUseAfterFree /\ PrivOutlivesCallbacks
  BY Zenon DEF IInv, RefInv, PrivInv, NoUseAfterFree, PrivOutlivesCallbacks, Counted
<1>2. WaitReleased
  <2> SUFFICES ASSUME Sound, cpc = "returned" PROVE Holding = {} <=> Settled
    BY Zenon DEF IInv, RefInv, WaitReleased, Counted
  <2>1. ASSUME Settled PROVE Holding = {}
    BY <1>1, <2>1, Zenon DEF Settled, Holding, ClientTypeOK
  <2>2. ASSUME Holding = {}, NEW g \in Groups PROVE tr[g] \in {"idle", "done"}
    <3>1. tr[g] \in {"idle", "sent", "answered", "waking", "putting", "priv", "done"}
      BY <1>1, Zenon DEF ClientTypeOK
    <3>2. tr[g] # "priv"
      BY Zenon DEF IInv, PlaceInv, Sound
    <3>3. tr[g] \notin {"sent", "answered", "waking", "putting"}
      BY <2>2, CallbackTarget, Zenon DEF Holding
    <3> QED
      BY <3>1, <3>2, <3>3, Zenon
  <2> QED
    BY <2>1, <2>2, Zenon DEF Settled
<1>3. ReturnsAfterAll
  BY Zenon DEF IInv, CondInv, Woke, ReturnsAfterAll
<1>4. WriteOutcome /\ ReadOutcome /\ RemoveOutcome
  BY Zenon DEF IInv, WriteInv, ReadInv, RemoveInv, WriteOutcome, ReadOutcome, RemoveOutcome
<1> QED
  BY <1>1, <1>2, <1>3, <1>4, Zenon DEF WaitsReleased

\* For any groups, and however the callbacks, the caller and its timeouts interleave
\* over any number of calls: the wait structure and the private data are freed once
\* and never used after that, a call that was not cut short returns after its last
\* callback, and it returns what its groups answered.
THEOREM WaitsAreReleased == ClientSpec => []WaitsReleased
<1>0. Constants
  BY GroupsAssumption, GarbageAssumption, HeldAssumption, Zenon DEF Constants
<1>1. ClientInit => IInv
  <2>1. ClientInit => Rest
    BY Zenon DEF ClientInit, Rest
  <2> QED
    BY <1>0, <2>1, RestInv, Zenon
<1>2. IInv /\ [ClientNext]_clientVars => IInv'
  <2> SUFFICES ASSUME IInv, [ClientNext]_clientVars PROVE IInv'
    BY Zenon
  <2>1. CASE Calls
    BY <1>0, <2>1, CallsStep, Zenon
  <2>2. CASE Caller \/ Wait(ETIMEDOUT)
    BY <1>0, <2>2, CallerStep, Zenon
  <2>3. CASE Again
    <3>1. Rest'
      BY <2>3, Zenon DEF Again, Rest
    <3>2. Constants' /\ Rest' => IInv'
      BY RestInv, PTL
    <3> QED
      BY <1>0, <3>1, <3>2, Zenon DEF Constants
  <2>4. CASE \E g \in Groups : Callback(g)
    BY <1>0, <2>4, CallbackStep, Zenon
  <2>5. CASE Undefined \/ UNCHANGED clientVars
    BY <1>0, <2>5, SameInv, Zenon DEF Undefined
  <2> QED
    BY <2>1, <2>2, <2>3, <2>4, <2>5, Zenon DEF ClientNext
<1>3. IInv => WaitsReleased
  BY <1>0, IInvWaits, Zenon
<1> QED
  BY <1>1, <1>2, <1>3, PTL DEF ClientSpec

=============================================================================
