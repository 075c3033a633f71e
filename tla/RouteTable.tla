----------------------------- MODULE RouteTable -----------------------------
(***************************************************************************)
(* The route table of a node and the life of the connections in it         *)
(* (library/node.c: groups, dnet_idc_create, dnet_idc_destroy_nolock and   *)
(* the searches; library/net.c: dnet_state_create, dnet_state_reset and    *)
(* dnet_state_destroy; library/dnet.c: dnet_cmd_join_client).              *)
(*                                                                         *)
(* A group has a sorted array of ids, each with the state that serves the  *)
(* keys from that id up to the next one.  The table holds no references of *)
(* its states: a state stays alive as long as its network thread has not   *)
(* put its own reference, which it does after taking the state out of the  *)
(* table.  Everything under n->state_lock is one action.                   *)
(***************************************************************************)
EXTENDS Integers, Sequences, FiniteSets

CONSTANTS
    States,       \* connections
    Outgoing,     \* the ones this node makes; the others are accepted, then join
    Groups,
    NoGroup,
    MaxId,        \* ids and keys are 0..MaxId
    Users,        \* threads that look up the state for a key
    NoState,
    GroupOf,      \* state -> the group its peer belongs to
    IdsOf,        \* state -> the ids its peer announces
    AddrOf        \* state -> the address of its peer

Ids == 0..MaxId

ASSUME RouteAssumption ==
    /\ IsFiniteSet(States) /\ IsFiniteSet(Users)
    /\ Outgoing \subseteq States
    /\ NoGroup \notin Groups /\ NoState \notin States
    /\ MaxId \in Nat
    /\ GroupOf \in [States -> Groups]
    /\ IdsOf \in [States -> (SUBSET Ids) \ {{}}]
    /\ DOMAIN AddrOf = States

VARIABLES
    ids,        \* group -> g->ids
    gref,       \* group -> g->refcnt, 0 when there is no such group
    listed,     \* state -> the group whose state_list it is on, or NoGroup
    idc,        \* state -> group of st->idc, or NoGroup
    refcnt,     \* state -> st->refcnt
    need_exit,  \* states that were reset
    cpc,        \* state -> where the thread that creates it is
    jpc,        \* state -> where the IO thread with its join request is
    npc,        \* state -> where its network thread is
    dying,      \* states whose last reference was put, not yet destroyed
    freed,      \* states that were freed
    user,       \* user -> the state it looked up, or NoState
    zombies     \* states that were put into the table after they were reset

tableVars == <<ids, gref, listed, idc>>
vars == <<tableVars, refcnt, need_exit, cpc, jpc, npc, dying, freed, user, zombies>>

Entry == [id : Ids, st : States]

TypeOK ==
    /\ ids \in [Groups -> Seq(Entry)]
    /\ gref \in [Groups -> Nat]
    /\ listed \in [States -> Groups \cup {NoGroup}]
    /\ idc \in [States -> Groups \cup {NoGroup}]
    /\ refcnt \in [States -> Nat]
    /\ need_exit \subseteq States
    /\ cpc \in [States -> {"new", "checked", "put", "done"}]
    /\ jpc \in [States -> {"idle", "join", "create", "put", "done"}]
    /\ npc \in [States -> {"none", "up", "put", "gone"}]
    /\ dying \subseteq States /\ freed \subseteq States
    /\ user \in [Users -> States \cup {NoState}]
    /\ zombies \subseteq States

Init ==
    /\ ids = [g \in Groups |-> <<>>] /\ gref = [g \in Groups |-> 0]
    /\ listed = [s \in States |-> NoGroup] /\ idc = [s \in States |-> NoGroup]
    /\ refcnt = [s \in States |-> 0]
    /\ need_exit = {}
    /\ cpc = [s \in States |-> "new"] /\ jpc = [s \in States |-> "idle"]
    /\ npc = [s \in States |-> "none"]
    /\ dying = {} /\ freed = {}
    /\ user = [u \in Users |-> NoState]
    /\ zombies = {}

-----------------------------------------------------------------------------
(* The table. *)

Entries(g) == {ids[g][i] : i \in DOMAIN ids[g]}
Known(g) == {e.id : e \in Entries(g)}

\* The new ids of a state.
Added(s, new) == [id : new, st : {s}]

\* Faulty form: the array is sorted the wrong way round.
SortIdsDown(S) ==
    [i \in 1..Cardinality(S) |-> CHOOSE e \in S : Cardinality({x \in S : x.id >= e.id}) = i]

\* qsort with dnet_idc_compare, of entries with different ids: the i-th entry is
\* the one with i ids up to its own.
SortIds(S) ==
    [i \in 1..Cardinality(S) |-> CHOOSE e \in S : Cardinality({x \in S : x.id <= e.id}) = i]

\* The ids bsearch does not find.
Fresh(s) == IdsOf[s] \ Known(GroupOf[s])

\* Faulty form: a state without a single new id is listed all the same.
IdcCreatesAlways(s) == TRUE

\* dnet_idc_create succeeds when one id is new; otherwise -EEXIST, and the group
\* is as it was (a group that was just made has no ids, so any is new).
IdcCreates(s) == Fresh(s) # {}

IdcCreate(s) ==
    LET g == GroupOf[s] IN
    /\ ids' = [ids EXCEPT ![g] = SortIds(Entries(g) \cup Added(s, Fresh(s)))]
    /\ gref' = [gref EXCEPT ![g] = @ + 1]
    /\ listed' = [listed EXCEPT ![s] = g]
    /\ idc' = [idc EXCEPT ![s] = g]

\* Faulty form: the ids of the state stay.
IdsWithoutNone(s, g) == ids[g]

\* Faulty form: whatever the state announced goes, whoever owns it.
IdsWithoutKnown(s, g) == SortIds({e \in Entries(g) : e.id \notin IdsOf[s]})

\* dnet_idc_remove_ids.
IdsWithout(s, g) == SortIds({e \in Entries(g) : e.st # s})

\* Faulty form: the reference of the group is not put.
RemoveStateKeepsGroup(s) ==
    /\ listed' = [listed EXCEPT ![s] = NoGroup]
    /\ idc' = [idc EXCEPT ![s] = NoGroup]
    /\ ids' = [g \in Groups |-> IF g = idc[s] THEN IdsWithout(s, g) ELSE ids[g]]
    /\ UNCHANGED gref

\* dnet_state_remove_nolock; the array goes with the last reference of a group.
RemoveState(s) ==
    /\ listed' = [listed EXCEPT ![s] = NoGroup]
    /\ idc' = [idc EXCEPT ![s] = NoGroup]
    /\ gref' = [g \in Groups |-> IF g = idc[s] THEN gref[g] - 1 ELSE gref[g]]
    /\ ids' = [g \in Groups |-> IF g # idc[s] THEN ids[g]
                                ELSE IF gref[g] = 1 THEN <<>> ELSE IdsWithout(s, g)]

\* The loop of __dnet_idc_search, positions counted from 0.
SearchLoop(a, key) ==
    LET f[r \in [low : -1..Len(a), high : 0..Len(a)]] ==
          IF r.high - r.low <= 1 THEN r.high - 1
          ELSE LET i == r.low + (r.high - r.low) \div 2 IN
               IF a[i + 1].id < key THEN f[[low |-> i, high |-> r.high]]
               ELSE IF a[i + 1].id > key THEN f[[low |-> r.low, high |-> i]] ELSE i
    IN f

\* __dnet_idc_search.
Search(a, key) ==
    LET i == SearchLoop(a, key)[[low |-> -1, high |-> Len(a)]]
    IN IF i = -1 THEN Len(a) - 1 ELSE i

-----------------------------------------------------------------------------
(* The life of a state. *)

\* dnet_state_put; whoever puts the last reference goes on to destroy the state.
Put(s) ==
    /\ refcnt' = [refcnt EXCEPT ![s] = @ - 1]
    /\ dying' = IF refcnt[s] = 1 THEN dying \cup {s} ELSE dying

\* dnet_state_destroy: out of the table under state_lock, then freed.
Destroy(s) ==
    /\ s \in dying
    /\ RemoveState(s)
    /\ dying' = dying \ {s}
    /\ freed' = freed \cup {s}
    /\ UNCHANGED <<refcnt, need_exit, cpc, jpc, npc, user, zombies>>

\* dnet_state_create for a peer with known ids: first dnet_state_search_by_addr.
CreateSearch(s) ==
    /\ s \in Outgoing /\ cpc[s] = "new"
    /\ cpc' = [cpc EXCEPT ![s] =
                 IF \E r \in States : listed[r] # NoGroup /\ AddrOf[r] = AddrOf[s]
                 THEN "done" ELSE "checked"]
    /\ UNCHANGED <<tableVars, refcnt, need_exit, jpc, npc, dying, freed, user, zombies>>

\* Then dnet_idc_create, with a reference of its own besides the one that is
\* the network thread's from the moment the socket is polled.
CreateInTable(s) ==
    /\ cpc[s] = "checked" /\ IdcCreates(s)
    /\ IdcCreate(s)
    /\ refcnt' = [refcnt EXCEPT ![s] = 2]
    /\ npc' = [npc EXCEPT ![s] = "up"]
    /\ cpc' = [cpc EXCEPT ![s] = "put"]
    /\ UNCHANGED <<need_exit, jpc, dying, freed, user, zombies>>

\* -EEXIST, or epoll refuses the socket and everything is undone: nobody has
\* seen the state, it is freed.
CreateFails(s) ==
    /\ cpc[s] = "checked"
    /\ cpc' = [cpc EXCEPT ![s] = "done"]
    /\ freed' = freed \cup {s}
    /\ UNCHANGED <<tableVars, refcnt, need_exit, jpc, npc, dying, user, zombies>>

\* dnet_state_accept_process: a state without ids, on empty_state_list.
Accept(s) ==
    /\ s \notin Outgoing /\ cpc[s] = "new"
    /\ refcnt' = [refcnt EXCEPT ![s] = 2]
    /\ npc' = [npc EXCEPT ![s] = "up"]
    /\ cpc' = [cpc EXCEPT ![s] = "put"]
    /\ UNCHANGED <<tableVars, need_exit, jpc, dying, freed, user, zombies>>

\* The last lines of dnet_state_create.
CreatePut(s) ==
    /\ cpc[s] = "put"
    /\ Put(s)
    /\ cpc' = [cpc EXCEPT ![s] = "done"]
    /\ UNCHANGED <<tableVars, need_exit, jpc, npc, freed, user, zombies>>

\* A peer joins once: the network thread reads the request, which refers to
\* the state, and gives it to an IO thread.
JoinReceived(s) ==
    /\ s \notin Outgoing /\ npc[s] = "up" /\ jpc[s] = "idle"
    /\ refcnt' = [refcnt EXCEPT ![s] = @ + 1]
    /\ jpc' = [jpc EXCEPT ![s] = "join"]
    /\ UNCHANGED <<tableVars, need_exit, cpc, npc, dying, freed, user, zombies>>

\* dnet_cmd_join_client takes the state off its lists, without state_lock, or
\* refuses the request before that.
JoinUnlink(s) ==
    /\ jpc[s] = "join"
    /\ listed' = [listed EXCEPT ![s] = NoGroup]
    /\ jpc' = [jpc EXCEPT ![s] = "create"]
    /\ UNCHANGED <<ids, gref, idc, refcnt, need_exit, cpc, npc, dying, freed, user, zombies>>

JoinRefused(s) ==
    /\ jpc[s] = "join"
    /\ jpc' = [jpc EXCEPT ![s] = "put"]
    /\ UNCHANGED <<tableVars, refcnt, need_exit, cpc, npc, dying, freed, user, zombies>>

\* Then dnet_idc_create, whether or not the state has been reset meanwhile.
JoinInTable(s) ==
    /\ jpc[s] = "create" /\ IdcCreates(s)
    /\ IdcCreate(s)
    /\ zombies' = IF s \in need_exit THEN zombies \cup {s} ELSE zombies
    /\ jpc' = [jpc EXCEPT ![s] = "put"]
    /\ UNCHANGED <<refcnt, need_exit, cpc, npc, dying, freed, user>>

JoinExists(s) ==
    /\ jpc[s] = "create" /\ ~IdcCreates(s)
    /\ jpc' = [jpc EXCEPT ![s] = "put"]
    /\ UNCHANGED <<tableVars, refcnt, need_exit, cpc, npc, dying, freed, user, zombies>>

\* The IO thread has done the request.
JoinPut(s) ==
    /\ jpc[s] = "put"
    /\ Put(s)
    /\ jpc' = [jpc EXCEPT ![s] = "done"]
    /\ UNCHANGED <<tableVars, need_exit, cpc, npc, freed, user, zombies>>

\* dnet_state_reset by a thread other than the network thread.
Reset(s) ==
    /\ npc[s] = "up" /\ s \notin need_exit
    /\ RemoveState(s)
    /\ need_exit' = need_exit \cup {s}
    /\ UNCHANGED <<refcnt, cpc, jpc, npc, dying, freed, user, zombies>>

\* The network thread finds the connection broken, or shut down by a reset.
NetworkReset(s) ==
    /\ npc[s] = "up"
    /\ RemoveState(s)
    /\ need_exit' = need_exit \cup {s}
    /\ npc' = [npc EXCEPT ![s] = "put"]
    /\ UNCHANGED <<refcnt, cpc, jpc, dying, freed, user, zombies>>

NetworkPut(s) ==
    /\ npc[s] = "put"
    /\ Put(s)
    /\ npc' = [npc EXCEPT ![s] = "gone"]
    /\ UNCHANGED <<tableVars, need_exit, cpc, jpc, freed, user, zombies>>

\* Faulty form: the state is returned without a reference.
LookupNoGet(u, g, key) ==
    /\ user[u] = NoState /\ gref[g] > 0
    /\ user' = [user EXCEPT ![u] = ids[g][Search(ids[g], key) + 1].st]
    /\ UNCHANGED <<tableVars, refcnt, need_exit, cpc, jpc, npc, dying, freed, zombies>>

\* dnet_state_get_first.
Lookup(u, g, key) ==
    /\ user[u] = NoState /\ gref[g] > 0
    /\ LET s == ids[g][Search(ids[g], key) + 1].st IN
        /\ user' = [user EXCEPT ![u] = s]
        /\ refcnt' = [refcnt EXCEPT ![s] = @ + 1]
    /\ UNCHANGED <<tableVars, need_exit, cpc, jpc, npc, dying, freed, zombies>>

Release(u) ==
    /\ user[u] # NoState
    /\ Put(user[u])
    /\ user' = [user EXCEPT ![u] = NoState]
    /\ UNCHANGED <<tableVars, need_exit, cpc, jpc, npc, freed, zombies>>

Next ==
    \/ \E s \in States :
        \/ CreateSearch(s) \/ CreateInTable(s) \/ CreateFails(s) \/ Accept(s) \/ CreatePut(s)
        \/ JoinReceived(s) \/ JoinUnlink(s) \/ JoinRefused(s) \/ JoinInTable(s)
        \/ JoinExists(s) \/ JoinPut(s)
        \/ Reset(s) \/ NetworkReset(s) \/ NetworkPut(s) \/ Destroy(s)
    \/ \E u \in Users : Release(u) \/ \E g \in Groups, key \in Ids : Lookup(u, g, key)

Spec == Init /\ [][Next]_vars

-----------------------------------------------------------------------------
(* Properties *)

\* Every group has an id: the searches index g->ids without looking at id_num,
\* and an empty array would give them position -1 (node.c:311-339, 223-226).
TableSearchable == \A g \in Groups : gref[g] > 0 => ids[g] # <<>>

\* The search finds the state with the largest id up to the key, and the one
\* with the largest id of all for keys before the first (node.c:311-335).
SearchNearest ==
    \A g \in Groups, key \in Ids : gref[g] > 0 /\ ids[g] # <<>> =>
        LET below == {i \in Known(g) : i <= key}
            best == IF below # {} THEN below ELSE Known(g)
        IN ids[g][Search(ids[g], key) + 1].id = CHOOSE i \in best : \A j \in best : j <= i

\* A group is referenced once by each of its states, so that it is destroyed
\* exactly when the last one leaves and its list of states is empty, which
\* dnet_group_destroy insists on (node.c:125-134, 296-309).
GroupRefs ==
    \A g \in Groups :
        /\ gref[g] = Cardinality({s \in States : idc[s] = g})
        /\ gref[g] = 0 => \A s \in States : listed[s] # g

\* Every id leads to a state that is on the list of its group and not freed.
OwnersListed ==
    \A g \in Groups : \A i \in DOMAIN ids[g] :
        LET s == ids[g][i].st IN listed[s] = g /\ idc[s] = g /\ s \notin freed

\* A state that came into the table alive is not freed under the threads that
\* looked it up, although the table itself holds no reference.
NoUseAfterFree ==
    zombies = {} => \A u \in Users : user[u] \notin freed

\* A join or a reset of one state leaves the ids of all others with them.
OwnRoutesStable ==
    [][\A g \in Groups, s \in States :
         listed[s] = g /\ listed'[s] = g =>
            {e \in Entries(g) : e.st = s} = {e \in Entries(g)' : e.st = s}]_vars
=============================================================================
