------------------------------ MODULE Connect ------------------------------
(***************************************************************************)
(* How a node comes to, loses and regains the connections to its peers:    *)
(* dnet_add_state, dnet_add_state_socket, the route lists and              *)
(* dnet_add_received_state, dnet_try_reconnect (library/dnet_common.c),    *)
(* the reconnection thread (library/trans.c), autodiscovery                *)
(* (library/discovery.c), sockets, states and the reconnection list        *)
(* (library/net.c), accepted and broken connections (library/pool.c).      *)
(*                                                                         *)
(* Threads make connections: "main" for dnet_add_state of the program,     *)
(* "recon" the reconnection thread, "io" for the replies with route lists. *)
(* A network thread breaks and destroys them.  A descriptor is a number    *)
(* which the kernel gives out again once it is closed; the second          *)
(* descriptor of a state (dup for writing) shares the fate of the first.   *)
(***************************************************************************)
EXTENDS Naturals, FiniteSets

CONSTANTS
    Addrs,      \* peers
    NoAddr,
    Configured, \* addresses the program connects to
    MaxFds,     \* limit of the process on open descriptors
    MaxFaults   \* bound: crashes and refusals of peers

ASSUME ConfiguredAssumption == Configured \subseteq Addrs
ASSUME MaxFdsAssumption == MaxFds \in Nat

Threads == {"main", "recon", "io"}
Fds == 1..MaxFds
NoFd == 0

VARIABLES
    up,      \* peers that run
    faults,
    conn,    \* descriptor -> the connection it stands for, [addr, st, join, cut]
    tpc,     \* thread -> where it is
    job,     \* thread -> [kind, addr, fd, err] of the function that connects
    todo,    \* configured addresses not tried yet
    again,   \* n->reconnect_list
    batch,   \* the list dnet_try_reconnect took
    heard,   \* addresses in route lists received and not handled yet
    twice,   \* a descriptor was closed under somebody else's connection
    wanted   \* addresses the node has to come back to

peerVars == <<up, faults>>
sockVars == <<conn, twice>>
threadVars == <<tpc, job>>
listVars == <<todo, again, batch, heard, wanted>>
connectVars == <<peerVars, sockVars, threadVars, listVars>>

Unused == [addr |-> NoAddr, st |-> "none", join |-> FALSE, cut |-> FALSE]

NoJob == [kind |-> "none", addr |-> NoAddr, fd |-> NoFd, err |-> "none"]

ConnectInit ==
    /\ up = Addrs /\ faults = 0
    /\ conn = [f \in Fds |-> Unused]
    /\ twice = FALSE
    /\ tpc = [t \in Threads |-> "idle"] /\ job = [t \in Threads |-> NoJob]
    /\ todo = Configured /\ again = {} /\ batch = {} /\ heard = {} /\ wanted = {}

-----------------------------------------------------------------------------
(* Sockets and the table.                                                  *)

RoutedTo(a) == {f \in Fds : conn[f].st = "routed" /\ conn[f].addr = a}

FreeFds == {f \in Fds : conn[f].st = "none"}

\* socket() and accept() give the lowest free number.
Lowest == CHOOSE f \in FreeFds : \A g \in FreeFds : f <= g

Open(a, st) == conn' = [conn EXCEPT ![Lowest] = [addr |-> a, st |-> st, join |-> FALSE, cut |-> FALSE]]

\* dnet_sock_close: shutdown and close of a number, whatever it stands for now.
Close(f) == conn' = [conn EXCEPT ![f] = Unused]

-----------------------------------------------------------------------------
(* A thread that connects.                                                 *)

Goes(t, pc) == tpc' = [tpc EXCEPT ![t] = pc] /\ UNCHANGED job
Returns(t) == tpc' = [tpc EXCEPT ![t] = "idle"] /\ job' = [job EXCEPT ![t] = NoJob]
\* dnet_add_received_state treats all errors alike, dnet_add_state does not look at
\* the socket again.
Fails(t, err) ==
    /\ tpc' = [tpc EXCEPT ![t] = "failed"]
    /\ job' = [job EXCEPT ![t].err = IF job[t].kind = "recv" THEN "any" ELSE err,
                          ![t].fd = IF job[t].kind = "add" THEN NoFd ELSE @]

\* Where each of the three functions begins; dnet_try_reconnect does not look
\* the address up first.
Begins(t, a, kind) ==
    /\ tpc' = [tpc EXCEPT ![t] = IF kind = "recon" THEN "socket" ELSE "search"]
    /\ job' = [job EXCEPT ![t] = [kind |-> kind, addr |-> a, fd |-> NoFd, err |-> "none"]]

\* dnet_add_state of the program.
AddState(a) ==
    /\ tpc["main"] = "idle" /\ a \in todo
    /\ todo' = todo \ {a}
    /\ Begins("main", a, "add")
    /\ UNCHANGED <<peerVars, sockVars, again, batch, heard, wanted>>

\* dnet_state_search_by_addr in dnet_socket_create and dnet_add_received_state;
\* the functions are done when it finds one.
SearchState(t) ==
    /\ tpc[t] = "search"
    /\ IF RoutedTo(job[t].addr) # {} THEN Returns(t) ELSE Goes(t, "socket")
    /\ UNCHANGED <<peerVars, sockVars, listVars>>

\* dnet_socket_create_addr and dnet_socket_connect.
Socket(t) ==
    /\ tpc[t] = "socket" /\ job[t].addr \in up
    /\ FreeFds # {}
    /\ Open(job[t].addr, "thread")
    /\ job' = [job EXCEPT ![t].fd = Lowest]
    /\ tpc' = [tpc EXCEPT ![t] = IF job[t].kind = "recv" THEN "create" ELSE "greet"]
    /\ UNCHANGED <<peerVars, twice, listVars>>

\* There is no descriptor left, the peer refuses, or does not answer in time.
SocketFails(t, err) ==
    /\ tpc[t] = "socket"
    /\ IF FreeFds = {} THEN err = "nofile" ELSE job[t].addr \notin up /\ err \in {"refused", "timeout"}
    /\ Fails(t, err)
    /\ UNCHANGED <<peerVars, sockVars, listVars>>

\* The reverse lookup in dnet_add_state_socket, with a state on the stack.
Greet(t) ==
    /\ tpc[t] = "greet" /\ job[t].addr \in up /\ ~conn[job[t].fd].cut
    /\ Goes(t, "create")
    /\ UNCHANGED <<peerVars, sockVars, listVars>>

\* The peer is gone; or its answer is refused, because of its version or size
\* ("invalid"), or does not hold the address, which leaves no error at all.
GreetFails(t, err) ==
    /\ tpc[t] = "greet"
    /\ err = "reset" <=> (job[t].addr \notin up \/ conn[job[t].fd].cut)
    /\ IF err = "reset" THEN UNCHANGED faults ELSE faults < MaxFaults /\ faults' = faults + 1
    /\ Close(job[t].fd)
    /\ Fails(t, err)
    /\ UNCHANGED <<up, twice, listVars>>

\* dnet_state_create looks the address up again...
Create(t) ==
    /\ tpc[t] = "create"
    /\ RoutedTo(job[t].addr) = {}
    /\ Goes(t, "insert")
    /\ UNCHANGED <<peerVars, sockVars, listVars>>

\* -EEXIST; the state there is this node's own, or one with which the peer joined.
Exists(a) == IF \E f \in RoutedTo(a) : conn[f].join THEN "exists" ELSE "joined"

\* ...and closes the socket of a state that exists.
CreateExists(t) ==
    /\ tpc[t] = "create"
    /\ RoutedTo(job[t].addr) # {}
    /\ Close(job[t].fd)
    /\ Fails(t, Exists(job[t].addr))
    /\ UNCHANGED <<peerVars, twice, listVars>>

\* Faulty form: ids the table knows are taken once more.
CanInsertAlways(a) == TRUE

\* dnet_idc_create puts the state into the table unless all ids of the peer are
\* there already, which they are with any other connection to it.
CanInsert(a) == RoutedTo(a) = {}

Insert(t) ==
    /\ tpc[t] = "insert" /\ CanInsert(job[t].addr)
    /\ conn' = [conn EXCEPT ![job[t].fd].st = "routed", ![job[t].fd].join = TRUE]
    /\ IF job[t].kind = "add"
       THEN tpc' = [tpc EXCEPT ![t] = "routes"] /\ job' = [job EXCEPT ![t].fd = NoFd]
       ELSE Returns(t)
    /\ wanted' = wanted \cup {job[t].addr}
    /\ UNCHANGED <<peerVars, twice, todo, again, batch, heard>>

InsertExists(t) ==
    /\ tpc[t] = "insert" /\ ~CanInsert(job[t].addr)
    /\ Close(job[t].fd)
    /\ Fails(t, Exists(job[t].addr))
    /\ UNCHANGED <<peerVars, twice, listVars>>

\* What a peer tells: the states it knows and itself.
Told == heard' = heard \cup up

\* dnet_recv_route_list at the end of dnet_add_state: by now the state may be gone,
\* and the request with it.
Routes(t) ==
    /\ tpc[t] = "routes"
    /\ (RoutedTo(job[t].addr) # {} /\ Told) \/ UNCHANGED heard
    /\ Returns(t)
    /\ UNCHANGED <<peerVars, sockVars, todo, again, batch, wanted>>

\* The end of a failed dnet_add_state: some errors put the address on the
\* reconnection list.
AddFailed(t) ==
    /\ tpc[t] = "failed" /\ job[t].kind = "add"
    /\ LET listed == IF job[t].err \in {"refused", "reset"} THEN {job[t].addr} ELSE {} IN
        again' = again \cup listed /\ wanted' = wanted \cup listed
    /\ Returns(t)
    /\ UNCHANGED <<peerVars, sockVars, todo, batch, heard>>

\* dnet_add_received_state and dnet_try_reconnect close the socket once more, which
\* does nothing unless the number was given out again.
CloseAgain(t) == twice' = (job[t].fd # NoFd /\ conn[job[t].fd].st # "none") /\ UNCHANGED conn

RecvFailed(t) ==
    /\ tpc[t] = "failed" /\ job[t].kind = "recv"
    /\ CloseAgain(t)
    /\ Returns(t)
    /\ UNCHANGED <<peerVars, listVars>>

\* Faulty form: any error takes the address off the list.
RetriesNever(err) == FALSE

\* dnet_try_reconnect gives an address up when its state exists or when the peer
\* gave an invalid answer.
Retries(err) == err \notin {"exists", "joined", "invalid"}

ReconFailed(t) ==
    /\ tpc[t] = "failed" /\ job[t].kind = "recon"
    /\ CloseAgain(t)
    /\ again' = IF Retries(job[t].err) THEN again \cup {job[t].addr} ELSE again
    /\ wanted' = IF job[t].err \in {"joined", "invalid"} THEN wanted \ {job[t].addr} ELSE wanted
    /\ Returns(t)
    /\ UNCHANGED <<peerVars, todo, batch, heard>>

-----------------------------------------------------------------------------
(* The reconnection thread and the IO thread with route lists.             *)

\* dnet_try_reconnect takes the list under reconnect_lock, then each address.
ReconTake ==
    /\ tpc["recon"] = "idle" /\ batch = {} /\ again # {}
    /\ batch' = again /\ again' = {}
    /\ UNCHANGED <<peerVars, sockVars, threadVars, todo, heard, wanted>>

ReconTry(a) ==
    /\ tpc["recon"] = "idle" /\ a \in batch
    /\ batch' = batch \ {a}
    /\ Begins("recon", a, "recon")
    /\ UNCHANGED <<peerVars, sockVars, todo, again, heard, wanted>>

\* dnet_check_route_table asks one state of each group.
ReconRoutes(f) ==
    /\ tpc["recon"] = "idle" /\ batch = {} /\ conn[f].st = "routed" /\ conn[f].addr \in up
    /\ Told
    /\ UNCHANGED <<peerVars, sockVars, threadVars, todo, again, batch, wanted>>

\* dnet_discovery_recv: a peer with our cookie announced its address.
ReconDiscovers(a) ==
    /\ tpc["recon"] = "idle" /\ batch = {} /\ a \in up
    /\ Begins("recon", a, "add")
    /\ UNCHANGED <<peerVars, sockVars, listVars>>

\* dnet_recv_route_list_complete, dnet_process_route_reply.
RouteReply(a) ==
    /\ tpc["io"] = "idle" /\ a \in heard
    /\ heard' = heard \ {a}
    /\ Begins("io", a, "recv")
    /\ UNCHANGED <<peerVars, sockVars, todo, again, batch, wanted>>

-----------------------------------------------------------------------------
(* Network threads: accepted, joined and broken connections.               *)

Broken(f) == conn[f].cut \/ conn[f].addr \notin up

\* dnet_state_accept_process: the client has no ids, it is in no group.  (One
\* client at a time; without a descriptor accept() is tried again later.)
AcceptClient(a) ==
    /\ a \in up /\ FreeFds # {}
    /\ \A f \in Fds : conn[f].st # "client"
    /\ Open(a, "client")
    /\ UNCHANGED <<peerVars, twice, threadVars, listVars>>

\* dnet_cmd_join_client: the peer joins over its own connection, which then is
\* the state for its address and is not reconnected by this node.
Join(f) ==
    /\ conn[f].st = "client" /\ ~Broken(f) /\ CanInsert(conn[f].addr)
    /\ conn' = [conn EXCEPT ![f].st = "routed"]
    /\ wanted' = wanted \ {conn[f].addr}
    /\ UNCHANGED <<peerVars, twice, threadVars, todo, again, batch, heard>>

\* dnet_auth_complete with an error: no reconnection, and the state is reset.
AuthRefused(f) ==
    /\ conn[f].st = "routed" /\ conn[f].join /\ ~Broken(f) /\ faults < MaxFaults
    /\ faults' = faults + 1
    /\ conn' = [conn EXCEPT ![f].join = FALSE, ![f].cut = TRUE]
    /\ wanted' = wanted \ {conn[f].addr}
    /\ UNCHANGED <<up, twice, threadVars, todo, again, batch, heard>>

\* The error path of dnet_io_process_network: the state leaves the table...
NetReset(f) ==
    /\ conn[f].st \in {"routed", "client"} /\ Broken(f)
    /\ conn' = [conn EXCEPT ![f].st = "reset", ![f].cut = TRUE]
    /\ UNCHANGED <<peerVars, twice, threadVars, listVars>>

\* Faulty form: the address is not put on the list.
RelistNot(f) == again

\* dnet_add_reconnect_state, with the join state of the connection.
Relist(f) == IF conn[f].join THEN again \cup {conn[f].addr} ELSE again

\* ...its address goes on the reconnection list, and with the last reference the
\* state is destroyed and its socket closed.
NetDestroy(f) ==
    /\ conn[f].st = "reset"
    /\ again' = Relist(f)
    /\ Close(f)
    /\ UNCHANGED <<peerVars, twice, threadVars, todo, batch, heard, wanted>>

-----------------------------------------------------------------------------
Crash(a) ==
    /\ a \in up /\ faults < MaxFaults
    /\ up' = up \ {a} /\ faults' = faults + 1
    /\ conn' = [f \in Fds |-> IF conn[f].addr = a THEN [conn[f] EXCEPT !.cut = TRUE] ELSE conn[f]]
    /\ UNCHANGED <<twice, threadVars, listVars>>

Restart(a) ==
    /\ a \notin up
    /\ up' = up \cup {a}
    /\ UNCHANGED <<faults, sockVars, threadVars, listVars>>

Connecting(t) ==
    \/ SearchState(t) \/ Socket(t) \/ (\E err \in {"nofile", "refused", "timeout"} : SocketFails(t, err))
    \/ Greet(t) \/ \E err \in {"reset", "invalid", "none"} : GreetFails(t, err)
    \/ Create(t) \/ CreateExists(t) \/ Insert(t) \/ InsertExists(t) \/ Routes(t)
    \/ AddFailed(t) \/ RecvFailed(t) \/ ReconFailed(t)

Network(f) == NetReset(f) \/ NetDestroy(f)

Recon == ReconTake \/ \E a \in Addrs : ReconTry(a)

\* What follows a descriptor that was closed twice is not explored: from then on
\* connections break each other.
ConnectNext ==
    \/ ~twice /\ \E t \in Threads : Connecting(t)
    \/ ~twice /\ \E a \in Addrs : AddState(a) \/ ReconDiscovers(a) \/ RouteReply(a) \/ AcceptClient(a)
    \/ ~twice /\ \E a \in Addrs : Crash(a) \/ Restart(a)
    \/ ~twice /\ \E f \in Fds : Network(f) \/ Join(f) \/ AuthRefused(f) \/ ReconRoutes(f)
    \/ ~twice /\ Recon
    \/ twice /\ UNCHANGED connectVars

\* Threads run, and the reconnection thread goes on with the list; peers come
\* back in the end.
ConnectFair ==
    /\ \A t \in Threads : WF_connectVars(~twice /\ Connecting(t))
    /\ WF_connectVars(~twice /\ \E f \in Fds : Network(f))
    /\ SF_connectVars(~twice /\ Recon)
    /\ \A a \in Addrs : WF_connectVars(~twice /\ Restart(a))

ConnectSpec == ConnectInit /\ [][ConnectNext]_connectVars /\ ConnectFair

-----------------------------------------------------------------------------
\* Two threads may both have found no state for an address, but the table never
\* gets two states for one peer.
OneStatePerPeer == \A a \in Addrs : Cardinality(RoutedTo(a)) <= 1

\* Unless a descriptor was closed twice, every open one belongs to a thread that
\* is connecting or to a state: no error path loses a socket.
NoSocketLost ==
    ~twice => \A f \in Fds : conn[f].st = "thread" =>
        \E t \in Threads : job[t].fd = f /\ tpc[t] \in {"greet", "create", "insert"}

\* A peer this node had a connection to, or had to try again, is not forgotten
\* when the connection breaks, a reconnection fails or another state exists: it
\* is routed, on a list, or a thread is just about it.  The node lets it go only
\* when the peer refused it, gave an invalid answer or joined on its own.
PeersKept ==
    \A a \in wanted :
        \/ a \in again \cup batch
        \/ \E t \in Threads : job[t].kind = "recon" /\ job[t].addr = a /\ tpc[t] # "idle"
        \/ \E f \in Fds : conn[f].addr = a /\ conn[f].join /\ conn[f].st \in {"routed", "reset"}

\* dnet_add_state, dnet_add_received_state, dnet_try_reconnect and the network
\* threads, however they interleave: one state for a peer, no lost socket, and no
\* forgotten peer.
ConnectionsKept == OneStatePerPeer /\ NoSocketLost /\ PeersKept

\* Such a peer is routed again in the end (unless a descriptor was closed twice:
\* then connections may go on breaking each other).
PeersRegained == \A a \in Addrs : (a \in wanted) ~> (RoutedTo(a) # {} \/ a \notin wanted \/ twice)

\* dnet_common.c:582 and :620 say that the socket is closed when no state was
\* made, and dnet_common.c:283 that putting the state closes it: nobody closes
\* the descriptor of somebody else's connection.
ClosedOnce == ~twice
=============================================================================
