---------------------------- MODULE MCRouteTable ----------------------------
(***************************************************************************)
(* The routes of a node: the table, with two accepted connections and one  *)
(* that this node makes, and the connections to configured peers, with     *)
(* their sockets, threads and reconnection.                                *)
(***************************************************************************)
EXTENDS RouteTable, Connect, TLC

CONSTANTS s1, s2, s3, g1

VARIABLE part    \* the component a behaviour is about; the other rests

allVars == <<vars, connectVars, part>>

MCGroupOf == [s \in States |-> g1]
\* s1 and s2 overlap, s3 comes from the peer of s1 and announces the same.
MCIdsOf == (s1 :> {1, 3}) @@ (s2 :> {2, 3}) @@ (s3 :> {1, 3})
MCAddrOf == (s1 :> 1) @@ (s2 :> 2) @@ (s3 :> 1)

-----------------------------------------------------------------------------
MCInit ==
    /\ part \in {"route", "connect"}
    /\ Init
    /\ ConnectInit

\* Component one takes a step, the other rests.
Only(one) ==
    /\ part = one /\ UNCHANGED part
    /\ one # "route" => UNCHANGED vars
    /\ one # "connect" => UNCHANGED connectVars

MCNext ==
    \/ part = "route" /\ Next /\ Only("route")
    \/ part = "connect" /\ ConnectNext /\ Only("connect")

\* Threads run, and the reconnection thread goes on with its list; peers come back
\* in the end.
MCSpec ==
    /\ MCInit /\ [][MCNext]_allVars
    /\ \A t \in Threads : WF_connectVars(part = "connect" /\ ~twice /\ Connecting(t))
    /\ WF_connectVars(part = "connect" /\ ~twice /\ ((\E f \in Fds : Network(f)) \/ \E a \in Addrs : Restart(a)))
    /\ SF_connectVars(part = "connect" /\ ~twice /\ Recon)
=============================================================================
