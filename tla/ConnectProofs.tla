--------------------------- MODULE ConnectProofs ---------------------------
(***************************************************************************)
(* The connections of a node for any peers and any number of descriptors:  *)
(* one state for a peer, no socket that nobody owns, and no peer that is   *)
(* forgotten.                                                              *)
(***************************************************************************)
EXTENDS Connect, FiniteSetTheorems, WellFoundedInduction, TLAPS

Peers == Addrs \cup {NoAddr}
Errors == {"none", "any", "nofile", "refused", "timeout", "reset", "invalid", "exists", "joined"}
Places == {"idle", "search", "socket", "greet", "create", "insert", "routes", "failed"}
ConnRec == [addr : Peers, st : {"none", "thread", "client", "routed", "reset"},
            join : BOOLEAN, cut : BOOLEAN]
JobRec == [kind : {"none", "add", "recv", "recon"}, addr : Peers, fd : Fds \cup {NoFd}, err : Errors]

ListTypes ==
    /\ up \in SUBSET Peers /\ todo \in SUBSET Peers /\ again \in SUBSET Peers
    /\ batch \in SUBSET Peers /\ heard \in SUBSET Peers

ConnectTypes ==
    /\ conn \in [Fds -> ConnRec] /\ tpc \in [Threads -> Places] /\ job \in [Threads -> JobRec]
    /\ ListTypes

\* The thread has a socket of its own.
Owns(t) == tpc[t] \in {"greet", "create", "insert"}

\* A socket that is in no state belongs to one thread, which connects it to the
\* address it was asked for.
OwnInv ==
    /\ \A t \in Threads : Owns(t) =>
        job[t].fd \in Fds /\ conn[job[t].fd].st = "thread" /\ conn[job[t].fd].addr = job[t].addr
    /\ \A t, u \in Threads : Owns(t) /\ Owns(u) /\ job[t].fd = job[u].fd => t = u
    /\ \A f \in Fds : conn[f].st = "thread" => \E t \in Threads : Owns(t) /\ job[t].fd = f

\* A peer has one state.
RouteInv ==
    \A f, g \in Fds : conn[f].st = "routed" /\ conn[g].st = "routed" /\ conn[f].addr = conn[g].addr => f = g

\* Descriptor f will bring the address back when its connection breaks.
Brings(f, a) == conn[f].addr = a /\ conn[f].join /\ conn[f].st \in {"routed", "reset"}

\* The address is on a list or will come onto one.
Kept(a) == a \in again \cup batch \/ \E f \in Fds : Brings(f, a)

\* The reconnection thread is about the address, and will not leave it to another state.
Trying(a) ==
    /\ job["recon"].kind = "recon" /\ job["recon"].addr = a /\ tpc["recon"] # "idle"
    /\ tpc["recon"] = "failed" => job["recon"].err # "exists"

KeptInv ==
    /\ \A t \in Threads : job[t].kind = "recon" => t = "recon" /\ tpc[t] \notin {"search", "routes"}
    /\ \A a \in wanted : Kept(a) \/ Trying(a)

ConnectInv == ConnectTypes /\ OwnInv /\ RouteInv /\ KeptInv

-----------------------------------------------------------------------------
(* What the steps have in common. *)

\* The number socket() gives out is a free one.
LEMMA LowestFree ==
    ASSUME FreeFds # {}
    PROVE  Lowest \in Fds /\ conn[Lowest].st = "none"
<1>1. FreeFds \subseteq Nat
  BY MaxFdsAssumption, SMTT(30) DEF FreeFds, Fds
<1>2. IsWellFoundedOn(OpToRel(<, Nat), Nat)
  BY NatLessThanWellFounded, Zenon
<1>3. PICK f \in FreeFds : \A g \in FreeFds : ~(<<g, f>> \in OpToRel(<, Nat))
  BY <1>1, <1>2, WFMin, Zenon
<1>4. \A g \in FreeFds : ~(g < f)
  BY <1>1, <1>3, Zenon DEF OpToRel
<1>5. \A g \in FreeFds : f <= g
  BY <1>1, <1>4, SMTT(30)
<1>6. Lowest \in FreeFds
  BY <1>5, Zenon DEF Lowest
<1> QED
  BY <1>6, Zenon DEF FreeFds

\* A thread that has no socket goes on without one.
LEMMA OwnQuiet ==
    ASSUME OwnInv, NEW t \in Threads, conn' = conn, ~Owns(t), ~Owns(t)',
           \A u \in Threads : u # t => tpc'[u] = tpc[u] /\ job'[u] = job[u]
    PROVE  OwnInv'
<1>1. \A u \in Threads : u # t => (Owns(u)' <=> Owns(u))
  BY Zenon DEF Owns
<1>2. \A u \in Threads : Owns(u)' => u # t /\ Owns(u) /\ job'[u] = job[u]
  BY <1>1, Zenon
<1>3. \A u \in Threads : Owns(u) => u # t /\ Owns(u)' /\ job'[u] = job[u]
  BY <1>1, Zenon
<1>4. \A u \in Threads : Owns(u)' =>
        job'[u].fd \in Fds /\ conn'[job'[u].fd].st = "thread" /\ conn'[job'[u].fd].addr = job'[u].addr
  <2> SUFFICES ASSUME NEW u \in Threads, Owns(u)'
               PROVE  job'[u].fd \in Fds /\ conn'[job'[u].fd].st = "thread" /\ conn'[job'[u].fd].addr = job'[u].addr
    BY Zenon
  <2>1. Owns(u) /\ job'[u] = job[u]
    BY <1>2, Zenon
  <2> QED
    BY <2>1, Zenon DEF OwnInv
<1>5. \A u, v \in Threads : Owns(u)' /\ Owns(v)' /\ job'[u].fd = job'[v].fd => u = v
  <2> SUFFICES ASSUME NEW u \in Threads, NEW v \in Threads, Owns(u)', Owns(v)', job'[u].fd = job'[v].fd
               PROVE  u = v
    BY Zenon
  <2>1. Owns(u) /\ job'[u] = job[u] /\ Owns(v) /\ job'[v] = job[v]
    BY <1>2, Zenon
  <2> QED
    BY <2>1, Zenon DEF OwnInv
<1>6. ASSUME NEW g \in Fds, conn'[g].st = "thread"
      PROVE  \E u \in Threads : Owns(u)' /\ job'[u].fd = g
  <2>1. PICK u \in Threads : Owns(u) /\ job[u].fd = g
    BY <1>6, Zenon DEF OwnInv
  <2> QED
    BY <1>3, <2>1, Zenon
<1> QED
  BY <1>4, <1>5, <1>6, Zenon DEF OwnInv

\* One that has a socket keeps it.
LEMMA OwnOn ==
    ASSUME OwnInv, NEW t \in Threads, conn' = conn, Owns(t), Owns(t)', job' = job,
           \A u \in Threads : u # t => tpc'[u] = tpc[u]
    PROVE  OwnInv'
<1>1. \A u \in Threads : Owns(u)' <=> Owns(u)
  BY Zenon DEF Owns
<1> QED
  BY <1>1, Zenon DEF OwnInv

\* The states change, the sockets of the threads do not.
LEMMA OwnConn ==
    ASSUME OwnInv, UNCHANGED <<tpc, job>>,
           \A f \in Fds : /\ conn'[f].st = "thread" <=> conn[f].st = "thread"
                          /\ conn[f].st = "thread" => conn'[f].addr = conn[f].addr
    PROVE  OwnInv'
<1>1. \A u \in Threads : Owns(u)' <=> Owns(u)
  BY Zenon DEF Owns
<1> QED
  BY <1>1, Zenon DEF OwnInv

\* A thread opens a socket.
LEMMA OwnOpen ==
    ASSUME OwnInv, NEW t \in Threads, NEW f \in Fds, ~Owns(t), Owns(t)', job'[t].fd = f,
           conn[f].st = "none", conn'[f].st = "thread", conn'[f].addr = job'[t].addr,
           \A g \in Fds : g # f => conn'[g] = conn[g],
           \A u \in Threads : u # t => tpc'[u] = tpc[u] /\ job'[u] = job[u]
    PROVE  OwnInv'
<1>0. "none" # "thread"
  OBVIOUS
<1>1. \A u \in Threads : u # t => (Owns(u)' <=> Owns(u))
  BY Zenon DEF Owns
<1>2. \A u \in Threads : u # t /\ Owns(u)' =>
        Owns(u) /\ job'[u] = job[u] /\ job[u].fd \in Fds /\ conn[job[u].fd].st = "thread"
  BY <1>1, Zenon DEF OwnInv
<1>3. \A u \in Threads : u # t /\ Owns(u)' => job'[u].fd # f
  BY <1>0, <1>2, Zenon
<1>4. \A u \in Threads : Owns(u)' =>
        job'[u].fd \in Fds /\ conn'[job'[u].fd].st = "thread" /\ conn'[job'[u].fd].addr = job'[u].addr
  <2> SUFFICES ASSUME NEW u \in Threads, Owns(u)'
               PROVE  job'[u].fd \in Fds /\ conn'[job'[u].fd].st = "thread" /\ conn'[job'[u].fd].addr = job'[u].addr
    BY Zenon
  <2>1. CASE u = t
    BY <2>1, Zenon
  <2>2. CASE u # t
    <3>1. Owns(u) /\ job'[u] = job[u] /\ job[u].fd \in Fds /\ job[u].fd # f
      BY <1>2, <1>3, <2>2, Zenon
    <3>2. conn'[job[u].fd] = conn[job[u].fd]
      BY <3>1, Zenon
    <3>3. conn[job[u].fd].st = "thread" /\ conn[job[u].fd].addr = job[u].addr
      BY <3>1, Zenon DEF OwnInv
    <3> QED
      BY <3>1, <3>2, <3>3, SMTT(30)
  <2> QED
    BY <2>1, <2>2, Zenon
<1>5. \A u, v \in Threads : Owns(u)' /\ Owns(v)' /\ job'[u].fd = job'[v].fd => u = v
  <2> SUFFICES ASSUME NEW u \in Threads, NEW v \in Threads, Owns(u)', Owns(v)', job'[u].fd = job'[v].fd, u # v
               PROVE  FALSE
    BY Zenon
  <2>1. u # t /\ v # t
    BY <1>3, Zenon
  <2>2. Owns(u) /\ job'[u] = job[u] /\ Owns(v) /\ job'[v] = job[v]
    BY <1>2, <2>1, Zenon
  <2> QED
    BY <2>2, Zenon DEF OwnInv
<1>6. ASSUME NEW g \in Fds, conn'[g].st = "thread"
      PROVE  \E u \in Threads : Owns(u)' /\ job'[u].fd = g
  <2>1. CASE g = f
    BY <2>1, Zenon
  <2>2. CASE g # f
    <3>1. PICK u \in Threads : Owns(u) /\ job[u].fd = g
      BY <1>6, <2>2, Zenon DEF OwnInv
    <3> QED
      BY <1>1, <3>1, Zenon
  <2> QED
    BY <2>1, <2>2, Zenon
<1> QED
  BY <1>4, <1>5, <1>6, Zenon DEF OwnInv

\* A thread closes its socket, or leaves it to a state.
LEMMA OwnEnd ==
    ASSUME OwnInv, NEW t \in Threads, NEW f, f = job[t].fd, Owns(t), ~Owns(t)', conn'[f].st # "thread",
           \A g \in Fds : g # f => conn'[g] = conn[g],
           \A u \in Threads : u # t => tpc'[u] = tpc[u] /\ job'[u] = job[u]
    PROVE  OwnInv'
<1>1. \A u \in Threads : u # t => (Owns(u)' <=> Owns(u))
  BY Zenon DEF Owns
<1>2. \A u \in Threads : Owns(u)' =>
        /\ u # t /\ Owns(u) /\ job'[u] = job[u] /\ job[u].fd \in Fds /\ job[u].fd # f
        /\ conn[job[u].fd].st = "thread" /\ conn[job[u].fd].addr = job[u].addr
  BY <1>1, Zenon DEF OwnInv
<1>3. \A u \in Threads : Owns(u)' =>
        job'[u].fd \in Fds /\ conn'[job'[u].fd].st = "thread" /\ conn'[job'[u].fd].addr = job'[u].addr
  <2> SUFFICES ASSUME NEW u \in Threads, Owns(u)'
               PROVE  job'[u].fd \in Fds /\ conn'[job'[u].fd].st = "thread" /\ conn'[job'[u].fd].addr = job'[u].addr
    BY Zenon
  <2>1. job'[u] = job[u] /\ conn'[job[u].fd] = conn[job[u].fd]
    BY <1>2, Zenon
  <2>2. job[u].fd \in Fds /\ conn[job[u].fd].st = "thread" /\ conn[job[u].fd].addr = job[u].addr
    BY <1>2, Zenon
  <2> QED
    BY <2>1, <2>2, SMTT(30)
<1>4. \A u, v \in Threads : Owns(u)' /\ Owns(v)' /\ job'[u].fd = job'[v].fd => u = v
  BY <1>2, Zenon DEF OwnInv
<1>5. ASSUME NEW g \in Fds, conn'[g].st = "thread"
      PROVE  \E u \in Threads : Owns(u)' /\ job'[u].fd = g
  <2>1. g # f /\ conn[g].st = "thread"
    BY <1>5, Zenon
  <2>2. PICK u \in Threads : Owns(u) /\ job[u].fd = g
    BY <2>1, Zenon DEF OwnInv
  <2> QED
    BY <1>1, <2>1, <2>2, Zenon
<1> QED
  BY <1>3, <1>4, <1>5, Zenon DEF OwnInv

\* No state is added to the table.
LEMMA RouteLess ==
    ASSUME RouteInv,
           \A f \in Fds : conn'[f].st = "routed" => conn[f].st = "routed" /\ conn'[f].addr = conn[f].addr
    PROVE  RouteInv'
BY Zenon DEF RouteInv

\* A state is added for a peer that has none.
LEMMA RouteMore ==
    ASSUME RouteInv, NEW f \in Fds, NEW a, RoutedTo(a) = {}, conn'[f].addr = a,
           \A g \in Fds : g # f => conn'[g] = conn[g]
    PROVE  RouteInv'
<1>1. \A g \in Fds : g # f /\ conn'[g].st = "routed" => conn'[g].addr # a
  BY Zenon DEF RoutedTo
<1> QED
  BY <1>1, Zenon DEF RouteInv

\* What is on a list or will come onto one does so still.
LEMMA KeptGrows ==
    ASSUME \A a \in again \cup batch : a \in again' \cup batch',
           \A f \in Fds : conn[f].join /\ conn[f].st \in {"routed", "reset"} =>
              conn'[f].addr = conn[f].addr /\ conn'[f].join /\ conn'[f].st \in {"routed", "reset"}
    PROVE  \A a : Kept(a) => Kept(a)'
BY Zenon DEF Kept, Brings

\* A thread takes a step.
LEMMA KeptStep ==
    ASSUME KeptInv, NEW t \in Threads,
           \A u \in Threads : u # t => tpc'[u] = tpc[u] /\ job'[u] = job[u],
           job'[t].kind = "recon" => t = "recon" /\ tpc'[t] \notin {"search", "routes"},
           \A a \in wanted' : a \in wanted /\ Kept(a) => Kept(a)' \/ Trying(a)',
           \A a \in wanted' : a \notin wanted => Kept(a)',
           \A a \in wanted' : t = "recon" /\ Trying(a) => Kept(a)' \/ Trying(a)'
    PROVE  KeptInv'
<1>1. "recon" \in Threads
  BY Zenon DEF Threads
<1>2. \A u \in Threads : job'[u].kind = "recon" => u = "recon" /\ tpc'[u] \notin {"search", "routes"}
  BY Zenon DEF KeptInv
<1>3. ASSUME NEW a \in wanted' PROVE Kept(a)' \/ Trying(a)'
  <2>1. CASE a \notin wanted
    BY <2>1, Zenon
  <2>2. CASE Kept(a) /\ a \in wanted
    BY <2>2, Zenon
  <2>3. CASE Trying(a) /\ t # "recon"
    BY <1>1, <2>3, Zenon DEF Trying
  <2>4. CASE Trying(a) /\ t = "recon"
    BY <2>4, Zenon
  <2> QED
    BY <2>1, <2>2, <2>3, <2>4, Zenon DEF KeptInv
<1> QED
  BY <1>2, <1>3, Zenon DEF KeptInv

\* The network takes a step.
LEMMA KeptConn ==
    ASSUME KeptInv, UNCHANGED <<tpc, job>>, wanted' \subseteq wanted,
           \A a \in wanted' : Kept(a) => Kept(a)'
    PROVE  KeptInv'
BY Zenon DEF KeptInv, Trying

-----------------------------------------------------------------------------
(* What the parts of an action assign. *)

LEMMA JobFields ==
    ASSUME ConnectTypes, NEW t \in Threads
    PROVE  /\ tpc[t] \in Places /\ job[t] \in JobRec /\ job[t].kind \in {"none", "add", "recv", "recon"}
           /\ job[t].addr \in Peers /\ job[t].fd \in Fds \cup {NoFd} /\ job[t].err \in Errors
<1>1. tpc[t] \in Places /\ job[t] \in JobRec
  BY Zenon DEF ConnectTypes
<1> QED
  BY <1>1, SMTT(30) DEF JobRec

LEMMA ConnFields ==
    ASSUME ConnectTypes, NEW f \in Fds
    PROVE  /\ conn[f] \in ConnRec /\ conn[f].addr \in Peers /\ conn[f].join \in BOOLEAN
           /\ conn[f].st \in {"none", "thread", "client", "routed", "reset"}
<1>1. conn[f] \in ConnRec
  BY Zenon DEF ConnectTypes
<1> QED
  BY <1>1, SMTT(30) DEF ConnRec

LEMMA GoesFields ==
    ASSUME ConnectTypes, NEW t \in Threads, NEW pc \in Places, Goes(t, pc)
    PROVE  /\ tpc' \in [Threads -> Places] /\ job' = job /\ tpc'[t] = pc
           /\ \A u \in Threads : u # t => tpc'[u] = tpc[u] /\ job'[u] = job[u]
<1>1. tpc \in [Threads -> Places] /\ tpc' = [tpc EXCEPT ![t] = pc] /\ job' = job
  BY Zenon DEF ConnectTypes, Goes
<1> QED
  BY <1>1, SMTT(30)

LEMMA ReturnsFields ==
    ASSUME ConnectTypes, NEW t \in Threads, Returns(t)
    PROVE  /\ tpc' \in [Threads -> Places] /\ job' \in [Threads -> JobRec]
           /\ tpc'[t] = "idle" /\ job'[t].kind = "none"
           /\ \A u \in Threads : u # t => tpc'[u] = tpc[u] /\ job'[u] = job[u]
<1>1. NoJob \in JobRec /\ NoJob.kind = "none"
  BY SMTT(30) DEF NoJob, JobRec, Peers, Errors
<1>2. /\ tpc \in [Threads -> Places] /\ tpc' = [tpc EXCEPT ![t] = "idle"]
      /\ job \in [Threads -> JobRec] /\ job' = [job EXCEPT ![t] = NoJob]
  BY Zenon DEF ConnectTypes, Returns
<1>3. "idle" \in Places
  BY Zenon DEF Places
<1> QED
  BY <1>1, <1>2, <1>3, SMTT(30)

LEMMA BeginsFields ==
    ASSUME ConnectTypes, NEW t \in Threads, NEW a \in Peers, NEW kind \in {"add", "recv", "recon"},
           Begins(t, a, kind)
    PROVE  /\ tpc' \in [Threads -> Places] /\ job' \in [Threads -> JobRec]
           /\ tpc'[t] = (IF kind = "recon" THEN "socket" ELSE "search")
           /\ job'[t].kind = kind /\ job'[t].addr = a
           /\ \A u \in Threads : u # t => tpc'[u] = tpc[u] /\ job'[u] = job[u]
<1> DEFINE j == [kind |-> kind, addr |-> a, fd |-> NoFd, err |-> "none"]
<1>1. j \in JobRec /\ j.kind = kind /\ j.addr = a
  BY SMTT(30) DEF JobRec, Errors
<1>2. PICK pc \in Places : pc = IF kind = "recon" THEN "socket" ELSE "search"
  BY SMTT(30) DEF Places
<1>3. /\ tpc \in [Threads -> Places] /\ tpc' = [tpc EXCEPT ![t] = pc]
      /\ job \in [Threads -> JobRec] /\ job' = [job EXCEPT ![t] = j]
  BY <1>2, Zenon DEF ConnectTypes, Begins
<1> HIDE DEF j
<1>4. tpc' \in [Threads -> Places] /\ job' \in [Threads -> JobRec] /\ tpc'[t] = pc /\ job'[t] = j
  BY <1>1, <1>3, SMTT(30)
<1>5. \A u \in Threads : u # t => tpc'[u] = tpc[u] /\ job'[u] = job[u]
  BY <1>3, SMTT(30)
<1> QED
  BY <1>1, <1>2, <1>4, <1>5, Zenon

LEMMA FailsFields ==
    ASSUME ConnectTypes, NEW t \in Threads, NEW err \in Errors, Fails(t, err)
    PROVE  /\ tpc' \in [Threads -> Places] /\ job' \in [Threads -> JobRec]
           /\ tpc'[t] = "failed" /\ job'[t].kind = job[t].kind /\ job'[t].addr = job[t].addr
           /\ job[t].kind = "recon" => job'[t].err = err
           /\ \A u \in Threads : u # t => tpc'[u] = tpc[u] /\ job'[u] = job[u]
<1>0. PICK w : w = job[t]
  BY Zenon
<1>1. w \in JobRec /\ w.fd \in Fds \cup {NoFd}
  BY <1>0, JobFields, Zenon
<1>2. PICK e \in Errors : e = IF w.kind = "recv" THEN "any" ELSE err
  BY SMTT(30) DEF Errors
<1>3. PICK g \in Fds \cup {NoFd} : g = IF w.kind = "add" THEN NoFd ELSE w.fd
  BY <1>1, SMTT(30)
<1>4. /\ tpc \in [Threads -> Places] /\ tpc' = [tpc EXCEPT ![t] = "failed"]
      /\ job \in [Threads -> JobRec]
  BY Zenon DEF ConnectTypes, Fails
<1>5. PICK x : x = [w EXCEPT !.err = e]
  BY Zenon
<1>6. x \in JobRec /\ x.kind = w.kind /\ x.addr = w.addr /\ x.err = e /\ x.fd = w.fd
  BY <1>1, <1>5, SMTT(30) DEF JobRec
<1>7. PICK j : j = [job EXCEPT ![t] = x]
  BY Zenon
<1>8. j \in [Threads -> JobRec] /\ j[t] = x
  BY <1>4, <1>6, <1>7, SMTT(30)
<1>9. job' = [[job EXCEPT ![t] = [job[t] EXCEPT !.err = e]] EXCEPT ![t].fd = IF w.kind = "add" THEN NoFd ELSE @]
  BY <1>0, <1>2, Zenon DEF Fails
<1>10. job' = [j EXCEPT ![t].fd = IF w.kind = "add" THEN NoFd ELSE @]
  BY <1>0, <1>5, <1>7, <1>9, Zenon
<1>11. job' = [j EXCEPT ![t] = [j[t] EXCEPT !.fd = IF w.kind = "add" THEN NoFd ELSE j[t].fd]]
  BY <1>10, Zenon
<1>12. job' = [j EXCEPT ![t] = [x EXCEPT !.fd = g]]
  BY <1>3, <1>6, <1>8, <1>11, Zenon
<1>13. PICK v : v = [x EXCEPT !.fd = g]
  BY Zenon
<1>14. v \in JobRec /\ v.kind = w.kind /\ v.addr = w.addr /\ v.err = e
  BY <1>6, <1>13, SMTT(30) DEF JobRec
<1>15. "failed" \in Places
  BY Zenon DEF Places
<1>16. job' = [j EXCEPT ![t] = v]
  BY <1>12, <1>13, Zenon
<1>17. w.kind = "recon" => e = err
  BY <1>2, SMTT(30)
<1>18. tpc' \in [Threads -> Places] /\ job' \in [Threads -> JobRec] /\ tpc'[t] = "failed" /\ job'[t] = v
  BY <1>4, <1>8, <1>14, <1>15, <1>16, SMTT(30)
<1>19. \A u \in Threads : u # t => tpc'[u] = tpc[u] /\ job'[u] = job[u]
  BY <1>4, <1>7, <1>16, SMTT(30)
<1>20. job'[t].kind = v.kind /\ job'[t].addr = v.addr /\ job'[t].err = v.err
  BY <1>18, Zenon
<1> QED
  BY <1>0, <1>14, <1>17, <1>18, <1>19, <1>20, Zenon

LEMMA CloseFields ==
    ASSUME ConnectTypes, NEW f \in Fds, Close(f)
    PROVE  /\ conn' \in [Fds -> ConnRec] /\ conn'[f].st = "none"
           /\ \A g \in Fds : g # f => conn'[g] = conn[g]
<1>1. Unused \in ConnRec /\ Unused.st = "none"
  BY SMTT(30) DEF Unused, ConnRec, Peers
<1>2. conn \in [Fds -> ConnRec] /\ conn' = [conn EXCEPT ![f] = Unused]
  BY Zenon DEF ConnectTypes, Close
<1> QED
  BY <1>1, <1>2, SMTT(30)

LEMMA OpenFields ==
    ASSUME ConnectTypes, FreeFds # {}, NEW a \in Peers, NEW st \in {"thread", "client"}, Open(a, st)
    PROVE  /\ conn' \in [Fds -> ConnRec] /\ Lowest \in Fds /\ conn[Lowest].st = "none"
           /\ conn'[Lowest].st = st /\ conn'[Lowest].addr = a
           /\ \A g \in Fds : g # Lowest => conn'[g] = conn[g]
<1> DEFINE c == [addr |-> a, st |-> st, join |-> FALSE, cut |-> FALSE]
<1>1. c \in ConnRec /\ c.st = st /\ c.addr = a
  BY SMTT(30) DEF ConnRec
<1>2. Lowest \in Fds /\ conn[Lowest].st = "none"
  BY LowestFree, Zenon
<1>3. conn \in [Fds -> ConnRec] /\ conn' = [conn EXCEPT ![Lowest] = c]
  BY Zenon DEF ConnectTypes, Open
<1> HIDE DEF c
<1>4. conn' \in [Fds -> ConnRec] /\ conn'[Lowest] = c /\ \A g \in Fds : g # Lowest => conn'[g] = conn[g]
  BY <1>1, <1>2, <1>3, SMTT(30)
<1> QED
  BY <1>1, <1>2, <1>4, Zenon

\* The fields of a state, one at a time.
LEMMA SetState ==
    ASSUME NEW x \in ConnRec, NEW st \in {"none", "thread", "client", "routed", "reset"}, NEW v,
           v = [x EXCEPT !.st = st]
    PROVE  v \in ConnRec /\ v.st = st /\ v.join = x.join /\ v.addr = x.addr
BY SMTT(30) DEF ConnRec

LEMMA SetJoin ==
    ASSUME NEW x \in ConnRec, NEW b \in BOOLEAN, NEW v, v = [x EXCEPT !.join = b]
    PROVE  v \in ConnRec /\ v.st = x.st /\ v.join = b /\ v.addr = x.addr
BY SMTT(30) DEF ConnRec

LEMMA SetCut ==
    ASSUME NEW x \in ConnRec, NEW b \in BOOLEAN, NEW v, v = [x EXCEPT !.cut = b]
    PROVE  v \in ConnRec /\ v.st = x.st /\ v.join = x.join /\ v.addr = x.addr
BY SMTT(30) DEF ConnRec

\* Two assignments to one state.
LEMMA TwoUpdates ==
    ASSUME ConnectTypes, NEW f \in Fds, NEW x \in ConnRec, NEW v \in ConnRec,
           conn' = [[conn EXCEPT ![f] = x] EXCEPT ![f] = v]
    PROVE  /\ conn' \in [Fds -> ConnRec] /\ conn'[f] = v
           /\ \A g \in Fds : g # f => conn'[g] = conn[g]
<1>1. conn \in [Fds -> ConnRec]
  BY Zenon DEF ConnectTypes
<1>2. PICK c : c = [conn EXCEPT ![f] = x]
  BY Zenon
<1>3. c \in [Fds -> ConnRec] /\ \A g \in Fds : g # f => c[g] = conn[g]
  BY <1>1, <1>2, SMTT(30)
<1>4. conn' = [c EXCEPT ![f] = v]
  BY <1>2, Zenon
<1> QED
  BY <1>3, <1>4, SMTT(30)

-----------------------------------------------------------------------------
(* The steps of a thread that connects, by what becomes of its socket. *)

LEMMA ListsSame ==
    ASSUME ConnectTypes, UNCHANGED <<up, listVars>>
    PROVE  ListTypes' /\ again' = again /\ batch' = batch /\ wanted' = wanted
BY Zenon DEF ConnectTypes, ListTypes, listVars

\* A thread begins with an address.
LEMMA BeginStep ==
    ASSUME ConnectInv, NEW t \in Threads, NEW a \in Peers, NEW kind \in {"add", "recv", "recon"},
           tpc[t] = "idle", Begins(t, a, kind), kind = "recon" => t = "recon",
           conn' = conn, ListTypes', wanted' = wanted,
           \A b \in again \cup batch : b \in again' \cup batch' \/ (kind = "recon" /\ b = a)
    PROVE  ConnectInv'
<1>0. ConnectTypes /\ OwnInv /\ RouteInv /\ KeptInv
  BY Zenon DEF ConnectInv
<1>1. /\ tpc' \in [Threads -> Places] /\ job' \in [Threads -> JobRec]
      /\ tpc'[t] = (IF kind = "recon" THEN "socket" ELSE "search")
      /\ job'[t].kind = kind /\ job'[t].addr = a
      /\ \A u \in Threads : u # t => tpc'[u] = tpc[u] /\ job'[u] = job[u]
  BY <1>0, BeginsFields, Zenon
<1>2. tpc'[t] \in {"socket", "search"} /\ (kind = "recon" => tpc'[t] = "socket")
  BY <1>1, SMTT(30)
<1>3. ~Owns(t) /\ ~Owns(t)'
  BY <1>2, SMTT(30) DEF Owns
<1>4. OwnInv'
  BY <1>0, <1>1, <1>3, OwnQuiet, Zenon
<1>5. RouteInv'
  BY <1>0, RouteLess, Zenon
<1>6. ConnectTypes'
  BY <1>0, <1>1, Zenon DEF ConnectTypes
<1>7. kind = "recon" => t = "recon" /\ Trying(a)'
  BY <1>1, <1>2, SMTT(30) DEF Trying
<1>8. ASSUME NEW b, Kept(b) PROVE Kept(b)' \/ Trying(b)'
  <2>1. CASE b \in again \cup batch
    BY <1>7, <2>1, Zenon DEF Kept
  <2>2. CASE \E f \in Fds : Brings(f, b)
    BY <2>2, Zenon DEF Kept, Brings
  <2> QED
    BY <1>8, <2>1, <2>2, Zenon DEF Kept
<1>9. job'[t].kind = "recon" => t = "recon" /\ tpc'[t] \notin {"search", "routes"}
  BY <1>1, <1>2, SMTT(30)
<1>10. \A b : t = "recon" => ~Trying(b)
  BY Zenon DEF Trying
<1>11. KeptInv'
  BY <1>0, <1>1, <1>8, <1>9, <1>10, KeptStep, Zenon
<1> QED
  BY <1>4, <1>5, <1>6, <1>11, Zenon DEF ConnectInv

\* A thread goes on.
LEMMA GoStep ==
    ASSUME ConnectInv, NEW t \in Threads, NEW pc \in {"socket", "create", "insert"},
           Goes(t, pc), Owns(t) <=> pc # "socket", tpc[t] \notin {"idle", "failed"},
           conn' = conn, UNCHANGED <<up, listVars>>
    PROVE  ConnectInv'
<1>0. ConnectTypes /\ OwnInv /\ RouteInv /\ KeptInv
  BY Zenon DEF ConnectInv
<1>1. /\ tpc' \in [Threads -> Places] /\ job' = job /\ tpc'[t] = pc
      /\ \A u \in Threads : u # t => tpc'[u] = tpc[u] /\ job'[u] = job[u]
  <2>1. pc \in Places
    BY Zenon DEF Places
  <2> QED
    BY <1>0, <2>1, GoesFields, Zenon
<1>2. ListTypes' /\ again' = again /\ batch' = batch /\ wanted' = wanted
  BY <1>0, ListsSame, Zenon
<1>3. Owns(t)' <=> Owns(t)
  BY <1>1, SMTT(30) DEF Owns
<1>4. OwnInv'
  BY <1>0, <1>1, <1>3, OwnQuiet, OwnOn, Zenon
<1>5. RouteInv'
  BY <1>0, RouteLess, Zenon
<1>6. ConnectTypes'
  BY <1>0, <1>1, <1>2, Zenon DEF ConnectTypes
<1>7. \A a : Kept(a) => Kept(a)'
  BY <1>2, Zenon DEF Kept, Brings
<1>8. job'[t].kind = "recon" => t = "recon" /\ tpc'[t] \notin {"search", "routes"}
  <2>1. tpc'[t] \notin {"search", "routes"}
    BY <1>1, SMTT(30)
  <2> QED
    BY <1>0, <1>1, <2>1, Zenon DEF KeptInv
<1>9. ASSUME NEW a, t = "recon", Trying(a) PROVE Trying(a)'
  <2>1. tpc'["recon"] # "idle" /\ tpc'["recon"] # "failed"
    BY <1>1, <1>9, SMTT(30)
  <2> QED
    BY <1>1, <1>9, <2>1, Zenon DEF Trying
<1>10. KeptInv'
  BY <1>0, <1>1, <1>2, <1>7, <1>8, <1>9, KeptStep, Zenon
<1> QED
  BY <1>4, <1>5, <1>6, <1>10, Zenon DEF ConnectInv

\* A thread fails; when it has a socket it closes it.
LEMMA FailStep ==
    ASSUME ConnectInv, NEW t \in Threads, NEW err \in Errors, Fails(t, err),
           tpc[t] \notin {"idle", "failed"}, UNCHANGED <<up, listVars>>,
           (~Owns(t) /\ conn' = conn) \/ (Owns(t) /\ Close(job[t].fd)),
           err = "exists" => \E g \in Fds : Brings(g, job[t].addr)
    PROVE  ConnectInv'
<1>0. ConnectTypes /\ OwnInv /\ RouteInv /\ KeptInv
  BY Zenon DEF ConnectInv
<1>1. /\ tpc' \in [Threads -> Places] /\ job' \in [Threads -> JobRec]
      /\ tpc'[t] = "failed" /\ job'[t].kind = job[t].kind /\ job'[t].addr = job[t].addr
      /\ job[t].kind = "recon" => job'[t].err = err
      /\ \A u \in Threads : u # t => tpc'[u] = tpc[u] /\ job'[u] = job[u]
  BY <1>0, FailsFields, Zenon
<1>2. ListTypes' /\ again' = again /\ batch' = batch /\ wanted' = wanted
  BY <1>0, ListsSame, Zenon
<1>3. ~Owns(t)'
  BY <1>1, SMTT(30) DEF Owns
<1>4. OwnInv' /\ RouteInv' /\ conn' \in [Fds -> ConnRec] /\ \A a : Kept(a) => Kept(a)'
  <2>1. CASE ~Owns(t) /\ conn' = conn
    <3>1. OwnInv'
      BY <1>0, <1>1, <1>3, <2>1, OwnQuiet, Zenon
    <3>2. RouteInv'
      BY <1>0, <2>1, RouteLess, Zenon
    <3>3. \A a : Kept(a) => Kept(a)'
      BY <1>2, <2>1, Zenon DEF Kept, Brings
    <3> QED
      BY <1>0, <2>1, <3>1, <3>2, <3>3, Zenon DEF ConnectTypes
  <2>2. CASE Owns(t) /\ Close(job[t].fd)
    <3>1. PICK f \in Fds : f = job[t].fd /\ conn[f].st = "thread"
      BY <1>0, <2>2, Zenon DEF OwnInv
    <3>2. /\ conn' \in [Fds -> ConnRec] /\ conn'[f].st = "none"
          /\ \A g \in Fds : g # f => conn'[g] = conn[g]
      BY <1>0, <2>2, <3>1, CloseFields, Zenon
    <3>3. conn'[f].st # "thread" /\ conn'[f].st # "routed"
      BY <3>2, SMTT(30)
    <3>4. OwnInv'
      <4>1. f = job[t].fd /\ Owns(t) /\ ~Owns(t)' /\ conn'[f].st # "thread"
        BY <1>3, <2>2, <3>1, <3>3, Zenon
      <4>2. \A g \in Fds : g # f => conn'[g] = conn[g]
        BY <3>2, Zenon
      <4>3. \A u \in Threads : u # t => tpc'[u] = tpc[u] /\ job'[u] = job[u]
        BY <1>1, Zenon
      <4> QED
        BY <1>0, <4>1, <4>2, <4>3, OwnEnd, Zenon
    <3>5. \A g \in Fds : conn'[g].st = "routed" => conn[g].st = "routed" /\ conn'[g].addr = conn[g].addr
      BY <3>2, <3>3, Zenon
    <3>6. RouteInv'
      BY <1>0, <3>5, RouteLess, Zenon
    <3>7. \A g \in Fds : conn[g].st \in {"routed", "reset"} => g # f
      BY <3>1, SMTT(30)
    <3>8. \A g \in Fds : conn[g].join /\ conn[g].st \in {"routed", "reset"} =>
            conn'[g].addr = conn[g].addr /\ conn'[g].join /\ conn'[g].st \in {"routed", "reset"}
      BY <3>2, <3>7, Zenon
    <3>9. \A a : Kept(a) => Kept(a)'
      BY <1>2, <3>8, KeptGrows, Zenon
    <3> QED
      BY <3>2, <3>4, <3>6, <3>9, Zenon
  <2> QED
    BY <2>1, <2>2, Zenon
<1>5. ConnectTypes'
  BY <1>1, <1>2, <1>4, Zenon DEF ConnectTypes
<1>6. job'[t].kind = "recon" => t = "recon" /\ tpc'[t] \notin {"search", "routes"}
  <2>1. tpc'[t] \notin {"search", "routes"}
    BY <1>1, SMTT(30)
  <2> QED
    BY <1>0, <1>1, <2>1, Zenon DEF KeptInv
<1>7. ASSUME NEW a, t = "recon", Trying(a) PROVE Kept(a)' \/ Trying(a)'
  <2>1. job[t].kind = "recon" /\ job[t].addr = a
    BY <1>7, Zenon DEF Trying
  <2>2. CASE err = "exists"
    <3>1. Kept(a)
      BY <2>1, <2>2, Zenon DEF Kept
    <3> QED
      BY <1>4, <3>1, Zenon
  <2>3. CASE err # "exists"
    <3>1. job'["recon"].err # "exists"
      BY <1>1, <1>7, <2>1, <2>3, Zenon
    <3>2. tpc'["recon"] # "idle"
      BY <1>1, <1>7, SMTT(30)
    <3> QED
      BY <1>1, <1>7, <2>1, <3>1, <3>2, Zenon DEF Trying
  <2> QED
    BY <2>2, <2>3, Zenon
<1>8. KeptInv'
  BY <1>0, <1>1, <1>2, <1>4, <1>6, <1>7, KeptStep, Zenon
<1> QED
  BY <1>4, <1>5, <1>8, Zenon DEF ConnectInv

\* A thread is done without a socket.
LEMMA ReturnStep ==
    ASSUME ConnectInv, NEW t \in Threads, Returns(t), ~Owns(t), conn' = conn, ListTypes',
           \A a \in again \cup batch : a \in again' \cup batch',
           \A a \in wanted' : a \notin wanted => a \in again',
           job[t].kind = "recon" => \A a \in wanted' : Trying(a) => a \in again'
    PROVE  ConnectInv'
<1>0. ConnectTypes /\ OwnInv /\ RouteInv /\ KeptInv
  BY Zenon DEF ConnectInv
<1>1. /\ tpc' \in [Threads -> Places] /\ job' \in [Threads -> JobRec]
      /\ tpc'[t] = "idle" /\ job'[t].kind = "none"
      /\ \A u \in Threads : u # t => tpc'[u] = tpc[u] /\ job'[u] = job[u]
  BY <1>0, ReturnsFields, Zenon
<1>2. ~Owns(t)' /\ job'[t].kind # "recon"
  BY <1>1, SMTT(30) DEF Owns
<1>3. OwnInv'
  BY <1>0, <1>1, <1>2, OwnQuiet, Zenon
<1>4. RouteInv'
  BY <1>0, RouteLess, Zenon
<1>5. ConnectTypes'
  BY <1>0, <1>1, Zenon DEF ConnectTypes
<1>6. \A a : Kept(a) => Kept(a)'
  BY Zenon DEF Kept, Brings
<1>7. \A a : a \in again' => Kept(a)'
  BY Zenon DEF Kept
<1>8. \A a \in wanted' : t = "recon" /\ Trying(a) => Kept(a)'
  BY <1>7, Zenon DEF Trying
<1>9. KeptInv'
  BY <1>0, <1>1, <1>2, <1>6, <1>7, <1>8, KeptStep, Zenon
<1> QED
  BY <1>3, <1>4, <1>5, <1>9, Zenon DEF ConnectInv

\* A thread opens a socket.
LEMMA SocketStep ==
    ASSUME ConnectInv, NEW t \in Threads, Socket(t)
    PROVE  ConnectInv'
<1>0. ConnectTypes /\ OwnInv /\ RouteInv /\ KeptInv
  BY Zenon DEF ConnectInv
<1>1. /\ tpc[t] = "socket" /\ FreeFds # {} /\ Open(job[t].addr, "thread")
      /\ job' = [job EXCEPT ![t].fd = Lowest]
      /\ tpc' = [tpc EXCEPT ![t] = IF job[t].kind = "recv" THEN "create" ELSE "greet"]
      /\ UNCHANGED <<up, listVars>>
  BY Zenon DEF Socket, peerVars
<1>2. job[t] \in JobRec /\ job[t].addr \in Peers
  BY <1>0, JobFields, Zenon
<1>3. PICK f \in Fds : /\ f = Lowest /\ conn' \in [Fds -> ConnRec] /\ conn[f].st = "none"
                       /\ conn'[f].st = "thread" /\ conn'[f].addr = job[t].addr
                       /\ \A g \in Fds : g # f => conn'[g] = conn[g]
  BY <1>0, <1>1, <1>2, OpenFields, Zenon
<1>4. PICK v : v = [job[t] EXCEPT !.fd = f]
  BY Zenon
<1>5. v \in JobRec /\ v.kind = job[t].kind /\ v.addr = job[t].addr /\ v.fd = f
  BY <1>2, <1>4, SMTT(30) DEF JobRec
<1>6. job' = [job EXCEPT ![t] = v]
  BY <1>1, <1>3, <1>4, Zenon
<1>7. PICK pc \in {"create", "greet"} : pc = IF job[t].kind = "recv" THEN "create" ELSE "greet"
  BY SMTT(30)
<1>8. tpc' = [tpc EXCEPT ![t] = pc] /\ pc \in Places
  BY <1>1, <1>7, Zenon DEF Places
<1>9. tpc \in [Threads -> Places] /\ job \in [Threads -> JobRec]
  BY <1>0, Zenon DEF ConnectTypes
<1>10. /\ tpc' \in [Threads -> Places] /\ job' \in [Threads -> JobRec] /\ tpc'[t] = pc /\ job'[t] = v
       /\ \A u \in Threads : u # t => tpc'[u] = tpc[u] /\ job'[u] = job[u]
  BY <1>5, <1>6, <1>8, <1>9, SMTT(30)
<1>11. job'[t].kind = job[t].kind /\ job'[t].addr = job[t].addr /\ job'[t].fd = f
  BY <1>5, <1>10, Zenon
<1>12. ~Owns(t) /\ Owns(t)' /\ tpc'[t] \notin {"search", "routes", "idle", "failed"}
  BY <1>1, <1>7, <1>10, SMTT(30) DEF Owns
<1>13. OwnInv'
  <2>1. conn'[f].addr = job'[t].addr
    BY <1>3, <1>11, Zenon
  <2> QED
    BY <1>0, <1>3, <1>10, <1>11, <1>12, <2>1, OwnOpen, Zenon
<1>14. conn'[f].st # "routed" /\ conn[f].st \notin {"routed", "reset"}
  BY <1>3, SMTT(30)
<1>15. RouteInv'
  <2>1. \A g \in Fds : conn'[g].st = "routed" => conn[g].st = "routed" /\ conn'[g].addr = conn[g].addr
    BY <1>3, <1>14, Zenon
  <2> QED
    BY <1>0, <2>1, RouteLess, Zenon
<1>16. ListTypes' /\ again' = again /\ batch' = batch /\ wanted' = wanted
  BY <1>0, <1>1, ListsSame, Zenon
<1>17. ConnectTypes'
  BY <1>3, <1>10, <1>16, Zenon DEF ConnectTypes
<1>18. \A a : Kept(a) => Kept(a)'
  <2>1. \A g \in Fds : conn[g].join /\ conn[g].st \in {"routed", "reset"} =>
          conn'[g].addr = conn[g].addr /\ conn'[g].join /\ conn'[g].st \in {"routed", "reset"}
    BY <1>3, <1>14, Zenon
  <2> QED
    BY <1>16, <2>1, KeptGrows, Zenon
<1>19. job'[t].kind = "recon" => t = "recon" /\ tpc'[t] \notin {"search", "routes"}
  BY <1>0, <1>11, <1>12, Zenon DEF KeptInv
<1>20. \A a : t = "recon" /\ Trying(a) => Trying(a)'
  BY <1>11, <1>12, Zenon DEF Trying
<1>21. KeptInv'
  BY <1>0, <1>10, <1>16, <1>18, <1>19, <1>20, KeptStep, Zenon
<1> QED
  BY <1>13, <1>15, <1>17, <1>21, Zenon DEF ConnectInv

\* A thread puts its socket into the table.
LEMMA InsertStep ==
    ASSUME ConnectInv, NEW t \in Threads, Insert(t)
    PROVE  ConnectInv'
<1>0. ConnectTypes /\ OwnInv /\ RouteInv /\ KeptInv
  BY Zenon DEF ConnectInv
<1>1. /\ tpc[t] = "insert" /\ RoutedTo(job[t].addr) = {}
      /\ conn' = [conn EXCEPT ![job[t].fd].st = "routed", ![job[t].fd].join = TRUE]
      /\ wanted' = wanted \cup {job[t].addr}
      /\ again' = again /\ batch' = batch /\ up' = up /\ todo' = todo /\ heard' = heard
  BY Zenon DEF Insert, CanInsert, peerVars
<1>2. Owns(t)
  BY <1>1, SMTT(30) DEF Owns
<1>3. PICK a : a = job[t].addr
  BY Zenon
<1>4. PICK f \in Fds : f = job[t].fd /\ conn[f].st = "thread" /\ conn[f].addr = job[t].addr
  BY <1>0, <1>2, Zenon DEF OwnInv
<1>5. conn' = [conn EXCEPT ![f].st = "routed", ![f].join = TRUE] /\ conn \in [Fds -> ConnRec]
  BY <1>0, <1>1, <1>4, Zenon DEF ConnectTypes
<1>6. /\ conn' \in [Fds -> ConnRec] /\ conn'[f].st = "routed" /\ conn'[f].join
      /\ conn'[f].addr = conn[f].addr /\ \A g \in Fds : g # f => conn'[g] = conn[g]
  <2>1. PICK x : x = [conn[f] EXCEPT !.st = "routed"]
    BY Zenon
  <2>2. PICK v : v = [x EXCEPT !.join = TRUE]
    BY Zenon
  <2>3. conn[f] \in ConnRec
    BY <1>5, Zenon
  <2>4. x \in ConnRec /\ x.st = "routed" /\ x.addr = conn[f].addr
    <3>1. "routed" \in {"none", "thread", "client", "routed", "reset"}
      BY Zenon
    <3> QED
      BY <2>1, <2>3, <3>1, SetState, SMTT(30)
  <2>5. v \in ConnRec /\ v.st = x.st /\ v.join = TRUE /\ v.addr = x.addr
    BY <2>2, <2>4, SetJoin, Zenon
  <2>6. [conn EXCEPT ![f] = x][f] = x
    BY <1>5, <2>4, SMTT(30)
  <2>7. conn' = [[conn EXCEPT ![f] = x] EXCEPT ![f] = [[conn EXCEPT ![f] = x][f] EXCEPT !.join = TRUE]]
    BY <1>5, <2>1, Zenon
  <2>8. conn' = [[conn EXCEPT ![f] = x] EXCEPT ![f] = v]
    BY <2>2, <2>6, <2>7, Zenon
  <2>9. conn' \in [Fds -> ConnRec] /\ conn'[f] = v /\ \A g \in Fds : g # f => conn'[g] = conn[g]
    BY <1>0, <2>4, <2>5, <2>8, TwoUpdates, Zenon
  <2> QED
    BY <2>4, <2>5, <2>9, SMTT(30)
<1>7. /\ tpc' \in [Threads -> Places] /\ job' \in [Threads -> JobRec]
      /\ tpc'[t] \in {"routes", "idle"} /\ job'[t].kind # "recon"
      /\ \A u \in Threads : u # t => tpc'[u] = tpc[u] /\ job'[u] = job[u]
  <2>1. CASE job[t].kind = "add"
    <3>1. tpc' = [tpc EXCEPT ![t] = "routes"] /\ job' = [job EXCEPT ![t].fd = NoFd]
      BY <2>1, Zenon DEF Insert
    <3>2. tpc \in [Threads -> Places] /\ job \in [Threads -> JobRec] /\ "routes" \in Places
      BY <1>0, Zenon DEF ConnectTypes, Places
    <3>3. PICK v : v = [job[t] EXCEPT !.fd = NoFd]
      BY Zenon
    <3>4. job[t] \in JobRec
      BY <3>2, Zenon
    <3>5. v \in JobRec /\ v.kind = job[t].kind
      BY <3>3, <3>4, SMTT(30) DEF JobRec
    <3>6. job' = [job EXCEPT ![t] = v]
      BY <3>1, <3>3, Zenon
    <3>7. /\ tpc' \in [Threads -> Places] /\ job' \in [Threads -> JobRec]
          /\ tpc'[t] = "routes" /\ job'[t] = v
          /\ \A u \in Threads : u # t => tpc'[u] = tpc[u] /\ job'[u] = job[u]
      BY <3>1, <3>2, <3>5, <3>6, SMTT(30)
    <3>8. job'[t].kind = "add"
      BY <2>1, <3>5, <3>7, Zenon
    <3>9. job'[t].kind # "recon"
      BY <3>8, SMTT(30)
    <3> QED
      BY <3>7, <3>9, Zenon
  <2>2. CASE job[t].kind # "add"
    <3>1. Returns(t)
      BY <2>2, Zenon DEF Insert
    <3>2. /\ tpc' \in [Threads -> Places] /\ job' \in [Threads -> JobRec]
          /\ tpc'[t] = "idle" /\ job'[t].kind = "none"
          /\ \A u \in Threads : u # t => tpc'[u] = tpc[u] /\ job'[u] = job[u]
      BY <1>0, <3>1, ReturnsFields, Zenon
    <3>3. job'[t].kind # "recon"
      BY <3>2, SMTT(30)
    <3> QED
      BY <3>2, <3>3, Zenon
  <2> QED
    BY <2>1, <2>2, Zenon
<1>8. ~Owns(t)' /\ conn'[f].st # "thread" /\ conn[f].st \notin {"routed", "reset"}
  BY <1>4, <1>6, <1>7, SMTT(30) DEF Owns
<1>9. OwnInv'
  <2>1. f = job[t].fd
    BY <1>4, Zenon
  <2>2. \A g \in Fds : g # f => conn'[g] = conn[g]
    BY <1>6, Zenon
  <2>3. \A u \in Threads : u # t => tpc'[u] = tpc[u] /\ job'[u] = job[u]
    BY <1>7, Zenon
  <2>4. OwnInv /\ ~Owns(t)' /\ conn'[f].st # "thread"
    BY <1>0, <1>8, Zenon
  <2> QED
    BY <1>2, <2>1, <2>2, <2>3, <2>4, OwnEnd, Zenon
<1>10. conn'[f].addr = a /\ RoutedTo(a) = {}
  BY <1>1, <1>3, <1>4, <1>6, Zenon
<1>11. RouteInv'
  BY <1>0, <1>6, <1>10, RouteMore, Zenon
<1>12. ListTypes'
  BY <1>0, <1>1, Zenon DEF ConnectTypes, ListTypes
<1>13. ConnectTypes'
  BY <1>6, <1>7, <1>12, Zenon DEF ConnectTypes
<1>14. \A b : Kept(b) => Kept(b)'
  <2>1. \A g \in Fds : conn[g].join /\ conn[g].st \in {"routed", "reset"} =>
          conn'[g].addr = conn[g].addr /\ conn'[g].join /\ conn'[g].st \in {"routed", "reset"}
    BY <1>6, <1>8, Zenon
  <2> QED
    BY <1>1, <2>1, KeptGrows, Zenon
<1>15. Kept(a)'
  BY <1>6, <1>10, Zenon DEF Kept, Brings
<1>16. \A b : t = "recon" /\ Trying(b) => Kept(b)'
  BY <1>15, <1>3, Zenon DEF Trying
<1>17. \A b \in wanted' : b \notin wanted => Kept(b)'
  BY <1>1, <1>15, <1>3, Zenon
<1>18. KeptInv'
  BY <1>0, <1>7, <1>14, <1>16, <1>17, KeptStep, Zenon
<1> QED
  BY <1>9, <1>11, <1>13, <1>18, Zenon DEF ConnectInv

-----------------------------------------------------------------------------
(* The steps of the network. *)

\* What happens to one connection that is not a thread's.
LEMMA NetStep ==
    ASSUME ConnectInv, NEW f \in Fds, UNCHANGED <<up, threadVars>>,
           ListTypes', wanted' \subseteq wanted, conn' \in [Fds -> ConnRec],
           conn[f].st # "thread", conn'[f].st # "thread",
           \A g \in Fds : g # f => conn'[g] = conn[g],
           conn'[f].st = "routed" => conn'[f].addr = conn[f].addr /\ (conn[f].st = "routed" \/ RoutedTo(conn[f].addr) = {}),
           \A a \in wanted' : Kept(a) => Kept(a)'
    PROVE  ConnectInv'
<1>0. ConnectTypes /\ OwnInv /\ RouteInv /\ KeptInv
  BY Zenon DEF ConnectInv
<1>1. tpc' = tpc /\ job' = job
  BY Zenon DEF threadVars
<1>2. ConnectTypes'
  BY <1>0, <1>1, Zenon DEF ConnectTypes
<1>3. \A g \in Fds : /\ conn'[g].st = "thread" <=> conn[g].st = "thread"
                     /\ conn[g].st = "thread" => conn'[g].addr = conn[g].addr
  BY Zenon
<1>4. OwnInv'
  BY <1>0, <1>1, <1>3, OwnConn, Zenon
<1>5. RouteInv'
  <2>1. CASE conn'[f].st = "routed" /\ conn[f].st # "routed"
    BY <1>0, <2>1, RouteMore, Zenon
  <2>2. CASE ~(conn'[f].st = "routed" /\ conn[f].st # "routed")
    <3>1. \A g \in Fds : conn'[g].st = "routed" => conn[g].st = "routed" /\ conn'[g].addr = conn[g].addr
      BY <2>2, Zenon
    <3> QED
      BY <1>0, <3>1, RouteLess, Zenon
  <2> QED
    BY <2>1, <2>2, Zenon
<1>6. KeptInv'
  BY <1>0, <1>1, KeptConn, Zenon
<1> QED
  BY <1>2, <1>4, <1>5, <1>6, Zenon DEF ConnectInv

LEMMA AcceptStep ==
    ASSUME ConnectInv, NEW a \in Peers, AcceptClient(a)
    PROVE  ConnectInv'
<1>0. ConnectTypes
  BY Zenon DEF ConnectInv
<1>1. FreeFds # {} /\ Open(a, "client") /\ UNCHANGED <<up, threadVars, listVars>>
  BY Zenon DEF AcceptClient, peerVars
<1>2. PICK f \in Fds : /\ conn' \in [Fds -> ConnRec] /\ conn[f].st = "none" /\ conn'[f].st = "client"
                       /\ \A g \in Fds : g # f => conn'[g] = conn[g]
  BY <1>0, <1>1, OpenFields, Zenon
<1>3. ListTypes' /\ again' = again /\ batch' = batch /\ wanted' = wanted
  BY <1>0, <1>1, ListsSame, Zenon
<1>4. conn[f].st # "thread" /\ conn'[f].st # "thread" /\ conn'[f].st # "routed" /\ conn[f].st \notin {"routed", "reset"}
  BY <1>2, SMTT(30)
<1>5. \A b : Kept(b) => Kept(b)'
  <2>1. \A g \in Fds : conn[g].join /\ conn[g].st \in {"routed", "reset"} =>
          conn'[g].addr = conn[g].addr /\ conn'[g].join /\ conn'[g].st \in {"routed", "reset"}
    BY <1>2, <1>4, Zenon
  <2> QED
    BY <1>3, <2>1, KeptGrows, Zenon
<1> QED
  BY <1>1, <1>2, <1>3, <1>4, <1>5, NetStep, Zenon

LEMMA JoinStep ==
    ASSUME ConnectInv, NEW f \in Fds, Join(f)
    PROVE  ConnectInv'
<1>0. ConnectTypes
  BY Zenon DEF ConnectInv
<1>1. /\ conn[f].st = "client" /\ RoutedTo(conn[f].addr) = {}
      /\ conn' = [conn EXCEPT ![f].st = "routed"] /\ wanted' = wanted \ {conn[f].addr}
      /\ UNCHANGED <<up, threadVars>> /\ todo' = todo /\ again' = again /\ batch' = batch /\ heard' = heard
  BY Zenon DEF Join, CanInsert, peerVars
<1>2. PICK x : x = [conn[f] EXCEPT !.st = "routed"]
  BY Zenon
<1>3. conn[f] \in ConnRec /\ conn \in [Fds -> ConnRec]
  BY <1>0, ConnFields, Zenon DEF ConnectTypes
<1>4. x \in ConnRec /\ x.st = "routed" /\ x.addr = conn[f].addr
  <2>1. "routed" \in {"none", "thread", "client", "routed", "reset"}
    BY Zenon
  <2> QED
    BY <1>2, <1>3, <2>1, SetState, SMTT(30)
<1>5. conn' = [conn EXCEPT ![f] = x]
  BY <1>1, <1>2, Zenon
<1>6. conn' \in [Fds -> ConnRec] /\ conn'[f] = x /\ \A g \in Fds : g # f => conn'[g] = conn[g]
  BY <1>3, <1>4, <1>5, SMTT(30)
<1>7. /\ conn[f].st # "thread" /\ conn'[f].st # "thread" /\ conn'[f].addr = conn[f].addr
      /\ conn[f].st \notin {"routed", "reset"}
  BY <1>1, <1>4, <1>6, SMTT(30)
<1>8. ListTypes' /\ wanted' \subseteq wanted
  BY <1>0, <1>1, Zenon DEF ConnectTypes, ListTypes
<1>9. \A b : Kept(b) => Kept(b)'
  <2>1. \A g \in Fds : conn[g].join /\ conn[g].st \in {"routed", "reset"} =>
          conn'[g].addr = conn[g].addr /\ conn'[g].join /\ conn'[g].st \in {"routed", "reset"}
    BY <1>6, <1>7, Zenon
  <2> QED
    BY <1>1, <2>1, KeptGrows, Zenon
<1> QED
  BY <1>1, <1>6, <1>7, <1>8, <1>9, NetStep, Zenon

LEMMA AuthRefusedStep ==
    ASSUME ConnectInv, NEW f \in Fds, AuthRefused(f)
    PROVE  ConnectInv'
<1>0. ConnectTypes
  BY Zenon DEF ConnectInv
<1>1. /\ conn[f].st = "routed" /\ conn' = [conn EXCEPT ![f].join = FALSE, ![f].cut = TRUE]
      /\ wanted' = wanted \ {conn[f].addr}
      /\ UNCHANGED <<up, threadVars>> /\ todo' = todo /\ again' = again /\ batch' = batch /\ heard' = heard
  BY Zenon DEF AuthRefused
<1>2. PICK x : x = [conn[f] EXCEPT !.join = FALSE]
  BY Zenon
<1>3. PICK v : v = [x EXCEPT !.cut = TRUE]
  BY Zenon
<1>4. conn[f] \in ConnRec /\ conn \in [Fds -> ConnRec]
  BY <1>0, ConnFields, Zenon DEF ConnectTypes
<1>5. x \in ConnRec /\ x.st = conn[f].st /\ x.addr = conn[f].addr
  <2>1. PICK b \in BOOLEAN : b = FALSE
    BY Zenon
  <2>2. x = [conn[f] EXCEPT !.join = b]
    BY <1>2, <2>1, Zenon
  <2> QED
    BY <1>4, <2>2, SetJoin, SMTT(30)
<1>6. v \in ConnRec /\ v.st = x.st /\ v.addr = x.addr
  BY <1>3, <1>5, SetCut, Zenon
<1>7. [conn EXCEPT ![f] = x][f] = x
  BY <1>4, <1>5, SMTT(30)
<1>8. conn' = [[conn EXCEPT ![f] = x] EXCEPT ![f] = [[conn EXCEPT ![f] = x][f] EXCEPT !.cut = TRUE]]
  BY <1>1, <1>2, Zenon
<1>9. conn' = [[conn EXCEPT ![f] = x] EXCEPT ![f] = v]
  BY <1>3, <1>7, <1>8, Zenon
<1>10. conn' \in [Fds -> ConnRec] /\ conn'[f] = v /\ \A g \in Fds : g # f => conn'[g] = conn[g]
  BY <1>0, <1>5, <1>6, <1>9, TwoUpdates, Zenon
<1>11. conn[f].st # "thread" /\ conn'[f].st # "thread" /\ conn'[f].addr = conn[f].addr
  BY <1>1, <1>5, <1>6, <1>10, SMTT(30)
<1>12. ListTypes' /\ wanted' \subseteq wanted
  BY <1>0, <1>1, Zenon DEF ConnectTypes, ListTypes
<1>13. ASSUME NEW b \in wanted', Kept(b) PROVE Kept(b)'
  <2>1. b # conn[f].addr
    BY <1>1, <1>13, Zenon
  <2>2. CASE b \in again \cup batch
    BY <1>1, <2>2, Zenon DEF Kept
  <2>3. CASE \E g \in Fds : Brings(g, b)
    <3>1. PICK g \in Fds : Brings(g, b)
      BY <2>3, Zenon
    <3>2. g # f
      BY <2>1, <3>1, Zenon DEF Brings
    <3>3. Brings(g, b)'
      BY <1>10, <3>1, <3>2, Zenon DEF Brings
    <3> QED
      BY <3>3, Zenon DEF Kept
  <2> QED
    BY <1>13, <2>2, <2>3, Zenon DEF Kept
<1> QED
  <2>1. /\ conn' \in [Fds -> ConnRec] /\ \A g \in Fds : g # f => conn'[g] = conn[g]
        /\ UNCHANGED <<up, threadVars>> /\ conn[f].st = "routed"
    BY <1>1, <1>10, Zenon
  <2> QED
    BY <1>11, <1>12, <1>13, <2>1, NetStep, Zenon

LEMMA NetResetStep ==
    ASSUME ConnectInv, NEW f \in Fds, NetReset(f)
    PROVE  ConnectInv'
<1>0. ConnectTypes
  BY Zenon DEF ConnectInv
<1>1. /\ conn[f].st \in {"routed", "client"} /\ conn' = [conn EXCEPT ![f].st = "reset", ![f].cut = TRUE]
      /\ UNCHANGED <<up, threadVars, listVars>>
  BY Zenon DEF NetReset, peerVars
<1>2. PICK x : x = [conn[f] EXCEPT !.st = "reset"]
  BY Zenon
<1>3. PICK v : v = [x EXCEPT !.cut = TRUE]
  BY Zenon
<1>4. conn[f] \in ConnRec /\ conn \in [Fds -> ConnRec]
  BY <1>0, ConnFields, Zenon DEF ConnectTypes
<1>5. x \in ConnRec /\ x.st = "reset" /\ x.addr = conn[f].addr /\ x.join = conn[f].join
  <2>1. "reset" \in {"none", "thread", "client", "routed", "reset"}
    BY Zenon
  <2> QED
    BY <1>2, <1>4, <2>1, SetState, SMTT(30)
<1>6. v \in ConnRec /\ v.st = x.st /\ v.addr = x.addr /\ v.join = x.join
  BY <1>3, <1>5, SetCut, Zenon
<1>7. [conn EXCEPT ![f] = x][f] = x
  BY <1>4, <1>5, SMTT(30)
<1>8. conn' = [[conn EXCEPT ![f] = x] EXCEPT ![f] = [[conn EXCEPT ![f] = x][f] EXCEPT !.cut = TRUE]]
  BY <1>1, <1>2, Zenon
<1>9. conn' = [[conn EXCEPT ![f] = x] EXCEPT ![f] = v]
  BY <1>3, <1>7, <1>8, Zenon
<1>10. conn' \in [Fds -> ConnRec] /\ conn'[f] = v /\ \A g \in Fds : g # f => conn'[g] = conn[g]
  BY <1>0, <1>5, <1>6, <1>9, TwoUpdates, Zenon
<1>11. conn[f].st # "thread" /\ conn'[f].st = "reset" /\ conn'[f].st # "thread" /\ conn'[f].st # "routed"
  BY <1>1, <1>5, <1>6, <1>10, SMTT(30)
<1>12. conn'[f].addr = conn[f].addr /\ conn'[f].join = conn[f].join
  BY <1>5, <1>6, <1>10, Zenon
<1>13. ListTypes' /\ again' = again /\ batch' = batch /\ wanted' = wanted
  BY <1>0, <1>1, ListsSame, Zenon
<1>14. \A b : Kept(b) => Kept(b)'
  <2>1. \A g \in Fds : conn[g].join /\ conn[g].st \in {"routed", "reset"} =>
          conn'[g].addr = conn[g].addr /\ conn'[g].join /\ conn'[g].st \in {"routed", "reset"}
    BY <1>10, <1>11, <1>12, Zenon
  <2> QED
    BY <1>13, <2>1, KeptGrows, Zenon
<1> QED
  <2>1. /\ conn' \in [Fds -> ConnRec] /\ \A g \in Fds : g # f => conn'[g] = conn[g]
        /\ UNCHANGED <<up, threadVars>>
    BY <1>1, <1>10, Zenon
  <2> QED
    BY <1>11, <1>13, <1>14, <2>1, NetStep, Zenon

LEMMA NetDestroyStep ==
    ASSUME ConnectInv, NEW f \in Fds, NetDestroy(f)
    PROVE  ConnectInv'
<1>0. ConnectTypes
  BY Zenon DEF ConnectInv
<1>1. /\ conn[f].st = "reset" /\ Close(f) /\ UNCHANGED <<up, threadVars>>
      /\ again' = IF conn[f].join THEN again \cup {conn[f].addr} ELSE again
      /\ todo' = todo /\ batch' = batch /\ heard' = heard /\ wanted' = wanted
  BY Zenon DEF NetDestroy, Relist, peerVars
<1>2. conn[f].addr \in Peers
  BY <1>0, ConnFields, Zenon
<1>3. /\ conn' \in [Fds -> ConnRec] /\ conn'[f].st = "none"
      /\ \A g \in Fds : g # f => conn'[g] = conn[g]
  BY <1>0, <1>1, CloseFields, Zenon
<1>4. conn[f].st # "thread" /\ conn'[f].st # "thread" /\ conn'[f].st # "routed"
  BY <1>1, <1>3, SMTT(30)
<1>5. /\ \A b \in again : b \in again'
      /\ conn[f].join => conn[f].addr \in again'
      /\ \A b \in again' : b \in again \/ b = conn[f].addr
  BY <1>1, Zenon
<1>6. ListTypes'
  BY <1>0, <1>1, <1>2, <1>5, Zenon DEF ConnectTypes, ListTypes
<1>7. ASSUME NEW b, Kept(b) PROVE Kept(b)'
  <2>1. CASE b \in again \cup batch
    BY <1>1, <1>5, <2>1, Zenon DEF Kept
  <2>2. CASE \E g \in Fds : Brings(g, b)
    <3>1. PICK g \in Fds : Brings(g, b)
      BY <2>2, Zenon
    <3>2. CASE g = f
      BY <1>5, <3>1, <3>2, Zenon DEF Brings, Kept
    <3>3. CASE g # f
      BY <1>3, <3>1, <3>3, Zenon DEF Brings, Kept
    <3> QED
      BY <3>2, <3>3, Zenon
  <2> QED
    BY <1>7, <2>1, <2>2, Zenon DEF Kept
<1>8. wanted' \subseteq wanted
  BY <1>1, Zenon
<1> QED
  <2>1. /\ conn' \in [Fds -> ConnRec] /\ \A g \in Fds : g # f => conn'[g] = conn[g]
        /\ UNCHANGED <<up, threadVars>>
    BY <1>1, <1>3, Zenon
  <2> QED
    BY <1>4, <1>6, <1>7, <1>8, <2>1, NetStep, Zenon

\* A peer goes down: its connections are cut, and are for the threads to find.
LEMMA CrashStep ==
    ASSUME ConnectInv, NEW a, Crash(a)
    PROVE  ConnectInv'
<1>0. ConnectTypes /\ OwnInv /\ RouteInv /\ KeptInv
  BY Zenon DEF ConnectInv
<1>1. /\ up' = up \ {a} /\ UNCHANGED <<threadVars, listVars>>
      /\ conn' = [f \in Fds |-> IF conn[f].addr = a THEN [conn[f] EXCEPT !.cut = TRUE] ELSE conn[f]]
  BY Zenon DEF Crash
<1>2. /\ tpc' = tpc /\ job' = job /\ todo' = todo /\ again' = again /\ batch' = batch
      /\ heard' = heard /\ wanted' = wanted
  BY <1>1, Zenon DEF threadVars, listVars
<1>3. ASSUME NEW f \in Fds
      PROVE  /\ conn'[f] \in ConnRec /\ conn'[f].st = conn[f].st /\ conn'[f].addr = conn[f].addr
             /\ conn'[f].join = conn[f].join
  <2>1. conn[f] \in ConnRec
    BY <1>0, ConnFields, Zenon
  <2>2. PICK v : v = [conn[f] EXCEPT !.cut = TRUE]
    BY Zenon
  <2>3. v \in ConnRec /\ v.st = conn[f].st /\ v.addr = conn[f].addr /\ v.join = conn[f].join
    BY <2>1, <2>2, SetCut, Zenon
  <2>4. conn'[f] = IF conn[f].addr = a THEN v ELSE conn[f]
    BY <1>1, <2>2, Zenon
  <2>5. CASE conn[f].addr = a
    BY <2>3, <2>4, <2>5, SMTT(30)
  <2>6. CASE conn[f].addr # a
    BY <2>1, <2>4, <2>6, SMTT(30)
  <2> QED
    BY <2>5, <2>6, Zenon
<1>4. conn' \in [Fds -> ConnRec]
  BY <1>1, <1>3, SMTT(30)
<1>5. ListTypes'
  BY <1>0, <1>1, <1>2, Zenon DEF ConnectTypes, ListTypes
<1>6. ConnectTypes'
  BY <1>0, <1>2, <1>4, <1>5, Zenon DEF ConnectTypes
<1>7. OwnInv'
  BY <1>0, <1>2, <1>3, OwnConn, Zenon
<1>8. RouteInv'
  BY <1>0, <1>3, RouteLess, Zenon
<1>9. \A b : Kept(b) => Kept(b)'
  BY <1>2, <1>3, KeptGrows, Zenon
<1>10. KeptInv'
  BY <1>0, <1>2, <1>9, KeptConn, Zenon
<1> QED
  BY <1>6, <1>7, <1>8, <1>10, Zenon DEF ConnectInv

\* Steps that leave connections and threads alone.
LEMMA ListStep ==
    ASSUME ConnectInv, ListTypes', conn' = conn, tpc' = tpc, job' = job, wanted' = wanted,
           \A a \in again \cup batch : a \in again' \cup batch'
    PROVE  ConnectInv'
<1>0. ConnectTypes /\ OwnInv /\ RouteInv /\ KeptInv
  BY Zenon DEF ConnectInv
<1>1. ConnectTypes'
  BY <1>0, Zenon DEF ConnectTypes
<1>2. OwnInv'
  BY <1>0, OwnConn, Zenon
<1>3. RouteInv'
  BY <1>0, RouteLess, Zenon
<1>4. \A a : Kept(a) => Kept(a)'
  BY Zenon DEF Kept, Brings
<1>5. KeptInv'
  BY <1>0, <1>4, KeptConn, Zenon
<1> QED
  BY <1>1, <1>2, <1>3, <1>5, Zenon DEF ConnectInv

-----------------------------------------------------------------------------
(* The actions. *)

\* What a thread does about the address it was given.
LEMMA ConnectingStep ==
    ASSUME ConnectInv, NEW t \in Threads, Connecting(t)
    PROVE  ConnectInv'
<1>0. ConnectTypes /\ OwnInv /\ KeptInv
  BY Zenon DEF ConnectInv
<1>1. CASE SearchState(t)
  <2>1. tpc[t] = "search" /\ conn' = conn /\ UNCHANGED <<up, listVars>> /\ (Returns(t) \/ Goes(t, "socket"))
    BY <1>1, Zenon DEF SearchState, peerVars, sockVars
  <2>2. ListTypes' /\ again' = again /\ batch' = batch /\ wanted' = wanted
    BY <1>0, <2>1, ListsSame, Zenon
  <2>3. ~Owns(t) /\ tpc[t] \notin {"idle", "failed"}
    BY <2>1, SMTT(30) DEF Owns
  <2>4. CASE Returns(t)
    <3>1. job[t].kind # "recon"
      BY <1>0, <2>1, Zenon DEF KeptInv
    <3> QED
      BY <2>1, <2>2, <2>3, <2>4, <3>1, ReturnStep, Zenon
  <2>5. CASE Goes(t, "socket")
    BY <2>1, <2>3, <2>5, GoStep, Zenon
  <2> QED
    BY <2>1, <2>4, <2>5, Zenon
<1>2. CASE Socket(t)
  BY <1>2, SocketStep, Zenon
<1>3. ASSUME NEW err \in {"nofile", "refused", "timeout"}, SocketFails(t, err)
      PROVE  ConnectInv'
  <2>1. tpc[t] = "socket" /\ conn' = conn /\ UNCHANGED <<up, listVars>> /\ Fails(t, err)
    BY <1>3, Zenon DEF SocketFails, peerVars, sockVars
  <2>2. ~Owns(t) /\ tpc[t] \notin {"idle", "failed"} /\ err \in Errors /\ err # "exists"
    BY <2>1, SMTT(30) DEF Owns, Errors
  <2> QED
    BY <2>1, <2>2, FailStep, Zenon
<1>4. CASE Greet(t)
  <2>1. tpc[t] = "greet" /\ conn' = conn /\ UNCHANGED <<up, listVars>> /\ Goes(t, "create")
    BY <1>4, Zenon DEF Greet, peerVars, sockVars
  <2>2. Owns(t) /\ tpc[t] \notin {"idle", "failed"} /\ "create" # "socket"
    BY <2>1, SMTT(30) DEF Owns
  <2> QED
    BY <2>1, <2>2, GoStep, Zenon
<1>5. ASSUME NEW err \in {"reset", "invalid", "none"}, GreetFails(t, err)
      PROVE  ConnectInv'
  <2>1. tpc[t] = "greet" /\ Close(job[t].fd) /\ UNCHANGED <<up, listVars>> /\ Fails(t, err)
    BY <1>5, Zenon DEF GreetFails
  <2>2. Owns(t) /\ tpc[t] \notin {"idle", "failed"} /\ err \in Errors /\ err # "exists"
    BY <2>1, SMTT(30) DEF Owns, Errors
  <2> QED
    BY <2>1, <2>2, FailStep, Zenon
<1>6. CASE Create(t)
  <2>1. tpc[t] = "create" /\ conn' = conn /\ UNCHANGED <<up, listVars>> /\ Goes(t, "insert")
    BY <1>6, Zenon DEF Create, peerVars, sockVars
  <2>2. Owns(t) /\ tpc[t] \notin {"idle", "failed"} /\ "insert" # "socket"
    BY <2>1, SMTT(30) DEF Owns
  <2> QED
    BY <2>1, <2>2, GoStep, Zenon
<1>7. CASE CreateExists(t) \/ InsertExists(t)
  <2>1. /\ tpc[t] \in {"create", "insert"} /\ Close(job[t].fd) /\ UNCHANGED <<up, listVars>>
        /\ Fails(t, Exists(job[t].addr))
    BY <1>7, Zenon DEF CreateExists, InsertExists, peerVars
  <2>2. Owns(t) /\ tpc[t] \notin {"idle", "failed"}
    BY <2>1, SMTT(30) DEF Owns
  <2>3. PICK err : err = Exists(job[t].addr)
    BY Zenon
  <2>4. err \in {"exists", "joined"}
    BY <2>3, Zenon DEF Exists
  <2>5. err \in Errors
    BY <2>4, SMTT(30) DEF Errors
  <2>6. ASSUME err = "exists" PROVE \E g \in Fds : Brings(g, job[t].addr)
    <3>1. \E f \in RoutedTo(job[t].addr) : conn[f].join
      <4>1. "exists" # "joined"
        OBVIOUS
      <4> QED
        BY <2>3, <2>6, <4>1, Zenon DEF Exists
    <3> QED
      BY <3>1, Zenon DEF RoutedTo, Brings
  <2>7. Fails(t, err)
    BY <2>1, <2>3, Zenon
  <2> QED
    BY <2>1, <2>2, <2>5, <2>6, <2>7, FailStep, Zenon
<1>8. CASE Insert(t)
  BY <1>8, InsertStep, Zenon
<1>9. CASE Routes(t)
  <2>1. /\ tpc[t] = "routes" /\ conn' = conn /\ Returns(t)
        /\ up' = up /\ todo' = todo /\ again' = again /\ batch' = batch /\ wanted' = wanted
        /\ (heard' = heard \cup up \/ heard' = heard)
    BY <1>9, Zenon DEF Routes, Told, peerVars, sockVars
  <2>2. ListTypes'
    BY <1>0, <2>1, Zenon DEF ConnectTypes, ListTypes
  <2>3. ~Owns(t)
    BY <2>1, SMTT(30) DEF Owns
  <2>4. job[t].kind # "recon"
    BY <1>0, <2>1, Zenon DEF KeptInv
  <2> QED
    BY <2>1, <2>2, <2>3, <2>4, ReturnStep, Zenon
<1>10. CASE AddFailed(t)
  <2>1. PICK listed : listed = IF job[t].err \in {"refused", "reset"} THEN {job[t].addr} ELSE {}
    BY Zenon
  <2>2. /\ tpc[t] = "failed" /\ job[t].kind = "add" /\ conn' = conn /\ Returns(t)
        /\ up' = up /\ todo' = todo /\ batch' = batch /\ heard' = heard
        /\ again' = again \cup listed /\ wanted' = wanted \cup listed
    BY <1>10, <2>1, Zenon DEF AddFailed, peerVars, sockVars
  <2>3. job[t].addr \in Peers
    BY <1>0, JobFields, Zenon
  <2>4. \A a \in listed : a \in Peers
    BY <2>1, <2>3, Zenon
  <2>5. ListTypes'
    BY <1>0, <2>2, <2>4, Zenon DEF ConnectTypes, ListTypes
  <2>6. ~Owns(t) /\ job[t].kind # "recon"
    BY <2>2, SMTT(30) DEF Owns
  <2>7. /\ \A a \in again \cup batch : a \in again' \cup batch'
        /\ \A a \in wanted' : a \notin wanted => a \in again'
    BY <2>2, Zenon
  <2> QED
    BY <2>2, <2>5, <2>6, <2>7, ReturnStep, Zenon
<1>11. CASE RecvFailed(t)
  <2>1. tpc[t] = "failed" /\ job[t].kind = "recv" /\ conn' = conn /\ Returns(t) /\ UNCHANGED <<up, listVars>>
    BY <1>11, Zenon DEF RecvFailed, CloseAgain, peerVars
  <2>2. ListTypes' /\ again' = again /\ batch' = batch /\ wanted' = wanted
    BY <1>0, <2>1, ListsSame, Zenon
  <2>3. ~Owns(t) /\ job[t].kind # "recon"
    BY <2>1, SMTT(30) DEF Owns
  <2> QED
    BY <2>1, <2>2, <2>3, ReturnStep, Zenon
<1>12. CASE ReconFailed(t)
  <2>1. /\ tpc[t] = "failed" /\ job[t].kind = "recon" /\ conn' = conn /\ Returns(t)
        /\ again' = IF Retries(job[t].err) THEN again \cup {job[t].addr} ELSE again
        /\ wanted' = IF job[t].err \in {"joined", "invalid"} THEN wanted \ {job[t].addr} ELSE wanted
        /\ up' = up /\ todo' = todo /\ batch' = batch /\ heard' = heard
    BY <1>12, Zenon DEF ReconFailed, CloseAgain, peerVars
  <2>2. job[t].addr \in Peers
    BY <1>0, JobFields, Zenon
  <2>3. /\ \A a \in again : a \in again'
        /\ \A a \in again' : a \in again \/ a = job[t].addr
        /\ \A a \in wanted' : a \in wanted
    BY <2>1, Zenon
  <2>4. ListTypes'
    BY <1>0, <2>1, <2>2, <2>3, Zenon DEF ConnectTypes, ListTypes
  <2>5. ~Owns(t)
    BY <2>1, SMTT(30) DEF Owns
  <2>6. ASSUME NEW a \in wanted', Trying(a) PROVE a \in again'
    <3>1. t = "recon"
      BY <1>0, <2>1, Zenon DEF KeptInv
    <3>2. job[t].addr = a /\ job[t].err # "exists"
      BY <2>1, <2>6, <3>1, Zenon DEF Trying
    <3>3. job[t].err \notin {"joined", "invalid"}
      BY <2>1, <2>6, <3>2, Zenon
    <3>4. Retries(job[t].err)
      BY <3>2, <3>3, Zenon DEF Retries
    <3> QED
      BY <2>1, <3>2, <3>4, Zenon
  <2>7. \A a \in again \cup batch : a \in again' \cup batch'
    BY <2>1, <2>3, Zenon
  <2> QED
    BY <2>1, <2>3, <2>4, <2>5, <2>6, <2>7, ReturnStep, Zenon
<1> QED
  BY <1>1, <1>2, <1>3, <1>4, <1>5, <1>6, <1>7, <1>8, <1>9, <1>10, <1>11, <1>12, Zenon DEF Connecting

LEMMA NextStep ==
    ASSUME ConnectInv, [ConnectNext]_connectVars
    PROVE  ConnectInv'
<1>0. ConnectTypes /\ ListTypes
  BY Zenon DEF ConnectInv, ConnectTypes
<1>1. ASSUME UNCHANGED connectVars PROVE ConnectInv'
  <2>1. /\ conn' = conn /\ tpc' = tpc /\ job' = job /\ up' = up /\ todo' = todo /\ again' = again
        /\ batch' = batch /\ heard' = heard /\ wanted' = wanted
    BY <1>1, Zenon DEF connectVars, peerVars, sockVars, threadVars, listVars
  <2>2. ListTypes'
    BY <1>0, <2>1, Zenon DEF ListTypes
  <2> QED
    BY <2>1, <2>2, ListStep, Zenon
<1>2. ASSUME NEW t \in Threads, Connecting(t) PROVE ConnectInv'
  BY <1>2, ConnectingStep, Zenon
<1>3. ASSUME NEW a \in Addrs, AddState(a) PROVE ConnectInv'
  <2>1. /\ tpc["main"] = "idle" /\ todo' = todo \ {a} /\ Begins("main", a, "add") /\ conn' = conn
        /\ up' = up /\ again' = again /\ batch' = batch /\ heard' = heard /\ wanted' = wanted
    BY <1>3, Zenon DEF AddState, peerVars, sockVars
  <2>2. ListTypes'
    BY <1>0, <2>1, Zenon DEF ListTypes
  <2>3. a \in Peers /\ "main" \in Threads
    BY Zenon DEF Peers, Threads
  <2>4. "add" # "recon"
    OBVIOUS
  <2> QED
    BY <2>1, <2>2, <2>3, <2>4, BeginStep, Zenon
<1>4. ASSUME NEW a \in Addrs, ReconDiscovers(a) PROVE ConnectInv'
  <2>1. tpc["recon"] = "idle" /\ Begins("recon", a, "add") /\ conn' = conn /\ UNCHANGED <<up, listVars>>
    BY <1>4, Zenon DEF ReconDiscovers, peerVars, sockVars
  <2>2. ListTypes' /\ again' = again /\ batch' = batch /\ wanted' = wanted
    BY <1>0, <2>1, ListsSame, Zenon
  <2>3. a \in Peers /\ "recon" \in Threads
    BY Zenon DEF Peers, Threads
  <2>4. "add" # "recon"
    OBVIOUS
  <2> QED
    BY <2>1, <2>2, <2>3, <2>4, BeginStep, Zenon
<1>5. ASSUME NEW a \in Addrs, RouteReply(a) PROVE ConnectInv'
  <2>1. /\ tpc["io"] = "idle" /\ heard' = heard \ {a} /\ Begins("io", a, "recv") /\ conn' = conn
        /\ up' = up /\ todo' = todo /\ again' = again /\ batch' = batch /\ wanted' = wanted
    BY <1>5, Zenon DEF RouteReply, peerVars, sockVars
  <2>2. ListTypes'
    BY <1>0, <2>1, Zenon DEF ListTypes
  <2>3. a \in Peers /\ "io" \in Threads
    BY Zenon DEF Peers, Threads
  <2>4. "recv" # "recon"
    OBVIOUS
  <2> QED
    BY <2>1, <2>2, <2>3, <2>4, BeginStep, Zenon
<1>6. ASSUME NEW a \in Addrs, AcceptClient(a) PROVE ConnectInv'
  <2>1. a \in Peers
    BY Zenon DEF Peers
  <2> QED
    BY <1>6, <2>1, AcceptStep, Zenon
<1>7. ASSUME NEW a \in Addrs, Crash(a) PROVE ConnectInv'
  BY <1>7, CrashStep, Zenon
<1>8. ASSUME NEW a \in Addrs, Restart(a) PROVE ConnectInv'
  <2>1. /\ up' = up \cup {a} /\ conn' = conn /\ tpc' = tpc /\ job' = job /\ todo' = todo
        /\ again' = again /\ batch' = batch /\ heard' = heard /\ wanted' = wanted
    BY <1>8, Zenon DEF Restart, sockVars, threadVars, listVars
  <2>2. ListTypes'
    BY <1>0, <2>1, Zenon DEF ListTypes, Peers
  <2> QED
    BY <2>1, <2>2, ListStep, Zenon
<1>9. ASSUME NEW f \in Fds, Network(f) PROVE ConnectInv'
  BY <1>9, NetResetStep, NetDestroyStep, Zenon DEF Network
<1>10. ASSUME NEW f \in Fds, Join(f) PROVE ConnectInv'
  BY <1>10, JoinStep, Zenon
<1>11. ASSUME NEW f \in Fds, AuthRefused(f) PROVE ConnectInv'
  BY <1>11, AuthRefusedStep, Zenon
<1>12. ASSUME NEW f \in Fds, ReconRoutes(f) PROVE ConnectInv'
  <2>1. /\ heard' = heard \cup up /\ up' = up /\ conn' = conn /\ tpc' = tpc /\ job' = job
        /\ todo' = todo /\ again' = again /\ batch' = batch /\ wanted' = wanted
    BY <1>12, Zenon DEF ReconRoutes, Told, peerVars, sockVars, threadVars
  <2>2. ListTypes'
    BY <1>0, <2>1, Zenon DEF ListTypes
  <2> QED
    BY <2>1, <2>2, ListStep, Zenon
<1>13. ASSUME ReconTake PROVE ConnectInv'
  <2>1. /\ batch = {} /\ batch' = again /\ again' = {} /\ up' = up /\ conn' = conn /\ tpc' = tpc
        /\ job' = job /\ todo' = todo /\ heard' = heard /\ wanted' = wanted
    BY <1>13, Zenon DEF ReconTake, peerVars, sockVars, threadVars
  <2>2. ListTypes'
    BY <1>0, <2>1, Zenon DEF ListTypes
  <2>3. \A a \in again \cup batch : a \in again' \cup batch'
    BY <2>1, Zenon
  <2> QED
    BY <2>1, <2>2, <2>3, ListStep, Zenon
<1>14. ASSUME NEW a \in Addrs, ReconTry(a) PROVE ConnectInv'
  <2>1. /\ tpc["recon"] = "idle" /\ batch' = batch \ {a} /\ Begins("recon", a, "recon") /\ conn' = conn
        /\ up' = up /\ todo' = todo /\ again' = again /\ heard' = heard /\ wanted' = wanted
    BY <1>14, Zenon DEF ReconTry, peerVars, sockVars
  <2>2. ListTypes'
    BY <1>0, <2>1, Zenon DEF ListTypes
  <2>3. a \in Peers /\ "recon" \in Threads
    BY Zenon DEF Peers, Threads
  <2>4. \A b \in again \cup batch : b \in again' \cup batch' \/ b = a
    BY <2>1, Zenon
  <2> QED
    BY <2>1, <2>2, <2>3, <2>4, BeginStep, Zenon
<1> QED
  BY <1>1, <1>2, <1>3, <1>4, <1>5, <1>6, <1>7, <1>8, <1>9, <1>10, <1>11, <1>12, <1>13, <1>14,
     Zenon DEF ConnectNext, Recon

LEMMA InitInv ==
    ASSUME ConnectInit
    PROVE  ConnectInv
<1>1. /\ conn = [f \in Fds |-> Unused] /\ tpc = [t \in Threads |-> "idle"] /\ job = [t \in Threads |-> NoJob]
      /\ up = Addrs /\ todo = Configured /\ again = {} /\ batch = {} /\ heard = {} /\ wanted = {}
  BY Zenon DEF ConnectInit
<1>2. Unused \in ConnRec /\ Unused.st = "none" /\ NoJob \in JobRec /\ NoJob.kind = "none"
  BY SMTT(30) DEF Unused, ConnRec, Peers, NoJob, JobRec, Errors
<1>3. ListTypes
  BY <1>1, ConfiguredAssumption, Zenon DEF ListTypes, Peers
<1>4. "idle" \in Places
  BY Zenon DEF Places
<1>5. ConnectTypes
  BY <1>1, <1>2, <1>3, <1>4, SMTT(30) DEF ConnectTypes
<1>6. \A f \in Fds : conn[f].st # "thread" /\ conn[f].st # "routed"
  BY <1>1, <1>2, SMTT(30)
<1>7. \A t \in Threads : ~Owns(t) /\ job[t].kind # "recon"
  BY <1>1, <1>2, SMTT(30) DEF Owns
<1>8. OwnInv
  BY <1>6, <1>7, Zenon DEF OwnInv
<1>9. RouteInv
  BY <1>6, Zenon DEF RouteInv
<1>10. KeptInv
  BY <1>1, <1>7, Zenon DEF KeptInv
<1> QED
  BY <1>5, <1>8, <1>9, <1>10, Zenon DEF ConnectInv

-----------------------------------------------------------------------------
\* The invariant says what is promised.
LEMMA InvKept ==
    ASSUME ConnectInv
    PROVE  ConnectionsKept
<1>0. OwnInv /\ RouteInv /\ KeptInv
  BY Zenon DEF ConnectInv
<1>1. OneStatePerPeer
  <2> SUFFICES ASSUME NEW a \in Addrs PROVE Cardinality(RoutedTo(a)) <= 1
    BY Zenon DEF OneStatePerPeer
  <2>1. \A f, g \in RoutedTo(a) : f = g
    BY <1>0, Zenon DEF RouteInv, RoutedTo
  <2>2. CASE RoutedTo(a) = {}
    <3>1. Cardinality(RoutedTo(a)) = 0
      BY <2>2, FS_EmptySet, Zenon
    <3> QED
      BY <3>1, SMTT(30)
  <2>3. CASE RoutedTo(a) # {}
    <3>1. PICK f \in RoutedTo(a) : TRUE
      BY <2>3, Zenon
    <3>2. RoutedTo(a) = {f}
      BY <2>1, <3>1, Zenon
    <3>3. Cardinality({f}) = 1
      BY FS_Singleton, Zenon
    <3>4. Cardinality(RoutedTo(a)) = 1
      BY <3>2, <3>3, Zenon
    <3> QED
      BY <3>4, SMTT(30)
  <2> QED
    BY <2>2, <2>3, Zenon
<1>2. NoSocketLost
  BY <1>0, Zenon DEF OwnInv, Owns, NoSocketLost
<1>3. PeersKept
  <2>1. "recon" \in Threads
    BY Zenon DEF Threads
  <2> QED
    BY <1>0, <2>1, Zenon DEF KeptInv, Kept, Trying, Brings, PeersKept
<1> QED
  BY <1>1, <1>2, <1>3, Zenon DEF ConnectionsKept

(***************************************************************************)
(* However threads, accepted connections, crashes and reconnections        *)
(* interleave (dnet_add_state, dnet_add_received_state, dnet_try_reconnect *)
(* and the network threads), for any peers and any limit on descriptors:   *)
(* the table has one state for a peer, no error path loses a socket, and   *)
(* an address the node has to come back to is not forgotten.               *)
(***************************************************************************)
THEOREM ConnectionsAreKept == ConnectSpec => []ConnectionsKept
<1>1. ConnectInit => ConnectInv
  BY InitInv
<1>2. ConnectInv /\ [ConnectNext]_connectVars => ConnectInv'
  BY NextStep
<1>3. ConnectInv => ConnectionsKept
  BY InvKept
<1> QED
  BY <1>1, <1>2, <1>3, PTL DEF ConnectSpec
=============================================================================
