----------------------------- MODULE Lifecycle -----------------------------
(***************************************************************************)
(* The life of a server node: dnet_parse_config (example/config.c),        *)
(* dnet_server_node_create and dnet_server_node_destroy                    *)
(* (library/server.c), dnet_node_create and the common clean-up            *)
(* (library/node.c), the pools and network threads (library/pool.c), with  *)
(* the requests that IO threads serve meanwhile.                           *)
(*                                                                         *)
(* A start goes through Stages; a stage that fails sends it through the    *)
(* labels of the error paths, which undo the stages that were passed.  The *)
(* resource of a stage has the stage's name.  One network thread, one IO   *)
(* thread and one client stand for all.                                    *)
(***************************************************************************)
EXTENDS Naturals, Sequences, FiniteSets

CONSTANTS
    Jobs,   \* requests of the client
    NoReq

Stages == <<"data", "file", "buf", "lines", "backend", "listen",
            "node", "crypto", "pool", "pool_nb", "net", "check",
            "stack", "notify", "cache", "addrs", "locks", "ids", "sock", "state", "srw", "remotes">>

Position(s) == CHOOSE i \in 1..Len(Stages) : Stages[i] = s

\* Stages that only test something and leave nothing to undo.
Tests == {"lines", "listen", "stack", "remotes"}
Pools == {"pool", "pool_nb", "net"}
NodeCreate == {"node", "crypto", "check"} \cup Pools
JoinOnly == {"locks", "ids", "sock", "state", "srw"}

\* The order of dnet_server_node_destroy.
DestroyOrder == <<"srw", "cache", "check", "net", "pool_nb", "pool", "state", "crypto",
                  "backend", "locks", "addrs", "notify", "data", "node">>

\* What serving a request touches besides srw.
Touches == {"backend", "cache", "locks", "addrs", "notify", "node"}

VARIABLES
    lconf,     \* [join, cache, srw]: what the configuration asks for
    lpc,       \* "start", "undo", "up", "destroy", "null", "gone"
    at,        \* position in Stages or in DestroyOrder
    failed,    \* the stage that failed, or "none"
    held,      \* resources that exist
    log_set,   \* dnet_cur_cfg_data is set
    need_exit,
    npc,       \* network thread: "none", "wait", "event", "ended"
    iopc,      \* IO thread: "none", "idle", "looking", "serving", "ended"
    serving, srw_ptr, srw_seen,
    jobs,      \* requests in the queue of the pool
    served,
    crefs,     \* references of the client's state
    misuse     \* resources used when they do not exist

confVars == <<lconf>>
mainVars == <<lpc, at, failed, held, log_set, need_exit, srw_ptr>>
ioVars == <<iopc, serving, srw_seen, served>>
lifeVars == <<confVars, mainVars, npc, ioVars, jobs, crefs, misuse>>

LifeInit ==
    /\ lconf \in [join : BOOLEAN, cache : BOOLEAN, srw : BOOLEAN]
    /\ lpc = "start" /\ at = 1 /\ failed = "none" /\ held = {} /\ log_set = FALSE
    /\ need_exit = FALSE /\ srw_ptr = FALSE
    /\ npc = "none" /\ iopc = "none" /\ serving = NoReq /\ srw_seen = FALSE
    /\ jobs = {} /\ served = {} /\ crefs = 0 /\ misuse = {}

-----------------------------------------------------------------------------
(* Starting.                                                               *)

Skipped(s) ==
    \/ s \in JoinOnly /\ ~lconf.join
    \/ s = "cache" /\ ~lconf.cache
    \/ s = "srw" /\ ~lconf.srw

\* Faulty form: nothing is freed before the end.
GivenBackNot(s) == {}

\* What a stage gives back once it is passed: the file is closed after the
\* backend is initialised, the ids are freed and the socket belongs to the state
\* once there is one, the buffer is freed at the end.
GivenBack(s) ==
    CASE s = "backend" -> {"file"}
      [] s = "state"   -> {"ids", "sock"}
      [] s = "remotes" -> {"buf"}
      [] OTHER         -> {}

Advance == IF at = Len(Stages) THEN lpc' = "up" /\ at' = 1 ELSE lpc' = lpc /\ at' = at + 1

StagePasses(s) ==
    /\ lpc = "start" /\ Stages[at] = s /\ ~Skipped(s)
    /\ Advance
    /\ held' = (held \cup ({s} \ Tests)) \ GivenBack(s)
    /\ log_set' = (log_set \/ s = "data")
    /\ srw_ptr' = (srw_ptr \/ s = "srw")
    /\ npc' = IF s = "net" THEN "wait" ELSE npc
    /\ iopc' = IF s = "pool" THEN "idle" ELSE iopc
    /\ crefs' = IF s = "state" THEN 1 ELSE crefs
    /\ UNCHANGED <<confVars, failed, need_exit, serving, srw_seen, jobs, served, misuse>>

StageSkipped(s) ==
    /\ lpc = "start" /\ Stages[at] = s /\ Skipped(s)
    /\ Advance
    /\ UNCHANGED <<confVars, failed, held, log_set, need_exit, srw_ptr, npc, ioVars, jobs, crefs, misuse>>

\* Where an error path starts: the stage that failed has undone its own work
\* (a failed dnet_state_create has closed the socket), unless some of its
\* threads were started already.  A failure to add the remotes destroys the
\* whole node after forgetting dnet_cur_cfg_data.
StageFails(s, partly) ==
    /\ lpc = "start" /\ Stages[at] = s /\ ~Skipped(s)
    /\ partly => s \in Pools \cup {"check"}
    /\ failed' = s
    /\ lpc' = IF s = "remotes" THEN "destroy" ELSE "undo"
    /\ at' = IF s = "remotes" THEN 1 ELSE Len(Stages)
    /\ held' = IF s = "state" THEN held \ {"sock"} ELSE IF partly THEN held \cup {s} ELSE held
    /\ log_set' = (log_set /\ s # "remotes")
    /\ need_exit' = (need_exit \/ (partly /\ s = "check"))
    /\ npc' = IF partly /\ s = "net" THEN "wait" ELSE npc
    /\ iopc' = IF partly /\ s = "pool" THEN "idle" ELSE iopc
    /\ UNCHANGED <<confVars, srw_ptr, serving, srw_seen, jobs, served, crefs, misuse>>

-----------------------------------------------------------------------------
(* Undoing and destroying.                                                 *)

\* Threads are joined before what they are is freed.
Joined(s) ==
    /\ s = "net" => npc = "ended"
    /\ s = "pool" => iopc = "ended"
    /\ s \in {"pool_nb", "check"} => need_exit

\* dnet_node_cleanup_common_resources starts with need_exit, and so does
\* dnet_io_exit; the error path of dnet_io_init does not set it.
SaysExit(s) == s = "check" \/ (s = "net" /\ failed = "check")

\* The resource of a stage; dnet_io_cleanup_states comes with the last pool.
Frees(s) ==
    /\ Joined(s)
    /\ held' = held \ {s}
    /\ crefs' = IF s = "pool" /\ crefs > 0 THEN crefs - 1 ELSE crefs
    /\ log_set' = (log_set /\ s # "data")

\* backend_cleanup is called by dnet_node_create, not by the error paths of its
\* caller.
Undone(s) == s # "backend" \/ failed \in NodeCreate

Undo(s) ==
    /\ lpc = "undo" /\ at > 0 /\ Stages[at] = s
    /\ IF s \in held /\ Undone(s)
       THEN IF SaysExit(s) /\ ~need_exit
            THEN need_exit' = TRUE /\ UNCHANGED <<at, held, crefs, log_set>>
            ELSE Frees(s) /\ at' = at - 1 /\ UNCHANGED need_exit
       ELSE at' = at - 1 /\ UNCHANGED <<need_exit, held, crefs, log_set>>
    /\ UNCHANGED <<confVars, lpc, failed, srw_ptr, npc, ioVars, jobs, misuse>>

UndoEnds ==
    /\ lpc = "undo" /\ at = 0
    /\ lpc' = "null"
    /\ UNCHANGED <<confVars, at, failed, held, log_set, need_exit, srw_ptr, npc, ioVars, jobs, crefs, misuse>>

Destroy(s) ==
    /\ lpc = "destroy" /\ at <= Len(DestroyOrder) /\ DestroyOrder[at] = s
    /\ IF s \in held
       THEN IF SaysExit(s) /\ ~need_exit
            THEN need_exit' = TRUE /\ UNCHANGED <<at, held, crefs, log_set>>
            ELSE Frees(s) /\ UNCHANGED <<need_exit, at>>
       ELSE at' = at + 1 /\ UNCHANGED <<need_exit, held, crefs, log_set>>
    \* n->srw is reset after srw is deleted, n->cache is not
    /\ srw_ptr' = (srw_ptr /\ ~(s = "srw" /\ s \notin held))
    /\ UNCHANGED <<confVars, lpc, failed, npc, ioVars, jobs, misuse>>

DestroyEnds ==
    /\ lpc = "destroy" /\ at > Len(DestroyOrder)
    /\ IF failed = "remotes" THEN lpc' = "null" /\ held' = held \ {"buf"} ELSE lpc' = "gone" /\ held' = held
    /\ UNCHANGED <<confVars, at, failed, log_set, need_exit, srw_ptr, npc, ioVars, jobs, crefs, misuse>>

\* ioserv_destroy_handler, and the main loop that sees the flag.
Signal ==
    /\ lpc = "up" /\ ~need_exit
    /\ need_exit' = TRUE
    /\ UNCHANGED <<confVars, lpc, at, failed, held, log_set, srw_ptr, npc, ioVars, jobs, crefs, misuse>>

MainSees ==
    /\ lpc = "up" /\ need_exit
    /\ lpc' = "destroy"
    /\ UNCHANGED <<confVars, at, failed, held, log_set, need_exit, srw_ptr, npc, ioVars, jobs, crefs, misuse>>

-----------------------------------------------------------------------------
(* Threads.                                                                *)

NetWait ==
    /\ npc = "wait" /\ ~need_exit
    /\ "state" \in held /\ Jobs \ (jobs \cup served \cup {serving}) # {}
    /\ npc' = "event"
    /\ UNCHANGED <<confVars, mainVars, ioVars, jobs, crefs, misuse>>

\* The listening state gave a connection, a request of which is queued with a
\* reference of the client's state.
NetEvent(r) ==
    /\ npc = "event" /\ r \in Jobs \ (jobs \cup served \cup {serving})
    /\ npc' = "wait"
    /\ misuse' = misuse \cup ({"state"} \ held)
    /\ jobs' = jobs \cup {r} /\ crefs' = crefs + 1
    /\ UNCHANGED <<confVars, mainVars, ioVars>>

NetExit ==
    /\ npc = "wait" /\ need_exit
    /\ npc' = "ended"
    /\ UNCHANGED <<confVars, mainVars, ioVars, jobs, crefs, misuse>>

\* dnet_io_process(): the exit flag is looked at before the queue, which may be
\* a second later; a request that came meanwhile is served all the same.
IoLook ==
    /\ iopc = "idle" /\ ~need_exit
    /\ iopc' = "looking"
    /\ UNCHANGED <<confVars, mainVars, npc, serving, srw_seen, served, jobs, crefs, misuse>>

IoTimeout ==
    /\ iopc = "looking" /\ jobs = {}
    /\ iopc' = "idle"
    /\ UNCHANGED <<confVars, mainVars, npc, serving, srw_seen, served, jobs, crefs, misuse>>

IoTake(r) ==
    /\ iopc = "looking" /\ r \in jobs
    /\ iopc' = "serving" /\ serving' = r /\ jobs' = jobs \ {r}
    /\ srw_seen' = srw_ptr
    /\ UNCHANGED <<confVars, mainVars, npc, served, crefs, misuse>>

IoServe ==
    /\ iopc = "serving"
    /\ misuse' = misuse \cup ({x \in Touches : x = "cache" => lconf.cache} \ held)
                        \cup (IF srw_seen THEN {"srw"} \ held ELSE {})
                        \cup (IF log_set THEN {} ELSE {"log"})
    /\ iopc' = "idle" /\ serving' = NoReq /\ srw_seen' = FALSE
    /\ served' = served \cup {serving}
    /\ crefs' = crefs - 1
    /\ UNCHANGED <<confVars, mainVars, npc, jobs>>

IoExit ==
    /\ iopc = "idle" /\ need_exit
    /\ iopc' = "ended"
    /\ UNCHANGED <<confVars, mainVars, npc, serving, srw_seen, served, jobs, crefs, misuse>>

\* A start that waits for a thread nobody told to exit.
Hung ==
    /\ lpc = "undo" /\ ~need_exit /\ failed \in Pools
    /\ \E s \in Pools \cap held : at > 0 /\ Stages[at] = s

LifeOver == (lpc \in {"null", "gone"} \/ Hung) /\ UNCHANGED lifeVars

-----------------------------------------------------------------------------
StageNames == {Stages[i] : i \in 1..Len(Stages)}

Main ==
    \/ \E s \in StageNames :
           StagePasses(s) \/ StageSkipped(s) \/ Undo(s) \/ Destroy(s) \/ \E p \in BOOLEAN : StageFails(s, p)
    \/ UndoEnds \/ DestroyEnds \/ MainSees

NetThread == NetWait \/ NetExit \/ \E r \in Jobs : NetEvent(r)
IoThread == IoLook \/ IoTimeout \/ IoServe \/ IoExit \/ \E r \in Jobs : IoTake(r)

LifeNext == Main \/ Signal \/ NetThread \/ IoThread \/ LifeOver

LifeSpec ==
    /\ LifeInit /\ [][LifeNext]_lifeVars
    /\ WF_lifeVars(Main) /\ WF_lifeVars(NetThread) /\ WF_lifeVars(IoThread)

-----------------------------------------------------------------------------
\* IO threads use what exists.  Exceptions: dnet_server_node_destroy deletes srw
\* and the cache while they still run, and the error path after a failure of srw
\* frees everything that the listening state made reachable before they stop.
\* The backend, the node and a running server are safe on every path.
UsesLive ==
    /\ lpc \in {"start", "up"} => misuse = {}
    /\ misuse \subseteq
           CASE failed = "none"    -> {"srw", "cache"}
             [] failed = "remotes" -> {"srw", "cache", "log"}
             [] failed = "srw"     -> {"state", "cache", "locks", "addrs", "notify"}
             [] OTHER              -> {}

\* A start that fails and a server that stops leave nothing behind but the
\* backend, which some error paths do not clean up.
NothingLeft ==
    /\ lpc = "gone" => held = {}
    /\ lpc = "null" => held \subseteq {"backend"}

\* After the end the client's state is freed, unless requests were left in the
\* queue: dnet_work_pool_cleanup frees them with their references.
StatesFreed ==
    lpc \in {"gone", "null"} => crefs = Cardinality(jobs)

\* A start returns unless a thread could not be created: then the error path of
\* dnet_io_init joins threads which nobody told to exit.
StartReturns == (lpc = "start") ~> (lpc \in {"up", "null"} \/ failed \in Pools)

\* Stopping ends: every thread that the node joins has seen need_exit.
StopReturns == need_exit ~> (lpc \in {"gone", "null"})

\* "backend cleanup is already called" when dnet_server_node_create fails.
BackendCleaned == lpc = "null" => "backend" \notin held

=============================================================================
