------------------------------ MODULE MCServer ------------------------------
(***************************************************************************)
(* A server: its cache with two keys, two io threads and room for two      *)
(* chunks, the dispatch of commands, iterators, its start and stop, and    *)
(* the applications it runs.                                               *)
(***************************************************************************)
EXTENDS Cache

CONSTANTS
    Tids, Nobody, RequestsOf, Iters, NoId, NoControl, Objects, Configs,
    Leaving, MaxControls, Jobs, NoReq, Execs, Replies, MaxSent, k1, k2, x1,
    x2, x3

VARIABLES
    part,    \* the component a behaviour is about; the others rest
    req, flags, rflags, step, nth, status, sent, owner, cached, dirty, cdisk,
    ro, notify, updates, kept,
    iconf, ipc, ipos, iid, act, isent, ierr, since, ctl, controls, gone, nexit,
    lconf, lpc, stage, failed, held, log_set, need_exit, npc, iopc, serving,
    srw_ptr, srw_seen, jobs, served, crefs, misuse,
    running, blocked, epc, refusal, need_ack, users, m_completed, m_error,
    xsent, rpl

cmdVars == <<req, flags, rflags, step, nth, status, sent, owner, cached,
             dirty, cdisk, ro, notify, updates, kept>>
iterVars == <<iconf, ipc, ipos, iid, act, isent, ierr, since, ctl, controls,
              gone, nexit>>
lifeVars == <<lconf, lpc, stage, failed, held, log_set, need_exit, npc, iopc,
              serving, srw_ptr, srw_seen, jobs, served, crefs, misuse>>
srwVars == <<running, blocked, epc, refusal, need_ack, users, m_completed,
             m_error, xsent, rpl>>
allVars == <<vars, cmdVars, iterVars, lifeVars, srwVars, part>>

Cm == INSTANCE Commands WITH Trans <- Tids, disk <- cdisk
It == INSTANCE Iterator
Lf == INSTANCE Lifecycle WITH at <- stage
Sr == INSTANCE Srw

Reading == [op |-> "read", key |-> k1, cache |-> FALSE, only |-> FALSE, append |-> FALSE,
            offset |-> 0, life |-> 0, fromDisk |-> FALSE, cas |-> FALSE]
Writing(k) == [Reading EXCEPT !.op = "write", !.key = k]

\* k1 is read and written through the cache in every way; most objects of k2
\* have a lifetime, take space and make resize work.
MCRequests ==
    {[Reading EXCEPT !.cache = TRUE], Reading, [Reading EXCEPT !.op = "del"],
     Writing(k1), [Writing(k1) EXCEPT !.cache = TRUE],
     [Writing(k1) EXCEPT !.cache = TRUE, !.offset = 1],
     [Writing(k1) EXCEPT !.cache = TRUE, !.append = TRUE],
     [Writing(k2) EXCEPT !.cache = TRUE],
     [Writing(k2) EXCEPT !.cache = TRUE, !.life = 1, !.fromDisk = TRUE],
     [Writing(k2) EXCEPT !.cache = TRUE, !.only = TRUE, !.life = 1]}

\* Commands on k1 by every client, some others by x1, and a third one that
\* writes, drops a notification or makes the node read-only.
Command(cmd, key, more) ==
    [cmd |-> cmd, key |-> key, flags |-> {"NEED_ACK"} \cup more, keys |-> <<>>, ro |-> FALSE]
Bulk(ks) == [Command("BULK_READ", k1, {}) EXCEPT !.keys = ks]
Common ==
    {Command(c, k1, {}) : c \in {"READ", "WRITE", "DEL", "LOOKUP", "NOTIFY"}}
        \cup {Command("WRITE", k1, f) : f \in {{"CACHE"}, {"CACHE", "APPEND"}}} \cup {Bulk(<<k1, k2>>)}
MCRequestsOf ==
    [t \in Tids |->
        CASE t = x1 -> Common \cup
                 {Command("AUTH", k1, {}), Command("WRITE", k1, {"CAS"}), Command("WRITE", k1, {"CAS", "CACHE"}),
                  Command("WRITE", k1, {"NO_FILE_INFO"}), Command("LOOKUP", k1, {"NOLOCK"}),
                  Command("READ", k1, {"CACHE"}), Command("READ", k1, {"NOCACHE", "NOLOCK"}), Bulk(<<>>),
                  [Command("REVERSE_LOOKUP", k2, {}) EXCEPT !.flags = {"NOLOCK"}],
                  Command("ROUTE_LIST", k2, {"NOLOCK"}), Command("STAT_COUNT", k2, {})}
          [] t = x2 -> Common
          [] t = x3 -> {Command("WRITE", k1, {}), Command("NOTIFY_DROP", k1, {}),
                        [Command("STATUS", k2, {}) EXCEPT !.ro = TRUE]}]

\* The order of the backend is not that of the keys; the second range holds the
\* second object only, and so does the time range.
MCObjects == <<[key |-> 3, ts |-> 0], [key |-> 1, ts |-> 2]>>
MCConfigs == {[flags |-> {}, ranges |-> <<>>, tb |-> 0, te |-> 0],
              [flags |-> {"KEY_RANGE"}, ranges |-> <<<<0, 0>>, <<1, 3>>>>, tb |-> 0, te |-> 0],
              [flags |-> {"TS_RANGE"}, ranges |-> <<>>, tb |-> 1, te |-> 2]}

-----------------------------------------------------------------------------
MCInit ==
    /\ part \in {"cache", "commands", "iterator", "lifecycle", "srw"}
    /\ Init
    /\ IF part = "commands" THEN Cm!CommandsInit
       ELSE /\ req = 0 /\ flags = 0 /\ rflags = 0 /\ step = 0 /\ nth = 0
            /\ status = 0 /\ sent = 0 /\ owner = 0 /\ cached = 0
            /\ dirty = 0 /\ cdisk = 0 /\ ro = 0 /\ notify = 0
            /\ updates = 0 /\ kept = 0
    /\ IF part = "iterator" THEN It!IterInit
       ELSE /\ iconf = 0 /\ ipc = 0 /\ ipos = 0 /\ iid = 0 /\ act = 0
            /\ isent = 0 /\ ierr = 0 /\ since = 0 /\ ctl = 0
            /\ controls = 0 /\ gone = 0 /\ nexit = 0
    /\ IF part = "lifecycle" THEN Lf!LifeInit
       ELSE /\ lconf = 0 /\ lpc = 0 /\ stage = 0 /\ failed = 0 /\ held = 0
            /\ log_set = 0 /\ need_exit = 0 /\ npc = 0 /\ iopc = 0
            /\ serving = 0 /\ srw_ptr = 0 /\ srw_seen = 0 /\ jobs = 0
            /\ served = 0 /\ crefs = 0 /\ misuse = 0
    /\ IF part = "srw" THEN Sr!SrwInit
       ELSE /\ running = 0 /\ blocked = 0 /\ epc = 0 /\ refusal = 0
            /\ need_ack = 0 /\ users = 0 /\ m_completed = 0 /\ m_error = 0
            /\ xsent = 0 /\ rpl = 0

\* Component one takes a step, the others rest.
Only(one) ==
    /\ part = one /\ UNCHANGED part
    /\ one # "cache" => UNCHANGED vars
    /\ one # "commands" => UNCHANGED cmdVars
    /\ one # "iterator" => UNCHANGED iterVars
    /\ one # "lifecycle" => UNCHANGED lifeVars
    /\ one # "srw" => UNCHANGED srwVars

MCNext ==
    \/ part = "cache" /\ Next /\ Only("cache")
    \/ part = "commands" /\ Cm!CommandsNext /\ Only("commands")
    \/ part = "iterator" /\ It!IterNext /\ Only("iterator")
    \/ part = "lifecycle" /\ Lf!LifeNext /\ Only("lifecycle")
    \/ part = "srw" /\ Sr!SrwNext /\ Only("srw")

\* IO threads serve what they took, the threads of a node run, and an application
\* closes its streams in the end.
MCSpec ==
    /\ MCInit /\ [][MCNext]_allVars
    /\ \A t \in Tids : WF_cmdVars(part = "commands" /\ Cm!Serve(t))
    /\ \A i \in Iters : WF_iterVars(part = "iterator" /\ It!IterStep(i))
    /\ WF_iterVars(part = "iterator" /\ It!ControlSet)
    /\ WF_lifeVars(part = "lifecycle" /\ Lf!Main)
    /\ WF_lifeVars(part = "lifecycle" /\ Lf!NetThread)
    /\ WF_lifeVars(part = "lifecycle" /\ Lf!IoThread)
    /\ \A e \in Execs : WF_srwVars(part = "srw" /\ Sr!Handler(e))
    /\ \A e \in Execs : WF_srwVars(part = "srw" /\ Sr!AppClose(e))

-----------------------------------------------------------------------------
\* Between commands a key reads as its last acknowledged write left it, and after
\* ~cache_t that is on disk, except for what changed while the life-check thread
\* held neither lock.  The containers of the cache describe one set of objects, and
\* none is inserted twice or erased where it is not linked (cache.cpp).
CacheCoherent ==
    part = "cache" =>
        /\ TypeOK /\ ContainersAgree /\ NoSecondObject /\ LinkedErase
        /\ Coherent /\ StoppedThenDurable

\* A client that asked for an acknowledge gets one final reply and nothing after
\* it, whichever of the cache, the backend and the dispatcher answers (dnet.c), but
\* for a lookup answered twice and a write that meets an append in the cache.  A
\* command owns the lock of its key meanwhile, a notification hears of every write,
\* and what was written stays until it is removed or the node goes read-only.
CommandsAnswered ==
    part = "commands" =>
        /\ Cm!NothingAfterFinal /\ Cm!AckSentButAppend /\ Cm!BulkAnswered
        /\ Cm!LockedWhileServed /\ Cm!NotifiedOfWrites /\ Cm!WrittenIsKept

\* An iterator sends every key it was asked for once, in the order of the backend,
\* however often it was paused and continued; a pause or a cancel is heeded before
\* the second key after it; and the list holds the iterators whose threads run,
\* under different ids (dnet_iterator_start).
IteratorsExact ==
    part = "iterator" => It!SentInOrder /\ It!StopsAfterOne /\ It!ListedWhileRunning

\* A start that fails and a server that stops leave nothing behind but the backend,
\* which some error paths do not clean up, and the states of requests that were
\* left in the queue; IO threads use what exists, except for what
\* dnet_server_node_destroy() deletes too early.
NodeCleanedUp == part = "lifecycle" => Lf!UsesLive /\ Lf!NothingLeft /\ Lf!StatesFreed

\* A blocked client of an application gets one final packet and nothing after it,
\* whoever finishes its job first, and the upstream of a finished job is let go of
\* unless the job is still in the map (srw.cpp).
ScriptsAnswered == part = "srw" => Sr!OneFinal /\ Sr!HeldByMap

Pending ==
    CASE part = "commands"  -> \E t \in Tids : step[t] # "done"
      [] part = "iterator"  -> \E i \in Iters : It!Running(i) /\ ~(ipc[i] = "wait" /\ act[i] = "PAUSE")
      [] part = "lifecycle" -> \/ lpc = "start" /\ failed \notin Lf!Pools
                               \/ need_exit /\ lpc \notin {"gone", "null"}
      [] part = "srw"       -> \E e \in Execs : Sr!Finals(e) = 0
      [] OTHER              -> FALSE

\* Whatever a server began ends: every command is served, an iterator that is not
\* paused ends, a start returns (unless a thread could not be created) and so does
\* a stop, and every client of an application is answered.
ServerEnds == Pending ~> ~Pending
=============================================================================
