------------------------------ MODULE MCClient ------------------------------
(***************************************************************************)
(* The way of a reply to the user, and what clients build from requests:   *)
(* the IO threads that pick replies (IoPool), transactions whose memory    *)
(* may be short, the waits of the C client, the requests and results of    *)
(* the C++ one, writes of the latest data and in chunks, and requests for  *)
(* ranges of keys.                                                         *)
(***************************************************************************)
EXTENDS IoPool, ClientWait, TLC

CONSTANTS
    GroupSeq, Ids, Unlimited, Sources, Plain,
    MaxEntries, Clients, Count, MaxFaults, MaxSize, MaxId, KeySets, Limits,
    WORD, g1, g2, c1, c2

VARIABLES
    part,    \* the component a behaviour is about; the others rest
    rkind, throws, rpc, m_count, m_complete, m_statuses, m_group_index,
    m_has_finished, m_mutex, pend, num, hole, rtr, asked, ios_set, got,
    failed_groups, read_result, written, error, finishes, thrown, deleted,
    late,
    filter, checker, total, sources, ended, failed, left, has_success,
    last_error, input, statuses, results, handler, final, afinished, err,
    cleaned, seen, ends, queue, iter_finished, iter_state, iterated, user,
    store, stamp, role, stable, lpc, groups, looked, asking, tried, absentees,
    firsterr, readg, rdata, mismatch, landed, attempt, outcome, repairs,
    repaired, faults,
    size, chunk_size, policy, wpc, wgroups, unanswered, took, local_offset,
    replica, reported, verdict,
    ids, keys, command, first, last, start0, num0, rangepc, id, rnext,
    rneed_exit, has_any, io_start, io_num, rep_num, last_exception, delivered,
    missed, completions,
    t_route, t_sock, t_stref, t_stall, t_trans_root, t_trans_list, t_head,
    t_ref, t_freed, t_finals, t_queued, t_sent, t_inbox, t_spc, t_wpc,
    t_wmore, t_dpc, t_dcur

reqVars == <<rkind, throws, rpc, m_count, m_complete, m_statuses,
             m_group_index, m_has_finished, m_mutex, pend, num, hole, rtr,
             asked, ios_set, got, failed_groups, read_result, written, error,
             finishes, thrown, deleted, late>>
asyncVars == <<filter, checker, total, sources, ended, failed, left,
               has_success, last_error, input, statuses, results, handler,
               final, afinished, err, cleaned, seen, ends, queue,
               iter_finished, iter_state, iterated, user>>
latestVars == <<store, stamp, role, stable, lpc, groups, looked, asking,
                tried, absentees, firsterr, readg, rdata, mismatch, landed,
                attempt, outcome, repairs, repaired, faults>>
chunkVars == <<size, chunk_size, policy, wpc, wgroups, unanswered, took,
               local_offset, replica, reported, verdict>>
rangeVars == <<ids, keys, command, first, last, start0, num0, rangepc, id,
               rnext, rneed_exit, has_any, io_start, io_num, rep_num,
               last_exception, delivered, missed, completions>>
poorVars == <<t_route, t_sock, t_stref, t_stall, t_trans_root, t_trans_list,
              t_head, t_ref, t_freed, t_finals, t_queued, t_sent, t_inbox,
              t_spc, t_wpc, t_wmore, t_dpc, t_dcur>>
allVars == <<vars, clientVars, reqVars, asyncVars, latestVars, chunkVars, rangeVars, poorVars, part>>

R == INSTANCE Request WITH pc <- rpc, tr <- rtr, kind <- rkind
A == INSTANCE AsyncResult WITH finished <- afinished
L == INSTANCE Latest WITH GroupSet <- Groups
Ch == INSTANCE ChunkWrite WITH GroupSet <- Groups
Rg == INSTANCE Range WITH need_exit <- rneed_exit, next <- rnext
Poor == INSTANCE Trans WITH
    Trans <- Tids, NoTrans <- NoTid, MaxMore <- 1, StallCount <- 2,
    NoMemory <- TRUE, PeerCloses <- FALSE, Times <- FALSE,
    route <- t_route, sock <- t_sock, stref <- t_stref, stall <- t_stall,
    trans_root <- t_trans_root, trans_list <- t_trans_list,
    head <- t_head, ref <- t_ref, freed <- t_freed, finals <- t_finals,
    queued <- t_queued, sent <- t_sent, inbox <- t_inbox, spc <- t_spc,
    wpc <- t_wpc, wmore <- t_wmore, dpc <- t_dpc, dcur <- t_dcur

MCGarbage == {1, 2, 7}
MCGroupSeq == <<g1, g2>>
MCIds == 1..2
MCKeySets == {0..MaxId, {0, 3}}
MCLimits == {<<0, 0>>, <<1, 1>>}

\* A conditional write against another one or a plain write, and a reader against
\* a plain write; g1 has an older replica than g2, or none.
LatestMCInit ==
    /\ L!LatestInit
    /\ <<role[c1], role[c2]>> \in {<<"cas", "cas">>, <<"cas", "write">>, <<"latest", "write">>}
    /\ ~stable[c2] /\ (stable[c1] => role[c2] = "cas")
    /\ store[g1].ts < store[g2].ts

-----------------------------------------------------------------------------
MCInit ==
    /\ part \in {"io", "wait", "request", "async", "latest", "chunk", "range", "nomem"}
    /\ Init /\ ClientInit
    /\ IF part = "request" THEN R!Init
       ELSE /\ rkind = 0 /\ throws = 0 /\ rpc = 0 /\ m_count = 0
            /\ m_complete = 0 /\ m_statuses = 0 /\ m_group_index = 0
            /\ m_has_finished = 0 /\ m_mutex = 0 /\ pend = 0 /\ num = 0
            /\ hole = 0 /\ rtr = 0 /\ asked = 0 /\ ios_set = 0 /\ got = 0
            /\ failed_groups = 0 /\ read_result = 0 /\ written = 0
            /\ error = 0 /\ finishes = 0 /\ thrown = 0 /\ deleted = 0
            /\ late = 0
    /\ IF part = "async" THEN A!AsyncInit
       ELSE /\ filter = 0 /\ checker = 0 /\ total = 0 /\ sources = 0
            /\ ended = 0 /\ failed = 0 /\ left = 0 /\ has_success = 0
            /\ last_error = 0 /\ input = 0 /\ statuses = 0 /\ results = 0
            /\ handler = 0 /\ final = 0 /\ afinished = 0 /\ err = 0
            /\ cleaned = 0 /\ seen = 0 /\ ends = 0 /\ queue = 0
            /\ iter_finished = 0 /\ iter_state = 0 /\ iterated = 0
            /\ user = 0
    /\ IF part = "latest" THEN LatestMCInit
       ELSE /\ store = 0 /\ stamp = 0 /\ role = 0 /\ stable = 0 /\ lpc = 0
            /\ groups = 0 /\ looked = 0 /\ asking = 0 /\ tried = 0
            /\ absentees = 0 /\ firsterr = 0 /\ readg = 0 /\ rdata = 0
            /\ mismatch = 0 /\ landed = 0 /\ attempt = 0 /\ outcome = 0
            /\ repairs = 0 /\ repaired = 0 /\ faults = 0
    /\ IF part = "chunk" THEN Ch!ChunkInit
       ELSE /\ size = 0 /\ chunk_size = 0 /\ policy = 0 /\ wpc = 0
            /\ wgroups = 0 /\ unanswered = 0 /\ took = 0
            /\ local_offset = 0 /\ replica = 0 /\ reported = 0
            /\ verdict = 0
    /\ IF part = "range" THEN Rg!RangeInit
       ELSE /\ ids = 0 /\ keys = 0 /\ command = 0 /\ first = 0 /\ last = 0
            /\ start0 = 0 /\ num0 = 0 /\ rangepc = 0 /\ id = 0
            /\ rnext = 0 /\ rneed_exit = 0 /\ has_any = 0 /\ io_start = 0
            /\ io_num = 0 /\ rep_num = 0 /\ last_exception = 0
            /\ delivered = 0 /\ missed = 0 /\ completions = 0
    /\ IF part = "nomem" THEN Poor!Init
       ELSE /\ t_route = 0 /\ t_sock = 0 /\ t_stref = 0 /\ t_stall = 0
            /\ t_trans_root = 0 /\ t_trans_list = 0 /\ t_head = 0
            /\ t_ref = 0 /\ t_freed = 0 /\ t_finals = 0 /\ t_queued = 0
            /\ t_sent = 0 /\ t_inbox = 0 /\ t_spc = 0 /\ t_wpc = 0
            /\ t_wmore = 0 /\ t_dpc = 0 /\ t_dcur = 0

\* Component one takes a step, the others rest.
Only(one) ==
    /\ part = one /\ UNCHANGED part
    /\ one # "io" => UNCHANGED vars
    /\ one # "wait" => UNCHANGED clientVars
    /\ one # "request" => UNCHANGED reqVars
    /\ one # "async" => UNCHANGED asyncVars
    /\ one # "latest" => UNCHANGED latestVars
    /\ one # "chunk" => UNCHANGED chunkVars
    /\ one # "range" => UNCHANGED rangeVars
    /\ one # "nomem" => UNCHANGED poorVars

MCNext ==
    \/ part = "io" /\ Next /\ Only("io")
    \/ part = "wait" /\ ClientNext /\ Only("wait")
    \/ part = "request" /\ R!Next /\ Only("request")
    \/ part = "async" /\ A!AsyncNext /\ Only("async")
    \/ part = "latest" /\ L!LatestNext /\ Only("latest")
    \/ part = "chunk" /\ Ch!ChunkNext /\ Only("chunk")
    \/ part = "range" /\ Rg!RangeNext /\ Only("range")
    \/ part = "nomem" /\ Poor!Next /\ Only("nomem")

\* Threads run, and every transaction ends (Trans.tla): timeouts need not fire.
MCSpec ==
    /\ MCInit /\ [][MCNext]_allVars
    /\ \A t \in Threads : WF_vars(part = "io" /\ ThreadNext(t))
    /\ WF_clientVars(part = "wait" /\ Caller)
    /\ \A g \in Groups : WF_clientVars(part = "wait" /\ Callback(g))
    /\ WF_reqVars(part = "request" /\ R!Start)
    /\ \A t \in R!Runners : WF_reqVars(part = "request" /\ R!Thread(t))
    /\ \A x \in R!Trans : WF_reqVars(part = "request" /\ R!Callback(x))
    /\ WF_asyncVars(part = "async" /\ A!Iterate)
    /\ \A s \in Sources \cup {Plain} : WF_asyncVars(part = "async" /\ s \in sources /\ A!Source(s))
    /\ WF_chunkVars(part = "chunk" /\ Ch!ChunkStep)
    /\ WF_rangeVars(part = "range" /\ Rg!RangeStep)

-----------------------------------------------------------------------------
\* A request of the C++ client finishes once, with none of its transactions still
\* running, asks groups in turn, repairs only groups without the object, and ends
\* without an error exactly when a group answered.  Nobody uses its object after it
\* was deleted, but for the unlock of a mutex (callback_p.h).  Every entry of its
\* result is delivered once and in order, then the verdict of the checker on all last
\* replies, once, whenever the user connects, iterates or waits; a write that the
\* checker turned down is removed again (async_result.cpp).  When the memory for a
\* request is short (dnet_trans_send), the references of a transaction are still
\* those its users hold.
RequestsDeliver ==
    /\ part = "request" =>
          /\ R!TypeOK /\ R!FinishOnce /\ R!OnlyUnlockLate /\ R!InTurn /\ R!ReadRecovery
          /\ R!MultiOutcome /\ R!BulkOutcome
    /\ part = "async" =>
          /\ A!DeliveredOnce /\ A!EndedOnce /\ A!VerdictOfChecker /\ A!RejectedThenRemoved
    /\ part = "nomem" => Poor!NoUseAfterFree /\ Poor!RefsExact

\* A conditional write replaces, in the group it read from, exactly what it read.
ReplacesWhatWasRead == [][part = "latest" => L!ReplacesRead]_latestVars

\* What the calls of session.cpp report is what they did.  read_latest() gives the
\* newest replica its lookup was told of, and write_cas() has stored its update; a
\* chunked write commits whole replicas only, within the space reserved for them;
\* a walk over the ring visits every key of a range once, at the node that owns it,
\* and completes once.
SessionCallsExact ==
    /\ part = "latest" => L!NewestRead /\ L!SuccessIsWritten
    /\ part = "chunk" => Ch!CommittedIsWhole /\ Ch!WithinReserved /\ Ch!SuccessIsStored
    /\ part = "range" =>
          /\ Rg!SearchIsNearest /\ Rg!EveryKeyOnce /\ Rg!RemovedInRange /\ Rg!CompletesOnce

Pending ==
    CASE part = "wait"    -> Sound /\ cpc \notin {"idle", "returned"}
      [] part = "request" -> ~deleted
      [] part = "async"   -> user = "iterating" /\ iter_state # "data_at_end"
      [] part = "chunk"   -> wpc # "done"
      [] part = "range"   -> rangepc # "done"
      [] OTHER            -> FALSE

\* Every reply that was received is handled, although threads pass over replies to
\* transactions that others have claimed (pool.c), and whatever a client calls ends
\* once its transactions end: waits of the C client, requests, iterations over a
\* result, chunked writes and walks over a range.
ClientCallsEnd == ReplyHandled /\ (Pending ~> ~Pending)
=============================================================================
