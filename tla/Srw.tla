-------------------------------- MODULE Srw --------------------------------
(***************************************************************************)
(* Server-side applications (srw/srw.cpp): the commands that start, stop   *)
(* and query an application, the events clients execute in it, and the     *)
(* replies to a blocked event, which come from the application's stream,   *)
(* from REPLY and FINISH commands, or from the handler itself.             *)
(*                                                                         *)
(* One application.  The engine that runs it (cocaine) is external: it may *)
(* refuse an event, and it closes every stream it took, also when it is    *)
(* stopped.  dnet_upstream_t is reference counted: users[e] are those who  *)
(* hold it, and the last one to let go runs its destructor.                *)
(***************************************************************************)
EXTENDS Naturals, Sequences, FiniteSets

CONSTANTS
    Execs,    \* events clients execute
    Replies,  \* REPLY and FINISH commands
    MaxSent   \* bound: packets an application writes to one client

VARIABLES
    running,    \* the application is in m_map
    blocked,    \* event -> DNET_SPH_FLAGS_SRC_BLOCK
    epc,        \* event -> where its handler is
    refusal,    \* event -> "none", "ENOENT" or "EXFULL"
    need_ack,   \* event -> DNET_FLAGS_NEED_ACK of the command
    users,      \* event -> who holds its upstream: its handler, m_jobs, the engine, a reply
    m_completed,
    m_error,    \* event -> the application reported an error
    xsent,      \* event -> packets sent to its client, oldest first
    rpl         \* reply -> [pc, job, final]

taskVars == <<running>>
execVars == <<blocked, epc, refusal, need_ack>>
upVars == <<users, m_completed, m_error, xsent>>
srwVars == <<taskVars, execVars, upVars, rpl>>

NoReply == [pc |-> "idle", job |-> {}, final |-> FALSE]

SrwInit ==
    /\ running = FALSE
    /\ blocked \in [Execs -> BOOLEAN]
    /\ epc = [e \in Execs |-> "idle"] /\ refusal = [e \in Execs |-> "none"]
    /\ need_ack = [e \in Execs |-> TRUE]
    /\ users = [e \in Execs |-> {}]
    /\ m_completed = [e \in Execs |-> FALSE] /\ m_error = [e \in Execs |-> FALSE]
    /\ xsent = [e \in Execs |-> <<>>]
    /\ rpl = [c \in Replies |-> NoReply]

-----------------------------------------------------------------------------
(* dnet_upstream_t.                                                        *)

\* Faulty forms: a client that does not block is acknowledged too; nobody is.
PacketsAll(e, completed, data) ==
    IF data THEN <<IF completed THEN "final" ELSE "more">> ELSE IF completed THEN <<"ack">> ELSE <<>>
PacketsDataOnly(e, completed, data) ==
    IF data THEN <<IF completed THEN "final" ELSE "more">> ELSE <<>>

\* The packets dnet_upstream_t::reply() sends: data, with more to follow unless
\* the job is complete, or the acknowledgement of a blocked client.
Packets(e, completed, data) ==
    CASE data /\ ~completed                -> <<"more">>
      [] data /\ completed                 -> <<"final">>
      [] ~data /\ completed /\ blocked[e]  -> <<IF m_error[e] THEN "error" ELSE "ack">>
      [] OTHER                             -> <<>>

\* reply(), and the destructor when nobody is left.
Upstream(e, completed, data, left) ==
    LET out == IF m_completed[e] THEN <<>> ELSE Packets(e, completed, data)
        done == m_completed[e] \/ completed
        dtor == IF left = {} /\ ~done THEN Packets(e, TRUE, FALSE) ELSE <<>>
    IN  /\ xsent' = [xsent EXCEPT ![e] = @ \o out \o dtor]
        /\ m_completed' = [m_completed EXCEPT ![e] = done \/ left = {}]
        /\ users' = [users EXCEPT ![e] = left]

\* Letting go of the upstream without a call.
LetGo(e, who) == Upstream(e, FALSE, FALSE, users[e] \ {who})

-----------------------------------------------------------------------------
(* srw::process().                                                         *)

StartTask ==
    /\ ~running
    /\ running' = TRUE
    /\ UNCHANGED <<execVars, upVars, rpl>>

StopTask ==
    /\ running
    /\ running' = FALSE
    /\ UNCHANGED <<execVars, upVars, rpl>>

\* Under m_lock: the application is looked up, the upstream made, and the job of
\* a blocked client entered into m_jobs.
Exec(e) ==
    /\ epc[e] = "idle"
    /\ IF running
       THEN /\ epc' = [epc EXCEPT ![e] = "enqueue"]
            /\ users' = [users EXCEPT ![e] = {"handler"} \cup (IF blocked[e] THEN {"jobs"} ELSE {})]
            /\ UNCHANGED refusal
       ELSE /\ epc' = [epc EXCEPT ![e] = "returned"]
            /\ refusal' = [refusal EXCEPT ![e] = "ENOENT"]
            /\ UNCHANGED users
    /\ UNCHANGED <<taskVars, blocked, need_ack, m_completed, m_error, xsent, rpl>>

\* enqueue() gives the upstream to the engine; enqueue() or the write of the
\* event may throw, before or after the engine took it.
Enqueue(e, taken) ==
    /\ epc[e] = "enqueue"
    /\ taken => running
    /\ epc' = [epc EXCEPT ![e] = IF taken THEN "write" ELSE "leave"]
    /\ users' = IF taken THEN [users EXCEPT ![e] = @ \cup {"engine"}] ELSE users
    /\ refusal' = IF taken THEN refusal ELSE [refusal EXCEPT ![e] = "EXFULL"]
    /\ UNCHANGED <<taskVars, blocked, need_ack, m_completed, m_error, xsent, rpl>>

\* Once the event is written a blocked client is left to the application.
Write(e, throws) ==
    /\ epc[e] = "write"
    /\ epc' = [epc EXCEPT ![e] = "leave"]
    /\ refusal' = IF throws THEN [refusal EXCEPT ![e] = "EXFULL"] ELSE refusal
    /\ need_ack' = IF blocked[e] /\ ~throws THEN [need_ack EXCEPT ![e] = FALSE] ELSE need_ack
    /\ UNCHANGED <<taskVars, blocked, upVars, rpl>>

\* The end of process(): the handler's reference goes.
Leave(e) ==
    /\ epc[e] = "leave"
    /\ epc' = [epc EXCEPT ![e] = "returned"]
    /\ LetGo(e, "handler")
    /\ UNCHANGED <<taskVars, blocked, refusal, need_ack, m_error, rpl>>

\* dnet_process_cmd_raw acknowledges what still needs it.
Acknowledge(e) ==
    /\ epc[e] = "returned"
    /\ epc' = [epc EXCEPT ![e] = "done"]
    /\ xsent' = IF need_ack[e]
                THEN [xsent EXCEPT ![e] = Append(@, IF refusal[e] = "none" THEN "ack" ELSE "error")]
                ELSE xsent
    /\ UNCHANGED <<taskVars, blocked, refusal, need_ack, users, m_completed, m_error, rpl>>

\* REPLY and FINISH: the job is found, and erased by FINISH, under m_lock; the
\* upstream is called after it is unlocked.
ReplyFind(c, e, final) ==
    /\ rpl[c].pc = "idle" /\ "jobs" \in users[e]
    /\ rpl' = [rpl EXCEPT ![c] = [pc |-> "found", job |-> {e}, final |-> final]]
    /\ users' = [users EXCEPT ![e] = (@ \cup {c}) \ (IF final THEN {"jobs"} ELSE {})]
    /\ UNCHANGED <<taskVars, execVars, m_completed, m_error, xsent>>

ReplySend(c, e) ==
    /\ rpl[c].pc = "found" /\ e \in rpl[c].job
    /\ rpl' = [rpl EXCEPT ![c].pc = "done"]
    /\ Upstream(e, rpl[c].final, TRUE, users[e] \ {c})
    /\ UNCHANGED <<taskVars, execVars, m_error>>

-----------------------------------------------------------------------------
(* The application, behind the engine's stream.                            *)

AppWrite(e) ==
    /\ "engine" \in users[e] /\ Len(xsent[e]) < MaxSent
    /\ Upstream(e, FALSE, TRUE, users[e])
    /\ UNCHANGED <<taskVars, execVars, m_error, rpl>>

AppError(e) ==
    /\ "engine" \in users[e] /\ ~m_error[e]
    /\ m_error' = [m_error EXCEPT ![e] = TRUE]
    /\ UNCHANGED <<taskVars, execVars, users, m_completed, xsent, rpl>>

AppClose(e) ==
    /\ "engine" \in users[e]
    /\ Upstream(e, TRUE, FALSE, users[e] \ {"engine"})
    /\ UNCHANGED <<taskVars, execVars, m_error, rpl>>

-----------------------------------------------------------------------------
Handler(e) ==
    \/ Exec(e) \/ Leave(e) \/ Acknowledge(e)
    \/ \E b \in BOOLEAN : Enqueue(e, b) \/ Write(e, b)

SrwNext ==
    \/ StartTask \/ StopTask
    \/ \E e \in Execs : Handler(e) \/ AppWrite(e) \/ AppError(e) \/ AppClose(e)
    \/ \E c \in Replies, e \in Execs : ReplySend(c, e) \/ \E f \in BOOLEAN : ReplyFind(c, e, f)

SrwSpec ==
    /\ SrwInit /\ [][SrwNext]_srwVars
    /\ \A e \in Execs : WF_srwVars(Handler(e)) /\ WF_srwVars(AppClose(e))

-----------------------------------------------------------------------------
IsFinal(p) == p # "more"
Finals(e) == Len(SelectSeq(xsent[e], IsFinal))

\* A blocked client gets one final packet and nothing after it, whoever is the
\* first to finish its job: the application, a FINISH or the destructor.  When
\* the event could not be written to an engine that had taken it, the handler
\* and the engine both answer.  A client that does not block gets its
\* acknowledgement once, and the writes of the application besides it.
OneFinal ==
    \A e \in Execs :
        /\ refusal[e] # "EXFULL" => Finals(e) <= 1
        /\ blocked[e] /\ refusal[e] # "EXFULL" =>
               \A i \in 1..Len(xsent[e]) : IsFinal(xsent[e][i]) => i = Len(xsent[e])
        /\ Finals(e) <= 2

\* The upstream, and with it the reference of the client's connection, is let go
\* of unless the job is still in the map: that takes a FINISH, the end of the
\* application's stream is not enough.
HeldByMap ==
    \A e \in Execs :
        epc[e] = "done" /\ m_completed[e] /\ users[e] # {} /\ "engine" \notin users[e] =>
            "jobs" \in users[e] \/ \E c \in Replies : rpl[c].pc = "found"

\* Every client is answered in the end.
ExecsAnswered == \A e \in Execs : []<>(Finals(e) > 0)

=============================================================================
