------------------------------- MODULE Latest -------------------------------
(***************************************************************************)
(* session::prepare_latest(), session::read_latest() and the converting    *)
(* session::write_cas() of bindings/cpp/session.cpp, run by several        *)
(* clients at once over the groups that hold replicas of one object.       *)
(*                                                                         *)
(* A replica is its content and the time of the write that made it.  The   *)
(* content of an object is the sequence of updates applied to it, so that  *)
(* equal checksums mean equal contents; the converter a write_cas() client *)
(* passes adds that client's update.  A lookup, a read and a write of one  *)
(* group are single steps: the server runs each under the lock of the key. *)
(***************************************************************************)
EXTENDS Naturals, Sequences

CONSTANTS
    Clients,
    GroupSet,
    Count,    \* attempts write_cas() makes
    MaxFaults \* bound: requests that a group fails to answer

\* A replica that is not there; the checksum of no data is all zeroes.
Absent == [val |-> <<>>, ts |-> 0]
Nowhere == "nowhere"

VARIABLES
    store,     \* store[g]: the replica in group g
    stamp,     \* time of the latest write
    role,      \* role[c]: write_cas(), read_latest() or a plain write
    stable,    \* stable[c]: the converter leaves data with its update alone
    lpc,
    groups,    \* groups[c]: groups the client looks up and writes to
    looked,    \* looked[c]: replies of the lookups
    asking,    \* asking[c]: groups whose reply the step at hand still waits for
    tried,     \* tried[c]: groups read so far
    absentees, \* absentees[c]: groups that had nothing to read
    firsterr,  \* firsterr[c]: the first negative reply to the read
    readg,     \* readg[c]: the group whose replica was read
    rdata,     \* rdata[c]: that replica
    mismatch,  \* mismatch[c]: groups that refused the write
    landed,    \* landed[c]: groups that took it
    attempt, outcome,
    repairs,   \* writes that put a replica read into groups without one
    repaired,  \* groups such a write has reached
    faults

latestVars == <<store, stamp, role, stable, lpc, groups, looked, asking, tried, absentees, firsterr,
                readg, rdata, mismatch, landed, attempt, outcome, repairs, repaired, faults>>

Roles == {"cas", "latest", "write"}

-----------------------------------------------------------------------------
LatestInit ==
    /\ \E v \in {Absent, [val |-> <<"old">>, ts |-> 1]} :
          store \in [GroupSet -> {v, [val |-> <<"new">>, ts |-> 2]}]
    /\ stamp = 2
    /\ role \in [Clients -> Roles] /\ stable \in [Clients -> BOOLEAN]
    /\ \A c \in Clients : role[c] # "cas" => ~stable[c]
    /\ lpc = [c \in Clients |-> IF role[c] = "write" THEN "write" ELSE "start"]
    /\ groups = [c \in Clients |-> GroupSet]
    /\ looked = [c \in Clients |-> [g \in GroupSet |-> Absent]]
    /\ asking = [c \in Clients |-> IF role[c] = "write" THEN GroupSet ELSE {}]
    /\ tried = [c \in Clients |-> {}] /\ absentees = [c \in Clients |-> {}]
    /\ firsterr = [c \in Clients |-> "none"]
    /\ readg = [c \in Clients |-> Nowhere] /\ rdata = [c \in Clients |-> Absent]
    /\ mismatch = [c \in Clients |-> {}] /\ landed = [c \in Clients |-> {}]
    /\ attempt = [c \in Clients |-> 0] /\ outcome = [c \in Clients |-> "none"]
    /\ repairs = {} /\ repaired = {} /\ faults = 0

-----------------------------------------------------------------------------
\* A step in which a group fails, or not; MaxFaults bounds the failures.
Fault(happens) ==
    /\ happens => faults < MaxFaults
    /\ faults' = IF happens THEN faults + 1 ELSE faults

-----------------------------------------------------------------------------
(* prepare_latest(): a lookup in every group, their replies in any order.   *)

PrepareLatest(c) ==
    /\ lpc[c] = "start"
    /\ lpc' = [lpc EXCEPT ![c] = "lookup"]
    /\ asking' = [asking EXCEPT ![c] = groups[c]]
    /\ looked' = [looked EXCEPT ![c] = [g \in GroupSet |-> Absent]]
    /\ UNCHANGED <<store, stamp, role, stable, groups, tried, absentees, firsterr, readg, rdata,
                   mismatch, landed, attempt, outcome, repairs, repaired, faults>>

\* A group that does not answer, or has no object, gives an entry without data,
\* which the filters of both callers drop.
LookupReply(c, g, answers) ==
    /\ Fault(~answers)
    /\ lpc[c] = "lookup" /\ g \in asking[c]
    /\ asking' = [asking EXCEPT ![c] = @ \ {g}]
    /\ looked' = [looked EXCEPT ![c][g] = IF answers THEN store[g] ELSE Absent]
    /\ UNCHANGED <<store, stamp, role, stable, lpc, groups, tried, absentees, firsterr, readg, rdata,
                   mismatch, landed, attempt, outcome, repairs, repaired>>

\* read_latest_callback and cas_functor::on_prepare_lastest(): the groups that
\* have the object, or all groups as they were if none has.
OnPrepareLatest(c) ==
    /\ lpc[c] = "lookup" /\ asking[c] = {}
    /\ LET holders == {g \in groups[c] : looked[c][g] # Absent}
       IN  groups' = [groups EXCEPT ![c] = IF holders = {} THEN @ ELSE holders]
    /\ lpc' = [lpc EXCEPT ![c] = "read"]
    /\ tried' = [tried EXCEPT ![c] = {}] /\ absentees' = [absentees EXCEPT ![c] = {}]
    /\ firsterr' = [firsterr EXCEPT ![c] = "none"]
    /\ UNCHANGED <<store, stamp, role, stable, looked, asking, readg, rdata, mismatch, landed,
                   attempt, outcome, repairs, repaired, faults>>

-----------------------------------------------------------------------------
(* The read.                                                                *)

\* read_latest() reads in the order prepare_latest() sorted the groups, the
\* newest first; write_cas() reads in the order of mix_states() over all groups.
ReadFrom(c) == IF role[c] = "latest" THEN groups[c] ELSE GroupSet

\* Faulty form: the order of the sort is lost.
ReadNextAny(c) == ReadFrom(c) \ tried[c]

ReadNext(c) ==
    LET rest == ReadFrom(c) \ tried[c]
    IN  {g \in rest : role[c] = "latest" => \A h \in rest : looked[c][h].ts <= looked[c][g].ts}

\* Data is in: groups that had none are sent what was read (read_callback's
\* finish()), and the caller gets the data.
ReadReply(c, g) ==
    /\ lpc[c] = "read" /\ g \in ReadNext(c) /\ store[g] # Absent
    /\ readg' = [readg EXCEPT ![c] = g] /\ rdata' = [rdata EXCEPT ![c] = store[g]]
    /\ repairs' = repairs \cup {[group |-> h, replica |-> store[g]] : h \in absentees[c]}
    /\ lpc' = [lpc EXCEPT ![c] = IF role[c] = "cas" THEN "convert" ELSE "done"]
    /\ outcome' = [outcome EXCEPT ![c] = IF role[c] = "cas" THEN @ ELSE "ok"]
    /\ UNCHANGED <<store, stamp, role, stable, groups, looked, asking, tried, absentees, firsterr,
                   mismatch, landed, attempt, repaired, faults>>

\* No data: the next group, and after the last one the first error; write_cas()
\* takes "no such object" for empty data and stops on any other error.
ReadFails(c, g, error) ==
    /\ Fault(error # "enoent")
    /\ lpc[c] = "read" /\ g \in ReadNext(c)
    /\ error = "enoent" => store[g] = Absent
    /\ tried' = [tried EXCEPT ![c] = @ \cup {g}]
    /\ absentees' = [absentees EXCEPT ![c] = IF error = "enoent" THEN @ \cup {g} ELSE @]
    /\ firsterr' = [firsterr EXCEPT ![c] = IF @ = "none" THEN error ELSE @]
    /\ IF ReadFrom(c) \subseteq tried'[c]
       THEN /\ readg' = [readg EXCEPT ![c] = Nowhere] /\ rdata' = [rdata EXCEPT ![c] = Absent]
            /\ IF role[c] = "cas" /\ firsterr'[c] = "enoent"
               THEN lpc' = [lpc EXCEPT ![c] = "convert"] /\ UNCHANGED outcome
               ELSE /\ lpc' = [lpc EXCEPT ![c] = "done"]
                    /\ outcome' = [outcome EXCEPT ![c] = firsterr'[c]]
       ELSE UNCHANGED <<readg, rdata, lpc, outcome>>
    /\ UNCHANGED <<store, stamp, role, stable, groups, looked, asking, mismatch, landed, attempt, repairs, repaired>>

\* A write of the recovered replica arrives; it compares nothing.
Repair(m) ==
    /\ m \in repairs
    /\ repairs' = repairs \ {m} /\ repaired' = repaired \cup {m.group}
    /\ store' = [store EXCEPT ![m.group] = m.replica]
    /\ UNCHANGED <<stamp, role, stable, lpc, groups, looked, asking, tried, absentees, firsterr,
                   readg, rdata, mismatch, landed, attempt, outcome, faults>>

-----------------------------------------------------------------------------
(* cas_functor: convert, write to every group, retry where refused.         *)

Has(val, c) == \E i \in 1..Len(val) : val[i] = c
Converted(c) ==
    IF stable[c] /\ Has(rdata[c].val, c) THEN rdata[c].val ELSE Append(rdata[c].val, c)

\* cas_functor::on_read().
Convert(c) ==
    /\ lpc[c] = "convert"
    /\ IF Converted(c) = rdata[c].val
       THEN /\ lpc' = [lpc EXCEPT ![c] = "done"] /\ outcome' = [outcome EXCEPT ![c] = "ok"]
            /\ UNCHANGED <<asking, mismatch, landed>>
       ELSE /\ lpc' = [lpc EXCEPT ![c] = "write"] /\ asking' = [asking EXCEPT ![c] = groups[c]]
            /\ mismatch' = [mismatch EXCEPT ![c] = {}] /\ landed' = [landed EXCEPT ![c] = {}]
            /\ UNCHANGED outcome
    /\ UNCHANGED <<store, stamp, role, stable, groups, looked, tried, absentees, firsterr, readg, rdata,
                   attempt, repairs, repaired, faults>>

\* check_sums: what the lookup saw, except for the group that was read.
Expected(c, g) == IF g = readg[c] THEN rdata[c].val ELSE looked[c][g].val

\* Faulty form: nothing is compared.
CasLocalNot(c, g) == TRUE

\* dnet_cas_local(): without an object there is nothing to compare.
CasLocal(c, g) == store[g] = Absent \/ store[g].val = Expected(c, g)

Put(g, val) ==
    /\ stamp' = stamp + 1
    /\ store' = [store EXCEPT ![g] = [val |-> val, ts |-> stamp']]

WriteReply(c, g) ==
    /\ lpc[c] = "write" /\ role[c] = "cas" /\ g \in asking[c]
    /\ asking' = [asking EXCEPT ![c] = @ \ {g}]
    /\ IF CasLocal(c, g)
       THEN Put(g, Converted(c)) /\ landed' = [landed EXCEPT ![c] = @ \cup {g}] /\ UNCHANGED mismatch
       ELSE mismatch' = [mismatch EXCEPT ![c] = @ \cup {g}] /\ UNCHANGED <<store, stamp, landed>>
    /\ UNCHANGED <<role, stable, lpc, groups, looked, tried, absentees, firsterr, readg, rdata,
                   attempt, outcome, repairs, repaired, faults>>

\* The group does not answer, or fails for another reason: no retry.
WriteFails(c, g) ==
    /\ Fault(TRUE)
    /\ lpc[c] = "write" /\ role[c] = "cas" /\ g \in asking[c]
    /\ asking' = [asking EXCEPT ![c] = @ \ {g}]
    /\ UNCHANGED <<store, stamp, role, stable, lpc, groups, looked, tried, absentees, firsterr, readg,
                   rdata, mismatch, landed, attempt, outcome, repairs, repaired>>

\* What aggregated() makes of the writes of one iteration.
WriteOutcome(c) == IF landed[c] = {} THEN "error" ELSE "ok"

\* cas_functor::on_write_finished().
OnWriteFinished(c) ==
    /\ lpc[c] = "write" /\ role[c] = "cas" /\ asking[c] = {}
    /\ CASE mismatch[c] = {} ->
              /\ lpc' = [lpc EXCEPT ![c] = "done"]
              /\ outcome' = [outcome EXCEPT ![c] = WriteOutcome(c)]
              /\ UNCHANGED <<groups, attempt>>
         [] mismatch[c] # {} /\ attempt[c] + 1 < Count ->
              /\ lpc' = [lpc EXCEPT ![c] = "start"] /\ groups' = [groups EXCEPT ![c] = mismatch[c]]
              /\ attempt' = [attempt EXCEPT ![c] = @ + 1] /\ UNCHANGED outcome
         [] OTHER ->
              /\ lpc' = [lpc EXCEPT ![c] = "done"] /\ attempt' = [attempt EXCEPT ![c] = @ + 1]
              /\ outcome' = [outcome EXCEPT ![c] = "too many attempts"] /\ UNCHANGED groups
    /\ UNCHANGED <<store, stamp, role, stable, looked, asking, tried, absentees, firsterr, readg,
                   rdata, mismatch, landed, repairs, repaired, faults>>

\* A plain write of another client, group by group.
PlainWrite(c, g) ==
    /\ lpc[c] = "write" /\ role[c] = "write" /\ g \in asking[c]
    /\ asking' = [asking EXCEPT ![c] = @ \ {g}]
    /\ Put(g, <<c>>)
    /\ lpc' = [lpc EXCEPT ![c] = IF asking'[c] = {} THEN "done" ELSE @]
    /\ UNCHANGED <<role, stable, groups, looked, tried, absentees, firsterr, readg, rdata, mismatch,
                   landed, attempt, outcome, repairs, repaired, faults>>

LatestOver == (\A c \in Clients : lpc[c] = "done") /\ repairs = {} /\ UNCHANGED latestVars

-----------------------------------------------------------------------------
Lookup(c) ==
    \/ PrepareLatest(c) \/ OnPrepareLatest(c)
    \/ \E g \in GroupSet, answers \in BOOLEAN : LookupReply(c, g, answers)
Read(c) ==
    \E g \in GroupSet : ReadReply(c, g) \/ \E e \in {"enoent", "error"} : ReadFails(c, g, e)
Write(c) ==
    \/ Convert(c) \/ OnWriteFinished(c)
    \/ \E g \in GroupSet : WriteReply(c, g) \/ WriteFails(c, g) \/ PlainWrite(c, g)
Client(c) == Lookup(c) \/ Read(c) \/ Write(c)

LatestNext == (\E c \in Clients : Client(c)) \/ (\E m \in repairs : Repair(m)) \/ LatestOver

LatestSpec == LatestInit /\ [][LatestNext]_latestVars

-----------------------------------------------------------------------------
\* A conditional write replaces exactly what its client read: in the group the
\* data came from, an update adds to the content that is there, whatever other
\* clients did between the lookup, the read and the write.
ReplacesRead ==
    \A c \in Clients, g \in GroupSet :
        g \in landed'[c] \ landed[c] /\ g = readg[c] =>
            store[g] = Absent \/ store'[g].val = Append(store[g].val, c)
ReplacesWhatWasRead == [][ReplacesRead]_latestVars

\* read_latest() gives the newest replica it was told of: one that is no older
\* than the replica the lookup saw in any group it did not find failing, unless
\* the write of a recovered replica has put an old one back meanwhile.
NewestRead ==
    \A c \in Clients : role[c] = "latest" /\ outcome[c] = "ok" /\ readg[c] \notin repaired =>
        \A g \in groups[c] \ tried[c] : rdata[c].ts >= looked[c][g].ts

\* write_cas() reports success only if its update reached a group, or it found
\* it in the data it read.
SuccessIsWritten ==
    \A c \in Clients : role[c] = "cas" /\ outcome[c] = "ok" => landed[c] # {} \/ Has(rdata[c].val, c)

\* A client completes: a refused write is retried Count times at most.
ClientsComplete == <>(\A c \in Clients : lpc[c] = "done")

\* The comment on cas_functor: "At every iteration ask items to find the latest
\* one / Read it, process and write result to all groups".
ConvertsLatest ==
    \A c \in Clients : lpc[c] = "convert" /\ readg[c] # Nowhere =>
        \A g \in groups[c] \ tried[c] : rdata[c].ts >= looked[c][g].ts

=============================================================================
