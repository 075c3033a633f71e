----------------------------- MODULE ChunkWrite -----------------------------
(***************************************************************************)
(* session::write_data() with a chunk size (bindings/cpp/session.cpp):     *)
(* write_prepare() for the first chunk, write_plain() for those between,   *)
(* write_commit() for the last one, each sent to the groups that took the  *)
(* one before.  A replica is the set of bytes it has, the size reserved    *)
(* for it and the size it was committed with.                              *)
(***************************************************************************)
EXTENDS Naturals, FiniteSets

CONSTANTS
    GroupSet,
    MaxSize    \* bound: bytes of the content

Checkers == {"at_least_one", "all_groups", "quorum"}

VARIABLES
    size, chunk_size, policy,
    wpc,
    wgroups,      \* groups of the session the chunks are written with
    unanswered,   \* groups whose reply to the chunk at hand is still to come
    took,         \* groups that answered it
    local_offset,
    replica,
    reported,     \* groups the entries of the result name
    verdict

chunkVars == <<size, chunk_size, policy, wpc, wgroups, unanswered, took, local_offset, replica,
               reported, verdict>>

ChunkInit ==
    /\ size \in 0..MaxSize /\ chunk_size \in 0..MaxSize /\ policy \in Checkers
    /\ wpc = "start" /\ wgroups = GroupSet /\ unanswered = {} /\ took = {} /\ local_offset = 0
    /\ replica = [g \in GroupSet |-> [has |-> {}, reserved |-> 0, committed |-> 0]]
    /\ reported = {} /\ verdict = "none"

Accepted(sts, total) ==
    CASE policy = "at_least_one" -> sts # {}
      [] policy = "all_groups"   -> Cardinality(sts) = total
      [] policy = "quorum"       -> Cardinality(sts) > total \div 2

-----------------------------------------------------------------------------
\* A write of content that fits into a chunk is one plain write with its own
\* commit; otherwise the first chunk reserves the space.
StartWrite ==
    /\ wpc = "start"
    /\ wpc' = IF size <= chunk_size \/ chunk_size = 0 THEN "whole" ELSE "prepare"
    /\ unanswered' = wgroups
    /\ UNCHANGED <<size, chunk_size, policy, wgroups, took, local_offset, replica, reported, verdict>>

\* The bytes of the chunk at hand, as content.slice() gives them.
Bytes ==
    CASE wpc = "whole"  -> 0..size - 1
      [] wpc = "commit" -> local_offset..size - 1
      [] OTHER          -> local_offset..local_offset + chunk_size - 1

\* One group takes the chunk.
ChunkTaken(g) ==
    /\ wpc \in {"whole", "prepare", "plain", "commit"} /\ g \in unanswered
    /\ unanswered' = unanswered \ {g} /\ took' = took \cup {g}
    /\ replica' = [replica EXCEPT ![g] =
                     [has |-> @.has \cup Bytes,
                      reserved |-> IF wpc = "prepare" THEN size ELSE @.reserved,
                      committed |-> IF wpc \in {"whole", "commit"} THEN size ELSE @.committed]]
    /\ UNCHANGED <<size, chunk_size, policy, wpc, wgroups, local_offset, reported, verdict>>

\* One group does not.
ChunkFails(g) ==
    /\ wpc \in {"whole", "prepare", "plain", "commit"} /\ g \in unanswered
    /\ unanswered' = unanswered \ {g}
    /\ UNCHANGED <<size, chunk_size, policy, wpc, wgroups, took, local_offset, replica, reported, verdict>>

\* Faulty form: every group gets the next chunk.
NextGroupsAll == wgroups

\* The groups of the next chunk, and whether it is the last one.
NextGroups == took
LastChunk(offset) == offset + chunk_size >= size

\* chunk_handler::write_next(): an error ends the write; else the next chunk
\* goes to the groups that took this one, and the last one commits.
WriteNext ==
    /\ wpc \in {"prepare", "plain"} /\ unanswered = {}
    /\ IF ~Accepted(took, Cardinality(wgroups))
       THEN /\ wpc' = "done" /\ verdict' = "error"
            /\ UNCHANGED <<wgroups, unanswered, took, local_offset>>
       ELSE /\ wgroups' = NextGroups /\ unanswered' = NextGroups /\ took' = {}
            /\ local_offset' = local_offset + chunk_size
            /\ wpc' = IF LastChunk(local_offset') THEN "commit" ELSE "plain"
            /\ UNCHANGED verdict
    /\ UNCHANGED <<size, chunk_size, policy, replica, reported>>

\* chunk_handler::finish().  The result the entries go into has no total: it
\* was never given one.
FinishWrite ==
    /\ wpc \in {"whole", "commit"} /\ unanswered = {}
    /\ wpc' = "done" /\ reported' = took
    /\ verdict' = IF /\ Accepted(took, Cardinality(wgroups))
                     /\ wpc = "commit" => Accepted(took, 0)
                  THEN "ok" ELSE "error"
    /\ UNCHANGED <<size, chunk_size, policy, wgroups, unanswered, took, local_offset, replica>>

ChunkOver == wpc = "done" /\ UNCHANGED chunkVars

ChunkStep ==
    StartWrite \/ WriteNext \/ FinishWrite \/ \E g \in GroupSet : ChunkTaken(g) \/ ChunkFails(g)
ChunkNext == ChunkStep \/ ChunkOver

ChunkSpec == ChunkInit /\ [][ChunkNext]_chunkVars

-----------------------------------------------------------------------------
Whole(g) == replica[g].has = 0..size - 1 /\ replica[g].committed = size

\* A replica that is committed is complete: a group that missed a chunk gets
\* neither a later one nor the commit, for every size of content and chunks.
CommittedIsWhole == \A g \in GroupSet : replica[g].committed > 0 => Whole(g)

\* No chunk reaches beyond the space the first one reserved.
WithinReserved ==
    \A g \in GroupSet : replica[g].reserved > 0 =>
        \A b \in replica[g].has : b < replica[g].reserved

\* Success means that the groups the result names have all of the content, and
\* that there is one.
SuccessIsStored ==
    verdict = "ok" => reported # {} /\ (size > 0 => \A g \in reported : Whole(g))

\* The write ends.
WriteEnds == <>(wpc = "done")

\* session.hpp on set_checker(): "Check success of operation by \a checker".
AllGroupsTook ==
    wpc = "done" /\ policy = "all_groups" /\ took = GroupSet => verdict = "ok"

=============================================================================
