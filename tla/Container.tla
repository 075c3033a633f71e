----------------------------- MODULE Container -----------------------------
(***************************************************************************)
(* Containers of iterator responses (library/dnet_common.c): recovery      *)
(* appends what the iterator of a remote node sends to a file, sorts the   *)
(* files and takes the difference of two of them, the keys that one node   *)
(* has to get from the other.                                              *)
(*                                                                         *)
(* A response is [key, ts, size].  A container may hold a key many times.  *)
(***************************************************************************)
EXTENDS Integers, Sequences, FiniteSets

CONSTANTS
    Responses,   \* responses an iterator may send
    MaxLen       \* bound: responses in a container

Names == {"left", "right"}

VARIABLES
    box,      \* container -> its responses, in the order of the file
    sorted,   \* containers that were sorted
    at,       \* container -> left_offset, right_offset, in responses
    diff,
    cpc

containerVars == <<box, sorted, at, diff, cpc>>

-----------------------------------------------------------------------------
\* dnet_iterator_response_cmp(): by key, then the newer one, then the larger one.
Cmp(a, b) ==
    CASE a.key # b.key -> a.key - b.key
      [] a.key = b.key /\ a.ts # b.ts -> b.ts - a.ts
      [] OTHER -> IF a.size > b.size THEN -1 ELSE IF a.size < b.size THEN 1 ELSE 0

\* The permutations qsort() may leave (responses that compare equal are equal).
Sorted(s) ==
    {p \in {[i \in DOMAIN s |-> s[f[i]]] :
              f \in {g \in [DOMAIN s -> DOMAIN s] : \A i, j \in DOMAIN s : i # j => g[i] # g[j]}} :
        \A i \in 1..(Len(s) - 1) : Cmp(p[i], p[i + 1]) <= 0}

\* Faulty form: one response is skipped, whatever its key.
SkipOne(s, n) == n + 1

\* dnet_iterator_response_skip_equal_keys(): the first response after position n
\* with another key.
SkipEqualKeys(s, n) ==
    CHOOSE m \in (n + 1)..(Len(s) + 1) :
        /\ m <= Len(s) => s[m].key # s[n].key
        /\ \A k \in n..(m - 1) : s[k].key = s[n].key

-----------------------------------------------------------------------------
ContainerInit ==
    /\ box = [c \in Names |-> <<>>] /\ sorted = {}
    /\ at = [c \in Names |-> 1] /\ diff = <<>> /\ cpc = "fill"

\* dnet_iterator_response_container_append().
Store(c, r) ==
    /\ cpc = "fill" /\ c \notin sorted /\ Len(box[c]) < MaxLen
    /\ box' = [box EXCEPT ![c] = Append(@, r)]
    /\ UNCHANGED <<sorted, at, diff, cpc>>

Sort(c) ==
    /\ cpc = "fill" /\ c \notin sorted
    /\ \E s \in Sorted(box[c]) : box' = [box EXCEPT ![c] = s]
    /\ sorted' = sorted \cup {c}
    /\ UNCHANGED <<at, diff, cpc>>

DiffStart ==
    /\ cpc = "fill" /\ sorted = Names
    /\ cpc' = "diff"
    /\ UNCHANGED <<box, sorted, at, diff>>

\* One turn of the loop.  With the left container at its end the code compares
\* with what follows it, and does not use the outcome.
DiffStep ==
    /\ cpc = "diff" /\ at["right"] <= Len(box["right"])
    /\ LET more == at["left"] <= Len(box["left"])
           l    == box["left"][at["left"]]
           r    == box["right"][at["right"]]
           same == more /\ l.key = r.key
           keep == more /\ Cmp(l, r) <= 0
           nextLeft  == SkipEqualKeys(box["left"], at["left"])
           nextRight == SkipEqualKeys(box["right"], at["right"])
       IN  /\ diff' = IF keep THEN diff ELSE Append(diff, r)
           /\ at' = [left  |-> IF keep \/ same THEN nextLeft ELSE at["left"],
                     right |-> IF ~keep \/ same THEN nextRight ELSE at["right"]]
    /\ UNCHANGED <<box, sorted, cpc>>

DiffEnd ==
    /\ cpc = "diff" /\ at["right"] > Len(box["right"])
    /\ cpc' = "over"
    /\ UNCHANGED <<box, sorted, at, diff>>

ContainerOver == cpc = "over" /\ UNCHANGED containerVars

ContainerNext ==
    \/ \E c \in Names : Sort(c) \/ \E r \in Responses : Store(c, r)
    \/ DiffStart \/ DiffStep \/ DiffEnd \/ ContainerOver

ContainerSpec == ContainerInit /\ [][ContainerNext]_containerVars

-----------------------------------------------------------------------------
All(c) == {box[c][i] : i \in DOMAIN box[c]}
Newer(a, b) == a.ts > b.ts \/ (a.ts = b.ts /\ a.size > b.size)

\* The best response of the right container for a key, if the left one has none
\* that is as good.
Recovered ==
    {r \in All("right") :
        \A o \in All("right") \cup All("left") : o.key = r.key /\ o # r => Newer(r, o)} \ All("left")

\* The difference is exactly what has to be recovered: each key at most once, with
\* the newest response of the right container, if that is newer (or of the same
\* time and larger) than all the left container has for it, and in order.  That
\* holds however often a key is in either container.
DiffIsExact ==
    cpc = "over" =>
        /\ {diff[i] : i \in DOMAIN diff} = Recovered
        /\ \A i \in 1..(Len(diff) - 1) : diff[i].key < diff[i + 1].key

\* dnet_common.c:2407: "returned container has only items that exist only in
\* right, or exist in both but right one is newer (w.r.t. timestamp)".
DiffIsNewer ==
    cpc = "over" =>
        \A i \in DOMAIN diff, l \in All("left") : l.key = diff[i].key => diff[i].ts > l.ts
=============================================================================
