-------------------------- MODULE RouteTableProofs --------------------------
(***************************************************************************)
(* The route table: sorting and searching of an array of ids, and what     *)
(* holds of the table, its groups and its states, for any finite sets of   *)
(* states and users.                                                       *)
(***************************************************************************)
EXTENDS RouteTable, FiniteSetTheorems, WellFoundedInduction, TLAPS

-----------------------------------------------------------------------------
(* Sorting *)

\* No two entries have one id.
Distinct(S) == \A x, y \in S : x.id = y.id => x = y

\* The entries up to e.
UpTo(S, e) == {x \in S : x.id <= e.id}

\* Entries in the order of their ids.
Sorted(a) == \A i, j \in 1..Len(a) : i < j => a[i].id < a[j].id

\* An id is a number.
LEMMA IdsAreNumbers == Ids \subseteq Nat
BY RouteAssumption, SMTT(30) DEF Ids

\* qsort gives an array of the same entries, in order.
LEMMA SortIdsSorts ==
    ASSUME NEW S \in SUBSET Entry, IsFiniteSet(S), Distinct(S)
    PROVE  /\ SortIds(S) \in Seq(S)
           /\ Len(SortIds(S)) = Cardinality(S)
           /\ {SortIds(S)[i] : i \in 1..Cardinality(S)} = S
           /\ Sorted(SortIds(S))
<1> DEFINE n == Cardinality(S)
           rank == [e \in S |-> Cardinality(UpTo(S, e))]
<1>1. n \in Nat
    BY FS_CardinalityType, Zenon
<1>2. \A e \in S : e.id \in Nat
    BY IdsAreNumbers, Zenon DEF Entry
<1>3. ASSUME NEW e \in S
      PROVE  /\ UpTo(S, e) \in SUBSET S /\ IsFiniteSet(UpTo(S, e))
             /\ rank[e] = Cardinality(UpTo(S, e))
             /\ rank[e] \in 1..n
    <2>1. UpTo(S, e) \in SUBSET S
        BY Zenon DEF UpTo
    <2>2. IsFiniteSet(UpTo(S, e)) /\ Cardinality(UpTo(S, e)) <= n
        BY <2>1, FS_Subset, Zenon
    <2>3. Cardinality(UpTo(S, e)) \in Nat
        BY <2>2, FS_CardinalityType, Zenon
    <2>4. e \in UpTo(S, e)
        BY <1>2, SMTT(30) DEF UpTo
    <2>5. Cardinality(UpTo(S, e)) # 0
        BY <2>2, <2>4, FS_EmptySet, Zenon
    <2> QED
        BY <1>1, <2>1, <2>2, <2>3, <2>5, SMTT(30)
<1>4. ASSUME NEW e \in S, NEW f \in S, e.id < f.id
      PROVE  rank[e] < rank[f]
    <2>1. UpTo(S, e) \in SUBSET UpTo(S, f)
        BY <1>2, <1>4, SMTT(30) DEF UpTo
    <2>2. f \in UpTo(S, f) /\ f \notin UpTo(S, e)
        BY <1>2, <1>4, SMTT(30) DEF UpTo
    <2>3. /\ Cardinality(UpTo(S, e)) <= Cardinality(UpTo(S, f))
          /\ Cardinality(UpTo(S, f)) # Cardinality(UpTo(S, e))
        BY <1>3, <2>1, <2>2, FS_Subset, Zenon
    <2> HIDE DEF rank
    <2>4. rank[e] = Cardinality(UpTo(S, e)) /\ rank[f] = Cardinality(UpTo(S, f))
        BY <1>3, Zenon
    <2>5. rank[e] \in Nat /\ rank[f] \in Nat
        BY <1>1, <1>3, SMTT(30)
    <2> QED
        BY <2>3, <2>4, <2>5, SMTT(30)
<1>5. \A e, f \in S : e # f => rank[e] # rank[f]
    <2> SUFFICES ASSUME NEW e \in S, NEW f \in S, e # f
                 PROVE  rank[e] # rank[f]
        BY Zenon
    <2> HIDE DEF rank
    <2>1. e.id < f.id \/ f.id < e.id
        BY <1>2, SMTT(30) DEF Distinct
    <2>2. rank[e] \in Nat /\ rank[f] \in Nat
        BY <1>1, <1>3, SMTT(30)
    <2>3. rank[e] < rank[f] \/ rank[f] < rank[e]
        BY <1>4, <2>1, Zenon
    <2> QED
        BY <2>2, <2>3, SMTT(30)
<1>6. rank \in [S -> 1..n]
    BY <1>3, Zenon
<1>7. rank \in Injection(S, 1..n)
    BY <1>5, <1>6, Zenon DEF Injection, IsInjective
<1>8. IsFiniteSet(1..n) /\ Cardinality(1..n) = n
    BY <1>1, FS_Interval, SMTT(30)
<1>9. rank \in Surjection(S, 1..n)
    BY <1>7, <1>8, FS_Injection, Zenon
<1>10. \A i \in 1..n : \E e \in S : rank[e] = i
    BY <1>9, Zenon DEF Surjection
<1>11. ASSUME NEW i \in 1..n
       PROVE  SortIds(S)[i] \in S /\ rank[SortIds(S)[i]] = i
    <2>1. SortIds(S)[i] = CHOOSE e \in S : Cardinality({x \in S : x.id <= e.id}) = i
        BY Zenon DEF SortIds
    <2>2. \E e \in S : Cardinality({x \in S : x.id <= e.id}) = i
        BY <1>10, Zenon DEF UpTo
    <2>3. SortIds(S)[i] \in S /\ Cardinality({x \in S : x.id <= SortIds(S)[i].id}) = i
        BY <2>1, <2>2, Zenon
    <2> QED
        BY <2>3, Zenon DEF UpTo
<1> HIDE DEF rank
<1>12. SortIds(S) \in [1..n -> S]
    BY <1>11, Zenon DEF SortIds
<1>13. SortIds(S) \in Seq(S) /\ Len(SortIds(S)) = n
    BY <1>1, <1>12, SMTT(30)
<1>14. {SortIds(S)[i] : i \in 1..n} = S
    <2>1. ASSUME NEW e \in S PROVE \E i \in 1..n : SortIds(S)[i] = e
        <3>1. rank[e] \in 1..n
            BY <1>3, Zenon
        <3>2. SortIds(S)[rank[e]] = e
            BY <1>5, <1>11, <3>1, Zenon
        <3> QED
            BY <3>1, <3>2, Zenon
    <2> QED
        BY <1>11, <2>1, Zenon
<1>15. ASSUME NEW i \in 1..n, NEW j \in 1..n, i < j
       PROVE  SortIds(S)[i].id < SortIds(S)[j].id
    <2> DEFINE x == SortIds(S)[i]
               y == SortIds(S)[j]
    <2>1. x \in S /\ y \in S /\ rank[x] = i /\ rank[y] = j
        BY <1>11, Zenon
    <2> HIDE DEF x, y
    <2>2. x.id \in Nat /\ y.id \in Nat
        BY <1>2, <2>1, Zenon
    <2>3. x.id # y.id
        BY <1>15, <2>1, <1>1, SMTT(30) DEF Distinct
    <2>4. ~(y.id < x.id)
        BY <1>1, <1>4, <1>15, <2>1, SMTT(30)
    <2>5. x.id < y.id
        BY <2>2, <2>3, <2>4, SMTT(30)
    <2> QED
        BY <2>5, Zenon DEF x, y
<1> QED
    BY <1>13, <1>14, <1>15, Zenon DEF Sorted

-----------------------------------------------------------------------------
(* Searching *)

\* A set of natural numbers has a least element.
LEMMA LeastNumber ==
    ASSUME NEW T \in SUBSET Nat, T # {}
    PROVE  \E m \in T : \A k \in T : m <= k
<1>1. IsWellFoundedOn(OpToRel(<, Nat), Nat)
    BY NatLessThanWellFounded, Zenon
<1>2. PICK m \in T : \A k \in T : ~(<<k, m>> \in OpToRel(<, Nat))
    BY <1>1, WFMin, Zenon
<1>3. \A k \in T : ~(k < m)
    BY <1>2, Zenon DEF OpToRel
<1> QED
    BY <1>3, SMTT(30)

\* The ids of an array are numbers.
LEMMA ArrayNumbers ==
    ASSUME NEW a \in Seq(Entry)
    PROVE  Len(a) \in Nat /\ \A i \in 1..Len(a) : a[i].id \in Nat
<1>1. Len(a) \in Nat /\ \A i \in 1..Len(a) : a[i] \in Entry
    BY SMTT(30)
<1>2. \A e \in Entry : e.id \in Nat
    BY IdsAreNumbers, Zenon DEF Entry
<1> QED
    BY <1>1, <1>2, Zenon

\* The intervals the loop may be at.
Spans(n) == [low : -1..n, high : 0..n]
Span(low, high) == [low |-> low, high |-> high]

\* A turn of the loop that goes on as f says.
Turn(a, key, f, low, high) ==
    IF high - low <= 1 THEN high - 1
    ELSE LET i == low + (high - low) \div 2 IN
         IF a[i + 1].id < key THEN f[Span(i, high)]
         ELSE IF a[i + 1].id > key THEN f[Span(low, i)] ELSE i

\* f is right about all intervals up to length k.
Loops(a, key, f, k) ==
    \A low \in -1..Len(a), high \in 0..Len(a) :
        high - low <= k => f[Span(low, high)] = Turn(a, key, f, low, high)

\* One more turn.
Unfold(a, key, f) == [r \in Spans(Len(a)) |-> Turn(a, key, f, r.low, r.high)]

\* One turn of the loop, between given bounds.
LEMMA UnfoldAt ==
    ASSUME NEW a \in Seq(Entry), NEW key, NEW f, NEW low \in -1..Len(a), NEW high \in 0..Len(a)
    PROVE  Unfold(a, key, f)[Span(low, high)] = Turn(a, key, f, low, high)
<1>1. Span(low, high) \in Spans(Len(a)) /\ Span(low, high).low = low /\ Span(low, high).high = high
    BY Zenon DEF Span, Spans
<1> QED
    BY <1>1, Zenon DEF Unfold

\* The middle of an interval.
LEMMA Middle ==
    ASSUME NEW low \in Int, NEW high \in Int, ~(high - low <= 1)
    PROVE  LET i == low + (high - low) \div 2 IN i \in Int /\ low < i /\ i < high
BY SMTT(30)

\* The definition of the loop by recursion is one: the intervals become shorter.
LEMMA LoopTurns ==
    ASSUME NEW a \in Seq(Entry), NEW key \in Ids
    PROVE  \A low \in -1..Len(a), high \in 0..Len(a) :
              SearchLoop(a, key)[Span(low, high)] = Turn(a, key, SearchLoop(a, key), low, high)
<1> DEFINE n == Len(a)
           T == {k \in Nat : ~\E f : Loops(a, key, f, k)}
<1>1. n \in Nat
    BY SMTT(30)
<1>2. ASSUME NEW f, NEW k \in Nat, Loops(a, key, f, k)
      PROVE  Loops(a, key, Unfold(a, key, f), k + 1)
    <2> DEFINE h == Unfold(a, key, f)
    <2> SUFFICES ASSUME NEW low \in -1..n, NEW high \in 0..n, high - low <= k + 1
                 PROVE  h[Span(low, high)] = Turn(a, key, h, low, high)
        BY Zenon DEF Loops
    <2>1. h[Span(low, high)] = Turn(a, key, f, low, high)
        BY UnfoldAt, Zenon
    <2>2. CASE high - low <= 1
        BY <2>1, <2>2, Zenon DEF Turn
    <2>3. CASE ~(high - low <= 1)
        <3> DEFINE i == low + (high - low) \div 2
        <3>1. i \in Int /\ low < i /\ i < high
            BY <1>1, <2>3, Middle, SMTT(30)
        <3> HIDE DEF i
        <3>2. i \in -1..n /\ i \in 0..n /\ high - i <= k /\ i - low <= k
            BY <1>1, <3>1, SMTT(30)
        <3>3. h[Span(i, high)] = Turn(a, key, f, i, high) /\ h[Span(low, i)] = Turn(a, key, f, low, i)
            BY <3>2, UnfoldAt, Zenon
        <3>4. f[Span(i, high)] = Turn(a, key, f, i, high) /\ f[Span(low, i)] = Turn(a, key, f, low, i)
            BY <1>2, <3>2, Zenon DEF Loops
        <3>5. h[Span(i, high)] = f[Span(i, high)] /\ h[Span(low, i)] = f[Span(low, i)]
            BY <3>3, <3>4, Zenon
        <3> HIDE DEF h
        <3> QED
            BY <2>1, <2>3, <3>5, Zenon DEF Turn, i
    <2> QED
        BY <2>2, <2>3, Zenon
<1>3. T = {}
    <2> SUFFICES ASSUME T # {} PROVE FALSE
        BY Zenon
    <2>1. PICK m \in T : \A k \in T : m <= k
        BY LeastNumber, Zenon
    <2>2. CASE m = 0
        <3> DEFINE g == [r \in Spans(n) |-> r.high - 1]
        <3>1. \A low \in -1..n, high \in 0..n : g[Span(low, high)] = high - 1
            BY Zenon DEF Spans, Span
        <3> HIDE DEF g
        <3>2. Loops(a, key, g, 0)
            BY <1>1, <3>1, SMTT(30) DEF Loops, Turn
        <3> QED
            BY <2>1, <2>2, <3>2, Zenon
    <2>3. CASE m # 0
        <3>1. m - 1 \in Nat /\ ~(m <= m - 1) /\ (m - 1) + 1 = m
            BY <2>1, <2>3, SMTT(30)
        <3>2. PICK f : Loops(a, key, f, m - 1)
            BY <2>1, <3>1, Zenon
        <3>3. Loops(a, key, Unfold(a, key, f), m)
            BY <1>2, <3>1, <3>2, Zenon
        <3> QED
            BY <2>1, <3>3, Zenon
    <2> QED
        BY <2>2, <2>3, Zenon
<1>4. PICK f : Loops(a, key, f, n + 1)
    <2>1. n + 1 \in Nat
        BY <1>1, SMTT(30)
    <2>2. n + 1 \notin T
        BY <1>3, Zenon
    <2> HIDE DEF n
    <2> QED
        BY <2>1, <2>2, Zenon
<1>5. \A low \in -1..n, high \in 0..n : f[Span(low, high)] = Turn(a, key, f, low, high)
    <2>1. \A low \in -1..n, high \in 0..n : high - low <= n + 1
        BY <1>1, SMTT(30)
    <2> QED
        BY <1>4, <2>1, Zenon DEF Loops
<1> DEFINE h == Unfold(a, key, f)
<1>6. \A low \in -1..n, high \in 0..n : h[Span(low, high)] = f[Span(low, high)]
    BY <1>5, UnfoldAt, Zenon
<1>7. h = Unfold(a, key, h)
    <2>1. ASSUME NEW low \in -1..n, NEW high \in 0..n
          PROVE  Turn(a, key, f, low, high) = Turn(a, key, h, low, high)
        <3>1. CASE high - low <= 1
            BY <3>1, Zenon DEF Turn
        <3>2. CASE ~(high - low <= 1)
            <4> DEFINE i == low + (high - low) \div 2
            <4>1. i \in Int /\ low < i /\ i < high
                BY <1>1, <3>2, Middle, SMTT(30)
            <4> HIDE DEF i
            <4>2. i \in -1..n /\ i \in 0..n
                BY <1>1, <4>1, SMTT(30)
            <4>3. h[Span(i, high)] = f[Span(i, high)] /\ h[Span(low, i)] = f[Span(low, i)]
                BY <1>6, <4>2, Zenon
            <4> HIDE DEF h
            <4> QED
                BY <3>2, <4>3, Zenon DEF Turn, i
        <3> QED
            BY <3>1, <3>2, Zenon
    <2>2. \A r \in Spans(n) : r.low \in -1..n /\ r.high \in 0..n
        BY Zenon DEF Spans
    <2>3. \A r \in Spans(n) : Turn(a, key, f, r.low, r.high) = Turn(a, key, h, r.low, r.high)
        BY <2>1, <2>2, Zenon
    <2> QED
        BY <2>3, Zenon DEF Unfold
<1>8. SearchLoop(a, key) = CHOOSE g : g = Unfold(a, key, g)
    BY Zenon DEF SearchLoop, Unfold, Turn, Span, Spans
<1>9. SearchLoop(a, key) = Unfold(a, key, SearchLoop(a, key))
    BY <1>7, <1>8, Zenon
<1> QED
    BY <1>9, UnfoldAt, Zenon

\* The search of an interval finds the last id up to the key, if the ids below
\* the interval are less than the key and those above are greater.
Brackets(a, key, low, high) ==
    /\ low < high
    /\ low >= 0 => a[low + 1].id < key
    /\ high < Len(a) => a[high + 1].id > key

Finds(a, key, r, low, high) ==
    /\ r \in Int /\ low <= r /\ r < high
    /\ r >= 0 => a[r + 1].id <= key
    /\ r + 1 < Len(a) => a[r + 2].id > key

\* Numbers are compared.
LEMMA Compared ==
    ASSUME NEW x \in Nat, NEW y \in Nat
    PROVE  x < y \/ x > y \/ x = y
BY SMTT(30)

\* The loop of __dnet_idc_search finds the last id up to the key between its bounds;
\* for otherwise there would be two bounds closest to each other where it does not.
LEMMA LoopFinds ==
    ASSUME NEW a \in Seq(Entry), Sorted(a), NEW key \in Ids
    PROVE  \A low \in -1..Len(a), high \in 0..Len(a) :
              Brackets(a, key, low, high) => Finds(a, key, SearchLoop(a, key)[Span(low, high)], low, high)
<1> DEFINE n == Len(a)
           f == SearchLoop(a, key)
           Bad(k) == \E low \in -1..n, high \in 0..n :
                        high - low = k /\ Brackets(a, key, low, high) /\ ~Finds(a, key, f[Span(low, high)], low, high)
           T == {k \in Nat : Bad(k)}
<1>1. n \in Nat /\ key \in Nat /\ (\A i \in 1..n : a[i].id \in Nat)
    BY IdsAreNumbers, ArrayNumbers, Zenon
<1>2. ASSUME NEW low \in -1..n, NEW high \in 0..n
      PROVE  f[Span(low, high)] = Turn(a, key, f, low, high)
    BY LoopTurns, Zenon
<1> HIDE DEF f
<1>3. T = {}
    <2> SUFFICES ASSUME T # {} PROVE FALSE
        BY Zenon
    <2>1. PICK m \in T : \A k \in T : m <= k
        BY LeastNumber, Zenon
    <2>2. PICK low \in -1..n, high \in 0..n :
              high - low = m /\ Brackets(a, key, low, high) /\ ~Finds(a, key, f[Span(low, high)], low, high)
        BY <2>1, Zenon
    <2>0. m \in Nat /\ \A k \in Nat : k < m => ~Bad(k)
        BY <2>1, SMTT(30)
    <2> HIDE DEF T
    <2>3. CASE high - low <= 1
        <3>1. f[Span(low, high)] = high - 1 /\ high = low + 1
            <4>1. low < high /\ f[Span(low, high)] = Turn(a, key, f, low, high)
                BY <1>2, <2>2, Zenon DEF Brackets
            <4> HIDE DEF n
            <4> QED
                BY <1>1, <2>3, <4>1, SMTT(30) DEF Turn
        <3>2. /\ low \in Int /\ low >= 0 => a[low + 1].id < key
              /\ low + 1 < Len(a) => a[low + 2].id > key
            <4>1. (low + 1) + 1 = low + 2 /\ low \in Int
                BY SMTT(30)
            <4> QED
                BY <2>2, <3>1, <4>1, Zenon DEF Brackets
        <3>3. f[Span(low, high)] = low /\ low < high
            BY <3>1, SMTT(30)
        <3>4. low >= 0 => a[low + 1].id <= key
            <4>1. low >= 0 => low + 1 \in 1..n
                BY <1>1, <3>1, SMTT(30)
            <4> QED
                BY <1>1, <3>2, <4>1, SMTT(30)
        <3> QED
            BY <2>2, <3>2, <3>3, <3>4, SMTT(30) DEF Finds
    <2>4. CASE ~(high - low <= 1)
        <3> DEFINE i == low + (high - low) \div 2
        <3>1. i \in Int /\ low < i /\ i < high
            BY <1>1, <2>4, Middle, SMTT(30)
        <3>2. f[Span(low, high)] = IF a[i + 1].id < key THEN f[Span(i, high)]
                             ELSE IF a[i + 1].id > key THEN f[Span(low, i)] ELSE i
            BY <1>2, <2>4, Zenon DEF Turn
        <3> HIDE DEF i
        <3>3. /\ i \in -1..n /\ i \in 0..n /\ i + 1 \in 1..n /\ a[i + 1].id \in Nat
              /\ high - i \in Nat /\ i - low \in Nat /\ high - i < m /\ i - low < m
            <4>1. high - low = m
                BY <2>2, Zenon
            <4> HIDE DEF n
            <4>2. /\ i \in -1..n /\ i \in 0..n /\ i + 1 \in 1..n
                  /\ high - i \in Nat /\ i - low \in Nat /\ high - i < m /\ i - low < m
                BY <1>1, <2>0, <3>1, <4>1, SMTT(30)
            <4> QED
                BY <1>1, <4>2, Zenon
        <3>4. ~Bad(high - i) /\ ~Bad(i - low)
            BY <2>0, <3>3, Zenon
        <3> HIDE DEF n
        <3>5. CASE a[i + 1].id < key
            <4>1. Brackets(a, key, i, high)
                BY <2>2, <3>1, <3>5, Zenon DEF Brackets
            <4>2. Finds(a, key, f[Span(i, high)], i, high)
                BY <3>3, <3>4, <4>1, Zenon
            <4>3. f[Span(low, high)] = f[Span(i, high)]
                BY <3>2, <3>5, Zenon
            <4> QED
                BY <1>1, <2>2, <3>1, <4>2, <4>3, SMTT(30) DEF Finds
        <3>6. CASE a[i + 1].id > key
            <4>1. Brackets(a, key, low, i)
                BY <2>2, <3>1, <3>6, Zenon DEF Brackets
            <4>2. Finds(a, key, f[Span(low, i)], low, i)
                BY <3>3, <3>4, <4>1, Zenon
            <4>3. f[Span(low, high)] = f[Span(low, i)]
                BY <1>1, <3>2, <3>3, <3>6, SMTT(30)
            <4> QED
                BY <1>1, <2>2, <3>1, <4>2, <4>3, SMTT(30) DEF Finds
        <3>7. CASE a[i + 1].id = key
            <4>1. f[Span(low, high)] = i
                BY <1>1, <3>2, <3>7, SMTT(30)
            <4>2. i + 1 < n => a[i + 2].id > key
                <5> SUFFICES ASSUME i + 1 < n PROVE a[i + 2].id > key
                    BY Zenon
                <5>1. i + 2 \in 1..n /\ i + 1 < i + 2
                    BY <1>1, <3>3, SMTT(30)
                <5>2. a[i + 1].id < a[i + 2].id /\ a[i + 2].id \in Nat
                    BY <1>1, <3>3, <5>1, Zenon DEF Sorted, n
                <5> QED
                    BY <1>1, <3>7, <5>2, Zenon
            <4> QED
                BY <1>1, <2>2, <3>1, <3>7, <4>1, <4>2, SMTT(30) DEF Finds, n
        <3>8. a[i + 1].id < key \/ a[i + 1].id > key \/ a[i + 1].id = key
            BY <1>1, <3>3, Compared, Zenon
        <3> QED
            BY <3>5, <3>6, <3>7, <3>8, Zenon
    <2> QED
        BY <2>3, <2>4, Zenon
<1> SUFFICES ASSUME NEW low \in -1..n, NEW high \in 0..n, Brackets(a, key, low, high)
             PROVE  Finds(a, key, f[Span(low, high)], low, high)
    BY Zenon DEF f
<1>4. high - low \in Nat
    BY <1>1, SMTT(30) DEF Brackets
<1>5. ~Bad(high - low)
    BY <1>3, <1>4, Zenon
<1> QED
    BY <1>5, Zenon

\* __dnet_idc_search in an array that is not empty: the entry exists, no other one
\* up to the key is nearer, and it is itself up to the key if any is; otherwise it
\* is the last one.
LEMMA SearchFinds ==
    ASSUME NEW a \in Seq(Entry), Sorted(a), a # <<>>, NEW key \in Ids
    PROVE  LET i == Search(a, key) + 1 IN
           /\ i \in 1..Len(a)
           /\ \A j \in 1..Len(a) : a[j].id <= key => a[i].id <= key /\ a[j].id <= a[i].id
           /\ a[i].id > key => \A j \in 1..Len(a) : a[j].id <= a[i].id
<1> DEFINE n == Len(a)
           r == SearchLoop(a, key)[Span(-1, n)]
           i == Search(a, key) + 1
<1>1. n \in Nat \ {0} /\ key \in Nat /\ (\A j \in 1..n : a[j].id \in Nat)
    <2>1. n # 0
        BY SMTT(30)
    <2> QED
        BY <2>1, IdsAreNumbers, ArrayNumbers, Zenon
<1>2. Brackets(a, key, -1, n)
    BY <1>1, SMTT(30) DEF Brackets
<1>3. Finds(a, key, r, -1, n)
    BY <1>1, <1>2, LoopFinds, SMTT(30)
<1>4. i = IF r = -1 THEN n ELSE r + 1
    BY <1>1, <1>3, SMTT(30) DEF Search, Finds, Span
<1> HIDE DEF r, i
<1>5. i \in 1..n
    BY <1>1, <1>3, <1>4, SMTT(30) DEF Finds
<1>6. \A j, k \in 1..n : j <= k => a[j].id <= a[k].id
    BY <1>1, SMTT(30) DEF Sorted
<1>7. CASE r = -1
    <2>1. a[1].id > key
        BY <1>1, <1>3, <1>7, SMTT(30) DEF Finds
    <2>2. \A j \in 1..n : a[j].id > key
        BY <1>1, <1>6, <2>1, SMTT(30)
    <2>3. \A j \in 1..n : a[j].id <= a[i].id
        BY <1>1, <1>4, <1>6, <1>7, SMTT(30)
    <2> QED
        BY <1>1, <1>5, <2>2, <2>3, SMTT(30) DEF i
<1>8. CASE r # -1
    <2>1. r \in 0..(n - 1) /\ i = r + 1 /\ a[i].id <= key
        BY <1>1, <1>3, <1>4, <1>8, SMTT(30) DEF Finds
    <2>2. \A j \in 1..n : i < j => a[j].id > key
        <3> SUFFICES ASSUME NEW j \in 1..n, i < j PROVE a[j].id > key
            BY Zenon
        <3>1. r + 2 \in 1..n /\ r + 1 < n /\ r + 2 <= j
            BY <1>1, <2>1, SMTT(30)
        <3>2. a[r + 2].id > key
            BY <1>3, <3>1, Zenon DEF Finds
        <3>3. a[r + 2].id <= a[j].id
            BY <1>6, <3>1, Zenon
        <3> QED
            BY <1>1, <3>1, <3>2, <3>3, SMTT(30)
    <2>3. \A j \in 1..n : a[j].id <= key => a[j].id <= a[i].id
        <3> SUFFICES ASSUME NEW j \in 1..n, a[j].id <= key PROVE a[j].id <= a[i].id
            BY Zenon
        <3>1. ~(i < j)
            BY <1>1, <2>2, SMTT(30)
        <3> QED
            BY <1>1, <1>5, <1>6, <3>1, SMTT(30)
    <2>4. ~(a[i].id > key)
        BY <1>1, <1>5, <2>1, SMTT(30)
    <2> QED
        BY <1>5, <2>1, <2>3, <2>4, Zenon DEF i
<1> QED
    BY <1>7, <1>8, Zenon

-----------------------------------------------------------------------------
(* The invariant *)

\* The states of a group, and those who looked a state up.
Members(g) == {s \in States : idc[s] = g}
Holders(s) == {u \in Users : user[u] = s}

\* The arrays are sorted, their entries belong to states of the group, and every
\* state of the group has one.
ArraysInv ==
    \A g \in Groups :
        /\ Sorted(ids[g])
        /\ \A e \in Entries(g) : idc[e.st] = g
        /\ \A s \in Members(g) : \E e \in Entries(g) : e.st = s

\* A group is referenced by its states.
CountInv == \A g \in Groups : gref[g] = Cardinality(Members(g))

\* The references of a state: of its network thread, of the thread that creates it,
\* of the one that joins it, and of those who looked it up.
One(b) == IF b THEN 1 ELSE 0
Threads(s) == One(npc[s] \in {"up", "put"}) + One(cpc[s] = "put") + One(jpc[s] \in {"join", "create", "put"})
Refs(s) == Threads(s) + Cardinality(Holders(s))
RefsInv == \A s \in States : refcnt[s] = Refs(s)

\* What the threads of a state have done to it.  A state that was reset may come into
\* the table only as a zombie.
Place(s) ==
    /\ listed[s] = idc[s] /\ idc[s] \in {GroupOf[s], NoGroup}
    /\ cpc[s] \in {"new", "checked"} =>
          npc[s] = "none" /\ jpc[s] = "idle" /\ idc[s] = NoGroup /\ refcnt[s] = 0 /\ s \notin dying \cup freed
    /\ cpc[s] = "checked" => s \in Outgoing
    /\ s \in Outgoing => jpc[s] = "idle"
    /\ s \notin Outgoing /\ jpc[s] \in {"idle", "join", "create"} => idc[s] = NoGroup
    /\ jpc[s] # "idle" => npc[s] # "none"
    /\ npc[s] \in {"put", "gone"} => s \in need_exit
    /\ s \in dying \cup freed =>
          cpc[s] = "done" /\ npc[s] \in {"none", "gone"} /\ jpc[s] \in {"idle", "done"}
    /\ idc[s] # NoGroup => s \notin freed
    /\ zombies = {} /\ idc[s] # NoGroup => npc[s] = "up"
    /\ zombies = {} /\ s \in dying \cup freed => refcnt[s] = 0

IInv ==
    /\ TypeOK /\ ArraysInv /\ CountInv /\ RefsInv
    /\ \A s \in States : Place(s)

-----------------------------------------------------------------------------
(* Steps of the table *)

\* The entries of a sorted array.
LEMMA EntriesOfArray ==
    ASSUME NEW a \in Seq(Entry), Sorted(a), NEW S, S = {a[i] : i \in 1..Len(a)}
    PROVE  S \in SUBSET Entry /\ IsFiniteSet(S) /\ Distinct(S)
<1>1. Len(a) \in Nat /\ (\A i \in 1..Len(a) : a[i] \in Entry)
    BY SMTT(30)
<1>2. \A i \in 1..Len(a) : a[i].id \in Nat
    BY <1>1, IdsAreNumbers, Zenon DEF Entry
<1>3. IsFiniteSet(1..Len(a))
    BY <1>1, FS_Interval, SMTT(30)
<1>4. [i \in 1..Len(a) |-> a[i]] \in Surjection(1..Len(a), S)
    BY Zenon DEF Surjection
<1>5. IsFiniteSet(S)
    BY <1>3, <1>4, FS_Surjection, SMTT(30)
<1>6. Distinct(S)
    <2> SUFFICES ASSUME NEW i \in 1..Len(a), NEW j \in 1..Len(a), a[i].id = a[j].id
                 PROVE  a[i] = a[j]
        BY SMTT(30) DEF Distinct
    <2>1. ~(i < j) /\ ~(j < i)
        BY <1>2, SMTT(30) DEF Sorted
    <2>2. i = j
        BY <1>1, <2>1, SMTT(30)
    <2> QED
        BY <2>2, Zenon
<1> QED
    BY <1>1, <1>5, <1>6, Zenon

\* What is in an array of the table.
LEMMA EntriesTyped ==
    ASSUME TypeOK, ArraysInv, NEW g \in Groups
    PROVE  /\ ids[g] \in Seq(Entry) /\ Entries(g) = {ids[g][i] : i \in 1..Len(ids[g])}
           /\ Entries(g) \in SUBSET Entry /\ IsFiniteSet(Entries(g)) /\ Distinct(Entries(g))
<1>1. ids[g] \in Seq(Entry)
    BY Zenon DEF TypeOK
<1>2. Entries(g) = {ids[g][i] : i \in 1..Len(ids[g])}
    BY <1>1, SMTT(30) DEF Entries
<1>3. Sorted(ids[g])
    BY Zenon DEF ArraysInv
<1> QED
    BY <1>1, <1>2, <1>3, EntriesOfArray, Zenon

\* An array that was sorted anew.
LEMMA ArrayOfEntries ==
    ASSUME NEW g \in Groups, NEW S \in SUBSET Entry, IsFiniteSet(S), Distinct(S), ids'[g] = SortIds(S)
    PROVE  ids'[g] \in Seq(Entry) /\ Sorted(ids[g])' /\ Entries(g)' = S
<1>1. /\ SortIds(S) \in Seq(S) /\ Len(SortIds(S)) = Cardinality(S)
      /\ {SortIds(S)[i] : i \in 1..Cardinality(S)} = S
      /\ Sorted(SortIds(S))
    BY SortIdsSorts, Zenon
<1>2. SortIds(S) \in Seq(Entry)
    BY <1>1, SMTT(30)
<1>3. Sorted(ids[g])'
    BY <1>1, Zenon DEF Sorted
<1>4. Entries(g)' = S
    BY <1>1, SMTT(30) DEF Entries
<1> QED
    BY <1>2, <1>3, <1>4, Zenon

\* States of groups and counts.
LEMMA MembersFinite ==
    ASSUME NEW g
    PROVE  /\ IsFiniteSet(Members(g)) /\ Cardinality(Members(g)) \in Nat
           /\ IsFiniteSet(Members(g))' /\ Cardinality(Members(g))' \in Nat
<1>1. Members(g) \in SUBSET States /\ Members(g)' \in SUBSET States
    BY Zenon DEF Members
<1> QED
    BY <1>1, RouteAssumption, FS_Subset, FS_CardinalityType, Zenon

\* What the array of a group is made of when a state comes in.
LEMMA CreateEntries ==
    ASSUME TypeOK, ArraysInv, NEW s \in States, IdcCreates(s),
           NEW S, S = Entries(GroupOf[s]) \cup Added(s, Fresh(s))
    PROVE  /\ S \in SUBSET Entry /\ IsFiniteSet(S) /\ Distinct(S)
           /\ \A e \in Added(s, Fresh(s)) : e.st = s
           /\ \E e \in Added(s, Fresh(s)) : e.st = s
<1> DEFINE g == GroupOf[s]
<1>1. g \in Groups /\ IdsOf[s] \in SUBSET Ids
    BY RouteAssumption, Zenon
<1>2. Entries(g) \in SUBSET Entry /\ IsFiniteSet(Entries(g)) /\ Distinct(Entries(g))
    BY <1>1, EntriesTyped, Zenon
<1>3. Fresh(s) \in SUBSET Ids /\ Fresh(s) # {} /\ Fresh(s) \cap Known(g) = {}
    BY <1>1, Zenon DEF Fresh, IdcCreates
<1>4. IsFiniteSet(Fresh(s))
    <2>1. IsFiniteSet(Ids)
        BY RouteAssumption, FS_Interval, SMTT(30) DEF Ids
    <2> QED
        BY <1>3, <2>1, FS_Subset, Zenon
<1>5. /\ Added(s, Fresh(s)) \in SUBSET Entry
      /\ \A e \in Added(s, Fresh(s)) : e.st = s /\ e.id \in Fresh(s)
      /\ \A i \in Fresh(s) : [id |-> i, st |-> s] \in Added(s, Fresh(s))
    BY <1>3, Zenon DEF Added, Entry
<1>6. IsFiniteSet(Added(s, Fresh(s)))
    <2>1. [i \in Fresh(s) |-> [id |-> i, st |-> s]] \in Surjection(Fresh(s), Added(s, Fresh(s)))
        BY SMTT(30) DEF Surjection, Added
    <2> QED
        BY <1>4, <2>1, FS_Surjection, Zenon
<1>7. S \in SUBSET Entry /\ IsFiniteSet(S)
    BY <1>2, <1>5, <1>6, FS_Union, Zenon
<1>8. Distinct(S)
    <2>1. \A x \in Entries(g) : x.id \in Known(g)
        BY Zenon DEF Known
    <2>2. \A x, y \in Added(s, Fresh(s)) : x.id = y.id => x = y
        BY SMTT(30) DEF Added
    <2> QED
        BY <1>2, <1>3, <1>5, <2>1, <2>2, Zenon DEF Distinct
<1>9. \E e \in Added(s, Fresh(s)) : e.st = s
    BY <1>3, <1>5, Zenon
<1> QED
    BY <1>5, <1>7, <1>8, <1>9, Zenon

\* dnet_idc_create: the arrays.
LEMMA CreateArrays ==
    ASSUME TypeOK, ArraysInv, NEW s \in States, IdcCreates(s), IdcCreate(s)
    PROVE  /\ ids' \in [Groups -> Seq(Entry)]
           /\ \A g \in Groups : Sorted(ids[g])'
           /\ \A g \in Groups : Entries(g)' = IF g = GroupOf[s] THEN Entries(g) \cup Added(s, Fresh(s)) ELSE Entries(g)
<1>1. PICK g0 \in Groups : g0 = GroupOf[s]
    BY RouteAssumption, Zenon
<1>2. PICK S : S = Entries(g0) \cup Added(s, Fresh(s))
    BY Zenon
<1>3. S \in SUBSET Entry /\ IsFiniteSet(S) /\ Distinct(S)
    BY <1>1, <1>2, CreateEntries, Zenon
<1>4. ids' = [ids EXCEPT ![g0] = SortIds(S)]
    BY <1>1, <1>2, Zenon DEF IdcCreate
<1>5. ids'[g0] = SortIds(S) /\ \A g \in Groups : g # g0 => ids'[g] = ids[g]
    BY <1>4, Zenon DEF TypeOK
<1>6. ids'[g0] \in Seq(Entry) /\ Sorted(ids[g0])' /\ Entries(g0)' = S
    BY <1>3, <1>5, ArrayOfEntries, Zenon
<1>7. ASSUME NEW g \in Groups, g # g0
      PROVE  ids'[g] \in Seq(Entry) /\ Sorted(ids[g])' /\ Entries(g)' = Entries(g)
    BY <1>5, <1>7, SMTT(30) DEF TypeOK, ArraysInv, Sorted, Entries
<1>8. ids' \in [Groups -> Seq(Entry)]
    BY <1>4, <1>5, <1>6, Zenon DEF TypeOK
<1> QED
    BY <1>1, <1>2, <1>6, <1>7, <1>8, Zenon

\* dnet_idc_create: the groups.
LEMMA CreateMembers ==
    ASSUME TypeOK, CountInv, NEW s \in States, idc[s] = NoGroup, IdcCreate(s)
    PROVE  /\ gref' \in [Groups -> Nat] /\ CountInv'
           /\ listed' \in [States -> Groups \cup {NoGroup}] /\ idc' \in [States -> Groups \cup {NoGroup}]
           /\ idc' = [idc EXCEPT ![s] = GroupOf[s]] /\ listed' = [listed EXCEPT ![s] = GroupOf[s]]
           /\ \A g \in Groups : Members(g)' = IF g = GroupOf[s] THEN Members(g) \cup {s} ELSE Members(g)
<1>1. PICK g0 \in Groups : g0 = GroupOf[s]
    BY RouteAssumption, Zenon
<1>2. /\ idc' = [idc EXCEPT ![s] = g0] /\ listed' = [listed EXCEPT ![s] = g0]
      /\ gref' = [gref EXCEPT ![g0] = @ + 1]
    BY <1>1, Zenon DEF IdcCreate
<1>3. Members(g0)' = Members(g0) \cup {s} /\ s \notin Members(g0)
    BY <1>2, RouteAssumption, SMTT(30) DEF TypeOK, Members
<1>4. \A g \in Groups : g # g0 => Members(g)' = Members(g)
    BY <1>2, RouteAssumption, ZenonT(30) DEF TypeOK, Members
<1>5. /\ gref' \in [Groups -> Nat]
      /\ listed' \in [States -> Groups \cup {NoGroup}] /\ idc' \in [States -> Groups \cup {NoGroup}]
    <2>1. gref' \in [Groups -> Nat]
        BY <1>2, SMTT(30) DEF TypeOK
    <2>2. listed' \in [States -> Groups \cup {NoGroup}]
        BY <1>2, Zenon DEF TypeOK
    <2>3. idc' \in [States -> Groups \cup {NoGroup}]
        BY <1>2, Zenon DEF TypeOK
    <2> QED
        BY <2>1, <2>2, <2>3, Zenon
<1>6. Cardinality(Members(g0)') = Cardinality(Members(g0)) + 1
    BY <1>3, MembersFinite, FS_AddElement, Zenon
<1>7. gref'[g0] = Cardinality(Members(g0)')
    BY <1>2, <1>6, Zenon DEF CountInv, TypeOK
<1>8. \A g \in Groups : g # g0 => gref'[g] = Cardinality(Members(g)')
    BY <1>2, <1>4, Zenon DEF CountInv, TypeOK
<1>9. CountInv'
    BY <1>7, <1>8, Zenon DEF CountInv
<1> QED
    BY <1>1, <1>2, <1>3, <1>4, <1>5, <1>9, Zenon

\* dnet_idc_create: the table gets the entries of a state that was not in it.
LEMMA CreateTable ==
    ASSUME TypeOK, ArraysInv, CountInv, NEW s \in States, idc[s] = NoGroup, IdcCreates(s), IdcCreate(s)
    PROVE  ArraysInv'
<1>1. PICK g0 \in Groups : g0 = GroupOf[s]
    BY RouteAssumption, Zenon
<1>2. idc'[s] = g0 /\ \A r \in States : r # s => idc'[r] = idc[r]
    <2>1. idc' = [idc EXCEPT ![s] = g0]
        BY <1>1, Zenon DEF IdcCreate
    <2> QED
        BY <2>1, Zenon DEF TypeOK
<1>3. \A e \in Added(s, Fresh(s)) : e.st = s
    BY CreateEntries, Zenon
<1>4. \E e \in Added(s, Fresh(s)) : e.st = s
    BY CreateEntries, Zenon
<1> SUFFICES ASSUME NEW g \in Groups
             PROVE  /\ Sorted(ids[g])'
                    /\ \A e \in Entries(g)' : idc'[e.st] = g
                    /\ \A r \in Members(g)' : \E e \in Entries(g)' : e.st = r
    BY Zenon DEF ArraysInv
<1>5. Sorted(ids[g])'
    BY CreateArrays, Zenon
<1>6. /\ \A e \in Entries(g) : e.st \in States /\ idc[e.st] = g
      /\ \A r \in Members(g) : \E e \in Entries(g) : e.st = r
    BY EntriesTyped, SMTT(30) DEF ArraysInv, Entry
<1>7. \A e \in Entries(g) : idc'[e.st] = g
    BY <1>2, <1>6, RouteAssumption, Zenon
<1>8. CASE g # g0
    <2>1. Entries(g)' = Entries(g) /\ Members(g)' = Members(g)
        BY <1>1, <1>8, CreateArrays, CreateMembers, Zenon
    <2> QED
        BY <1>5, <1>6, <1>7, <2>1, Zenon
<1>9. CASE g = g0
    <2>1. Entries(g)' = Entries(g) \cup Added(s, Fresh(s))
        BY <1>1, <1>9, CreateArrays, Zenon
    <2>2. Members(g)' = Members(g) \cup {s}
        BY <1>1, <1>9, CreateMembers, Zenon
    <2>3. \A e \in Entries(g)' : idc'[e.st] = g
        BY <1>2, <1>3, <1>7, <1>9, <2>1, Zenon
    <2>4. \A r \in Members(g)' : \E e \in Entries(g)' : e.st = r
        BY <1>4, <1>6, <2>1, <2>2, Zenon
    <2> QED
        BY <1>5, <2>3, <2>4, Zenon
<1> QED
    BY <1>8, <1>9, Zenon

\* dnet_state_remove_nolock: the arrays.
LEMMA RemoveArray ==
    ASSUME TypeOK, ArraysInv, CountInv, NEW s \in States, NEW g \in Groups, g = idc[s],
           ids'[g] = IF gref[g] = 1 THEN <<>> ELSE IdsWithout(s, g)
    PROVE  ids'[g] \in Seq(Entry) /\ Sorted(ids[g])' /\ Entries(g)' = {e \in Entries(g) : e.st # s}
<1>1. PICK S : S = {e \in Entries(g) : e.st # s}
    BY Zenon
<1>2. Entries(g) \in SUBSET Entry /\ IsFiniteSet(Entries(g)) /\ Distinct(Entries(g))
    BY EntriesTyped, Zenon
<1>3. S \in SUBSET Entries(g)
    BY <1>1, Zenon
<1>4. S \in SUBSET Entry /\ IsFiniteSet(S) /\ Distinct(S)
    BY <1>2, <1>3, FS_Subset, Zenon DEF Distinct
<1>5. CASE gref[g] # 1
    <2>1. ids'[g] = SortIds(S)
        BY <1>1, <1>5, Zenon DEF IdsWithout
    <2> QED
        BY <1>1, <1>4, <2>1, ArrayOfEntries, Zenon
<1>6. CASE gref[g] = 1
    <2>1. ids'[g] = <<>>
        BY <1>6, Zenon
    <2>2. Cardinality(Members(g)) = 1 /\ s \in Members(g)
        BY <1>6, Zenon DEF CountInv, Members
    <2>3. Members(g) = {s}
        BY <2>2, MembersFinite, FS_Singleton, SMTT(30)
    <2>4. \A e \in Entries(g) : e.st = s
        BY <1>2, <2>3, SMTT(30) DEF ArraysInv, Entry, Members
    <2>5. S = {} /\ Entries(g)' = {}
        BY <1>1, <2>1, <2>4, SMTT(30) DEF Entries
    <2>6. <<>> \in Seq(Entry) /\ Sorted(<<>>)
        BY SMTT(30) DEF Sorted
    <2>7. Sorted(ids[g])'
        BY <2>1, <2>6, Zenon DEF Sorted
    <2> QED
        BY <1>1, <2>1, <2>5, <2>6, <2>7, Zenon
<1> QED
    BY <1>5, <1>6, Zenon

\* dnet_state_remove_nolock: all arrays.
LEMMA RemoveArrays ==
    ASSUME TypeOK, ArraysInv, CountInv, NEW s \in States, RemoveState(s)
    PROVE  /\ ids' \in [Groups -> Seq(Entry)]
           /\ \A g \in Groups : Sorted(ids[g])'
           /\ \A g \in Groups : Entries(g)' = IF g = idc[s] THEN {e \in Entries(g) : e.st # s} ELSE Entries(g)
<1>1. ids' = [g \in Groups |-> IF g # idc[s] THEN ids[g]
                               ELSE IF gref[g] = 1 THEN <<>> ELSE IdsWithout(s, g)]
    BY Zenon DEF RemoveState
<1>2. ASSUME NEW g \in Groups, g = idc[s]
      PROVE  ids'[g] \in Seq(Entry) /\ Sorted(ids[g])' /\ Entries(g)' = {e \in Entries(g) : e.st # s}
    <2>1. ids'[g] = IF gref[g] = 1 THEN <<>> ELSE IdsWithout(s, g)
        BY <1>1, <1>2, Zenon
    <2> QED
        BY <1>2, <2>1, RemoveArray, Zenon
<1>3. ASSUME NEW g \in Groups, g # idc[s]
      PROVE  ids'[g] \in Seq(Entry) /\ Sorted(ids[g])' /\ Entries(g)' = Entries(g)
    <2>1. ids'[g] = ids[g]
        BY <1>1, <1>3, Zenon
    <2>2. ids'[g] \in Seq(Entry)
        BY <2>1, Zenon DEF TypeOK
    <2>3. Sorted(ids[g])'
        BY <2>1, Zenon DEF ArraysInv, Sorted
    <2>4. Entries(g)' = Entries(g)
        BY <2>1, Zenon DEF Entries
    <2> QED
        BY <2>2, <2>3, <2>4, Zenon
<1>4. ids' = [g \in Groups |-> ids'[g]]
    BY <1>1, Zenon
<1>5. ids' \in [Groups -> Seq(Entry)]
    BY <1>2, <1>3, <1>4, Zenon
<1> QED
    BY <1>2, <1>3, <1>5, Zenon

\* dnet_state_remove_nolock: the groups.
LEMMA RemoveMembers ==
    ASSUME TypeOK, CountInv, NEW s \in States, RemoveState(s)
    PROVE  /\ gref' \in [Groups -> Nat] /\ CountInv'
           /\ listed' \in [States -> Groups \cup {NoGroup}] /\ idc' \in [States -> Groups \cup {NoGroup}]
           /\ idc' = [idc EXCEPT ![s] = NoGroup] /\ listed' = [listed EXCEPT ![s] = NoGroup]
           /\ \A g \in Groups : Members(g)' = IF g = idc[s] THEN Members(g) \ {s} ELSE Members(g)
<1>1. /\ idc' = [idc EXCEPT ![s] = NoGroup] /\ listed' = [listed EXCEPT ![s] = NoGroup]
      /\ gref' = [g \in Groups |-> IF g = idc[s] THEN gref[g] - 1 ELSE gref[g]]
    BY Zenon DEF RemoveState
<1>2. listed' \in [States -> Groups \cup {NoGroup}] /\ idc' \in [States -> Groups \cup {NoGroup}]
    BY <1>1, Zenon DEF TypeOK
<1>3. ASSUME NEW g \in Groups, g # idc[s] PROVE Members(g)' = Members(g)
    BY <1>1, <1>3, RouteAssumption, Zenon DEF TypeOK, Members
<1>4. ASSUME NEW g \in Groups, g = idc[s] PROVE Members(g)' = Members(g) \ {s} /\ s \in Members(g)
    BY <1>1, <1>4, RouteAssumption, Zenon DEF TypeOK, Members
<1>5. ASSUME NEW g \in Groups
      PROVE  gref'[g] = Cardinality(Members(g)') /\ gref'[g] \in Nat
    <2>1. Cardinality(Members(g)) \in Nat /\ Cardinality(Members(g)') \in Nat /\ gref[g] = Cardinality(Members(g))
        BY MembersFinite, Zenon DEF CountInv
    <2>2. CASE g # idc[s]
        BY <1>1, <1>3, <2>1, <2>2, Zenon
    <2>3. CASE g = idc[s]
        <3>1. Cardinality(Members(g)') = Cardinality(Members(g)) - 1
            BY <1>4, <2>3, MembersFinite, FS_RemoveElement, SMTT(30)
        <3>2. gref'[g] = gref[g] - 1
            BY <1>1, <2>3, Zenon
        <3> QED
            BY <2>1, <3>1, <3>2, Zenon
    <2> QED
        BY <2>2, <2>3, Zenon
<1>6. gref' = [g \in Groups |-> gref'[g]]
    BY <1>1, Zenon
<1>7. gref' \in [Groups -> Nat]
    BY <1>5, <1>6, Zenon
<1>8. CountInv'
    BY <1>5, Zenon DEF CountInv
<1> QED
    BY <1>1, <1>2, <1>3, <1>4, <1>7, <1>8, Zenon

\* dnet_state_remove_nolock: the table loses the entries of a state.
LEMMA RemoveTable ==
    ASSUME TypeOK, ArraysInv, CountInv, NEW s \in States, RemoveState(s)
    PROVE  ArraysInv'
<1>1. \A r \in States : r # s => idc'[r] = idc[r]
    BY RemoveMembers, SMTT(30) DEF TypeOK
<1> SUFFICES ASSUME NEW g \in Groups
             PROVE  /\ Sorted(ids[g])'
                    /\ \A e \in Entries(g)' : idc'[e.st] = g
                    /\ \A r \in Members(g)' : \E e \in Entries(g)' : e.st = r
    BY Zenon DEF ArraysInv
<1>2. Sorted(ids[g])'
    BY RemoveArrays, Zenon
<1>3. /\ \A e \in Entries(g) : e.st \in States /\ idc[e.st] = g
      /\ \A r \in Members(g) : \E e \in Entries(g) : e.st = r
    BY EntriesTyped, SMTT(30) DEF ArraysInv, Entry
<1>4. CASE g # idc[s]
    <2>1. Entries(g)' = Entries(g) /\ Members(g)' = Members(g)
        BY <1>4, RemoveArrays, RemoveMembers, Zenon
    <2> QED
        BY <1>1, <1>2, <1>3, <1>4, <2>1, Zenon
<1>5. CASE g = idc[s]
    <2>1. Entries(g)' = {e \in Entries(g) : e.st # s}
        BY <1>5, RemoveArrays, Zenon
    <2>2. Members(g)' = Members(g) \ {s}
        BY <1>5, RemoveMembers, Zenon
    <2>3. \A e \in Entries(g)' : idc'[e.st] = g
        BY <1>1, <1>3, <2>1, Zenon
    <2>4. \A r \in Members(g)' : \E e \in Entries(g)' : e.st = r
        BY <1>3, <2>1, <2>2, Zenon
    <2> QED
        BY <1>2, <2>3, <2>4, Zenon
<1> QED
    BY <1>4, <1>5, Zenon

-----------------------------------------------------------------------------
(* Steps of states *)

\* What is counted of a state is a number.
LEMMA HoldersFinite ==
    ASSUME NEW s
    PROVE  /\ IsFiniteSet(Holders(s)) /\ Cardinality(Holders(s)) \in Nat
           /\ Cardinality(Holders(s)) = 0 <=> Holders(s) = {}
           /\ Threads(s) \in Nat
           /\ Cardinality(Holders(s))' \in Nat /\ Threads(s)' \in Nat
<1>1. Holders(s) \in SUBSET Users
    BY Zenon DEF Holders
<1>2. IsFiniteSet(Holders(s)) /\ Cardinality(Holders(s)) \in Nat
    BY <1>1, RouteAssumption, FS_Subset, FS_CardinalityType, Zenon
<1>3. Cardinality(Holders(s)) = 0 <=> Holders(s) = {}
    BY <1>2, FS_EmptySet, Zenon
<1>4. Threads(s) \in Nat /\ Threads(s)' \in Nat
    BY SMTT(30) DEF Threads, One
<1>5. Holders(s)' \in SUBSET Users
    BY Zenon DEF Holders
<1>6. Cardinality(Holders(s)') \in Nat
    BY <1>5, RouteAssumption, FS_Subset, FS_CardinalityType, Zenon
<1> QED
    BY <1>2, <1>3, <1>4, <1>6, Zenon

\* A step that does not touch a state, except that zombies may appear.
LEMMA PlaceKept ==
    ASSUME NEW s \in States, Place(s),
           idc'[s] = idc[s], listed'[s] = listed[s], refcnt'[s] = refcnt[s],
           cpc'[s] = cpc[s], jpc'[s] = jpc[s], npc'[s] = npc[s],
           s \in dying' <=> s \in dying, s \in freed' <=> s \in freed,
           s \in need_exit' <=> s \in need_exit, zombies \subseteq zombies'
    PROVE  Place(s)'
BY Zenon DEF Place

\* dnet_state_put: a reference that somebody has.
LEMMA PutRefs ==
    ASSUME TypeOK, RefsInv, NEW s \in States, Put(s), Threads(s)' \in Nat, Cardinality(Holders(s))' \in Nat,
           Refs(s)' = Refs(s) - 1, \A r \in States : r # s => Refs(r)' = Refs(r)
    PROVE  /\ refcnt' \in [States -> Nat] /\ dying' \subseteq States /\ RefsInv'
           /\ \A r \in States : r # s => refcnt'[r] = refcnt[r] /\ (r \in dying' <=> r \in dying)
           /\ s \in dying' => s \in dying \/ (refcnt'[s] = 0 /\ Threads(s)' = 0)
<1>1. refcnt[s] = Refs(s)
    BY Zenon DEF RefsInv
<1>2. Refs(s)' \in Nat /\ (Refs(s)' = 0 => Threads(s)' = 0)
    BY SMTT(30) DEF Refs
<1>3. refcnt[s] - 1 = Refs(s)'
    BY <1>1, Zenon
<1>4. refcnt' = [refcnt EXCEPT ![s] = @ - 1]
    BY Zenon DEF Put
<1>5. refcnt'[s] = Refs(s)' /\ \A r \in States : r # s => refcnt'[r] = refcnt[r]
    BY <1>3, <1>4, Zenon DEF TypeOK
<1>6. refcnt' \in [States -> Nat]
    BY <1>2, <1>3, <1>4, Zenon DEF TypeOK
<1>7. RefsInv'
    BY <1>5, Zenon DEF RefsInv
<1>8. dying' = IF refcnt[s] = 1 THEN dying \cup {s} ELSE dying
    BY Zenon DEF Put
<1>9. refcnt[s] = 1 => refcnt'[s] = 0 /\ Threads(s)' = 0
    BY <1>2, <1>3, <1>5, SMTT(30)
<1> QED
    BY <1>5, <1>6, <1>7, <1>8, <1>9, Zenon DEF TypeOK

\* dnet_state_get.
LEMMA GetRefs ==
    ASSUME TypeOK, RefsInv, NEW s \in States, refcnt' = [refcnt EXCEPT ![s] = @ + 1],
           Refs(s)' = Refs(s) + 1, \A r \in States : r # s => Refs(r)' = Refs(r)
    PROVE  /\ refcnt' \in [States -> Nat] /\ RefsInv'
           /\ \A r \in States : r # s => refcnt'[r] = refcnt[r]
<1>1. refcnt[s] = Refs(s) /\ refcnt[s] \in Nat
    BY Zenon DEF RefsInv, TypeOK
<1>2. refcnt'[s] = Refs(s)' /\ \A r \in States : r # s => refcnt'[r] = refcnt[r]
    BY <1>1, Zenon DEF TypeOK
<1>3. refcnt' \in [States -> Nat]
    BY SMTT(30) DEF TypeOK
<1>4. RefsInv'
    BY <1>2, Zenon DEF RefsInv
<1> QED
    BY <1>2, <1>3, <1>4, Zenon

\* Threads of other states stay where they are.
LEMMA RefsKept ==
    ASSUME IInv, UNCHANGED <<refcnt, user>>, \A s \in States : Threads(s)' = Threads(s)
    PROVE  RefsInv'
BY Zenon DEF IInv, RefsInv, Refs, Holders

\* The table is as it was.
LEMMA TableKept ==
    ASSUME IInv, UNCHANGED tableVars
    PROVE  ArraysInv' /\ CountInv'
BY SMTT(30) DEF IInv, tableVars, ArraysInv, CountInv, Sorted, Entries, Members

\* Steps of the creating and of the joining thread that change neither table nor
\* references.
LEMMA QuietStep ==
    ASSUME IInv, NEW s \in States,
           CreateSearch(s) \/ CreateFails(s) \/ JoinUnlink(s) \/ JoinRefused(s) \/ JoinExists(s)
    PROVE  IInv'
<1>1. TypeOK /\ \A r \in States : Place(r)
    BY Zenon DEF IInv
<1>2. UNCHANGED tableVars
    <2>1. CASE JoinUnlink(s)
        <3>1. listed[s] = NoGroup
            BY <1>1, <2>1, Zenon DEF JoinUnlink, Place
        <3>2. listed' = listed
            BY <1>1, <2>1, <3>1, Zenon DEF JoinUnlink, TypeOK
        <3> QED
            BY <2>1, <3>2, Zenon DEF JoinUnlink, tableVars
    <2> QED
        BY <2>1, Zenon DEF CreateSearch, CreateFails, JoinRefused, JoinExists
<1>3. TypeOK'
    BY <1>1, <1>2, Zenon DEF TypeOK, tableVars, CreateSearch, CreateFails, JoinUnlink, JoinRefused, JoinExists
<1>4. UNCHANGED <<refcnt, user, npc, need_exit, dying, zombies>>
    BY Zenon DEF CreateSearch, CreateFails, JoinUnlink, JoinRefused, JoinExists
<1>5. \A r \in States : r # s => cpc'[r] = cpc[r] /\ jpc'[r] = jpc[r] /\ (r \in freed' <=> r \in freed)
    BY <1>1, Zenon DEF TypeOK, CreateSearch, CreateFails, JoinUnlink, JoinRefused, JoinExists
<1>6. Threads(s)' = Threads(s)
    BY <1>1, <1>4, Zenon DEF TypeOK, CreateSearch, CreateFails, JoinUnlink, JoinRefused, JoinExists, Threads, One
<1>7. RefsInv'
    BY <1>4, <1>5, <1>6, RefsKept, Zenon DEF Threads
<1>8. Place(s)'
    <2>1. CASE CreateSearch(s)
        BY <1>1, <1>2, <1>4, <2>1, Zenon DEF TypeOK, tableVars, CreateSearch, Place
    <2>2. CASE CreateFails(s)
        BY <1>1, <1>2, <1>4, <2>2, Zenon DEF TypeOK, tableVars, CreateFails, Place
    <2>3. CASE JoinUnlink(s) \/ JoinRefused(s) \/ JoinExists(s)
        BY <1>1, <1>2, <1>4, <2>3, Zenon DEF TypeOK, tableVars, JoinUnlink, JoinRefused, JoinExists, Place
    <2> QED
        BY <2>1, <2>2, <2>3, Zenon
<1>9. \A r \in States : r # s => Place(r)'
    BY <1>1, <1>2, <1>4, <1>5, PlaceKept, Zenon DEF tableVars
<1> QED
    BY <1>2, <1>3, <1>7, <1>8, <1>9, TableKept, Zenon DEF IInv

\* A state comes into being, in the table or without ids.
LEMMA CreateStep ==
    ASSUME IInv, NEW s \in States, CreateInTable(s) \/ Accept(s)
    PROVE  IInv'
<1>1. TypeOK /\ RefsInv /\ \A r \in States : Place(r)
    BY Zenon DEF IInv
<1>2. /\ cpc[s] \in {"new", "checked"} /\ npc[s] = "none" /\ jpc[s] = "idle" /\ idc[s] = NoGroup
      /\ listed[s] = NoGroup /\ refcnt[s] = 0 /\ s \notin dying \cup freed
    BY <1>1, Zenon DEF CreateInTable, Accept, Place
<1>3. /\ refcnt' = [refcnt EXCEPT ![s] = 2] /\ npc' = [npc EXCEPT ![s] = "up"] /\ cpc' = [cpc EXCEPT ![s] = "put"]
      /\ UNCHANGED <<need_exit, jpc, dying, freed, user, zombies>>
    BY Zenon DEF CreateInTable, Accept
<1>4. /\ ids' \in [Groups -> Seq(Entry)] /\ gref' \in [Groups -> Nat]
      /\ listed' \in [States -> Groups \cup {NoGroup}] /\ idc' \in [States -> Groups \cup {NoGroup}]
      /\ \A r \in States : r # s => idc'[r] = idc[r] /\ listed'[r] = listed[r]
      /\ listed'[s] = idc'[s] /\ idc'[s] \in {GroupOf[s], NoGroup}
      /\ s \notin Outgoing => idc'[s] = NoGroup
      /\ ArraysInv' /\ CountInv'
    <2>1. CASE Accept(s)
        <3>1. UNCHANGED tableVars
            BY <2>1, Zenon DEF Accept
        <3> QED
            BY <1>1, <1>2, <2>1, <3>1, TableKept, Zenon DEF TypeOK, tableVars
    <2>2. CASE CreateInTable(s)
        <3>1. IdcCreates(s) /\ IdcCreate(s) /\ ArraysInv /\ CountInv
            BY <2>2, Zenon DEF CreateInTable, IInv
        <3>2. s \in Outgoing
            BY <1>1, <2>2, Zenon DEF CreateInTable, Place
        <3>3. /\ ids' \in [Groups -> Seq(Entry)] /\ gref' \in [Groups -> Nat]
              /\ listed' \in [States -> Groups \cup {NoGroup}] /\ idc' \in [States -> Groups \cup {NoGroup}]
              /\ idc' = [idc EXCEPT ![s] = GroupOf[s]] /\ listed' = [listed EXCEPT ![s] = GroupOf[s]]
              /\ ArraysInv' /\ CountInv'
            BY <1>1, <1>2, <3>1, CreateArrays, CreateMembers, CreateTable, Zenon
        <3>4. /\ \A r \in States : r # s => idc'[r] = idc[r] /\ listed'[r] = listed[r]
              /\ listed'[s] = idc'[s] /\ idc'[s] \in {GroupOf[s], NoGroup}
            BY <1>1, <3>3, Zenon DEF TypeOK
        <3> QED
            BY <3>2, <3>3, <3>4, Zenon
    <2> QED
        BY <2>1, <2>2, Zenon
<1>5. TypeOK'
    BY <1>1, <1>3, <1>4, Zenon DEF TypeOK
<1>6. RefsInv'
    <2>1. \A r \in States : Holders(r)' = Holders(r)
        BY <1>3, Zenon DEF Holders
    <2>2. Threads(s) = 0
        BY <1>2, SMTT(30) DEF Threads, One
    <2>3. Cardinality(Holders(s)) = 0
        BY <1>1, <1>2, <2>2, HoldersFinite, SMTT(30) DEF RefsInv, Refs
    <2>4. Threads(s)' = 2 /\ refcnt'[s] = 2
        BY <1>1, <1>2, <1>3, SMTT(30) DEF TypeOK, Threads, One
    <2>5. refcnt'[s] = Refs(s)'
        BY <2>1, <2>3, <2>4, SMTT(30) DEF Refs
    <2>6. \A r \in States : r # s => refcnt'[r] = Refs(r)'
        <3>1. \A r \in States : r # s => Threads(r)' = Threads(r) /\ refcnt'[r] = refcnt[r]
            BY <1>1, <1>3, Zenon DEF TypeOK, Threads
        <3> QED
            BY <1>1, <2>1, <3>1, Zenon DEF RefsInv, Refs
    <2> QED
        BY <2>5, <2>6, Zenon DEF RefsInv
<1>7. Place(s)'
    BY <1>1, <1>2, <1>3, <1>4, Zenon DEF TypeOK, Place
<1>8. \A r \in States : r # s => Place(r)'
    BY <1>1, <1>3, <1>4, PlaceKept, Zenon DEF TypeOK
<1> QED
    BY <1>4, <1>5, <1>6, <1>7, <1>8, Zenon DEF IInv

\* A state that loses a reference of a thread, and perhaps its last one.
LEMMA PutPlace ==
    ASSUME TypeOK, TypeOK', NEW s \in States, Place(s), CreatePut(s) \/ JoinPut(s) \/ NetworkPut(s),
           s \in dying' => s \in dying \/ (refcnt'[s] = 0 /\ Threads(s)' = 0)
    PROVE  Place(s)'
<1>1. UNCHANGED <<tableVars, need_exit, freed, zombies>>
    BY Zenon DEF CreatePut, JoinPut, NetworkPut
<1>2. s \notin dying \cup freed /\ cpc[s] \in {"put", "done"}
    BY Zenon DEF TypeOK, CreatePut, JoinPut, NetworkPut, Place
<1>3. s \in dying' => refcnt'[s] = 0 /\ cpc'[s] # "put" /\ npc'[s] \notin {"up", "put"} /\ jpc'[s] \notin {"join", "create", "put"}
    BY <1>2, SMTT(30) DEF Threads, One
<1>4. cpc'[s] \in {"put", "done"}
    BY <1>2, Zenon DEF TypeOK, CreatePut, JoinPut, NetworkPut
<1>5. s \in dying' =>
         refcnt'[s] = 0 /\ cpc'[s] = "done" /\ npc'[s] \in {"none", "gone"} /\ jpc'[s] \in {"idle", "done"}
    BY <1>3, <1>4, Zenon DEF TypeOK
<1>6. CASE CreatePut(s)
    BY <1>1, <1>2, <1>5, <1>6, Zenon DEF TypeOK, tableVars, CreatePut, Place
<1>7. CASE JoinPut(s)
    BY <1>1, <1>2, <1>5, <1>7, ZenonT(30) DEF TypeOK, tableVars, JoinPut, Place
<1>8. CASE NetworkPut(s)
    BY <1>1, <1>2, <1>5, <1>8, Zenon DEF TypeOK, tableVars, NetworkPut, Place
<1> QED
    BY <1>6, <1>7, <1>8, Zenon

\* A thread that is done with a state puts its reference.
LEMMA PutStep ==
    ASSUME IInv, NEW s \in States, CreatePut(s) \/ JoinPut(s) \/ NetworkPut(s)
    PROVE  IInv'
<1>1. TypeOK /\ RefsInv /\ \A r \in States : Place(r)
    BY Zenon DEF IInv
<1>2. Put(s) /\ UNCHANGED <<tableVars, need_exit, freed, user, zombies>>
    BY Zenon DEF CreatePut, JoinPut, NetworkPut
<1>3. \A r \in States : r # s => cpc'[r] = cpc[r] /\ jpc'[r] = jpc[r] /\ npc'[r] = npc[r]
    BY <1>1, Zenon DEF TypeOK, CreatePut, JoinPut, NetworkPut
<1>4. Threads(s)' = Threads(s) - 1
    <2>1. CASE CreatePut(s)
        BY <1>1, <2>1, SMTT(30) DEF TypeOK, CreatePut, Threads, One
    <2>2. CASE JoinPut(s)
        BY <1>1, <2>2, SMTT(30) DEF TypeOK, JoinPut, Threads, One
    <2>3. CASE NetworkPut(s)
        BY <1>1, <2>3, SMTT(30) DEF TypeOK, NetworkPut, Threads, One
    <2> QED
        BY <2>1, <2>2, <2>3, Zenon
<1>5. \A r \in States : Holders(r)' = Holders(r)
    BY <1>2, Zenon DEF Holders
<1>6. Refs(s)' = Refs(s) - 1 /\ \A r \in States : r # s => Refs(r)' = Refs(r)
    <2>1. \A r \in States : r # s => Threads(r)' = Threads(r)
        BY <1>3, Zenon DEF Threads
    <2>2. Threads(s) \in Nat /\ Cardinality(Holders(s)) \in Nat
        BY HoldersFinite, Zenon
    <2> QED
        BY <1>4, <1>5, <2>1, <2>2, SMTT(30) DEF Refs
<1>7. /\ refcnt' \in [States -> Nat] /\ dying' \subseteq States /\ RefsInv'
      /\ \A r \in States : r # s => refcnt'[r] = refcnt[r] /\ (r \in dying' <=> r \in dying)
      /\ s \in dying' => s \in dying \/ (refcnt'[s] = 0 /\ Threads(s)' = 0)
    BY <1>1, <1>2, <1>6, HoldersFinite, PutRefs, Zenon
<1>8. TypeOK'
    BY <1>1, <1>2, <1>7, Zenon DEF TypeOK, tableVars, CreatePut, JoinPut, NetworkPut
<1>9. Place(s)'
    BY <1>1, <1>7, <1>8, PutPlace, Zenon
<1>10. \A r \in States : r # s => Place(r)'
    BY <1>1, <1>2, <1>3, <1>7, PlaceKept, Zenon DEF tableVars
<1> QED
    BY <1>2, <1>7, <1>8, <1>9, <1>10, TableKept, Zenon DEF IInv

\* A join request arrives.
LEMMA JoinReceivedStep ==
    ASSUME IInv, NEW s \in States, JoinReceived(s)
    PROVE  IInv'
<1>1. TypeOK /\ RefsInv /\ \A r \in States : Place(r)
    BY Zenon DEF IInv
<1>2. /\ s \notin Outgoing /\ npc[s] = "up" /\ jpc[s] = "idle"
      /\ refcnt' = [refcnt EXCEPT ![s] = @ + 1] /\ jpc' = [jpc EXCEPT ![s] = "join"]
      /\ UNCHANGED <<tableVars, need_exit, cpc, npc, dying, freed, user, zombies>>
    BY Zenon DEF JoinReceived
<1>3. Refs(s)' = Refs(s) + 1 /\ \A r \in States : r # s => Refs(r)' = Refs(r)
    <2>1. Threads(s)' = Threads(s) + 1 /\ \A r \in States : r # s => Threads(r)' = Threads(r)
        BY <1>1, <1>2, SMTT(30) DEF TypeOK, Threads, One
    <2>2. \A r \in States : Holders(r)' = Holders(r)
        BY <1>2, Zenon DEF Holders
    <2>3. Threads(s) \in Nat /\ Cardinality(Holders(s)) \in Nat
        BY HoldersFinite, Zenon
    <2> QED
        BY <2>1, <2>2, <2>3, SMTT(30) DEF Refs
<1>4. /\ refcnt' \in [States -> Nat] /\ RefsInv'
      /\ \A r \in States : r # s => refcnt'[r] = refcnt[r]
    BY <1>1, <1>2, <1>3, GetRefs, Zenon
<1>5. TypeOK'
    BY <1>1, <1>2, <1>4, Zenon DEF TypeOK, tableVars
<1>6. Place(s)'
    BY <1>1, <1>2, Zenon DEF TypeOK, tableVars, Place
<1>7. \A r \in States : r # s => Place(r)'
    BY <1>1, <1>2, <1>4, PlaceKept, Zenon DEF TypeOK, tableVars
<1> QED
    BY <1>2, <1>4, <1>5, <1>6, <1>7, TableKept, Zenon DEF IInv

\* The state of a join request gets into the table.
LEMMA JoinInTableStep ==
    ASSUME IInv, NEW s \in States, JoinInTable(s)
    PROVE  IInv'
<1>1. TypeOK /\ ArraysInv /\ CountInv /\ \A r \in States : Place(r)
    BY Zenon DEF IInv
<1>2. /\ jpc[s] = "create" /\ IdcCreates(s) /\ IdcCreate(s)
      /\ zombies' = IF s \in need_exit THEN zombies \cup {s} ELSE zombies
      /\ jpc' = [jpc EXCEPT ![s] = "put"]
      /\ UNCHANGED <<refcnt, need_exit, cpc, npc, dying, freed, user>>
    BY Zenon DEF JoinInTable
<1>3. s \notin Outgoing /\ idc[s] = NoGroup
    BY <1>1, <1>2, Zenon DEF Place
<1>4. /\ ids' \in [Groups -> Seq(Entry)] /\ gref' \in [Groups -> Nat]
      /\ listed' \in [States -> Groups \cup {NoGroup}] /\ idc' \in [States -> Groups \cup {NoGroup}]
      /\ idc' = [idc EXCEPT ![s] = GroupOf[s]] /\ listed' = [listed EXCEPT ![s] = GroupOf[s]]
      /\ ArraysInv' /\ CountInv'
    BY <1>1, <1>2, <1>3, CreateArrays, CreateMembers, CreateTable, Zenon
<1>5. TypeOK'
    BY <1>1, <1>2, <1>4, Zenon DEF TypeOK
<1>6. RefsInv'
    <2>1. \A r \in States : Threads(r)' = Threads(r)
        BY <1>1, <1>2, SMTT(30) DEF TypeOK, Threads
    <2> QED
        BY <1>2, <2>1, RefsKept, Zenon
<1>7. zombies' = {} => npc[s] = "up"
    BY <1>1, <1>2, Zenon DEF TypeOK, Place
<1>8. Place(s)'
    BY <1>1, <1>2, <1>3, <1>4, <1>7, ZenonT(30) DEF TypeOK, Place
<1>9. \A r \in States : r # s => Place(r)'
    BY <1>1, <1>2, <1>4, PlaceKept, Zenon DEF TypeOK
<1> QED
    BY <1>4, <1>5, <1>6, <1>8, <1>9, Zenon DEF IInv

\* A state leaves the table, because it is reset or destroyed.
LEMMA RemoveStep ==
    ASSUME IInv, NEW s \in States, Reset(s) \/ NetworkReset(s) \/ Destroy(s)
    PROVE  IInv'
<1>1. TypeOK /\ RefsInv /\ ArraysInv /\ CountInv /\ \A r \in States : Place(r)
    BY Zenon DEF IInv
<1>2. RemoveState(s) /\ UNCHANGED <<refcnt, cpc, jpc, user, zombies>>
    BY Zenon DEF Reset, NetworkReset, Destroy
<1>3. /\ ids' \in [Groups -> Seq(Entry)] /\ gref' \in [Groups -> Nat]
      /\ listed' \in [States -> Groups \cup {NoGroup}] /\ idc' \in [States -> Groups \cup {NoGroup}]
      /\ idc' = [idc EXCEPT ![s] = NoGroup] /\ listed' = [listed EXCEPT ![s] = NoGroup]
      /\ ArraysInv' /\ CountInv'
    BY <1>1, <1>2, RemoveArrays, RemoveMembers, RemoveTable, Zenon
<1>4. TypeOK'
    BY <1>1, <1>2, <1>3, Zenon DEF TypeOK, Reset, NetworkReset, Destroy
<1>5. \A r \in States : Threads(r)' = Threads(r)
    <2>1. CASE Reset(s) \/ Destroy(s)
        BY <1>2, <2>1, Zenon DEF Reset, Destroy, Threads
    <2>2. CASE NetworkReset(s)
        BY <1>1, <1>2, <2>2, SMTT(30) DEF TypeOK, NetworkReset, Threads
    <2> QED
        BY <2>1, <2>2, Zenon
<1>6. RefsInv'
    BY <1>2, <1>5, RefsKept, Zenon
<1>7. Place(s)'
    <2>1. CASE Reset(s)
        BY <1>1, <1>2, <1>3, <2>1, Zenon DEF TypeOK, Reset, Place
    <2>2. CASE NetworkReset(s)
        BY <1>1, <1>2, <1>3, <2>2, Zenon DEF TypeOK, NetworkReset, Place
    <2>3. CASE Destroy(s)
        BY <1>1, <1>2, <1>3, <2>3, ZenonT(30) DEF TypeOK, Destroy, Place
    <2> QED
        BY <2>1, <2>2, <2>3, Zenon
<1>8. ASSUME NEW r \in States, r # s PROVE Place(r)'
    <2>1. /\ idc'[r] = idc[r] /\ listed'[r] = listed[r] /\ npc'[r] = npc[r]
          /\ (r \in dying' <=> r \in dying) /\ (r \in freed' <=> r \in freed)
          /\ (r \in need_exit' <=> r \in need_exit)
        BY <1>1, <1>3, <1>8, Zenon DEF TypeOK, Reset, NetworkReset, Destroy
    <2> QED
        BY <1>1, <1>2, <2>1, PlaceKept, Zenon
<1> QED
    BY <1>3, <1>4, <1>6, <1>7, <1>8, Zenon DEF IInv

\* What a lookup finds.
LEMMA LookupFinds ==
    ASSUME IInv, NEW g \in Groups, NEW key \in Ids, gref[g] > 0
    PROVE  /\ ids[g] # <<>> /\ Search(ids[g], key) + 1 \in 1..Len(ids[g])
           /\ ids[g][Search(ids[g], key) + 1] \in Entries(g)
           /\ ids[g][Search(ids[g], key) + 1].st \in Members(g)
<1>1. TypeOK /\ ArraysInv /\ CountInv
    BY Zenon DEF IInv
<1>2. /\ ids[g] \in Seq(Entry) /\ Entries(g) = {ids[g][i] : i \in 1..Len(ids[g])}
      /\ Entries(g) \in SUBSET Entry
    BY <1>1, EntriesTyped, Zenon
<1>3. Members(g) # {}
    <2>1. Cardinality(Members(g)) # 0
        BY <1>1, SMTT(30) DEF CountInv, TypeOK
    <2> QED
        BY <2>1, FS_EmptySet, Zenon
<1>4. Entries(g) # {}
    BY <1>1, <1>3, Zenon DEF ArraysInv
<1>5. ids[g] # <<>>
    BY <1>2, <1>4, SMTT(30)
<1>6. Search(ids[g], key) + 1 \in 1..Len(ids[g])
    BY <1>1, <1>2, <1>5, SearchFinds, Zenon DEF ArraysInv
<1>7. ids[g][Search(ids[g], key) + 1] \in Entries(g)
    BY <1>2, <1>6, Zenon
<1>8. ids[g][Search(ids[g], key) + 1].st \in Members(g)
    BY <1>1, <1>2, <1>7, ZenonT(30) DEF ArraysInv, Members, Entry
<1> QED
    BY <1>5, <1>6, <1>7, <1>8, Zenon

\* What the threads that looked states up hold.
LEMMA UserRefs ==
    ASSUME TypeOK, NEW u \in Users, NEW s \in States, UNCHANGED <<npc, cpc, jpc>>
    PROVE  /\ user[u] = s /\ user' = [user EXCEPT ![u] = NoState] =>
                 Refs(s)' = Refs(s) - 1 /\ (\A r \in States : r # s => Refs(r)' = Refs(r)) /\ Refs(s) # 0
           /\ user[u] = NoState /\ user' = [user EXCEPT ![u] = s] =>
                 Refs(s)' = Refs(s) + 1 /\ \A r \in States : r # s => Refs(r)' = Refs(r)
<1>1. \A r \in States : Threads(r)' = Threads(r)
    BY Zenon DEF Threads
<1>2. Threads(s) \in Nat /\ Cardinality(Holders(s)) \in Nat /\ IsFiniteSet(Holders(s))
    BY HoldersFinite, Zenon
<1>3. ASSUME user[u] = s, user' = [user EXCEPT ![u] = NoState]
      PROVE  Refs(s)' = Refs(s) - 1 /\ (\A r \in States : r # s => Refs(r)' = Refs(r)) /\ Refs(s) # 0
    <2>1. user'[u] = NoState /\ \A v \in Users : v # u => user'[v] = user[v]
        BY <1>3, Zenon DEF TypeOK
    <2>2. Holders(s)' = Holders(s) \ {u} /\ u \in Holders(s)
        BY <1>3, <2>1, RouteAssumption, Zenon DEF Holders
    <2>3. \A r \in States : r # s => Holders(r)' = Holders(r)
        BY <1>3, <2>1, RouteAssumption, Zenon DEF Holders
    <2>4. Cardinality(Holders(s)') = Cardinality(Holders(s)) - 1
        BY <1>2, <2>2, FS_RemoveElement, Zenon
    <2>5. Cardinality(Holders(s)) # 0
        BY <2>2, HoldersFinite, Zenon
    <2> QED
        BY <1>1, <1>2, <2>3, <2>4, <2>5, SMTT(30) DEF Refs
<1>4. ASSUME user[u] = NoState, user' = [user EXCEPT ![u] = s]
      PROVE  Refs(s)' = Refs(s) + 1 /\ \A r \in States : r # s => Refs(r)' = Refs(r)
    <2>1. user'[u] = s /\ \A v \in Users : v # u => user'[v] = user[v]
        BY <1>4, Zenon DEF TypeOK
    <2>2. Holders(s)' = Holders(s) \cup {u} /\ u \notin Holders(s)
        BY <1>4, <2>1, RouteAssumption, Zenon DEF Holders
    <2>3. \A r \in States : r # s => Holders(r)' = Holders(r)
        BY <1>4, <2>1, RouteAssumption, Zenon DEF Holders
    <2>4. Cardinality(Holders(s)') = Cardinality(Holders(s)) + 1
        BY <1>2, <2>2, FS_AddElement, Zenon
    <2> QED
        BY <1>1, <1>2, <2>3, <2>4, SMTT(30) DEF Refs
<1> QED
    BY <1>3, <1>4, Zenon

\* A state that is put by a thread that looked it up.
LEMMA ReleasePlace ==
    ASSUME TypeOK, NEW s \in States, Place(s), refcnt[s] # 0,
           UNCHANGED <<tableVars, need_exit, cpc, jpc, npc, freed, zombies>>,
           s \in dying' => s \in dying \/ (refcnt'[s] = 0 /\ Threads(s)' = 0)
    PROVE  Place(s)'
<1>1. cpc[s] \notin {"new", "checked"} /\ (zombies = {} => s \notin dying \cup freed)
    BY Zenon DEF Place
<1>2. ASSUME s \in dying', s \notin dying
      PROVE  /\ cpc[s] = "done" /\ npc[s] \in {"none", "gone"} /\ jpc[s] \in {"idle", "done"}
             /\ refcnt'[s] = 0
    <2>1. Threads(s)' = 0 /\ refcnt'[s] = 0
        BY <1>2, Zenon
    <2>2. cpc[s] # "put" /\ npc[s] \notin {"up", "put"} /\ jpc[s] \notin {"join", "create", "put"}
        BY <2>1, SMTT(30) DEF Threads, One
    <2> QED
        BY <1>1, <2>1, <2>2, Zenon DEF TypeOK
<1> QED
    BY <1>1, <1>2, Zenon DEF Place, tableVars

\* A thread puts the state it looked up.
LEMMA ReleaseStep ==
    ASSUME IInv, NEW u \in Users, Release(u)
    PROVE  IInv'
<1>1. TypeOK /\ RefsInv /\ \A r \in States : Place(r)
    BY Zenon DEF IInv
<1>2. PICK s \in States : user[u] = s
    BY <1>1, Zenon DEF Release, TypeOK
<1>3. /\ Put(s) /\ user' = [user EXCEPT ![u] = NoState]
      /\ UNCHANGED <<tableVars, need_exit, cpc, jpc, npc, freed, zombies>>
    BY <1>2, Zenon DEF Release
<1>4. Refs(s)' = Refs(s) - 1 /\ (\A r \in States : r # s => Refs(r)' = Refs(r)) /\ Refs(s) # 0
    BY <1>1, <1>2, <1>3, UserRefs, Zenon
<1>5. /\ refcnt' \in [States -> Nat] /\ dying' \subseteq States /\ RefsInv'
      /\ \A r \in States : r # s => refcnt'[r] = refcnt[r] /\ (r \in dying' <=> r \in dying)
      /\ s \in dying' => s \in dying \/ (refcnt'[s] = 0 /\ Threads(s)' = 0)
    BY <1>1, <1>3, <1>4, HoldersFinite, PutRefs, Zenon
<1>6. TypeOK'
    BY <1>1, <1>3, <1>5, Zenon DEF TypeOK, tableVars
<1>7. refcnt[s] # 0
    BY <1>1, <1>4, Zenon DEF RefsInv
<1>8. Place(s)'
    BY <1>1, <1>3, <1>5, <1>7, ReleasePlace, Zenon
<1>9. \A r \in States : r # s => Place(r)'
    BY <1>1, <1>3, <1>5, PlaceKept, Zenon DEF tableVars
<1> QED
    BY <1>3, <1>5, <1>6, <1>8, <1>9, TableKept, Zenon DEF IInv

\* A thread looks the state for a key up: it is in the table, so it is neither dying nor
\* freed unless there are zombies.
LEMMA LookupStep ==
    ASSUME IInv, NEW u \in Users, NEW g \in Groups, NEW key \in Ids, Lookup(u, g, key)
    PROVE  IInv'
<1>1. TypeOK /\ RefsInv /\ \A r \in States : Place(r)
    BY Zenon DEF IInv
<1>2. gref[g] > 0 /\ user[u] = NoState
    BY Zenon DEF Lookup
<1>3. PICK s \in States : s = ids[g][Search(ids[g], key) + 1].st /\ idc[s] = g
    BY <1>2, LookupFinds, Zenon DEF Members
<1>4. /\ user' = [user EXCEPT ![u] = s] /\ refcnt' = [refcnt EXCEPT ![s] = @ + 1]
      /\ UNCHANGED <<tableVars, need_exit, cpc, jpc, npc, dying, freed, zombies>>
    BY <1>3, Zenon DEF Lookup
<1>5. Refs(s)' = Refs(s) + 1 /\ \A r \in States : r # s => Refs(r)' = Refs(r)
    BY <1>1, <1>2, <1>4, UserRefs, Zenon
<1>6. /\ refcnt' \in [States -> Nat] /\ RefsInv'
      /\ \A r \in States : r # s => refcnt'[r] = refcnt[r]
    BY <1>1, <1>4, <1>5, GetRefs, Zenon
<1>7. TypeOK'
    BY <1>1, <1>4, <1>6, Zenon DEF TypeOK, tableVars
<1>8. Place(s)'
    <2>1. idc[s] # NoGroup
        BY <1>3, RouteAssumption, Zenon
    <2>2. cpc[s] \notin {"new", "checked"} /\ (zombies = {} => s \notin dying \cup freed)
        BY <1>1, <2>1, Zenon DEF Place
    <2> QED
        BY <1>1, <1>4, <2>1, <2>2, Zenon DEF Place, tableVars
<1>9. \A r \in States : r # s => Place(r)'
    BY <1>1, <1>4, <1>6, PlaceKept, Zenon DEF tableVars
<1> QED
    BY <1>4, <1>6, <1>7, <1>8, <1>9, TableKept, Zenon DEF IInv

-----------------------------------------------------------------------------
(* The theorems *)

\* The invariant holds of an empty table.
LEMMA InitInv == Init => IInv
<1> SUFFICES ASSUME Init PROVE IInv
    BY Zenon
<1>1. TypeOK
    BY SMTT(30) DEF Init, TypeOK
<1>2. \A g \in Groups : ids[g] = <<>> /\ Entries(g) = {} /\ Members(g) = {} /\ gref[g] = 0
    BY RouteAssumption, SMTT(30) DEF Init, Entries, Members
<1>3. ArraysInv
    BY <1>2, SMTT(30) DEF ArraysInv, Sorted
<1>4. CountInv
    BY <1>2, FS_EmptySet, Zenon DEF CountInv
<1>5. \A s \in States : Holders(s) = {} /\ Threads(s) = 0 /\ refcnt[s] = 0
    BY RouteAssumption, SMTT(30) DEF Init, Holders, Threads, One
<1>6. RefsInv
    <2>1. Cardinality({}) = 0
        BY FS_EmptySet, Zenon
    <2> QED
        BY <1>5, <2>1, SMTT(30) DEF RefsInv, Refs
<1>7. \A s \in States : Place(s)
    BY Zenon DEF Init, Place
<1> QED
    BY <1>1, <1>3, <1>4, <1>6, <1>7, Zenon DEF IInv

\* Every step keeps the invariant.
LEMMA StepInv == IInv /\ [Next]_vars => IInv'
<1> SUFFICES ASSUME IInv, [Next]_vars PROVE IInv'
    BY Zenon
<1>1. CASE UNCHANGED vars
    <2>1. TypeOK /\ UNCHANGED tableVars /\ UNCHANGED <<refcnt, user>>
        BY <1>1, Zenon DEF IInv, vars
    <2>2. TypeOK'
        BY <1>1, <2>1, Zenon DEF TypeOK, vars, tableVars
    <2>3. RefsInv'
        BY <1>1, <2>1, RefsKept, Zenon DEF vars, Threads
    <2>4. \A s \in States : Place(s)'
        BY <1>1, <2>1, PlaceKept, Zenon DEF IInv, vars, tableVars
    <2> QED
        BY <2>1, <2>2, <2>3, <2>4, TableKept, Zenon DEF IInv
<1>2. ASSUME NEW s \in States,
             \/ CreateSearch(s) \/ CreateInTable(s) \/ CreateFails(s) \/ Accept(s) \/ CreatePut(s)
             \/ JoinReceived(s) \/ JoinUnlink(s) \/ JoinRefused(s) \/ JoinInTable(s)
             \/ JoinExists(s) \/ JoinPut(s)
             \/ Reset(s) \/ NetworkReset(s) \/ NetworkPut(s) \/ Destroy(s)
      PROVE  IInv'
    BY <1>2, QuietStep, CreateStep, PutStep, JoinReceivedStep, JoinInTableStep, RemoveStep, Zenon
<1>3. ASSUME NEW u \in Users, Release(u) \/ \E g \in Groups, key \in Ids : Lookup(u, g, key)
      PROVE  IInv'
    BY <1>3, ReleaseStep, LookupStep, Zenon
<1> QED
    BY <1>1, <1>2, <1>3, Zenon DEF Next

\* The invariant holds always: the account of the table, of the references of groups and
\* states, and of the places of the threads of a state.
THEOREM Invariant == Spec => []IInv
BY InitInv, StepInv, PTL DEF Spec

\* The variables keep their types: no count of references becomes negative, no
\* search leaves the array.
THEOREM TypesTheorem == Spec => []TypeOK
<1>1. IInv => TypeOK
    BY Zenon DEF IInv
<1> QED
    BY <1>1, Invariant, PTL

\* A group is referenced once by each of its states, and has none on its list when
\* it is destroyed (dnet_group_put, dnet_group_destroy).
THEOREM GroupTheorem == Spec => []GroupRefs
<1>1. IInv => GroupRefs
    <2> SUFFICES ASSUME IInv, NEW g \in Groups
                 PROVE  /\ gref[g] = Cardinality({s \in States : idc[s] = g})
                        /\ gref[g] = 0 => \A s \in States : listed[s] # g
        BY Zenon DEF GroupRefs
    <2>1. gref[g] = Cardinality(Members(g))
        BY Zenon DEF IInv, CountInv
    <2>2. gref[g] = 0 => Members(g) = {}
        BY <2>1, MembersFinite, FS_EmptySet, Zenon
    <2>3. gref[g] = 0 => \A s \in States : listed[s] # g
        BY <2>2, Zenon DEF IInv, Place, Members
    <2> QED
        BY <2>1, <2>3, Zenon DEF Members
<1> QED
    BY <1>1, Invariant, PTL

\* Every id of the table leads to a state on the list of the group, not freed.
THEOREM OwnersTheorem == Spec => []OwnersListed
<1>1. IInv => OwnersListed
    <2> SUFFICES ASSUME IInv, NEW g \in Groups, NEW i \in DOMAIN ids[g]
                 PROVE  LET s == ids[g][i].st IN listed[s] = g /\ idc[s] = g /\ s \notin freed
        BY Zenon DEF OwnersListed
    <2> DEFINE s == ids[g][i].st
    <2>1. ids[g][i] \in Entries(g) /\ Entries(g) \in SUBSET Entry
        BY EntriesTyped, Zenon DEF IInv, Entries
    <2>2. s \in States /\ idc[s] = g
        BY <2>1, Zenon DEF IInv, ArraysInv, Entry
    <2> HIDE DEF s
    <2>3. listed[s] = g /\ s \notin freed
        BY <2>2, RouteAssumption, Zenon DEF IInv, Place
    <2> QED
        BY <2>2, <2>3, Zenon DEF s
<1> QED
    BY <1>1, Invariant, PTL

\* A group that exists has an id to find.
THEOREM SearchableTheorem == Spec => []TableSearchable
<1>1. IInv => TableSearchable
    <2> SUFFICES ASSUME IInv, NEW g \in Groups, gref[g] > 0
                 PROVE  ids[g] # <<>>
        BY Zenon DEF TableSearchable
    <2>1. 0 \in Ids
        BY RouteAssumption, SMTT(30) DEF Ids
    <2> QED
        BY <2>1, LookupFinds, Zenon
<1> QED
    BY <1>1, Invariant, PTL

\* The binary search finds the state that serves the key: the one with the largest id
\* up to the key, or the largest id of all (__dnet_idc_search).
THEOREM NearestTheorem == Spec => []SearchNearest
<1>1. IInv => SearchNearest
    <2> SUFFICES ASSUME IInv, NEW g \in Groups, NEW key \in Ids, ids[g] # <<>>
                 PROVE  LET below == {i \in Known(g) : i <= key}
                            best == IF below # {} THEN below ELSE Known(g)
                        IN ids[g][Search(ids[g], key) + 1].id = CHOOSE i \in best : \A j \in best : j <= i
        BY Zenon DEF SearchNearest
    <2> DEFINE a == ids[g]
               below == {i \in Known(g) : i <= key}
               best == IF below # {} THEN below ELSE Known(g)
               at == Search(a, key) + 1
               found == a[at].id
    <2>1. a \in Seq(Entry) /\ Sorted(a) /\ Entries(g) = {a[i] : i \in 1..Len(a)} /\ Entries(g) \in SUBSET Entry
        BY EntriesTyped, Zenon DEF IInv, ArraysInv
    <2>2. Known(g) = {a[i].id : i \in 1..Len(a)}
        BY <2>1, Zenon DEF Known
    <2>3. /\ at \in 1..Len(a)
          /\ \A j \in 1..Len(a) : a[j].id <= key => found <= key /\ a[j].id <= found
          /\ found > key => \A j \in 1..Len(a) : a[j].id <= found
        BY <2>1, SearchFinds, Zenon
    <2> HIDE DEF a, at
    <2>4. Known(g) \in SUBSET Nat /\ key \in Nat
        BY <2>1, <2>2, IdsAreNumbers, Zenon DEF Entry
    <2>5. found \in Known(g) /\ found \in Nat
        BY <2>2, <2>3, <2>4, Zenon
    <2>6. /\ \A j \in Known(g) : j <= key => found <= key /\ j <= found
          /\ found > key => \A j \in Known(g) : j <= found
        BY <2>2, <2>3, Zenon
    <2> HIDE DEF found
    <2>7. found \in best /\ \A j \in best : j <= found
        <3>1. CASE below # {}
            BY <2>5, <2>6, <3>1, Zenon
        <3>2. CASE below = {}
            BY <2>4, <2>5, <2>6, <3>2, SMTT(30)
        <3> QED
            BY <3>1, <3>2, Zenon
    <2>8. best \in SUBSET Nat
        BY <2>4, Zenon
    <2> HIDE DEF best
    <2>9. \A i \in best : (\A j \in best : j <= i) => i = found
        BY <2>7, <2>8, SMTT(30)
    <2>10. found = CHOOSE i \in best : \A j \in best : j <= i
        BY <2>7, <2>9, Zenon
    <2> QED
        BY <2>10, Zenon DEF best, found, at, a
<1> QED
    BY <1>1, Invariant, PTL

\* The threads that looked a state up never have it freed under them, as long as no
\* state comes into the table after its reset (dnet_state_put, dnet_state_destroy).
THEOREM FreedTheorem == Spec => []NoUseAfterFree
<1>1. IInv => NoUseAfterFree
    <2> SUFFICES ASSUME IInv, zombies = {}, NEW u \in Users, user[u] \in freed
                 PROVE  FALSE
        BY Zenon DEF NoUseAfterFree
    <2> DEFINE s == user[u]
    <2>1. s \in States
        BY Zenon DEF IInv, TypeOK
    <2>2. refcnt[s] = 0
        BY <2>1, Zenon DEF IInv, Place
    <2>3. u \in Holders(s)
        BY Zenon DEF Holders
    <2> HIDE DEF s
    <2>4. Cardinality(Holders(s)) # 0 /\ Cardinality(Holders(s)) \in Nat /\ Threads(s) \in Nat
        BY <2>3, HoldersFinite, Zenon
    <2>5. refcnt[s] = Threads(s) + Cardinality(Holders(s))
        BY <2>1, Zenon DEF IInv, RefsInv, Refs
    <2> QED
        BY <2>2, <2>4, <2>5, SMTT(30)
<1> QED
    BY <1>1, Invariant, PTL

\* What a step leaves in the table of a state that is on a list before and after it:
\* when another state comes in,
LEMMA RoutesCreate ==
    ASSUME IInv, NEW r \in States, CreateInTable(r) \/ JoinInTable(r),
           NEW g \in Groups, NEW s \in States, listed[s] = g
    PROVE  {e \in Entries(g) : e.st = s} = {e \in Entries(g)' : e.st = s}
<1>1. TypeOK /\ ArraysInv /\ \A x \in States : Place(x)
    BY Zenon DEF IInv
<1>2. IdcCreates(r) /\ IdcCreate(r)
    BY Zenon DEF CreateInTable, JoinInTable
<1>3. idc[r] = NoGroup
    BY <1>1, Zenon DEF CreateInTable, JoinInTable, Place
<1>4. r # s
    BY <1>1, <1>3, RouteAssumption, Zenon DEF Place
<1>5. Entries(g)' = IF g = GroupOf[r] THEN Entries(g) \cup Added(r, Fresh(r)) ELSE Entries(g)
    BY <1>1, <1>2, CreateArrays, Zenon
<1>6. \A e \in Added(r, Fresh(r)) : e.st # s
    BY <1>4, Zenon DEF Added
<1> QED
    BY <1>5, <1>6, Zenon

\* when one goes,
LEMMA RoutesRemove ==
    ASSUME IInv, NEW r \in States, Reset(r) \/ NetworkReset(r) \/ Destroy(r),
           NEW g \in Groups, NEW s \in States, listed'[s] = g
    PROVE  {e \in Entries(g) : e.st = s} = {e \in Entries(g)' : e.st = s}
<1>1. TypeOK /\ ArraysInv /\ CountInv
    BY Zenon DEF IInv
<1>2. RemoveState(r)
    BY Zenon DEF Reset, NetworkReset, Destroy
<1>3. Entries(g)' = IF g = idc[r] THEN {e \in Entries(g) : e.st # r} ELSE Entries(g)
    BY <1>1, <1>2, RemoveArrays, Zenon
<1>4. listed' = [listed EXCEPT ![r] = NoGroup]
    BY <1>2, Zenon DEF RemoveState
<1>5. r # s
    BY <1>1, <1>4, RouteAssumption, Zenon DEF TypeOK
<1> QED
    BY <1>3, <1>5, Zenon

\* and otherwise.
LEMMA RoutesKept ==
    ASSUME [Next]_vars
    PROVE  \/ \E r \in States : CreateInTable(r) \/ JoinInTable(r)
           \/ \E r \in States : Reset(r) \/ NetworkReset(r) \/ Destroy(r)
           \/ ids' = ids
<1>1. CASE UNCHANGED vars
    BY <1>1, Zenon DEF vars, tableVars
<1>2. ASSUME NEW r \in States,
             CreateSearch(r) \/ CreateFails(r) \/ Accept(r) \/ CreatePut(r) \/ JoinReceived(r)
      PROVE  ids' = ids
    BY <1>2, Zenon DEF CreateSearch, CreateFails, Accept, CreatePut, JoinReceived, tableVars
<1>3. ASSUME NEW r \in States,
             JoinUnlink(r) \/ JoinRefused(r) \/ JoinExists(r) \/ JoinPut(r) \/ NetworkPut(r)
      PROVE  ids' = ids
    BY <1>3, Zenon DEF JoinUnlink, JoinRefused, JoinExists, JoinPut, NetworkPut, tableVars
<1>4. ASSUME NEW u \in Users, Release(u) \/ \E h \in Groups, key \in Ids : Lookup(u, h, key)
      PROVE  ids' = ids
    BY <1>4, Zenon DEF Release, Lookup, tableVars
<1> QED
    BY <1>1, <1>2, <1>3, <1>4, Zenon DEF Next

\* So every step leaves the ids of such a state alone.
LEMMA RoutesStep ==
    ASSUME IInv, [Next]_vars, NEW g \in Groups, NEW s \in States, listed[s] = g, listed'[s] = g
    PROVE  {e \in Entries(g) : e.st = s} = {e \in Entries(g)' : e.st = s}
<1>1. CASE ids' = ids
    BY <1>1, Zenon DEF Entries
<1> QED
    BY <1>1, RoutesCreate, RoutesRemove, RoutesKept, Zenon

\* No step of one state takes or gives an id of another that stays in the table
\* (dnet_idc_create, dnet_idc_remove_ids).
THEOREM RoutesTheorem == Spec => OwnRoutesStable
<1> DEFINE Step == \A g \in Groups, s \in States :
                      listed[s] = g /\ listed'[s] = g =>
                         {e \in Entries(g) : e.st = s} = {e \in Entries(g)' : e.st = s}
<1>1. IInv /\ [Next]_vars => [Step]_vars
    BY RoutesStep, Zenon
<1>2. Spec => [][Step]_vars
    BY <1>1, Invariant, PTL DEF Spec
<1> QED
    BY <1>2, Zenon DEF OwnRoutesStable
=============================================================================
