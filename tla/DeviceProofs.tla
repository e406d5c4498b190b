------------------------------ MODULE DeviceProofs ----------------------------
(***************************************************************************)
(* Proofs about the devices, shown and simulated.  DeviceConsole: for any  *)
(* fleet, page size and interleaving of answers and controls, the          *)
(* inventory shows what its controls ask for, an empty screen was answered *)
(* with nothing, and a number on it was reported.  Simulator: for any      *)
(* devices and calls, withheld OIDs are absent, the others read as set     *)
(* last, and a call changes the device it names and no other.              *)
(***************************************************************************)
EXTENDS DeviceConsole, Simulator, SequenceTheorems, FiniteSetTheorems, WellFoundedInduction, TLAPS

-------------------------------------------------------------------------------
(* Natural numbers                                                         *)

\* Less-than on the natural numbers, as a set of pairs.
Below == {p \in Nat \X Nat : p[1] < p[2]}

\* Every nonempty set of natural numbers has a least element.
LEMMA LeastNatural ==
    ASSUME NEW S \in SUBSET Nat, S # {}
    PROVE  \E n \in S : \A m \in S : n <= m
<1>1. IsWellFoundedOn(Below, Nat)
    BY NatLessThanWellFounded DEF OpToRel, Below
<1>2. PICK n \in S : \A m \in S : <<m, n>> \notin Below
    BY <1>1, WFMin
<1>3. ASSUME NEW m \in S PROVE n <= m
    <2>1. ~(m < n)
        BY <1>2 DEF Below
    <2> QED
        BY <2>1
<1> QED
    BY <1>3

\* Induction up to a bound, over the set of the numbers for which a fact holds.
LEMMA InductionUpTo ==
    ASSUME NEW N \in Nat, NEW G, 0 \in G, \A n \in 1..N : n - 1 \in G => n \in G
    PROVE  0..N \subseteq G
<1> DEFINE Bad == (0..N) \ G
<1> SUFFICES ASSUME Bad # {} PROVE FALSE
    OBVIOUS
<1>1. PICK n \in Bad : \A m \in Bad : n <= m
    <2>1. Bad \in SUBSET Nat
        OBVIOUS
    <2> HIDE DEF Bad
    <2> QED
        BY <2>1, LeastNatural
<1>2. n \in 1..N /\ n - 1 \in 0..N /\ ~(n <= n - 1)
    OBVIOUS
<1>3. n - 1 \in G
    BY <1>1, <1>2
<1> QED
    BY <1>2, <1>3

-------------------------------------------------------------------------------
(* Ranks: where the members of a finite set come in a strict order of it.    *)

StrictOrder(W, R) ==
    \A i, j \in W :
        /\ <<i, i>> \notin R
        /\ i # j => <<i, j>> \in R \/ <<j, i>> \in R
        /\ \A k \in W : <<i, j>> \in R /\ <<j, k>> \in R => <<i, k>> \in R

Ahead(W, R, i) == {j \in W : <<j, i>> \in R}
Rank(W, R, i) == 1 + Cardinality(Ahead(W, R, i))

LEMMA RankInRange ==
    ASSUME NEW W, IsFiniteSet(W), NEW R, StrictOrder(W, R), NEW i \in W
    PROVE  Rank(W, R, i) \in 1..Cardinality(W)
<1>1. Ahead(W, R, i) \in SUBSET (W \ {i}) /\ IsFiniteSet(W \ {i})
    BY FS_RemoveElement DEF Ahead, StrictOrder
<1>2. Cardinality(W \ {i}) = Cardinality(W) - 1 /\ Cardinality(W) \in Nat
    BY FS_RemoveElement, FS_CardinalityType
<1>3. /\ Cardinality(Ahead(W, R, i)) <= Cardinality(W \ {i})
      /\ IsFiniteSet(Ahead(W, R, i))
    BY <1>1, FS_Subset
<1>4. Cardinality(Ahead(W, R, i)) \in Nat
    BY <1>3, FS_CardinalityType
<1> QED
    BY <1>2, <1>3, <1>4 DEF Rank

\* The rank follows the order.
LEMMA RankFollows ==
    ASSUME NEW W, IsFiniteSet(W), NEW R, StrictOrder(W, R), NEW i \in W, NEW j \in W, <<i, j>> \in R
    PROVE  Rank(W, R, i) < Rank(W, R, j)
<1>1. Ahead(W, R, i) \cup {i} \in SUBSET Ahead(W, R, j) /\ i \notin Ahead(W, R, i)
    BY DEF Ahead, StrictOrder
<1>2. /\ Ahead(W, R, i) \in SUBSET W /\ Ahead(W, R, j) \in SUBSET W
    BY DEF Ahead
<1>3. IsFiniteSet(Ahead(W, R, i)) /\ IsFiniteSet(Ahead(W, R, j))
    BY <1>2, FS_Subset
<1>4. Cardinality(Ahead(W, R, i) \cup {i}) = Cardinality(Ahead(W, R, i)) + 1
    BY <1>1, <1>3, FS_AddElement
<1>5. Cardinality(Ahead(W, R, i) \cup {i}) <= Cardinality(Ahead(W, R, j))
    BY <1>1, <1>3, FS_Subset
<1>6. Cardinality(Ahead(W, R, i)) \in Nat /\ Cardinality(Ahead(W, R, j)) \in Nat
    BY <1>3, FS_CardinalityType
<1> QED
    BY <1>4, <1>5, <1>6 DEF Rank

\* Every place up to the number of members is the rank of one member.
LEMMA RankBijection ==
    ASSUME NEW W, IsFiniteSet(W), NEW R, StrictOrder(W, R)
    PROVE  [i \in W |-> Rank(W, R, i)] \in Bijection(W, 1..Cardinality(W))
<1> DEFINE f == [i \in W |-> Rank(W, R, i)]
           T == 1..Cardinality(W)
<1>1. f \in [W -> T]
    BY RankInRange
<1>2. ASSUME NEW i \in W, NEW j \in W, f[i] = f[j]
      PROVE  i = j
    <2> SUFFICES ASSUME i # j PROVE FALSE
        OBVIOUS
    <2>1. Rank(W, R, i) \in Int /\ Rank(W, R, j) \in Int /\ Rank(W, R, i) = Rank(W, R, j)
        BY <1>2, RankInRange
    <2>2. <<i, j>> \in R \/ <<j, i>> \in R
        BY DEF StrictOrder
    <2>3. Rank(W, R, i) < Rank(W, R, j) \/ Rank(W, R, j) < Rank(W, R, i)
        BY <2>2, RankFollows
    <2> QED
        BY <2>1, <2>3
<1> HIDE DEF f
<1>3. f \in Injection(W, T)
    BY <1>1, <1>2 DEF Injection, IsInjective
<1>4. Cardinality(W) \in Nat
    BY FS_CardinalityType
<1>5. IsFiniteSet(T) /\ Cardinality(T) = Cardinality(W)
    <2>1. Cardinality(W) \in Int /\ 1 \in Int
        BY <1>4
    <2>2. IsFiniteSet(1..Cardinality(W)) /\ Cardinality(1..Cardinality(W)) = IF 1 > Cardinality(W) THEN 0 ELSE Cardinality(W) - 1 + 1
        BY <2>1, FS_Interval, Zenon
    <2> QED
        BY <1>4, <2>2
<1> HIDE DEF T
<1>6. f \in Surjection(W, T)
    BY <1>3, <1>5, FS_Injection
<1> QED
    BY <1>3, <1>6 DEF Bijection, f, T

\* As many members have their rank in a set of places as it has places.
LEMMA RanksAmong ==
    ASSUME NEW W, IsFiniteSet(W), NEW R, StrictOrder(W, R),
           NEW K \in SUBSET (1..Cardinality(W))
    PROVE  Cardinality({i \in W : Rank(W, R, i) \in K}) = Cardinality(K)
<1> DEFINE f == [i \in W |-> Rank(W, R, i)]
           V == {i \in W : Rank(W, R, i) \in K}
           g == [i \in V |-> Rank(W, R, i)]
<1>1. f \in Bijection(W, 1..Cardinality(W))
    BY RankBijection
<1>2. /\ \A i, j \in W : Rank(W, R, i) = Rank(W, R, j) => i = j
      /\ \A k \in 1..Cardinality(W) : \E i \in W : Rank(W, R, i) = k
    BY <1>1 DEF Bijection, Injection, Surjection, IsInjective
<1>3. g \in Bijection(V, K)
    <2>1. g \in [V -> K] /\ \A i \in V : g[i] = Rank(W, R, i)
        OBVIOUS
    <2>2. \A i, j \in V : g[i] = g[j] => i = j
        BY <1>2
    <2>3. \A k \in K : \E i \in V : g[i] = k
        BY <1>2
    <2> HIDE DEF g, V
    <2> QED
        BY <2>1, <2>2, <2>3 DEF Bijection, Injection, Surjection, IsInjective
<1>4. V \in SUBSET W
    OBVIOUS
<1>5. IsFiniteSet(V)
    BY <1>4, FS_Subset
<1> HIDE DEF V, g
<1>6. ExistsBijection(V, K)
    BY <1>3 DEF ExistsBijection
<1>7. Cardinality(V) = Cardinality(K)
    BY <1>5, <1>6, FS_Bijection
<1> QED
    BY <1>7 DEF V

\* A new member moves those behind it by one, and no other.
LEMMA RankMoves ==
    ASSUME NEW T, IsFiniteSet(T), NEW O, NEW x, x \notin T, NEW m \in T, <<x, m>> \in O,
           NEW U, U = T \cup {x}
    PROVE  Rank(U, O, m) = Rank(T, O, m) + 1
<1>1. Ahead(T, O, m) \in SUBSET T /\ x \notin Ahead(T, O, m)
    BY DEF Ahead
<1>2. IsFiniteSet(Ahead(T, O, m)) /\ Cardinality(Ahead(T, O, m)) \in Nat
    BY <1>1, FS_Subset, FS_CardinalityType
<1>3. Ahead(U, O, m) = Ahead(T, O, m) \cup {x}
    BY DEF Ahead
<1>4. Cardinality(Ahead(T, O, m) \cup {x}) = Cardinality(Ahead(T, O, m)) + 1
    BY <1>1, <1>2, FS_AddElement
<1> QED
    BY <1>2, <1>3, <1>4 DEF Rank

LEMMA RankStays ==
    ASSUME NEW T, NEW O, NEW x, NEW m \in T, <<x, m>> \notin O,
           NEW U, U = T \cup {x}
    PROVE  Rank(U, O, m) = Rank(T, O, m)
<1>1. Ahead(U, O, m) = Ahead(T, O, m)
    BY DEF Ahead
<1> QED
    BY <1>1 DEF Rank

-------------------------------------------------------------------------------
(* The sort of the inventory                                               *)

\* The order of the rows that a query asks for, as a set of pairs.
Order(rows, q) ==
    {p \in (DOMAIN rows) \X (DOMAIN rows) : Precedes(rows, p[1], p[2], q)}

\* Those of the first n rows that a query is for.
WantedUpTo(rows, q, n) == {i \in 1..n : Wanted(ToDevice(rows[i]), q)}

\* The wanted ones of the first n rows, each at its rank.
Sorted(rows, q, n, s) ==
    LET W == WantedUpTo(rows, q, n)
    IN  /\ s \in Seq(Row) /\ Len(s) = Cardinality(W)
        /\ \A i \in W : s[Rank(W, Order(rows, q), i)] = ToDevice(rows[i])

LEMMA DeviceTyped ==
    ASSUME NEW raw \in RawRow, NEW q \in Controls
    PROVE  ToDevice(raw) \in Row /\ Key(ToDevice(raw), q.column) \in Int
<1>1. ToNumberMetric(raw.number) \in Metric
    BY DEF ToNumberMetric, RawRow, Number, Metric, Available, Unavailable
<1>2. ToKind(raw.type) \in {"p2p", "router", "other"}
    BY DEF ToKind
<1>3. ToReachability(raw.status) \in {"up", "down", "unknown"}
    BY DEF ToReachability, RawRow
<1>4. raw.id \in Nat /\ raw.host \in Nat /\ raw.found \in BOOLEAN
    BY DEF RawRow
<1>5. ToDevice(raw) \in [id : Nat, host : Nat, found : BOOLEAN, kind : {"p2p", "router", "other"},
        reachability : {"up", "down", "unknown"}, number : Metric]
    BY <1>1, <1>2, <1>3, <1>4 DEF ToDevice
<1>6. q.column \in {"hostname", "kind", "reachability"}
    BY ConsoleAssumption DEF Controls
<1> DEFINE d == ToDevice(raw)
<1>7. d.host \in Int /\ d.kind \in {"p2p", "router", "other"} /\ d.reachability \in {"up", "down", "unknown"}
    BY <1>5
<1> HIDE DEF d
<1>8. Key(d, q.column) \in Int
    <2>1. CASE q.column = "hostname"
        BY <1>7, <2>1 DEF Key
    <2>2. CASE q.column = "kind"
        BY <1>7, <2>2 DEF Key, KindOrder
    <2>3. CASE q.column = "reachability"
        BY <1>7, <2>3 DEF Key, ReachOrder
    <2> QED
        BY <1>6, <2>1, <2>2, <2>3
<1> QED
    BY <1>5, <1>8 DEF d, Row

LEMMA InOrder ==
    ASSUME NEW rows, NEW q, NEW i \in DOMAIN rows, NEW j \in DOMAIN rows
    PROVE  <<i, j>> \in Order(rows, q) <=> Precedes(rows, i, j, q)
BY DEF Order

\* Rows with equal keys keep the order LibreNMS has them in.
LEMMA OrderStrict ==
    ASSUME NEW rows \in Seq(RawRow), NEW q \in Controls, NEW W \in SUBSET (DOMAIN rows)
    PROVE  StrictOrder(W, Order(rows, q))
<1> DEFINE key == [i \in DOMAIN rows |-> Key(ToDevice(rows[i]), q.column)]
<1>1. key \in [DOMAIN rows -> Int] /\ DOMAIN rows \subseteq Int
    BY DeviceTyped
<1>2. \A i, j \in DOMAIN rows :
         <<i, j>> \in Order(rows, q) <=>
            (IF q.dir = "asc" THEN key[i] < key[j] ELSE key[i] > key[j]) \/ (key[i] = key[j] /\ i < j)
    <2> SUFFICES ASSUME NEW i \in DOMAIN rows, NEW j \in DOMAIN rows
                 PROVE  <<i, j>> \in Order(rows, q) <=>
                          (IF q.dir = "asc" THEN key[i] < key[j] ELSE key[i] > key[j])
                          \/ (key[i] = key[j] /\ i < j)
        OBVIOUS
    <2>1. <<i, j>> \in Order(rows, q) <=> Precedes(rows, i, j, q)
        BY InOrder
    <2>2. key[i] = Key(ToDevice(rows[i]), q.column) /\ key[j] = Key(ToDevice(rows[j]), q.column)
        OBVIOUS
    <2> HIDE DEF key
    <2>3. Precedes(rows, i, j, q) <=>
             (IF q.dir = "asc" THEN key[i] < key[j] ELSE key[i] > key[j]) \/ (key[i] = key[j] /\ i < j)
        BY <2>2 DEF Precedes
    <2> QED
        BY <2>1, <2>3
<1> HIDE DEF key
<1>3. ASSUME NEW i \in W, NEW j \in W
      PROVE  /\ <<i, i>> \notin Order(rows, q)
             /\ i # j => <<i, j>> \in Order(rows, q) \/ <<j, i>> \in Order(rows, q)
             /\ \A k \in W : <<i, j>> \in Order(rows, q) /\ <<j, k>> \in Order(rows, q)
                             => <<i, k>> \in Order(rows, q)
    <2>1. CASE q.dir = "asc"
        BY <1>1, <1>2, <2>1
    <2>2. CASE q.dir # "asc"
        BY <1>1, <1>2, <2>2
    <2> QED
        BY <2>1, <2>2
<1> QED
    BY <1>3 DEF StrictOrder

\* v is u with x inserted at place p, which moves what is behind it by one.
IsInserted(v, u, p, x) ==
    /\ Len(v) = Len(u) + 1
    /\ v[p] = x
    /\ \A k \in 1..(p - 1) : v[k] = u[k]
    /\ \A k \in p..Len(u) : v[k + 1] = u[k]

LEMMA Inserted ==
    ASSUME NEW S, NEW u \in Seq(S), NEW p \in 1..(Len(u) + 1), NEW x \in S
    PROVE  InsertAt(u, p, x) \in Seq(S) /\ IsInserted(InsertAt(u, p, x), u, p, x)
<1> DEFINE left == SubSeq(u, 1, p - 1)
           right == SubSeq(u, p, Len(u))
<1>1. left \in Seq(S) /\ Len(left) = p - 1 /\ \A k \in 1..(p - 1) : left[k] = u[k]
    BY SubSeqProperties
<1>2. /\ right \in Seq(S) /\ Len(right) = Len(u) - p + 1
      /\ \A k \in 1..(Len(u) - p + 1) : right[k] = u[p + k - 1]
    BY SubSeqProperties
<1>3. InsertAt(u, p, x) = (left \o <<x>>) \o right
    BY DEF InsertAt
<1> HIDE DEF left, right
<1> DEFINE mid == left \o <<x>>
<1>4. mid \in Seq(S) /\ Len(mid) = p /\ mid[p] = x /\ \A k \in 1..(p - 1) : mid[k] = u[k]
    BY <1>1
<1> HIDE DEF mid
<1>5. InsertAt(u, p, x) = mid \o right
    BY <1>3 DEF mid
<1>6. mid \o right \in Seq(S) /\ Len(mid \o right) = Len(mid) + Len(right)
    BY <1>2, <1>4, ConcatProperties, Zenon
<1>7. \A k \in 1..p : (mid \o right)[k] = mid[k]
    BY <1>2, <1>4
<1>8. ASSUME NEW k \in p..Len(u)
      PROVE  (mid \o right)[k + 1] = u[k]
    <2>1. /\ k + 1 - p \in 1..(Len(u) - p + 1) /\ k + 1 - Len(mid) = k + 1 - p
          /\ p + (k + 1 - p) - 1 = k
        BY <1>4
    <2>2. (mid \o right)[k + 1] = right[k + 1 - Len(mid)]
        BY <1>2, <1>4, <2>1
    <2> QED
        BY <1>2, <2>1, <2>2
<1>9. p \in 1..p /\ \A k \in 1..(p - 1) : k \in 1..p
    OBVIOUS
<1>10. Len(mid) + Len(right) = Len(u) + 1
    BY <1>2, <1>4
<1> QED
    BY <1>4, <1>5, <1>6, <1>7, <1>8, <1>9, <1>10 DEF IsInserted

\* client.ts:108: a device is inserted behind all that do not come after it.
LEMMA InsertSortedKeeps ==
    ASSUME NEW rows \in Seq(RawRow), NEW q \in Controls, NEW n \in 1..Len(rows), NEW s,
           Sorted(rows, q, n - 1, s), Wanted(ToDevice(rows[n]), q)
    PROVE  Sorted(rows, q, n, InsertSorted(s, ToDevice(rows[n]), q))
<1> DEFINE R == Order(rows, q)
           W == WantedUpTo(rows, q, n - 1)
           V == WantedUpTo(rows, q, n)
           d == ToDevice(rows[n])
           After(other) == IF q.dir = "asc" THEN Key(other, q.column) > Key(d, q.column)
                           ELSE Key(other, q.column) < Key(d, q.column)
           K == {k \in DOMAIN s : ~After(s[k])}
           at == Cardinality(K)
<1>1. /\ W \in SUBSET DOMAIN rows /\ V \in SUBSET DOMAIN rows /\ n \in DOMAIN rows
      /\ n \notin W /\ V = W \cup {n} /\ \A i \in W : i < n
    BY DEF WantedUpTo
<1>2. IsFiniteSet(W) /\ IsFiniteSet(V)
    <2>1. IsFiniteSet(1..Len(rows)) /\ DOMAIN rows = 1..Len(rows)
        <3>1. Len(rows) \in Int /\ 1 \in Int
            OBVIOUS
        <3> QED
            BY <3>1, FS_Interval
    <2> QED
        BY <1>1, <2>1, FS_Subset
<1>3. StrictOrder(W, R) /\ StrictOrder(V, R)
    BY <1>1, OrderStrict
<1>4. /\ s \in Seq(Row) /\ Len(s) = Cardinality(W)
      /\ \A i \in W : s[Rank(W, R, i)] = ToDevice(rows[i])
    BY DEF Sorted
<1>5. ASSUME NEW i \in W
      PROVE  <<i, n>> \in R <=> ~After(ToDevice(rows[i]))
    <2>1. <<i, n>> \in R <=> Precedes(rows, i, n, q)
        BY <1>1, InOrder
    <2>2. Key(ToDevice(rows[i]), q.column) \in Int /\ Key(d, q.column) \in Int
        BY <1>1, DeviceTyped
    <2>3. i < n
        BY <1>1
    <2> QED
        BY <2>1, <2>2, <2>3 DEF Precedes
<1>6. ASSUME NEW i \in W
      PROVE  <<n, i>> \in R <=> After(ToDevice(rows[i]))
    <2>1. <<n, i>> \in R <=> Precedes(rows, n, i, q)
        BY <1>1, InOrder
    <2>2. Key(ToDevice(rows[i]), q.column) \in Int /\ Key(d, q.column) \in Int
        BY <1>1, DeviceTyped
    <2>3. i < n /\ i \in Int /\ n \in Int
        BY <1>1
    <2> QED
        BY <2>1, <2>2, <2>3 DEF Precedes
<1>7. InsertSorted(s, d, q) = InsertAt(s, at + 1, d)
    BY DEF InsertSorted
<1> HIDE DEF After, d, W, V, R
<1>8. at = Cardinality(Ahead(W, R, n)) /\ at \in 0..Len(s)
    <2>1. K \in SUBSET (1..Cardinality(W))
        BY <1>4
    <2>2. {i \in W : Rank(W, R, i) \in K} = Ahead(W, R, n)
        <3>1. ASSUME NEW i \in W
              PROVE  Rank(W, R, i) \in K <=> <<i, n>> \in R
            <4>1. Rank(W, R, i) \in DOMAIN s
                BY <1>2, <1>3, <1>4, RankInRange
            <4> QED
                BY <1>4, <1>5, <4>1
        <3> HIDE DEF K
        <3> QED
            BY <3>1 DEF Ahead
    <2> HIDE DEF K
    <2>3. Cardinality(Ahead(W, R, n)) = Cardinality(K)
        BY <1>2, <1>3, <2>1, <2>2, RanksAmong
    <2>4. IsFiniteSet(1..Cardinality(W)) /\ Cardinality(1..Cardinality(W)) = Cardinality(W) /\ Cardinality(W) \in Nat
        <3>1. Cardinality(W) \in Nat
            BY <1>2, FS_CardinalityType
        <3>2. Cardinality(W) \in Int /\ 1 \in Int
            BY <3>1
        <3>3. /\ IsFiniteSet(1..Cardinality(W))
              /\ Cardinality(1..Cardinality(W)) = IF 1 > Cardinality(W) THEN 0 ELSE Cardinality(W) - 1 + 1
            BY <3>2, FS_Interval, Zenon
        <3> QED
            BY <3>1, <3>3
    <2>5. Cardinality(K) <= Cardinality(W) /\ Cardinality(K) \in Nat
        BY <2>1, <2>4, FS_Subset, FS_CardinalityType
    <2> QED
        BY <1>4, <2>3, <2>4, <2>5
<1> HIDE DEF at
<1> DEFINE t == InsertAt(s, at + 1, d)
<1>9. d \in Row
    BY DeviceTyped, <1>1 DEF d
<1>10. /\ t \in Seq(Row) /\ Len(t) = Len(s) + 1 /\ t[at + 1] = d
       /\ \A k \in 1..at : t[k] = s[k]
       /\ \A k \in (at + 1)..Len(s) : t[k + 1] = s[k]
    <2>1. at + 1 \in 1..(Len(s) + 1) /\ (at + 1) - 1 = at
        BY <1>4, <1>8
    <2> DEFINE b == at + 1
    <2>2. b \in 1..(Len(s) + 1) /\ b - 1 = at
        BY <2>1
    <2> HIDE DEF b
    <2>3. InsertAt(s, b, d) \in Seq(Row) /\ IsInserted(InsertAt(s, b, d), s, b, d)
        BY <1>4, <1>9, <2>2, Inserted
    <2>4. InsertAt(s, b, d) = t
        BY DEF b
    <2> QED
        BY <2>2, <2>3, <2>4 DEF b, IsInserted
<1> HIDE DEF t
<1>11. Cardinality(V) = Cardinality(W) + 1
    BY <1>1, <1>2, FS_AddElement
<1>12. n \in V /\ <<n, n>> \notin R /\ Rank(V, R, n) = at + 1
    <2>1. n \in V /\ <<n, n>> \notin R
        BY <1>1, <1>3 DEF StrictOrder
    <2> QED
        <3>1. Rank(V, R, n) = 1 + Cardinality(Ahead(V, R, n))
            BY DEF Rank
        <3>2. Ahead(V, R, n) = Ahead(W, R, n)
            BY <1>1, <2>1 DEF Ahead
        <3> QED
            BY <1>8, <2>1, <3>1, <3>2
<1>13. ASSUME NEW i \in W
       PROVE  t[Rank(V, R, i)] = ToDevice(rows[i])
    <2>1. i \in V /\ i # n /\ Rank(W, R, i) \in 1..Len(s)
        BY <1>1, <1>2, <1>3, <1>4, RankInRange
    <2>2. CASE <<n, i>> \in R
        <3>1. Rank(V, R, i) = Rank(W, R, i) + 1
            BY <1>1, <1>2, <2>2, RankMoves
        <3>2. at + 1 < Rank(V, R, i)
            BY <1>2, <1>3, <1>12, <2>1, <2>2, RankFollows
        <3>3. Rank(W, R, i) \in (at + 1)..Len(s)
            BY <1>8, <2>1, <3>1, <3>2
        <3> QED
            BY <1>4, <1>10, <3>1, <3>3
    <2>3. CASE <<n, i>> \notin R
        <3>1. Rank(V, R, i) = Rank(W, R, i)
            BY <1>1, <2>3, RankStays
        <3>2. <<i, n>> \in R
            BY <1>3, <1>12, <2>1, <2>3 DEF StrictOrder
        <3>3. Rank(V, R, i) < at + 1
            BY <1>2, <1>3, <1>12, <2>1, <3>2, RankFollows
        <3>4. Rank(W, R, i) \in 1..at
            BY <1>8, <2>1, <3>1, <3>3
        <3> QED
            BY <1>4, <1>10, <3>1, <3>4
    <2> QED
        BY <2>2, <2>3
<1>14. \A i \in V : t[Rank(V, R, i)] = ToDevice(rows[i])
    BY <1>1, <1>10, <1>12, <1>13 DEF d
<1>15. t \in Seq(Row) /\ Len(t) = Cardinality(V)
    BY <1>4, <1>10, <1>11
<1>16. t = InsertSorted(s, ToDevice(rows[n]), q)
    BY <1>7 DEF t, d
<1> QED
    BY <1>14, <1>15, <1>16 DEF Sorted, V, R

\* client.ts:99-108: the sort puts each wanted device at its rank.
LEMMA FilterAndSortSorts ==
    ASSUME NEW rows \in Seq(RawRow), NEW q \in Controls
    PROVE  Sorted(rows, q, Len(rows),
                  FilterAndSortDevices([i \in DOMAIN rows |-> ToDevice(rows[i])], q))
<1> DEFINE D == [i \in DOMAIN rows |-> ToDevice(rows[i])]
           N == Len(D)
           Step(f, n) == IF n = 0 THEN <<>>
                         ELSE IF Wanted(D[n], q) THEN InsertSorted(f[n - 1], D[n], q)
                         ELSE f[n - 1]
           IsSort(f) == f = [n \in 0..N |-> Step(f, n)]
           sorted == CHOOSE f : IsSort(f)
<1>1. N \in Nat /\ N = Len(rows) /\ \A n \in 1..N : D[n] = ToDevice(rows[n])
    <2>1. D \in Seq(Row) /\ Len(D) = Len(rows)
        <3>1. \A i \in DOMAIN rows : ToDevice(rows[i]) \in Row
            BY DeviceTyped
        <3>2. Len(rows) \in Nat /\ DOMAIN rows = 1..Len(rows)
            OBVIOUS
        <3>3. D = [i \in 1..Len(rows) |-> ToDevice(rows[i])]
            BY <3>2
        <3> QED
            BY <3>1, <3>2, <3>3
    <2>2. \A n \in 1..Len(rows) : D[n] = ToDevice(rows[n])
        OBVIOUS
    <2> QED
        BY <2>1, <2>2
<1>2. FilterAndSortDevices(D, q) = sorted[N]
    BY DEF FilterAndSortDevices
<1> HIDE DEF D, N
<1>3. \E f : IsSort(f)
    <2> DEFINE Upto(m) == \E f : f = [n \in 0..N |-> f[n]] /\ \A n \in 0..m : f[n] = Step(f, n)
               G == {m \in 0..N : Upto(m)}
    <2>1. 0 \in G
        <3> DEFINE f == [n \in 0..N |-> <<>>]
        <3>1. f = [n \in 0..N |-> f[n]] /\ \A n \in 0..0 : f[n] = Step(f, n)
            BY <1>1
        <3> HIDE DEF f, Step
        <3>2. Upto(0) /\ 0 \in 0..N
            BY <1>1, <3>1
        <3> QED
            BY <3>2
    <2>2. ASSUME NEW m \in 1..N, m - 1 \in G
          PROVE  m \in G
        <3>1. PICK f : f = [n \in 0..N |-> f[n]] /\ \A n \in 0..(m - 1) : f[n] = Step(f, n)
            BY <2>2
        <3> DEFINE g == [n \in 0..N |-> Step(f, n)]
        <3>2. \A n \in 0..(m - 1) : g[n] = f[n]
            <4> HIDE DEF Step
            <4>1. 0..(m - 1) \subseteq 0..N
                BY <1>1
            <4> QED
                BY <3>1, <4>1
        <3>3. \A n \in 0..m : Step(g, n) = Step(f, n)
            <4> SUFFICES ASSUME NEW n \in 0..m PROVE Step(g, n) = Step(f, n)
                OBVIOUS
            <4>1. CASE n = 0
                BY <4>1
            <4>2. CASE n # 0
                <5>1. n - 1 \in 0..(m - 1)
                    BY <1>1, <4>2
                <5>2. g[n - 1] = f[n - 1]
                    BY <3>2, <5>1
                <5> HIDE DEF g
                <5> QED
                    BY <5>2
            <4> QED
                BY <4>1, <4>2
        <3>4. g = [n \in 0..N |-> g[n]] /\ \A n \in 0..m : g[n] = Step(g, n)
            BY <1>1, <3>3
        <3> HIDE DEF g, Step
        <3> QED
            BY <1>1, <3>4
    <2> HIDE DEF G
    <2>3. 0..N \subseteq G
        BY <1>1, <2>1, <2>2, InductionUpTo
    <2>4. N \in 0..N
        BY <1>1
    <2>5. N \in G
        BY <2>3, <2>4, Zenon
    <2>6. PICK f : f = [n \in 0..N |-> f[n]] /\ \A n \in 0..N : f[n] = Step(f, n)
        BY <2>5 DEF G
    <2> HIDE DEF Step
    <2>7. IsSort(f)
        BY <2>6
    <2> QED
        BY <2>7, Zenon
<1>4. IsSort(sorted)
    BY <1>3
<1> HIDE DEF sorted, IsSort
<1> DEFINE G == {n \in 0..N : Sorted(rows, q, n, sorted[n])}
<1>5. \A n \in 0..N : sorted[n] = Step(sorted, n)
    BY <1>4 DEF IsSort
<1>6. 0 \in G
    <2>1. sorted[0] = <<>>
        BY <1>1, <1>5
    <2>2. WantedUpTo(rows, q, 0) = {}
        BY DEF WantedUpTo
    <2>3. <<>> \in Seq(Row) /\ Len(<<>>) = 0 /\ Cardinality({}) = 0
        BY FS_EmptySet
    <2>4. Sorted(rows, q, 0, <<>>)
        BY <2>2, <2>3 DEF Sorted
    <2> QED
        BY <1>1, <2>1, <2>4
<1>7. ASSUME NEW n \in 1..N, n - 1 \in G
      PROVE  n \in G
    <2>1. n \in 0..N /\ n # 0 /\ n \in 1..Len(rows) /\ D[n] = ToDevice(rows[n])
        BY <1>1
    <2>2. Sorted(rows, q, n - 1, sorted[n - 1])
        BY <1>7
    <2>3. CASE Wanted(ToDevice(rows[n]), q)
        <3>1. sorted[n] = InsertSorted(sorted[n - 1], ToDevice(rows[n]), q)
            BY <1>5, <2>1, <2>3
        <3>2. Sorted(rows, q, n, InsertSorted(sorted[n - 1], ToDevice(rows[n]), q))
            BY <2>1, <2>2, <2>3, InsertSortedKeeps
        <3> QED
            BY <2>1, <3>1, <3>2
    <2>4. CASE ~Wanted(ToDevice(rows[n]), q)
        <3>1. sorted[n] = sorted[n - 1]
            BY <1>5, <2>1, <2>4
        <3>2. WantedUpTo(rows, q, n) = WantedUpTo(rows, q, n - 1)
            BY <2>1, <2>4 DEF WantedUpTo
        <3>3. Sorted(rows, q, n, sorted[n - 1])
            BY <2>2, <3>2 DEF Sorted
        <3> QED
            BY <2>1, <3>1, <3>3
    <2> QED
        BY <2>3, <2>4
<1> HIDE DEF G, Step
<1>8. 0..N \subseteq G
    BY <1>1, <1>6, <1>7, InductionUpTo
<1>9. N \in 0..N
    BY <1>1
<1>10. N \in G
    BY <1>8, <1>9, Zenon
<1>11. Sorted(rows, q, N, sorted[N])
    BY <1>10 DEF G
<1> QED
    BY <1>1, <1>2, <1>11 DEF D

LEMMA PagesBefore ==
    ASSUME NEW p \in Nat \ {0}, NEW size \in Nat \ {0}
    PROVE  (p - 1) * size \in Nat /\ p * size = (p - 1) * size + size
<1>1. p - 1 \in Nat
    OBVIOUS
<1>2. \A m \in Nat : m * size \in Nat /\ (m + 1) * size = m * size + size
    OBVIOUS
<1> QED
    BY <1>1, <1>2

\* client.ts:110-113: a page is that part of the sorted devices.
LEMMA WindowIsAskedFor ==
    ASSUME NEW rows \in Seq(RawRow), NEW q \in Controls, NEW all, NEW answer,
           Sorted(rows, q, Len(rows), all), Held(answer) = rows,
           answer.total = Len(all), answer.rows = WindowPage(all, q.page)
    PROVE  /\ answer.rows \in Seq(Row) /\ answer.total \in Nat /\ Windowed(q, answer)
           /\ \A n \in DOMAIN answer.rows : \E i \in DOMAIN rows : answer.rows[n] = ToDevice(rows[i])
<1> DEFINE W == WantedOf(rows, q)
           R == Order(rows, q)
           C == Len(all)
           first == (q.page - 1) * PerPage
           end == IF first + PerPage < C THEN first + PerPage ELSE C
           K == (first + 1)..end
           shown == answer.rows
<1>1. W = WantedUpTo(rows, q, Len(rows)) /\ W \in SUBSET (DOMAIN rows)
    BY DEF WantedOf, WantedUpTo
<1>2. IsFiniteSet(W) /\ StrictOrder(W, R)
    <2>1. IsFiniteSet(1..Len(rows)) /\ DOMAIN rows = 1..Len(rows)
        <3>1. Len(rows) \in Int /\ 1 \in Int
            OBVIOUS
        <3> QED
            BY <3>1, FS_Interval
    <2> QED
        BY <1>1, <2>1, FS_Subset, OrderStrict
<1>3. /\ all \in Seq(Row) /\ C = Cardinality(W) /\ C \in Nat
      /\ \A i \in W : all[Rank(W, R, i)] = ToDevice(rows[i])
    BY <1>1 DEF Sorted
<1>4. first \in Nat /\ PerPage \in Nat \ {0} /\ q.page * PerPage = first + PerPage
    <2>1. q.page \in Nat \ {0} /\ PerPage \in Nat \ {0}
        BY ConsoleAssumption DEF Controls
    <2> QED
        BY <2>1, PagesBefore
<1>5. shown = SubSeq(all, first + 1, end)
    BY <1>4 DEF WindowPage
<1> HIDE DEF first
<1>6. /\ shown \in Seq(Row) /\ Len(shown) = (IF first < end THEN end - first ELSE 0)
      /\ \A k \in 1..(end - first) : shown[k] = all[first + k]
      /\ end \in Nat /\ end <= C /\ end <= first + PerPage
    <2>1. end \in Nat /\ end <= C /\ end <= first + PerPage
        BY <1>3, <1>4
    <2> HIDE DEF end, shown
    <2>2. CASE first < end
        BY <1>3, <1>4, <1>5, <2>1, <2>2
    <2>3. CASE ~(first < end)
        <3>1. SubSeq(all, first + 1, end) = <<>>
            BY <1>3, <1>4, <2>1, <2>3
        <3>2. 1..(end - first) = {}
            BY <1>4, <2>1, <2>3
        <3>3. shown = <<>> /\ <<>> \in Seq(Row) /\ Len(<<>>) = 0
            BY <1>5, <3>1
        <3> QED
            BY <2>1, <2>3, <3>2, <3>3
    <2> QED
        BY <2>2, <2>3
<1>7. \A k \in 1..C : k \in (first + 1)..(first + PerPage) <=> k \in K
    BY <1>3, <1>4
<1> HIDE DEF end, shown
<1>8. ASSUME NEW i \in W
      PROVE  1 + Cardinality({j \in W : Precedes(rows, j, i, q)}) = Rank(W, R, i)
    <2>1. {j \in W : Precedes(rows, j, i, q)} = Ahead(W, R, i)
        BY <1>1, InOrder DEF Ahead
    <2> QED
        BY <2>1 DEF Rank
<1>9. \A i \in W : Rank(W, R, i) \in 1..C
    BY <1>2, <1>3, RankInRange
<1>10. K \in SUBSET (1..Cardinality(W))
    BY <1>3, <1>4, <1>6
<1>11. Cardinality({i \in W : Rank(W, R, i) \in K}) = Len(shown)
    <2>1. first + 1 \in Int /\ end \in Int
        BY <1>4, <1>6
    <2>2. Cardinality(K) = IF first + 1 > end THEN 0 ELSE end - (first + 1) + 1
        BY <2>1, FS_Interval, Zenon
    <2>3. Cardinality(K) = Len(shown)
        BY <1>4, <1>6, <2>2
    <2> HIDE DEF K
    <2> QED
        BY <1>2, <1>10, <2>3, RanksAmong
<1>12. ASSUME NEW i \in W, Rank(W, R, i) \in (first + 1)..(first + PerPage)
       PROVE  shown[Rank(W, R, i) - first] = ToDevice(rows[i])
    <2> DEFINE r == Rank(W, R, i)
    <2>1. r \in 1..C /\ r \in K
        BY <1>7, <1>9, <1>12
    <2>2. all[r] = ToDevice(rows[i])
        BY <1>3
    <2> HIDE DEF r
    <2>3. r - first \in 1..(end - first) /\ first + (r - first) = r
        BY <1>4, <1>6, <2>1
    <2>4. shown[r - first] = all[r]
        BY <1>6, <2>3
    <2> QED
        BY <2>2, <2>4 DEF r
<1>13. {i \in W : Rank(W, R, i) \in (first + 1)..(first + PerPage)} = {i \in W : Rank(W, R, i) \in K}
    BY <1>7, <1>9
<1>14. Windowed(q, answer)
    <2> DEFINE Place(i) == 1 + Cardinality({j \in W : Precedes(rows, j, i, q)})
    <2>1. \A i \in W : Place(i) = Rank(W, R, i)
        BY <1>8
    <2> HIDE DEF Place, R
    <2>2. \A i \in W : Place(i) \in (first + 1)..(first + PerPage) => shown[Place(i) - first] = ToDevice(rows[i])
        BY <1>12, <2>1
    <2>3. {i \in W : Place(i) \in (first + 1)..(first + PerPage)} = {i \in W : Rank(W, R, i) \in K}
        BY <1>13, <2>1
    <2>4. Len(shown) = Cardinality({i \in W : Place(i) \in (first + 1)..(first + PerPage)})
        BY <1>11, <2>3
    <2>5. answer.total = Cardinality(W)
        BY <1>3
    <2> HIDE DEF W
    <2> QED
        BY <2>2, <2>4, <2>5, Zenon DEF Windowed, first, Place, W, shown
<1>15. ASSUME NEW n \in DOMAIN shown
       PROVE  \E i \in DOMAIN rows : shown[n] = ToDevice(rows[i])
    <2>1. n \in 1..(end - first) /\ first + n \in 1..Cardinality(W)
        BY <1>3, <1>4, <1>6
    <2>2. PICK i \in W : Rank(W, R, i) = first + n
        <3>1. [i \in W |-> Rank(W, R, i)] \in Bijection(W, 1..Cardinality(W))
            BY <1>2, RankBijection
        <3> QED
            BY <2>1, <3>1 DEF Bijection, Surjection
    <2>3. shown[n] = ToDevice(rows[i])
        BY <1>3, <1>6, <2>1, <2>2
    <2> QED
        BY <1>1, <2>3
<1> QED
    BY <1>3, <1>6, <1>14, <1>15 DEF shown

-------------------------------------------------------------------------------
(* The answers of the BFF                                                  *)

LEMMA WiderSequence ==
    ASSUME NEW S, NEW T, S \subseteq T, NEW u \in Seq(S)
    PROVE  u \in Seq(T)
<1>1. u \in [1..Len(u) -> S] /\ Len(u) \in Nat
    OBVIOUS
<1>2. u \in [1..Len(u) -> T]
    BY <1>1
<1> QED
    BY <1>1, <1>2

LEMMA DefaultsAreControls == Defaults \in Controls
<1>1. "" \in Searches /\ "" \in KindFilters /\ "" \in ReachFilters /\ "hostname" \in Columns
    BY ConsoleAssumption
<1>2. "asc" \in {"asc", "desc"} /\ "eventlog" \in {"eventlog", "syslog"} /\ 1 \in Nat \ {0}
    OBVIOUS
<1> QED
    BY <1>1, <1>2 DEF Defaults, Controls

LEMMA RowsTyped ==
    ASSUME NEW raw \in RawRow
    PROVE  MadeOf(raw) \subseteq Row
<1>1. ToNumberMetric(raw.number) \in Metric /\ Unavailable \in Metric
    BY DEF ToNumberMetric, RawRow, Number, Metric, Available, Unavailable
<1>2. raw.id \in Nat
    BY DEF RawRow
<1>3. {ToInterface(raw), ToAlertLogEntry(raw), ToEventLogEntry(raw)} \subseteq [id : Nat, number : Metric]
    BY <1>1, <1>2 DEF ToInterface, ToAlertLogEntry, ToEventLogEntry, OptionalNumber
<1>4. Defaults \in Controls
    BY DefaultsAreControls
<1>5. ToDevice(raw) \in Row
    BY <1>4, DeviceTyped
<1> QED
    BY <1>3, <1>5 DEF Row, MadeOf

\* What LibreNMS sent, or no rows.
LEMMA ReceivedTyped ==
    ASSUME TypeOK, NEW reply \in Replies, NEW rows \in Seq(Row), NEW total \in Nat
    PROVE  /\ Received(reply) \in Seq(RawRow) /\ DOMAIN Received(reply) \subseteq DOMAIN fleet
           /\ \A i \in DOMAIN Received(reply) : Received(reply)[i] = fleet[i] /\ fleet[i] \in RawRow
           /\ Result(reply, rows, total) \in ListAnswer
           /\ Held(Result(reply, rows, total)) = Received(reply)
<1>1. fleet \in Fleets /\ fleet \in Seq(RawRow)
    BY ConsoleAssumption DEF TypeOK
<1>2. CASE reply = "rows"
    BY <1>1, <1>2 DEF Received, Result, ListAnswer, Held
<1>3. CASE reply # "rows"
    <2>1. <<>> \in Seq(RawRow) /\ DOMAIN <<>> = {}
        OBVIOUS
    <2> QED
        BY <1>1, <1>3, <2>1 DEF Received, Result, ListAnswer, Held
<1> QED
    BY <1>2, <1>3

\* mappers.ts: every row received is mapped, and nothing else.
LEMMA ListedIsOk ==
    ASSUME TypeOK, NEW reply \in Replies, NEW q \in Controls, NEW rows,
           view # "inventory", ~Throws(reply),
           DOMAIN rows = DOMAIN Received(reply),
           rows = [i \in DOMAIN rows |-> rows[i]],
           \A i \in DOMAIN rows : rows[i] \in MadeOf(Received(reply)[i])
    PROVE  Listed(reply, rows) \in ListAnswer /\ AnswerOk(q, Listed(reply, rows))
<1> DEFINE r == Received(reply)
           a == Listed(reply, rows)
<1>1. r \in Seq(RawRow) /\ DOMAIN r \subseteq DOMAIN fleet /\ \A i \in DOMAIN r : r[i] = fleet[i] /\ r[i] \in RawRow
    <2>1. <<>> \in Seq(Row) /\ 0 \in Nat
        OBVIOUS
    <2> QED
        BY <2>1, ReceivedTyped
<1>2. rows \in Seq(Row) /\ Len(rows) = Len(r)
    <2>1. \A i \in DOMAIN rows : rows[i] \in Row
        BY <1>1, RowsTyped
    <2>2. DOMAIN rows = 1..Len(r) /\ Len(r) \in Nat
        BY <1>1
    <2>3. rows \in [1..Len(r) -> Row]
        BY <2>1, <2>2
    <2> QED
        BY <2>2, <2>3
<1>3. a \in ListAnswer /\ Held(a) = r /\ a.rows = rows /\ a.reply = reply /\ a.seen = fleet /\ ~a.failed
    <2>1. Len(rows) \in Nat
        BY <1>2
    <2> QED
        BY <1>2, <2>1, ReceivedTyped DEF Listed, Result
<1>4. rows = <<>> => r = <<>>
    BY <1>1, <1>2
<1>5. \A n \in DOMAIN rows : \E i \in DOMAIN fleet : rows[n] \in MadeOf(fleet[i])
    BY <1>1
<1> HIDE DEF r, a
<1>6. fleet \in Fleets
    BY DEF TypeOK
<1>7. AnswerOk(q, a)
    BY <1>3, <1>4, <1>5, <1>6 DEF AnswerOk
<1> QED
    BY <1>3, <1>7 DEF a

\* client.ts: an answer is a failure, or it is made of what LibreNMS sent and
\* of all of it that the controls ask for.
LEMMA AnswersAreOk ==
    ASSUME TypeOK, NEW reply \in Replies, NEW q \in Controls
    PROVE  /\ AnswerTo(reply, q) \in ListAnswer
           /\ ~AnswerTo(reply, q).failed => AnswerOk(q, AnswerTo(reply, q))
<1> DEFINE r == Received(reply)
           a == AnswerTo(reply, q)
           Ok(b) == b \in ListAnswer /\ (~b.failed => AnswerOk(q, b))
<1>1. r \in Seq(RawRow) /\ DOMAIN r \subseteq DOMAIN fleet /\ \A i \in DOMAIN r : r[i] = fleet[i] /\ r[i] \in RawRow
    <2>1. <<>> \in Seq(Row) /\ 0 \in Nat
        OBVIOUS
    <2> QED
        BY <2>1, ReceivedTyped
<1>2. Ok(Failure)
    BY DEF Failure, ListAnswer, Replies
<1> HIDE DEF Ok
<1>3. CASE a = Failure
    BY <1>2, <1>3 DEF Ok
<1>4. CASE a # Failure
    <2>1. ~Throws(reply)
        BY <1>4 DEF AnswerTo
    <2>2. CASE view = "inventory"
        <3> DEFINE D == [i \in DOMAIN r |-> ToDevice(r[i])]
                   all == FilterAndSortDevices(D, q)
                   b == Result(reply, WindowPage(all, q.page), Len(all))
        <3>1. a = b
            BY <1>4, <2>2 DEF AnswerTo, ListDevices
        <3>2. Sorted(r, q, Len(r), all)
            BY <1>1, FilterAndSortSorts
        <3> HIDE DEF all, r
        <3>3. Held(b) = r /\ b.total = Len(all) /\ b.rows = WindowPage(all, q.page)
              /\ b.seen = fleet /\ b.reply = reply /\ ~b.failed
            BY DEF Result, Held, Received, r
        <3> HIDE DEF b
        <3>4. /\ b.rows \in Seq(Row) /\ b.total \in Nat /\ Windowed(q, b)
              /\ \A n \in DOMAIN b.rows : \E i \in DOMAIN r : b.rows[n] = ToDevice(r[i])
            BY <1>1, <3>2, <3>3, WindowIsAskedFor
        <3>5. b \in ListAnswer
            <4>1. Result(reply, b.rows, b.total) \in ListAnswer
                BY <3>4, ReceivedTyped
            <4>2. b = Result(reply, b.rows, b.total)
                BY <3>3 DEF b
            <4> QED
                BY <4>1, <4>2
        <3>6. \A n \in DOMAIN b.rows : \E i \in DOMAIN fleet : b.rows[n] \in MadeOf(fleet[i])
            BY <1>1, <3>4 DEF MadeOf
        <3>7. fleet \in Fleets
            BY DEF TypeOK
        <3>8. AnswerOk(q, b)
            BY <2>1, <2>2, <3>3, <3>4, <3>6, <3>7 DEF AnswerOk
        <3> QED
            BY <3>1, <3>5, <3>8
    <2>3. CASE view = "detail"
        <3>1. r # <<>> /\ a = Result(reply, <<ToDevice(r[1])>>, 1)
            BY <1>4, <2>3 DEF AnswerTo, GetDevice
        <3>2. 1 \in DOMAIN r /\ 1 \in DOMAIN fleet /\ r[1] = fleet[1] /\ r[1] \in RawRow
            BY <1>1, <3>1
        <3>3. ToDevice(r[1]) \in Row /\ ToDevice(r[1]) \in MadeOf(fleet[1])
            BY <3>2, RowsTyped DEF MadeOf
        <3>4. <<ToDevice(r[1])>> \in Seq(Row)
            BY <3>3
        <3> DEFINE b == Result(reply, <<ToDevice(r[1])>>, 1)
        <3>5. b \in ListAnswer
            BY <3>4, ReceivedTyped
        <3>6. b.rows = <<ToDevice(r[1])>> /\ b.seen = fleet /\ b.reply = reply
            BY DEF Result
        <3> HIDE DEF b, r
        <3>7. b.rows # <<>> /\ \A n \in DOMAIN b.rows : n = 1 /\ b.rows[n] = ToDevice(r[1])
            BY <3>6
        <3>8. fleet \in Fleets
            BY DEF TypeOK
        <3>9. AnswerOk(q, b)
            BY <2>1, <2>3, <3>2, <3>3, <3>6, <3>7, <3>8 DEF AnswerOk
        <3> QED
            BY <3>1, <3>5, <3>9 DEF b
    <2>4. CASE view = "interfaces"
        <3> DEFINE rows == [i \in DOMAIN r |-> ToInterface(r[i])]
        <3>1. \A i \in DOMAIN rows : rows[i] \in MadeOf(r[i])
            BY DEF MadeOf
        <3>2. a = Listed(reply, rows)
            BY <1>4, <2>4 DEF AnswerTo, ListDeviceInterfaces
        <3> QED
            BY <2>1, <2>4, <3>1, <3>2, ListedIsOk
    <2>5. CASE view = "events"
        <3> DEFINE rows == [i \in DOMAIN r |-> ToEventLogEntry(r[i])]
        <3>1. \A i \in DOMAIN rows : rows[i] \in MadeOf(r[i])
            BY DEF MadeOf
        <3>2. a = Listed(reply, rows)
            BY <1>4, <2>5 DEF AnswerTo, ListDeviceEvents
        <3> QED
            BY <2>1, <2>5, <3>1, <3>2, ListedIsOk
    <2>6. CASE view = "history"
        <3> DEFINE rows == [i \in DOMAIN r |-> ToAlertLogEntry(r[i])]
        <3>1. \A i \in DOMAIN rows : rows[i] \in MadeOf(r[i])
            BY DEF MadeOf
        <3>2. a = Listed(reply, rows)
            BY <1>4, <2>6 DEF AnswerTo, ListAlarmHistory
        <3> QED
            BY <2>1, <2>6, <3>1, <3>2, ListedIsOk
    <2> QED
        BY <2>2, <2>3, <2>4, <2>5, <2>6 DEF TypeOK, Views
<1> QED
    BY <1>3, <1>4

-------------------------------------------------------------------------------
(* The steps of the console                                                *)

\* A step that keeps the view leaves a good answer good, also when the fleet
\* changes: that is counted.
LEMMA AnswerStays ==
    ASSUME NEW q, NEW a, AnswerOk(q, a), view' = view,
           (changes' = changes /\ fleet' = fleet) \/ changes' # 0
    PROVE  AnswerOk(q, a)'
BY DEF AnswerOk, Throws, Benign

LEMMA RequestsTyped ==
    ASSUME ConsoleInv
    PROVE  /\ fetches \in Seq(Sound) /\ Len(fetches) \in Nat
           /\ \A i \in DOMAIN fetches : fetches[i] \in Sound /\ fetches[i] \in Request
<1>1. fetches \in Seq(Sound) /\ Sound \subseteq Request
    BY DEF ConsoleInv, Sound
<1> QED
    BY <1>1

LEMMA ConsoleInit == Init => ConsoleInv
<1> SUFFICES ASSUME Init PROVE ConsoleInv
    OBVIOUS
<1>1. Failure \in ListAnswer /\ Failure.failed
    BY DEF Failure, ListAnswer, Replies
<1>2. Waiting(Defaults) \in Request
    BY <1>1, DefaultsAreControls DEF Waiting, Request
<1>3. InRange(Defaults)
    BY DEF InRange, Defaults
<1>4. Waiting(Defaults) \in Sound
    BY <1>1, <1>2, <1>3 DEF Sound, Waiting, Init
<1>5. fetches \in Seq(Sound) /\ fetches \in Seq(Request)
    BY <1>2, <1>4 DEF Init
<1>6. TypeOK
    BY <1>1, <1>5, DefaultsAreControls DEF Init, TypeOK
<1> QED
    BY <1>3, <1>5, <1>6 DEF Init, ConsoleInv, Showing

\* Serving or dropping requests: the fleet and the controls stay, and so does
\* what is on the screen.
LEMMA ScreenStays ==
    ASSUME ConsoleInv, UNCHANGED <<fleet, changes, view, controls, status, data, shownFor>>,
           fetches' \in Seq(Sound)
    PROVE  ConsoleInv'
<1>1. Sound' = Sound
    BY DEF Sound, InRange, AnswerOk, Throws, Benign
<1>2. fetches' \in Seq(Request)
    <2>1. Sound \subseteq Request
        BY DEF Sound
    <2> QED
        BY <2>1, WiderSequence
<1>3. TypeOK'
    BY <1>2 DEF ConsoleInv, TypeOK
<1>4. InRange(controls)' <=> InRange(controls)
    BY DEF InRange
<1>5. AnswerOk(controls, data) => AnswerOk(controls, data)'
    BY DEF AnswerOk, Throws, Benign
<1> QED
    BY <1>1, <1>3, <1>4, <1>5 DEF ConsoleInv, Showing

LEMMA ServeKeeps ==
    ASSUME ConsoleInv, NEW i \in DOMAIN fetches, Serve(i) \/ AlarmGone(i)
    PROVE  ConsoleInv'
<1>1. fetches[i] \in Sound /\ fetches[i] \in Request /\ fetches \in Seq(Sound) /\ i \in DOMAIN fetches
    BY RequestsTyped
<1>2. PICK f \in Sound : fetches' = [fetches EXCEPT ![i] = f]
    <2>1. CASE AlarmGone(i)
        <3> DEFINE f == [fetches[i] EXCEPT !.served = TRUE]
        <3>1. f \in Sound
            BY <1>1 DEF Sound, Request
        <3> QED
            BY <2>1, <3>1 DEF AlarmGone
    <2>2. CASE Serve(i)
        <3>1. PICK reply \in Replies :
                 fetches' = [fetches EXCEPT ![i].served = TRUE,
                                            ![i].answer = AnswerTo(reply, fetches[i].controls)]
            BY <2>2 DEF Serve
        <3> DEFINE a == AnswerTo(reply, fetches[i].controls)
                   f == [fetches[i] EXCEPT !.served = TRUE, !.answer = a]
        <3>2. fetches[i].controls \in Controls /\ TypeOK
            BY <1>1 DEF Request, ConsoleInv
        <3>3. a \in ListAnswer /\ (~a.failed => AnswerOk(fetches[i].controls, a))
            BY <3>2, AnswersAreOk
        <3>4. fetches' = [fetches EXCEPT ![i] = f]
            BY <1>1, <3>1
        <3> HIDE DEF a
        <3>5. f \in Sound
            BY <1>1, <3>3 DEF Sound, Request
        <3> QED
            BY <3>4, <3>5
    <2> QED
        BY <2>1, <2>2
<1>3. fetches' \in Seq(Sound)
    BY <1>1, <1>2
<1>4. UNCHANGED <<fleet, changes, view, controls, status, data, shownFor>>
    BY DEF Serve, AlarmGone
<1> QED
    BY <1>3, <1>4, ScreenStays

\* useDevices.ts: an answer is shown only if its request is live, and then it
\* is for the present controls.
LEMMA DeliverKeeps ==
    ASSUME ConsoleInv, NEW i \in DOMAIN fetches, Deliver(i)
    PROVE  ConsoleInv'
<1>1. /\ fetches[i] \in Sound /\ fetches[i] \in Request /\ fetches \in Seq(Sound)
      /\ i \in 1..Len(fetches) /\ Len(fetches) \in Nat
    BY RequestsTyped
<1>2. fetches' = SubSeq(fetches, 1, i - 1) \o SubSeq(fetches, i + 1, Len(fetches))
    BY DEF Deliver, RemoveAt
<1>3. fetches' \in Seq(Sound)
    <2>1. SubSeq(fetches, 1, i - 1) \in Seq(Sound)
        BY <1>1, SubSeqProperties
    <2>2. SubSeq(fetches, i + 1, Len(fetches)) \in Seq(Sound)
        BY <1>1, SubSeqProperties
    <2> QED
        BY <1>2, <2>1, <2>2, ConcatProperties, Zenon
<1>4. UNCHANGED <<fleet, changes, view, controls>>
    BY DEF Deliver
<1>5. Sound' = Sound
    BY <1>4 DEF Sound, InRange, AnswerOk, Throws, Benign
<1>6. fetches' \in Seq(Request)
    <2>1. Sound \subseteq Request
        BY DEF Sound
    <2> QED
        BY <1>3, <2>1, WiderSequence
<1>7. \A q, a : AnswerOk(q, a) => AnswerOk(q, a)'
    BY <1>4, AnswerStays
<1>8. changes' = 0 => InRange(controls)'
    BY <1>4 DEF ConsoleInv, InRange
<1>9. CASE fetches[i].live /\ ~fetches[i].answer.failed
    <2>1. /\ data' = fetches[i].answer /\ shownFor' = fetches[i].controls
          /\ status' = IF IsEmpty(fetches[i].answer) THEN "empty" ELSE "success"
        BY <1>9 DEF Deliver
    <2>2. /\ fetches[i].controls = controls /\ AnswerOk(controls, data')
          /\ data' \in ListAnswer /\ shownFor' = controls
        BY <1>1, <1>9, <2>1 DEF Sound, Request
    <2>3. AnswerOk(controls, data)'
        BY <1>4, <2>2 DEF AnswerOk, Throws, Benign
    <2>4. status' = "empty" => data'.rows = <<>>
        BY <2>1 DEF IsEmpty
    <2>5. TypeOK'
        BY <1>4, <1>6, <2>1, <2>2 DEF ConsoleInv, TypeOK
    <2> QED
        BY <1>3, <1>4, <1>5, <1>8, <1>9, <2>1, <2>2, <2>3, <2>4, <2>5 DEF ConsoleInv
<1>10. CASE ~(fetches[i].live /\ ~fetches[i].answer.failed)
    <2>1. /\ UNCHANGED <<data, shownFor>> /\ status' \in {"error", status}
        BY <1>10 DEF Deliver
    <2>2. TypeOK'
        BY <1>4, <1>6, <2>1 DEF ConsoleInv, TypeOK
    <2>3. AnswerOk(controls, data) => AnswerOk(controls, data)'
        BY <1>4, <2>1 DEF AnswerOk, Throws, Benign
    <2> QED
        BY <1>3, <1>4, <1>5, <1>8, <2>1, <2>2, <2>3 DEF ConsoleInv, Showing
<1> QED
    BY <1>9, <1>10

\* A turn of the controls cancels what is in flight and asks anew.
LEMMA TurnKeeps ==
    ASSUME ConsoleInv, NEW q \in Controls, changes = 0 => InRange(q), Turn(q)
    PROVE  ConsoleInv'
<1>1. /\ controls' = q /\ status' = "loading" /\ UNCHANGED <<fleet, changes, view, data, shownFor>>
      /\ fetches' = Append(Cancelled(fetches), Waiting(q))
    BY DEF Turn, Refetch
<1>2. Failure \in ListAnswer /\ Failure.failed
    BY DEF Failure, ListAnswer, Replies
<1>3. \A p : InRange(p)' <=> InRange(p)
    BY <1>1 DEF InRange
<1>4. Waiting(q) \in Sound'
    <2>1. Waiting(q) \in Request
        BY <1>2 DEF Waiting, Request
    <2>2. Waiting(q).controls = controls' /\ Waiting(q).answer.failed
        BY <1>1, <1>2 DEF Waiting
    <2>3. changes' = 0 => InRange(Waiting(q).controls)'
        BY <1>1, <1>3 DEF Waiting
    <2> QED
        BY <2>1, <2>2, <2>3 DEF Sound
<1>5. Cancelled(fetches) \in Seq(Sound')
    <2>1. fetches \in Seq(Sound) /\ Len(fetches) \in Nat /\ DOMAIN fetches = 1..Len(fetches)
        BY RequestsTyped
    <2>2. ASSUME NEW i \in DOMAIN fetches
          PROVE  [fetches[i] EXCEPT !.live = FALSE] \in Sound'
        <3> DEFINE f == [fetches[i] EXCEPT !.live = FALSE]
        <3>1. fetches[i] \in Sound /\ fetches[i] \in Request
            BY RequestsTyped
        <3>2. f \in Request /\ ~f.live /\ f.controls = fetches[i].controls /\ f.answer = fetches[i].answer
            BY <3>1 DEF Request
        <3> HIDE DEF f
        <3>3. changes = 0 => InRange(f.controls)
            BY <3>1, <3>2 DEF Sound
        <3>4. ~f.answer.failed => AnswerOk(f.controls, f.answer)
            BY <3>1, <3>2 DEF Sound
        <3>5. f \in Sound'
            BY <1>1, <3>2, <3>3, <3>4 DEF Sound, InRange, AnswerOk, Throws, Benign
        <3> QED
            BY <3>5 DEF f
    <2>3. Cancelled(fetches) = [i \in 1..Len(fetches) |-> [fetches[i] EXCEPT !.live = FALSE]]
        BY <2>1 DEF Cancelled
    <2> QED
        BY <2>1, <2>2, <2>3
<1>6. fetches' \in Seq(Sound')
    BY <1>1, <1>4, <1>5
<1>7. fetches' \in Seq(Request)
    <2>1. Sound' \subseteq Request
        BY DEF Sound
    <2> QED
        BY <1>6, <2>1, WiderSequence
<1>8. TypeOK'
    BY <1>1, <1>7 DEF ConsoleInv, TypeOK
<1>9. changes' = 0 => InRange(controls)'
    BY <1>1 DEF InRange
<1> QED
    BY <1>1, <1>6, <1>8, <1>9 DEF ConsoleInv, Showing

\* Sorting and paging leave the filters, and so the wanted devices.
LEMMA SameFilters ==
    ASSUME NEW q, NEW p, NEW rows,
           p.search = q.search, p.kind = q.kind, p.reachability = q.reachability
    PROVE  WantedOf(rows, p) = WantedOf(rows, q)
BY DEF WantedOf, Wanted

LEMMA UseFiltersKeeps ==
    ASSUME ConsoleInv, UseFilters
    PROVE  ConsoleInv'
<1>1. controls \in Controls
    BY DEF ConsoleInv, TypeOK
<1>2. ASSUME NEW p \in Controls, SetFilter(p)
      PROVE  ConsoleInv'
    <2> DEFINE q == [p EXCEPT !.page = 1]
    <2>1. q \in Controls /\ q.page = 1 /\ Turn(q)
        BY <1>2 DEF SetFilter, Controls
    <2> HIDE DEF q
    <2>2. InRange(q)
        BY <2>1 DEF InRange
    <2> QED
        BY <2>1, <2>2, TurnKeeps
<1>3. CASE \E text \in Searches : SetFilter([controls EXCEPT !.search = text, !.page = 1])
    <2>1. PICK text \in Searches : SetFilter([controls EXCEPT !.search = text, !.page = 1])
        BY <1>3
    <2> DEFINE c == [controls EXCEPT !.search = text]
               p == [c EXCEPT !.page = 1]
    <2>2. SetFilter(p)
        BY <2>1
    <2>3. c \in Controls
        BY <1>1 DEF Controls
    <2> HIDE DEF c
    <2>4. p \in Controls
        BY <2>3 DEF Controls
    <2> HIDE DEF p
    <2> QED
        BY <1>2, <2>2, <2>4
<1>4. CASE \E kind \in KindFilters : SetFilter([controls EXCEPT !.kind = kind, !.page = 1])
    <2>1. PICK kind \in KindFilters : SetFilter([controls EXCEPT !.kind = kind, !.page = 1])
        BY <1>4
    <2> DEFINE c == [controls EXCEPT !.kind = kind]
               p == [c EXCEPT !.page = 1]
    <2>2. SetFilter(p)
        BY <2>1
    <2>3. c \in Controls
        BY <1>1 DEF Controls
    <2> HIDE DEF c
    <2>4. p \in Controls
        BY <2>3 DEF Controls
    <2> HIDE DEF p
    <2> QED
        BY <1>2, <2>2, <2>4
<1>5. CASE \E reach \in ReachFilters : SetFilter([controls EXCEPT !.reachability = reach, !.page = 1])
    <2>1. PICK reach \in ReachFilters : SetFilter([controls EXCEPT !.reachability = reach, !.page = 1])
        BY <1>5
    <2> DEFINE c == [controls EXCEPT !.reachability = reach]
               p == [c EXCEPT !.page = 1]
    <2>2. SetFilter(p)
        BY <2>1
    <2>3. c \in Controls
        BY <1>1 DEF Controls
    <2> HIDE DEF c
    <2>4. p \in Controls
        BY <2>3 DEF Controls
    <2> HIDE DEF p
    <2> QED
        BY <1>2, <2>2, <2>4
<1>6. CASE SetFilter(Defaults)
    BY <1>2, <1>6, DefaultsAreControls
<1> QED
    BY <1>3, <1>4, <1>5, <1>6 DEF UseFilters

\* A turn that leaves the filters and the page, or the first page, is in range.
LEMMA SortKeeps ==
    ASSUME ConsoleInv, NEW q \in Controls, Turn(q), q.page = controls.page,
           q.search = controls.search, q.kind = controls.kind,
           q.reachability = controls.reachability
    PROVE  ConsoleInv'
<1>1. InRange(controls) => InRange(q)
    <2>1. WantedOf(fleet, q) = WantedOf(fleet, controls)
        BY SameFilters
    <2> QED
        BY <2>1 DEF InRange
<1> QED
    BY <1>1, TurnKeeps DEF ConsoleInv

LEMMA ToggleSortKeeps ==
    ASSUME ConsoleInv, NEW column \in Columns, ToggleSort(column)
    PROVE  ConsoleInv'
<1>1. controls \in Controls
    BY DEF ConsoleInv, TypeOK
<1>2. CASE column = controls.column
    <2> DEFINE q == [controls EXCEPT !.dir = IF @ = "asc" THEN "desc" ELSE "asc"]
    <2>1. /\ q \in Controls /\ q.page = controls.page /\ q.search = controls.search
          /\ q.kind = controls.kind /\ q.reachability = controls.reachability
        BY <1>1 DEF Controls
    <2>2. Turn(q)
        BY <1>2 DEF ToggleSort
    <2> HIDE DEF q
    <2> QED
        BY <2>1, <2>2, SortKeeps
<1>3. CASE column # controls.column
    <2> DEFINE q == [controls EXCEPT !.column = column, !.dir = "asc"]
    <2>1. /\ q \in Controls /\ q.page = controls.page /\ q.search = controls.search
          /\ q.kind = controls.kind /\ q.reachability = controls.reachability
        BY <1>1 DEF Controls
    <2>2. Turn(q)
        BY <1>3 DEF ToggleSort
    <2> HIDE DEF q
    <2> QED
        BY <2>1, <2>2, SortKeeps
<1> QED
    BY <1>2, <1>3

\* A page is left only for one that the fleet shown has rows for.
LEMMA PagesKeep ==
    ASSUME ConsoleInv, NextPage \/ PreviousPage
    PROVE  ConsoleInv'
<1>1. controls \in Controls /\ controls.page \in Nat \ {0} /\ PerPage \in Nat \ {0}
    BY ConsoleAssumption DEF ConsoleInv, TypeOK, Controls
<1>2. view = "inventory" /\ status = "success"
    BY DEF NextPage, PreviousPage, SetPage
<1>3. CASE NextPage
    <2> DEFINE q == [controls EXCEPT !.page = controls.page + 1]
    <2>1. /\ q \in Controls /\ q.page = controls.page + 1 /\ q.search = controls.search
          /\ q.kind = controls.kind /\ q.reachability = controls.reachability
        BY <1>1 DEF Controls
    <2>2. Turn(q) /\ controls.page * PerPage < data.total
        BY <1>1, <1>3 DEF NextPage, SetPage
    <2> HIDE DEF q
    <2>3. AnswerOk(controls, data) /\ data.total \in Nat
        BY <1>2 DEF ConsoleInv, Showing, TypeOK, ListAnswer
    <2>4. data.total = Cardinality(WantedOf(Held(data), controls))
        BY <1>2, <2>3 DEF AnswerOk, Windowed
    <2>5. ASSUME changes = 0
          PROVE  InRange(q)
        <3>1. data.reply = "rows"
            <4> SUFFICES ASSUME data.reply # "rows" PROVE FALSE
                OBVIOUS
            <4>1. WantedOf(Held(data), controls) = {}
                BY DEF WantedOf, Held
            <4>2. data.total = 0
                BY <2>4, <4>1, FS_EmptySet
            <4>3. controls.page * PerPage \in Nat
                BY <1>1, PagesBefore
            <4> QED
                BY <2>2, <4>2, <4>3
        <3>2. Held(data) = fleet
            BY <2>3, <2>5, <3>1 DEF AnswerOk, Held
        <3>3. WantedOf(fleet, q) = WantedOf(fleet, controls)
            BY <2>1, SameFilters
        <3>4. q.page - 1 = controls.page
            BY <1>1, <2>1
        <3> QED
            BY <2>2, <2>4, <3>2, <3>3, <3>4 DEF InRange
    <2> QED
        BY <2>1, <2>2, <2>5, TurnKeeps
<1>4. CASE PreviousPage
    <2> DEFINE q == [controls EXCEPT !.page = controls.page - 1]
    <2>1. /\ q \in Controls /\ q.page = controls.page - 1 /\ q.search = controls.search
          /\ q.kind = controls.kind /\ q.reachability = controls.reachability
        BY <1>1, <1>4 DEF Controls, PreviousPage
    <2>2. Turn(q)
        BY <1>1, <1>4 DEF PreviousPage, SetPage
    <2> HIDE DEF q
    <2>3. ASSUME changes = 0, q.page # 1
          PROVE  InRange(q)
        <3>1. q.page \in Nat \ {0} /\ controls.page # 1 /\ controls.page - 1 = q.page
            BY <1>1, <2>1 DEF Controls
        <3>2. (controls.page - 1) * PerPage < Cardinality(WantedOf(fleet, controls))
            BY <2>3, <3>1 DEF ConsoleInv, InRange
        <3>3. /\ (q.page - 1) * PerPage \in Nat
              /\ q.page * PerPage = (q.page - 1) * PerPage + PerPage
            BY <1>1, <3>1, PagesBefore
        <3>4. WantedOf(fleet, q) = WantedOf(fleet, controls)
            BY <2>1, SameFilters
        <3>5. IsFiniteSet(WantedOf(fleet, controls))
            <4>1. fleet \in Seq(RawRow)
                BY ConsoleAssumption DEF ConsoleInv, TypeOK
            <4>2. DOMAIN fleet = 1..Len(fleet) /\ Len(fleet) \in Int /\ 1 \in Int
                BY <4>1
            <4>3. IsFiniteSet(DOMAIN fleet)
                BY <4>2, FS_Interval
            <4>4. WantedOf(fleet, controls) \in SUBSET (DOMAIN fleet)
                BY DEF WantedOf
            <4> QED
                BY <4>3, <4>4, FS_Subset
        <3>6. Cardinality(WantedOf(fleet, controls)) \in Nat
            BY <3>5, FS_CardinalityType
        <3>7. (q.page - 1) * PerPage < Cardinality(WantedOf(fleet, q))
            BY <1>1, <3>1, <3>2, <3>3, <3>4, <3>6
        <3> QED
            BY <3>7 DEF InRange
    <2>4. changes = 0 => InRange(q)
        BY <2>3 DEF InRange
    <2> QED
        BY <2>1, <2>2, <2>4, TurnKeeps
<1> QED
    BY <1>3, <1>4

LEMMA FleetChangesKeeps ==
    ASSUME ConsoleInv, FleetChanges
    PROVE  ConsoleInv'
<1>1. changes' # 0 /\ changes' \in Nat /\ fleet' \in Fleets /\ UNCHANGED <<view, controls, hook>>
    BY DEF FleetChanges, ConsoleInv, TypeOK
<1>2. UNCHANGED <<status, data, fetches, shownFor>>
    BY <1>1 DEF hook
<1>3. TypeOK'
    BY <1>1, <1>2 DEF ConsoleInv, TypeOK
<1>4. Sound \subseteq Sound'
    BY <1>1 DEF Sound, AnswerOk, Throws, Benign
<1>5. fetches' \in Seq(Sound')
    BY <1>2, <1>4, WiderSequence DEF ConsoleInv
<1>6. AnswerOk(controls, data) => AnswerOk(controls, data)'
    BY <1>1, <1>2 DEF AnswerOk, Throws, Benign
<1> QED
    BY <1>1, <1>2, <1>3, <1>5, <1>6 DEF ConsoleInv, Showing

LEMMA ConsoleStep == ConsoleInv /\ [Next]_vars => ConsoleInv'
<1> SUFFICES ASSUME ConsoleInv, [Next]_vars PROVE ConsoleInv'
    OBVIOUS
<1>1. controls \in Controls
    BY DEF ConsoleInv, TypeOK
<1>2. CASE UNCHANGED vars
    BY <1>2, ScreenStays DEF vars, hook, ConsoleInv
<1>3. CASE \E i \in DOMAIN fetches : Serve(i) \/ AlarmGone(i) \/ Deliver(i)
    BY <1>3, ServeKeeps, DeliverKeeps
<1>4. CASE Retry
    BY <1>1, <1>4, SortKeeps DEF Retry
<1>5. CASE \E source \in {"eventlog", "syslog"} : SetSource(source)
    <2>1. PICK source \in {"eventlog", "syslog"} : SetSource(source)
        BY <1>5
    <2> DEFINE q == [controls EXCEPT !.source = source]
    <2>2. /\ q \in Controls /\ q.page = controls.page /\ q.search = controls.search
          /\ q.kind = controls.kind /\ q.reachability = controls.reachability
        BY <1>1 DEF Controls
    <2>3. Turn(q)
        BY <2>1 DEF SetSource
    <2> HIDE DEF q
    <2> QED
        BY <2>2, <2>3, SortKeeps
<1> QED
    BY <1>2, <1>3, <1>4, <1>5, UseFiltersKeeps, ToggleSortKeeps, PagesKeep, FleetChangesKeeps DEF Next

\* The invariant of the console: every answer in flight or on the screen is
\* made of what LibreNMS sent for the controls it was asked with.
THEOREM ConsoleInvariance == Spec => []ConsoleInv
BY ConsoleInit, ConsoleStep, PTL DEF Spec

\* client.ts:99-108: the inventory shows the page, the order and the filters
\* of its present controls.
THEOREM RowsAnswer == Spec => []RowsAnswerControls
<1>1. ConsoleInv => RowsAnswerControls
    BY DEF ConsoleInv, RowsAnswerControls, AnswerOk
<1> QED
    BY <1>1, ConsoleInvariance, PTL

\* client.ts:283-288: a screen without rows was answered with none, unless the
\* fleet shrank below the page shown.
THEOREM EmptyAnswered == Spec => []EmptyIsAnswered
<1>1. ASSUME ConsoleInv, status = "empty"
      PROVE  /\ data.reply \in {"rows", "bare"} \/ (view = "interfaces" /\ data.reply = "noPorts")
             /\ data.reply = "rows" => \/ data.seen = <<>>
                                       \/ view = "inventory" /\ (data.total = 0 \/ changes > 0)
    <2>1. AnswerOk(controls, data) /\ data.rows = <<>> /\ changes \in Nat /\ controls \in Controls
        BY <1>1 DEF ConsoleInv, Showing, TypeOK
    <2>2. data.reply \in {"rows", "bare"} \/ (view = "interfaces" /\ data.reply = "noPorts")
        BY <2>1 DEF AnswerOk, Throws, Benign
    <2>3. ASSUME data.reply = "rows", view # "inventory"
          PROVE  data.seen = <<>>
        BY <2>1, <2>3 DEF AnswerOk, Held
    <2>4. ASSUME data.reply = "rows", view = "inventory", changes = 0
          PROVE  data.total = 0
        <3> DEFINE W == WantedOf(fleet, controls)
                   R == Order(fleet, controls)
                   first == (controls.page - 1) * PerPage
                   T == {i \in W : 1 + Cardinality({j \in W : Precedes(fleet, j, i, controls)})
                                      \in (first + 1)..(first + PerPage)}
        <3>1. Held(data) = fleet /\ Windowed(controls, data)
            BY <2>1, <2>4 DEF AnswerOk, Held
        <3>2. data.total = Cardinality(W) /\ 0 = Cardinality(T)
            BY <2>1, <3>1 DEF Windowed
        <3>3. fleet \in Seq(RawRow)
            BY <1>1, ConsoleAssumption DEF ConsoleInv, TypeOK
        <3>4. IsFiniteSet(W) /\ StrictOrder(W, R) /\ W \in SUBSET (DOMAIN fleet)
            <4>1. DOMAIN fleet = 1..Len(fleet) /\ Len(fleet) \in Int /\ 1 \in Int
                BY <3>3
            <4>2. IsFiniteSet(DOMAIN fleet)
                BY <4>1, FS_Interval
            <4>3. W \in SUBSET (DOMAIN fleet)
                BY DEF WantedOf
            <4> QED
                BY <2>1, <3>3, <4>2, <4>3, FS_Subset, OrderStrict
        <3>5. controls.page = 1 \/ first < Cardinality(W)
            BY <1>1, <2>4 DEF ConsoleInv, InRange
        <3>6. controls.page \in Nat \ {0} /\ PerPage \in Nat \ {0} /\ first \in Nat
            <4>1. controls.page \in Nat \ {0} /\ PerPage \in Nat \ {0}
                BY <2>1, ConsoleAssumption DEF Controls
            <4> QED
                BY <4>1, PagesBefore
        <3>7. controls.page = 1 => first = 0
            BY <3>6
        <3> HIDE DEF first
        <3>8. Cardinality(W) \in Nat
            BY <3>4, FS_CardinalityType
        <3> SUFFICES ASSUME Cardinality(W) # 0 PROVE FALSE
            BY <3>2
        <3>9. first + 1 \in 1..Cardinality(W) /\ first + 1 \in (first + 1)..(first + PerPage)
            BY <3>5, <3>6, <3>7, <3>8
        <3> HIDE DEF W, R
        <3>10. PICK i \in W : Rank(W, R, i) = first + 1
            <4>1. [i \in W |-> Rank(W, R, i)] \in Bijection(W, 1..Cardinality(W))
                BY <3>4, RankBijection
            <4> QED
                BY <3>9, <4>1 DEF Bijection, Surjection
        <3>11. {j \in W : Precedes(fleet, j, i, controls)} = Ahead(W, R, i)
            BY <3>4, InOrder DEF Ahead, R
        <3>12. i \in T
            BY <3>9, <3>10, <3>11 DEF Rank
        <3>13. IsFiniteSet(T)
            <4>1. T \in SUBSET W
                OBVIOUS
            <4> QED
                BY <3>4, <4>1, FS_Subset
        <3> HIDE DEF T
        <3> QED
            BY <3>2, <3>12, <3>13, FS_EmptySet
    <2> QED
        BY <2>1, <2>2, <2>3, <2>4
<1>2. ConsoleInv => EmptyIsAnswered
    BY <1>1 DEF EmptyIsAnswered
<1> QED
    BY <1>2, ConsoleInvariance, PTL

\* mappers.ts:4-6: no number is shown that LibreNMS did not report.
THEOREM NumbersReported == Spec => []NumbersWereReported
<1>1. ASSUME ConsoleInv, status = "success", NEW n \in DOMAIN data.rows,
             data.rows[n].number.status = "available"
      PROVE  \E i \in DOMAIN data.seen :
                LET raw == data.seen[i]
                IN  /\ raw.id = data.rows[n].id
                    /\ \/ raw.number.form \in {"number", "numeral"}
                          /\ data.rows[n].number.value = raw.number.value
                       \/ raw.number.form = "emptyText" /\ data.rows[n].number.value = 0
    <2>1. AnswerOk(controls, data)
        BY <1>1 DEF ConsoleInv, Showing
    <2>2. PICK i \in DOMAIN data.seen : data.rows[n] \in MadeOf(data.seen[i])
        BY <2>1 DEF AnswerOk
    <2> DEFINE raw == data.seen[i]
               row == data.rows[n]
    <2>3. row.number \in {ToNumberMetric(raw.number), Unavailable} /\ row.id = raw.id
        BY <2>2 DEF MadeOf, ToDevice, ToInterface, ToAlertLogEntry, ToEventLogEntry, OptionalNumber
    <2>4. row.number = ToNumberMetric(raw.number)
        BY <1>1, <2>3 DEF Unavailable
    <2> HIDE DEF row, raw
    <2>5. \/ raw.number.form \in {"number", "numeral"} /\ row.number.value = raw.number.value
          \/ raw.number.form = "emptyText" /\ row.number.value = 0
        BY <1>1, <2>4 DEF ToNumberMetric, Available, Unavailable, row
    <2> QED
        BY <2>3, <2>5 DEF raw, row
<1>2. ConsoleInv => NumbersWereReported
    BY <1>1 DEF NumbersWereReported
<1> QED
    BY <1>2, ConsoleInvariance, PTL

-------------------------------------------------------------------------------
(* What a loading view waits for                                           *)

Live(fs) == {i \in DOMAIN fs : fs[i].live}

\* A view listens to one request while it is loading and to none otherwise.
OneAwaited ==
    IF status = "loading" THEN \E k \in DOMAIN fetches : Live(fetches) = {k}
    ELSE Live(fetches) = {}

\* A request that is added after the cleanup of the others is the one awaited.
LEMMA AddedAwaited ==
    ASSUME ConsoleInv, NEW new, new.live, fetches' = Append(Cancelled(fetches), new),
           status' = "loading"
    PROVE  OneAwaited'
<1> DEFINE cut == Cancelled(fetches)
<1>1. PICK n \in Nat : DOMAIN fetches = 1..n
    BY RequestsTyped
<1>2. cut = [i \in 1..n |-> [fetches[i] EXCEPT !.live = FALSE]]
    BY <1>1 DEF Cancelled
<1>3. ASSUME NEW i \in 1..n PROVE ~cut[i].live
    <2>1. fetches[i] \in Request
        BY <1>1, RequestsTyped
    <2>2. cut[i] = [fetches[i] EXCEPT !.live = FALSE]
        BY <1>2
    <2> HIDE DEF cut
    <2> QED
        BY <2>1, <2>2 DEF Request
<1> DEFINE T == {[fetches[i] EXCEPT !.live = FALSE] : i \in 1..n}
<1>4. cut \in [1..n -> T] /\ fetches' = Append(cut, new)
    BY <1>2
<1> HIDE DEF cut, T
<1>5. /\ DOMAIN fetches' = 1..(n + 1) /\ fetches'[n + 1] = new
      /\ \A i \in 1..n : fetches'[i] = cut[i]
    <2>1. cut \in Seq(T) /\ Len(cut) = n
        BY <1>1, <1>4
    <2>2. cut \in Seq(T \cup {new}) /\ new \in T \cup {new}
        BY <2>1, <1>4
    <2>3. /\ fetches' \in Seq(T \cup {new}) /\ Len(fetches') = n + 1 /\ fetches'[n + 1] = new
          /\ \A i \in 1..n : fetches'[i] = cut[i]
        BY <1>4, <2>1, <2>2, AppendProperties
    <2> QED
        BY <2>3
<1>6. \A i \in DOMAIN fetches' : fetches'[i].live <=> i = n + 1
    BY <1>1, <1>3, <1>5
<1>7. n + 1 \in DOMAIN fetches'
    BY <1>1, <1>5
<1>8. Live(fetches') = {n + 1}
    BY <1>6, <1>7 DEF Live
<1> QED
    BY <1>7, <1>8 DEF OneAwaited

\* The list without its i-th entry.
LEMMA RemovedAt ==
    ASSUME NEW S, NEW s \in Seq(S), NEW i \in DOMAIN s
    PROVE  /\ DOMAIN RemoveAt(s, i) = 1..(Len(s) - 1)
           /\ \A j \in 1..(Len(s) - 1) : RemoveAt(s, i)[j] = s[IF j < i THEN j ELSE j + 1]
<1> DEFINE a == SubSeq(s, 1, i - 1)
           b == SubSeq(s, i + 1, Len(s))
<1>1. Len(s) \in Nat /\ i \in 1..Len(s) /\ DOMAIN s = 1..Len(s)
    OBVIOUS
<1>2. /\ a \in Seq(S) /\ Len(a) = i - 1 /\ \A j \in 1..(i - 1) : a[j] = s[j]
      /\ b \in Seq(S) /\ Len(b) = Len(s) - i
      /\ \A j \in 1..(Len(s) - i) : b[j] = s[i + j]
    BY <1>1
<1>3. RemoveAt(s, i) = a \o b
    BY DEF RemoveAt
<1> HIDE DEF a, b
<1>4. /\ DOMAIN (a \o b) = 1..(Len(s) - 1)
      /\ \A j \in 1..(Len(s) - 1) : (a \o b)[j] = IF j < i THEN a[j] ELSE b[j - (i - 1)]
    <2>1. /\ Len(a \o b) = Len(a) + Len(b) /\ a \o b \in Seq(S)
          /\ \A j \in 1..(Len(a) + Len(b)) :
                (a \o b)[j] = IF j <= Len(a) THEN a[j] ELSE b[j - Len(a)]
        BY <1>2, ConcatProperties
    <2>2. Len(a) + Len(b) = Len(s) - 1
        BY <1>1, <1>2
    <2>3. DOMAIN (a \o b) = 1..Len(a \o b)
        BY <2>1
    <2>4. DOMAIN (a \o b) = 1..(Len(s) - 1)
        BY <2>1, <2>2, <2>3
    <2>5. \A j \in 1..(Len(s) - 1) : j <= Len(a) <=> j < i
        BY <1>1, <1>2
    <2> QED
        BY <1>2, <2>1, <2>2, <2>4, <2>5
<1>5. ASSUME NEW j \in 1..(Len(s) - 1)
      PROVE  (a \o b)[j] = s[IF j < i THEN j ELSE j + 1]
    <2>1. CASE j < i
        <3>1. j \in 1..(i - 1)
            BY <1>1, <2>1
        <3> QED
            BY <1>2, <1>4, <2>1, <3>1
    <2>2. CASE ~(j < i)
        <3>1. j - (i - 1) \in 1..(Len(s) - i) /\ i + (j - (i - 1)) = j + 1
            BY <1>1, <2>2
        <3> QED
            BY <1>2, <1>4, <2>2, <3>1
    <2> QED
        BY <2>1, <2>2
<1> QED
    BY <1>3, <1>4, <1>5

LEMMA RemovedAwaited ==
    ASSUME ConsoleInv, OneAwaited, NEW i \in DOMAIN fetches, fetches' = RemoveAt(fetches, i),
           IF fetches[i].live THEN status' # "loading" ELSE status' = status
    PROVE  OneAwaited'
<1>1. Len(fetches) \in Nat /\ DOMAIN fetches = 1..Len(fetches)
    BY RequestsTyped
<1>2. /\ DOMAIN fetches' = 1..(Len(fetches) - 1)
      /\ \A j \in 1..(Len(fetches) - 1) : fetches'[j] = fetches[IF j < i THEN j ELSE j + 1]
    BY RemovedAt, RequestsTyped
<1>3. CASE Live(fetches) = {}
    <2>1. \A j \in DOMAIN fetches' : ~fetches'[j].live
        <3>1. \A j \in 1..(Len(fetches) - 1) : (IF j < i THEN j ELSE j + 1) \in DOMAIN fetches
            BY <1>1
        <3> QED
            BY <1>2, <1>3, <3>1 DEF Live
    <2>2. status # "loading" /\ ~fetches[i].live
        BY <1>3 DEF OneAwaited, Live
    <2> QED
        BY <2>1, <2>2 DEF OneAwaited, Live
<1>4. ASSUME NEW k \in DOMAIN fetches, Live(fetches) = {k}
      PROVE  OneAwaited'
    <2>1. \A j \in DOMAIN fetches : fetches[j].live <=> j = k
        BY <1>4 DEF Live
    <2>2. CASE k = i
        <3>1. \A j \in 1..(Len(fetches) - 1) :
                (IF j < i THEN j ELSE j + 1) \in DOMAIN fetches \ {k}
            BY <1>1, <2>2
        <3>2. \A j \in DOMAIN fetches' : ~fetches'[j].live
            BY <1>2, <2>1, <3>1
        <3> QED
            BY <2>1, <2>2, <3>2 DEF OneAwaited, Live
    <2>3. CASE k # i
        <3> DEFINE n == IF k < i THEN k ELSE k - 1
        <3>1. n \in 1..(Len(fetches) - 1)
            BY <1>1, <2>3
        <3>2. \A j \in 1..(Len(fetches) - 1) :
                /\ (IF j < i THEN j ELSE j + 1) \in DOMAIN fetches
                /\ (IF j < i THEN j ELSE j + 1) = k <=> j = n
            BY <1>1, <2>3
        <3>3. \A j \in DOMAIN fetches' : fetches'[j].live <=> j = n
            BY <1>2, <2>1, <3>2
        <3> HIDE DEF n
        <3>4. Live(fetches') = {n} /\ n \in DOMAIN fetches'
            BY <1>2, <3>1, <3>3 DEF Live
        <3>5. status = "loading" /\ status' = status
            BY <1>4, <2>1, <2>3 DEF OneAwaited
        <3> QED
            BY <3>4, <3>5 DEF OneAwaited
    <2> QED
        BY <2>2, <2>3
<1> QED
    BY <1>3, <1>4 DEF OneAwaited

\* The BFF having answered leaves the request as awaited as it was.
LEMMA ReplacedAwaited ==
    ASSUME OneAwaited, NEW i \in DOMAIN fetches, NEW new, fetches' = [fetches EXCEPT ![i] = new],
           new.live = fetches[i].live, status' = status
    PROVE  OneAwaited'
<1>1. DOMAIN fetches' = DOMAIN fetches /\ \A j \in DOMAIN fetches : fetches'[j].live = fetches[j].live
    OBVIOUS
<1>2. Live(fetches') = Live(fetches)
    BY <1>1 DEF Live
<1> QED
    BY <1>1, <1>2 DEF OneAwaited

LEMMA AwaitedStays ==
    ASSUME OneAwaited, UNCHANGED <<status, fetches>>
    PROVE  OneAwaited'
BY DEF OneAwaited, Live

LEMMA TurnAwaited ==
    ASSUME ConsoleInv, NEW q, Turn(q)
    PROVE  OneAwaited'
<1>1. Waiting(q).live = TRUE
    BY DEF Waiting
<1>2. status' = "loading" /\ fetches' = Append(Cancelled(fetches), Waiting(q))
    BY DEF Turn, Refetch
<1> QED
    BY <1>1, <1>2, AddedAwaited

LEMMA AwaitedNext == ConsoleInv /\ OneAwaited /\ [Next]_vars => OneAwaited'
<1> SUFFICES ASSUME ConsoleInv, OneAwaited, [Next]_vars PROVE OneAwaited'
    OBVIOUS
<1>1. ASSUME NEW i \in DOMAIN fetches, Serve(i) \/ AlarmGone(i) PROVE OneAwaited'
    <2>1. fetches[i] \in Request
        BY RequestsTyped
    <2>2. CASE AlarmGone(i)
        <3> DEFINE new == [fetches[i] EXCEPT !.served = TRUE]
        <3>1. fetches' = [fetches EXCEPT ![i] = new] /\ status' = status
            BY <2>2 DEF AlarmGone
        <3>2. new.live = fetches[i].live
            BY <2>1 DEF Request
        <3> HIDE DEF new
        <3> QED
            BY <3>1, <3>2, ReplacedAwaited
    <2>3. ASSUME NEW reply,
                 fetches' = [fetches EXCEPT ![i].served = TRUE,
                                            ![i].answer = AnswerTo(reply, fetches[i].controls)],
                 status' = status
          PROVE  OneAwaited'
        <3> DEFINE answer == AnswerTo(reply, fetches[i].controls)
                   new == [fetches[i] EXCEPT !.served = TRUE, !.answer = answer]
        <3>1. fetches' = [fetches EXCEPT ![i] = new]
            BY <2>3
        <3> HIDE DEF answer
        <3>2. new.live = fetches[i].live
            BY <2>1 DEF Request
        <3> HIDE DEF new
        <3> QED
            BY <2>3, <3>1, <3>2, ReplacedAwaited
    <2> QED
        BY <1>1, <2>2, <2>3 DEF Serve
<1>2. ASSUME NEW i \in DOMAIN fetches, Deliver(i) PROVE OneAwaited'
    <2>1. fetches' = RemoveAt(fetches, i)
        BY <1>2 DEF Deliver
    <2>2. IF fetches[i].live THEN status' # "loading" ELSE status' = status
        BY <1>2 DEF Deliver
    <2> QED
        BY <2>1, <2>2, RemovedAwaited
<1>3. CASE Retry
    BY <1>3, TurnAwaited DEF Retry
<1>4. CASE UseFilters
    BY <1>4, TurnAwaited DEF UseFilters, SetFilter
<1>5. CASE NextPage \/ PreviousPage
    BY <1>5, TurnAwaited DEF NextPage, PreviousPage, SetPage
<1>6. ASSUME NEW column \in Columns, ToggleSort(column) PROVE OneAwaited'
    BY <1>6, TurnAwaited DEF ToggleSort
<1>7. ASSUME NEW source \in {"eventlog", "syslog"}, SetSource(source) PROVE OneAwaited'
    BY <1>7, TurnAwaited DEF SetSource
<1>8. CASE FleetChanges
    BY <1>8, AwaitedStays DEF FleetChanges, hook
<1>9. CASE UNCHANGED vars
    BY <1>9, AwaitedStays DEF vars, hook
<1> QED
    BY <1>1, <1>2, <1>3, <1>4, <1>5, <1>6, <1>7, <1>8, <1>9 DEF Next

\* useBffQuery.ts:35-55: of the requests that filters, sorting, paging and tabs
\* have started, a loading view listens to the last and no other view to any.
THEOREM LoadingAwaitsOne == Spec => []OneAwaited
<1>1. Init => OneAwaited
    <2> SUFFICES ASSUME Init PROVE OneAwaited
        OBVIOUS
    <2>1. fetches = <<Waiting(Defaults)>> /\ status = "loading"
        BY DEF Init
    <2>2. DOMAIN fetches = {1} /\ fetches[1].live = TRUE
        BY <2>1 DEF Waiting
    <2>3. Live(fetches) = {1}
        BY <2>2 DEF Live
    <2> QED
        BY <2>1, <2>2, <2>3 DEF OneAwaited
<1> QED
    BY <1>1, ConsoleInit, ConsoleStep, AwaitedNext, PTL DEF Spec

-------------------------------------------------------------------------------
(* The simulator                                                           *)

\* What a call of the control plane promises besides the invariant.
Named == \A id \in Ids : devices'[id] # devices[id] => last'.device = id /\ last'.status = 200

\* Calls and the record of the last one are well typed after every call.
LEMMA CallTyped ==
    ASSUME SimTypeOK, NEW id \in Nat, NEW code \in {200, 201, 404, 500},
           Call, Done(id, code)
    PROVE  calls' \in Nat /\ last' \in [device : Nat, status : {200, 201, 404, 500}]
BY DEF SimTypeOK, Call, Done

\* A call that makes one device D, and the values last set on it F, keeps the
\* invariant if it keeps it for that device and withholds no OID of another.
LEMMA OneChanges ==
    ASSUME SimInv, NEW id \in Ids, NEW D \in Device, NEW F \in [Oids -> Kept],
           devices' = [devices EXCEPT ![id] = D],
           latest' = [latest EXCEPT ![id] = F],
           Call, Done(id, 200), hidden' \subseteq Ids \X Oids,
           \A oid \in Oids : /\ <<id, oid>> \in hidden' <=> D.withheld[oid] # "no"
                             /\ D.values[oid] = F[oid]
                             /\ F[oid] # NoValue,
           \A other \in Ids \ {id}, oid \in Oids :
               <<other, oid>> \in hidden' <=> <<other, oid>> \in hidden
    PROVE  SimInv' /\ Named
<1> USE DEF Ids
<1>1. devices \in Seq(Device) /\ latest \in Seq([Oids -> Kept]) /\ Len(latest) = Len(devices)
    BY DEF SimInv, SimTypeOK
<1>2. /\ devices' \in Seq(Device) /\ latest' \in Seq([Oids -> Kept])
      /\ Len(devices') = Len(devices) /\ Len(latest') = Len(latest)
    BY <1>1
<1>3. /\ devices'[id] = D /\ latest'[id] = F
      /\ \A n \in Ids \ {id} : devices'[n] = devices[n] /\ latest'[n] = latest[n]
    BY <1>1
<1>4. calls' \in Nat /\ last' \in [device : Nat, status : {200, 201, 404, 500}]
    <2>1. id \in Nat
        BY <1>1
    <2> QED
        BY <2>1, CallTyped DEF SimInv
<1>5. hidden' \subseteq Ids' \X Oids /\ Ids' = Ids
    BY <1>2
<1>6. ASSUME NEW n \in Ids, NEW oid \in Oids
      PROVE  StoreInv(n, oid)'
    <2>1. CASE n = id
        BY <1>3, <2>1 DEF StoreInv
    <2>2. CASE n # id
        <3>1. StoreInv(n, oid)
            BY DEF SimInv
        <3> QED
            BY <1>3, <2>2, <3>1 DEF StoreInv
    <2> QED
        BY <2>1, <2>2
<1>7. hidden' \subseteq (Nat \X Oids)
    BY <1>1
<1>8. Named
    BY <1>3 DEF Done, Named
<1> QED
    BY <1>1, <1>2, <1>4, <1>5, <1>6, <1>7, <1>8 DEF SimInv, SimTypeOK

\* The store of a device, as the invariant has it.
LEMMA StoreTyped ==
    ASSUME SimInv, NEW id \in Ids
    PROVE  /\ devices[id] \in Device /\ latest[id] \in [Oids -> Kept]
           /\ id \in 1..Len(latest)
           /\ devices[id].values = latest[id]
           /\ \A oid \in Oids : StoreInv(id, oid)
<1>1. devices \in Seq(Device) /\ latest \in Seq([Oids -> Kept]) /\ Len(latest) = Len(devices)
    BY DEF SimInv, SimTypeOK
<1>2. devices[id] \in Device /\ latest[id] \in [Oids -> Kept] /\ id \in 1..Len(latest)
    BY <1>1 DEF Ids
<1>3. \A oid \in Oids : StoreInv(id, oid)
    BY DEF SimInv
<1>4. devices[id].values = latest[id]
    <2>1. devices[id].values \in [Oids -> Kept]
        BY <1>2 DEF Device
    <2>2. \A oid \in Oids : devices[id].values[oid] = latest[id][oid]
        BY <1>3 DEF StoreInv
    <2> QED
        BY <1>2, <2>1, <2>2
<1> QED
    BY <1>2, <1>3, <1>4

LEMMA RefusedKeeps ==
    ASSUME SimInv, NEW code \in {404, 500}, Refused(code)
    PROVE  SimInv' /\ Named
<1>1. calls' \in Nat /\ last' \in [device : Nat, status : {200, 201, 404, 500}]
    BY CallTyped DEF SimInv, Refused
<1>2. Ids' = Ids /\ Named
    BY DEF Refused, Ids, Named
<1>3. devices' = devices /\ latest' = latest /\ hidden' = hidden
    BY DEF Refused
<1>4. ASSUME NEW id \in Ids, NEW oid \in Oids
      PROVE  StoreInv(id, oid)'
    <2>1. StoreInv(id, oid)
        BY DEF SimInv
    <2> QED
        BY <1>3, <2>1 DEF StoreInv
<1> QED
    BY <1>1, <1>2, <1>3, <1>4 DEF SimInv, SimTypeOK

\* api.ts:64-83: the new devices come after those there are, with nothing
\* withheld and every interface up.
LEMMA CreateDevicesKeeps ==
    ASSUME SimInv, NEW profile \in Profiles, NEW count \in 1..MaxDevices,
           CreateDevices(profile, count)
    PROVE  SimInv' /\ Named
<1> DEFINE New == [profile |-> profile, values |-> BuildOidStore(profile),
                   withheld |-> [oid \in Oids |-> "no"], reachable |-> TRUE, silent |-> FALSE]
<1>1. devices \in Seq(Device) /\ latest \in Seq([Oids -> Kept]) /\ Len(latest) = Len(devices)
    BY DEF SimInv, SimTypeOK
<1>2. BuildOidStore(profile) \in [Oids -> Kept] /\ New \in Device
    BY DEF BuildOidStore, Kept, Values, Device
<1>3. count \in Nat
    BY SimulatorAssumption
<1> DEFINE Made == [n \in 1..count |-> New]
           Stored == [n \in 1..count |-> BuildOidStore(profile)]
<1>4. Made \in Seq(Device) /\ Stored \in Seq([Oids -> Kept]) /\ Len(Made) = count /\ Len(Stored) = count
    BY <1>2, <1>3
<1>5. devices' = devices \o Made /\ latest' = latest \o Stored
    BY DEF CreateDevices
<1>6. \A n \in 1..count : Made[n] = New /\ Stored[n] = BuildOidStore(profile)
    OBVIOUS
<1> HIDE DEF New, Made, Stored
<1>7. /\ devices' \in Seq(Device) /\ latest' \in Seq([Oids -> Kept])
      /\ Len(devices') = Len(devices) + count /\ Len(latest') = Len(devices')
    <2>1. devices' \in Seq(Device) /\ Len(devices') = Len(devices) + count
        <3>1. devices \o Made \in Seq(Device) /\ Len(devices \o Made) = Len(devices) + Len(Made)
            BY <1>1, <1>4, ConcatProperties, Zenon
        <3> QED
            BY <1>4, <1>5, <3>1
    <2>2. latest' \in Seq([Oids -> Kept]) /\ Len(latest') = Len(latest) + count
        <3>1. latest \o Stored \in Seq([Oids -> Kept]) /\ Len(latest \o Stored) = Len(latest) + Len(Stored)
            BY <1>1, <1>4, ConcatProperties, Zenon
        <3> QED
            BY <1>4, <1>5, <3>1
    <2> QED
        BY <1>1, <2>1, <2>2
<1>8. \A n \in Ids : devices'[n] = devices[n] /\ latest'[n] = latest[n] /\ n \in Ids'
    BY <1>1, <1>3, <1>4, <1>5, <1>7 DEF Ids
<1>9. \A n \in Ids' \ Ids : devices'[n] = New /\ latest'[n] = BuildOidStore(profile)
    <2> SUFFICES ASSUME NEW n \in Ids' \ Ids
                 PROVE  devices'[n] = New /\ latest'[n] = BuildOidStore(profile)
        OBVIOUS
    <2>1. n - Len(devices) \in 1..count /\ n > Len(devices) /\ n <= Len(devices) + count /\ n \in Nat
        BY <1>1, <1>3, <1>7 DEF Ids
    <2>2. devices'[n] = Made[n - Len(devices)]
        BY <1>1, <1>3, <1>4, <1>5, <2>1
    <2>3. latest'[n] = Stored[n - Len(latest)]
        <3>1. /\ n - Len(latest) \in 1..Len(Stored) /\ n > Len(latest)
              /\ n <= Len(latest) + Len(Stored) /\ n \in Nat /\ latest' = latest \o Stored
              /\ latest \in Seq([Oids -> Kept]) /\ Stored \in Seq([Oids -> Kept])
            BY <1>1, <1>3, <1>4, <1>5, <2>1
        <3> QED
            BY <3>1
    <2> QED
        BY <1>1, <1>6, <2>1, <2>2, <2>3
<1>10. hidden' = hidden /\ hidden \subseteq Ids \X Oids /\ Ids \subseteq Ids'
    BY <1>8 DEF CreateDevices, SimInv
<1>11. ASSUME NEW n \in Ids', NEW oid \in Oids
       PROVE  StoreInv(n, oid)'
    <2>1. CASE n \in Ids
        <3>1. StoreInv(n, oid)
            BY <2>1 DEF SimInv
        <3> QED
            BY <1>8, <1>10, <2>1, <3>1 DEF StoreInv
    <2>2. CASE n \notin Ids
        <3>1. New.withheld[oid] = "no" /\ New.values = BuildOidStore(profile)
            BY DEF New
        <3>2. BuildOidStore(profile)[oid] = 1 /\ 1 # NoValue
            BY DEF BuildOidStore, NoValue
        <3> QED
            BY <1>9, <1>10, <2>2, <3>1, <3>2 DEF StoreInv
    <2> QED
        BY <2>1, <2>2
<1>12. calls' \in Nat /\ last' \in [device : Nat, status : {200, 201, 404, 500}]
    BY CallTyped DEF SimInv, CreateDevices
<1>13. hidden' \subseteq Nat \X Oids
    BY <1>10 DEF SimInv, SimTypeOK
<1> QED
    BY <1>7, <1>8, <1>10, <1>11, <1>12, <1>13 DEF SimInv, SimTypeOK, Named

LEMMA SetOidKeeps ==
    ASSUME SimInv, NEW id \in Ids, NEW oid \in Oids, NEW value \in Numbers \cup {Undefined},
           SetOid(id, oid, value)
    PROVE  SimInv' /\ Named
<1> DEFINE D == [devices[id] EXCEPT !.values[oid] = value]
           F == [latest[id] EXCEPT ![oid] = value]
<1>1. value \in Kept /\ value # NoValue
    BY SimulatorAssumption DEF Kept, Values, NoValue, Undefined
<1>2. D \in Device /\ F \in [Oids -> Kept] /\ D.withheld = devices[id].withheld /\ D.values = F
    BY <1>1, StoreTyped DEF Device
<1>3. devices' = [devices EXCEPT ![id] = D] /\ latest' = [latest EXCEPT ![id] = F]
    BY DEF SetOid, StoreSet
<1>4. \A o \in Oids : F[o] # NoValue
    BY <1>1, StoreTyped DEF StoreInv
<1> HIDE DEF D, F
<1>5. \A o \in Oids : <<id, o>> \in hidden' <=> D.withheld[o] # "no"
    BY <1>2, StoreTyped DEF StoreInv, SetOid
<1>6. \A o \in Oids : /\ <<id, o>> \in hidden' <=> D.withheld[o] # "no"
                      /\ D.values[o] = F[o] /\ F[o] # NoValue
    BY <1>2, <1>4, <1>5
<1>7. hidden' = hidden /\ hidden' \subseteq Ids \X Oids /\ Call /\ Done(id, 200)
    BY DEF SetOid, SimInv
<1> QED
    BY <1>2, <1>3, <1>6, <1>7, OneChanges

\* api.ts:93-109: both statuses are set, whatever they were.
LEMMA FlapKeeps ==
    ASSUME SimInv, NEW id \in Ids, NEW transitions \in 1..2, Flap(id, transitions)
    PROVE  SimInv' /\ Named
<1> DEFINE oper == IF transitions % 2 = 1 THEN 2 ELSE 1
           D == [devices[id] EXCEPT !.values["ifAdminStatus"] = 1, !.values["ifOperStatus"] = oper]
           F == [latest[id] EXCEPT !["ifAdminStatus"] = 1, !["ifOperStatus"] = oper]
<1>1. oper \in Kept /\ oper # NoValue /\ 1 \in Kept /\ 1 # NoValue
    BY DEF Kept, Values, NoValue
<1>3. devices' = [devices EXCEPT ![id] = D] /\ latest' = [latest EXCEPT ![id] = F]
    BY StoreTyped DEF Flap
<1> HIDE DEF oper
<1>2. D \in Device /\ F \in [Oids -> Kept] /\ D.withheld = devices[id].withheld /\ D.values = F
    BY <1>1, StoreTyped DEF Device
<1>4. \A o \in Oids : F[o] # NoValue
    BY <1>1, StoreTyped DEF StoreInv
<1> HIDE DEF D, F
<1>5. \A o \in Oids : <<id, o>> \in hidden' <=> D.withheld[o] # "no"
    BY <1>2, StoreTyped DEF StoreInv, Flap
<1>6. \A o \in Oids : /\ <<id, o>> \in hidden' <=> D.withheld[o] # "no"
                      /\ D.values[o] = F[o] /\ F[o] # NoValue
    BY <1>2, <1>4, <1>5
<1>7. hidden' = hidden /\ hidden' \subseteq Ids \X Oids /\ Call /\ Done(id, 200)
    BY DEF Flap, SimInv
<1> QED
    BY <1>2, <1>3, <1>6, <1>7, OneChanges

\* oidStore.ts:68-70: withholding and restoring leave the value alone.
LEMMA WithholdKeeps ==
    ASSUME SimInv, NEW id \in Ids, NEW oid \in Oids, NEW mode \in AnyMode, Withhold(id, oid, mode)
    PROVE  SimInv' /\ Named
<1> DEFINE D == [devices[id] EXCEPT !.withheld[oid] = mode]
<1>1. mode # "no" /\ mode \in AnyMode \cup {"no"}
    BY DEF AnyMode, Modes
<1>2. /\ D \in Device /\ D.values = devices[id].values
      /\ D.withheld = [devices[id].withheld EXCEPT ![oid] = mode]
    BY <1>1, StoreTyped DEF Device
<1>3. devices' = [devices EXCEPT ![id] = D] /\ latest' = [latest EXCEPT ![id] = latest[id]]
    BY DEF Withhold, SimInv, SimTypeOK
<1> HIDE DEF D
<1>4. hidden' = hidden \cup {<<id, oid>>} /\ hidden \subseteq Ids \X Oids
    BY DEF Withhold, SimInv
<1>5. \A o \in Oids : <<id, o>> \in hidden' <=> D.withheld[o] # "no"
    <2>1. devices[id].withheld \in [Oids -> AnyMode \cup {"no"}]
        BY StoreTyped DEF Device
    <2> QED
        BY <1>1, <1>2, <1>4, <2>1, StoreTyped DEF StoreInv
<1>6. \A o \in Oids : /\ <<id, o>> \in hidden' <=> D.withheld[o] # "no"
                      /\ D.values[o] = latest[id][o] /\ latest[id][o] # NoValue
    BY <1>2, <1>5, StoreTyped DEF StoreInv
<1>7. /\ hidden' \subseteq Ids \X Oids /\ Call /\ Done(id, 200)
      /\ \A other \in Ids \ {id}, o \in Oids : <<other, o>> \in hidden' <=> <<other, o>> \in hidden
    BY <1>4 DEF Withhold
<1>8. latest[id] \in [Oids -> Kept]
    BY StoreTyped
<1> QED
    BY <1>2, <1>3, <1>6, <1>7, <1>8, OneChanges

LEMMA RestoreKeeps ==
    ASSUME SimInv, NEW id \in Ids, NEW oid \in Oids, Restore(id, oid)
    PROVE  SimInv' /\ Named
<1> DEFINE D == [devices[id] EXCEPT !.withheld[oid] = "no"]
<1>2. /\ D \in Device /\ D.values = devices[id].values
      /\ D.withheld = [devices[id].withheld EXCEPT ![oid] = "no"]
    BY StoreTyped DEF Device
<1>3. devices' = [devices EXCEPT ![id] = D] /\ latest' = [latest EXCEPT ![id] = latest[id]]
    BY DEF Restore, SimInv, SimTypeOK
<1> HIDE DEF D
<1>4. hidden' = hidden \ {<<id, oid>>} /\ hidden \subseteq Ids \X Oids
    BY DEF Restore, SimInv
<1>5. \A o \in Oids : <<id, o>> \in hidden' <=> D.withheld[o] # "no"
    <2>1. devices[id].withheld \in [Oids -> AnyMode \cup {"no"}]
        BY StoreTyped DEF Device
    <2> QED
        BY <1>2, <1>4, <2>1, StoreTyped DEF StoreInv
<1>6. \A o \in Oids : /\ <<id, o>> \in hidden' <=> D.withheld[o] # "no"
                      /\ D.values[o] = latest[id][o] /\ latest[id][o] # NoValue
    BY <1>2, <1>5, StoreTyped DEF StoreInv
<1>7. /\ hidden' \subseteq Ids \X Oids /\ Call /\ Done(id, 200)
      /\ \A other \in Ids \ {id}, o \in Oids : <<other, o>> \in hidden' <=> <<other, o>> \in hidden
    BY <1>4 DEF Restore
<1>8. latest[id] \in [Oids -> Kept]
    BY StoreTyped
<1> QED
    BY <1>2, <1>3, <1>6, <1>7, <1>8, OneChanges

LEMMA SwitchKeeps ==
    ASSUME SimInv, NEW id \in Ids, NEW on \in BOOLEAN,
           SetReachability(id, on) \/ SetTr069Tolerant(id, on)
    PROVE  SimInv' /\ Named
<1>1. PICK D \in Device : /\ devices' = [devices EXCEPT ![id] = D]
                          /\ D.values = devices[id].values
                          /\ D.withheld = devices[id].withheld
    <2>1. CASE SetReachability(id, on)
        <3> DEFINE D == [devices[id] EXCEPT !.reachable = on]
        <3>1. D \in Device /\ D.values = devices[id].values /\ D.withheld = devices[id].withheld
            BY StoreTyped DEF Device
        <3> QED
            BY <2>1, <3>1 DEF SetReachability
    <2>2. CASE SetTr069Tolerant(id, on)
        <3> DEFINE D == [devices[id] EXCEPT !.silent = on]
        <3>1. D \in Device /\ D.values = devices[id].values /\ D.withheld = devices[id].withheld
            BY StoreTyped DEF Device
        <3> QED
            BY <2>2, <3>1 DEF SetTr069Tolerant
    <2> QED
        BY <2>1, <2>2
<1>2. /\ hidden' = hidden /\ hidden \subseteq Ids \X Oids /\ Call /\ Done(id, 200)
      /\ latest' = [latest EXCEPT ![id] = latest[id]]
    BY DEF SetReachability, SetTr069Tolerant, SimInv, SimTypeOK
<1>3. \A o \in Oids : /\ <<id, o>> \in hidden' <=> D.withheld[o] # "no"
                      /\ D.values[o] = latest[id][o] /\ latest[id][o] # NoValue
    BY <1>1, <1>2, StoreTyped DEF StoreInv
<1>4. hidden' \subseteq Ids \X Oids /\ latest[id] \in [Oids -> Kept]
    BY <1>2, StoreTyped
<1> QED
    BY <1>1, <1>2, <1>3, <1>4, OneChanges

\* The invariant holds of every behaviour, and every step is a call of one
\* device, of new ones, or of none.
LEMMA SimStep ==
    ASSUME SimInv, [SimNext]_simVars
    PROVE  SimInv' /\ (UNCHANGED simVars \/ Named)
<1>1. CASE UNCHANGED simVars
    <2>1. SimTypeOK' /\ Ids' = Ids /\ hidden' = hidden
        BY <1>1 DEF simVars, SimInv, SimTypeOK, Ids
    <2>2. ASSUME NEW id \in Ids, NEW oid \in Oids
          PROVE  StoreInv(id, oid)'
        <3>1. StoreInv(id, oid)
            BY DEF SimInv
        <3> QED
            BY <1>1, <3>1 DEF StoreInv, simVars
    <2> QED
        BY <1>1, <2>1, <2>2 DEF SimInv
<1>2. CASE SimNext
    BY <1>2, RefusedKeeps, CreateDevicesKeeps, SetOidKeeps, FlapKeeps, WithholdKeeps, RestoreKeeps,
       SwitchKeeps DEF SimNext
<1> QED
    BY <1>1, <1>2

THEOREM SimInvariance == SimSpec => []SimInv
<1>1. SimInit => SimInv
    BY DEF SimInit, SimInv, SimTypeOK, Ids
<1>2. SimInv /\ [SimNext]_simVars => SimInv'
    BY SimStep
<1> QED
    BY <1>1, <1>2, PTL DEF SimSpec

\* oidStore.ts:4-10: a withheld OID is in no walk and no recording, and a GET
\* has a value of it only in a mode the store does not know.
THEOREM Withheld == SimSpec => []WithheldStaysAbsent
<1>1. ASSUME SimInv
      PROVE  WithheldStaysAbsent
    <2> SUFFICES ASSUME NEW id \in Ids, NEW oid \in Oids, <<id, oid>> \in hidden
                 PROVE  /\ \A entry \in Walk(devices[id]) \cup Snmprec(devices[id]) : entry[1] # oid
                        /\ Get(devices[id], oid).kind = "value" => devices[id].withheld[oid] = "unknown"
        BY DEF WithheldStaysAbsent
    <2>1. devices[id].withheld[oid] # "no" /\ devices[id].withheld[oid] \in AnyMode \cup {"no"}
        BY <1>1, StoreTyped DEF StoreInv, Device
    <2>2. \A entry \in Walk(devices[id]) : entry[1] # oid
        BY <2>1 DEF Walk
    <2>3. Get(devices[id], oid).kind = "value" => devices[id].withheld[oid] = "unknown"
        BY <2>1 DEF Get, AnyMode, Modes, Answer
    <2> QED
        BY <2>2, <2>3 DEF Snmprec
<1> QED
    BY <1>1, SimInvariance, PTL

\* oidStore.ts:68-70: what is not withheld reads as it was set last.
THEOREM Restored == SimSpec => []RestoredReadsLatest
<1>1. ASSUME SimInv
      PROVE  RestoredReadsLatest
    <2> SUFFICES ASSUME NEW id \in Ids, NEW oid \in Oids, <<id, oid>> \notin hidden
                 PROVE  /\ <<oid, latest[id][oid]>> \in Walk(devices[id])
                        /\ Get(devices[id], oid) =
                              IF latest[id][oid] = Undefined THEN Answer("absent", NoValue)
                              ELSE Answer("value", latest[id][oid])
        BY DEF RestoredReadsLatest
    <2>1. /\ devices[id].withheld[oid] = "no" /\ devices[id].values[oid] = latest[id][oid]
          /\ latest[id][oid] # NoValue
        BY <1>1, StoreTyped DEF StoreInv
    <2>2. "no" \notin Modes
        BY DEF Modes
    <2> QED
        BY <2>1, <2>2 DEF Walk, Get
<1> QED
    BY <1>1, SimInvariance, PTL

\* api.ts:57-61: a call changes the device it names and no other.
THEOREM OnlyNamed == SimSpec => OnlyTheNamedChanges
<1>1. ASSUME SimInv, [SimNext]_simVars
      PROVE  [\A id \in Ids : devices'[id] # devices[id] =>
                  last'.device = id /\ last'.status = 200]_simVars
    BY <1>1, SimStep DEF Named
<1> QED
    BY <1>1, SimInvariance, PTL DEF SimSpec, OnlyTheNamedChanges
===============================================================================
