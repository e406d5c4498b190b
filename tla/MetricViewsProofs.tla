------------------------- MODULE MetricViewsProofs --------------------------
(***************************************************************************)
(* Proofs about MetricViews: whatever is on the screen was collected, an   *)
(* empty chart was answered with nothing, and both are of the window the   *)
(* user chose, for any number of devices, values, points and effect runs.  *)
(***************************************************************************)
EXTENDS MetricViews, SequenceTheorems, FiniteSetTheorems, WellFoundedInduction, TLAPS

(* Natural numbers                                                         *)

\* Less-than on the natural numbers, as a set of pairs.
Below == {p \in Nat \X Nat : p[1] < p[2]}

\* Every nonempty set of natural numbers has a least element.
LEMMA LeastNatural ==
    ASSUME NEW S \in SUBSET Nat, S # {}
    PROVE  \E n \in S : \A m \in S : n <= m
<1>1. IsWellFoundedOn(Below, Nat)
    BY NatLessThanWellFounded DEF OpToRel, Below
<1>2. PICK n \in S : \A m \in S : <<m, n>> \notin Below
    BY <1>1, WFMin
<1>3. ASSUME NEW m \in S PROVE n <= m
    <2>1. ~(m < n)
        BY <1>2 DEF Below
    <2> QED
        BY <2>1
<1> QED
    BY <1>3

\* Induction up to a bound, over the set of the numbers for which a fact holds.
LEMMA InductionUpTo ==
    ASSUME NEW N \in Nat, NEW G, 0 \in G, \A n \in 1..N : n - 1 \in G => n \in G
    PROVE  0..N \subseteq G
<1> DEFINE Bad == (0..N) \ G
<1> SUFFICES ASSUME Bad # {} PROVE FALSE
    OBVIOUS
<1>1. PICK n \in Bad : \A m \in Bad : n <= m
    <2>1. Bad \in SUBSET Nat
        OBVIOUS
    <2> HIDE DEF Bad
    <2> QED
        BY <2>1, LeastNatural
<1>2. n \in 1..N /\ n - 1 \in 0..N /\ ~(n <= n - 1)
    OBVIOUS
<1>3. n - 1 \in G
    BY <1>1, <1>2
<1> QED
    BY <1>2, <1>3

-------------------------------------------------------------------------------
(* The percentile of a series                                              *)

\* One of the first n values of a nonempty series is the greatest of them.
LEMMA GreatestValue ==
    ASSUME NEW values \in Seq(Nat), values # <<>>
    PROVE  \E m \in DOMAIN values : \A i \in DOMAIN values : values[i] <= values[m]
<1> DEFINE Has(n) == \E m \in 1..n : \A i \in 1..n : values[i] <= values[m]
           G == {n \in 0..Len(values) : n = 0 \/ Has(n)}
<1>1. Len(values) \in Nat \ {0} /\ DOMAIN values = 1..Len(values)
    OBVIOUS
<1>2. \A i \in 1..Len(values) : values[i] \in Nat
    OBVIOUS
<1>3. ASSUME NEW n \in 1..Len(values), n - 1 \in G PROVE n \in G
    <2>1. n - 1 = 0 \/ Has(n - 1)
        BY <1>3
    <2> HIDE DEF G
    <2>2. n \in Nat \ {0} /\ n <= Len(values) /\ n \in 1..n
        BY <1>1
    <2>3. \A i \in 1..n : i \in 1..Len(values)
        BY <1>1, <2>2
    <2>4. \A i \in 1..n : i = n \/ i \in 1..(n - 1)
        BY <2>2
    <2>5. \A i \in 1..n : values[i] \in Nat
        BY <1>2, <2>3
    <2>6. ASSUME n - 1 = 0 PROVE Has(n)
        BY <2>2, <2>4, <2>5, <2>6
    <2>7. ASSUME Has(n - 1) PROVE Has(n)
        <3>1. PICK m \in 1..(n - 1) : \A i \in 1..(n - 1) : values[i] <= values[m]
            BY <2>7
        <3>2. m \in 1..n
            BY <2>2
        <3>3. values[n] <= values[m] \/ values[m] <= values[n]
            BY <2>2, <2>5, <3>2
        <3>4. CASE values[n] <= values[m]
            BY <2>4, <3>1, <3>2, <3>4
        <3>5. CASE values[m] <= values[n]
            <4>1. \A i \in 1..n : values[i] <= values[n]
                BY <2>2, <2>4, <2>5, <3>1, <3>2, <3>5
            <4> QED
                BY <2>2, <4>1
        <3> QED
            BY <3>3, <3>4, <3>5
    <2>8. Has(n)
        BY <2>1, <2>6, <2>7
    <2>9. n \in 0..Len(values)
        BY <1>1, <2>2
    <2> QED
        BY <2>8, <2>9 DEF G
<1>4. 0 \in G
    BY <1>1
<1>5. 0..Len(values) \subseteq G
    <2> HIDE DEF G
    <2>1. Len(values) \in Nat
        BY <1>1
    <2>2. \A n \in 1..Len(values) : n - 1 \in G => n \in G
        BY <1>3
    <2> QED
        BY <2>1, <2>2, <1>4, InductionUpTo
<1>6. Len(values) \in G
    <2>1. Len(values) \in 0..Len(values)
        BY <1>1
    <2> QED
        BY <1>5, <2>1, Zenon
<1>7. Has(Len(values))
    BY <1>1, <1>6
<1> QED
    BY <1>1, <1>7, Zenon

\* stats.ts:17-23: the percentile of a series is one of its values.
LEMMA PercentileIsAmong ==
    ASSUME NEW values \in Seq(Nat), values # <<>>
    PROVE  Percentile(values, 95) \in Range(values)
<1> DEFINE rank == (95 * Len(values) + 99) \div 100
           Below95(v) == Cardinality({i \in DOMAIN values : values[i] <= v}) >= rank
           S == {v \in Range(values) : Below95(v)}
<1>1. Len(values) \in Nat \ {0} /\ DOMAIN values = 1..Len(values)
    OBVIOUS
<1>2. Range(values) \subseteq Nat
    BY DEF Range
<1>3. PICK m \in DOMAIN values : \A i \in DOMAIN values : values[i] <= values[m]
    BY GreatestValue
<1>4. {i \in DOMAIN values : values[i] <= values[m]} = 1..Len(values)
    <2>1. {i \in DOMAIN values : values[i] <= values[m]} = DOMAIN values
        BY <1>3, Zenon
    <2> QED
        BY <1>1, <2>1
<1>5. Cardinality(1..Len(values)) = Len(values)
    <2>1. Len(values) \in Int /\ 1 \in Int
        BY <1>1
    <2>2. Cardinality(1..Len(values)) =
            IF 1 > Len(values) THEN 0 ELSE Len(values) - 1 + 1
        BY <2>1, FS_Interval, Zenon
    <2> QED
        BY <1>1, <2>2
<1>6. rank <= Len(values)
    BY <1>1
<1>7. values[m] \in S
    <2>1. Below95(values[m])
        BY <1>1, <1>4, <1>5, <1>6, Zenon
    <2>2. values[m] \in Range(values)
        BY DEF Range
    <2> QED
        BY <2>1, <2>2
<1>8. PICK v \in S : \A u \in S : v <= u
    <2>1. S \in SUBSET Nat /\ S # {}
        BY <1>2, <1>7
    <2> HIDE DEF S
    <2> QED
        BY <2>1, LeastNatural
<1>9. v \in Range(values) /\ Below95(v) /\ \A u \in Range(values) : Below95(u) => v <= u
    BY <1>8
<1>10. Percentile(values, 95) =
         CHOOSE w \in Range(values) :
             Below95(w) /\ \A u \in Range(values) : Below95(u) => w <= u
    BY DEF Percentile
<1> HIDE DEF Below95
<1> QED
    BY <1>9, <1>10

-------------------------------------------------------------------------------
(* Ranks: where the members of a finite set come in a strict order of it.    *)

StrictOrder(W, R) ==
    \A i, j \in W :
        /\ <<i, i>> \notin R
        /\ i # j => <<i, j>> \in R \/ <<j, i>> \in R
        /\ \A k \in W : <<i, j>> \in R /\ <<j, k>> \in R => <<i, k>> \in R

Ahead(W, R, i) == {j \in W : <<j, i>> \in R}
Rank(W, R, i) == 1 + Cardinality(Ahead(W, R, i))

LEMMA RankInRange ==
    ASSUME NEW W, IsFiniteSet(W), NEW R, StrictOrder(W, R), NEW i \in W
    PROVE  Rank(W, R, i) \in 1..Cardinality(W)
<1>1. Ahead(W, R, i) \in SUBSET (W \ {i}) /\ IsFiniteSet(W \ {i})
    BY FS_RemoveElement DEF Ahead, StrictOrder
<1>2. Cardinality(W \ {i}) = Cardinality(W) - 1 /\ Cardinality(W) \in Nat
    BY FS_RemoveElement, FS_CardinalityType
<1>3. /\ Cardinality(Ahead(W, R, i)) <= Cardinality(W \ {i})
      /\ IsFiniteSet(Ahead(W, R, i))
    BY <1>1, FS_Subset
<1>4. Cardinality(Ahead(W, R, i)) \in Nat
    BY <1>3, FS_CardinalityType
<1> QED
    BY <1>2, <1>3, <1>4 DEF Rank

\* The rank follows the order.
LEMMA RankFollows ==
    ASSUME NEW W, IsFiniteSet(W), NEW R, StrictOrder(W, R), NEW i \in W, NEW j \in W, <<i, j>> \in R
    PROVE  Rank(W, R, i) < Rank(W, R, j)
<1>1. Ahead(W, R, i) \cup {i} \in SUBSET Ahead(W, R, j) /\ i \notin Ahead(W, R, i)
    BY DEF Ahead, StrictOrder
<1>2. /\ Ahead(W, R, i) \in SUBSET W /\ Ahead(W, R, j) \in SUBSET W
    BY DEF Ahead
<1>3. IsFiniteSet(Ahead(W, R, i)) /\ IsFiniteSet(Ahead(W, R, j))
    BY <1>2, FS_Subset
<1>4. Cardinality(Ahead(W, R, i) \cup {i}) = Cardinality(Ahead(W, R, i)) + 1
    BY <1>1, <1>3, FS_AddElement
<1>5. Cardinality(Ahead(W, R, i) \cup {i}) <= Cardinality(Ahead(W, R, j))
    BY <1>1, <1>3, FS_Subset
<1>6. Cardinality(Ahead(W, R, i)) \in Nat /\ Cardinality(Ahead(W, R, j)) \in Nat
    BY <1>3, FS_CardinalityType
<1> QED
    BY <1>4, <1>5, <1>6 DEF Rank

\* Every place up to the number of members is the rank of one member.
LEMMA RankBijection ==
    ASSUME NEW W, IsFiniteSet(W), NEW R, StrictOrder(W, R)
    PROVE  [i \in W |-> Rank(W, R, i)] \in Bijection(W, 1..Cardinality(W))
<1> DEFINE f == [i \in W |-> Rank(W, R, i)]
           T == 1..Cardinality(W)
<1>1. f \in [W -> T]
    BY RankInRange
<1>2. ASSUME NEW i \in W, NEW j \in W, f[i] = f[j]
      PROVE  i = j
    <2> SUFFICES ASSUME i # j PROVE FALSE
        OBVIOUS
    <2>1. Rank(W, R, i) \in Int /\ Rank(W, R, j) \in Int /\ Rank(W, R, i) = Rank(W, R, j)
        BY <1>2, RankInRange
    <2>2. <<i, j>> \in R \/ <<j, i>> \in R
        BY DEF StrictOrder
    <2>3. Rank(W, R, i) < Rank(W, R, j) \/ Rank(W, R, j) < Rank(W, R, i)
        BY <2>2, RankFollows
    <2> QED
        BY <2>1, <2>3
<1> HIDE DEF f
<1>3. f \in Injection(W, T)
    BY <1>1, <1>2 DEF Injection, IsInjective
<1>4. Cardinality(W) \in Nat
    BY FS_CardinalityType
<1>5. IsFiniteSet(T) /\ Cardinality(T) = Cardinality(W)
    <2>1. Cardinality(W) \in Int /\ 1 \in Int
        BY <1>4
    <2>2. IsFiniteSet(1..Cardinality(W)) /\ Cardinality(1..Cardinality(W)) = IF 1 > Cardinality(W) THEN 0 ELSE Cardinality(W) - 1 + 1
        BY <2>1, FS_Interval, Zenon
    <2> QED
        BY <1>4, <2>2
<1> HIDE DEF T
<1>6. f \in Surjection(W, T)
    BY <1>3, <1>5, FS_Injection
<1> QED
    BY <1>3, <1>6 DEF Bijection, f, T

\* As many members have their rank in a set of places as it has places.
LEMMA RanksAmong ==
    ASSUME NEW W, IsFiniteSet(W), NEW R, StrictOrder(W, R),
           NEW K \in SUBSET (1..Cardinality(W))
    PROVE  Cardinality({i \in W : Rank(W, R, i) \in K}) = Cardinality(K)
<1> DEFINE f == [i \in W |-> Rank(W, R, i)]
           V == {i \in W : Rank(W, R, i) \in K}
           g == [i \in V |-> Rank(W, R, i)]
<1>1. f \in Bijection(W, 1..Cardinality(W))
    BY RankBijection
<1>2. /\ \A i, j \in W : Rank(W, R, i) = Rank(W, R, j) => i = j
      /\ \A k \in 1..Cardinality(W) : \E i \in W : Rank(W, R, i) = k
    BY <1>1 DEF Bijection, Injection, Surjection, IsInjective
<1>3. g \in Bijection(V, K)
    <2>1. g \in [V -> K] /\ \A i \in V : g[i] = Rank(W, R, i)
        OBVIOUS
    <2>2. \A i, j \in V : g[i] = g[j] => i = j
        BY <1>2
    <2>3. \A k \in K : \E i \in V : g[i] = k
        BY <1>2
    <2> HIDE DEF g, V
    <2> QED
        BY <2>1, <2>2, <2>3 DEF Bijection, Injection, Surjection, IsInjective
<1>4. V \in SUBSET W
    OBVIOUS
<1>5. IsFiniteSet(V)
    BY <1>4, FS_Subset
<1> HIDE DEF V, g
<1>6. ExistsBijection(V, K)
    BY <1>3 DEF ExistsBijection
<1>7. Cardinality(V) = Cardinality(K)
    BY <1>5, <1>6, FS_Bijection
<1> QED
    BY <1>7 DEF V

\* Greatest value first, and of equal ones the one whose turn is first.
LEMMA LexicographicOrder ==
    ASSUME NEW W, NEW v \in [W -> Nat], NEW t \in [W -> Nat],
           \A i, j \in W : t[i] = t[j] => i = j
    PROVE  StrictOrder(W, {p \in W \X W : \/ v[p[1]] > v[p[2]]
                                          \/ v[p[1]] = v[p[2]] /\ t[p[1]] < t[p[2]]})
<1> DEFINE R == {p \in W \X W : v[p[1]] > v[p[2]] \/ (v[p[1]] = v[p[2]] /\ t[p[1]] < t[p[2]])}
<1>1. \A i, j \in W : <<i, j>> \in R <=> (v[i] > v[j] \/ (v[i] = v[j] /\ t[i] < t[j]))
    OBVIOUS
<1>2. \A i \in W : v[i] \in Nat /\ t[i] \in Nat
    OBVIOUS
<1> HIDE DEF R
<1>3. \A i \in W : <<i, i>> \notin R
    BY <1>1, <1>2
<1>4. \A i, j \in W : i # j => <<i, j>> \in R \/ <<j, i>> \in R
    BY <1>1, <1>2
<1>5. ASSUME NEW i \in W, NEW j \in W, NEW k \in W, <<i, j>> \in R, <<j, k>> \in R
      PROVE  <<i, k>> \in R
    <2>1. /\ v[i] > v[j] \/ (v[i] = v[j] /\ t[i] < t[j])
          /\ v[j] > v[k] \/ (v[j] = v[k] /\ t[j] < t[k])
        BY <1>1, <1>5
    <2>2. v[i] > v[k] \/ (v[i] = v[k] /\ t[i] < t[k])
        BY <1>2, <2>1
    <2> QED
        BY <1>1, <2>2
<1>6. StrictOrder(W, R)
    <2> SUFFICES ASSUME NEW i \in W, NEW j \in W
                 PROVE  /\ <<i, i>> \notin R
                        /\ i # j => <<i, j>> \in R \/ <<j, i>> \in R
                        /\ \A k \in W : <<i, j>> \in R /\ <<j, k>> \in R => <<i, k>> \in R
        BY DEF StrictOrder
    <2> QED
        BY <1>3, <1>4, <1>5
<1> QED
    BY <1>6 DEF R

-------------------------------------------------------------------------------
(* The effect runs                                                         *)

\* A run taken off the list leaves the others as they were.
LEMMA RemoveAtKeeps ==
    ASSUME NEW S, NEW s \in Seq(S), NEW i \in DOMAIN s
    PROVE  RemoveAt(s, i) \in Seq(S)
BY SubSeqProperties, ConcatProperties DEF RemoveAt

\* The answers an effect run may hold, and the runs there may be.
Partial == UNION {[asked -> Answer] : asked \in SUBSET Query}

Run == [window : Windows, waiting : SUBSET Query, got : Partial, live : BOOLEAN]

Good == {f \in Run : RunOk(f)}

\* The invariant the three properties are proved from, with the runs as a sequence.
StateTyped ==
    /\ store \in {"up", "down"}
    /\ points \in [Query -> [Windows -> Seq(Values)]]
    /\ up \subseteq Devices /\ view \in Views /\ window \in Windows
    /\ screen \in [state : {"loading", "error", "empty", "ready"}, window : Windows,
                   rows : SUBSET Row]
    /\ measured \in [Query -> SUBSET Values]

IInv ==
    /\ StateTyped /\ PointsMeasured /\ flights \in Seq(Good)
    /\ ShownWasMeasured /\ AbsenceWasAnswered /\ ShowsTheWindow

\* ShownWasMeasured, of one row.
RowMeasured(row) ==
    /\ row.values # {}
    /\ \A value \in row.values :
         \E m \in Metrics : (m = row.metric \/ view = "heatmap")
                            /\ value \in measured[[device |-> row.device, metric |-> m]]
    /\ view = "heatmap" =>
         \A m \in Metrics : measured[[device |-> row.device, metric |-> m]] # {}

\* What the answers of a run that is complete satisfy.
Complete(got) ==
    /\ got \in Partial
    /\ \A q \in DOMAIN got : AnswerOk(q, got[q])
    /\ view = "heatmap" => \E devices \in SUBSET Devices : DOMAIN got = HeatmapAsks(devices)

LEMMA PartialForm ==
    ASSUME NEW got \in Partial
    PROVE  DOMAIN got \subseteq Query /\ \A q \in DOMAIN got : got[q] \in Answer
BY DEF Partial

\* One answer more.
LEMMA WithKeeps ==
    ASSUME NEW told \in Partial, NEW p \in Query, NEW reply \in Answer
    PROVE  /\ With(told, p, reply) \in Partial
           /\ DOMAIN With(told, p, reply) = DOMAIN told \cup {p}
           /\ With(told, p, reply)[p] = reply
           /\ \A r \in DOMAIN told \ {p} : With(told, p, reply)[r] = told[r]
<1> DEFINE asked == DOMAIN told \cup {p}
           g == With(told, p, reply)
<1>1. DOMAIN told \subseteq Query /\ \A r \in DOMAIN told : told[r] \in Answer
    BY PartialForm
<1>2. g = [r \in asked |-> IF r = p THEN reply ELSE told[r]]
    BY DEF With
<1>3. asked \in SUBSET Query /\ \A r \in asked : (IF r = p THEN reply ELSE told[r]) \in Answer
    BY <1>1
<1>4. g \in [asked -> Answer]
    BY <1>2, <1>3
<1> QED
    BY <1>2, <1>3, <1>4 DEF Partial

\* A series that is not empty has values, and they are of its kind.
LEMMA RangeOfSeries ==
    ASSUME NEW S, NEW s \in Seq(S)
    PROVE  Range(s) \subseteq S /\ (s # <<>> => Range(s) # {})
<1>1. DOMAIN s = 1..Len(s) /\ Len(s) \in Nat /\ (s # <<>> => Len(s) # 0)
    OBVIOUS
<1> QED
    BY <1>1 DEF Range

LEMMA WiderSeries ==
    ASSUME NEW S, NEW T, S \subseteq T, NEW s \in Seq(S)
    PROVE  s \in Seq(T)
<1>1. \A n \in 1..Len(s) : s[n] \in T
    OBVIOUS
<1>2. Len(s) \in Nat /\ s = [n \in 1..Len(s) |-> s[n]]
    OBVIOUS
<1> QED
    BY <1>1, <1>2

\* What a view asks are queries there are.
LEMMA AsksAreQueries ==
    ASSUME NEW v \in Views, NEW devices \in SUBSET Devices
    PROVE  Asked(v, devices) \in SUBSET Query
<1>1. OneDevice \in Devices
    BY ViewsAssumption DEF OneDevice
<1>2. /\ CellAsks \subseteq Query /\ HistoryAsks \subseteq Query /\ ChartAsks \subseteq Query
      /\ HeatmapAsks(devices) \subseteq Query /\ TrendAsks(devices) \subseteq Query
    BY <1>1 DEF CellAsks, HistoryAsks, ChartAsks, HeatmapAsks, TrendAsks, Query, Metrics
<1> QED
    BY <1>2 DEF Asked, Views

-------------------------------------------------------------------------------
(* The rows of a view                                                      *)

\* CpuMemoryHeatmap.tsx: a cell of the heatmap is of two readings, both measured.
LEMMA HeatmapRowsMeasured ==
    ASSUME StateTyped, view = "heatmap", NEW got, Complete(got), NEW row \in HeatmapRows(got)
    PROVE  row \in Row /\ RowMeasured(row)
<1> DEFINE key(d, m) == [device |-> d, metric |-> m]
           vals(d, m) == got[key(d, m)].values
<1>1. PICK devices \in SUBSET Devices : DOMAIN got = HeatmapAsks(devices)
    BY DEF Complete
<1>2. PICK p \in DOMAIN got :
        /\ HasRatio(vals(p.device, "first"), vals(p.device, "second"))
        /\ row = [device |-> p.device, metric |-> "first",
                  values |-> Range(vals(p.device, "first")) \cup Range(vals(p.device, "second"))]
    BY DEF HeatmapRows
<1> DEFINE d == p.device
           one == key(d, "first")
           two == key(d, "second")
<1>3. d \in devices /\ d \in Devices
    BY <1>1 DEF HeatmapAsks
<1>4. one \in DOMAIN got /\ two \in DOMAIN got
    BY <1>1, <1>3 DEF HeatmapAsks, Metrics
<1> HIDE DEF one, two
<1>5. /\ got[one].values \in Seq(Values) /\ got[two].values \in Seq(Values)
      /\ Range(got[one].values) \subseteq measured[one]
      /\ Range(got[two].values) \subseteq measured[two]
    BY <1>4, PartialForm DEF Complete, AnswerOk, Answer
<1>6. /\ vals(d, "first") = got[one].values /\ vals(d, "second") = got[two].values
    BY DEF one, two
<1>7. got[one].values # <<>> /\ got[two].values # <<>>
    BY <1>2, <1>6 DEF HasRatio
<1>8. /\ Range(got[one].values) \subseteq Values /\ Range(got[one].values) # {}
      /\ Range(got[two].values) \subseteq Values /\ Range(got[two].values) # {}
    BY <1>5, <1>7, RangeOfSeries
<1>9. /\ row.device = d /\ row.metric = "first"
      /\ row.values = Range(got[one].values) \cup Range(got[two].values)
      /\ row = [device |-> row.device, metric |-> row.metric, values |-> row.values]
    BY <1>2, <1>6
<1>10. row \in Row
    BY <1>3, <1>8, <1>9 DEF Row, Metrics
<1>11. \A m \in Metrics : [device |-> d, metric |-> m] \in {one, two}
    BY DEF Metrics, one, two
<1>12. RowMeasured(row)
    BY <1>5, <1>8, <1>9, <1>11 DEF RowMeasured, one, two, Metrics
<1> QED
    BY <1>10, <1>12

\* TopInterfaces.tsx, ThroughputChart.tsx and its like: a row is of the values a
\* query was answered with, or of one of them.
LEMMA QueryRowsMeasured ==
    ASSUME StateTyped, NEW got, Complete(got), NEW q \in WithValues(got),
           NEW values \in SUBSET Range(got[q].values), values # {}, view # "heatmap"
    PROVE  LET row == [device |-> q.device, metric |-> q.metric, values |-> values]
           IN  row \in Row /\ RowMeasured(row)
<1> DEFINE row == [device |-> q.device, metric |-> q.metric, values |-> values]
<1>1. q \in DOMAIN got /\ q \in Query /\ got[q] \in Answer
    BY PartialForm DEF WithValues, Complete
<1>2. /\ got[q].values \in Seq(Values) /\ Range(got[q].values) \subseteq measured[q]
    BY <1>1 DEF Complete, AnswerOk, Answer
<1>3. Range(got[q].values) \subseteq Values
    BY <1>2, RangeOfSeries
<1>4. q.device \in Devices /\ q.metric \in Metrics
      /\ q = [device |-> q.device, metric |-> q.metric]
    BY <1>1 DEF Query
<1>5. row \in Row
    BY <1>3, <1>4 DEF Row
<1>6. row.device = q.device /\ row.metric = q.metric /\ row.values = values
    OBVIOUS
<1> HIDE DEF row
<1>7. RowMeasured(row)
    BY <1>2, <1>4, <1>6 DEF RowMeasured
<1> QED
    BY <1>5, <1>7 DEF row

\* The entries that the cut keeps.
Placed(got) == {o \in Collected(got) : Cardinality(Above(Collected(got), o)) < TopN}

\* There are finitely many queries.
LEMMA QueriesFinite == IsFiniteSet(Query)
<1> DEFINE f == [q \in Query |-> <<q.device, q.metric>>]
<1>1. IsFiniteSet(Devices \X Metrics)
    <2>1. IsFiniteSet({"first"}) /\ IsFiniteSet({"first"} \cup {"second"})
        BY FS_Singleton, FS_AddElement
    <2>2. Metrics = {"first"} \cup {"second"}
        BY DEF Metrics
    <2> QED
        BY <2>1, <2>2, ViewsAssumption, FS_Product
<1>2. f \in Injection(Query, Devices \X Metrics)
    BY DEF Query, Injection, IsInjective
<1> HIDE DEF f
<1> QED
    BY <1>1, <1>2, FS_Injection

\* An entry is of a query with values; its percentile is a number reported for it.
LEMMA EntryForm ==
    ASSUME NEW got, Complete(got), NEW e \in Collected(got)
    PROVE  \E q \in WithValues(got) :
              /\ q \in Query /\ e.p95 \in Range(got[q].values) /\ e.p95 \in Nat
              /\ e = [device |-> q.device, metric |-> q.metric, p95 |-> e.p95]
              /\ e.device = q.device /\ e.metric = q.metric
              /\ e.p95 = Percentile(got[q].values, 95)
<1>1. PICK q \in WithValues(got) :
        e = [device |-> q.device, metric |-> q.metric, p95 |-> Percentile(got[q].values, 95)]
    BY DEF Collected
<1>2. q \in Query /\ got[q] \in Answer /\ got[q].values # <<>>
    BY PartialForm DEF WithValues, Complete
<1>3. got[q].values \in Seq(Nat)
    <2>1. got[q].values \in Seq(Values) /\ Values \subseteq Nat
        BY <1>2, ViewsAssumption DEF Answer
    <2> QED
        BY <2>1, WiderSeries
<1>4. /\ Percentile(got[q].values, 95) \in Range(got[q].values)
      /\ Range(got[q].values) \subseteq Nat
    BY <1>2, <1>3, PercentileIsAmong, RangeOfSeries
<1> QED
    BY <1>1, <1>2, <1>4

\* Each entry has a turn of its own.
LEMMA EntriesInTurn ==
    ASSUME NEW got, Complete(got)
    PROVE  /\ IsFiniteSet(Collected(got))
           /\ \A e \in Collected(got) : Turn(e) \in Nat
           /\ \A e, o \in Collected(got) : Turn(e) = Turn(o) => e = o
<1> DEFINE E == Collected(got)
           f == [e \in E |-> [device |-> e.device, metric |-> e.metric]]
<1>1. ASSUME NEW e \in E
      PROVE  /\ e.device \in Devices /\ e.metric \in Metrics /\ PlaceOf[e.device] \in Nat
             /\ [device |-> e.device, metric |-> e.metric] \in Query
    BY EntryForm, ViewsAssumption DEF Query
<1>2. ASSUME NEW e \in E, NEW o \in E, e.device = o.device, e.metric = o.metric
      PROVE  e = o
    <2>1. PICK q \in WithValues(got) :
            /\ q \in Query /\ e = [device |-> q.device, metric |-> q.metric, p95 |-> e.p95]
            /\ e.device = q.device /\ e.metric = q.metric /\ e.p95 = Percentile(got[q].values, 95)
        BY EntryForm
    <2>2. PICK p \in WithValues(got) :
            /\ p \in Query /\ o = [device |-> p.device, metric |-> p.metric, p95 |-> o.p95]
            /\ o.device = p.device /\ o.metric = p.metric /\ o.p95 = Percentile(got[p].values, 95)
        BY EntryForm
    <2>3. p = [device |-> p.device, metric |-> p.metric]
          /\ q = [device |-> q.device, metric |-> q.metric]
        BY <2>1, <2>2 DEF Query
    <2>4. p.device = q.device /\ p.metric = q.metric
        BY <1>2, <2>1, <2>2
    <2>5. p = q
        BY <2>3, <2>4
    <2> QED
        BY <2>1, <2>2, <2>5
<1> HIDE DEF E, f
<1> DEFINE side(e) == IF e.metric = "first" THEN 0 ELSE 1
<1>3. ASSUME NEW e \in E
      PROVE  /\ Turn(e) \in Nat /\ Turn(e) = 2 * PlaceOf[e.device] + side(e)
             /\ side(e) \in {0, 1} /\ (e.metric = "first" <=> side(e) = 0)
    <2>1. Turn(e) = 2 * PlaceOf[e.device] + side(e)
        BY DEF Turn
    <2>2. side(e) \in {0, 1} /\ (e.metric = "first" <=> side(e) = 0)
        OBVIOUS
    <2> HIDE DEF side
    <2>3. Turn(e) \in Nat
        <3> DEFINE place == PlaceOf[e.device]
        <3>1. place \in Nat
            BY <1>1
        <3> HIDE DEF place
        <3>2. 2 * place + side(e) \in Nat
            BY <2>2, <3>1
        <3> QED
            BY <2>1, <3>2 DEF place
    <2> QED
        BY <2>1, <2>2, <2>3
<1> HIDE DEF side
<1>4. ASSUME NEW e \in E, NEW o \in E, Turn(e) = Turn(o)
      PROVE  e = o
    <2>1. /\ PlaceOf[e.device] = PlaceOf[o.device]
          /\ e.metric = "first" <=> o.metric = "first"
        <3> DEFINE one == PlaceOf[e.device]
                   two == PlaceOf[o.device]
        <3>1. one \in Nat /\ two \in Nat
            BY <1>1
        <3>2. 2 * one + side(e) = 2 * two + side(o)
            BY <1>3, <1>4
        <3> HIDE DEF one, two
        <3>3. one = two /\ side(e) = side(o)
            BY <1>3, <3>1, <3>2
        <3> QED
            BY <1>3, <3>3 DEF one, two
    <2>2. e.device = o.device
        BY <1>1, <2>1, ViewsAssumption
    <2>3. e.metric = o.metric
        BY <1>1, <2>1 DEF Metrics
    <2> QED
        BY <1>2, <2>2, <2>3
<1>5. f \in Injection(E, Query)
    <2>1. f \in [E -> Query]
        BY <1>1 DEF f
    <2>2. \A e, o \in E : f[e] = f[o] => e = o
        <3>1. \A e, o \in E : f[e] = f[o] => e.device = o.device /\ e.metric = o.metric
            BY DEF f
        <3> QED
            BY <1>2, <3>1
    <2> QED
        BY <2>1, <2>2 DEF Injection, IsInjective
<1>6. IsFiniteSet(E)
    BY <1>5, QueriesFinite, FS_Injection
<1> QED
    BY <1>3, <1>4, <1>6 DEF E

\* TopInterfaces.tsx:53: the cut of the sorted entries leaves one out only of a
\* list of TopN rows.
LEMMA LeftOutOfFullList ==
    ASSUME NEW got, Complete(got), NEW e \in Collected(got), e \notin Placed(got)
    PROVE  Cardinality(TopRows(got)) = TopN
<1> DEFINE W == Collected(got)
           v == [o \in W |-> o.p95]
           t == [o \in W |-> Turn(o)]
           R == {p \in W \X W : v[p[1]] > v[p[2]] \/ (v[p[1]] = v[p[2]] /\ t[p[1]] < t[p[2]])}
           T == Placed(got)
<1>1. IsFiniteSet(W)
    BY EntriesInTurn
<1>2. v \in [W -> Nat]
    BY EntryForm
<1>3. t \in [W -> Nat] /\ \A i, j \in W : t[i] = t[j] => i = j
    BY EntriesInTurn
<1>4. StrictOrder(W, R)
    <2> HIDE DEF W, v, t
    <2> QED
        BY <1>2, <1>3, LexicographicOrder
<1>5. ASSUME NEW p \in W
      PROVE  Above(W, p) = Ahead(W, R, p)
    <2>1. \A r \in W : <<r, p>> \in R <=> (r.p95 > p.p95 \/ (r.p95 = p.p95 /\ Turn(r) < Turn(p)))
        OBVIOUS
    <2> HIDE DEF R, W
    <2> QED
        BY <2>1 DEF Above, Ahead
<1> HIDE DEF W, v, t, R
<1>6. TopN \in Nat \ {0} /\ Cardinality(W) \in Nat
    BY <1>1, FS_CardinalityType, ViewsAssumption
<1>7. ASSUME NEW p \in W
      PROVE  /\ Rank(W, R, p) \in 1..Cardinality(W)
             /\ p \in T <=> Rank(W, R, p) \in 1..TopN
    <2>1. Rank(W, R, p) \in 1..Cardinality(W)
        BY <1>1, <1>4, RankInRange
    <2>2. Rank(W, R, p) = 1 + Cardinality(Above(W, p))
        BY <1>5 DEF Rank
    <2>3. Cardinality(Above(W, p)) \in Nat
        <3>1. Above(W, p) \in SUBSET W
            BY DEF Above
        <3> QED
            BY <1>1, <3>1, FS_Subset, FS_CardinalityType
    <2>4. p \in T <=> Cardinality(Above(W, p)) < TopN
        BY DEF Placed, W
    <2> QED
        BY <1>6, <2>1, <2>2, <2>3, <2>4
<1>8. 1..TopN \in SUBSET (1..Cardinality(W))
    <2>1. e \in W /\ e \notin T
        BY DEF W
    <2> QED
        BY <1>6, <1>7, <2>1
<1>9. T \subseteq W /\ T = {p \in W : Rank(W, R, p) \in 1..TopN}
    <2>1. T \subseteq W
        BY DEF Placed, W
    <2> HIDE DEF T
    <2> QED
        BY <1>7, <2>1
<1> HIDE DEF T
<1>10. Cardinality(T) = TopN /\ IsFiniteSet(T)
    <2>1. Cardinality({p \in W : Rank(W, R, p) \in 1..TopN}) = Cardinality(1..TopN)
        <3> DEFINE K == 1..TopN
        <3>1. K \in SUBSET (1..Cardinality(W))
            BY <1>8
        <3> HIDE DEF K
        <3>2. Cardinality({p \in W : Rank(W, R, p) \in K}) = Cardinality(K)
            BY <1>1, <1>4, <3>1, RanksAmong
        <3> QED
            BY <3>2 DEF K
    <2>2. Cardinality(1..TopN) = TopN
        <3>1. TopN \in Int /\ 1 \in Int
            BY <1>6
        <3>2. Cardinality(1..TopN) = IF 1 > TopN THEN 0 ELSE TopN - 1 + 1
            BY <3>1, FS_Interval, Zenon
        <3> QED
            BY <1>6, <3>2
    <2> QED
        BY <1>1, <1>9, <2>1, <2>2, FS_Subset
<1> DEFINE row(o) == [device |-> o.device, metric |-> o.metric, values |-> {o.p95}]
           g == [o \in T |-> row(o)]
<1>11. TopRows(got) = {row(o) : o \in T}
    BY DEF TopRows, T, Placed
<1>12. ASSUME NEW i \in T, NEW j \in T, row(i) = row(j)
       PROVE  i = j
    <2>1. i.device = j.device /\ i.metric = j.metric
        BY <1>12
    <2>2. Turn(i) = Turn(j)
        BY <2>1 DEF Turn
    <2> QED
        BY <1>9, <2>2, EntriesInTurn DEF W
<1> HIDE DEF row
<1>13. g \in Bijection(T, TopRows(got))
    <2>1. g \in [T -> TopRows(got)] /\ \A i \in T : g[i] = row(i)
        BY <1>11
    <2>2. \A i, j \in T : g[i] = g[j] => i = j
        BY <1>12, <2>1
    <2>3. \A k \in TopRows(got) : \E i \in T : g[i] = k
        BY <1>11, <2>1
    <2> HIDE DEF g
    <2> QED
        BY <2>1, <2>2, <2>3 DEF Bijection, Injection, Surjection, IsInjective
<1> HIDE DEF g
<1>14. ExistsBijection(T, TopRows(got))
    BY <1>13 DEF ExistsBijection
<1> QED
    BY <1>10, <1>14, FS_Bijection

LEMMA RowsMeasured ==
    ASSUME StateTyped, NEW got, Complete(got), NEW row \in RowsOf(view, got)
    PROVE  row \in Row /\ RowMeasured(row)
<1>1. CASE view = "heatmap"
    BY <1>1, HeatmapRowsMeasured DEF RowsOf
<1>2. CASE view = "top"
    <2>1. PICK e \in Collected(got) :
            row = [device |-> e.device, metric |-> e.metric, values |-> {e.p95}]
        BY <1>2 DEF RowsOf, TopRows
    <2>2. PICK q \in WithValues(got) :
            e.p95 \in Range(got[q].values) /\ e.device = q.device /\ e.metric = q.metric
        BY EntryForm
    <2> QED
        BY <1>2, <2>1, <2>2, QueryRowsMeasured
<1>3. CASE view \notin {"heatmap", "top"}
    <2>1. PICK q \in WithValues(got) :
            row = [device |-> q.device, metric |-> q.metric, values |-> Range(got[q].values)]
        BY <1>3 DEF RowsOf, SeriesRows
    <2>2. got[q] \in Answer /\ got[q].values # <<>>
        BY PartialForm DEF WithValues, Complete
    <2>3. Range(got[q].values) # {}
        BY <2>2, RangeOfSeries DEF Answer
    <2> QED
        BY <1>3, <2>1, <2>3, QueryRowsMeasured
<1> QED
    BY <1>1, <1>2, <1>3

-------------------------------------------------------------------------------
(* The steps                                                               *)

\* The last answer of a run: a view it is not listened to by shows what it did.
LEMMA FinishKeeps ==
    ASSUME IInv, NEW i \in DOMAIN flights, NEW got, Finish(i, got), Complete(got),
           flights[i].live => flights[i].window = window,
           flights[i].live /\ ~AsksLatest => DOMAIN got = Asked(view, up),
           UNCHANGED <<database, changes, up, view, window>>
    PROVE  IInv'
<1> USE DEF database
<1>0. StateTyped /\ PointsMeasured /\ flights \in Seq(Good) /\ ShownWasMeasured
      /\ AbsenceWasAnswered /\ ShowsTheWindow
    BY DEF IInv
<1>1. flights' \in Seq(Good)
    BY <1>0, RemoveAtKeeps DEF Finish
<1>2. PointsMeasured' /\ Good' = Good
    BY <1>0 DEF PointsMeasured, Good, RunOk, AnswerOk, AsksLatest
<1>3. CASE ~flights[i].live
    <2>1. UNCHANGED <<screen, empties>>
        BY <1>3 DEF Finish
    <2>2. StateTyped' /\ ShownWasMeasured' /\ AbsenceWasAnswered' /\ ShowsTheWindow'
        BY <1>0, <2>1 DEF StateTyped, ShownWasMeasured, AbsenceWasAnswered, ShowsTheWindow,
                          Showing, AsksLatest
    <2> QED
        BY <1>1, <1>2, <2>2 DEF IInv
<1>4. CASE flights[i].live
    <2> DEFINE rows == RowsOf(view, got)
    <2>1. /\ screen' = [state |-> StateOf(view, rows, up), window |-> window, rows |-> rows]
          /\ empties' = {q \in DOMAIN got : got[q].reason = "NO_DATA"}
        BY <1>4 DEF Finish
    <2>2. \A row \in rows : row \in Row /\ RowMeasured(row)
        BY <1>0, RowsMeasured
    <2> HIDE DEF rows
    <2>3. StateOf(view, rows, up) \in {"loading", "error", "empty", "ready"}
        BY DEF StateOf
    <2>4. screen'.rows = rows /\ screen'.window = window
        BY <2>1
    <2>5. screen' \in [state : {"loading", "error", "empty", "ready"}, window : Windows,
                       rows : SUBSET Row]
        BY <1>0, <2>1, <2>2, <2>3 DEF StateTyped
    <2>6. StateTyped' /\ ShowsTheWindow'
        BY <1>0, <2>4, <2>5 DEF StateTyped, ShowsTheWindow
    <2>7. ShownWasMeasured'
        BY <2>2, <2>4 DEF ShownWasMeasured, RowMeasured
    <2>8. AbsenceWasAnswered'
        <3> SUFFICES ASSUME ~AsksLatest, NEW q \in Asked(view, up), q \notin empties'
                     PROVE  \/ \E row \in rows : [device |-> row.device, metric |-> row.metric] = q
                            \/ view = "top" /\ Cardinality(rows) = TopN
            BY <2>4 DEF AbsenceWasAnswered, AsksLatest
        <3>1. q \in DOMAIN got /\ q \in Query /\ got[q] \in Answer /\ AnswerOk(q, got[q])
            BY <1>4, PartialForm DEF Complete
        <3>2. q \in WithValues(got)
            BY <2>1, <3>1 DEF WithValues, AnswerOk
        <3>3. q = [device |-> q.device, metric |-> q.metric]
            BY <3>1 DEF Query
        <3> DEFINE one(values) == [device |-> q.device, metric |-> q.metric, values |-> values]
        <3>4. \A values : [device |-> one(values).device, metric |-> one(values).metric] = q
            BY <3>3
        <3> HIDE DEF one
        <3>5. CASE view = "top"
            <4>1. rows = TopRows(got)
                BY <3>5 DEF rows, RowsOf
            <4> DEFINE p == Percentile(got[q].values, 95)
                       e == [device |-> q.device, metric |-> q.metric, p95 |-> p]
            <4> HIDE DEF p
            <4>2. e \in Collected(got)
                BY <3>2 DEF Collected, p
            <4>3. CASE e \in Placed(got)
                <5>1. e.device = q.device /\ e.metric = q.metric /\ e.p95 = p
                    OBVIOUS
                <5> HIDE DEF e
                <5>2. [device |-> e.device, metric |-> e.metric, values |-> {e.p95}] \in rows
                    BY <4>1, <4>3 DEF TopRows, Placed
                <5>3. one({p}) \in rows
                    BY <5>1, <5>2 DEF one
                <5> QED
                    BY <3>4, <5>3
            <4>4. CASE e \notin Placed(got)
                <5> HIDE DEF e
                <5> QED
                    BY <3>5, <4>1, <4>2, <4>4, LeftOutOfFullList
            <4> QED
                BY <4>3, <4>4
        <3>6. CASE view # "top"
            <4>1. rows = SeriesRows(got)
                BY <3>6 DEF rows, RowsOf, AsksLatest
            <4>2. one(Range(got[q].values)) \in rows
                BY <3>2, <4>1 DEF SeriesRows, one
            <4> QED
                BY <3>4, <4>2
        <3> QED
            BY <3>5, <3>6
    <2> QED
        BY <1>1, <1>2, <2>6, <2>7, <2>8 DEF IInv
<1> QED
    BY <1>3, <1>4

\* A run of a sequence of good ones.
LEMMA RunIsGood ==
    ASSUME IInv, NEW i \in DOMAIN flights
    PROVE  /\ flights[i] \in Run /\ RunOk(flights[i])
           /\ flights[i].window \in Windows /\ flights[i].got \in Partial
           /\ flights[i].waiting \in SUBSET Query
BY DEF IInv, Good, Run

\* querySeries and queryLatest answer with values of the store, and name an
\* absence for what it is.
LEMMA AnswerIsOk ==
    ASSUME StateTyped, PointsMeasured, NEW q \in Query, NEW w \in Windows, ~SeriesFails
    PROVE  LET answer == IF AsksLatest THEN Latest(q) ELSE Points(q, w)
           IN  answer \in Answer /\ AnswerOk(q, answer)
<1>1. /\ points[q]["hour"] \in Seq(Values) /\ Range(points[q]["hour"]) \subseteq measured[q]
      /\ points[q][w] \in Seq(Values) /\ Range(points[q][w]) \subseteq measured[q]
    BY DEF StateTyped, PointsMeasured, Windows
<1>2. CASE AsksLatest
    <2> DEFINE s == points[q]["hour"]
    <2>1. s # <<>> => Last(s) \in Range(s) /\ Last(s) \in Values
        BY <1>1 DEF Last, Range
    <2>2. Range(<<>>) = {} /\ \A v : Range(<<v>>) = {v}
        BY DEF Range
    <2> HIDE DEF s
    <2>3. s # <<>> => <<Last(s)>> \in Seq(Values) /\ Range(<<Last(s)>>) \subseteq measured[q]
        BY <1>1, <2>1, <2>2 DEF s
    <2>4. \/ Latest(q) = [values |-> <<>>, reason |-> "UPSTREAM_UNAVAILABLE"]
          \/ Latest(q) = [values |-> <<>>, reason |-> "NO_DATA"]
          \/ s # <<>> /\ Latest(q) = [values |-> <<Last(s)>>, reason |-> "DATA"]
        BY DEF Latest, s
    <2>5. <<>> \in Seq(Values) /\ Range(<<>>) \subseteq measured[q]
        BY <2>2
    <2>6. \E v, r : /\ v \in Seq(Values) /\ Range(v) \subseteq measured[q]
                    /\ r \in {"DATA", "NO_DATA", "UPSTREAM_UNAVAILABLE"}
                    /\ Latest(q) = [values |-> v, reason |-> r]
        <3>1. CASE Latest(q) = [values |-> <<>>, reason |-> "UPSTREAM_UNAVAILABLE"]
            BY <2>5, <3>1
        <3>2. CASE Latest(q) = [values |-> <<>>, reason |-> "NO_DATA"]
            BY <2>5, <3>2
        <3>3. CASE s # <<>> /\ Latest(q) = [values |-> <<Last(s)>>, reason |-> "DATA"]
            BY <2>3, <3>3, Zenon
        <3> QED
            BY <2>4, <3>1, <3>2, <3>3
    <2>7. Latest(q) \in Answer /\ Range(Latest(q).values) \subseteq measured[q]
        BY <2>6 DEF Answer
    <2> QED
        BY <1>2, <2>7 DEF AnswerOk
<1>3. CASE ~AsksLatest
    <2>1. Points(q, w) = [values |-> points[q][w],
                          reason |-> IF points[q][w] = <<>> THEN "NO_DATA" ELSE "DATA"]
        BY <1>3 DEF Points, SeriesFails
    <2> QED
        BY <1>1, <1>3, <2>1 DEF AnswerOk, Answer
<1> QED
    BY <1>2, <1>3

\* The BFF answers one query of a run.
LEMMA AnsweredKeeps ==
    ASSUME IInv, NEW i \in DOMAIN flights, NEW q \in Query, Answered(i, q)
    PROVE  IInv'
<1> DEFINE f == flights[i]
           answer == IF AsksLatest THEN Latest(q) ELSE Points(q, f.window)
           got == With(f.got, q, answer)
<1>0. StateTyped /\ PointsMeasured /\ flights \in Seq(Good) /\ ShownWasMeasured
      /\ AbsenceWasAnswered /\ ShowsTheWindow
    BY DEF IInv
<1>1. /\ f \in Run /\ RunOk(f) /\ f.window \in Windows /\ f.got \in Partial
      /\ f.waiting \in SUBSET Query
    BY RunIsGood
<1>2. q \in f.waiting /\ ~SeriesFails /\ UNCHANGED <<database, changes, up, view, window>>
    BY DEF Answered, InTurn
<1>3. answer \in Answer /\ AnswerOk(q, answer)
    BY <1>0, <1>1, <1>2, AnswerIsOk
<1>4. /\ got \in Partial /\ DOMAIN got = DOMAIN f.got \cup {q}
      /\ got[q] = answer /\ \A p \in DOMAIN f.got \ {q} : got[p] = f.got[p]
    <2> DEFINE old == f.got
    <2>1. old \in Partial /\ answer \in Answer /\ q \in Query
        BY <1>1, <1>3
    <2>2. got = With(old, q, answer)
        OBVIOUS
    <2> HIDE DEF answer, old
    <2>3. /\ With(old, q, answer) \in Partial
          /\ DOMAIN With(old, q, answer) = DOMAIN old \cup {q}
          /\ With(old, q, answer)[q] = answer
          /\ \A p \in DOMAIN old \ {q} : With(old, q, answer)[p] = old[p]
        BY <2>1, WithKeeps
    <2> HIDE DEF got
    <2> QED
        BY <2>2, <2>3 DEF old
<1>5. /\ f.waiting = {q} /\ Finish(i, got)
      \/ /\ f.waiting # {q}
         /\ flights' = [flights EXCEPT ![i].waiting = @ \ {q}, ![i].got = got]
         /\ UNCHANGED <<screen, empties>>
    BY DEF Answered
<1> HIDE DEF answer, got
<1>6. \A p \in DOMAIN got : AnswerOk(p, got[p])
    BY <1>1, <1>3, <1>4 DEF RunOk
<1>7. CASE f.waiting = {q} /\ Finish(i, got)
    <2>1. DOMAIN got = DOMAIN f.got \cup f.waiting
        BY <1>4, <1>7
    <2>2. Complete(got)
        BY <1>1, <1>4, <1>6, <2>1 DEF Complete, RunOk
    <2>3. f.live => f.window = window /\ (~AsksLatest => DOMAIN got = Asked(view, up))
        BY <1>1, <2>1 DEF RunOk
    <2> QED
        BY <1>2, <1>7, <2>2, <2>3, FinishKeeps
<1>8. CASE /\ flights' = [flights EXCEPT ![i].waiting = @ \ {q}, ![i].got = got]
           /\ UNCHANGED <<screen, empties>>
    <2> DEFINE g == [f EXCEPT !.waiting = @ \ {q}, !.got = got]
    <2>1. /\ g \in Run /\ g.waiting = f.waiting \ {q} /\ g.got = got
          /\ g.window = f.window /\ g.live = f.live
        BY <1>1, <1>4 DEF Run
    <2>2. flights' = [flights EXCEPT ![i] = g]
        BY <1>8
    <2> HIDE DEF g
    <2>3. DOMAIN g.got \cup g.waiting = DOMAIN f.got \cup f.waiting
        BY <1>2, <1>4, <2>1
    <2>4. DOMAIN g.got \cap g.waiting = {}
        BY <1>1, <1>4, <2>1 DEF RunOk
    <2>5. RunOk(g)
        BY <1>1, <1>6, <2>1, <2>3, <2>4 DEF RunOk
    <2>6. g \in Good
        BY <2>1, <2>5 DEF Good
    <2>7. flights' \in Seq(Good)
        BY <1>0, <2>2, <2>6
    <2>8. Good' = Good /\ PointsMeasured'
        BY <1>0, <1>2 DEF Good, RunOk, AnswerOk, AsksLatest, PointsMeasured, database
    <2>9. StateTyped' /\ ShownWasMeasured' /\ AbsenceWasAnswered' /\ ShowsTheWindow'
        BY <1>0, <1>2, <1>8 DEF StateTyped, ShownWasMeasured, AbsenceWasAnswered,
                                ShowsTheWindow, Showing, AsksLatest, database
    <2> QED
        BY <2>7, <2>8, <2>9 DEF IInv
<1> QED
    BY <1>5, <1>7, <1>8

\* useBffQuery.ts:51-53: a dependency changes, and the runs before are not
\* listened to any more.
LEMMA RerunKeeps ==
    ASSUME IInv, NEW w \in Windows, NEW devices \in SUBSET Devices, Rerun(w, devices),
           window' = w, up' = devices, UNCHANGED <<database, view>>
    PROVE  IInv'
<1> USE DEF database
<1>0. StateTyped /\ PointsMeasured /\ flights \in Seq(Good)
    BY DEF IInv
<1> DEFINE new == Flight(view, w, devices)
<1>1. Asked(view, devices) \in SUBSET Query
    BY <1>0, AsksAreQueries DEF StateTyped
<1>2. new \in Good'
    <2>1. <<>> \in Partial /\ DOMAIN <<>> = {}
        <3>1. <<>> \in [{} -> Answer] /\ {} \in SUBSET Query
            OBVIOUS
        <3> QED
            BY <3>1 DEF Partial
    <2>2. /\ new \in Run /\ new.got = <<>> /\ new.waiting = Asked(view, devices)
          /\ new.window = w /\ new.live = TRUE
        BY <1>1, <2>1 DEF Flight, Run
    <2>3. DOMAIN new.got \cup new.waiting = Asked(view, devices)
        BY <2>1, <2>2
    <2> HIDE DEF new
    <2>4. view' = "heatmap" => DOMAIN new.got \cup new.waiting = HeatmapAsks(devices)
        BY <2>3 DEF Asked
    <2> QED
        BY <2>1, <2>2, <2>3, <2>4 DEF Good, RunOk
<1>3. ASSUME NEW f \in Good PROVE [f EXCEPT !.live = FALSE] \in Good'
    <2> DEFINE g == [f EXCEPT !.live = FALSE]
    <2>1. f \in Run /\ RunOk(f)
        BY <1>3 DEF Good
    <2>2. /\ g \in Run /\ g.waiting = f.waiting /\ g.got = f.got /\ g.window = f.window
          /\ g.live = FALSE
        BY <2>1 DEF Run
    <2> HIDE DEF g
    <2>3. RunOk(g)'
        BY <2>1, <2>2 DEF RunOk, AnswerOk, AsksLatest
    <2> QED
        BY <2>2, <2>3 DEF Good, g
<1>4. Cancelled(flights) \in Seq(Good')
    <2>1. DOMAIN flights = 1..Len(flights) /\ Len(flights) \in Nat
        BY <1>0
    <2>2. \A i \in 1..Len(flights) : [flights[i] EXCEPT !.live = FALSE] \in Good'
        BY <1>0, <1>3, <2>1
    <2>3. Cancelled(flights) = [i \in 1..Len(flights) |-> [flights[i] EXCEPT !.live = FALSE]]
        BY <2>1 DEF Cancelled
    <2> QED
        BY <2>1, <2>2, <2>3
<1>5. flights' = Append(Cancelled(flights), new)
    BY DEF Rerun
<1>6. flights' \in Seq(Good')
    <2> HIDE DEF new
    <2> QED
        BY <1>2, <1>4, <1>5, AppendProperties
<1>7. screen' \in [state : {"loading", "error", "empty", "ready"}, window : Windows,
                   rows : SUBSET Row]
      /\ screen'.state = "loading" /\ screen'.window = w /\ screen'.rows = {}
    BY <1>0 DEF Rerun, StateTyped
<1>8. StateTyped' /\ PointsMeasured'
    BY <1>0, <1>7 DEF StateTyped, PointsMeasured
<1>9. ShownWasMeasured' /\ AbsenceWasAnswered' /\ ShowsTheWindow'
    BY <1>7 DEF ShownWasMeasured, AbsenceWasAnswered, ShowsTheWindow, Showing
<1> QED
    BY <1>6, <1>8, <1>9 DEF IInv

\* A sequence of runs is good after a step if each of its runs is.
LEMMA StillGood ==
    ASSUME flights \in Seq(Good), flights' = flights, \A f \in Good : f \in Good'
    PROVE  flights' \in Seq(Good')
<1>1. Good \subseteq Good'
    OBVIOUS
<1> QED
    BY <1>1, WiderSeries

LEMMA ViewsInit == Init => IInv
<1> SUFFICES ASSUME Init PROVE IInv
    OBVIOUS
<1>1. up \in SUBSET Devices /\ view \in Views /\ window \in Windows
    BY DEF Init
<1>2. Asked(view, up) \in SUBSET Query
    BY <1>1, AsksAreQueries
<1>3. /\ points = [q \in Query |-> [w \in Windows |-> <<>>]]
      /\ measured = [q \in Query |-> {}] /\ flights = <<Flight(view, window, up)>>
      /\ screen = [state |-> "loading", window |-> window, rows |-> {}] /\ store = "up"
    BY DEF Init
<1>4. StateTyped
    BY <1>1, <1>3 DEF StateTyped
<1>5. PointsMeasured
    <2>1. Range(<<>>) = {}
        BY DEF Range
    <2> QED
        BY <1>3, <2>1 DEF PointsMeasured
<1>6. Flight(view, window, up) \in Good
    <2> DEFINE new == Flight(view, window, up)
    <2>1. <<>> \in Partial /\ DOMAIN <<>> = {}
        <3>1. <<>> \in [{} -> Answer] /\ {} \in SUBSET Query
            OBVIOUS
        <3> QED
            BY <3>1 DEF Partial
    <2>2. /\ new \in Run /\ new.got = <<>> /\ new.waiting = Asked(view, up)
          /\ new.window = window
        BY <1>1, <1>2, <2>1 DEF Flight, Run
    <2>3. DOMAIN new.got \cup new.waiting = Asked(view, up)
        BY <2>1, <2>2
    <2> HIDE DEF new
    <2>4. view = "heatmap" => DOMAIN new.got \cup new.waiting = HeatmapAsks(up)
        BY <2>3 DEF Asked
    <2>5. RunOk(new)
        BY <1>1, <2>1, <2>2, <2>3, <2>4 DEF RunOk
    <2> QED
        BY <2>2, <2>5 DEF Good, new
<1>7. flights \in Seq(Good)
    <2> DEFINE new == Flight(view, window, up)
    <2> HIDE DEF new
    <2> QED
        BY <1>3, <1>6 DEF new
<1>8. ShownWasMeasured /\ AbsenceWasAnswered /\ ShowsTheWindow
    BY <1>3 DEF ShownWasMeasured, AbsenceWasAnswered, ShowsTheWindow, Showing
<1> QED
    BY <1>4, <1>5, <1>7, <1>8 DEF IInv

\* The join of no queries.
LEMMA AnsweredAllKeeps ==
    ASSUME IInv, NEW i \in DOMAIN flights, AnsweredAll(i)
    PROVE  IInv'
<1> DEFINE got == flights[i].got
<1>1. RunOk(flights[i]) /\ got \in Partial /\ flights[i].waiting = {} /\ Finish(i, got)
      /\ UNCHANGED <<database, changes, up, view, window>>
    BY RunIsGood DEF AnsweredAll
<1>2. DOMAIN got = DOMAIN got \cup flights[i].waiting
    BY <1>1
<1>3. Complete(got)
    BY <1>1, <1>2 DEF Complete, RunOk
<1>4. flights[i].live => flights[i].window = window
                         /\ (~AsksLatest => DOMAIN got = Asked(view, up))
    BY <1>1, <1>2 DEF RunOk
<1> HIDE DEF got
<1> QED
    BY <1>1, <1>3, <1>4, FinishKeeps

LEMMA QueryFailsKeeps ==
    ASSUME IInv, NEW i \in DOMAIN flights, NEW q \in Query, QueryFails(i, q)
    PROVE  IInv'
<1> USE DEF database
<1>0. StateTyped /\ PointsMeasured /\ flights \in Seq(Good) /\ ShownWasMeasured
      /\ AbsenceWasAnswered /\ ShowsTheWindow
    BY DEF IInv
<1>1. flights' = RemoveAt(flights, i) /\ UNCHANGED <<database, changes, up, view, window, empties>>
    BY DEF QueryFails
<1>2. flights' \in Seq(Good)
    BY <1>0, <1>1, RemoveAtKeeps
<1>3. PointsMeasured' /\ Good' = Good
    BY <1>0, <1>1 DEF PointsMeasured, Good, RunOk, AnswerOk, AsksLatest
<1>4. \/ screen' = screen
      \/ screen' = [screen EXCEPT !.state = "error"]
    BY DEF QueryFails
<1>5. screen'.window = screen.window /\ screen'.rows = screen.rows
      /\ (screen' = screen \/ screen'.state = "error")
    BY <1>0, <1>4 DEF StateTyped
<1>6. StateTyped'
    BY <1>0, <1>1, <1>4 DEF StateTyped
<1>7. ShownWasMeasured' /\ ShowsTheWindow'
    BY <1>0, <1>1, <1>5 DEF ShownWasMeasured, ShowsTheWindow
<1>8. AbsenceWasAnswered'
    BY <1>0, <1>1, <1>5 DEF AbsenceWasAnswered, Showing, AsksLatest
<1> QED
    BY <1>2, <1>3, <1>6, <1>7, <1>8 DEF IInv

\* page.tsx: the devices are read again; only the trend asks anew, and what the
\* other series ask does not depend on them.
LEMMA DevicesReloadKeeps ==
    ASSUME IInv, NEW devices \in SUBSET Devices, DevicesReload(devices)
    PROVE  IInv'
<1> USE DEF database
<1>0. StateTyped /\ PointsMeasured /\ flights \in Seq(Good) /\ ShownWasMeasured
      /\ AbsenceWasAnswered /\ ShowsTheWindow
    BY DEF IInv
<1>1. up' = devices /\ UNCHANGED <<database, view, window>>
    BY DEF DevicesReload
<1>2. CASE view = "trend"
    <2>1. Rerun(window, devices) /\ window \in Windows
        BY <1>0, <1>2 DEF DevicesReload, StateTyped
    <2> QED
        BY <1>1, <2>1, RerunKeeps
<1>3. CASE view # "trend"
    <2>1. UNCHANGED <<flights, screen, empties>>
        BY <1>3 DEF DevicesReload
    <2>2. ~AsksLatest => Asked(view, up)' = Asked(view, up)
        BY <1>0, <1>1, <1>3 DEF AsksLatest, Asked, StateTyped, Views
    <2>3. ASSUME NEW f \in Good PROVE f \in Good'
        BY <1>1, <2>2 DEF Good, RunOk, AnswerOk, AsksLatest
    <2>4. flights' \in Seq(Good')
        BY <1>0, <2>1, <2>3, StillGood
    <2>5. StateTyped' /\ PointsMeasured' /\ ShownWasMeasured' /\ ShowsTheWindow'
        BY <1>0, <1>1, <2>1 DEF StateTyped, PointsMeasured, ShownWasMeasured, ShowsTheWindow
    <2>6. AbsenceWasAnswered'
        BY <1>0, <1>1, <2>1, <2>2 DEF AbsenceWasAnswered, Showing, AsksLatest
    <2> QED
        BY <2>4, <2>5, <2>6 DEF IInv
<1> QED
    BY <1>2, <1>3

\* Collection adds to what was measured and to the series.
LEMMA PollKeeps ==
    ASSUME IInv, NEW q \in Query, NEW value \in Values, Poll(q, value)
    PROVE  IInv'
<1>0. StateTyped /\ PointsMeasured /\ flights \in Seq(Good) /\ ShownWasMeasured
      /\ AbsenceWasAnswered /\ ShowsTheWindow
    BY DEF IInv
<1>1. /\ points' = [points EXCEPT ![q] = [w \in Windows |-> Append(@[w], value)]]
      /\ measured' = [measured EXCEPT ![q] = @ \cup {value}]
      /\ UNCHANGED <<store, changes, up, view, window, flights, screen, empties>>
    BY DEF Poll
<1>2. /\ measured' \in [Query -> SUBSET Values]
      /\ \A p \in Query : measured[p] \subseteq measured'[p]
      /\ measured'[q] = measured[q] \cup {value}
    BY <1>0, <1>1 DEF StateTyped
<1>3. points' \in [Query -> [Windows -> Seq(Values)]]
    BY <1>0, <1>1 DEF StateTyped
<1>4. StateTyped'
    BY <1>0, <1>1, <1>2, <1>3 DEF StateTyped
<1>5. PointsMeasured'
    <2> SUFFICES ASSUME NEW p \in Query, NEW w \in Windows
                 PROVE  Range(points'[p][w]) \subseteq measured'[p]
        BY DEF PointsMeasured
    <2>1. points[p][w] \in Seq(Values) /\ Range(points[p][w]) \subseteq measured[p]
        BY <1>0 DEF StateTyped, PointsMeasured
    <2>2. CASE p = q
        <3>1. points'[p][w] = Append(points[p][w], value)
            BY <1>0, <1>1, <2>2 DEF StateTyped
        <3>2. Range(Append(points[p][w], value)) \subseteq Range(points[p][w]) \cup {value}
            BY <2>1, AppendProperties DEF Range
        <3> QED
            BY <1>2, <2>1, <2>2, <3>1, <3>2
    <2>3. CASE p # q
        BY <1>0, <1>1, <1>2, <2>1, <2>3 DEF StateTyped
    <2> QED
        BY <2>2, <2>3
<1>6. ASSUME NEW f \in Good PROVE f \in Good'
    <2>1. f \in Run /\ RunOk(f) /\ f.got \in Partial
        BY <1>6 DEF Good, Run
    <2>2. DOMAIN f.got \subseteq Query
        BY <2>1, PartialForm
    <2>3. ASSUME NEW p \in DOMAIN f.got PROVE AnswerOk(p, f.got[p])'
        <3>1. AnswerOk(p, f.got[p]) /\ measured[p] \subseteq measured'[p]
            BY <1>2, <2>1, <2>2, <2>3 DEF RunOk
        <3> QED
            BY <1>1, <3>1 DEF AnswerOk, AsksLatest
    <2> QED
        BY <1>1, <2>1, <2>3 DEF Good, RunOk, AsksLatest
<1>7. flights' \in Seq(Good')
    BY <1>0, <1>1, <1>6, StillGood
<1>8. ShownWasMeasured'
    <2> SUFFICES ASSUME NEW row \in screen.rows PROVE RowMeasured(row)'
        BY <1>1 DEF ShownWasMeasured, RowMeasured
    <2>1. RowMeasured(row) /\ row.device \in Devices
        BY <1>0 DEF ShownWasMeasured, RowMeasured, StateTyped, Row
    <2>2. \A m \in Metrics : [device |-> row.device, metric |-> m] \in Query
        BY <2>1 DEF Query
    <2> QED
        BY <1>1, <1>2, <2>1, <2>2 DEF RowMeasured
<1>9. AbsenceWasAnswered' /\ ShowsTheWindow'
    BY <1>0, <1>1 DEF AbsenceWasAnswered, ShowsTheWindow, Showing, AsksLatest
<1> QED
    BY <1>4, <1>5, <1>7, <1>8, <1>9 DEF IInv

\* A series runs dry.
LEMMA SilenceKeeps ==
    ASSUME IInv, NEW q \in Query, Silence(q)
    PROVE  IInv'
<1>0. StateTyped /\ PointsMeasured /\ flights \in Seq(Good) /\ ShownWasMeasured
      /\ AbsenceWasAnswered /\ ShowsTheWindow
    BY DEF IInv
<1>1. /\ points' = [points EXCEPT ![q]["hour"] = <<>>]
      /\ UNCHANGED <<store, polls, measured, up, view, window, flights, screen, empties>>
    BY DEF Silence
<1>2. points' \in [Query -> [Windows -> Seq(Values)]]
    <2> DEFINE dry == [points[q] EXCEPT !["hour"] = <<>>]
    <2>1. points[q] \in [Windows -> Seq(Values)] /\ <<>> \in Seq(Values)
        BY <1>0 DEF StateTyped
    <2>2. dry \in [Windows -> Seq(Values)]
        BY <2>1
    <2>3. points' = [points EXCEPT ![q] = dry]
        BY <1>1
    <2> HIDE DEF dry
    <2> QED
        BY <1>0, <2>2, <2>3 DEF StateTyped
<1>3. \A p \in Query, w \in Windows : points'[p][w] = points[p][w] \/ points'[p][w] = <<>>
    BY <1>0, <1>1 DEF StateTyped
<1>4. Range(<<>>) = {}
    BY DEF Range
<1>5. PointsMeasured'
    BY <1>0, <1>1, <1>3, <1>4 DEF PointsMeasured
<1>6. Good' = Good
    BY <1>1 DEF Good, RunOk, AnswerOk, AsksLatest
<1>7. StateTyped' /\ ShownWasMeasured' /\ AbsenceWasAnswered' /\ ShowsTheWindow'
    BY <1>0, <1>1, <1>2 DEF StateTyped, ShownWasMeasured, AbsenceWasAnswered, ShowsTheWindow,
                            Showing, AsksLatest
<1> QED
    BY <1>0, <1>1, <1>5, <1>6, <1>7 DEF IInv

\* Every step keeps the invariant.
LEMMA ViewsNext == IInv /\ [Next]_vars => IInv'
<1> SUFFICES ASSUME IInv, [Next]_vars PROVE IInv'
    OBVIOUS
<1>0. window \in Windows /\ up \in SUBSET Devices
    BY DEF IInv, StateTyped
<1>1. ASSUME NEW i \in DOMAIN flights, Settles(i) PROVE IInv'
    BY <1>1, AnsweredKeeps, QueryFailsKeeps, AnsweredAllKeeps DEF Settles
<1>2. ASSUME NEW w \in Windows, ChooseWindow(w) PROVE IInv'
    BY <1>0, <1>2, RerunKeeps DEF ChooseWindow
<1>3. CASE Retry
    BY <1>0, <1>3, RerunKeeps DEF Retry
<1>4. ASSUME NEW devices \in SUBSET Devices, DevicesReload(devices) PROVE IInv'
    BY <1>4, DevicesReloadKeeps
<1>5. ASSUME NEW q \in Query, Silence(q) PROVE IInv'
    BY <1>5, SilenceKeeps
<1>6. ASSUME NEW q \in Query, NEW value \in Values, Poll(q, value) PROVE IInv'
    BY <1>6, PollKeeps
<1>7. CASE UNCHANGED <<points, polls, measured, up, view, window, flights, screen, empties>>
           /\ store' \in {"up", "down"}
    BY <1>7 DEF IInv, StateTyped, PointsMeasured, Good, RunOk, AnswerOk, AsksLatest,
                ShownWasMeasured, AbsenceWasAnswered, ShowsTheWindow, Showing
<1>8. CASE StoreTurns
    BY <1>7, <1>8 DEF StoreTurns
<1>9. CASE UNCHANGED vars
    BY <1>7, <1>9 DEF vars, database, IInv, StateTyped
<1> QED
    BY <1>1, <1>2, <1>3, <1>4, <1>5, <1>6, <1>8, <1>9 DEF Next

LEMMA ViewsHold == Spec => []IInv
BY ViewsInit, ViewsNext, PTL DEF Spec

\* The invariant with the runs one by one, as TLC checks it.
LEMMA RunByRun == IInv => ViewsInv
<1> SUFFICES ASSUME IInv PROVE ViewsInv
    OBVIOUS
<1>1. StateTyped /\ PointsMeasured /\ flights \in Seq(Good) /\ ShownWasMeasured
      /\ AbsenceWasAnswered /\ ShowsTheWindow
    BY DEF IInv
<1>2. ASSUME NEW i \in DOMAIN flights
      PROVE  /\ RunOk(flights[i]) /\ flights[i].window \in Windows
             /\ flights[i].waiting \subseteq Query /\ flights[i].live \in BOOLEAN
             /\ DOMAIN flights[i].got \subseteq Query /\ Range(flights[i].got) \subseteq Answer
    <2>1. flights[i] \in Run /\ RunOk(flights[i])
        BY <1>1 DEF Good
    <2>2. flights[i].got \in Partial
        BY <2>1 DEF Run
    <2>3. Range(flights[i].got) \subseteq Answer /\ DOMAIN flights[i].got \subseteq Query
        BY <2>2, PartialForm DEF Range
    <2> QED
        BY <2>1, <2>3 DEF Run
<1>3. TypeOK
    BY <1>1, <1>2 DEF TypeOK, StateTyped
<1>4. RunsOk
    BY <1>2 DEF RunsOk
<1> QED
    BY <1>1, <1>3, <1>4 DEF ViewsInv

\* The types of the state and what every run has asked and been told, for any
\* number of devices, points and runs.
THEOREM Invariance == Spec => []ViewsInv
BY RunByRun, ViewsHold, PTL

\* influxMetricsReader.ts:9-11: no view shows a number, or a ratio or percentile of
\* numbers, that was not collected for that device and metric, and none shows a
\* ratio of a reading that is missing.
THEOREM Measured == Spec => []ShownWasMeasured
<1>1. IInv => ShownWasMeasured
    BY DEF IInv
<1> QED
    BY <1>1, ViewsHold, PTL

\* influxMetricsReader.ts:282-286, TopInterfaces.tsx:43-53: a series that is missing
\* from a chart was answered with nothing, never for an outage at any of the queries
\* it is joined from, or is left out of a top list of TopN rows.
THEOREM AbsenceAnswered == Spec => []AbsenceWasAnswered
<1>1. IInv => AbsenceWasAnswered
    BY DEF IInv
<1> QED
    BY <1>1, ViewsHold, PTL

\* ThroughputChart.tsx:37-54: the answers of an earlier window never replace those
\* of the window chosen last, in whatever order they arrive.
THEOREM WindowShown == Spec => []ShowsTheWindow
<1>1. IInv => ShowsTheWindow
    BY DEF IInv
<1> QED
    BY <1>1, ViewsHold, PTL

-------------------------------------------------------------------------------
(* What a loading view waits for                                           *)

Live(fs) == {i \in DOMAIN fs : fs[i].live}

\* A view listens to one effect run while it is loading and to none otherwise.
OneAwaited ==
    IF screen.state = "loading" THEN \E k \in DOMAIN flights : Live(flights) = {k}
    ELSE Live(flights) = {}

\* A run that is added after the cleanup of the others is the one awaited.
LEMMA AddedAwaited ==
    ASSUME IInv, NEW new, new.live, flights' = Append(Cancelled(flights), new),
           screen'.state = "loading"
    PROVE  OneAwaited'
<1> DEFINE cut == Cancelled(flights)
<1>1. PICK n \in Nat : DOMAIN flights = 1..n
    BY DEF IInv
<1>2. cut = [i \in 1..n |-> [flights[i] EXCEPT !.live = FALSE]]
    BY <1>1 DEF Cancelled
<1>3. ASSUME NEW i \in 1..n PROVE ~cut[i].live
    <2>1. flights[i] \in Run
        BY <1>1, RunIsGood
    <2>2. cut[i] = [flights[i] EXCEPT !.live = FALSE]
        BY <1>2
    <2> HIDE DEF cut
    <2> QED
        BY <2>1, <2>2 DEF Run
<1> DEFINE T == {[flights[i] EXCEPT !.live = FALSE] : i \in 1..n}
<1>4. cut \in [1..n -> T] /\ flights' = Append(cut, new)
    BY <1>2
<1> HIDE DEF cut, T
<1>5. /\ DOMAIN flights' = 1..(n + 1) /\ flights'[n + 1] = new
      /\ \A i \in 1..n : flights'[i] = cut[i]
    <2>1. cut \in Seq(T) /\ Len(cut) = n
        BY <1>1, <1>4
    <2>2. cut \in Seq(T \cup {new}) /\ new \in T \cup {new}
        BY <2>1, <1>4
    <2>3. /\ flights' \in Seq(T \cup {new}) /\ Len(flights') = n + 1 /\ flights'[n + 1] = new
          /\ \A i \in 1..n : flights'[i] = cut[i]
        BY <1>4, <2>1, <2>2, AppendProperties
    <2> QED
        BY <2>3
<1>6. \A i \in DOMAIN flights' : flights'[i].live <=> i = n + 1
    BY <1>1, <1>3, <1>5
<1>7. n + 1 \in DOMAIN flights'
    BY <1>1, <1>5
<1>8. Live(flights') = {n + 1}
    BY <1>6, <1>7 DEF Live
<1> QED
    BY <1>7, <1>8 DEF OneAwaited

\* The list without its i-th entry.
LEMMA RemovedAt ==
    ASSUME NEW S, NEW s \in Seq(S), NEW i \in DOMAIN s
    PROVE  /\ DOMAIN RemoveAt(s, i) = 1..(Len(s) - 1)
           /\ \A j \in 1..(Len(s) - 1) : RemoveAt(s, i)[j] = s[IF j < i THEN j ELSE j + 1]
<1> DEFINE a == SubSeq(s, 1, i - 1)
           b == SubSeq(s, i + 1, Len(s))
<1>1. Len(s) \in Nat /\ i \in 1..Len(s) /\ DOMAIN s = 1..Len(s)
    OBVIOUS
<1>2. /\ a \in Seq(S) /\ Len(a) = i - 1 /\ \A j \in 1..(i - 1) : a[j] = s[j]
      /\ b \in Seq(S) /\ Len(b) = Len(s) - i
      /\ \A j \in 1..(Len(s) - i) : b[j] = s[i + j]
    BY <1>1
<1>3. RemoveAt(s, i) = a \o b
    BY DEF RemoveAt
<1> HIDE DEF a, b
<1>4. /\ DOMAIN (a \o b) = 1..(Len(s) - 1)
      /\ \A j \in 1..(Len(s) - 1) : (a \o b)[j] = IF j < i THEN a[j] ELSE b[j - (i - 1)]
    <2>1. /\ Len(a \o b) = Len(a) + Len(b) /\ a \o b \in Seq(S)
          /\ \A j \in 1..(Len(a) + Len(b)) :
                (a \o b)[j] = IF j <= Len(a) THEN a[j] ELSE b[j - Len(a)]
        BY <1>2, ConcatProperties
    <2>2. Len(a) + Len(b) = Len(s) - 1
        BY <1>1, <1>2
    <2>3. DOMAIN (a \o b) = 1..Len(a \o b)
        BY <2>1
    <2>4. DOMAIN (a \o b) = 1..(Len(s) - 1)
        BY <2>1, <2>2, <2>3
    <2>5. \A j \in 1..(Len(s) - 1) : j <= Len(a) <=> j < i
        BY <1>1, <1>2
    <2> QED
        BY <1>2, <2>1, <2>2, <2>4, <2>5
<1>5. ASSUME NEW j \in 1..(Len(s) - 1)
      PROVE  (a \o b)[j] = s[IF j < i THEN j ELSE j + 1]
    <2>1. CASE j < i
        <3>1. j \in 1..(i - 1)
            BY <1>1, <2>1
        <3> QED
            BY <1>2, <1>4, <2>1, <3>1
    <2>2. CASE ~(j < i)
        <3>1. j - (i - 1) \in 1..(Len(s) - i) /\ i + (j - (i - 1)) = j + 1
            BY <1>1, <2>2
        <3> QED
            BY <1>2, <1>4, <2>2, <3>1
    <2> QED
        BY <2>1, <2>2
<1> QED
    BY <1>3, <1>4, <1>5

LEMMA RemovedAwaited ==
    ASSUME IInv, OneAwaited, NEW i \in DOMAIN flights, flights' = RemoveAt(flights, i),
           IF flights[i].live THEN screen'.state # "loading" ELSE screen'.state = screen.state
    PROVE  OneAwaited'
<1>1. Len(flights) \in Nat /\ DOMAIN flights = 1..Len(flights)
    BY DEF IInv
<1>2. /\ DOMAIN flights' = 1..(Len(flights) - 1)
      /\ \A j \in 1..(Len(flights) - 1) : flights'[j] = flights[IF j < i THEN j ELSE j + 1]
    BY RemovedAt DEF IInv
<1>3. CASE Live(flights) = {}
    <2>1. \A j \in DOMAIN flights' : ~flights'[j].live
        <3>1. \A j \in 1..(Len(flights) - 1) : (IF j < i THEN j ELSE j + 1) \in DOMAIN flights
            BY <1>1
        <3> QED
            BY <1>2, <1>3, <3>1 DEF Live
    <2>2. screen.state # "loading" /\ ~flights[i].live
        BY <1>3 DEF OneAwaited, Live
    <2> QED
        BY <2>1, <2>2 DEF OneAwaited, Live
<1>4. ASSUME NEW k \in DOMAIN flights, Live(flights) = {k}
      PROVE  OneAwaited'
    <2>1. \A j \in DOMAIN flights : flights[j].live <=> j = k
        BY <1>4 DEF Live
    <2>2. CASE k = i
        <3>1. \A j \in 1..(Len(flights) - 1) :
                (IF j < i THEN j ELSE j + 1) \in DOMAIN flights \ {k}
            BY <1>1, <2>2
        <3>2. \A j \in DOMAIN flights' : ~flights'[j].live
            BY <1>2, <2>1, <3>1
        <3> QED
            BY <2>1, <2>2, <3>2 DEF OneAwaited, Live
    <2>3. CASE k # i
        <3> DEFINE n == IF k < i THEN k ELSE k - 1
        <3>1. n \in 1..(Len(flights) - 1)
            BY <1>1, <2>3
        <3>2. \A j \in 1..(Len(flights) - 1) :
                /\ (IF j < i THEN j ELSE j + 1) \in DOMAIN flights
                /\ (IF j < i THEN j ELSE j + 1) = k <=> j = n
            BY <1>1, <2>3
        <3>3. \A j \in DOMAIN flights' : flights'[j].live <=> j = n
            BY <1>2, <2>1, <3>2
        <3> HIDE DEF n
        <3>4. Live(flights') = {n} /\ n \in DOMAIN flights'
            BY <1>2, <3>1, <3>3 DEF Live
        <3>5. screen.state = "loading" /\ screen'.state = screen.state
            BY <1>4, <2>1, <2>3 DEF OneAwaited
        <3> QED
            BY <3>4, <3>5 DEF OneAwaited
    <2> QED
        BY <2>2, <2>3
<1> QED
    BY <1>3, <1>4 DEF OneAwaited

\* An answer that is not the last leaves the run as awaited as it was.
LEMMA ReplacedAwaited ==
    ASSUME OneAwaited, NEW i \in DOMAIN flights, NEW new, flights' = [flights EXCEPT ![i] = new],
           new.live = flights[i].live, screen'.state = screen.state
    PROVE  OneAwaited'
<1>1. DOMAIN flights' = DOMAIN flights /\ \A j \in DOMAIN flights : flights'[j].live = flights[j].live
    OBVIOUS
<1>2. Live(flights') = Live(flights)
    BY <1>1 DEF Live
<1> QED
    BY <1>1, <1>2 DEF OneAwaited

LEMMA AwaitedStays ==
    ASSUME OneAwaited, UNCHANGED <<screen, flights>>
    PROVE  OneAwaited'
BY DEF OneAwaited, Live

LEMMA RerunAwaited ==
    ASSUME IInv, NEW w, NEW devices, Rerun(w, devices)
    PROVE  OneAwaited'
<1> DEFINE new == Flight(view, w, devices)
<1>1. new.live = TRUE
    BY DEF Flight
<1>2. screen'.state = "loading"
    BY DEF Rerun, IInv, StateTyped
<1>3. flights' = Append(Cancelled(flights), new)
    BY DEF Rerun
<1> HIDE DEF new
<1> QED
    BY <1>1, <1>2, <1>3, AddedAwaited

LEMMA FinishAwaited ==
    ASSUME IInv, OneAwaited, NEW i \in DOMAIN flights, NEW got, Finish(i, got)
    PROVE  OneAwaited'
<1>1. flights' = RemoveAt(flights, i)
    BY DEF Finish
<1>2. CASE flights[i].live
    <2>1. screen'.state = StateOf(view, RowsOf(view, got), up)
        BY <1>2 DEF Finish
    <2>2. screen'.state # "loading"
        BY <2>1 DEF StateOf
    <2> QED
        BY <1>1, <1>2, <2>2, RemovedAwaited
<1>3. CASE ~flights[i].live
    <2>1. screen'.state = screen.state
        BY <1>3 DEF Finish
    <2> QED
        BY <1>1, <1>3, <2>1, RemovedAwaited
<1> QED
    BY <1>2, <1>3

LEMMA AwaitedNext == IInv /\ OneAwaited /\ [Next]_vars => OneAwaited'
<1> SUFFICES ASSUME IInv, OneAwaited, [Next]_vars PROVE OneAwaited'
    OBVIOUS
<1>1. ASSUME NEW i \in DOMAIN flights, NEW q \in Query, Answered(i, q) PROVE OneAwaited'
    <2> DEFINE answer == IF AsksLatest THEN Latest(q) ELSE Points(q, flights[i].window)
               got == With(flights[i].got, q, answer)
               new == [flights[i] EXCEPT !.waiting = @ \ {q}, !.got = got]
    <2>1. IF flights[i].waiting = {q} THEN Finish(i, got)
          ELSE flights' = [flights EXCEPT ![i] = new] /\ UNCHANGED screen
        BY <1>1 DEF Answered
    <2>2. flights[i] \in Run
        BY RunIsGood
    <2> HIDE DEF got
    <2>3. new.live = flights[i].live
        BY <2>2 DEF Run
    <2> HIDE DEF new
    <2>4. CASE flights[i].waiting = {q}
        BY <2>1, <2>4, FinishAwaited
    <2>5. CASE flights[i].waiting # {q}
        BY <2>1, <2>3, <2>5, ReplacedAwaited
    <2> QED
        BY <2>4, <2>5
<1>2. ASSUME NEW i \in DOMAIN flights, NEW q \in Query, QueryFails(i, q) PROVE OneAwaited'
    <2>1. flights' = RemoveAt(flights, i)
        BY <1>2 DEF QueryFails
    <2>2. IF flights[i].live THEN screen'.state # "loading" ELSE screen'.state = screen.state
        BY <1>2 DEF QueryFails, IInv, StateTyped
    <2> QED
        BY <2>1, <2>2, RemovedAwaited
<1>3. ASSUME NEW i \in DOMAIN flights, AnsweredAll(i) PROVE OneAwaited'
    BY <1>3, FinishAwaited DEF AnsweredAll
<1>4. ASSUME NEW w \in Windows, ChooseWindow(w) PROVE OneAwaited'
    BY <1>4, RerunAwaited DEF ChooseWindow
<1>5. CASE Retry
    BY <1>5, RerunAwaited DEF Retry
<1>6. ASSUME NEW devices \in SUBSET Devices, DevicesReload(devices) PROVE OneAwaited'
    <2>1. CASE Rerun(window, devices)
        BY <2>1, RerunAwaited
    <2>2. CASE UNCHANGED <<flights, screen, empties>>
        BY <2>2, AwaitedStays
    <2> QED
        BY <1>6, <2>1, <2>2 DEF DevicesReload
<1>7. ASSUME NEW q \in Query, Silence(q) \/ \E value \in Values : Poll(q, value)
      PROVE  OneAwaited'
    BY <1>7, AwaitedStays DEF Silence, Poll
<1>8. CASE StoreTurns
    BY <1>8, AwaitedStays DEF StoreTurns
<1>9. CASE UNCHANGED vars
    BY <1>9, AwaitedStays DEF vars
<1> QED
    BY <1>1, <1>2, <1>3, <1>4, <1>5, <1>6, <1>7, <1>8, <1>9 DEF Next, Settles

\* ThroughputChart.tsx:37-54 and its like: a view that loads listens to exactly one
\* effect run, whose last answer or failure will end its loading; to the runs of
\* earlier windows, and once it shows its result, it listens no more.
THEOREM LoadingAwaitsOne == Spec => []OneAwaited
<1>1. Init => OneAwaited
    <2> SUFFICES ASSUME Init PROVE OneAwaited
        OBVIOUS
    <2>1. flights = <<Flight(view, window, up)>> /\ screen.state = "loading"
        BY DEF Init
    <2>2. DOMAIN flights = {1} /\ flights[1].live = TRUE
        BY <2>1 DEF Flight
    <2>3. Live(flights) = {1}
        BY <2>2 DEF Live
    <2> QED
        BY <2>1, <2>2, <2>3 DEF OneAwaited
<1> QED
    BY <1>1, ViewsInit, ViewsNext, AwaitedNext, PTL DEF Spec
===============================================================================
