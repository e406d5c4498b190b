-------------------------- MODULE AlarmConsoleProofs --------------------------
(***************************************************************************)
(* For any number of alarms, pages, requests in flight and                 *)
(* acknowledgements, and in whatever order they are answered: the alarm    *)
(* views show the answer to the query their controls stand for, no         *)
(* confirmed acknowledgement as open, and page by page every alarm once.   *)
(***************************************************************************)
EXTENDS AlarmConsole, SequenceTheorems, WellFoundedInduction, TLAPS

Current == [page |-> page, filter |-> filter]

\* What the pages hold does not matter, so their set is left open.
FetchOf(Pages) == [query : Query, live : BOOLEAN, read : BOOLEAN, page : Pages]

FetchesTyped == \E Pages : fetches \in Seq(FetchOf(Pages))

ControlsTyped == page \in Nat \ {0} /\ filter \in Filters

\* Only the fetch of the last render is listened to.
LiveIsCurrent == \A i \in DOMAIN fetches : fetches[i].live => fetches[i].query = Current

\* The inductive invariant behind ShowsTheQuery.
QueryInv == FetchesTyped /\ ControlsTyped /\ LiveIsCurrent /\ ShowsTheQuery

-------------------------------------------------------------------------------
\* The fetches stay fetches when the set of the pages they may hold grows.
LEMMA MorePages ==
    ASSUME NEW Pages, NEW All, Pages \subseteq All, NEW fs \in Seq(FetchOf(Pages))
    PROVE  fs \in Seq(FetchOf(All))
<1>1. FetchOf(Pages) \subseteq FetchOf(All)
    BY DEF FetchOf
<1>2. \A i \in 1..Len(fs) : fs[i] \in FetchOf(All)
    BY <1>1
<1>3. fs = [i \in 1..Len(fs) |-> fs[i]] /\ Len(fs) \in Nat
    OBVIOUS
<1> QED
    BY <1>2, <1>3

\* useBffQuery.ts:51-53: cancelling keeps the fetches and ends all listening.
LEMMA CancelledTyped ==
    ASSUME NEW Pages, NEW fs \in Seq(FetchOf(Pages))
    PROVE  /\ Cancelled(fs) \in Seq(FetchOf(Pages))
           /\ Len(Cancelled(fs)) = Len(fs)
           /\ \A i \in 1..Len(fs) : ~Cancelled(fs)[i].live
<1> DEFINE cut == Cancelled(fs)
<1>1. DOMAIN fs = 1..Len(fs) /\ Len(fs) \in Nat
    OBVIOUS
<1>2. cut = [i \in 1..Len(fs) |-> [fs[i] EXCEPT !.live = FALSE]]
    BY <1>1 DEF Cancelled
<1>3. ASSUME NEW i \in 1..Len(fs) PROVE cut[i] \in FetchOf(Pages) /\ ~cut[i].live
    <2>1. fs[i] \in FetchOf(Pages)
        BY <1>1
    <2>2. cut[i] = [fs[i] EXCEPT !.live = FALSE]
        BY <1>2
    <2> HIDE DEF cut
    <2> QED
        BY <2>1, <2>2 DEF FetchOf
<1> HIDE DEF cut
<1>4. cut \in Seq(FetchOf(Pages)) /\ Len(cut) = Len(fs)
    BY <1>1, <1>2, <1>3
<1> QED
    BY <1>3, <1>4 DEF cut

\* useBffQuery.ts:35-53: rendering with new controls leaves the fetch of that
\* render as the only one listened to.
LEMMA RefetchKeeps ==
    ASSUME NEW p \in Nat \ {0}, NEW f \in Filters, FetchesTyped,
           Refetch(p, f), page' = p, filter' = f
    PROVE  QueryInv'
<1>1. PICK Pages : fetches \in Seq(FetchOf(Pages))
    BY DEF FetchesTyped
<1> DEFINE q == [page |-> p, filter |-> f]
           All == Pages \cup {NoPage}
<1>2. q \in Query
    BY DEF Query
<1>3. Waiting(q) \in FetchOf(All) /\ Waiting(q).query = q
    BY <1>2 DEF Waiting, FetchOf
<1>4. /\ Cancelled(fetches) \in Seq(FetchOf(All))
      /\ \A i \in 1..Len(Cancelled(fetches)) : ~Cancelled(fetches)[i].live
    <2>1. fetches \in Seq(FetchOf(All))
        BY <1>1, MorePages
    <2> QED
        BY <2>1, CancelledTyped
<1>5. fetches' = Append(Cancelled(fetches), Waiting(q)) /\ status' = "loading"
    BY DEF Refetch
<1>6. fetches' \in Seq(FetchOf(All))
    BY <1>3, <1>4, <1>5
<1>7. \A i \in DOMAIN fetches' : fetches'[i].live => fetches'[i].query = q
    BY <1>3, <1>4, <1>5
<1> QED
    BY <1>5, <1>6, <1>7 DEF QueryInv, FetchesTyped, ControlsTyped, LiveIsCurrent, Current, ShowsTheQuery

\* Taking a settled fetch away leaves the others as they are.
LEMMA WithoutKeeps ==
    ASSUME NEW Pages, fetches \in Seq(FetchOf(Pages)), NEW i \in DOMAIN fetches
    PROVE  /\ Without(i) \in Seq(FetchOf(Pages))
           /\ \A j \in DOMAIN Without(i) : \E k \in DOMAIN fetches : Without(i)[j] = fetches[k]
<1>1. Len(fetches) - 1 \in Nat /\ DOMAIN fetches = 1..Len(fetches)
    OBVIOUS
<1>2. \A j \in 1..(Len(fetches) - 1) : (IF j < i THEN j ELSE j + 1) \in 1..Len(fetches)
    BY <1>1
<1> QED
    BY <1>1, <1>2 DEF Without

\* The initial state satisfies the invariant.
LEMMA QueryInit == Init => QueryInv
<1> SUFFICES ASSUME Init PROVE QueryInv
    OBVIOUS
<1>1. fetches = <<Waiting([page |-> 1, filter |-> "all"])>> /\ status = "loading"
      /\ page = 1 /\ filter = "all"
    BY DEF Init
<1>2. Waiting([page |-> 1, filter |-> "all"]) \in FetchOf({NoPage})
    BY ConsoleAssumption DEF Waiting, FetchOf, Query
<1>3. fetches \in Seq(FetchOf({NoPage}))
    BY <1>1, <1>2
<1> QED
    BY <1>1, <1>3, ConsoleAssumption
    DEF QueryInv, FetchesTyped, ControlsTyped, LiveIsCurrent, ShowsTheQuery, Waiting, Current

\* Steps that touch neither the controls nor what is shown.
LEMMA QuietKeeps ==
    ASSUME QueryInv, UNCHANGED <<controls, status, data, fetches, shownFor>>
    PROVE  QueryInv'
BY DEF QueryInv, controls, FetchesTyped, ControlsTyped, LiveIsCurrent, ShowsTheQuery, Current

\* Every step keeps the invariant.
LEMMA QueryNext == QueryInv /\ [Next]_vars => QueryInv'
<1> SUFFICES ASSUME QueryInv, [Next]_vars PROVE QueryInv'
    OBVIOUS
<1> USE DEF controls
<1>0. FetchesTyped /\ ControlsTyped /\ LiveIsCurrent /\ ShowsTheQuery
    BY DEF QueryInv
<1>1. ASSUME NEW i \in DOMAIN fetches, Serve(i) PROVE QueryInv'
    <2>1. PICK Pages : fetches \in Seq(FetchOf(Pages))
        BY <1>0 DEF FetchesTyped
    <2> DEFINE All == Pages \cup {ListAlarms(fetches[i].query)}
               served == [fetches[i] EXCEPT !.read = TRUE, !.page = ListAlarms(fetches[i].query)]
    <2>2. /\ fetches' = [fetches EXCEPT ![i] = served]
          /\ UNCHANGED <<page, filter, status, shownFor>>
        BY <1>1 DEF Serve
    <2>3. fetches \in Seq(FetchOf(All)) /\ ListAlarms(fetches[i].query) \in All
        BY <2>1, MorePages
    <2>4. /\ served \in FetchOf(All)
          /\ served.live = fetches[i].live
          /\ served.query = fetches[i].query
        <3>1. fetches[i] \in FetchOf(All)
            BY <2>3
        <3> HIDE DEF All
        <3> QED
            BY <2>3, <3>1 DEF FetchOf
    <2> HIDE DEF All, served
    <2>5. fetches' \in Seq(FetchOf(All))
        BY <2>3, <2>4, <2>2
    <2>6. \A j \in DOMAIN fetches' : /\ j \in DOMAIN fetches
                                     /\ fetches'[j].live = fetches[j].live
                                     /\ fetches'[j].query = fetches[j].query
        BY <2>3, <2>4, <2>2
    <2> QED
        BY <1>0, <2>2, <2>5, <2>6 DEF QueryInv, FetchesTyped, ControlsTyped, LiveIsCurrent, ShowsTheQuery, Current
<1>2. ASSUME NEW i \in DOMAIN fetches, Deliver(i) \/ FetchFails(i) PROVE QueryInv'
    <2>1. PICK Pages : fetches \in Seq(FetchOf(Pages))
        BY <1>0 DEF FetchesTyped
    <2>2. fetches' = Without(i) /\ UNCHANGED <<page, filter>>
        BY <1>2 DEF Deliver, FetchFails
    <2>3. FetchesTyped' /\ LiveIsCurrent'
        BY <1>0, <2>1, <2>2, WithoutKeeps DEF FetchesTyped, LiveIsCurrent, Current
    <2>4. ShowsTheQuery'
        <3>1. CASE Deliver(i) /\ fetches[i].live
            BY <1>0, <2>2, <3>1 DEF Deliver, LiveIsCurrent, ShowsTheQuery, Current
        <3>2. CASE Deliver(i) /\ ~fetches[i].live
            BY <1>0, <2>2, <3>2 DEF Deliver, ShowsTheQuery
        <3>3. CASE FetchFails(i)
            BY <1>0, <2>2, <3>3 DEF FetchFails, ShowsTheQuery
        <3> QED
            BY <1>2, <3>1, <3>2, <3>3
    <2> QED
        BY <1>0, <2>2, <2>3, <2>4 DEF QueryInv, ControlsTyped
<1>3. ASSUME NEW f \in Filters, ChooseFilter(f) PROVE QueryInv'
    BY <1>0, <1>3, RefetchKeeps DEF ChooseFilter
<1>4. ASSUME NextPage PROVE QueryInv'
    <2>1. page + 1 \in Nat \ {0} /\ filter \in Filters
        BY <1>0 DEF ControlsTyped
    <2> QED
        BY <1>0, <1>4, <2>1, RefetchKeeps DEF NextPage
<1>5. ASSUME PreviousPage PROVE QueryInv'
    <2>1. page - 1 \in Nat \ {0} /\ filter \in Filters
        BY <1>0, <1>5 DEF ControlsTyped, PreviousPage
    <2> QED
        BY <1>0, <1>5, <2>1, RefetchKeeps DEF PreviousPage
<1>6. ASSUME Retry PROVE QueryInv'
    BY <1>0, <1>6, RefetchKeeps DEF Retry, ControlsTyped
<1>7. ASSUME NEW n \in 1..MaxAcks, NEW a \in Alarms, AckArrives(n, a) PROVE QueryInv'
    <2>1. UNCHANGED <<page, filter>>
        BY <1>7 DEF AckArrives
    <2>2. CASE Refetch(page, filter)
        BY <1>0, <2>1, <2>2, RefetchKeeps DEF ControlsTyped
    <2>3. CASE UNCHANGED <<status, data, fetches, shownFor>>
        BY <2>1, <2>3, QuietKeeps
    <2> QED
        BY <1>7, <2>2, <2>3 DEF AckArrives
<1>8. ASSUME NEW n \in 1..MaxAcks, NEW a \in Alarms, AckServed(n, a) \/ AckFails(n, a) PROVE QueryInv'
    BY <1>8, QuietKeeps DEF AckServed, AckFails, hook
<1>9. ASSUME Acknowledge \/ AcknowledgeDevice PROVE QueryInv'
    BY <1>9, QuietKeeps DEF Acknowledge, AcknowledgeDevice, hook
<1>10. ASSUME NEW a \in Alarms, Raise(a) \/ Clear(a) PROVE QueryInv'
    BY <1>10, QuietKeeps DEF Raise, Clear, hook
<1>11. CASE UNCHANGED vars
    BY <1>11, QuietKeeps DEF vars, hook
<1> QED
    BY <1>1, <1>2, <1>3, <1>4, <1>5, <1>6, <1>7, <1>8, <1>9, <1>10, <1>11 DEF Next, Settles

-------------------------------------------------------------------------------
\* useBffQuery.ts:35-55: what a view shows is the answer to the query its
\* controls stand for, however many requests are in flight and in whatever
\* order they are answered, fail or are retried.
THEOREM AnswersMatchControls == Spec => []ShowsTheQuery
<1>1. QueryInv => ShowsTheQuery
    BY DEF QueryInv
<1> QED
    BY <1>1, QueryInit, QueryNext, PTL DEF Spec
-------------------------------------------------------------------------------
(* What a loading view waits for                                           *)

Live(fs) == {i \in DOMAIN fs : fs[i].live}

\* A view listens to one fetch while it is loading and to none otherwise.
OneAwaited ==
    IF status = "loading" THEN \E k \in DOMAIN fetches : Live(fetches) = {k}
    ELSE Live(fetches) = {}

\* useBffQuery.ts:35-53: the fetch of this render is the one that is awaited.
LEMMA RefetchAwaited ==
    ASSUME FetchesTyped, NEW p, NEW f, Refetch(p, f)
    PROVE  OneAwaited'
<1>1. PICK Pages : fetches \in Seq(FetchOf(Pages))
    BY DEF FetchesTyped
<1> DEFINE cut == Cancelled(fetches)
           new == Waiting([page |-> p, filter |-> f])
<1>2. cut \in Seq(FetchOf(Pages)) /\ \A i \in 1..Len(cut) : ~cut[i].live
    BY <1>1, CancelledTyped
<1>3. new.live = TRUE
    BY DEF Waiting
<1>4. fetches' = Append(cut, new) /\ status' = "loading"
    BY DEF Refetch
<1> HIDE DEF cut, new
<1>5. /\ DOMAIN fetches' = 1..(Len(cut) + 1) /\ Len(cut) \in Nat
      /\ fetches'[Len(cut) + 1] = new
      /\ \A i \in 1..Len(cut) : fetches'[i] = cut[i]
    BY <1>2, <1>4
<1>6. \A i \in DOMAIN fetches' : fetches'[i].live <=> i = Len(cut) + 1
    BY <1>2, <1>3, <1>5
<1>7. Len(cut) + 1 \in DOMAIN fetches'
    BY <1>5
<1>8. Live(fetches') = {Len(cut) + 1}
    BY <1>6, <1>7 DEF Live
<1> QED
    BY <1>4, <1>7, <1>8 DEF OneAwaited

\* A settled fetch that was not awaited leaves the awaited one; with that one
\* gone none is.
LEMMA WithoutAwaited ==
    ASSUME FetchesTyped, OneAwaited, NEW i \in DOMAIN fetches, fetches' = Without(i),
           IF fetches[i].live THEN status' # "loading" ELSE status' = status
    PROVE  OneAwaited'
<1>1. Len(fetches) \in Nat /\ DOMAIN fetches = 1..Len(fetches)
    BY DEF FetchesTyped
<1>2. /\ DOMAIN fetches' = 1..(Len(fetches) - 1)
      /\ \A j \in 1..(Len(fetches) - 1) : fetches'[j] = fetches[IF j < i THEN j ELSE j + 1]
    BY DEF Without
<1>3. CASE Live(fetches) = {}
    <2>1. \A j \in DOMAIN fetches' : ~fetches'[j].live
        <3>1. \A j \in 1..(Len(fetches) - 1) : (IF j < i THEN j ELSE j + 1) \in DOMAIN fetches
            BY <1>1
        <3> QED
            BY <1>2, <1>3, <3>1 DEF Live
    <2>2. status # "loading" /\ ~fetches[i].live
        BY <1>3 DEF OneAwaited, Live
    <2> QED
        BY <2>1, <2>2 DEF OneAwaited, Live
<1>4. ASSUME NEW k \in DOMAIN fetches, Live(fetches) = {k}
      PROVE  OneAwaited'
    <2>1. \A j \in DOMAIN fetches : fetches[j].live <=> j = k
        BY <1>4 DEF Live
    <2>2. CASE k = i
        <3>1. \A j \in 1..(Len(fetches) - 1) :
                (IF j < i THEN j ELSE j + 1) \in DOMAIN fetches \ {k}
            BY <1>1, <2>2
        <3>2. \A j \in DOMAIN fetches' : ~fetches'[j].live
            BY <1>2, <2>1, <3>1
        <3> QED
            BY <2>1, <2>2, <3>2 DEF OneAwaited, Live
    <2>3. CASE k # i
        <3> DEFINE n == IF k < i THEN k ELSE k - 1
        <3>1. n \in 1..(Len(fetches) - 1)
            BY <1>1, <2>3
        <3>2. \A j \in 1..(Len(fetches) - 1) :
                /\ (IF j < i THEN j ELSE j + 1) \in DOMAIN fetches
                /\ (IF j < i THEN j ELSE j + 1) = k <=> j = n
            BY <1>1, <2>3
        <3>3. \A j \in DOMAIN fetches' : fetches'[j].live <=> j = n
            BY <1>2, <2>1, <3>2
        <3> HIDE DEF n
        <3>4. Live(fetches') = {n} /\ n \in DOMAIN fetches'
            BY <1>2, <3>1, <3>3 DEF Live
        <3>5. status = "loading" /\ status' = status
            BY <1>4, <2>1, <2>3 DEF OneAwaited
        <3> QED
            BY <3>4, <3>5 DEF OneAwaited
    <2> QED
        BY <2>2, <2>3
<1> QED
    BY <1>3, <1>4 DEF OneAwaited

LEMMA AwaitedStays ==
    ASSUME OneAwaited, UNCHANGED <<status, fetches>>
    PROVE  OneAwaited'
BY DEF OneAwaited, Live

LEMMA AwaitedNext == QueryInv /\ OneAwaited /\ [Next]_vars => OneAwaited'
<1> SUFFICES ASSUME QueryInv, OneAwaited, [Next]_vars PROVE OneAwaited'
    OBVIOUS
<1>0. FetchesTyped
    BY DEF QueryInv
<1>1. ASSUME NEW i \in DOMAIN fetches, Serve(i) PROVE OneAwaited'
    <2>1. PICK Pages : fetches \in Seq(FetchOf(Pages))
        BY <1>0 DEF FetchesTyped
    <2> DEFINE served == [fetches[i] EXCEPT !.read = TRUE, !.page = ListAlarms(fetches[i].query)]
    <2>2. fetches' = [fetches EXCEPT ![i] = served] /\ status' = status
        BY <1>1 DEF Serve
    <2>3. served.live = fetches[i].live
        <3>1. fetches[i] \in FetchOf(Pages)
            BY <2>1
        <3> QED
            BY <3>1 DEF FetchOf
    <2> HIDE DEF served
    <2>4. DOMAIN fetches' = DOMAIN fetches /\ \A j \in DOMAIN fetches : fetches'[j].live = fetches[j].live
        BY <2>2, <2>3
    <2>5. Live(fetches') = Live(fetches)
        BY <2>4 DEF Live
    <2> QED
        BY <2>2, <2>4, <2>5 DEF OneAwaited
<1>2. ASSUME NEW i \in DOMAIN fetches, Deliver(i) PROVE OneAwaited'
    BY <1>0, <1>2, WithoutAwaited DEF Deliver
<1>3. ASSUME NEW i \in DOMAIN fetches, FetchFails(i) PROVE OneAwaited'
    BY <1>0, <1>3, WithoutAwaited DEF FetchFails
<1>4. ASSUME NEW f \in Filters, ChooseFilter(f) PROVE OneAwaited'
    BY <1>0, <1>4, RefetchAwaited DEF ChooseFilter
<1>5. ASSUME NextPage \/ PreviousPage \/ Retry PROVE OneAwaited'
    BY <1>0, <1>5, RefetchAwaited DEF NextPage, PreviousPage, Retry
<1>6. ASSUME NEW n \in 1..MaxAcks, NEW a \in Alarms, AckArrives(n, a) PROVE OneAwaited'
    <2>1. CASE Refetch(page, filter)
        BY <1>0, <2>1, RefetchAwaited
    <2>2. CASE UNCHANGED <<status, data, fetches, shownFor>>
        BY <2>2, AwaitedStays
    <2> QED
        BY <1>6, <2>1, <2>2 DEF AckArrives
<1>7. ASSUME NEW n \in 1..MaxAcks, NEW a \in Alarms, AckServed(n, a) \/ AckFails(n, a) PROVE OneAwaited'
    BY <1>7, AwaitedStays DEF AckServed, AckFails, hook
<1>8. ASSUME Acknowledge \/ AcknowledgeDevice PROVE OneAwaited'
    BY <1>8, AwaitedStays DEF Acknowledge, AcknowledgeDevice, hook
<1>9. ASSUME NEW a \in Alarms, Raise(a) \/ Clear(a) PROVE OneAwaited'
    BY <1>9, AwaitedStays DEF Raise, Clear, hook
<1>10. CASE UNCHANGED vars
    BY <1>10, AwaitedStays DEF vars, hook
<1> QED
    BY <1>1, <1>2, <1>3, <1>4, <1>5, <1>6, <1>7, <1>8, <1>9, <1>10 DEF Next, Settles

\* useBffQuery.ts:35-55: no alarm view loads without a request that will end its
\* loading, and none listens to two: of overlapping requests one alone decides
\* what is shown, whatever acknowledgements and clicks start new ones.
THEOREM LoadingAwaitsOne == Spec => []OneAwaited
<1>1. Init => OneAwaited
    <2> SUFFICES ASSUME Init PROVE OneAwaited
        OBVIOUS
    <2>1. fetches = <<Waiting([page |-> 1, filter |-> "all"])>> /\ status = "loading"
        BY DEF Init
    <2>2. DOMAIN fetches = {1} /\ fetches[1].live = TRUE
        BY <2>1 DEF Waiting
    <2>3. Live(fetches) = {1}
        BY <2>2 DEF Live
    <2> QED
        BY <2>1, <2>2, <2>3 DEF OneAwaited
<1> QED
    BY <1>1, QueryInit, QueryNext, AwaitedNext, PTL DEF Spec

-------------------------------------------------------------------------------
\* Less-than on the natural numbers, as a set of pairs.
Below == {p \in Nat \X Nat : p[1] < p[2]}

\* Every nonempty set of natural numbers has a least element.
LEMMA LeastNatural ==
    ASSUME NEW S \in SUBSET Nat, S # {}
    PROVE  \E n \in S : \A m \in S : n <= m
<1>1. IsWellFoundedOn(Below, Nat)
    BY NatLessThanWellFounded DEF OpToRel, Below
<1>2. PICK n \in S : \A m \in S : <<m, n>> \notin Below
    BY <1>1, WFMin
<1>3. ASSUME NEW m \in S PROVE n <= m
    <2>1. ~(m < n)
        BY <1>2 DEF Below
    <2> QED
        BY <2>1
<1> QED
    BY <1>3

\* Induction up to a bound, over the set of the numbers for which a fact holds.
LEMMA InductionUpTo ==
    ASSUME NEW N \in Nat, NEW G, 0 \in G, \A n \in 1..N : n - 1 \in G => n \in G
    PROVE  0..N \subseteq G
<1> DEFINE Bad == (0..N) \ G
<1> SUFFICES ASSUME Bad # {} PROVE FALSE
    OBVIOUS
<1>1. PICK n \in Bad : \A m \in Bad : n <= m
    <2>1. Bad \in SUBSET Nat
        OBVIOUS
    <2> HIDE DEF Bad
    <2> QED
        BY <2>1, LeastNatural
<1>2. n \in 1..N /\ n - 1 \in 0..N /\ ~(n <= n - 1)
    OBVIOUS
<1>3. n - 1 \in G
    BY <1>1, <1>2
<1> QED
    BY <1>2, <1>3

-------------------------------------------------------------------------------
(* The rows LibreNMS lists                                                 *)

\* The rows of the first n alarms, given those of the first n - 1.
RowsStep(f, n) ==
    IF n = 0 THEN <<>> ELSE IF Listed(n) THEN Append(f[n - 1], RowOf(n)) ELSE f[n - 1]

\* The recursion that collects the rows has a solution.
LEMMA RowsExist == \E f : f = [n \in 0..MaxAlarms |-> RowsStep(f, n)]
<1> DEFINE Has(n) == \E f : f = [m \in 0..n |-> RowsStep(f, m)]
           G == {n \in 0..MaxAlarms : Has(n)}
<1>0. MaxAlarms \in Nat
    BY ConsoleAssumption
<1>1. Has(0)
    <2> DEFINE f == [m \in 0..0 |-> <<>>]
    <2>1. f = [m \in 0..0 |-> RowsStep(f, m)]
        BY DEF RowsStep
    <2> QED
        BY <2>1
<1>2. ASSUME NEW n \in 1..MaxAlarms, Has(n - 1) PROVE Has(n)
    <2>1. PICK f : f = [m \in 0..(n - 1) |-> RowsStep(f, m)]
        BY <1>2
    <2> DEFINE g == [m \in 0..n |-> IF m < n THEN f[m] ELSE RowsStep(f, n)]
    <2>2. \A m \in 0..(n - 1) : g[m] = f[m] /\ f[m] = RowsStep(f, m)
        BY <1>0, <2>1
    <2>3. g[n] = RowsStep(f, n)
        BY <1>0
    <2> HIDE DEF Has
    <2>4. ASSUME NEW m \in 0..n PROVE g[m] = RowsStep(g, m)
        <3>1. /\ m # 0 => m - 1 \in 0..(n - 1)
              /\ m < n => m \in 0..(n - 1)
              /\ m < n \/ m = n
            BY <1>0
        <3> HIDE DEF g
        <3>2. RowsStep(g, m) = RowsStep(f, m)
            BY <2>2, <3>1 DEF RowsStep
        <3> QED
            BY <2>2, <2>3, <3>1, <3>2
    <2>5. g = [m \in 0..n |-> g[m]]
        OBVIOUS
    <2> HIDE DEF g
    <2> QED
        BY <2>4, <2>5 DEF Has
<1> HIDE DEF Has
<1>3. 0..MaxAlarms \subseteq G
    <2>1. 0 \in G /\ \A n \in 1..MaxAlarms : n - 1 \in G => n \in G
        BY <1>0, <1>1, <1>2
    <2> HIDE DEF G
    <2> QED
        BY <1>0, <2>1, InductionUpTo
<1> QED
    BY <1>0, <1>3 DEF Has

\* The rows of the first n alarms are those of the first n - 1 and, if it is
\* listed, of the n-th.
LEMMA RowsRecursion ==
    \A n \in 0..MaxAlarms : RowsUpTo[n] = RowsStep(RowsUpTo, n)
<1>1. RowsUpTo = [n \in 0..MaxAlarms |-> RowsStep(RowsUpTo, n)]
    BY RowsExist DEF RowsUpTo, RowsStep
<1> QED
    BY <1>1

FromAlarm(row) == row = RowOf(row.id) /\ Listed(row.id)

\* client.ts:242-243: the list has at most one row per alarm, and the rows are
\* those of alarms as they stand.
LEMMA ActiveRows ==
    ASSUME alarm \in [Alarms -> {"clear", "open", "acked"}]
    PROVE  /\ Active \in Seq(Row) /\ Len(Active) <= MaxAlarms
           /\ \A i \in 1..Len(Active) : FromAlarm(Active[i])
<1> DEFINE Good(s, n) == /\ s \in Seq(Row) /\ Len(s) <= n
                         /\ \A i \in 1..Len(s) : FromAlarm(s[i])
           G == {n \in 0..MaxAlarms : Good(RowsUpTo[n], n)}
<1>0. MaxAlarms \in Nat
    BY ConsoleAssumption
<1>1. Good(RowsUpTo[0], 0)
    <2>1. RowsUpTo[0] = <<>>
        BY <1>0, RowsRecursion DEF RowsStep
    <2> QED
        BY <2>1
<1>2. ASSUME NEW n \in 1..MaxAlarms, Good(RowsUpTo[n - 1], n - 1) PROVE Good(RowsUpTo[n], n)
    <2> DEFINE s == RowsUpTo[n - 1]
    <2>1. RowsUpTo[n] = IF Listed(n) THEN Append(s, RowOf(n)) ELSE s
        BY <1>0, RowsRecursion DEF RowsStep
    <2>2. RowOf(n) \in Row /\ RowOf(n).id = n
        BY DEF RowOf, Row, Alarms
    <2>3. s \in Seq(Row) /\ Len(s) <= n - 1 /\ Len(s) \in Nat /\ n \in Nat
        BY <1>0, <1>2
    <2>4. \A i \in 1..Len(s) : FromAlarm(s[i])
        BY <1>2
    <2> HIDE DEF s
    <2> DEFINE t == Append(s, RowOf(n))
    <2>5. /\ t \in Seq(Row) /\ Len(t) = Len(s) + 1
          /\ \A i \in 1..Len(s) : t[i] = s[i]
          /\ t[Len(s) + 1] = RowOf(n)
        BY <2>2, <2>3, AppendProperties
    <2> HIDE DEF t
    <2>6. \A i \in 1..Len(t) : i \in 1..Len(s) \/ i = Len(s) + 1
        BY <2>3, <2>5
    <2>7. Listed(n) => \A i \in 1..Len(t) : FromAlarm(t[i])
        BY <2>2, <2>4, <2>5, <2>6 DEF FromAlarm
    <2>8. Len(t) <= n /\ Len(s) <= n
        BY <2>3, <2>5
    <2> QED
        BY <2>1, <2>3, <2>4, <2>5, <2>7, <2>8 DEF t
<1> HIDE DEF Good
<1>3. 0..MaxAlarms \subseteq G
    <2>1. 0 \in G /\ \A n \in 1..MaxAlarms : n - 1 \in G => n \in G
        BY <1>0, <1>1, <1>2
    <2> HIDE DEF G
    <2> QED
        BY <1>0, <2>1, InductionUpTo
<1>4. Good(Active, MaxAlarms)
    BY <1>0, <1>3 DEF Active
<1> QED
    BY <1>4 DEF Good

\* client.ts:61-64: a page is a slice of the list, empty beyond its end.
LEMMA WindowRows ==
    ASSUME view \in Views, NEW S, NEW items \in Seq(S), NEW n \in Nat \ {0}
    PROVE  /\ WindowPage(items, n) \in Seq(S)
           /\ \A i \in DOMAIN WindowPage(items, n) :
                  \E j \in 1..Len(items) : WindowPage(items, n)[i] = items[j]
<1> DEFINE p == PageSize[view]
           from == (n - 1) * p + 1
           upTo == Least(n * p, Len(items))
<1>1. p \in Nat \ {0}
    BY ConsoleAssumption
<1> HIDE DEF p
<1>2. (n - 1) * p \in Nat /\ n * p \in Nat
    BY <1>1
<1>3. from \in Nat \ {0} /\ upTo \in Nat /\ upTo <= Len(items) /\ Len(items) \in Nat
    BY <1>2 DEF Least
<1>4. WindowPage(items, n) = SubSeq(items, from, upTo)
    BY DEF WindowPage, p
<1> HIDE DEF from, upTo
<1>5. \A i \in from..upTo : items[i] \in S
    BY <1>3
<1>6. /\ SubSeq(items, from, upTo) \in Seq(S)
      /\ Len(SubSeq(items, from, upTo)) = IF from <= upTo THEN upTo - from + 1 ELSE 0
      /\ \A i \in 1..(upTo - from + 1) : SubSeq(items, from, upTo)[i] = items[from + i - 1]
    BY <1>3, <1>5, SubSeqProperties
<1>7. DOMAIN SubSeq(items, from, upTo) = 1..Len(SubSeq(items, from, upTo))
    BY <1>6
<1>8. ASSUME NEW i \in DOMAIN SubSeq(items, from, upTo)
      PROVE  \E j \in 1..Len(items) : SubSeq(items, from, upTo)[i] = items[j]
    <2>1. i \in 1..(upTo - from + 1) /\ from + i - 1 \in 1..Len(items)
        BY <1>3, <1>6, <1>7, <1>8
    <2> QED
        BY <1>6, <2>1
<1> QED
    BY <1>4, <1>6, <1>8

-------------------------------------------------------------------------------
(* Acknowledgements                                                        *)

\* alarms.ts:59-63: an answer is a page of rows, whatever was asked for.
LEMMA AnswerTyped ==
    ASSUME TypeOK, NEW q \in Query
    PROVE  /\ ListAlarms(q) \in Page
           /\ \A i \in DOMAIN ListAlarms(q).rows : FromAlarm(ListAlarms(q).rows[i])
<1> DEFINE rows == WindowPage(Active, q.page)
<1>1. /\ Active \in Seq(Row)
      /\ \A i \in 1..Len(Active) : FromAlarm(Active[i])
    BY ActiveRows DEF TypeOK
<1>2. q.page \in Nat \ {0} /\ view \in Views
    BY DEF Query, TypeOK
<1>3. /\ rows \in Seq(Row)
      /\ \A i \in DOMAIN rows : \E j \in 1..Len(Active) : rows[i] = Active[j]
    <2> DEFINE s == Active
               n == q.page
    <2>1. s \in Seq(Row) /\ n \in Nat \ {0}
        BY <1>1, <1>2
    <2> HIDE DEF s, n
    <2>2. /\ WindowPage(s, n) \in Seq(Row)
          /\ \A i \in DOMAIN WindowPage(s, n) : \E j \in 1..Len(s) : WindowPage(s, n)[i] = s[j]
        BY <1>2, <2>1, WindowRows
    <2> QED
        BY <2>2 DEF s, n
<1>4. ListAlarms(q) = [rows |-> rows, total |-> Len(Active), hasNext |-> HasNext(Active, q.page)]
    BY DEF ListAlarms
<1> HIDE DEF rows
<1>5. HasNext(Active, q.page) \in BOOLEAN /\ Len(Active) \in Nat
    BY <1>1 DEF HasNext
<1> QED
    BY <1>1, <1>3, <1>4, <1>5 DEF Page

\* The fetches of the lemmas above, with the pages of the model.
LEMMA FetchIs == Fetch = FetchOf(Page)
BY DEF Fetch, FetchOf

\* useBffQuery.ts:36-39: what an effect sends out has no answer yet.
LEMMA WaitingTyped ==
    ASSUME NEW q \in Query
    PROVE  Waiting(q) \in Fetch /\ ~Waiting(q).read
<1>1. NoPage \in Page
    <2>1. <<>> \in Seq(Row)
        OBVIOUS
    <2> QED
        BY <2>1 DEF NoPage, Page
<1> QED
    BY <1>1 DEF Waiting, Fetch

\* useBffQuery.ts:33-53: after a reload no answer on its way is listened to.
LEMMA RefetchAnew ==
    ASSUME TypeOK, NEW p \in Nat \ {0}, NEW f \in Filters, Refetch(p, f)
    PROVE  /\ fetches' \in Seq(Fetch) /\ status' = "loading"
           /\ stranded' = {} /\ sinceAsked' = {} /\ UNCHANGED <<data, shownFor>>
           /\ \A i \in DOMAIN fetches' : fetches'[i].live => ~fetches'[i].read
<1> DEFINE q == [page |-> p, filter |-> f]
<1>1. q \in Query
    BY DEF Query
<1>2. Waiting(q) \in Fetch /\ ~Waiting(q).read
    BY <1>1, WaitingTyped
<1>3. /\ Cancelled(fetches) \in Seq(Fetch)
      /\ \A i \in 1..Len(Cancelled(fetches)) : ~Cancelled(fetches)[i].live
    BY CancelledTyped, FetchIs DEF TypeOK
<1>4. fetches' = Append(Cancelled(fetches), Waiting(q)) /\ status' = "loading"
      /\ stranded' = {} /\ sinceAsked' = {} /\ UNCHANGED <<data, shownFor>>
    BY DEF Refetch
<1> QED
    BY <1>2, <1>3, <1>4

\* A request to acknowledge is over: what the click asked for stands until it
\* was the last.
LEMMA OverTyped ==
    ASSUME TypeOK, AcksOwn, NEW n \in 1..MaxAcks, NEW a \in Alarms, NEW failed \in BOOLEAN,
           a \in acks[n].waiting \cup acks[n].done, Over(n, a, failed)
    PROVE  /\ acks' \in [1..MaxAcks -> Ack] /\ AcksOwn'
           /\ \A m \in 1..MaxAcks : acks'[m].ids = acks[m].ids \/ (m = n /\ IsLast(n, a))
<1> DEFINE ack == [acks[n] EXCEPT !.waiting = @ \ {a}, !.done = @ \ {a}, !.failed = failed]
<1>1. acks[n] \in Ack /\ acks \in [1..MaxAcks -> Ack] /\ acks[n].waiting \cup acks[n].done \subseteq acks[n].ids
    BY DEF TypeOK, AcksOwn
<1>2. /\ ack \in Ack /\ ack.ids = acks[n].ids
      /\ ack.waiting = acks[n].waiting \ {a} /\ ack.done = acks[n].done \ {a}
    BY <1>1 DEF Ack
<1>3. acks' = [acks EXCEPT ![n] = IF ack.waiting \cup ack.done = {} THEN NoAck ELSE ack]
    BY DEF Over
<1> HIDE DEF ack
<1>4. NoAck \in Ack /\ NoAck.waiting = {} /\ NoAck.done = {}
    BY DEF NoAck, Ack
<1>5. acks' \in [1..MaxAcks -> Ack]
    BY <1>1, <1>2, <1>3, <1>4
<1>6. AcksOwn'
    BY <1>1, <1>2, <1>3, <1>4 DEF AcksOwn
<1>7. acks'[n].ids = acks[n].ids \/ IsLast(n, a)
    BY <1>1, <1>2, <1>3 DEF IsLast
<1> QED
    BY <1>1, <1>3, <1>5, <1>6, <1>7

\* Rows stay as stale and as excused as they were while new confirmations are
\* remembered and excused, and no excuse is lost.
LEMMA RowsKept ==
    ASSUME NEW new, confirmed' \subseteq confirmed \cup new,
           \A a \in new : Excused(a)', \A a \in confirmed : Excused(a) => Excused(a)',
           sinceHeld \cup new \subseteq sinceHeld', sinceAsked \cup new \subseteq sinceAsked'
    PROVE  \A rows : /\ StaleIn(rows, sinceHeld) => StaleIn(rows, sinceHeld)'
                     /\ StaleIn(rows, sinceAsked) => StaleIn(rows, sinceAsked)'
                     /\ ExcusedIn(rows) => ExcusedIn(rows)'
BY DEF StaleIn, ExcusedIn

\* So does what is on its way and what is held, if the hook is left alone.
LEMMA ReflectsKept ==
    ASSUME Reflects, UNCHANGED <<listing, status, data, fetches>>,
           confirmed' \subseteq confirmed \cup (confirmed' \ confirmed),
           \A a \in confirmed' \ confirmed : Excused(a)',
           \A a \in confirmed : Excused(a) => Excused(a)',
           sinceHeld \cup (confirmed' \ confirmed) \subseteq sinceHeld',
           sinceAsked \cup (confirmed' \ confirmed) \subseteq sinceAsked'
    PROVE  Reflects'
<1>1. \A rows : /\ StaleIn(rows, sinceHeld) => StaleIn(rows, sinceHeld)'
                /\ StaleIn(rows, sinceAsked) => StaleIn(rows, sinceAsked)'
                /\ ExcusedIn(rows) => ExcusedIn(rows)'
    <2> DEFINE new == confirmed' \ confirmed
    <2>1. /\ \A a \in new : Excused(a)'
          /\ confirmed' \subseteq confirmed \cup new
          /\ sinceHeld \cup new \subseteq sinceHeld' /\ sinceAsked \cup new \subseteq sinceAsked'
        OBVIOUS
    <2> HIDE DEF new
    <2> QED
        BY <2>1, RowsKept
<1>2. ASSUME AnswersReflect PROVE AnswersReflect'
    BY <1>1, <1>2 DEF AnswersReflect
<1>3. ASSUME HeldReflects PROVE HeldReflects'
    BY <1>1, <1>3 DEF HeldReflects
<1> QED
    BY <1>2, <1>3 DEF Reflects

\* A reload: no answer is listened to, and what is held is as stale as before.
LEMMA ReloadReflects ==
    ASSUME TypeOK, Reflects, NEW p \in Nat \ {0}, NEW f \in Filters, Refetch(p, f),
           listing' = listing, sinceHeld \subseteq sinceHeld',
           confirmed' \subseteq confirmed \cup sinceHeld'
    PROVE  Reflects'
<1>1. /\ status' = "loading" /\ data' = data
      /\ \A i \in DOMAIN fetches' : fetches'[i].live => ~fetches'[i].read
    BY RefetchAnew
<1>2. AnswersReflect'
    BY <1>1 DEF AnswersReflect
<1>3. ASSUME HeldReflects PROVE HeldReflects'
    BY <1>1, <1>3 DEF HeldReflects, StaleIn
<1> QED
    BY <1>2, <1>3 DEF Reflects

\* The initial state satisfies the invariant behind AckReflected.
LEMMA AckInit == Init => AckInv
<1> SUFFICES ASSUME Init PROVE AckInv
    OBVIOUS
<1>1. [page |-> 1, filter |-> "all"] \in Query
    BY ConsoleAssumption DEF Query
<1>2. /\ Waiting([page |-> 1, filter |-> "all"]) \in Fetch
      /\ ~Waiting([page |-> 1, filter |-> "all"]).read
    BY <1>1, WaitingTyped
<1>3. NoPage \in Page
    <2>1. <<>> \in Seq(Row)
        OBVIOUS
    <2> QED
        BY <2>1 DEF NoPage, Page
<1>4. NoAck \in Ack /\ NoAck.waiting = {} /\ NoAck.done = {}
    BY DEF NoAck, Ack
<1>5. acks = [n \in 1..MaxAcks |-> NoAck]
    BY DEF Init
<1>6. TypeOK
    BY <1>1, <1>2, <1>3, <1>4, <1>5, ConsoleAssumption DEF Init, TypeOK
<1>7. AcksOwn
    BY <1>4, <1>5 DEF AcksOwn
<1>8. fetches = <<Waiting([page |-> 1, filter |-> "all"])>> /\ status = "loading" /\ confirmed = {}
    BY DEF Init
<1> QED
    BY <1>2, <1>6, <1>7, <1>8
    DEF AckInv, ConfirmedAcked, Reflects, AnswersReflect, HeldReflects, StaleIn

\* A click on Acknowledge takes a free slot.
LEMMA SendKeeps ==
    ASSUME AckInv, NEW ids \in SUBSET Alarms, Send(ids),
           UNCHANGED <<alarm, changes, setting, controls, hook, confirmations>>
    PROVE  AckInv'
<1> USE DEF controls, hook, setting, confirmations
<1>1. PICK n \in 1..MaxAcks :
          /\ acks[n] = NoAck
          /\ acks' = [acks EXCEPT ![n] = [ids |-> ids, waiting |-> ids, done |-> {}, failed |-> FALSE]]
    BY DEF Send
<1> DEFINE new == [ids |-> ids, waiting |-> ids, done |-> {}, failed |-> FALSE]
<1>2. new \in Ack /\ new.waiting \cup new.done \subseteq new.ids /\ NoAck.ids = {}
    BY DEF Ack, NoAck
<1>3. acks' = [acks EXCEPT ![n] = new] /\ acks \in [1..MaxAcks -> Ack]
    BY <1>1 DEF AckInv, TypeOK
<1> HIDE DEF new
<1>4. acks' \in [1..MaxAcks -> Ack] /\ \A m \in 1..MaxAcks : acks'[m] = IF m = n THEN new ELSE acks[m]
    BY <1>2, <1>3
<1>5. AcksOwn'
    BY <1>2, <1>4 DEF AckInv, AcksOwn
<1>6. \A a \in confirmed' : Excused(a) => Excused(a)'
    BY <1>1, <1>2, <1>4 DEF Excused
<1>7. TypeOK'
    BY <1>4 DEF AckInv, TypeOK
<1>8. Reflects'
    BY <1>6, ReflectsKept DEF AckInv
<1> QED
    BY <1>5, <1>7, <1>8 DEF AckInv, ConfirmedAcked

\* A reload: the hook anew, whatever was confirmed.
LEMMA ReloadKeeps ==
    ASSUME AckInv, NEW p \in Nat \ {0}, NEW f \in Filters, Refetch(p, f), page' = p, filter' = f,
           UNCHANGED <<alarm, changes, setting>>, acks' \in [1..MaxAcks -> Ack], AcksOwn',
           confirmed' \subseteq Alarms, ConfirmedAcked', sinceHeld' \subseteq Alarms,
           sinceHeld \subseteq sinceHeld', confirmed' \subseteq confirmed \cup sinceHeld'
    PROVE  AckInv'
<1> USE DEF setting
<1>1. TypeOK /\ Reflects
    BY DEF AckInv
<1>2. TypeOK'
    <2>1. /\ fetches' \in Seq(Fetch) /\ status' = "loading"
          /\ stranded' = {} /\ sinceAsked' = {} /\ UNCHANGED <<data, shownFor>>
        BY <1>1, RefetchAnew
    <2> QED
        BY <1>1, <2>1 DEF TypeOK
<1>3. Reflects'
    BY <1>1, ReloadReflects
<1> QED
    BY <1>2, <1>3 DEF AckInv

\* The BFF answers with the alarms as they are, so no confirmed one is open.
LEMMA ServeKeeps ==
    ASSUME AckInv, NEW i \in DOMAIN fetches, Serve(i) PROVE AckInv'
<1> USE DEF controls, setting, confirmations
<1>1. TypeOK /\ fetches \in Seq(Fetch) /\ fetches[i] \in Fetch
    BY DEF AckInv, TypeOK
<1>2. fetches[i].query \in Query
    BY <1>1 DEF Fetch
<1> DEFINE answer == ListAlarms(fetches[i].query)
           served == [fetches[i] EXCEPT !.read = TRUE, !.page = answer]
<1>3. answer \in Page /\ \A j \in DOMAIN answer.rows : FromAlarm(answer.rows[j])
    BY <1>1, <1>2, AnswerTyped
<1>4. fetches' = [fetches EXCEPT ![i] = served]
      /\ UNCHANGED <<alarm, changes, listing, view, page, filter, status, data, acks, shownFor,
                    confirmed, stranded, sinceAsked, sinceHeld>>
    BY DEF Serve
<1>5. listing # "unflagged" => StaleIn(answer.rows, sinceAsked) /\ ExcusedIn(answer.rows)
    <2> HIDE DEF answer
    <2> SUFFICES ASSUME listing # "unflagged", NEW j \in DOMAIN answer.rows,
                        ~answer.rows[j].acked, answer.rows[j].id \in confirmed
                 PROVE  FALSE
        BY DEF StaleIn, ExcusedIn
    <2> DEFINE a == answer.rows[j].id
    <2>1. alarm[a] = "acked"
        BY DEF AckInv, ConfirmedAcked
    <2>2. answer.rows[j] = RowOf(a) /\ Listed(a)
        BY <1>3 DEF FromAlarm
    <2>3. listing = "flagged"
        BY <1>1, <2>1, <2>2 DEF Listed, TypeOK
    <2>4. RowOf(a).acked
        BY <2>1, <2>3 DEF RowOf
    <2> QED
        BY <2>2, <2>4
<1> HIDE DEF answer
<1>6. served \in Fetch /\ served.page = answer
    BY <1>1, <1>3 DEF Fetch
<1> HIDE DEF served
<1>7. fetches' \in Seq(Fetch) /\ \A j \in DOMAIN fetches' : j \in DOMAIN fetches /\ fetches'[j] = IF j = i THEN served ELSE fetches[j]
    BY <1>1, <1>4, <1>6
<1>8. /\ \A rows : StaleIn(rows, sinceAsked) => StaleIn(rows, sinceAsked)'
      /\ \A rows : ExcusedIn(rows) => ExcusedIn(rows)'
      /\ HeldReflects => HeldReflects'
    BY <1>4 DEF StaleIn, ExcusedIn, Excused, HeldReflects
<1>9. ASSUME listing # "unflagged", AnswersReflect PROVE AnswersReflect'
    BY <1>5, <1>6, <1>7, <1>8, <1>9 DEF AnswersReflect
<1>10. TypeOK'
    BY <1>1, <1>4, <1>7 DEF TypeOK
<1> QED
    BY <1>4, <1>8, <1>9, <1>10 DEF AckInv, AcksOwn, ConfirmedAcked, Reflects

\* An answer that is shown was excused on its way; a failure shows none.
LEMMA SettleKeeps ==
    ASSUME AckInv, NEW i \in DOMAIN fetches, Deliver(i) \/ FetchFails(i) PROVE AckInv'
<1> USE DEF controls, setting, confirmations
<1>1. TypeOK /\ fetches \in Seq(Fetch) /\ fetches[i] \in Fetch
    BY DEF AckInv, TypeOK
<1>2. fetches' = Without(i)
      /\ UNCHANGED <<alarm, changes, listing, view, page, filter, acks, confirmed, stranded, sinceAsked>>
    BY DEF Deliver, FetchFails
<1>3. /\ fetches' \in Seq(Fetch)
      /\ \A j \in DOMAIN fetches' : \E k \in DOMAIN fetches : fetches'[j] = fetches[k]
    BY <1>1, <1>2, WithoutKeeps, FetchIs
<1>4. /\ \A rows, since : StaleIn(rows, since) => StaleIn(rows, since)'
      /\ \A rows : ExcusedIn(rows) => ExcusedIn(rows)'
    BY <1>2 DEF StaleIn, ExcusedIn, Excused
<1>5. ASSUME AnswersReflect PROVE AnswersReflect'
    <2>1. sinceAsked' = sinceAsked
        BY <1>2
    <2> QED
        BY <1>3, <1>4, <1>5, <2>1 DEF AnswersReflect
<1>6. /\ data' \in Page /\ shownFor' \in Query /\ sinceHeld' \subseteq Alarms
      /\ status' \in {"loading", "error", "empty", "success"}
    <2>1. fetches[i].page \in Page /\ fetches[i].query \in Query
        BY <1>1 DEF Fetch
    <2> QED
        BY <1>1, <2>1 DEF Deliver, FetchFails, TypeOK
<1>7. ASSUME AnswersReflect, HeldReflects PROVE HeldReflects'
    <2>1. CASE Deliver(i) /\ fetches[i].live
        <3>1. /\ StaleIn(fetches[i].page.rows, sinceAsked)
              /\ ExcusedIn(fetches[i].page.rows)
            BY <1>7, <2>1 DEF Deliver, AnswersReflect
        <3>2. data'.rows = fetches[i].page.rows /\ sinceHeld' = sinceAsked
            BY <2>1 DEF Deliver
        <3> QED
            BY <1>4, <3>1, <3>2 DEF HeldReflects
    <2>2. CASE Deliver(i) /\ ~fetches[i].live
        BY <1>4, <1>7, <2>2 DEF Deliver, HeldReflects
    <2>3. CASE FetchFails(i)
        BY <1>4, <1>7, <2>3 DEF FetchFails, HeldReflects
    <2> QED
        BY <2>1, <2>2, <2>3
<1>8. TypeOK'
    BY <1>1, <1>2, <1>3, <1>6 DEF TypeOK
<1> QED
    BY <1>2, <1>5, <1>7, <1>8 DEF AckInv, AcksOwn, ConfirmedAcked, Reflects

\* An acknowledgement that is over: what is shown is excused by what is left of
\* the click, by its failure, or is read again.
LEMMA ArriveKeeps ==
    ASSUME AckInv, NEW n \in 1..MaxAcks, NEW a \in Alarms, AckArrives(n, a) \/ AckFails(n, a)
    PROVE  AckInv'
<1> USE DEF controls, setting, confirmations
<1>0. TypeOK /\ AcksOwn /\ acks[n] \in Ack
    BY DEF AckInv, TypeOK
<1>1. PICK failed \in BOOLEAN : Over(n, a, failed)
    BY <1>0 DEF AckArrives, AckFails, Ack
<1>2. a \in acks[n].waiting \cup acks[n].done
    BY DEF AckArrives, AckFails
<1>3. /\ acks' \in [1..MaxAcks -> Ack] /\ AcksOwn'
      /\ \A m \in 1..MaxAcks : acks'[m].ids = acks[m].ids \/ (m = n /\ IsLast(n, a))
    BY <1>0, <1>1, <1>2, OverTyped
<1>4. UNCHANGED <<alarm, changes, listing, view, page, filter>>
    BY DEF AckArrives, AckFails
<1>5. /\ confirmed' \subseteq confirmed \cup {a}
      /\ a \in confirmed' => alarm[a] = "acked" \/ a \in confirmed
      /\ sinceHeld \cup (confirmed' \ confirmed) \subseteq sinceHeld'
      /\ sinceHeld' \subseteq sinceHeld \cup {a}
    BY DEF AckArrives, AckFails, Confirmed
<1>6. ConfirmedAcked' /\ confirmed' \subseteq Alarms
    BY <1>0, <1>4, <1>5 DEF AckInv, ConfirmedAcked, TypeOK
<1>7. CASE Refetch(page, filter)
    <2>1. sinceHeld' \subseteq Alarms /\ confirmed' \subseteq confirmed \cup sinceHeld'
        BY <1>0, <1>5 DEF TypeOK
    <2> QED
        BY <1>0, <1>3, <1>4, <1>5, <1>6, <1>7, <2>1, ReloadKeeps DEF TypeOK
<1>8. CASE /\ stranded' = IF IsLast(n, a) THEN stranded \cup acks[n].ids ELSE stranded
           /\ sinceAsked \cup (confirmed' \ confirmed) \subseteq sinceAsked'
           /\ sinceAsked' \subseteq sinceAsked \cup {a}
           /\ UNCHANGED <<status, data, fetches, shownFor>>
    <2>1. \A b : Excused(b) => Excused(b)'
        BY <1>3, <1>8 DEF Excused
    <2>2. Excused(a)'
        BY <1>0, <1>2, <1>3, <1>8 DEF Excused, AcksOwn
    <2>3. Reflects'
        BY <1>4, <1>5, <1>8, <2>1, <2>2, ReflectsKept DEF AckInv
    <2>4. TypeOK'
        <3>1. acks[n].ids \subseteq Alarms
            BY <1>0 DEF Ack
        <3> QED
            BY <1>0, <1>3, <1>4, <1>5, <1>6, <1>8, <3>1 DEF TypeOK
    <2> QED
        BY <1>3, <1>6, <2>3, <2>4 DEF AckInv
<1> QED
    BY <1>7, <1>8 DEF AckArrives, AckFails, Confirmed

\* LibreNMS performs an acknowledgement: no alarm is less acknowledged than before.
LEMMA ServedKeeps ==
    ASSUME AckInv, NEW n \in 1..MaxAcks, NEW a \in Alarms, AckServed(n, a)
    PROVE  AckInv'
<1> USE DEF controls, hook, setting, confirmations
<1>1. TypeOK /\ acks \in [1..MaxAcks -> Ack] /\ acks[n] \in Ack
    BY DEF AckInv, TypeOK
<1> DEFINE ack == [acks[n] EXCEPT !.waiting = @ \ {a}, !.done = @ \cup {a}]
<1>2. /\ ack \in Ack /\ ack.ids = acks[n].ids
      /\ ack.waiting \cup ack.done = acks[n].waiting \cup acks[n].done
    BY <1>1 DEF AckServed, Ack
<1>3. acks' = [acks EXCEPT ![n] = ack]
    BY <1>1 DEF AckServed
<1> HIDE DEF ack
<1>4. /\ acks' \in [1..MaxAcks -> Ack]
      /\ \A m \in 1..MaxAcks : /\ acks'[m].ids = acks[m].ids
                               /\ acks'[m].waiting \cup acks'[m].done = acks[m].waiting \cup acks[m].done
    BY <1>1, <1>2, <1>3
<1>5. /\ alarm' \in [Alarms -> {"clear", "open", "acked"}]
      /\ \A b \in Alarms : alarm[b] = "acked" => alarm'[b] = "acked"
    BY <1>1 DEF AckServed, TypeOK
<1>6. UNCHANGED <<changes, listing, view, page, filter, status, data, fetches, shownFor, stranded,
                  confirmed, sinceAsked, sinceHeld>>
    BY DEF AckServed
<1>7. Reflects'
    <2>1. \A b : Excused(b) => Excused(b)'
        BY <1>4, <1>6 DEF Excused
    <2> QED
        BY <1>6, <2>1, ReflectsKept DEF AckInv
<1>8. TypeOK'
    BY <1>1, <1>4, <1>5, <1>6 DEF TypeOK
<1> QED
    BY <1>1, <1>4, <1>5, <1>6, <1>7, <1>8 DEF AckInv, AcksOwn, ConfirmedAcked, TypeOK

\* LibreNMS raises or clears an alarm.
LEMMA WorldKeeps ==
    ASSUME AckInv, NEW a \in Alarms, Raise(a) \/ Clear(a)
    PROVE  AckInv'
<1> USE DEF controls, hook, setting, confirmations
<1>1. TypeOK
    BY DEF AckInv
<1>2. /\ changes' = changes + 1
      /\ UNCHANGED <<listing, view, page, filter, status, data, fetches, shownFor, stranded, acks,
                     sinceAsked, sinceHeld>>
    BY DEF Raise, Clear
<1>3. /\ alarm' \in [Alarms -> {"clear", "open", "acked"}]
      /\ confirmed' \subseteq confirmed /\ ConfirmedAcked'
    BY <1>1 DEF Raise, Clear, AckInv, ConfirmedAcked, TypeOK
<1>4. Reflects'
    <2>1. \A b : Excused(b) => Excused(b)'
        BY <1>2 DEF Excused
    <2> QED
        BY <1>2, <1>3, <2>1, ReflectsKept DEF AckInv
<1>5. TypeOK'
    BY <1>1, <1>2, <1>3 DEF TypeOK
<1> QED
    BY <1>2, <1>3, <1>4, <1>5 DEF AckInv, AcksOwn

\* Every step keeps the invariant behind AckReflected.
LEMMA AckNext == AckInv /\ [Next]_vars => AckInv'
<1> SUFFICES ASSUME AckInv, [Next]_vars PROVE AckInv'
    OBVIOUS
<1> USE DEF controls, setting, confirmations
<1>0. TypeOK /\ AcksOwn /\ ConfirmedAcked
    BY DEF AckInv
<1>1. ASSUME NEW p \in Nat \ {0}, NEW f \in Filters, Refetch(p, f), page' = p, filter' = f,
             UNCHANGED <<alarm, changes, setting, acks, confirmations>>
      PROVE  AckInv'
    <2>1. /\ acks' \in [1..MaxAcks -> Ack] /\ confirmed' \subseteq Alarms /\ AcksOwn' /\ ConfirmedAcked'
          /\ sinceHeld' \subseteq Alarms /\ sinceHeld' = sinceHeld /\ confirmed' = confirmed
        BY <1>0, <1>1 DEF TypeOK, AcksOwn, ConfirmedAcked
    <2> QED
        BY <1>1, <2>1, ReloadKeeps
<1>2. ASSUME NEW f \in Filters, ChooseFilter(f) PROVE AckInv'
    BY <1>1, <1>2 DEF ChooseFilter
<1>3. ASSUME NextPage PROVE AckInv'
    <2>1. page + 1 \in Nat \ {0} /\ filter \in Filters
        BY <1>0 DEF TypeOK
    <2> QED
        BY <1>1, <1>3, <2>1 DEF NextPage
<1>4. ASSUME PreviousPage PROVE AckInv'
    <2>1. page - 1 \in Nat \ {0} /\ filter \in Filters
        BY <1>0, <1>4 DEF TypeOK, PreviousPage
    <2> QED
        BY <1>1, <1>4, <2>1 DEF PreviousPage
<1>5. ASSUME Retry PROVE AckInv'
    BY <1>0, <1>1, <1>5 DEF Retry, TypeOK
<1>6. Open \subseteq Alarms /\ \A d : OpenRows(d) \subseteq Alarms
    <2>1. data.rows \in Seq(Row)
        BY <1>0 DEF TypeOK, Page
    <2>2. \A j \in DOMAIN data.rows : data.rows[j].id \in Alarms
        <3>1. \A j \in DOMAIN data.rows : data.rows[j] \in Row
            BY <2>1
        <3> QED
            BY <3>1 DEF Row
    <2> QED
        BY <2>2 DEF Open, OpenRows
<1>7. ASSUME Acknowledge PROVE AckInv'
    <2>1. PICK a \in Open : Send({a})
        BY <1>7 DEF Acknowledge
    <2> QED
        BY <1>6, <1>7, <2>1, SendKeeps DEF Acknowledge
<1>8. ASSUME AcknowledgeDevice PROVE AckInv'
    <2>1. PICK a \in Open : Send(OpenRows(DeviceOf[a]))
        BY <1>8 DEF AcknowledgeDevice
    <2> QED
        BY <1>6, <1>8, <2>1, SendKeeps DEF AcknowledgeDevice
<1>9. CASE UNCHANGED vars
    BY <1>9 DEF vars, hook, AckInv, TypeOK, AcksOwn, ConfirmedAcked, Reflects, AnswersReflect,
                HeldReflects, StaleIn, ExcusedIn, Excused
<1> QED
    BY <1>2, <1>3, <1>4, <1>5, <1>7, <1>8, <1>9, ServeKeeps, SettleKeeps, ArriveKeeps, ServedKeeps, WorldKeeps DEF Next, Settles

\* page.tsx:62-66 of the console, :39-45 and :59-72 of the inventory: a view that
\* shows a confirmed alarm as open shows a list asked for before the confirmation,
\* and only while the click is under way, after it failed in part, or while the
\* next read is under way or has failed; whatever the order of the answers.
THEOREM Acknowledged == Spec => []AckReflected
<1>1. AckInv => AckReflected
    <2> SUFFICES ASSUME AckInv, listing # "unflagged", NEW a \in Shown \cap confirmed
                 PROVE  a \in sinceHeld /\ (Excused(a) \/ status \in {"loading", "error"})
        BY DEF AckReflected
    <2>1. HeldReflects
        BY DEF AckInv, Reflects
    <2>2. a \in Open
        BY DEF Shown
    <2> QED
        BY <2>1, <2>2 DEF HeldReflects, StaleIn, ExcusedIn, Open
<1> QED
    BY <1>1, AckInit, AckNext, PTL DEF Spec

-------------------------------------------------------------------------------
(* The pages                                                               *)

\* The first n alarms of the list.
FirstRows(n) == SubSeq(Active, 1, Least(n * PageSize[view], Len(Active)))

PagesStep(f, n) == IF n = 0 THEN <<>> ELSE f[n - 1] \o WindowPage(Active, n)

\* client.ts:61-64: the n-th page goes on where the first n - 1 end.
LEMMA PageGoesOn ==
    ASSUME TypeOK
    PROVE  /\ FirstRows(0) = <<>>
           /\ \A n \in Nat \ {0} : FirstRows(n) = FirstRows(n - 1) \o WindowPage(Active, n)
<1> DEFINE p == PageSize[view]
           s == Active
           L == Len(s)
<1>1. p \in Nat \ {0} /\ s \in Seq(Row) /\ L \in Nat
    BY ConsoleAssumption, ActiveRows DEF TypeOK
<1> HIDE DEF p, s
<1>2. FirstRows(0) = <<>>
    <2>1. Least(0 * p, L) = 0
        BY <1>1 DEF Least
    <2>2. SubSeq(s, 1, 0) = <<>>
        BY SubSeqEmpty
    <2> QED
        BY <2>1, <2>2 DEF FirstRows, p, s
<1>3. ASSUME NEW n \in Nat \ {0}
      PROVE  FirstRows(n) = FirstRows(n - 1) \o WindowPage(Active, n)
    <2> DEFINE before == (n - 1) * p
               k == Least(before, L)
               e == Least(n * p, L)
    <2>1. before \in Nat /\ n * p \in Nat /\ before <= n * p
        <3>1. n - 1 \in Nat /\ before \in Nat
            BY <1>1
        <3>2. n * p = before + p
            BY <1>1
        <3> QED
            BY <1>1, <3>1, <3>2
    <2>2. /\ FirstRows(n) = SubSeq(s, 1, e) /\ FirstRows(n - 1) = SubSeq(s, 1, k)
          /\ WindowPage(Active, n) = SubSeq(s, before + 1, e)
        BY DEF FirstRows, WindowPage, p, s
    <2> HIDE DEF before
    <2>3. k \in 0..L /\ e \in k..L
        BY <1>1, <2>1 DEF Least
    <2>4. SubSeq(s, 1, k) \o SubSeq(s, k + 1, e) = SubSeq(s, 1, e)
        <3>1. 1 \in 1..(Len(s) + 1) /\ k \in (1 - 1)..Len(s) /\ e \in k..Len(s)
            BY <1>1, <2>3
        <3> HIDE DEF k, e
        <3>2. k + 1 \in Int /\ s \in Seq(Row)
            BY <1>1, <3>1
        <3> QED
            BY <3>1, <3>2, ConcatAdjacentSubSeq, Zenon
    <2>5. SubSeq(s, k + 1, e) = SubSeq(s, before + 1, e)
        <3>1. CASE before <= L
            <4>1. k = before
                BY <1>1, <2>1, <3>1 DEF Least
            <4> HIDE DEF k
            <4> QED
                BY <4>1, Zenon
        <3>2. CASE ~(before <= L)
            <4>1. k = L /\ e = L /\ e < k + 1 /\ e < before + 1
                BY <1>1, <2>1, <3>2 DEF Least
            <4>2. SubSeq(s, k + 1, e) = <<>> /\ SubSeq(s, before + 1, e) = <<>>
                <5>1. k + 1 \in Int /\ e \in Int /\ before + 1 \in Int
                    BY <1>1, <2>1, <2>3
                <5> HIDE DEF k, e
                <5> QED
                    BY <4>1, <5>1, SubSeqEmpty
            <4> QED
                BY <4>2
        <3> QED
            BY <3>1, <3>2
    <2> QED
        BY <2>2, <2>4, <2>5
<1> QED
    BY <1>2, <1>3

\* Read one after the other, the first pages are the first rows of the list.
LEMMA PagesAreFirstRows ==
    ASSUME TypeOK
    PROVE  \A n \in 0..(MaxAlarms + 1) : FirstPages[n] = FirstRows(n)
<1> DEFINE N == MaxAlarms + 1
           F == [n \in 0..N |-> FirstRows(n)]
           G == {n \in 0..N : FirstPages[n] = FirstRows(n)}
<1>0. N \in Nat
    BY ConsoleAssumption
<1> HIDE DEF N
<1>1. F = [n \in 0..N |-> PagesStep(F, n)]
    <2> SUFFICES ASSUME NEW n \in 0..N PROVE FirstRows(n) = PagesStep(F, n)
        OBVIOUS
    <2>1. CASE n = 0
        BY <2>1, PageGoesOn DEF PagesStep
    <2>2. CASE n # 0
        <3>1. n \in Nat \ {0} /\ n - 1 \in 0..N
            BY <1>0, <2>2
        <3>2. F[n - 1] = FirstRows(n - 1)
            BY <3>1
        <3> HIDE DEF F
        <3> QED
            BY <2>2, <3>1, <3>2, PageGoesOn DEF PagesStep
    <2> QED
        BY <2>1, <2>2
<1> HIDE DEF F
<1>2. \E f : f = [n \in 0..N |-> PagesStep(f, n)]
    BY <1>1
<1>3. FirstPages = [n \in 0..N |-> PagesStep(FirstPages, n)]
    BY <1>2 DEF FirstPages, PagesStep, N
<1>4. \A n \in 0..N : FirstPages[n] = PagesStep(FirstPages, n)
    BY <1>3
<1>5. 0 \in G
    <2>1. 0 \in 0..N
        BY <1>0
    <2> QED
        BY <1>4, <2>1, PageGoesOn DEF PagesStep
<1>6. ASSUME NEW n \in 1..N, n - 1 \in G PROVE n \in G
    <2>1. n \in Nat \ {0} /\ n \in 0..N /\ FirstPages[n - 1] = FirstRows(n - 1)
        BY <1>0, <1>6
    <2> QED
        BY <1>4, <2>1, PageGoesOn DEF PagesStep
<1>7. 0..N \subseteq G
    <2> HIDE DEF G
    <2> QED
        BY <1>0, <1>5, <1>6, InductionUpTo
<1> QED
    BY <1>7 DEF N

\* client.ts:61-64, alarms.ts:33-35: for any list and any page size the pages
\* cover the list.
LEMMA PagesCoverTyped == TypeOK => PagesCover
<1> SUFFICES ASSUME TypeOK PROVE PagesCover
    OBVIOUS
<1> DEFINE p == PageSize[view]
           L == Len(Active)
           N == MaxAlarms + 1
           Last(n) == ~HasNext(Active, n) /\ \A m \in 1..(n - 1) : HasNext(Active, m)
           last == CHOOSE n \in 1..N : Last(n)
<1>1. /\ p \in Nat \ {0} /\ Active \in Seq(Row) /\ L \in Nat /\ L <= MaxAlarms
      /\ MaxAlarms \in Nat
    BY ConsoleAssumption, ActiveRows DEF TypeOK
<1>2. \A n : HasNext(Active, n) <=> n * p < L
    BY DEF HasNext
<1> HIDE DEF p, L
<1>3. \A n \in Nat : n <= n * p
    BY <1>1
<1>4. \E n \in 1..N : Last(n)
    <2> DEFINE S == {n \in 1..N : ~HasNext(Active, n)}
    <2>1. N \in S
        <3>1. N \in Nat /\ N \in 1..N /\ L < N
            BY <1>1
        <3> HIDE DEF N
        <3>2. N <= N * p
            BY <1>3, <3>1
        <3>3. N * p \in Nat
            BY <1>1, <3>1
        <3>4. ~(N * p < L)
            BY <1>1, <3>1, <3>2, <3>3
        <3> QED
            BY <1>2, <3>1, <3>4
    <2>2. S \in SUBSET Nat
        BY <1>1
    <2> HIDE DEF S
    <2>3. PICK n \in S : \A m \in S : n <= m
        BY <2>1, <2>2, LeastNatural
    <2>4. n \in 1..N /\ ~HasNext(Active, n)
        BY <2>3 DEF S
    <2>5. ASSUME NEW m \in 1..(n - 1) PROVE HasNext(Active, m)
        <3>1. m \in 1..N /\ ~(n <= m)
            BY <1>1, <2>4
        <3>2. m \notin S
            BY <2>3, <3>1
        <3> QED
            BY <3>1, <3>2 DEF S
    <2> QED
        BY <2>4, <2>5
<1> HIDE DEF Last
<1>5. last \in 1..N /\ Last(last)
    BY <1>4
<1> HIDE DEF last
<1>6. /\ last \in Nat /\ last \in 0..N /\ last - 1 \in Nat
      /\ ~(last * p < L) /\ \A m \in 1..(last - 1) : m * p < L
    <2>1. last \in Nat /\ last \in 0..N /\ last - 1 \in Nat
        BY <1>1, <1>5
    <2>2. ~HasNext(Active, last) /\ \A m \in 1..(last - 1) : HasNext(Active, m)
        BY <1>5 DEF Last
    <2> HIDE DEF N
    <2> QED
        BY <1>2, <2>1, <2>2
<1>7. FirstPages[last] = Active
    <2>1. FirstPages[last] = FirstRows(last)
        BY <1>6, PagesAreFirstRows
    <2>2. Least(last * p, L) = L
        <3>1. last * p \in Nat
            BY <1>1, <1>6
        <3> QED
            BY <1>1, <1>6, <3>1 DEF Least
    <2> QED
        BY <1>1, <2>1, <2>2, SubSeqFull DEF FirstRows, p, L
<1>8. ASSUME NEW n \in 1..last, WindowPage(Active, n) = <<>> PROVE Active = <<>>
    <2> DEFINE from == (n - 1) * p + 1
               upTo == Least(n * p, L)
    <2>1. WindowPage(Active, n) = SubSeq(Active, from, upTo)
        BY DEF WindowPage, p, L
    <2>2. /\ (n - 1) * p \in Nat /\ n * p \in Nat /\ (n - 1) * p < n * p
        <3>1. n \in Nat /\ n - 1 \in Nat
            BY <1>6
        <3>2. n * p = (n - 1) * p + p
            BY <1>1, <3>1
        <3>3. (n - 1) * p \in Nat
            BY <1>1, <3>1
        <3> QED
            BY <1>1, <3>2, <3>3
    <2>3. from \in Nat \ {0} /\ upTo \in Nat /\ upTo <= L
        BY <1>1, <2>2 DEF Least
    <2>4. ~(from <= upTo)
        <3> SUFFICES ASSUME from <= upTo PROVE FALSE
            OBVIOUS
        <3> HIDE DEF from, upTo
        <3>1. \A i \in from..upTo : Active[i] \in Row
            BY <1>1, <2>3 DEF L
        <3>2. Len(SubSeq(Active, from, upTo)) = upTo - from + 1
            <4>1. from \in Int /\ upTo \in Int
                BY <2>3
            <4>2. Len(SubSeq(Active, from, upTo)) = IF from <= upTo THEN upTo - from + 1 ELSE 0
                BY <3>1, <4>1, SubSeqProperties
            <4> QED
                BY <4>2
        <3>3. Len(SubSeq(Active, from, upTo)) = 0
            <4>1. SubSeq(Active, from, upTo) = <<>>
                BY <1>8, <2>1, Zenon
            <4>2. Len(<<>>) = 0
                OBVIOUS
            <4> QED
                BY <4>1, <4>2, Zenon
        <3> QED
            BY <2>3, <3>2, <3>3
    <2>5. L <= (n - 1) * p
        BY <1>1, <2>2, <2>4 DEF Least
    <2>6. n = 1
        <3> SUFFICES ASSUME n # 1 PROVE FALSE
            OBVIOUS
        <3>1. n - 1 \in 1..(last - 1)
            BY <1>6
        <3>2. (n - 1) * p < L
            BY <1>6, <3>1
        <3> QED
            BY <1>1, <2>2, <2>5, <3>2
    <2>7. L = 0
        BY <1>1, <2>5, <2>6
    <2> QED
        BY <1>1, <2>7 DEF L
<1> QED
    BY <1>7, <1>8 DEF PagesCover, last, Last, N

\* client.ts:61-64 and alarms.ts:33-35: for any number of alarms and any page
\* size, paging from the first page for as long as there is a next one shows every
\* alarm once, and no page on the way is empty.
THEOREM PagingComplete == Spec => []PagesCover
<1>1. AckInv => TypeOK
    BY DEF AckInv
<1> QED
    BY <1>1, PagesCoverTyped, AckInit, AckNext, PTL DEF Spec
===============================================================================
