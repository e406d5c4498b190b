------------------------------ MODULE MetricViews -----------------------------
(***************************************************************************)
(* Metrics from the time-series database to the screen: the reader of the  *)
(* BFF with its routes, and the views of the browser that join the answers *)
(* of several queries, over a store that fails and devices that fall       *)
(* silent.  One view is open at a time.                                    *)
(***************************************************************************)
EXTENDS Naturals, FiniteSets, SequencesExt

CONSTANTS
    Devices,
    PlaceOf,       \* the place of a device in the list of the page
    Values,        \* numbers a device reports, 0 among them
    TopN,          \* rows the list of the top interfaces has at most, 8 in the source
    MaxPolls,      \* bound on points collected, for model checking
    MaxChanges,    \* bound on faults, silences and changes of the device list
    MaxFlights     \* bound on effect runs under way

ASSUME ViewsAssumption ==
    /\ IsFiniteSet(Devices) /\ Devices # {} /\ Values \subseteq Nat
    /\ PlaceOf \in [Devices -> Nat]
    /\ \A d, e \in Devices : PlaceOf[d] = PlaceOf[e] => d = e
    /\ TopN \in Nat \ {0}
    /\ MaxPolls \in Nat /\ MaxChanges \in Nat /\ MaxFlights \in Nat \ {0}

\* The two readings a view shows side by side: in and out, used and free.
Metrics == {"first", "second"}
Windows == {"hour", "day"}

\* A metric cell, the CPU and memory heatmap, the throughput chart and a metric
\* history of one device, the fleet trend, and the top interfaces.
Views == {"cell", "heatmap", "chart", "history", "trend", "top"}

Query == [device : Devices, metric : Metrics]

\* What a query is answered with: the values, oldest first, or why none.
Answer == [values : Seq(Values), reason : {"DATA", "NO_DATA", "UPSTREAM_UNAVAILABLE"}]

VARIABLES
    store,        \* the database: "up", "down" (or hanging until the abort)
    points,       \* its points, per query and window
    polls, changes,
    up,           \* devices the page holds as reachable
    view,
    window,       \* the range the user has chosen
    flights,      \* effect runs, as [window, waiting, got, live], oldest first
    screen,       \* what the view shows, as [state, window, rows]
    \* History, read by the properties only:
    measured,     \* values ever collected, per query
    empties       \* queries of the shown run the store answered with no row

database == <<store, points, polls, measured>>
vars == <<database, changes, up, view, window, flights, screen, empties>>

\* A row names the measured values it shows or is computed from.
Row == [device : Devices, metric : Metrics, values : SUBSET Values]

TypeOK ==
    /\ store \in {"up", "down"}
    /\ points \in [Query -> [Windows -> Seq(Values)]]
    /\ up \subseteq Devices /\ view \in Views /\ window \in Windows
    /\ \A i \in DOMAIN flights :
         /\ flights[i].window \in Windows /\ flights[i].waiting \subseteq Query
         /\ DOMAIN flights[i].got \subseteq Query /\ Range(flights[i].got) \subseteq Answer
         /\ flights[i].live \in BOOLEAN
    /\ screen \in [state : {"loading", "error", "empty", "ready"}, window : Windows,
                   rows : SUBSET Row]
    /\ measured \in [Query -> SUBSET Values]

-------------------------------------------------------------------------------
(* The reader of the BFF                                                   *)

\* Mutant: an absent reading is zero.
LatestOrZero(q) ==
    IF store = "down" THEN [values |-> <<>>, reason |-> "UPSTREAM_UNAVAILABLE"]
    ELSE IF points[q]["hour"] = <<>> THEN [values |-> <<0>>, reason |-> "DATA"]
    ELSE [values |-> <<Last(points[q]["hour"])>>, reason |-> "DATA"]

\* queryLatest looks back one hour; an outage is a reason, not an error.
Latest(q) ==
    IF store = "down" THEN [values |-> <<>>, reason |-> "UPSTREAM_UNAVAILABLE"]
    ELSE IF points[q]["hour"] = <<>> THEN [values |-> <<>>, reason |-> "NO_DATA"]
    ELSE [values |-> <<Last(points[q]["hour"])>>, reason |-> "DATA"]

\* querySeries: the points of the window, none of them being an answer, too.
\* When the store is down it throws, and the route answers 502.
Points(q, w) ==
    IF store = "down" THEN [values |-> <<>>, reason |-> "UPSTREAM_UNAVAILABLE"]
    ELSE [values |-> points[q][w], reason |-> IF points[q][w] = <<>> THEN "NO_DATA" ELSE "DATA"]

AsksLatest == view \in {"cell", "heatmap"}

\* Mutant: an outage is an empty series.
SeriesNeverFails == FALSE

SeriesFails == ~AsksLatest /\ store = "down"

-------------------------------------------------------------------------------
(* The views                                                               *)

\* A row of a panel, a chart and a history are of one device.
OneDevice == CHOOSE d \in Devices : TRUE

CellAsks == {[device |-> OneDevice, metric |-> "first"]}

HistoryAsks == {[device |-> OneDevice, metric |-> "second"]}

ChartAsks == [device : {OneDevice}, metric : Metrics]

\* The heatmap and the trend are of the reachable devices.
HeatmapAsks(devices) == [device : devices, metric : Metrics]

TrendAsks(devices) == [device : devices, metric : {"first"}]

Asked(v, devices) ==
    CASE v = "cell"    -> CellAsks
      [] v = "history" -> HistoryAsks
      [] v = "chart"   -> ChartAsks
      [] v = "heatmap" -> HeatmapAsks(devices)
      [] v = "trend"   -> TrendAsks(devices)
      [] v = "top"     -> Query

\* Nearest rank: the least value that p percent of the values, rounded up, do not
\* exceed; there is none of nothing.
Percentile(values, p) ==
    LET rank == (p * Len(values) + 99) \div 100
        Reaches(v) == Cardinality({i \in DOMAIN values : values[i] <= v}) >= rank
    IN  CHOOSE v \in Range(values) :
            Reaches(v) /\ \A u \in Range(values) : Reaches(u) => v <= u

\* Mutant: a reading that is missing counts for nothing in the ratio.
HasRatioOfOne(used, free) == used # <<>> \/ free # <<>>

\* A memory cell is a ratio of both readings, unless they are both zero.
HasRatio(used, free) == used # <<>> /\ free # <<>> /\ used[1] + free[1] > 0

\* CPU is left to the cell; a memory cell is of two readings.
HeatmapRows(got) ==
    LET Reading(d, m) == got[[device |-> d, metric |-> m]].values
    IN  {[device |-> d, metric |-> "first",
          values |-> Range(Reading(d, "first")) \cup Range(Reading(d, "second"))] :
             d \in {q.device : q \in {p \in DOMAIN got :
                      HasRatio(Reading(p.device, "first"), Reading(p.device, "second"))}}}

WithValues(got) == {q \in DOMAIN got : got[q].values # <<>>}

\* The top interfaces ask device by device, first in and then out.
Turn(q) == 2 * PlaceOf[q.device] + IF q.metric = "first" THEN 0 ELSE 1

Collected(got) ==
    {[device |-> q.device, metric |-> q.metric, p95 |-> Percentile(got[q].values, 95)] :
        q \in WithValues(got)}

\* What a stable sort by the percentile, greatest first, puts before an entry.
Above(entries, e) ==
    {o \in entries : o.p95 > e.p95 \/ (o.p95 = e.p95 /\ Turn(o) < Turn(e))}

\* Of those sorted, the first TopN.
TopRows(got) ==
    LET entries == Collected(got)
    IN  {[device |-> e.device, metric |-> e.metric, values |-> {e.p95}] :
            e \in {o \in entries : Cardinality(Above(entries, o)) < TopN}}

SeriesRows(got) ==
    {[device |-> q.device, metric |-> q.metric, values |-> Range(got[q].values)] :
        q \in WithValues(got)}

RowsOf(v, got) ==
    CASE v = "heatmap" -> HeatmapRows(got)
      [] v = "top"     -> TopRows(got)
      [] OTHER         -> SeriesRows(got)

\* A cell shows "Not available", and the heatmap one N/A per reachable device
\* without a row; the charts have an empty state.
StateOf(v, rows, devices) ==
    IF v = "heatmap" THEN IF devices = {} THEN "empty" ELSE "ready"
    ELSE IF v # "cell" /\ rows = {} THEN "empty" ELSE "ready"

Flight(v, w, devices) ==
    [window |-> w, waiting |-> Asked(v, devices), got |-> <<>>, live |-> TRUE]

\* Mutant: the effect has no cleanup.
Uncancelled(fs) == fs

Cancelled(fs) == [i \in DOMAIN fs |-> [fs[i] EXCEPT !.live = FALSE]]

\* A dependency of the effect has changed: the last run is cancelled.
Rerun(w, devices) ==
    /\ Len(flights) < MaxFlights
    /\ flights' = Append(Cancelled(flights), Flight(view, w, devices))
    /\ screen' = [screen EXCEPT !.state = "loading", !.window = w, !.rows = {}]
    /\ empties' = {}

Init ==
    /\ store = "up" /\ polls = 0 /\ changes = 0
    /\ points = [q \in Query |-> [w \in Windows |-> <<>>]]
    /\ measured = [q \in Query |-> {}]
    /\ up \in SUBSET Devices
    /\ view \in Views
    /\ window \in Windows /\ (AsksLatest => window = "hour")
    /\ flights = <<Flight(view, window, up)>>
    /\ screen = [state |-> "loading", window |-> window, rows |-> {}]
    /\ empties = {}

\* The run is over and the view, if it is still the one shown, takes its result.
Finish(i, got) ==
    /\ flights' = RemoveAt(flights, i)
    /\ IF flights[i].live
       THEN LET rows == RowsOf(view, got)
            IN  /\ screen' = [state |-> StateOf(view, rows, up),
                              window |-> flights[i].window, rows |-> rows]
                /\ empties' = {q \in DOMAIN got : got[q].reason = "NO_DATA"}
       ELSE UNCHANGED <<screen, empties>>

\* The answers so far and that of q.
With(got, q, answer) == [p \in DOMAIN got \cup {q} |-> IF p = q THEN answer ELSE got[p]]

\* The top interfaces ask one after the other, every other view at once.
InTurn(i, q) ==
    /\ q \in flights[i].waiting
    /\ view = "top" => \A p \in flights[i].waiting : Turn(q) <= Turn(p)

\* The BFF asks the store.  The last answer completes the join.
Answered(i, q) ==
    /\ InTurn(i, q)
    /\ ~SeriesFails
    /\ LET answer == IF AsksLatest THEN Latest(q) ELSE Points(q, flights[i].window)
           got == With(flights[i].got, q, answer)
       IN  IF flights[i].waiting = {q} THEN Finish(i, got)
           ELSE /\ flights' = [flights EXCEPT ![i].waiting = @ \ {q}, ![i].got = got]
                /\ UNCHANGED <<screen, empties>>
    /\ UNCHANGED <<database, changes, up, view, window>>

\* Nothing to ask: the join of no queries is done at once.
AnsweredAll(i) ==
    /\ flights[i].waiting = {}
    /\ Finish(i, flights[i].got)
    /\ UNCHANGED <<database, changes, up, view, window>>

\* Mutant: the failure is swallowed.
QueryFailsSilently(i, q) ==
    /\ InTurn(i, q)
    /\ flights' = RemoveAt(flights, i)
    /\ UNCHANGED <<database, changes, up, view, window, screen, empties>>

\* One query fails, for the store or on the way, and with it the join.
QueryFails(i, q) ==
    /\ InTurn(i, q)
    /\ flights' = RemoveAt(flights, i)
    /\ screen' = IF flights[i].live THEN [screen EXCEPT !.state = "error"] ELSE screen
    /\ UNCHANGED <<database, changes, up, view, window, empties>>

Settles(i) ==
    \/ \E q \in Query : QueryFails(i, q) \/ Answered(i, q)
    \/ AnsweredAll(i)

\* The range control of the pages with a series.
ChooseWindow(w) ==
    /\ ~AsksLatest /\ w # window
    /\ window' = w
    /\ Rerun(w, up)
    /\ UNCHANGED <<database, changes, up, view>>

\* Only a cell offers Retry, once it shows an error.
Retry ==
    /\ view = "cell" /\ screen.state = "error"
    /\ Rerun(window, up)
    /\ UNCHANGED <<database, changes, up, view, window>>

\* The page reads its devices again.  The trend depends on which are reachable;
\* the heatmap on which there are, and these stay the same.
DevicesReload(devices) ==
    /\ changes < MaxChanges /\ changes' = changes + 1
    /\ devices # up
    /\ up' = devices
    /\ IF view = "trend" THEN Rerun(window, devices) ELSE UNCHANGED <<flights, screen, empties>>
    /\ UNCHANGED <<database, view, window>>

-------------------------------------------------------------------------------
(* Collection                                                              *)

Poll(q, value) ==
    /\ polls < MaxPolls /\ polls' = polls + 1
    /\ points' = [points EXCEPT ![q] = [w \in Windows |-> Append(@[w], value)]]
    /\ measured' = [measured EXCEPT ![q] = @ \cup {value}]
    /\ UNCHANGED <<store, changes, up, view, window, flights, screen, empties>>

\* A device has been silent for more than an hour, or an OID is withheld.
Silence(q) ==
    /\ changes < MaxChanges /\ changes' = changes + 1
    /\ points[q]["hour"] # <<>>
    /\ points' = [points EXCEPT ![q]["hour"] = <<>>]
    /\ UNCHANGED <<store, polls, measured, up, view, window, flights, screen, empties>>

StoreTurns ==
    /\ changes < MaxChanges /\ changes' = changes + 1
    /\ store' = IF store = "up" THEN "down" ELSE "up"
    /\ UNCHANGED <<points, polls, measured, up, view, window, flights, screen, empties>>

Next ==
    \/ \E i \in DOMAIN flights : Settles(i)
    \/ \E w \in Windows : ChooseWindow(w)
    \/ Retry
    \/ \E devices \in SUBSET Devices : DevicesReload(devices)
    \/ \E q \in Query : Silence(q) \/ \E value \in Values : Poll(q, value)
    \/ StoreTurns

Spec == Init /\ [][Next]_vars

\* Every query is answered or fails: the BFF aborts one after TIMEOUT_MS.
FairSpec == Spec /\ \A i \in 1..MaxFlights : WF_vars(i \in DOMAIN flights /\ Settles(i))

-------------------------------------------------------------------------------
(* Properties                                                              *)

Showing == screen.state \in {"ready", "empty"}

\* FR-24, influxMetricsReader.ts:9-11: every number on the screen, or behind a
\* ratio or percentile on it, was collected for that device and metric; a ratio
\* needs both of its readings.
ShownWasMeasured ==
    \A row \in screen.rows :
        /\ row.values # {}
        /\ \A value \in row.values :
             \E m \in Metrics : (m = row.metric \/ view = "heatmap")
                                /\ value \in measured[[device |-> row.device, metric |-> m]]
        /\ view = "heatmap" =>
             \A m \in Metrics : measured[[device |-> row.device, metric |-> m]] # {}

\* influxMetricsReader.ts:282-286, TopInterfaces.tsx:43-53: a series a chart does
\* not show was answered with nothing, or has no place in a top list that is full;
\* an outage of the store at any query, before or after the others, is an error.
AbsenceWasAnswered ==
    Showing /\ ~AsksLatest =>
        \A q \in Asked(view, up) :
            \/ \E row \in screen.rows : [device |-> row.device, metric |-> row.metric] = q
            \/ q \in empties
            \/ view = "top" /\ Cardinality(screen.rows) = TopN

\* ThroughputChart.tsx:37-54 and its like: what a view shows was read for the
\* window chosen last, in whatever order the answers of earlier ones arrive.
ShowsTheWindow == screen.window = window

\* DataState.tsx:3-7: every view leaves "Loading..." behind, unless the user
\* chooses another window first.
ViewsSettle ==
    \A w \in Windows :
        (screen.state = "loading" /\ window = w) ~> (screen.state # "loading" \/ window # w)

-------------------------------------------------------------------------------
(* The inductive invariant                                                 *)

\* What is stored was collected.
PointsMeasured == \A q \in Query, w \in Windows : Range(points[q][w]) \subseteq measured[q]

\* An answer holds measured values; a series without any was answered so.
AnswerOk(q, answer) ==
    /\ Range(answer.values) \subseteq measured[q]
    /\ ~AsksLatest /\ answer.values = <<>> => answer.reason = "NO_DATA"

\* A run asks for both readings of a device or for neither; the one listened to
\* asks, for the chosen window, all that the view shows.
RunOk(f) ==
    /\ DOMAIN f.got \cap f.waiting = {}
    /\ \A q \in DOMAIN f.got : AnswerOk(q, f.got[q])
    /\ view = "heatmap" =>
         \E devices \in SUBSET Devices : DOMAIN f.got \cup f.waiting = HeatmapAsks(devices)
    /\ f.live => /\ f.window = window
                 /\ ~AsksLatest => DOMAIN f.got \cup f.waiting = Asked(view, up)

RunsOk == \A i \in DOMAIN flights : RunOk(flights[i])

ViewsInv ==
    /\ TypeOK /\ PointsMeasured /\ RunsOk
    /\ ShownWasMeasured /\ AbsenceWasAnswered /\ ShowsTheWindow
===============================================================================
