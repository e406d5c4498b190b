----------------------------- MODULE DeviceConsole ----------------------------
(***************************************************************************)
(* The devices in the browser: the inventory with its filters, sorting and *)
(* pager, and the panels of one device or alarm; the routes of the BFF,    *)
(* its LibreNMS client and the mapping of the rows; and a LibreNMS that    *)
(* refuses, garbles or does not answer.  One of the views is open.         *)
(***************************************************************************)
EXTENDS Integers, FiniteSets, SequencesExt

CONSTANTS
    Fleets,       \* the rows LibreNMS may come to hold, in its order
    Searches, KindFilters, ReachFilters,   \* what the controls offer; "" is all
    Columns,      \* the columns sorted by
    PerPage,      \* perPage, 25 in the source
    MaxChanges,   \* bound on changes of the fleet, for model checking
    MaxFetches    \* bound on list requests in flight, for model checking

\* What a row of LibreNMS gives for a number: a number, its text, the empty
\* text, another text, nothing, or what the schema does not accept.
Number == [form : {"number", "numeral", "emptyText", "otherText", "absent", "malformed"}, value : Nat]

\* A row: of a device, an interface or a log.  `host` orders the hostnames,
\* `found` is the search text occurring in one.
RawRow == [id : Nat, host : Nat, found : BOOLEAN, type : {"wireless", "router", "absent"},
           status : {"up", "down", "absent"}, number : Number]

Controls == [search : Searches, kind : KindFilters, reachability : ReachFilters,
             column : Columns, dir : {"asc", "desc"}, page : Nat \ {0},
             source : {"eventlog", "syslog"}]

ASSUME ConsoleAssumption ==
    /\ Fleets \subseteq Seq(RawRow)
    /\ {""} \subseteq Searches \cap KindFilters \cap ReachFilters
    /\ Searches \subseteq {"", "text"}
    /\ Columns \subseteq {"hostname", "kind", "reachability"} /\ "hostname" \in Columns
    /\ PerPage \in Nat \ {0} /\ MaxChanges \in Nat /\ MaxFetches \in Nat \ {0}

\* The inventory, the head of a device's page, its interfaces and its events,
\* and the history of an alarm.
Views == {"inventory", "detail", "interfaces", "events", "history"}

\* How LibreNMS answers a read: with rows, with an object that has no list,
\* with null, "No ports found", another status, text, or not within TIMEOUT_MS.
Replies == {"rows", "bare", "null", "noPorts", "refused", "text", "none"}

\* What the mappers below make of a row.
Metric == [status : {"available", "unavailable"}, value : Nat]
Row == [id : Nat, host : Nat, found : BOOLEAN, kind : {"p2p", "router", "other"},
        reachability : {"up", "down", "unknown"}, number : Metric]
       \cup [id : Nat, number : Metric]

\* An answer of the BFF; `reply` and `seen`, the reply of LibreNMS it was made
\* of and the fleet at the time, are read by the properties only.
ListAnswer == [failed : BOOLEAN, rows : Seq(Row), total : Nat,
               reply : Replies, seen : Fleets \cup {<<>>}]

Request == [controls : Controls, live : BOOLEAN, served : BOOLEAN, answer : ListAnswer]

VARIABLES
    fleet, changes,
    view,
    controls,
    status,     \* the query hook: "loading", "error", "empty", "success"
    data,       \* the query hook: the answer it holds
    fetches,    \* requests in flight
    shownFor    \* history: the controls `data` answers

hook == <<status, data, fetches, shownFor>>
vars == <<fleet, changes, view, controls, hook>>

TypeOK ==
    /\ fleet \in Fleets /\ changes \in Nat
    /\ view \in Views /\ controls \in Controls /\ shownFor \in Controls
    /\ status \in {"loading", "error", "empty", "success"}
    /\ data \in ListAnswer /\ fetches \in Seq(Request)

-------------------------------------------------------------------------------
(* Mapping of the rows                                                     *)

Available(n) == [status |-> "available", value |-> n]
Unavailable == [status |-> "unavailable", value |-> 0]

\* Mutant: a number that is not there is zero.
ToNumberMetricOrZero(raw) ==
    IF raw.form \in {"number", "numeral"} THEN Available(raw.value) ELSE Available(0)

\* Number("") is 0.
ToNumberMetric(raw) ==
    CASE raw.form \in {"number", "numeral"} -> Available(raw.value)
      [] raw.form = "emptyText" -> Available(0)
      [] OTHER -> Unavailable

\* optionalNumber converts alike, and its null is unavailable here.
OptionalNumber(raw) == ToNumberMetric(raw)

ToKind(type) == CASE type = "wireless" -> "p2p" [] type = "router" -> "router" [] OTHER -> "other"

ToReachability(raw) == IF raw = "absent" THEN "unknown" ELSE raw

ToDevice(raw) ==
    [id |-> raw.id, host |-> raw.host, found |-> raw.found, kind |-> ToKind(raw.type),
     reachability |-> ToReachability(raw.status), number |-> ToNumberMetric(raw.number)]

\* The rates of an interface.
ToInterface(raw) == [id |-> raw.id, number |-> ToNumberMetric(raw.number)]

\* The state of a transition; the other logs have no number.
ToAlertLogEntry(raw) == [id |-> raw.id, number |-> OptionalNumber(raw.number)]
ToEventLogEntry(raw) == [id |-> raw.id, number |-> Unavailable]

\* A mapper throws at what its schema does not accept, and with it the list.
Malformed(rows) == \E i \in DOMAIN rows : rows[i].number.form = "malformed"

-------------------------------------------------------------------------------
(* The LibreNMS client                                                     *)

\* The order of localeCompare.
KindOrder == [other |-> 0, p2p |-> 1, router |-> 2]
ReachOrder == [down |-> 0, unknown |-> 1, up |-> 2]

Key(device, column) ==
    CASE column = "hostname" -> device.host
      [] column = "kind" -> KindOrder[device.kind]
      [] column = "reachability" -> ReachOrder[device.reachability]

Wanted(device, q) ==
    /\ q.search # "" => device.found
    /\ q.kind # "" => device.kind = q.kind
    /\ q.reachability # "" => device.reachability = q.reachability

\* The sort of JavaScript is stable, in both directions.
InsertSorted(devices, device, q) ==
    LET After(other) == IF q.dir = "asc" THEN Key(other, q.column) > Key(device, q.column)
                        ELSE Key(other, q.column) < Key(device, q.column)
        at == Cardinality({i \in DOMAIN devices : ~After(devices[i])})
    IN  InsertAt(devices, at + 1, device)

FilterAndSortDevices(devices, q) ==
    LET sorted[n \in 0..Len(devices)] ==
            IF n = 0 THEN <<>>
            ELSE IF Wanted(devices[n], q) THEN InsertSorted(sorted[n - 1], devices[n], q)
            ELSE sorted[n - 1]
    IN  sorted[Len(devices)]

WindowPage(items, page) ==
    SubSeq(items, (page - 1) * PerPage + 1,
           IF page * PerPage < Len(items) THEN page * PerPage ELSE Len(items))

Failure == [failed |-> TRUE, rows |-> <<>>, total |-> 0, reply |-> "none", seen |-> <<>>]

Result(reply, rows, total) ==
    [failed |-> FALSE, rows |-> rows, total |-> total, reply |-> reply, seen |-> fleet]

\* Mutant: any refusal of the interfaces is taken for none.
BenignRefusals(reply) == view = "interfaces" /\ reply \in {"noPorts", "refused"}

\* onBenignNotOk: the one refusal that stands for no interfaces.
Benign(reply) == view = "interfaces" /\ reply = "noPorts"

\* call: the rows of a reply, or none where the list is missing.  An AppError
\* of 502 or 503, or for null a TypeError the boundary makes a 500.
Received(reply) == IF reply = "rows" THEN fleet ELSE <<>>
Throws(reply) == reply \notin {"rows", "bare"} /\ ~Benign(reply)

\* Mutant: the page is cut before the filters are applied.
ListDevicesWindowFirst(reply, q) ==
    LET all == FilterAndSortDevices([i \in DOMAIN Received(reply) |-> ToDevice(Received(reply)[i])], q)
        cut == WindowPage([i \in DOMAIN Received(reply) |-> ToDevice(Received(reply)[i])], q.page)
    IN  Result(reply, FilterAndSortDevices(cut, q), Len(all))

ListDevices(reply, q) ==
    LET all == FilterAndSortDevices([i \in DOMAIN Received(reply) |-> ToDevice(Received(reply)[i])], q)
    IN  Result(reply, WindowPage(all, q.page), Len(all))

\* The first row is the device; without one it is not found.
GetDevice(reply) ==
    IF Received(reply) = <<>> THEN Failure
    ELSE Result(reply, <<ToDevice(Received(reply)[1])>>, 1)

\* Every row, as a mapper gives it.
Listed(reply, rows) == Result(reply, rows, Len(rows))

ListDeviceInterfaces(reply) ==
    Listed(reply, [i \in DOMAIN Received(reply) |-> ToInterface(Received(reply)[i])])

ListDeviceEvents(reply) ==
    Listed(reply, [i \in DOMAIN Received(reply) |-> ToEventLogEntry(Received(reply)[i])])

ListAlarmHistory(reply) ==
    Listed(reply, [i \in DOMAIN Received(reply) |-> ToAlertLogEntry(Received(reply)[i])])

\* What a mapper is given: a device's page reads one row.
Mapped(reply) ==
    IF view = "detail" /\ Received(reply) # <<>> THEN <<Head(Received(reply))>> ELSE Received(reply)

\* The routes.  Number forms matter where a mapper reads one.
AnswerTo(reply, q) ==
    IF Throws(reply) \/ (view # "events" /\ Malformed(Mapped(reply))) THEN Failure
    ELSE CASE view = "inventory"  -> ListDevices(reply, q)
           [] view = "detail"     -> GetDevice(reply)
           [] view = "interfaces" -> ListDeviceInterfaces(reply)
           [] view = "events"     -> ListDeviceEvents(reply)
           [] view = "history"    -> ListAlarmHistory(reply)

-------------------------------------------------------------------------------
(* The query hook                                                          *)

Waiting(q) == [controls |-> q, live |-> TRUE, served |-> FALSE, answer |-> Failure]

\* Mutant: the effect has no cleanup.
Uncancelled(fs) == fs

Cancelled(fs) == [i \in DOMAIN fs |-> [fs[i] EXCEPT !.live = FALSE]]

Refetch(q) ==
    /\ Len(fetches) < MaxFetches
    /\ fetches' = Append(Cancelled(fetches), Waiting(q))
    /\ status' = "loading"
    /\ UNCHANGED <<fleet, changes, view, data, shownFor>>

\* DEFAULT_TABLE_STATE
Defaults == [search |-> "", kind |-> "", reachability |-> "", column |-> "hostname",
             dir |-> "asc", page |-> 1, source |-> "eventlog"]

Init ==
    /\ fleet \in Fleets /\ changes = 0
    /\ view \in Views
    /\ controls = Defaults /\ shownFor = Defaults
    /\ status = "loading" /\ data = Failure
    /\ fetches = <<Waiting(Defaults)>>

\* The BFF asks LibreNMS.  The history first asks for the alarm, whose device
\* it needs, and fails if there is none.
Serve(i) ==
    /\ ~fetches[i].served
    /\ \E reply \in Replies :
         fetches' = [fetches EXCEPT ![i].served = TRUE,
                                    ![i].answer = AnswerTo(reply, fetches[i].controls)]
    /\ UNCHANGED <<fleet, changes, view, controls, status, data, shownFor>>

AlarmGone(i) ==
    /\ view = "history" /\ ~fetches[i].served
    /\ fetches' = [fetches EXCEPT ![i].served = TRUE]
    /\ UNCHANGED <<fleet, changes, view, controls, status, data, shownFor>>

\* The head of a device's page is never empty.
IsEmpty(answer) == view # "detail" /\ answer.rows = <<>>

Deliver(i) ==
    /\ fetches[i].served
    /\ fetches' = RemoveAt(fetches, i)
    /\ IF fetches[i].live /\ ~fetches[i].answer.failed
       THEN /\ data' = fetches[i].answer
            /\ status' = IF IsEmpty(fetches[i].answer) THEN "empty" ELSE "success"
            /\ shownFor' = fetches[i].controls
       ELSE /\ status' = IF fetches[i].live THEN "error" ELSE status
            /\ UNCHANGED <<data, shownFor>>
    /\ UNCHANGED <<fleet, changes, view, controls>>

-------------------------------------------------------------------------------
(* The controls                                                            *)

Turn(q) == controls' = q /\ Refetch(q)

Retry == status = "error" /\ Turn(controls)

\* Mutant: the page stays when a filter is set.
SetFilterKeepsPage(q) == q # controls /\ Turn([q EXCEPT !.page = controls.page])

\* A filter, or Reset, leads back to page 1; when nothing changes nothing is read.
SetFilter(q) == q # controls /\ Turn([q EXCEPT !.page = 1])

UseFilters ==
    /\ view = "inventory"
    /\ \/ \E text \in Searches : SetFilter([controls EXCEPT !.search = text, !.page = 1])
       \/ \E kind \in KindFilters : SetFilter([controls EXCEPT !.kind = kind, !.page = 1])
       \/ \E reach \in ReachFilters : SetFilter([controls EXCEPT !.reachability = reach, !.page = 1])
       \/ SetFilter(Defaults)

\* A click on a header, of the sorted column or another; the page stays.
ToggleSort(column) ==
    /\ view = "inventory" /\ status = "success"
    /\ Turn(IF column = controls.column
            THEN [controls EXCEPT !.dir = IF @ = "asc" THEN "desc" ELSE "asc"]
            ELSE [controls EXCEPT !.column = column, !.dir = "asc"])

SetPage(page) ==
    /\ view = "inventory" /\ status = "success"
    /\ Turn([controls EXCEPT !.page = IF page < 1 THEN 1 ELSE page])

\* The pager is there only while rows are shown.
NextPage == controls.page * PerPage < data.total /\ SetPage(controls.page + 1)
PreviousPage == controls.page > 1 /\ SetPage(controls.page - 1)

\* The tabs of the events panel.
SetSource(source) ==
    /\ view = "events" /\ source # controls.source
    /\ Turn([controls EXCEPT !.source = source])

FleetChanges ==
    /\ changes < MaxChanges /\ changes' = changes + 1
    /\ \E rows \in Fleets \ {fleet} : fleet' = rows
    /\ UNCHANGED <<view, controls, hook>>

Next ==
    \/ \E i \in DOMAIN fetches : Serve(i) \/ AlarmGone(i) \/ Deliver(i)
    \/ Retry \/ UseFilters \/ NextPage \/ PreviousPage
    \/ \E column \in Columns : ToggleSort(column)
    \/ \E source \in {"eventlog", "syslog"} : SetSource(source)
    \/ FleetChanges

Spec == Init /\ [][Next]_vars

-------------------------------------------------------------------------------
(* Properties                                                              *)

Showing == status \in {"success", "empty"}

\* Whether the device of row i of LibreNMS comes before that of row j.
Precedes(rows, i, j, q) ==
    LET a == Key(ToDevice(rows[i]), q.column)
        b == Key(ToDevice(rows[j]), q.column)
    IN  (IF q.dir = "asc" THEN a < b ELSE a > b) \/ (a = b /\ i < j)

\* The rows an answer was made from, and those of them a query is for.
Held(answer) == IF answer.reply = "rows" THEN answer.seen ELSE <<>>
WantedOf(rows, q) == {i \in DOMAIN rows : Wanted(ToDevice(rows[i]), q)}

\* The n-th row of an answer is the device that has as many of the wanted
\* devices before it as the pages and rows before it hold.
Windowed(q, answer) ==
    LET rows == Held(answer)
        wanted == WantedOf(rows, q)
        Place(i) == 1 + Cardinality({j \in wanted : Precedes(rows, j, i, q)})
        first == (q.page - 1) * PerPage
    IN  /\ answer.total = Cardinality(wanted)
        /\ \A i \in wanted : Place(i) \in (first + 1)..(first + PerPage) =>
                answer.rows[Place(i) - first] = ToDevice(rows[i])
        /\ Len(answer.rows) =
                Cardinality({i \in wanted : Place(i) \in (first + 1)..(first + PerPage)})

\* client.ts:99-108, useDeviceTableState.ts:3-11: what the inventory shows is
\* for its present controls: the page asked for of the devices that pass the
\* filters, in the order asked for, and their number.
RowsAnswerControls ==
    view = "inventory" /\ Showing => shownFor = controls /\ Windowed(controls, data)

\* client.ts:283-288, FR-43: nothing found means that LibreNMS was asked with
\* these controls and answered that there is nothing; a refusal, a garbled
\* reply, a timeout or a malformed row is an error.  Only a fleet that changed
\* leaves the inventory on a page beyond the last.
EmptyIsAnswered ==
    status = "empty" =>
        /\ data.reply \in {"rows", "bare"} \/ (view = "interfaces" /\ data.reply = "noPorts")
        /\ data.reply = "rows" => \/ data.seen = <<>>
                                  \/ view = "inventory" /\ (data.total = 0 \/ changes > 0)

\* mappers.ts:4-6: a number on the screen is one that LibreNMS reported for
\* that device, interface or transition, or the empty text, which is shown as 0.
NumbersWereReported ==
    status = "success" =>
        \A n \in DOMAIN data.rows : data.rows[n].number.status = "available" =>
            \E i \in DOMAIN data.seen :
                LET raw == data.seen[i]
                IN  /\ raw.id = data.rows[n].id
                    /\ \/ raw.number.form \in {"number", "numeral"}
                          /\ data.rows[n].number.value = raw.number.value
                       \/ raw.number.form = "emptyText" /\ data.rows[n].number.value = 0

-------------------------------------------------------------------------------
(* What holds of every answer, and carries the properties                   *)

\* A page that is not the first has a row, as long as the fleet stays.
InRange(q) == q.page = 1 \/ (q.page - 1) * PerPage < Cardinality(WantedOf(fleet, q))

MadeOf(raw) == {ToDevice(raw), ToInterface(raw), ToAlertLogEntry(raw), ToEventLogEntry(raw)}

AnswerOk(q, answer) ==
    /\ ~Throws(answer.reply)
    /\ answer.seen \in Fleets /\ (changes = 0 => answer.seen = fleet)
    /\ IF view = "inventory" THEN Windowed(q, answer)
       ELSE answer.rows = <<>> => Held(answer) = <<>>
    /\ \A n \in DOMAIN answer.rows : \E i \in DOMAIN answer.seen :
          answer.rows[n] \in MadeOf(answer.seen[i])

\* A request that is live is for the present controls.
Sound ==
    {f \in Request :
        /\ changes = 0 => InRange(f.controls)
        /\ f.live => f.controls = controls
        /\ ~f.answer.failed => AnswerOk(f.controls, f.answer)}

ConsoleInv ==
    /\ TypeOK
    /\ changes = 0 => InRange(controls)
    /\ fetches \in Seq(Sound)
    /\ Showing => shownFor = controls /\ ~data.failed /\ AnswerOk(controls, data)
    /\ status = "empty" => data.rows = <<>>
===============================================================================
