------------------------------ MODULE AlarmConsole ----------------------------
(***************************************************************************)
(* The alarms in the browser: the console with its filters and pager, the  *)
(* feed of the dashboard, and the counts of the device inventory with its  *)
(* bulk acknowledgement; their query hook, the alarm routes of the BFF     *)
(* that window what LibreNMS returns, and a LibreNMS whose alarms come and *)
(* go meanwhile.  One of the three views is open.                          *)
(***************************************************************************)
EXTENDS Integers, Sequences

CONSTANTS
    MaxAlarms,    \* the alarms are 1..MaxAlarms, in the order of LibreNMS
    DeviceOf,     \* the device of each
    PageSize,     \* perPage of each view: 25, 50 and 200 in the source
    Filters,      \* the choices of a view's filter, "all" at first
    MaxChanges,   \* bound on alarms raised and cleared, for model checking
    MaxFetches,   \* bound on list requests in flight, for model checking
    MaxAcks       \* bound on acknowledgements under way, for model checking

Alarms == 1..MaxAlarms
Views == {"console", "feed", "inventory"}

ASSUME ConsoleAssumption ==
    /\ MaxAlarms \in Nat /\ DOMAIN DeviceOf = Alarms
    /\ PageSize \in [Views -> Nat \ {0}]
    /\ "all" \in Filters
    /\ MaxChanges \in Nat /\ MaxFetches \in Nat \ {0} /\ MaxAcks \in Nat

Query == [page : Nat \ {0}, filter : Filters]
Row == [id : Alarms, acked : BOOLEAN]

\* A page of alarms as the BFF answers it.
Page == [rows : Seq(Row), total : Nat, hasNext : BOOLEAN]
NoPage == [rows |-> <<>>, total |-> 0, hasNext |-> FALSE]

Fetch == [query : Query, live : BOOLEAN, read : BOOLEAN, page : Page]

\* A click on Acknowledge sends one request per alarm, all at once: those not
\* yet performed and those performed and not yet answered.
Ack == [ids : SUBSET Alarms, waiting : SUBSET Alarms, done : SUBSET Alarms, failed : BOOLEAN]
NoAck == [ids |-> {}, waiting |-> {}, done |-> {}, failed |-> FALSE]

VARIABLES
    alarm,      \* LibreNMS, per alarm: "clear", "open", "acked"
    changes,
    listing,    \* what it lists as active: "open" alarms only, or acknowledged
                \* ones too, "flagged" as such or "unflagged"
    view,
    filter,     \* ackFilter of the console, the severity chip of the feed
    page,       \* page of the console
    status,     \* the query hook: "loading", "error", "empty", "success"
    data,       \* the query hook: the page it holds
    fetches,    \* GETs in flight; `live` until their effect is cleaned up
    acks,       \* acknowledgements, NoAck for those not under way
    \* History, read by the properties only:
    shownFor,   \* the query `data` answers
    confirmed,  \* alarms whose acknowledgement the view has seen succeed
    stranded,   \* alarms of clicks that failed in part, since the last reload
    sinceAsked, \* alarms confirmed since the last list request was sent
    sinceHeld   \* the same, for the request that `data` answers

controls == <<filter, page>>
hook == <<status, data, fetches, shownFor, stranded, sinceAsked>>
setting == <<listing, view>>
confirmations == <<confirmed, sinceHeld>>
vars == <<alarm, changes, setting, controls, hook, acks, confirmations>>

TypeOK ==
    /\ alarm \in [Alarms -> {"clear", "open", "acked"}]
    /\ changes \in Nat
    /\ listing \in {"open", "flagged", "unflagged"} /\ view \in Views
    /\ filter \in Filters /\ page \in Nat \ {0}
    /\ status \in {"loading", "error", "empty", "success"}
    /\ data \in Page
    /\ fetches \in Seq(Fetch)
    /\ acks \in [1..MaxAcks -> Ack]
    /\ shownFor \in Query
    /\ confirmed \subseteq Alarms /\ stranded \subseteq Alarms
    /\ sinceAsked \subseteq Alarms /\ sinceHeld \subseteq Alarms

-------------------------------------------------------------------------------
(* The BFF                                                                 *)

Listed(a) == alarm[a] = "open" \/ (alarm[a] = "acked" /\ listing # "open")

\* toAlarm: a row is acknowledged only if it has the field that says so, which
\* the live rows mappers.ts:46-48 lists do not have.
RowOf(a) == [id |-> a, acked |-> alarm[a] = "acked" /\ listing = "flagged"]

\* GET /api/v0/alerts?state=1, mapped: the rows of the first n alarms, and all.
RowsUpTo[n \in 0..MaxAlarms] ==
    IF n = 0 THEN <<>>
    ELSE IF Listed(n) THEN Append(RowsUpTo[n - 1], RowOf(n))
    ELSE RowsUpTo[n - 1]

Active == RowsUpTo[MaxAlarms]

Least(a, b) == IF a < b THEN a ELSE b

\* Mutant: the offset counts pages from zero.
WindowFromZero(items, n) ==
    SubSeq(items, n * PageSize[view] + 1, Least((n + 1) * PageSize[view], Len(items)))

\* windowPage: the slice of a page, which may lie beyond the end.
WindowPage(items, n) ==
    SubSeq(items, (n - 1) * PageSize[view] + 1, Least(n * PageSize[view], Len(items)))

HasNext(items, n) == n * PageSize[view] < Len(items)

\* listAlarms and the answer of the route: the filter is not applied.
ListAlarms(q) ==
    [rows |-> WindowPage(Active, q.page), total |-> Len(Active),
     hasNext |-> HasNext(Active, q.page)]

-------------------------------------------------------------------------------
(* The query hook                                                          *)

Waiting(q) == [query |-> q, live |-> TRUE, read |-> FALSE, page |-> NoPage]

Cancelled(fs) == [i \in DOMAIN fs |-> [fs[i] EXCEPT !.live = FALSE]]

\* Mutant: the effect has no cleanup.
RefetchUncancelled(p, f) ==
    /\ Len(fetches) < MaxFetches
    /\ fetches' = Append(fetches, Waiting([page |-> p, filter |-> f]))
    /\ status' = "loading"
    /\ stranded' = {} /\ sinceAsked' = {}
    /\ UNCHANGED <<data, shownFor>>

\* The effect of the last render is cleaned up and the one of this runs.
Refetch(p, f) ==
    /\ Len(fetches) < MaxFetches
    /\ fetches' = Append(Cancelled(fetches), Waiting([page |-> p, filter |-> f]))
    /\ status' = "loading"
    /\ stranded' = {} /\ sinceAsked' = {}
    /\ UNCHANGED <<data, shownFor>>

Init ==
    /\ alarm \in [Alarms -> {"clear", "open", "acked"}]
    /\ changes = 0
    /\ listing \in {"open", "flagged", "unflagged"} /\ view \in Views
    /\ filter = "all" /\ page = 1
    /\ status = "loading" /\ data = NoPage
    /\ fetches = <<Waiting([page |-> 1, filter |-> "all"])>>
    /\ acks = [n \in 1..MaxAcks |-> NoAck]
    /\ shownFor = [page |-> 1, filter |-> "all"]
    /\ confirmed = {} /\ stranded = {} /\ sinceAsked = {} /\ sinceHeld = {}

Without(i) ==
    [j \in 1..(Len(fetches) - 1) |-> fetches[IF j < i THEN j ELSE j + 1]]

\* The BFF reads LibreNMS.
Serve(i) ==
    /\ ~fetches[i].read
    /\ fetches' = [fetches EXCEPT ![i] =
                       [fetches[i] EXCEPT !.read = TRUE, !.page = ListAlarms(fetches[i].query)]]
    /\ UNCHANGED <<alarm, changes, setting, controls, status, data, acks, shownFor, stranded, sinceAsked, confirmations>>

\* To the inventory a list without alarms is a result like any other.
IsEmpty(answer) == view # "inventory" /\ answer.rows = <<>>

\* The answer arrives; that of a cleaned-up effect is ignored.
Deliver(i) ==
    /\ fetches[i].read
    /\ fetches' = Without(i)
    /\ \/ /\ ~fetches[i].live
          /\ UNCHANGED <<status, data, shownFor, sinceHeld>>
       \/ /\ fetches[i].live
          /\ data' = fetches[i].page
          /\ status' = IF IsEmpty(fetches[i].page) THEN "empty" ELSE "success"
          /\ shownFor' = fetches[i].query
          /\ sinceHeld' = sinceAsked
    /\ UNCHANGED <<alarm, changes, setting, controls, acks, confirmed, stranded, sinceAsked>>

\* The BFF or LibreNMS refuses, or the connection breaks.  What `data` held
\* stays, and the inventory, which does not show the status, goes on showing it.
FetchFails(i) ==
    /\ fetches' = Without(i)
    /\ status' = IF fetches[i].live THEN "error" ELSE status
    /\ UNCHANGED <<alarm, changes, setting, controls, data, acks, shownFor, stranded, sinceAsked, confirmations>>

Settles(i) == Serve(i) \/ Deliver(i) \/ FetchFails(i)

-------------------------------------------------------------------------------
(* The views                                                               *)

\* The inventory reads page 1 of all alarms and has no controls for them.
ChooseFilter(f) ==
    /\ view # "inventory"
    /\ f # filter
    /\ filter' = f /\ page' = 1
    /\ Refetch(1, f)
    /\ UNCHANGED <<alarm, changes, setting, acks, confirmations>>

\* The pager of the console is there only while rows are shown.
NextPage ==
    /\ view = "console" /\ status = "success" /\ data.hasNext
    /\ page' = page + 1
    /\ Refetch(page + 1, filter)
    /\ UNCHANGED <<alarm, changes, setting, filter, acks, confirmations>>

PreviousPage ==
    /\ view = "console" /\ status = "success" /\ page > 1
    /\ page' = page - 1
    /\ Refetch(page - 1, filter)
    /\ UNCHANGED <<alarm, changes, setting, filter, acks, confirmations>>

Retry ==
    /\ view # "inventory" /\ status = "error"
    /\ Refetch(page, filter)
    /\ UNCHANGED <<alarm, changes, setting, controls, acks, confirmations>>

\* alarmCounts: what the inventory counts for a device are its open rows.
OpenRows(device) ==
    {data.rows[i].id : i \in {j \in DOMAIN data.rows :
                                ~data.rows[j].acked /\ DeviceOf[data.rows[j].id] = device}}

Open == {data.rows[i].id : i \in {j \in DOMAIN data.rows : ~data.rows[j].acked}}

Send(ids) ==
    \E n \in 1..MaxAcks :
        /\ acks[n] = NoAck /\ \A m \in 1..(n - 1) : acks[m] # NoAck
        /\ acks' = [acks EXCEPT ![n] = [ids |-> ids, waiting |-> ids, done |-> {}, failed |-> FALSE]]

\* The Acknowledge button of an open row.
Acknowledge ==
    /\ view # "inventory" /\ status = "success"
    /\ \E a \in Open : Send({a})
    /\ UNCHANGED <<alarm, changes, setting, controls, hook, confirmations>>

\* That of a device which counts more than none.
AcknowledgeDevice ==
    /\ view = "inventory"
    /\ \E a \in Open : Send(OpenRows(DeviceOf[a]))
    /\ UNCHANGED <<alarm, changes, setting, controls, hook, confirmations>>

\* LibreNMS acknowledges an open alarm; one that has cleared stays clear.
AckServed(n, a) ==
    /\ a \in acks[n].waiting
    /\ acks' = [acks EXCEPT ![n].waiting = @ \ {a}, ![n].done = @ \cup {a}]
    /\ alarm' = [alarm EXCEPT ![a] = IF @ = "open" THEN "acked" ELSE @]
    /\ UNCHANGED <<changes, setting, controls, hook, confirmations>>

\* A request is over, and with the last one the click.
Over(n, a, failed) ==
    LET ack == [acks[n] EXCEPT !.waiting = @ \ {a}, !.done = @ \ {a}, !.failed = failed]
    IN  acks' = [acks EXCEPT ![n] = IF ack.waiting \cup ack.done = {} THEN NoAck ELSE ack]

IsLast(n, a) == acks[n].waiting \cup acks[n].done = {a}

\* The reply says that the alarm is acknowledged.
Confirmed(a) == IF alarm[a] = "acked" THEN {a} ELSE {}

\* Mutant: the first answer is waited for, not all.
AckArrivesFirst(n, a) ==
    /\ a \in acks[n].done
    /\ Over(n, a, acks[n].failed)
    /\ confirmed' = confirmed \cup Confirmed(a)
    /\ sinceHeld' = sinceHeld \cup Confirmed(a)
    /\ IF acks[n].done \cup acks[n].waiting = acks[n].ids THEN Refetch(page, filter)
       ELSE /\ sinceAsked' = sinceAsked \cup Confirmed(a)
            /\ UNCHANGED <<status, data, fetches, shownFor, stranded>>
    /\ UNCHANGED <<alarm, changes, setting, controls>>

\* Once all have succeeded the view reads the list again; a click of which one
\* has failed does not come to that.
AckArrives(n, a) ==
    /\ a \in acks[n].done
    /\ Over(n, a, acks[n].failed)
    /\ confirmed' = confirmed \cup Confirmed(a)
    /\ sinceHeld' = sinceHeld \cup Confirmed(a)
    /\ IF IsLast(n, a) /\ ~acks[n].failed THEN Refetch(page, filter)
       ELSE /\ stranded' = IF IsLast(n, a) THEN stranded \cup acks[n].ids ELSE stranded
            /\ sinceAsked' = sinceAsked \cup Confirmed(a)
            /\ UNCHANGED <<status, data, fetches, shownFor>>
    /\ UNCHANGED <<alarm, changes, setting, controls>>

\* Refused by role, CSRF header or LibreNMS, or the reply is lost.
AckFails(n, a) ==
    /\ a \in acks[n].waiting \cup acks[n].done
    /\ Over(n, a, TRUE)
    /\ stranded' = IF IsLast(n, a) THEN stranded \cup acks[n].ids ELSE stranded
    /\ UNCHANGED <<alarm, changes, setting, controls, status, data, fetches, shownFor, sinceAsked, confirmations>>

-------------------------------------------------------------------------------
(* LibreNMS raises and clears alarms                                       *)

Raise(a) ==
    /\ changes < MaxChanges /\ changes' = changes + 1
    /\ alarm[a] = "clear"
    /\ alarm' = [alarm EXCEPT ![a] = "open"]
    /\ UNCHANGED <<setting, controls, hook, acks, confirmations>>

Clear(a) ==
    /\ changes < MaxChanges /\ changes' = changes + 1
    /\ alarm[a] # "clear"
    /\ alarm' = [alarm EXCEPT ![a] = "clear"]
    /\ confirmed' = confirmed \ {a}
    /\ UNCHANGED <<setting, controls, hook, acks, sinceHeld>>

Next ==
    \/ \E i \in DOMAIN fetches : Settles(i)
    \/ \E f \in Filters : ChooseFilter(f)
    \/ NextPage \/ PreviousPage \/ Retry \/ Acknowledge \/ AcknowledgeDevice
    \/ \E n \in 1..MaxAcks, a \in Alarms : AckServed(n, a) \/ AckArrives(n, a) \/ AckFails(n, a)
    \/ \E a \in Alarms : Raise(a) \/ Clear(a)

Spec == Init /\ [][Next]_vars

-------------------------------------------------------------------------------
(* Properties                                                              *)

\* useBffQuery.ts:36-52: what is on the screen answers the query the controls
\* stand for, in whatever order the answers arrive.
ShowsTheQuery ==
    status \in {"success", "empty"} => shownFor = [page |-> page, filter |-> filter]

\* The console and the feed show rows only when the last read has succeeded;
\* the inventory counts those it holds, while it reads again and after a failure.
Shown == IF view = "inventory" \/ status = "success" THEN Open ELSE {}

Excused(a) == a \in stranded \/ \E n \in 1..MaxAcks : a \in acks[n].ids

\* US-3, page.tsx:62-66 of the console, :39-45 and :59-72 of the inventory: an
\* alarm that the user saw acknowledged, and that has not cleared since, is open
\* on the screen only if the list shown was asked for before that.  Even then
\* others of its click are under way, or one has failed and nothing was asked
\* for since, or, in the inventory, the next read is under way or has failed.
\* LibreNMS must not list acknowledged alarms without saying that they are.
AckReflected ==
    listing # "unflagged" =>
        \A a \in Shown \cap confirmed :
            a \in sinceHeld /\ (Excused(a) \/ status \in {"loading", "error"})

\* What the first n pages show, read one after the other.
FirstPages[n \in 0..(MaxAlarms + 1)] ==
    IF n = 0 THEN <<>> ELSE FirstPages[n - 1] \o WindowPage(Active, n)

\* client.ts:61-64 and alarms.ts:33-35: while the alarms stand still, paging
\* from the first page for as long as there is a next one shows every alarm
\* once, and no page on the way is empty.
PagesCover ==
    LET last == CHOOSE n \in 1..(MaxAlarms + 1) :
                    /\ ~HasNext(Active, n)
                    /\ \A m \in 1..(n - 1) : HasNext(Active, m)
    IN  /\ FirstPages[last] = Active
        /\ \A n \in 1..last : WindowPage(Active, n) = <<>> => Active = <<>>

-------------------------------------------------------------------------------
(* The invariant behind AckReflected                                       *)

\* A click waits for no more than what it asked for.
AcksOwn == \A n \in 1..MaxAcks : acks[n].waiting \cup acks[n].done \subseteq acks[n].ids

ConfirmedAcked == \A a \in confirmed : alarm[a] = "acked"

\* Rows that show a confirmed alarm as open were asked for before.
StaleIn(rows, since) ==
    \A i \in DOMAIN rows : ~rows[i].acked /\ rows[i].id \in confirmed => rows[i].id \in since

ExcusedIn(rows) ==
    \A i \in DOMAIN rows : ~rows[i].acked /\ rows[i].id \in confirmed => Excused(rows[i].id)

\* An answer on its way that is listened to shows no more than what is shown.
AnswersReflect ==
    \A i \in DOMAIN fetches :
        fetches[i].live /\ fetches[i].read =>
            StaleIn(fetches[i].page.rows, sinceAsked) /\ ExcusedIn(fetches[i].page.rows)

HeldReflects ==
    /\ StaleIn(data.rows, sinceHeld)
    /\ status \notin {"loading", "error"} => ExcusedIn(data.rows)

Reflects == listing # "unflagged" => AnswersReflect /\ HeldReflects

AckInv == TypeOK /\ AcksOwn /\ ConfirmedAcked /\ Reflects
===============================================================================
