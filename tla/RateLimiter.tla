------------------------------ MODULE RateLimiter ------------------------------
(***************************************************************************)
(* The in-memory fixed-window limiter of the BFF, and which routes run it. *)
(* The middleware is synchronous, so a request is one step.                *)
(***************************************************************************)
EXTENDS Integers, Sequences

CONSTANTS
    Routes,       \* the routes an instance looks at
    Addresses,    \* req.ip values
    Window,       \* windowMs
    Limit,        \* options.max
    MaxTime,      \* bound on the clock, for model checking
    MaxRequests   \* bound on the requests a process sees, for model checking

ASSUME LimiterAssumption ==
    /\ Routes \subseteq {"auth-callback", "alarm-ack", "layout-put",
                        "layout-delete"}
    /\ Window \in Nat \ {0}
    /\ Limit \in Nat \ {0}
    /\ MaxTime \in Nat
    /\ MaxRequests \in Nat

\* The only route that mounts the limiter, of those ADR 0003 asks to be limited.
LimitedRoutes == {"auth-callback"}

Keys == Routes \X Addresses
Counter == [count : Nat, resetAt : Nat]
NoCounter == [count |-> 0, resetAt |-> 0]

VARIABLES
    now,        \* Date.now()
    counters,   \* the limiter's Map; NoCounter for a key it does not hold
    requests,   \* number of requests so far
    \* History, read by the properties only:
    passed,     \* the times at which requests of a key were let through
    rejected    \* the key whose request has just been answered 429, if any

limiterVars == <<now, counters, requests, passed, rejected>>

LimiterTypeOK ==
    /\ now \in Nat
    /\ counters \in [Keys -> Counter]
    /\ requests \in Nat
    /\ passed \in [Keys -> Seq(Nat)]
    /\ rejected \in SUBSET Keys

LimiterInit ==
    /\ now = 0
    /\ counters = [k \in Keys |-> NoCounter]
    /\ requests = 0
    /\ passed = [k \in Keys |-> <<>>]
    /\ rejected = {}

-------------------------------------------------------------------------------

\* Mutant: a window that has just ended still counts.
WindowOverLate(k) == counters[k].count = 0 \/ counters[k].resetAt < now

\* Mutant: the limit is checked before the request is counted.
OverLimitBefore(k) == counters[k].count > Limit

\* A missing counter is treated like one whose window is over.
WindowOver(k) == counters[k].count = 0 \/ counters[k].resetAt <= now
OverLimit(k) == counters[k].count + 1 > Limit

Pass(k) ==
    /\ passed' = [passed EXCEPT ![k] = Append(@, now)]
    /\ rejected' = {}

Arrive ==
    /\ requests < MaxRequests
    /\ requests' = requests + 1

\* Mutant: the new window starts where the last one ended.
OpenWindowAligned(k) ==
    /\ k[1] \in LimitedRoutes
    /\ Arrive
    /\ WindowOver(k)
    /\ counters' = [counters EXCEPT ![k] =
                      [count |-> 1, resetAt |-> counters[k].resetAt + Window]]
    /\ Pass(k)
    /\ UNCHANGED now

OpenWindow(k) ==
    /\ k[1] \in LimitedRoutes
    /\ Arrive
    /\ WindowOver(k)
    /\ counters' = [counters EXCEPT ![k] =
                      [count |-> 1, resetAt |-> now + Window]]
    /\ Pass(k)
    /\ UNCHANGED now

CountAndPass(k) ==
    /\ k[1] \in LimitedRoutes
    /\ Arrive
    /\ ~WindowOver(k)
    /\ ~OverLimit(k)
    /\ counters' = [counters EXCEPT ![k].count = @ + 1]
    /\ Pass(k)
    /\ UNCHANGED now

CountAndReject(k) ==
    /\ k[1] \in LimitedRoutes
    /\ Arrive
    /\ ~WindowOver(k)
    /\ OverLimit(k)
    /\ counters' = [counters EXCEPT ![k].count = @ + 1]
    /\ rejected' = {k}
    /\ UNCHANGED <<now, passed>>

\* The other routes do not mount the limiter.
PassUnlimited(k) ==
    /\ k[1] \notin LimitedRoutes
    /\ Arrive
    /\ Pass(k)
    /\ UNCHANGED <<now, counters>>

Tick ==
    /\ now < MaxTime
    /\ now' = now + 1
    /\ rejected' = {}
    /\ UNCHANGED <<counters, requests, passed>>

\* The counters live in the process; the history is that of one process.
ProcessRestarts ==
    /\ counters' = [k \in Keys |-> NoCounter]
    /\ passed' = [k \in Keys |-> <<>>]
    /\ requests' = 0
    /\ rejected' = {}
    /\ UNCHANGED now

LimiterNext ==
    \/ \E k \in Keys : \/ OpenWindow(k)
                       \/ CountAndPass(k)
                       \/ CountAndReject(k)
                       \/ PassUnlimited(k)
    \/ Tick
    \/ ProcessRestarts

LimiterSpec == LimiterInit /\ [][LimiterNext]_limiterVars

-------------------------------------------------------------------------------
(* Properties.                                                             *)

\* One window length never sees more than twice the limit.
AtMostTwoBursts(k) ==
    \A i \in DOMAIN passed[k] :
        i + 2 * Limit \in DOMAIN passed[k] =>
            passed[k][i + 2 * Limit] - passed[k][i] > Window

\* The limit over any span of time, not only over the limiter's own windows:
\* a limited key gets through at most twice the limit within a window length,
\* as a full burst may end one window and another one start the next.
BurstBounded == \A k \in Keys : k[1] \in LimitedRoutes => AtMostTwoBursts(k)

\* Nobody is refused for requests that were themselves refused: a 429 means
\* that Limit requests got through within the last window length.
RejectionsEarned ==
    \A k \in rejected :
        LET n == Len(passed[k])
        IN  /\ n >= Limit
            /\ now - passed[k][n - Limit + 1] < Window

-------------------------------------------------------------------------------
(* The inductive invariant behind the two bounds.                          *)

\* How many of the requests counted in the current window got through.
Through(k) == IF counters[k].count > Limit THEN Limit ELSE counters[k].count

\* The last Through(k) passed requests belong to the current window, at most
\* Limit more to the window before it, and the rest to windows before that.
WindowsHoldHistory ==
    \A k \in Keys : k[1] \in LimitedRoutes =>
        LET log   == passed[k]
            n     == Len(log)
            start == counters[k].resetAt - Window
        IN  /\ n >= Through(k)
            /\ counters[k].count = 0 => n = 0
            /\ counters[k].count > 0 => start \in 0..now
            /\ \A i \in 1..n :
                 /\ log[i] <= now
                 /\ log[i] < start + Window
                 /\ i > n - Through(k) => log[i] >= start
                 /\ i <= n - Through(k) => log[i] < start
                 /\ i <= n - Through(k) - Limit => log[i] < start - Window

LimiterInv == LimiterTypeOK /\ WindowsHoldHistory /\ BurstBounded /\ RejectionsEarned
===============================================================================
