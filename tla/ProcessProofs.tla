----------------------------- MODULE ProcessProofs ----------------------------
(***************************************************************************)
(* Proofs about what lives in the BFF process, for any window, limit and   *)
(* addresses, any number of pollers and requests, and any faults.          *)
(*                                                                         *)
(* RateLimiter: the invariant ties the history of a key to its counter:    *)
(* the last Through(k) passed requests lie in the window in force, at most *)
(* Limit more in the length before it.  A request that opens a window      *)
(* finds its predecessors before that window's start; the one Limit back   *)
(* is then a whole window length older, which keeps the burst bound.       *)
(*                                                                         *)
(* Readiness: every dependency a probe in flight has an answer of was up   *)
(* during it, and only a request can end the process.                      *)
(***************************************************************************)
EXTENDS RateLimiter, Readiness, TLAPS

(* The rate limiter                                                        *)

\* The facts about one key that a step on another key leaves alone.
KeyHeld(k) ==
    /\ k[1] \in LimitedRoutes =>
        LET log   == passed[k]
            n     == Len(log)
            start == counters[k].resetAt - Window
        IN  /\ n >= Through(k)
            /\ counters[k].count = 0 => n = 0
            /\ counters[k].count > 0 => start \in 0..now
            /\ \A i \in 1..n :
                 /\ log[i] <= now
                 /\ log[i] < start + Window
                 /\ i > n - Through(k) => log[i] >= start
                 /\ i <= n - Through(k) => log[i] < start
                 /\ i <= n - Through(k) - Limit => log[i] < start - Window
    /\ k[1] \in LimitedRoutes => AtMostTwoBursts(k)

\* LimiterInv is LimiterTypeOK, the facts of each key, and RejectionsEarned.
LEMMA KeyByKey ==
    LimiterInv <=> LimiterTypeOK /\ (\A k \in Keys : KeyHeld(k)) /\ RejectionsEarned
BY DEF LimiterInv, WindowsHoldHistory, BurstBounded, KeyHeld

\* How a request before, or in, the window that starts at s lies from now.
LEMMA FarBefore ==
    ASSUME NEW t \in Int, NEW x \in Int, NEW s \in Int, NEW w \in Int,
           t >= s, x < s - w
    PROVE  t - x > w
OBVIOUS

LEMMA NearAfter ==
    ASSUME NEW t \in Int, NEW x \in Nat, NEW s \in Int, NEW w \in Int,
           t < s + w, x >= s
    PROVE  t - x < w
OBVIOUS

LEMMA ThereAndBack ==
    ASSUME NEW e \in Int, NEW w \in Int
    PROVE  e - w + w = e
OBVIOUS

LEMMA FarBeforeEnd ==
    ASSUME NEW t \in Int, NEW x \in Int, NEW e \in Int, NEW w \in Int, e <= t
    PROVE  /\ x < e - w + w => x < t
           /\ x < e - w => x < t - w
OBVIOUS

\* What appending one entry to a history leaves and adds.
LEMMA Appended ==
    ASSUME NEW s \in Seq(Nat), NEW t \in Nat
    PROVE  /\ Len(Append(s, t)) = Len(s) + 1
           /\ Append(s, t)[Len(s) + 1] = t
           /\ \A i \in 1..Len(s) : Append(s, t)[i] = s[i] /\ s[i] \in Nat
OBVIOUS

\* The types of what the model keeps of one key.
LEMMA KeyTypes ==
    ASSUME LimiterAssumption, LimiterTypeOK, NEW k \in Keys
    PROVE  /\ now \in Nat /\ Window \in Nat \ {0} /\ Limit \in Nat \ {0}
           /\ counters[k] \in Counter
           /\ counters[k].resetAt \in Nat /\ counters[k].count \in Nat
           /\ counters[k].resetAt - Window \in Int
           /\ passed[k] \in Seq(Nat) /\ Len(passed[k]) \in Nat
<1>1. counters[k] \in Counter /\ passed[k] \in Seq(Nat)
    BY DEF LimiterTypeOK
<1>2. counters[k].resetAt \in Nat /\ counters[k].count \in Nat
    BY <1>1 DEF Counter
<1> QED
    BY <1>1, <1>2 DEF LimiterTypeOK, LimiterAssumption

\* A key whose counter and history a step leaves alone keeps its facts while
\* the clock does not run back.
LEMMA Untouched ==
    ASSUME LimiterTypeOK, LimiterTypeOK', LimiterAssumption, NEW k \in Keys, KeyHeld(k),
           counters'[k] = counters[k], passed'[k] = passed[k], now' >= now
    PROVE  KeyHeld(k)'
<1>1. /\ now \in Nat /\ now' \in Nat
      /\ counters[k].resetAt \in Nat /\ counters[k].count \in Nat
      /\ passed[k] \in Seq(Nat)
      /\ Window \in Nat
    BY DEF LimiterTypeOK, Counter, LimiterAssumption
<1>2. Through(k)' = Through(k)
    BY DEF Through
<1>3. AtMostTwoBursts(k)' <=> AtMostTwoBursts(k)
    BY DEF AtMostTwoBursts
<1> QED
    BY <1>1, <1>2, <1>3 DEF KeyHeld

\* Counting a request leaves a counter of the limiter's type.
LEMMA CountedType ==
    ASSUME NEW k \in Keys, counters \in [Keys -> Counter],
           counters' = [counters EXCEPT ![k].count = @ + 1]
    PROVE  /\ counters' \in [Keys -> Counter]
           /\ counters'[k].count = counters[k].count + 1
           /\ counters'[k].resetAt = counters[k].resetAt
<1>1. counters[k] \in [count : Nat, resetAt : Nat]
    BY DEF Counter
<1>2. [counters[k] EXCEPT !.count = @ + 1] \in [count : Nat, resetAt : Nat]
    BY <1>1
<1>3. counters'[k] = [counters[k] EXCEPT !.count = @ + 1]
    OBVIOUS
<1> QED
    BY <1>1, <1>2, <1>3 DEF Counter

\* A request that passes keeps the burst bound if the one 2 * Limit before it
\* is old enough.
LEMMA BurstKept ==
    ASSUME LimiterAssumption, NEW k \in Keys, NEW t \in Nat,
           passed[k] \in Seq(Nat), passed'[k] = Append(passed[k], t),
           AtMostTwoBursts(k),
           \A i \in 1..Len(passed[k]) :
              i + 2 * Limit = Len(passed[k]) + 1 => t - passed[k][i] > Window
    PROVE  AtMostTwoBursts(k)'
<1> DEFINE log == passed[k]
           n   == Len(log)
           new == passed'[k]
<1>1. /\ Limit \in Nat \ {0}
      /\ n \in Nat
      /\ DOMAIN log = 1..n
      /\ DOMAIN new = 1..(n + 1)
      /\ new[n + 1] = t
      /\ \A i \in 1..n : new[i] = log[i]
    BY DEF LimiterAssumption
<1>2. ASSUME NEW i \in 1..(n + 1), i + 2 * Limit \in 1..(n + 1)
      PROVE  new[i + 2 * Limit] - new[i] > Window
    <2> HIDE DEF log, n, new
    <2>1. i \in 1..n
        BY <1>1, <1>2
    <2>2. CASE i + 2 * Limit = n + 1
        <3>1. t - log[i] > Window
            BY <2>1, <2>2 DEF log, n
        <3> QED
            BY <1>1, <2>1, <2>2, <3>1
    <2>3. CASE i + 2 * Limit # n + 1
        <3>1. i + 2 * Limit \in 1..n
            BY <1>1, <1>2, <2>3
        <3>2. log[i + 2 * Limit] - log[i] > Window
            BY <1>1, <2>1, <3>1 DEF AtMostTwoBursts, log
        <3> QED
            BY <1>1, <2>1, <3>1, <3>2
    <2> QED
        BY <2>2, <2>3
<1> QED
    BY <1>1, <1>2 DEF AtMostTwoBursts

-------------------------------------------------------------------------------

\* The invariant holds initially.
LEMMA InitLimiterInv == ASSUME LimiterAssumption PROVE LimiterInit => LimiterInv
<1> SUFFICES ASSUME LimiterInit PROVE LimiterInv
    OBVIOUS
<1>1. LimiterTypeOK
    BY DEF LimiterInit, LimiterTypeOK, NoCounter, Counter
<1>2. ASSUME NEW k \in Keys PROVE KeyHeld(k)
    BY DEF LimiterInit, NoCounter, KeyHeld, Through, AtMostTwoBursts, LimiterAssumption
<1>3. RejectionsEarned
    BY DEF LimiterInit, RejectionsEarned
<1> QED
    BY <1>1, <1>2, <1>3, KeyByKey

\* A request that finds no window in force opens one: everything passed so far
\* is before its start.
LEMMA OpenWindowInv ==
    ASSUME LimiterAssumption, LimiterInv, NEW k \in Keys, OpenWindow(k)
    PROVE  LimiterInv'
<1>1. LimiterTypeOK /\ LimiterTypeOK'
    BY DEF LimiterInv, LimiterTypeOK, OpenWindow, Arrive, Pass, Counter, LimiterAssumption
<1>2. ASSUME NEW j \in Keys, j # k PROVE KeyHeld(j)'
    <2>1. /\ counters'[j] = counters[j]
          /\ passed'[j] = passed[j]
          /\ now' = now
          /\ now \in Nat
        BY <1>1, <1>2 DEF OpenWindow, Pass, LimiterTypeOK
    <2> QED
        BY <1>1, <2>1, KeyByKey, Untouched
<1>3. KeyHeld(k)'
    <2> DEFINE log == passed[k]
               n == Len(log)
    <2>1. /\ now \in Nat /\ now' = now
          /\ counters[k].resetAt \in Nat /\ counters[k].count \in Nat
          /\ log \in Seq(Nat) /\ n \in Nat
          /\ Window \in Nat \ {0} /\ Limit \in Nat \ {0}
          /\ k[1] \in LimitedRoutes
        BY <1>1, KeyTypes DEF OpenWindow
    <2>2. /\ counters'[k] = [count |-> 1, resetAt |-> now + Window]
          /\ passed'[k] = Append(log, now)
        BY <1>1 DEF OpenWindow, Pass, LimiterTypeOK
    <2>3. Through(k)' = 1
        BY <2>1, <2>2 DEF Through
    <2>4. /\ Len(passed'[k]) = n + 1
          /\ passed'[k][n + 1] = now
          /\ \A i \in 1..n : passed'[k][i] = log[i] /\ log[i] \in Nat
        BY <2>1, <2>2, Appended
    <2>5. \A i \in 1..n :
            /\ log[i] < now
            /\ i <= n - Limit => log[i] < now - Window
        <3>1. KeyHeld(k)
            BY KeyByKey
        <3>2. Through(k) \in Nat /\ Through(k) <= Limit
            BY <2>1 DEF Through
        <3>3. CASE counters[k].count = 0
            BY <2>1, <3>1, <3>3 DEF KeyHeld
        <3>4. CASE counters[k].resetAt <= now
            <4> SUFFICES ASSUME NEW i \in 1..n
                         PROVE  /\ log[i] < now
                                /\ i <= n - Limit => log[i] < now - Window
                OBVIOUS
            <4>1. /\ log[i] < counters[k].resetAt - Window + Window
                  /\ i <= n - Through(k) => log[i] < counters[k].resetAt - Window
                BY <2>1, <3>1 DEF KeyHeld
            <4>2. log[i] \in Nat
                BY <2>4
            <4>5. /\ now \in Int /\ log[i] \in Int /\ counters[k].resetAt \in Int
                  /\ Window \in Int
                BY <2>1, <4>2
            <4>3. log[i] < now
                BY ONLY <3>4, <4>1, <4>5, FarBeforeEnd
            <4>4. ASSUME i <= n - Limit PROVE log[i] < now - Window
                <5>1. i <= n - Through(k)
                    BY <2>1, <3>2, <4>4
                <5> QED
                    BY ONLY <3>4, <4>1, <4>5, <5>1, FarBeforeEnd
            <4> QED
                BY <4>3, <4>4
        <3> QED
            BY <3>3, <3>4 DEF OpenWindow, WindowOver
    <2>6. AtMostTwoBursts(k)'
        <3>1. AtMostTwoBursts(k)
            BY <2>1, KeyByKey DEF KeyHeld
        <3>2. ASSUME NEW i \in 1..n, i + 2 * Limit = n + 1
              PROVE  now - log[i] > Window
            <4>1. i <= n - Limit
                BY <2>1, <3>2
            <4>2. log[i] \in Nat /\ now \in Nat /\ Window \in Nat
                BY <2>1, <2>4
            <4>3. log[i] < now - Window
                BY <2>5, <4>1
            <4> QED
                BY <4>2, <4>3
        <3> QED
            BY <2>1, <2>2, <3>1, <3>2, BurstKept
    <2> QED
        <3>1. /\ counters'[k].count = 1 /\ counters'[k].resetAt - Window = now
            BY <2>1, <2>2
        <3> HIDE DEF log, n
        <3>2. /\ Len(passed'[k]) >= 1 /\ 1..Len(passed'[k]) = 1..(n + 1)
              /\ now \in 0..now'
            BY <2>1, <2>4
        <3>4. /\ Len(passed'[k]) >= Through(k)'
              /\ Len(passed'[k]) - Through(k)' = n
            BY <2>1, <2>3, <2>4
        <3>5. counters'[k].count > 0 /\ counters'[k].count # 0
            BY <3>1
        <3>3. ASSUME NEW i \in 1..(n + 1)
              PROVE  /\ passed'[k][i] <= now
                     /\ passed'[k][i] < now + Window
                     /\ i > n => passed'[k][i] >= now
                     /\ i <= n => passed'[k][i] < now
                     /\ i <= n - Limit => passed'[k][i] < now - Window
            <4>1. CASE i \in 1..n
                <5>1. /\ passed'[k][i] = log[i] /\ log[i] \in Nat /\ log[i] < now
                      /\ i <= n - Limit => log[i] < now - Window
                    BY <2>4, <2>5, <4>1
                <5>2. ~(i > n)
                    BY <2>1, <4>1
                <5> QED
                    BY <2>1, <5>1, <5>2
            <4>2. CASE i = n + 1
                BY <2>1, <2>4, <4>2
            <4> QED
                BY <2>1, <4>1, <4>2
        <3> QED
            BY <2>1, <2>6, <3>1, <3>2, <3>3, <3>4, <3>5 DEF KeyHeld
<1>4. RejectionsEarned'
    BY DEF OpenWindow, Pass, RejectionsEarned
<1> QED
    <2>1. \A j \in Keys : KeyHeld(j)'
        BY <1>2, <1>3
    <2> QED
        BY <1>1, <1>4, <2>1
           DEF LimiterInv, WindowsHoldHistory, BurstBounded, KeyHeld

\* A request within the limit joins the window in force.
LEMMA CountAndPassInv ==
    ASSUME LimiterAssumption, LimiterInv, NEW k \in Keys, CountAndPass(k)
    PROVE  LimiterInv'
<1>1. LimiterTypeOK /\ LimiterTypeOK'
    <2>1. LimiterTypeOK
        BY DEF LimiterInv
    <2>2. counters' \in [Keys -> Counter]
        BY <2>1, CountedType DEF LimiterTypeOK, CountAndPass
    <2> QED
        BY <2>1, <2>2 DEF LimiterTypeOK, CountAndPass, Arrive, Pass
<1>2. ASSUME NEW j \in Keys, j # k PROVE KeyHeld(j)'
    <2>1. /\ counters'[j] = counters[j]
          /\ passed'[j] = passed[j]
          /\ now' = now
          /\ now \in Nat
        BY <1>1, <1>2 DEF CountAndPass, Pass, LimiterTypeOK
    <2> QED
        BY <1>1, <2>1, KeyByKey, Untouched
<1>3. KeyHeld(k)'
    <2> DEFINE log == passed[k]
               n == Len(log)
               start == counters[k].resetAt - Window
               T == Through(k)
    <2>1. /\ now \in Nat /\ now' = now
          /\ counters[k].resetAt \in Nat /\ counters[k].count \in Nat
          /\ log \in Seq(Nat) /\ n \in Nat /\ start \in Int
          /\ Window \in Nat \ {0} /\ Limit \in Nat \ {0}
          /\ k[1] \in LimitedRoutes
        BY <1>1, KeyTypes DEF CountAndPass
    <2>2. /\ counters'[k] = [counters[k] EXCEPT !.count = @ + 1]
          /\ passed'[k] = Append(log, now)
        BY <1>1 DEF CountAndPass, Pass, LimiterTypeOK
    <2>3. /\ counters[k].count > 0
          /\ counters[k].count + 1 <= Limit
          /\ now < start + Window
        <3>1. /\ ~(counters[k].count = 0) /\ ~(counters[k].resetAt <= now)
              /\ ~(counters[k].count + 1 > Limit)
            BY DEF CountAndPass, WindowOver, OverLimit
        <3>3. counters[k].resetAt \in Int /\ Window \in Int
            BY <2>1
        <3>2. start + Window = counters[k].resetAt
            BY ONLY <3>3, ThereAndBack
        <3> HIDE DEF log, n, start, T
        <3> QED
            BY <2>1, <3>1, <3>2
    <2>4. /\ counters'[k].resetAt = counters[k].resetAt
          /\ counters'[k].count = counters[k].count + 1
        BY <1>1, CountedType DEF CountAndPass, LimiterTypeOK
    <2>5. T \in Nat /\ Through(k)' = T + 1 /\ T + 1 <= Limit
        <3>1. Through(k) = counters[k].count
            BY <2>1, <2>3 DEF Through
        <3>2. Through(k)' = counters'[k].count
            BY <2>1, <2>3, <2>4 DEF Through
        <3> QED
            BY <2>1, <2>3, <2>4, <3>1, <3>2
    <2>6. /\ Len(passed'[k]) = n + 1
          /\ passed'[k][n + 1] = now
          /\ \A i \in 1..n : passed'[k][i] = log[i] /\ log[i] \in Nat
        BY <2>1, <2>2, Appended
    <2>7. /\ n >= T
          /\ start \in 0..now
          /\ \A i \in 1..n : /\ log[i] <= now
                             /\ log[i] < start + Window
                             /\ i > n - T => log[i] >= start
                             /\ i <= n - T => log[i] < start
                             /\ i <= n - T - Limit => log[i] < start - Window
        BY <2>1, <2>3, KeyByKey DEF KeyHeld
    <2>8. AtMostTwoBursts(k)'
        <3>1. AtMostTwoBursts(k)
            BY <2>1, KeyByKey DEF KeyHeld
        <3>2. ASSUME NEW i \in 1..n, i + 2 * Limit = n + 1
              PROVE  now - log[i] > Window
            <4> HIDE DEF log, n, start, T
            <4>1. i <= n - T - Limit
                BY <2>1, <2>5, <3>2
            <4>2. log[i] < start - Window
                BY <2>7, <4>1
            <4>3. now \in Int /\ log[i] \in Int /\ start \in Int /\ Window \in Int
                BY <2>1, <2>6
            <4>4. now >= start
                BY <2>1, <2>7
            <4> QED
                BY ONLY <4>2, <4>3, <4>4, FarBefore
        <3> QED
            BY <2>1, <2>2, <3>1, <3>2, BurstKept
    <2>9. ASSUME NEW i \in 1..(n + 1)
          PROVE  /\ passed'[k][i] <= now
                 /\ passed'[k][i] < start + Window
                 /\ i > n - T => passed'[k][i] >= start
                 /\ i <= n - T => passed'[k][i] < start
                 /\ i <= n - T - Limit => passed'[k][i] < start - Window
        <3> HIDE DEF log, n, start, T
        <3>1. CASE i \in 1..n
            BY <2>6, <2>7, <3>1
        <3>2. CASE i = n + 1
            <4>1. passed'[k][i] = now /\ i > n - T /\ i > n - T - Limit
                BY <2>1, <2>5, <2>6, <3>2
            <4>2. now >= start /\ now < start + Window
                BY <2>1, <2>3, <2>7
            <4> QED
                BY <2>1, <2>5, <4>1, <4>2
        <3> QED
            BY <2>1, <3>1, <3>2
    <2> QED
        <3>2. /\ counters'[k].count > 0
              /\ counters'[k].resetAt - Window = start
              /\ start \in 0..now'
            BY <2>1, <2>4, <2>7
        <3> HIDE DEF log, n, start, T
        <3>1. Len(passed'[k]) >= Through(k)'
            BY <2>1, <2>5, <2>6, <2>7
        <3>3. Len(passed'[k]) - Through(k)' = n - T
            BY <2>1, <2>5, <2>6
        <3>4. /\ counters'[k].count # 0
              /\ 1..Len(passed'[k]) = 1..(n + 1)
            BY <2>1, <2>3, <2>4, <2>6
        <3> QED
            BY <2>1, <2>8, <2>9, <3>1, <3>2, <3>3, <3>4 DEF KeyHeld
<1>4. RejectionsEarned'
    BY DEF CountAndPass, Pass, RejectionsEarned
<1> QED
    <2>1. \A j \in Keys : KeyHeld(j)'
        BY <1>2, <1>3
    <2> QED
        BY <1>1, <1>4, <2>1
           DEF LimiterInv, WindowsHoldHistory, BurstBounded, KeyHeld

\* A request over the limit is counted and refused; the ones that got through
\* in the window in force are the last Limit of the history.
LEMMA CountAndRejectInv ==
    ASSUME LimiterAssumption, LimiterInv, NEW k \in Keys, CountAndReject(k)
    PROVE  LimiterInv'
<1>1. LimiterTypeOK /\ LimiterTypeOK'
    <2>1. LimiterTypeOK
        BY DEF LimiterInv
    <2>2. counters' \in [Keys -> Counter]
        BY <2>1, CountedType DEF LimiterTypeOK, CountAndReject
    <2> QED
        BY <2>1, <2>2 DEF LimiterTypeOK, CountAndReject, Arrive
<1>2. ASSUME NEW j \in Keys, j # k PROVE KeyHeld(j)'
    <2>1. /\ counters'[j] = counters[j]
          /\ passed'[j] = passed[j]
          /\ now' = now
          /\ now \in Nat
        BY <1>1, <1>2 DEF CountAndReject, LimiterTypeOK
    <2> QED
        BY <1>1, <2>1, KeyByKey, Untouched
<1> DEFINE start == counters[k].resetAt - Window
<1>3. /\ now \in Nat /\ now' = now
      /\ counters[k].resetAt \in Nat /\ counters[k].count \in Nat
      /\ passed[k] \in Seq(Nat) /\ passed' = passed
      /\ Window \in Nat \ {0} /\ Limit \in Nat \ {0}
      /\ k[1] \in LimitedRoutes
    BY <1>1, KeyTypes DEF CountAndReject
<1>4. /\ counters'[k].resetAt = counters[k].resetAt
      /\ counters'[k].count = counters[k].count + 1
    BY <1>1 DEF LimiterTypeOK, Counter, CountAndReject
<1>5. /\ counters[k].count > 0
      /\ counters[k].count + 1 > Limit
      /\ now < start + Window
    BY <1>3 DEF CountAndReject, WindowOver, OverLimit
<1>6. Through(k) = Limit /\ Through(k)' = Limit
    BY <1>3, <1>4, <1>5 DEF Through
<1>7. KeyHeld(k)'
    <2>1. KeyHeld(k)
        BY KeyByKey
    <2>2. AtMostTwoBursts(k)'
        BY <1>3, <2>1 DEF KeyHeld, AtMostTwoBursts
    <2>3. /\ passed'[k] = passed[k]
          /\ counters'[k].count > 0 /\ counters'[k].count # 0
          /\ counters[k].count > 0
          /\ counters'[k].resetAt = counters[k].resetAt
          /\ now' = now
          /\ Through(k)' = Through(k)
        BY <1>3, <1>4, <1>5, <1>6
    <2> QED
        BY <2>1, <2>2, <2>3 DEF KeyHeld
<1>8. RejectionsEarned'
    <2>1. /\ Len(passed[k]) >= Limit
          /\ \A i \in 1..Len(passed[k]) :
               i > Len(passed[k]) - Limit => passed[k][i] >= start
        BY <1>3, <1>6, KeyByKey DEF KeyHeld
    <2>2. Len(passed[k]) - Limit + 1 \in 1..Len(passed[k])
        BY <1>3, <2>1
    <2>3. passed[k][Len(passed[k]) - Limit + 1] \in Nat
        BY <1>3, <2>2
    <2>4. passed[k][Len(passed[k]) - Limit + 1] >= start
        <3>1. Len(passed[k]) - Limit + 1 > Len(passed[k]) - Limit
            BY <1>3
        <3> QED
            BY <2>1, <2>2, <3>1
    <2>5. now - passed[k][Len(passed[k]) - Limit + 1] < Window
        <3>1. /\ now \in Int /\ start \in Int /\ Window \in Int
              /\ now < start + Window
            BY <1>3, <1>5
        <3> QED
            BY ONLY <2>3, <2>4, <3>1, NearAfter
    <2> QED
        BY <1>3, <2>1, <2>5 DEF CountAndReject, RejectionsEarned
<1> QED
    <2>1. \A j \in Keys : KeyHeld(j)'
        BY <1>2, <1>7
    <2> QED
        BY <1>1, <1>8, <2>1
           DEF LimiterInv, WindowsHoldHistory, BurstBounded, KeyHeld

-------------------------------------------------------------------------------

\* Every step preserves the invariant.
LEMMA StepLimiterInv ==
    ASSUME LimiterAssumption, LimiterInv, [LimiterNext]_limiterVars PROVE LimiterInv'
<1>1. LimiterTypeOK /\ (\A k \in Keys : KeyHeld(k)) /\ RejectionsEarned
    BY KeyByKey
<1>2. ASSUME NEW k \in Keys, OpenWindow(k) PROVE LimiterInv'
    BY <1>2, OpenWindowInv
<1>3. ASSUME NEW k \in Keys, CountAndPass(k) PROVE LimiterInv'
    BY <1>3, CountAndPassInv
<1>4. ASSUME NEW k \in Keys, CountAndReject(k) PROVE LimiterInv'
    BY <1>4, CountAndRejectInv
<1>5. ASSUME NEW k \in Keys, PassUnlimited(k) PROVE LimiterInv'
    <2>1. LimiterTypeOK'
        BY <1>1, <1>5 DEF LimiterTypeOK, PassUnlimited, Arrive, Pass
    <2>2. ASSUME NEW j \in Keys PROVE KeyHeld(j)'
        <3>1. CASE j = k
            BY <1>5, <3>1 DEF PassUnlimited, KeyHeld
        <3>2. CASE j # k
            <4>1. /\ counters'[j] = counters[j]
                  /\ passed'[j] = passed[j]
                  /\ now' = now /\ now \in Nat
                BY <1>1, <1>5, <3>2 DEF PassUnlimited, Pass, LimiterTypeOK
            <4> QED
                BY <1>1, <2>1, <4>1, Untouched
        <3> QED
            BY <3>1, <3>2
    <2>3. RejectionsEarned'
        BY <1>5 DEF PassUnlimited, Pass, RejectionsEarned
    <2> QED
        BY <2>1, <2>2, <2>3
           DEF LimiterInv, WindowsHoldHistory, BurstBounded, KeyHeld
<1>6. ASSUME Tick PROVE LimiterInv'
    <2>1. LimiterTypeOK'
        BY <1>1, <1>6 DEF LimiterTypeOK, Tick
    <2>2. ASSUME NEW j \in Keys PROVE KeyHeld(j)'
        <3>1. /\ counters'[j] = counters[j]
              /\ passed'[j] = passed[j]
              /\ now' >= now
            BY <1>1, <1>6 DEF Tick, LimiterTypeOK
        <3> QED
            BY <1>1, <2>1, <3>1, Untouched
    <2>3. RejectionsEarned'
        BY <1>6 DEF Tick, RejectionsEarned
    <2> QED
        BY <2>1, <2>2, <2>3
           DEF LimiterInv, WindowsHoldHistory, BurstBounded, KeyHeld
<1>7. ASSUME ProcessRestarts PROVE LimiterInv'
    <2>1. LimiterTypeOK'
        BY <1>1, <1>7 DEF LimiterTypeOK, ProcessRestarts, NoCounter, Counter
    <2>2. ASSUME NEW j \in Keys PROVE KeyHeld(j)'
        BY <1>7 DEF ProcessRestarts, NoCounter, KeyHeld, Through, AtMostTwoBursts,
                    LimiterAssumption
    <2>3. RejectionsEarned'
        BY <1>7 DEF ProcessRestarts, RejectionsEarned
    <2> QED
        BY <2>1, <2>2, <2>3
           DEF LimiterInv, WindowsHoldHistory, BurstBounded, KeyHeld
<1>8. ASSUME UNCHANGED limiterVars PROVE LimiterInv'
    <2>1. LimiterTypeOK'
        BY <1>1, <1>8 DEF LimiterTypeOK, limiterVars
    <2>2. ASSUME NEW j \in Keys PROVE KeyHeld(j)'
        <3>1. counters'[j] = counters[j] /\ passed'[j] = passed[j] /\ now' >= now
            BY <1>1, <1>8 DEF LimiterTypeOK, limiterVars
        <3> QED
            BY <1>1, <2>1, <3>1, Untouched
    <2>3. RejectionsEarned'
        BY <1>1, <1>8 DEF limiterVars, RejectionsEarned
    <2> QED
        BY <2>1, <2>2, <2>3
           DEF LimiterInv, WindowsHoldHistory, BurstBounded, KeyHeld
<1> QED
    BY <1>2, <1>3, <1>4, <1>5, <1>6, <1>7, <1>8 DEF LimiterNext

\* The limiter's invariant holds in every reachable state, for any number of
\* addresses and any window and limit.
THEOREM LimiterInvariance == LimiterSpec => []LimiterInv
<1>1. LimiterInit => LimiterInv
    BY LimiterAssumption, InitLimiterInv
<1>2. LimiterInv /\ [LimiterNext]_limiterVars => LimiterInv'
    BY LimiterAssumption, StepLimiterInv
<1> QED
    BY <1>1, <1>2, PTL DEF LimiterSpec

\* rateLimit.ts:26-46 lets at most twice the limit through in any span of one
\* window length, wherever the span lies.
THEOREM BurstsBounded == LimiterSpec => []BurstBounded
<1>1. LimiterInv => BurstBounded
    BY DEF LimiterInv
<1> QED
    BY <1>1, LimiterInvariance, PTL

\* rateLimit.ts:39-43 refuses a request only if Limit others of the same key
\* got through less than a window length ago.
THEOREM RejectionsAreEarned == LimiterSpec => []RejectionsEarned
<1>1. LimiterInv => RejectionsEarned
    BY DEF LimiterInv
<1> QED
    BY <1>1, LimiterInvariance, PTL

-------------------------------------------------------------------------------
(* The readiness probe                                                     *)

USE DEF Deps

\* A check turns a pending result of a probe in flight into another one.
LEMMA SettleKeeps ==
    ASSUME IInv, NEW q \in Probes, NEW d \in Deps, NEW result \in {"ok", "error"},
           Pending(q, d), Settle(q, d, result),
           result = "ok" => d = "idp" \/ health[d] = "up",
           UNCHANGED <<health, procVars, answer, seen, unsteady, call, faults>>
    PROVE  IInv'
<1> USE DEF procVars
<1>1. TypeOK'
  BY DEF IInv, TypeOK, Settle
<1>2. ASSUME NEW p \in Probes PROVE ProbeInv(p)'
  <2>1. ProbeInv(p) /\ check \in [Probes -> [Deps -> {"idle", "pending", "ok", "error"}]]
    BY DEF IInv, TypeOK
  <2>2. \A e \in Deps : e # d \/ p # q => check'[p][e] = check[p][e]
    BY <2>1 DEF Settle
  <2>3. answer'[p] = "asked" =>
          \A e \in Deps \ {"idp"} : check'[p][e] = "ok" => e \in seen'[p]
    <3> SUFFICES ASSUME answer[p] = "asked", NEW e \in Deps \ {"idp"},
                        check'[p][e] = "ok"
                 PROVE  e \in seen[p]
      OBVIOUS
    <3>1. CASE e = d /\ p = q
      <4>1. check'[p][e] = result
        BY <3>1, <2>1 DEF Settle
      <4> QED
        BY <3>1, <4>1, <2>1 DEF ProbeInv
    <3>2. CASE ~(e = d /\ p = q)
      BY <3>2, <2>1, <2>2 DEF ProbeInv
    <3> QED
      BY <3>1, <3>2
  <2> QED
    BY <2>1, <2>3 DEF ProbeInv
<1> QED
  BY <1>1, <1>2 DEF IInv

LEMMA InitInv == Init => IInv
<1> SUFFICES ASSUME Init PROVE IInv
  OBVIOUS
<1>1. TypeOK
  <2>1. answer \in [Probes -> {"none"}] /\ call \in [Requests -> {"none"}]
    BY DEF Init
  <2>2. check \in [Probes -> [Deps -> {"idle"}]]
    BY DEF Init
  <2>3. seen \in [Probes -> SUBSET Deps] /\ unsteady \in [Probes -> SUBSET Deps]
    BY DEF Init
  <2> QED
    BY <2>1, <2>2, <2>3 DEF Init, TypeOK
<1>2. \A p \in Probes : answer[p] = "none"
  BY DEF Init
<1> QED
  BY <1>1, <1>2 DEF IInv, ProbeInv

LEMMA StepInv == IInv /\ [Next]_vars => IInv'
<1> SUFFICES ASSUME IInv, [Next]_vars PROVE IInv'
  OBVIOUS
<1> USE DEF procVars, probeVars
<1>0. TypeOK /\ \A p \in Probes : ProbeInv(p)
  BY DEF IInv
<1>1. ASSUME NEW d \in Deps, NEW h \in {"up", "down", "hung"}, Fault(d, h)
      PROVE  IInv'
  <2>1. TypeOK'
    BY <1>0, <1>1 DEF TypeOK, Fault
  <2>2. ASSUME NEW p \in Probes PROVE ProbeInv(p)'
    <3>1. seen[p] \subseteq seen'[p]
      BY <1>0, <1>1 DEF TypeOK, Fault
    <3>2. answer'[p] = "asked" => \A e \in Deps : health'[e] = "up" => e \in seen'[p]
      <4> SUFFICES ASSUME answer[p] = "asked", NEW e \in Deps, health'[e] = "up"
                   PROVE  e \in seen'[p]
        BY <1>1 DEF Fault
      <4>1. CASE e = d
        BY <4>1, <1>0, <1>1 DEF TypeOK, Fault
      <4>2. CASE e # d
        BY <4>2, <1>0, <1>1, <3>1 DEF TypeOK, Fault, ProbeInv
      <4> QED
        BY <4>1, <4>2
    <3>3. answer' = answer /\ check' = check
      BY <1>1 DEF Fault
    <3> QED
      BY <1>0, <3>1, <3>2, <3>3 DEF ProbeInv
  <2> QED
    BY <2>1, <2>2 DEF IInv
<1>2. ASSUME DropConnection \/ Restart \/ Connect \/ LoginDiscovers
      PROVE  IInv'
  <2>1. TypeOK'
    <3>1. CASE DropConnection
      BY <1>0, <3>1 DEF TypeOK, DropConnection
    <3>2. CASE Restart
      BY <1>0, <3>2 DEF TypeOK, Restart
    <3>3. CASE Connect
      BY <1>0, <3>3 DEF TypeOK, Connect
    <3>4. CASE LoginDiscovers
      BY <1>0, <3>4 DEF TypeOK, LoginDiscovers
    <3> QED
      BY <1>2, <3>1, <3>2, <3>3, <3>4
  <2>2. UNCHANGED <<health, probeVars>>
    BY <1>2 DEF DropConnection, Restart, Connect, LoginDiscovers
  <2> QED
    BY <1>0, <2>1, <2>2 DEF IInv, ProbeInv
<1>3. ASSUME NEW r \in Requests, Call(r) \/ Serve(r)
      PROVE  IInv'
  BY <1>0, <1>3 DEF IInv, TypeOK, ProbeInv, Call, Serve
<1>4. ASSUME NEW r \in Requests, GetRejects(r)
      PROVE  IInv'
  BY <1>0, <1>4 DEF IInv, TypeOK, ProbeInv, GetRejects
<1>5. ASSUME NEW p \in Probes, Ask(p)
      PROVE  IInv'
  <2>1. TypeOK'
    BY <1>0, <1>5 DEF TypeOK, Ask
  <2>2. ASSUME NEW q \in Probes PROVE ProbeInv(q)'
    <3>1. CASE q = p
      BY <1>0, <1>5, <3>1 DEF TypeOK, ProbeInv, Ask
    <3>2. CASE q # p
      BY <1>0, <1>5, <3>2 DEF TypeOK, ProbeInv, Ask
    <3> QED
      BY <3>1, <3>2
  <2> QED
    BY <2>1, <2>2 DEF IInv
<1>6. ASSUME NEW p \in Probes, Discover(p)
      PROVE  IInv'
  BY <1>0, <1>6 DEF IInv, TypeOK, ProbeInv, Discover
<1>7. ASSUME NEW p \in Probes, NEW d \in Deps,
             CheckOk(p, d) \/ CheckFails(p, d) \/ CheckTimesOut(p, d)
      PROVE  IInv'
  <2>1. Pending(p, d)
    BY <1>7 DEF CheckOk, CheckFails, CheckTimesOut
  <2>2. UNCHANGED <<health, procVars, answer, seen, unsteady, call, faults>>
    BY <1>7 DEF CheckOk, CheckFails, CheckTimesOut
  <2>3. CASE CheckOk(p, d)
    <3>1. d = "idp" \/ health[d] = "up"
      BY <2>3 DEF CheckOk, Answers
    <3> QED
      BY <2>1, <2>2, <2>3, <3>1, SettleKeeps DEF CheckOk
  <2>4. CASE Settle(p, d, "error")
    BY <2>1, <2>2, <2>4, SettleKeeps
  <2> QED
    BY <1>7, <2>3, <2>4 DEF CheckFails, CheckTimesOut
<1>8. ASSUME NEW p \in Probes, Respond(p)
      PROVE  IInv'
  <2>1. TypeOK'
    BY <1>0, <1>8 DEF TypeOK, Respond
  <2>2. ASSUME NEW q \in Probes PROVE ProbeInv(q)'
    <3>1. CASE q = p
      BY <1>0, <1>8, <3>1 DEF TypeOK, ProbeInv, Respond
    <3>2. CASE q # p
      BY <1>0, <1>8, <3>2 DEF TypeOK, ProbeInv, Respond
    <3> QED
      BY <3>1, <3>2
  <2> QED
    BY <2>1, <2>2 DEF IInv
<1>9. CASE UNCHANGED vars
  BY <1>0, <1>9 DEF vars, IInv, TypeOK, ProbeInv
<1> QED
  BY <1>1, <1>2, <1>3, <1>4, <1>5, <1>6, <1>7, <1>8, <1>9 DEF Next, CheckStep

\* The record of what a probe has seen is kept by every step.
THEOREM Invariance == Spec => []IInv
BY InitInv, StepInv, PTL DEF Spec

\* index.ts:121-124: "ready" means that Redis, LibreNMS and the TSDB each
\* answered during the probe, for any number of pollers, requests and faults.
THEOREM ReadyIsReached == Spec => []ReadyMeansReached
<1>1. IInv => ReadyMeansReached
  BY DEF IInv, ProbeInv, ReadyMeansReached
<1> QED
  BY <1>1, Invariance, PTL

\* The process dies only of a request, and a request once sent stays sent.
LEMMA StepStaysUp == TypeOK /\ UnservedStaysUp /\ [Next]_vars => UnservedStaysUp'
<1> SUFFICES ASSUME TypeOK, UnservedStaysUp, [Next]_vars
             PROVE  UnservedStaysUp'
  OBVIOUS
<1> USE DEF TypeOK, UnservedStaysUp, procVars, probeVars
<1>1. CASE UNCHANGED call /\ (proc' = proc \/ proc' # "dead")
  BY <1>1
<1>2. ASSUME NEW r \in Requests, Call(r) PROVE UnservedStaysUp'
  BY <1>2 DEF Call
<1>3. ASSUME NEW r \in Requests, Serve(r) PROVE UnservedStaysUp'
  BY <1>3 DEF Serve
<1>4. ASSUME NEW r \in Requests, GetRejects(r) PROVE UnservedStaysUp'
  <2>1. call'[r] = "reset"
    BY <1>4 DEF GetRejects
  <2> QED
    BY <2>1
<1>5. ASSUME NEW p \in Probes, Ask(p) \/ CheckStep(p) PROVE UnservedStaysUp'
  BY <1>1, <1>5 DEF Ask, CheckStep, Discover, CheckOk, CheckFails,
                    CheckTimesOut, Respond
<1>6. ASSUME NEW d \in Deps, NEW h \in {"up", "down", "hung"}, Fault(d, h)
      PROVE  UnservedStaysUp'
  BY <1>1, <1>6 DEF Fault
<1>7. CASE DropConnection \/ Restart \/ Connect \/ LoginDiscovers
  BY <1>1, <1>7 DEF DropConnection, Restart, Connect, LoginDiscovers
<1>8. CASE UNCHANGED vars
  BY <1>1, <1>8 DEF vars
<1> QED
  BY <1>2, <1>3, <1>4, <1>5, <1>6, <1>7, <1>8 DEF Next

\* index.ts:136-138: no outage, probe or login ends the process; only the
\* session read of a request on a closed connection does.
THEOREM ProbesNeverKill == Spec => []UnservedStaysUp
<1>1. Init => UnservedStaysUp
  BY DEF Init, UnservedStaysUp
<1>2. IInv => TypeOK
  BY DEF IInv
<1> QED
  BY <1>1, <1>2, StepStaysUp, Invariance, PTL DEF Spec

-------------------------------------------------------------------------------
(* No check waits for nothing                                              *)

\* A probe in flight is one of a process that has connected, and remembers
\* which dependencies are not up.
ConnectedInv == proc = "listening" => conn \in {"open", "closed"}

WatchInv(p) ==
    answer[p] = "asked" =>
        proc = "listening" /\ \A d \in Deps : health[d] # "up" => d \in unsteady[p]

StuckInv == TypeOK /\ ConnectedInv /\ \A p \in Probes : WatchInv(p)

\* Whatever the dependencies do, some step of a check is there to be taken: it
\* passes, fails, runs out of its budget, or reads the discovery document.
ChecksCanSettle ==
    \A p \in Probes, d \in Deps : Pending(p, d) =>
        \/ Answers(d) \/ Fails(d) \/ d \in unsteady[p]
        \/ d = "idp" /\ ~discovered /\ health[d] = "up"

\* What is under way is neither begun nor forgotten by a step that leaves the
\* process, its connection and the dependencies alone.
LEMMA WatchKept ==
    ASSUME StuckInv, UNCHANGED <<health, proc, conn, unsteady>>,
           \A p \in Probes : answer'[p] = "asked" => answer[p] = "asked"
    PROVE  ConnectedInv' /\ \A p \in Probes : WatchInv(p)'
BY DEF StuckInv, ConnectedInv, WatchInv

LEMMA StuckStep == TypeOK' /\ StuckInv /\ [Next]_vars => StuckInv'
<1> SUFFICES ASSUME TypeOK', StuckInv, [Next]_vars
             PROVE  ConnectedInv' /\ \A p \in Probes : WatchInv(p)'
    BY DEF StuckInv
<1> USE DEF procVars, probeVars
<1>0. TypeOK /\ ConnectedInv /\ \A p \in Probes : WatchInv(p)
    BY DEF StuckInv
<1>1. ASSUME NEW d \in Deps, NEW h \in {"up", "down", "hung"}, Fault(d, h)
      PROVE  ConnectedInv' /\ \A p \in Probes : WatchInv(p)'
    <2>1. ConnectedInv'
        BY <1>0, <1>1 DEF ConnectedInv, Fault
    <2>2. ASSUME NEW p \in Probes, answer[p] = "asked", NEW e \in Deps, health'[e] # "up"
          PROVE  e \in unsteady'[p]
        <3>1. CASE e = d
            BY <1>0, <1>1, <2>2, <3>1 DEF TypeOK, Fault
        <3>2. CASE e # d
            BY <1>0, <1>1, <2>2, <3>2 DEF TypeOK, WatchInv, Fault
        <3> QED
            BY <3>1, <3>2
    <2>3. answer' = answer /\ proc' = proc
        BY <1>1 DEF Fault
    <2> QED
        BY <1>0, <2>1, <2>2, <2>3 DEF WatchInv
<1>2. CASE DropConnection
    BY <1>0, <1>2 DEF ConnectedInv, WatchInv, DropConnection
<1>3. CASE Restart
    BY <1>0, <1>3 DEF ConnectedInv, WatchInv, Restart
<1>4. CASE Connect
    BY <1>0, <1>4 DEF ConnectedInv, WatchInv, Connect
<1>5. CASE LoginDiscovers
    BY <1>5, WatchKept DEF LoginDiscovers
<1>6. ASSUME NEW r \in Requests, Call(r) \/ Serve(r)
      PROVE  ConnectedInv' /\ \A p \in Probes : WatchInv(p)'
    BY <1>6, WatchKept DEF Call, Serve
<1>7. ASSUME NEW r \in Requests, GetRejects(r)
      PROVE  ConnectedInv' /\ \A p \in Probes : WatchInv(p)'
    <2>1. \A p \in Probes : answer'[p] # "asked"
        BY <1>7 DEF GetRejects
    <2>2. proc' = "dead"
        BY <1>7 DEF GetRejects
    <2> QED
        BY <2>1, <2>2 DEF ConnectedInv, WatchInv
<1>8. ASSUME NEW p \in Probes, Ask(p)
      PROVE  ConnectedInv' /\ \A q \in Probes : WatchInv(q)'
    <2>1. ConnectedInv'
        BY <1>0, <1>8 DEF ConnectedInv, Ask
    <2>2. ASSUME NEW q \in Probes PROVE WatchInv(q)'
        <3>1. CASE q = p
            BY <1>0, <1>8, <3>1 DEF TypeOK, WatchInv, Ask
        <3>2. CASE q # p
            BY <1>0, <1>8, <3>2 DEF TypeOK, WatchInv, Ask
        <3> QED
            BY <3>1, <3>2
    <2> QED
        BY <2>1, <2>2
<1>9. ASSUME NEW p \in Probes, CheckStep(p)
      PROVE  ConnectedInv' /\ \A q \in Probes : WatchInv(q)'
    <2>1. UNCHANGED <<health, proc, conn, unsteady>>
        BY <1>9 DEF CheckStep, Discover, CheckOk, CheckFails, CheckTimesOut, Respond
    <2>2. \A q \in Probes : answer'[q] = "asked" => answer[q] = "asked"
        <3>1. CASE Respond(p)
            BY <1>0, <3>1 DEF TypeOK, Respond
        <3>2. CASE ~Respond(p)
            BY <1>9, <3>2 DEF CheckStep, Discover, CheckOk, CheckFails, CheckTimesOut
        <3> QED
            BY <3>1, <3>2
    <2> QED
        BY <2>1, <2>2, WatchKept
<1>10. CASE UNCHANGED vars
    BY <1>10, WatchKept DEF vars
<1> QED
    BY <1>1, <1>2, <1>3, <1>4, <1>5, <1>6, <1>7, <1>8, <1>9, <1>10 DEF Next

\* health.ts:24 and :30-33: no check of a probe is ever left without a way to
\* end, for any number of pollers and whatever the dependencies do: what
\* ProbesAnswered needs besides fairness.  A command on an open connection to a
\* Redis that hangs has only the budget.
THEOREM ProbesNeverStuck == Spec => []ChecksCanSettle
<1>1. Init => StuckInv
    <2>1. Init => ConnectedInv /\ \A p \in Probes : WatchInv(p)
        BY DEF Init, ConnectedInv, WatchInv
    <2> QED
        BY <2>1, InitInv DEF StuckInv, IInv
<1>2. IInv' => TypeOK'
    BY DEF IInv
<1>3. StuckInv => ChecksCanSettle
    <2> SUFFICES ASSUME StuckInv, NEW p \in Probes, NEW d \in Deps, Pending(p, d)
                 PROVE  \/ Answers(d) \/ Fails(d) \/ d \in unsteady[p]
                        \/ d = "idp" /\ ~discovered /\ health[d] = "up"
        BY DEF ChecksCanSettle
    <2>1. conn \in {"open", "closed"} /\ (health[d] # "up" => d \in unsteady[p])
        BY DEF StuckInv, ConnectedInv, WatchInv, Pending
    <2>2. CASE d = "redis"
        BY <2>1, <2>2 DEF Answers, Fails
    <2>3. CASE d # "redis"
        BY <2>1, <2>3 DEF Answers, Fails
    <2> QED
        BY <2>2, <2>3
<1> QED
    BY <1>1, <1>2, <1>3, StuckStep, Invariance, PTL DEF Spec
===============================================================================
