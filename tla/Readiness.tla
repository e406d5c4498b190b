------------------------------- MODULE Readiness ------------------------------
(***************************************************************************)
(* The BFF process, its one Redis connection, and the readiness probe that *)
(* races four dependency checks against a budget.  Authenticated requests  *)
(* appear as far as they use the Redis connection.                         *)
(***************************************************************************)
EXTENDS Integers

CONSTANTS
    Probes,     \* pollers of /ready; each asks again and again
    Requests,   \* requests with a session cookie, sent again and again
    MaxFaults   \* bound on changes of the dependencies, for model checking

ASSUME ReadinessAssumption == MaxFaults \in Nat

Deps == {"redis", "librenms", "idp", "tsdb"}

VARIABLES
    health,      \* per dependency: "up" answers within the budget, "down"
                 \* fails, "hung" does not answer for now
    proc,        \* the BFF: "starting", "listening", "dead"
    conn,        \* its Redis connection: "none", "open", "closed"
    discovered,  \* discoveryCache is filled
    answer,      \* per probe: "none", "asked", "ready", "not_ready", "reset"
    check,       \* per probe and dependency: "idle", "pending", "ok", "error"
    call,        \* per request: "none", "waiting", "served", "reset"
    faults,
    \* History of the probe in flight, per probe:
    seen,        \* the dependencies that were up at some moment of it
    unsteady     \* the dependencies that were not up at some moment of it

procVars == <<proc, conn, discovered>>
probeVars == <<answer, check, seen, unsteady>>
vars == <<health, procVars, probeVars, call, faults>>

TypeOK ==
    /\ health \in [Deps -> {"up", "down", "hung"}]
    /\ proc \in {"starting", "listening", "dead"}
    /\ conn \in {"none", "open", "closed"}
    /\ discovered \in BOOLEAN
    /\ answer \in [Probes -> {"none", "asked", "ready", "not_ready", "reset"}]
    /\ check \in [Probes -> [Deps -> {"idle", "pending", "ok", "error"}]]
    /\ call \in [Requests -> {"none", "waiting", "served", "reset"}]
    /\ faults \in Nat
    /\ seen \in [Probes -> SUBSET Deps]
    /\ unsteady \in [Probes -> SUBSET Deps]

Init ==
    /\ health \in [Deps -> {"up", "down", "hung"}]
    /\ proc = "starting" /\ conn = "none" /\ discovered = FALSE
    /\ answer = [p \in Probes |-> "none"]
    /\ check = [p \in Probes |-> [d \in Deps |-> "idle"]]
    /\ call = [r \in Requests |-> "none"]
    /\ faults = 0
    /\ seen = [p \in Probes |-> {}] /\ unsteady = [p \in Probes |-> {}]

-------------------------------------------------------------------------------
(* The world around the BFF                                                *)

\* A Redis that goes down takes the open connection with it; a hung one leaves
\* it open.
Fault(d, h) ==
    /\ faults < MaxFaults
    /\ faults' = faults + 1
    /\ health[d] # h
    /\ health' = [health EXCEPT ![d] = h]
    /\ conn' = IF d = "redis" /\ h = "down" /\ conn = "open" THEN "closed" ELSE conn
    /\ seen' = [p \in Probes |-> IF answer[p] = "asked" /\ h = "up"
                                 THEN seen[p] \cup {d} ELSE seen[p]]
    /\ unsteady' = [p \in Probes |-> IF answer[p] = "asked" /\ h # "up"
                                     THEN unsteady[p] \cup {d} ELSE unsteady[p]]
    /\ UNCHANGED <<proc, discovered, answer, check, call>>

\* The network drops the Redis connection.
DropConnection ==
    /\ faults < MaxFaults
    /\ faults' = faults + 1
    /\ conn = "open"
    /\ conn' = "closed"
    /\ UNCHANGED <<health, proc, discovered, probeVars, call>>

\* The unit restarts a process that has failed.
Restart ==
    /\ proc = "dead"
    /\ proc' = "starting" /\ conn' = "none" /\ discovered' = FALSE
    /\ UNCHANGED <<health, probeVars, call, faults>>

-------------------------------------------------------------------------------
(* The process                                                             *)

\* Mutant: main does not catch the failure of redis.connect.
ConnectUncaught ==
    /\ proc = "starting"
    /\ conn' = IF health["redis"] = "up" THEN "open" ELSE "closed"
    /\ proc' = IF health["redis"] = "up" THEN "listening" ELSE "dead"
    /\ UNCHANGED <<health, discovered, probeVars, call, faults>>

\* main connects once, and listens whether or not that worked.
Connect ==
    /\ proc = "starting"
    /\ conn' = IF health["redis"] = "up" THEN "open" ELSE "closed"
    /\ proc' = "listening"
    /\ UNCHANGED <<health, discovered, probeVars, call, faults>>

\* requireSession awaits sessions.get.
Call(r) ==
    /\ proc = "listening"
    /\ call[r] # "waiting"
    /\ call' = [call EXCEPT ![r] = "waiting"]
    /\ UNCHANGED <<health, procVars, probeVars, faults>>

Serve(r) ==
    /\ call[r] = "waiting"
    /\ conn = "open" /\ health["redis"] = "up"
    /\ call' = [call EXCEPT ![r] = "served"]
    /\ UNCHANGED <<health, procVars, probeVars, faults>>

\* On a closed connection sessions.get rejects, outside of every try: Node
\* ends the process on the unhandled rejection, and all that was in flight.
GetRejects(r) ==
    /\ call[r] = "waiting"
    /\ conn = "closed"
    /\ proc' = "dead"
    /\ call' = [q \in Requests |-> IF call[q] = "waiting" THEN "reset" ELSE call[q]]
    /\ answer' = [p \in Probes |-> IF answer[p] = "asked" THEN "reset" ELSE answer[p]]
    /\ check' = [p \in Probes |-> [d \in Deps |-> "idle"]]
    /\ UNCHANGED <<health, conn, discovered, faults, seen, unsteady>>

\* A login reads the discovery document and leaves it in the cache.
LoginDiscovers ==
    /\ proc = "listening"
    /\ health["idp"] = "up"
    /\ discovered' = TRUE
    /\ UNCHANGED <<health, proc, conn, probeVars, call, faults>>

-------------------------------------------------------------------------------
(* GET /ready                                                              *)

Ask(p) ==
    /\ proc = "listening"
    /\ answer[p] # "asked"
    /\ answer' = [answer EXCEPT ![p] = "asked"]
    /\ check' = [check EXCEPT ![p] = [d \in Deps |-> "pending"]]
    /\ seen' = [seen EXCEPT ![p] = {d \in Deps : health[d] = "up"}]
    /\ unsteady' = [unsteady EXCEPT ![p] = {d \in Deps : health[d] # "up"}]
    /\ UNCHANGED <<health, procVars, call, faults>>

Pending(p, d) == answer[p] = "asked" /\ check[p][d] = "pending"

Settle(p, d, result) == check' = [check EXCEPT ![p][d] = result]

\* discover: one fetch, and none once the document is cached.
Discover(p) ==
    /\ Pending(p, "idp") /\ ~discovered
    /\ health["idp"] = "up"
    /\ discovered' = TRUE
    /\ UNCHANGED <<health, proc, conn, probeVars, call, faults>>

Answers(d) ==
    CASE d = "redis" -> conn = "open" /\ health[d] = "up"
      [] d = "idp"   -> discovered
      [] OTHER       -> health[d] = "up"

CheckOk(p, d) ==
    /\ Pending(p, d)
    /\ Answers(d)
    /\ Settle(p, d, "ok")
    /\ UNCHANGED <<health, procVars, answer, seen, unsteady, call, faults>>

\* The check's own error, or its client's own timeout.  A command on an open
\* Redis connection has none.
Fails(d) ==
    CASE d = "redis" -> conn = "closed"
      [] d = "idp"   -> ~discovered /\ health[d] # "up"
      [] OTHER       -> health[d] # "up"

CheckFails(p, d) ==
    /\ Pending(p, d)
    /\ Fails(d)
    /\ Settle(p, d, "error")
    /\ UNCHANGED <<health, procVars, answer, seen, unsteady, call, faults>>

\* Mutant: a check that runs out of time counts as passed.
TimeoutAssumesOk(p, d) ==
    /\ Pending(p, d)
    /\ d \in unsteady[p]
    /\ Settle(p, d, "ok")
    /\ UNCHANGED <<health, procVars, answer, seen, unsteady, call, faults>>

\* Mutant: the check is awaited without a budget.
TimeoutMissing(p, d) == Pending(p, d) /\ FALSE /\ UNCHANGED vars

\* Mutant: one timer is armed when the router is created, for all probes.
TimeoutShared(p, d) ==
    /\ Pending(p, d)
    /\ Settle(p, d, "error")
    /\ UNCHANGED <<health, procVars, answer, seen, unsteady, call, faults>>

\* The budget of checkWithTimeout wins the race.
CheckTimesOut(p, d) ==
    /\ Pending(p, d)
    /\ d \in unsteady[p]
    /\ Settle(p, d, "error")
    /\ UNCHANGED <<health, procVars, answer, seen, unsteady, call, faults>>

Respond(p) ==
    /\ answer[p] = "asked"
    /\ \A d \in Deps : check[p][d] # "pending"
    /\ answer' = [answer EXCEPT ![p] =
                    IF \A d \in Deps : check[p][d] = "ok" THEN "ready" ELSE "not_ready"]
    /\ check' = [check EXCEPT ![p] = [d \in Deps |-> "idle"]]
    /\ UNCHANGED <<health, procVars, seen, unsteady, call, faults>>

CheckStep(p) ==
    \/ Discover(p)
    \/ \E d \in Deps : CheckOk(p, d) \/ CheckFails(p, d) \/ CheckTimesOut(p, d)
    \/ Respond(p)

Next ==
    \/ \E d \in Deps, h \in {"up", "down", "hung"} : Fault(d, h)
    \/ DropConnection \/ Restart \/ Connect \/ LoginDiscovers
    \/ \E r \in Requests : Call(r) \/ Serve(r) \/ GetRejects(r)
    \/ \E p \in Probes : Ask(p) \/ CheckStep(p)

Spec == Init /\ [][Next]_vars

\* The runtime runs what is ready, the unit restarts a dead process, and
\* /ready is polled.
FairSpec ==
    /\ Spec
    /\ WF_vars(Connect) /\ WF_vars(Restart)
    /\ \A p \in Probes : WF_vars(Ask(p)) /\ WF_vars(CheckStep(p))
    /\ \A r \in Requests : WF_vars(Serve(r)) /\ WF_vars(GetRejects(r))

-------------------------------------------------------------------------------
(* Properties                                                              *)

\* index.ts:121-124: /ready says "ready" only if Redis, LibreNMS and the TSDB
\* each answered during this very request, whatever faults came in between.
ReadyMeansReached ==
    \A p \in Probes : answer[p] = "ready" => Deps \ {"idp"} \subseteq seen[p]

\* health.ts:24 and :30-33: a probe always answers, also while dependencies
\* hang (or its connection is reset by the end of the process).
ProbesAnswered == \A p \in Probes : answer[p] = "asked" ~> answer[p] # "asked"

AllUp == \A d \in Deps : health[d] = "up"

\* index.ts:136-138, as far as it holds: probes, logins and outages, also one
\* at startup, never stop the process; only a request that needs a session does.
UnservedStaysUp == (\A r \in Requests : call[r] = "none") => proc # "dead"

\* health.ts:76-77: an outage drains traffic and a restart is not needed: once
\* the dependencies are up for good, and the Redis connection has survived,
\* /ready reports "ready" again and again.
Recovers ==
    <>[](AllUp /\ conn = "open") => \A p \in Probes : []<>(answer[p] = "ready")

\* The inductive invariant behind ReadyMeansReached.
ProbeInv(p) ==
    /\ answer[p] = "asked" => \A d \in Deps : health[d] = "up" => d \in seen[p]
    /\ answer[p] = "asked" =>
         \A d \in Deps \ {"idp"} : check[p][d] = "ok" => d \in seen[p]
    /\ answer[p] = "ready" => Deps \ {"idp"} \subseteq seen[p]

IInv == TypeOK /\ \A p \in Probes : ProbeInv(p)
===============================================================================
