----------------------------- MODULE ErrorBoundary ----------------------------
(***************************************************************************)
(* The middleware chain of the BFF around its routers: correlation ids,    *)
(* security headers, the body parser, the terminal 404 and the error       *)
(* boundary with its fallback, over log pipes and connections that fail.   *)
(***************************************************************************)
EXTENDS Logger

CONSTANTS
    Requests,
    IsProduction,
    HandlerErrors,  \* the values routers throw
    MaxThrows       \* bound on calls of the response that throw, for model checking

\* A thrown value, by what the boundary reads of it: an AppError, whose status
\* is a number; or a value with a type, allowlisted or not, and its statuses.
Status == {"4xx", "5xx", "absent"}
Thrown == [app : BOOLEAN, type : {"listed", "other", "none"}, status : Status, statusCode : Status]
Nothing == [app |-> FALSE, type |-> "none", status |-> "absent", statusCode |-> "absent"]

\* What a response throws, which has none of these.
ResponseError == [Nothing EXCEPT !.type = "other"]

\* What express.json throws: errors with a listed type and a 4xx in both places.
ParserError == [app |-> FALSE, type |-> "listed", status |-> "4xx", statusCode |-> "4xx"]

ASSUME BoundaryAssumption ==
    /\ IsFiniteSet(Requests) /\ IsProduction \in BOOLEAN /\ MaxThrows \in Nat
    /\ HandlerErrors \subseteq {e \in Thrown : e.app => e.status # "absent"}

VARIABLES
    stage,        \* per request, how far it has come
    id,           \* res.locals.correlationId, 0 before there is one
    headers,      \* the headers set
    thrown,       \* what the boundary was given
    headersSent,
    bodies,       \* the bodies written, as [kind, id]
    lines,        \* the lines about requests in the logs, as [level, id, pipe]
    throws,
    late          \* history: what was thrown came after the answer

request == <<stage, id, headers, thrown, headersSent, bodies, late>>
vars == <<request, lines, throws, logger>>

Body == [kind : {"success", "clientError", "serverError", "html"}, id : Nat]
Line == [level : DOMAIN Levels, id : Nat, pipe : {"stdout", "stderr"}]

TypeOK ==
    /\ stage \in [Requests -> {"arrived", "parsing", "parsed", "boundary", "replying",
                               "fallback", "done"}]
    /\ id \in [Requests -> Nat]
    /\ headers \in [Requests -> SUBSET {"correlation", "security", "hsts"}]
    /\ thrown \in [Requests -> Thrown]
    /\ headersSent \in [Requests -> BOOLEAN]
    /\ bodies \in [Requests -> Seq(Body)]
    /\ lines \subseteq Line
    /\ throws \in Nat
    /\ late \in [Requests -> BOOLEAN]

Init ==
    /\ stage = [r \in Requests |-> "arrived"]
    /\ id = [r \in Requests |-> 0]
    /\ headers = [r \in Requests |-> {}]
    /\ thrown = [r \in Requests |-> Nothing]
    /\ headersSent = [r \in Requests |-> FALSE]
    /\ bodies = [r \in Requests |-> <<>>]
    /\ lines = {}
    /\ throws = 0
    /\ late = [r \in Requests |-> FALSE]
    /\ LoggerInit

-------------------------------------------------------------------------------
(* The chain in front of the routers                                       *)

Go(r, from, to) == stage[r] = from /\ stage' = [stage EXCEPT ![r] = to]

\* Mutant: an id the client sends, here 0, is adopted.
FreshIdAdopted == 0

\* randomUUID: an id no request has had.
FreshId == 1 + Cardinality({r \in Requests : id[r] # 0})

SecurityHeaders == {"security"} \cup IF IsProduction THEN {"hsts"} ELSE {}

\* The middleware in front of the parser, up to the wait for the body.  The
\* client's own trace id goes into a header nothing reads, and is left out.
Arrive(r) ==
    /\ Go(r, "arrived", "parsing")
    /\ id' = [id EXCEPT ![r] = FreshId]
    /\ headers' = [headers EXCEPT ![r] = {"correlation"} \cup SecurityHeaders]
    /\ UNCHANGED <<thrown, headersSent, bodies, late, lines, throws, logger>>

\* Express hands what was thrown to the boundary.
Raise(r, e) ==
    /\ thrown' = [thrown EXCEPT ![r] = e]
    /\ stage' = [stage EXCEPT ![r] = "boundary"]

\* express.json: a body, or an error of the parser's.
ParseBody(r) ==
    /\ stage[r] = "parsing"
    /\ \/ Go(r, "parsing", "parsed") /\ UNCHANGED thrown
       \/ Raise(r, ParserError)
    /\ UNCHANGED <<id, headers, headersSent, bodies, late, lines, throws, logger>>

\* res.status(...).json(...)
Json(r, kind) ==
    /\ bodies' = [bodies EXCEPT ![r] = Append(@, [kind |-> kind, id |-> id[r]])]
    /\ headersSent' = [headersSent EXCEPT ![r] = TRUE]

\* The response throws, before its headers are on the wire or after.
ResponseThrows(r) ==
    /\ throws < MaxThrows /\ throws' = throws + 1
    /\ \/ UNCHANGED headersSent
       \/ ~headersSent[r] /\ headersSent' = [headersSent EXCEPT ![r] = TRUE]

\* A router answers, throws, or throws after it has answered.
Handle(r) ==
    /\ stage[r] = "parsed"
    /\ \/ /\ \E kind \in {"success", "clientError", "serverError"} : Json(r, kind)
          /\ Go(r, "parsed", "done")
          /\ UNCHANGED <<thrown, late>>
       \/ /\ \E e \in HandlerErrors : Raise(r, e)
          /\ \/ UNCHANGED <<headersSent, bodies, late>>
             \/ Json(r, "success") /\ late' = [late EXCEPT ![r] = TRUE]
    /\ UNCHANGED <<id, headers, lines, throws, logger>>

NotFound(r) ==
    /\ stage[r] = "parsed"
    /\ \/ Go(r, "parsed", "done") /\ Json(r, "clientError") /\ UNCHANGED <<thrown, throws>>
       \/ ResponseThrows(r) /\ Raise(r, ResponseError) /\ UNCHANGED bodies
    /\ UNCHANGED <<id, headers, late, lines, logger>>

-------------------------------------------------------------------------------
(* The boundary                                                            *)

\* Mutant: the type alone decides.
ClassifyByType(e) == e.type = "listed"

\* An allowlisted type and a 4xx: `status`, or `statusCode` if that is none.
ClassifyFrameworkError(e) ==
    /\ e.type = "listed"
    /\ (IF e.status # "absent" THEN e.status ELSE e.statusCode) = "4xx"

\* The level handleError logs at and the kind it answers with.
Verdict(e) ==
    CASE e.app /\ e.status = "5xx" -> [level |-> "error", kind |-> "serverError"]
      [] e.app /\ e.status # "5xx" -> [level |-> "info", kind |-> "clientError"]
      [] ~e.app /\ ClassifyFrameworkError(e) -> [level |-> "warn", kind |-> "clientError"]
      [] OTHER -> [level |-> "error", kind |-> "serverError"]

WriteLine(level, n) ==
    lines' = IF Enabled(level) /\ Pipe # "none"
             THEN lines \cup {[level |-> level, id |-> n, pipe |-> Pipe]} ELSE lines

\* The record comes before the reply.
HandleError(r) ==
    /\ Go(r, "boundary", "replying")
    /\ WriteLine(IF headersSent[r] THEN "error" ELSE Verdict(thrown[r]).level, id[r])
    /\ UNCHANGED <<id, headers, thrown, headersSent, bodies, late, throws, logger>>

\* Mutant: the boundary writes a body whether or not one is out.
ReplyAnyway(r) ==
    /\ Go(r, "replying", "done")
    /\ Json(r, Verdict(thrown[r]).kind)
    /\ UNCHANGED <<throws, id, headers, thrown, late, lines, logger>>

\* Once headers are out the stream is only ended.  A throw is caught.
Reply(r) ==
    /\ \/ /\ Go(r, "replying", "done")
          /\ IF headersSent[r] THEN UNCHANGED <<headersSent, bodies>>
             ELSE Json(r, Verdict(thrown[r]).kind)
          /\ UNCHANGED throws
       \/ Go(r, "replying", "fallback") /\ ResponseThrows(r) /\ UNCHANGED bodies
    /\ UNCHANGED <<id, headers, thrown, late, lines, logger>>

\* writeLastResortRecord goes around the logger, to stderr alone.
LastResortRecord(r) ==
    lines' = IF stderr THEN lines \cup {[level |-> "error", id |-> id[r], pipe |-> "stderr"]}
             ELSE lines

\* Mutant: the fallback's own throw reaches the default handler of Express.
MinimalFallbackEscapes(r) ==
    /\ Go(r, "fallback", "done")
    /\ LastResortRecord(r)
    /\ IF headersSent[r] THEN UNCHANGED <<headersSent, bodies, throws>>
       ELSE \/ Json(r, "serverError") /\ UNCHANGED throws
            \/ /\ throws < MaxThrows /\ throws' = throws + 1
               /\ Json(r, "html")
    /\ UNCHANGED <<id, headers, thrown, late, logger>>

\* writeMinimalFallback; if it throws the socket is destroyed.
MinimalFallback(r) ==
    /\ Go(r, "fallback", "done")
    /\ LastResortRecord(r)
    /\ \/ /\ IF headersSent[r] THEN UNCHANGED <<headersSent, bodies>> ELSE Json(r, "serverError")
          /\ UNCHANGED throws
       \/ ResponseThrows(r) /\ UNCHANGED bodies
    /\ UNCHANGED <<id, headers, thrown, late, logger>>

Step(r) ==
    \/ Arrive(r) \/ ParseBody(r) \/ Handle(r) \/ NotFound(r)
    \/ HandleError(r) \/ Reply(r) \/ MinimalFallback(r)

Next ==
    \/ \E r \in Requests : Step(r)
    \/ (Log \/ Hangup) /\ UNCHANGED <<request, lines, throws>>

Spec == Init /\ [][Next]_vars

\* The event loop comes back to every request.
FairSpec == Spec /\ \A r \in Requests : WF_vars(Step(r))

-------------------------------------------------------------------------------
(* Properties                                                              *)

ReplyOf(r) ==
    IF Len(bodies[r]) > 1 THEN "garbled"
    ELSE IF Len(bodies[r]) = 1 THEN bodies[r][1].kind
    ELSE IF stage[r] = "done" THEN "broken" ELSE "none"

Promise == INSTANCE RequestReply WITH reply <- [r \in Requests |-> ReplyOf(r)]

\* errorHandler.ts:261-264: whatever is thrown, before or after the answer, in
\* a router, the chain or the boundary itself, a request gets one reply of a
\* known kind or a closed connection, and it gets it.
OneReply == Promise!Spec

Recorded(r) == \E line \in lines : line.level = "error" /\ line.id = id[r]

StatusOf(e) == IF e.status # "absent" THEN e.status ELSE e.statusCode

\* errorHandler.ts:158-160 and :132-134: a request that met a fault of the
\* server has a line at ERROR under its id by the time it is answered, unless
\* both pipes are gone; the boundary's own fault needs stderr alone.
FaultsRecorded ==
    \A r \in Requests :
        LET fault == thrown[r] # Nothing /\ StatusOf(thrown[r]) # "4xx"
            answered == \E n \in DOMAIN bodies[r] : bodies[r][n].kind = "serverError"
        IN  stage[r] = "done" /\ (fault \/ (thrown[r] # Nothing /\ answered))
              => Recorded(r) \/ (~stderr /\ (~stdout \/ ~fault))

\* errorHandler.ts:312-313 ("must NOT be ERROR"): a client that sends a bad
\* request raises no ERROR, unless the boundary met a fault of its own or the
\* error came after the answer.  A line names one request, by the id in the
\* headers and body of its reply.
OnlyFaultsAlarm ==
    /\ \A line \in lines : line.level = "error" =>
         \E r \in Requests :
            /\ id[r] = line.id
            /\ \A s \in Requests \ {r} : id[s] # line.id
            /\ \/ throws > 0 \/ late[r] \/ StatusOf(thrown[r]) # "4xx"
               \/ ~thrown[r].app /\ thrown[r].type # "listed"
    /\ \A r \in Requests : \A n \in DOMAIN bodies[r] :
         {"correlation", "security"} \subseteq headers[r] /\ bodies[r][n].id = id[r]
===============================================================================
