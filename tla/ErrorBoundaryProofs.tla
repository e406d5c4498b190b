-------------------------- MODULE ErrorBoundaryProofs -------------------------
(***************************************************************************)
(* For any set of requests, thrown values and faults of pipes and          *)
(* connections: each request gets one reply or a broken connection, step   *)
(* by step as RequestReply promises, and faults of the server, and only    *)
(* they, are on record as errors by then.                                  *)
(***************************************************************************)
EXTENDS ErrorBoundary, FiniteSetTheorems, WellFoundedInduction, TLAPS

Before == {"arrived", "parsing", "parsed"}
Caught == {"boundary", "replying", "fallback"}
Replies == {"success", "clientError", "serverError"}

\* The reply, if there is one, is one body of one of these kinds.
Replied(r, kinds) == bodies[r] = <<>> \/ \E b : b.kind \in kinds /\ bodies[r] = <<b>>

Fault(r) == thrown[r] # Nothing /\ StatusOf(thrown[r]) # "4xx"

\* There is a line about the request, unless there is no pipe to write it to.
Noted(r) == Recorded(r) \/ (~stdout /\ ~stderr)

ChainInv(r) ==
    /\ stage[r] \in Before \cup Caught \cup {"done"}
    /\ stage[r] \in Before => bodies[r] = <<>> /\ thrown[r] = Nothing
    /\ stage[r] \in Caught => Replied(r, {"success"})
    /\ Replied(r, Replies)
    /\ bodies[r] # <<>> => headersSent[r]
    /\ thrown[r] \in Thrown
    /\ thrown[r].app => thrown[r].status # "absent"

RecordInv(r) ==
    /\ stage[r] = "replying" /\ Verdict(thrown[r]).level = "error" => Noted(r)
    /\ stage[r] \in {"fallback", "done"} /\ Fault(r) => Noted(r)
    /\ stage[r] = "done" /\ thrown[r] # Nothing /\ Replied(r, {"serverError"})
          /\ bodies[r] # <<>> => Recorded(r) \/ ~stderr

Shape ==
    /\ stage = [r \in Requests |-> stage[r]]
    /\ id = [r \in Requests |-> id[r]]
    /\ thrown = [r \in Requests |-> thrown[r]]
    /\ headersSent = [r \in Requests |-> headersSent[r]]
    /\ bodies = [r \in Requests |-> bodies[r]]
    /\ stdout \in BOOLEAN /\ stderr \in BOOLEAN

\* The inductive invariant.
ReplyInv == Shape /\ \A r \in Requests : ChainInv(r) /\ RecordInv(r)

\* What a step does to the requests it is not about.
Others(r) ==
    \A s \in Requests \ {r} :
        /\ stage'[s] = stage[s] /\ id'[s] = id[s] /\ thrown'[s] = thrown[s]
        /\ headersSent'[s] = headersSent[s] /\ bodies'[s] = bodies[s]

\* What a step may do to the reply of its own request.
Advances(r) == ReplyOf(r)' = ReplyOf(r) \/ (ReplyOf(r) = "none" /\ ReplyOf(r)' \in Promise!Kinds)

-------------------------------------------------------------------------------
\* Lines are only added and pipes only lost, so what is noted stays so.
LEMMA NotedStays ==
    ASSUME NEW r \in Requests, lines \subseteq lines', id'[r] = id[r],
           stdout' => stdout, stderr' => stderr
    PROVE  /\ Recorded(r) => Recorded(r)'
           /\ Noted(r) => Noted(r)'
BY DEF Recorded, Noted

\* A request whose own state stays as it is keeps its part of the invariant.
LEMMA UntouchedKeeps ==
    ASSUME NEW r \in Requests, ChainInv(r), RecordInv(r),
           stage'[r] = stage[r], id'[r] = id[r], thrown'[r] = thrown[r],
           headersSent'[r] = headersSent[r], bodies'[r] = bodies[r],
           lines \subseteq lines', stdout' => stdout, stderr' => stderr
    PROVE  ChainInv(r)' /\ RecordInv(r)' /\ ReplyOf(r)' = ReplyOf(r)
<1>1. ChainInv(r)'
    BY DEF ChainInv, Replied
<1>2. RecordInv(r)'
    BY NotedStays DEF RecordInv, Replied, Fault
<1> QED
    BY <1>1, <1>2 DEF ReplyOf

\* logger.ts: a line at a level that is enabled is added where a pipe is left.
LEMMA ErrorLineNoted ==
    ASSUME LoggerAssumption, NEW r \in Requests, WriteLine("error", id[r]),
           id'[r] = id[r], UNCHANGED logger, stdout \in BOOLEAN, stderr \in BOOLEAN
    PROVE  Noted(r)'
<1>1. Enabled("error")
    BY DEF LoggerAssumption, Enabled, Levels
<1>2. CASE Pipe = "none"
    BY <1>2 DEF Pipe, Noted, logger
<1>3. CASE Pipe # "none"
    <2> DEFINE line == [level |-> "error", id |-> id[r], pipe |-> Pipe]
    <2>1. line \in lines'
        BY <1>1, <1>3 DEF WriteLine
    <2>2. line.level = "error" /\ line.id = id'[r]
        OBVIOUS
    <2> HIDE DEF line
    <2> QED
        BY <2>1, <2>2 DEF Noted, Recorded
<1> QED
    BY <1>2, <1>3

\* errorHandler.ts:280-340: a fault of the server is judged an error, and only
\* what is judged an error is answered as one.
LEMMA FaultsAreErrors ==
    ASSUME NEW r \in Requests, ChainInv(r)
    PROVE  /\ Fault(r) => Verdict(thrown[r]).level = "error"
           /\ Verdict(thrown[r]).kind = "serverError" <=> Verdict(thrown[r]).level = "error"
           /\ Verdict(thrown[r]).kind \in Replies
BY DEF ChainInv, Fault, Verdict, ClassifyFrameworkError, StatusOf, Thrown, Status, Replies

\* The initial state satisfies the invariant.
LEMMA ReplyInit == Init => ReplyInv
BY DEF Init, LoggerInit, ReplyInv, Shape, ChainInv, RecordInv, Replied, Fault, Before, Caught,
       Replies, Nothing, Thrown, Status

\* A body for a request that has none is its only one.
LEMMA FirstBody ==
    ASSUME NEW r \in Requests, Shape, bodies[r] = <<>>, NEW kind \in Replies, Json(r, kind)
    PROVE  /\ bodies' = [s \in Requests |-> bodies'[s]]
           /\ headersSent' = [s \in Requests |-> headersSent'[s]]
           /\ \A s \in Requests \ {r} : bodies'[s] = bodies[s] /\ headersSent'[s] = headersSent[s]
           /\ headersSent'[r] /\ bodies'[r] # <<>>
           /\ Replied(r, {kind})' /\ Replied(r, Replies)'
           /\ ReplyOf(r)' = kind
<1> DEFINE b == [kind |-> kind, id |-> id[r]]
<1>1. bodies' = [bodies EXCEPT ![r] = Append(bodies[r], b)] /\ headersSent' = [headersSent EXCEPT ![r] = TRUE]
    BY DEF Json
<1>2. b.kind = kind
    OBVIOUS
<1> HIDE DEF b
<1>3. bodies'[r] = <<b>>
    BY <1>1 DEF Shape
<1>4. Replied(r, {kind})' /\ Replied(r, Replies)' /\ bodies'[r] # <<>>
    BY <1>2, <1>3 DEF Replied
<1>5. ReplyOf(r)' = kind
    BY <1>2, <1>3 DEF ReplyOf
<1> QED
    BY <1>1, <1>4, <1>5 DEF Shape

\* Writing the first body answers the request.
LEMMA AnswerAdvances ==
    ASSUME NEW r \in Requests, Shape, ChainInv(r), stage[r] # "done", bodies[r] = <<>>,
           NEW kind \in Replies, Json(r, kind),
           NEW to, to = "done" \/ (to = "boundary" /\ kind = "success"),
           stage' = [stage EXCEPT ![r] = to],
           NEW e \in Thrown, e.app => e.status # "absent", thrown' = [thrown EXCEPT ![r] = e],
           UNCHANGED <<id, logger>>
    PROVE  Shape' /\ Others(r) /\ Advances(r) /\ ChainInv(r)'
<1>1. /\ bodies' = [s \in Requests |-> bodies'[s]]
      /\ headersSent' = [s \in Requests |-> headersSent'[s]]
      /\ \A s \in Requests \ {r} : bodies'[s] = bodies[s] /\ headersSent'[s] = headersSent[s]
      /\ headersSent'[r] /\ bodies'[r] # <<>>
      /\ Replied(r, {kind})' /\ Replied(r, Replies)'
      /\ ReplyOf(r)' = kind
    BY FirstBody
<1>2. /\ stage' = [s \in Requests |-> stage'[s]] /\ thrown' = [s \in Requests |-> thrown'[s]]
      /\ stage'[r] = to /\ thrown'[r] = e
      /\ \A s \in Requests \ {r} : stage'[s] = stage[s] /\ thrown'[s] = thrown[s]
    BY DEF Shape
<1>3. Shape'
    BY <1>1, <1>2 DEF Shape, logger
<1>4. Others(r)
    BY <1>1, <1>2 DEF Others
<1>5. ReplyOf(r) = "none"
    BY DEF ReplyOf
<1>6. ChainInv(r)'
    BY <1>1, <1>2 DEF ChainInv, Before, Caught
<1> QED
    BY <1>1, <1>3, <1>4, <1>5, <1>6 DEF Advances, Promise!Kinds, Replies

\* Every step of a request keeps the invariant and advances its reply alone.
LEMMA StepReplies ==
    ASSUME BoundaryAssumption, LoggerAssumption, ReplyInv, NEW r \in Requests, Step(r)
    PROVE  ReplyInv' /\ Others(r) /\ Advances(r)
<1>1. Shape /\ ChainInv(r) /\ RecordInv(r)
    BY DEF ReplyInv
<1> SUFFICES /\ Shape' /\ Others(r) /\ Advances(r)
             /\ ChainInv(r)' /\ RecordInv(r)'
             /\ lines \subseteq lines' /\ UNCHANGED logger
    <2>1. ASSUME NEW s \in Requests \ {r}, lines \subseteq lines', UNCHANGED logger, Others(r)
          PROVE  ChainInv(s)' /\ RecordInv(s)'
        BY <2>1, UntouchedKeeps DEF Others, ReplyInv, logger
    <2> QED
        BY <2>1 DEF ReplyInv
<1> USE DEF Before, Caught, Advances, Promise!Kinds
<1>2. CASE Arrive(r)
    BY <1>1, <1>2 DEF Arrive, Go, Shape, Others, ChainInv, RecordInv, Replied, Fault, ReplyOf, logger
<1>3. CASE ParseBody(r)
    <2>1. bodies[r] = <<>> /\ thrown[r] = Nothing /\ UNCHANGED <<id, headersSent, bodies, lines, logger>>
        BY <1>1, <1>3 DEF ParseBody, ChainInv
    <2>2. CASE Go(r, "parsing", "parsed") /\ UNCHANGED thrown
        BY <1>1, <2>1, <2>2 DEF Go, Shape, Others, ChainInv, RecordInv, Replied, ReplyOf, logger
    <2>3. CASE Raise(r, ParserError)
        <3>1. ParserError \in Thrown /\ ~ParserError.app
            BY DEF ParserError, Thrown, Status
        <3> QED
            BY <1>1, <1>3, <2>1, <2>3, <3>1
               DEF ParseBody, Raise, Shape, Others, ChainInv, RecordInv, Replied, ReplyOf, logger
    <2> QED
        BY <1>3, <2>2, <2>3 DEF ParseBody
<1>4. CASE Handle(r)
    <2>1. bodies[r] = <<>> /\ thrown[r] = Nothing
        BY <1>1, <1>4 DEF Handle, ChainInv
    <2>2. CASE \E kind \in Replies : Json(r, kind) /\ Go(r, "parsed", "done") /\ UNCHANGED thrown
        <3>1. UNCHANGED <<id, lines, logger>> /\ thrown' = [thrown EXCEPT ![r] = thrown[r]]
            BY <1>1, <1>4, <2>2 DEF Handle, Shape
        <3>2. Shape' /\ Others(r) /\ Advances(r) /\ ChainInv(r)'
            BY <1>1, <2>1, <2>2, <3>1, AnswerAdvances DEF Go, ChainInv
        <3> QED
            BY <1>1, <2>1, <2>2, <3>1, <3>2 DEF Go, RecordInv, Fault, Shape
    <2>3. CASE \E e \in HandlerErrors : Raise(r, e) /\ UNCHANGED <<headersSent, bodies>>
        BY <1>1, <1>4, <2>1, <2>3
           DEF Handle, Raise, BoundaryAssumption, Shape, Others, ChainInv, RecordInv, Replied, ReplyOf, logger
    <2>4. CASE \E e \in HandlerErrors : Raise(r, e) /\ Json(r, "success")
        <3>1. UNCHANGED <<id, lines, logger>> /\ stage[r] = "parsed"
            BY <1>4 DEF Handle
        <3>2. Shape' /\ Others(r) /\ Advances(r) /\ ChainInv(r)'
            BY <1>1, <2>1, <2>4, <3>1, AnswerAdvances DEF Raise, Replies, BoundaryAssumption
        <3> QED
            BY <1>1, <2>4, <3>1, <3>2 DEF Raise, RecordInv, Shape
    <2> QED
        BY <1>4, <2>2, <2>3, <2>4 DEF Handle, Replies
<1>5. CASE NotFound(r)
    <2>1. bodies[r] = <<>> /\ thrown[r] = Nothing
        BY <1>1, <1>5 DEF NotFound, ChainInv
    <2>2. CASE Json(r, "clientError") /\ Go(r, "parsed", "done") /\ UNCHANGED thrown
        <3>1. UNCHANGED <<id, lines, logger>> /\ thrown' = [thrown EXCEPT ![r] = thrown[r]]
            BY <1>1, <1>5, <2>2 DEF NotFound, Shape
        <3>2. Shape' /\ Others(r) /\ Advances(r) /\ ChainInv(r)'
            BY <1>1, <2>1, <2>2, <3>1, AnswerAdvances DEF Go, ChainInv, Replies
        <3> QED
            BY <1>1, <2>1, <2>2, <3>1, <3>2 DEF Go, RecordInv, Fault, Shape
    <2>3. CASE ResponseThrows(r) /\ Raise(r, ResponseError) /\ UNCHANGED bodies
        BY <1>1, <1>5, <2>1, <2>3
           DEF NotFound, Raise, ResponseThrows, ResponseError, Nothing, Thrown, Status, Shape, Others,
               ChainInv, RecordInv, Replied, ReplyOf, logger
    <2> QED
        BY <1>5, <2>2, <2>3 DEF NotFound
<1>6. CASE HandleError(r)
    <2>1. Verdict(thrown[r]).level = "error" => Noted(r)'
        BY <1>1, <1>6, ErrorLineNoted DEF HandleError, Shape, logger
    <2>2. lines \subseteq lines' /\ thrown'[r] = thrown[r] /\ bodies'[r] = bodies[r]
        BY <1>6 DEF HandleError, WriteLine
    <2>3. RecordInv(r)'
        BY <1>1, <1>6, <2>1, <2>2 DEF HandleError, Go, RecordInv, Shape
    <2>4. UNCHANGED <<id, thrown, headersSent, bodies, logger>> /\ Go(r, "boundary", "replying")
        BY <1>6 DEF HandleError
    <2>5. Shape' /\ Others(r)
        BY <1>1, <2>4 DEF Go, Shape, Others, logger
    <2>6. stage'[r] = "replying" /\ stage[r] = "boundary"
        BY <1>1, <2>4 DEF Go, Shape
    <2>7. ChainInv(r)'
        BY <1>1, <2>4, <2>6 DEF ChainInv, Replied
    <2>8. ReplyOf(r)' = ReplyOf(r)
        BY <2>4, <2>6 DEF ReplyOf
    <2> QED
        BY <2>2, <2>3, <2>4, <2>5, <2>7, <2>8
<1>7. CASE Reply(r)
    <2>0. /\ stage[r] = "replying" /\ UNCHANGED <<id, thrown, lines, logger>>
          /\ Noted(r) <=> Noted(r)'
          /\ Recorded(r) <=> Recorded(r)'
        BY <1>7 DEF Reply, Go, Noted, Recorded, logger
    <2>1. CASE Go(r, "replying", "done") /\ headersSent[r] /\ UNCHANGED <<headersSent, bodies>>
        BY <1>1, <2>0, <2>1, FaultsAreErrors
           DEF Go, Shape, Others, ChainInv, RecordInv, Replied, Fault, ReplyOf, logger
    <2>2. CASE Go(r, "replying", "done") /\ ~headersSent[r] /\ Json(r, Verdict(thrown[r]).kind)
        <3>1. bodies[r] = <<>>
            BY <1>1, <2>2 DEF ChainInv
        <3>2. Verdict(thrown[r]).kind # "serverError" => ~Replied(r, {"serverError"})' \/ bodies'[r] = <<>>
            BY <1>1, <2>2, <3>1, FirstBody, FaultsAreErrors DEF Replied, Shape, Json, ReplyOf
        <3> QED
            BY <1>1, <2>0, <2>2, <3>1, <3>2, FaultsAreErrors, FirstBody
               DEF Go, Shape, Others, ChainInv, RecordInv, Fault, Noted, ReplyOf, Replies, logger
    <2>3. CASE Go(r, "replying", "fallback") /\ ResponseThrows(r) /\ UNCHANGED bodies
        BY <1>1, <2>0, <2>3, FaultsAreErrors
           DEF Go, ResponseThrows, Shape, Others, ChainInv, RecordInv, Replied, Fault, ReplyOf, logger
    <2> QED
        BY <1>7, <2>1, <2>2, <2>3 DEF Reply
<1>8. CASE MinimalFallback(r)
    <2>0. /\ stage[r] = "fallback" /\ UNCHANGED <<id, thrown, logger>> /\ lines \subseteq lines'
          /\ Go(r, "fallback", "done")
          /\ Recorded(r)' \/ ~stderr
        <3>1. /\ UNCHANGED <<id, thrown, logger>> /\ Go(r, "fallback", "done")
              /\ LastResortRecord(r)
            BY <1>8 DEF MinimalFallback
        <3>2. CASE stderr
            <4> DEFINE line == [level |-> "error", id |-> id[r], pipe |-> "stderr"]
            <4>1. lines' = lines \cup {line}
                BY <3>1, <3>2 DEF LastResortRecord
            <4>2. line.level = "error" /\ line.id = id'[r]
                BY <3>1
            <4> HIDE DEF line
            <4> QED
                BY <3>1, <4>1, <4>2 DEF Recorded, Go
        <3>3. CASE ~stderr
            BY <3>1, <3>3 DEF LastResortRecord, Go
        <3> QED
            BY <3>2, <3>3
    <2>1. Noted(r) => Noted(r)'
        BY <1>1, <2>0, NotedStays DEF logger, Shape
    <2>2. RecordInv(r)'
        BY <1>1, <2>0, <2>1 DEF RecordInv, Fault, Go, Shape, logger
    <2>3. CASE headersSent[r] /\ UNCHANGED <<headersSent, bodies>>
        BY <1>1, <2>0, <2>2, <2>3 DEF Go, Shape, Others, ChainInv, Replied, ReplyOf, logger
    <2>4. CASE ~headersSent[r] /\ Json(r, "serverError")
        <3>1. bodies[r] = <<>>
            BY <1>1, <2>4 DEF ChainInv
        <3> QED
            <4>1. thrown' = [thrown EXCEPT ![r] = thrown[r]]
                BY <1>1, <2>0 DEF Shape
            <4>2. Shape' /\ Others(r) /\ Advances(r) /\ ChainInv(r)'
                BY <1>1, <2>0, <2>4, <3>1, <4>1, AnswerAdvances DEF Go, ChainInv, Replies
            <4> QED
                BY <2>0, <2>2, <4>2
    <2>5. CASE ResponseThrows(r) /\ UNCHANGED bodies
        BY <1>1, <2>0, <2>2, <2>5 DEF Go, ResponseThrows, Shape, Others, ChainInv, Replied, ReplyOf, logger
    <2> QED
        BY <1>8, <2>3, <2>4, <2>5 DEF MinimalFallback
<1> QED
    BY <1>2, <1>3, <1>4, <1>5, <1>6, <1>7, <1>8 DEF Step

replies == [r \in Requests |-> ReplyOf(r)]

\* Every step keeps the invariant, and answers at most one request.
LEMMA ReplyNext ==
    ReplyInv /\ [Next]_vars => ReplyInv' /\ [Promise!Next]_replies
<1> SUFFICES ASSUME ReplyInv, [Next]_vars PROVE ReplyInv' /\ [Promise!Next]_replies
    OBVIOUS
<1>1. ASSUME NEW r \in Requests, Step(r) PROVE ReplyInv' /\ [Promise!Next]_replies
    <2>1. ReplyInv' /\ Others(r) /\ Advances(r)
        BY <1>1, StepReplies, BoundaryAssumption, LoggerAssumption
    <2>2. \A s \in Requests \ {r} : ReplyOf(s)' = ReplyOf(s)
        BY <2>1 DEF Others, ReplyOf
    <2>3. CASE ReplyOf(r)' = ReplyOf(r)
        BY <2>1, <2>2, <2>3 DEF replies
    <2>4. CASE ReplyOf(r) = "none" /\ ReplyOf(r)' \in Promise!Kinds
        <3>1. replies' = [replies EXCEPT ![r] = ReplyOf(r)'] /\ replies[r] = "none"
            BY <2>2, <2>4 DEF replies
        <3>2. Promise!Answer(r)
            BY <2>4, <3>1 DEF replies, Promise!Answer
        <3> QED
            BY <2>1, <3>2 DEF Promise!Next
    <2> QED
        BY <2>1, <2>3, <2>4 DEF Advances
<1>2. ASSUME (Log \/ Hangup) /\ UNCHANGED <<request, lines, throws>>
      PROVE  ReplyInv' /\ [Promise!Next]_replies
    <2>1. /\ UNCHANGED <<stage, id, thrown, headersSent, bodies, lines>>
          /\ (stdout' => stdout) /\ (stderr' => stderr)
          /\ stdout' \in BOOLEAN /\ stderr' \in BOOLEAN
        <3>1. stdout \in BOOLEAN /\ stderr \in BOOLEAN
            BY DEF ReplyInv, Shape
        <3>2. CASE Log
            <4>1. UNCHANGED <<stdout, stderr>>
                BY <3>2 DEF Log
            <4> QED
                BY <1>2, <3>1, <4>1 DEF request
        <3>3. CASE Hangup
            <4>1. CASE stdout /\ stdout' = FALSE /\ UNCHANGED stderr
                <5>1. stdout' \in BOOLEAN /\ (stdout' => stdout) /\ stderr' \in BOOLEAN /\ (stderr' => stderr)
                    BY <3>1, <4>1, Zenon
                <5> QED
                    BY <1>2, <5>1, Zenon DEF request
            <4>2. CASE stderr /\ stderr' = FALSE /\ UNCHANGED stdout
                <5>1. stdout' \in BOOLEAN /\ (stdout' => stdout) /\ stderr' \in BOOLEAN /\ (stderr' => stderr)
                    BY <3>1, <4>2, Zenon
                <5> QED
                    BY <1>2, <5>1, Zenon DEF request
            <4> QED
                BY <3>3, <4>1, <4>2, Zenon DEF Hangup
        <3> QED
            BY <1>2, <3>2, <3>3
    <2>2. \A r \in Requests : ChainInv(r)' /\ RecordInv(r)' /\ ReplyOf(r)' = ReplyOf(r)
        BY <2>1, UntouchedKeeps DEF ReplyInv
    <2> QED
        BY <2>1, <2>2 DEF ReplyInv, Shape, replies
<1>3. CASE UNCHANGED vars
    <2>1. UNCHANGED <<stage, id, thrown, headersSent, bodies, lines, stdout, stderr>>
        BY <1>3 DEF vars, request, logger
    <2>2. \A r \in Requests : ChainInv(r)' /\ RecordInv(r)' /\ ReplyOf(r)' = ReplyOf(r)
        BY <2>1, UntouchedKeeps DEF ReplyInv
    <2> QED
        BY <2>1, <2>2 DEF ReplyInv, Shape, replies
<1> QED
    BY <1>1, <1>2, <1>3 DEF Next

-------------------------------------------------------------------------------
\* errorHandler.ts:261-264: the safety half of OneReply.  The chain and the
\* boundary implement RequestReply step by step: a request goes from no reply to
\* one reply of a known kind, or to a broken connection, and stays there.
THEOREM OneReplySafe == Spec => Promise!Init /\ [][Promise!Next]_replies
<1>1. Init => Promise!Init
    BY DEF Init, Promise!Init, ReplyOf
<1> QED
    BY <1>1, ReplyInit, ReplyNext, PTL DEF Spec

\* errorHandler.ts:158-160 and :132-134: a fault of the server is on record
\* under the request's id by the time the request is answered.
THEOREM FaultsOnRecord == Spec => []FaultsRecorded
<1>1. ReplyInv => FaultsRecorded
    <2> SUFFICES ASSUME ReplyInv, NEW r \in Requests, stage[r] = "done", thrown[r] # Nothing
                 PROVE  /\ Fault(r) => Noted(r)
                        /\ \A n \in DOMAIN bodies[r] :
                             bodies[r][n].kind = "serverError" => Recorded(r) \/ ~stderr
        BY DEF FaultsRecorded, Fault, Noted
    <2>1. Fault(r) => Noted(r)
        BY DEF ReplyInv, RecordInv
    <2>2. ASSUME NEW n \in DOMAIN bodies[r], bodies[r][n].kind = "serverError"
          PROVE  Recorded(r) \/ ~stderr
        <3>1. Replied(r, {"serverError"}) /\ bodies[r] # <<>>
            BY <2>2 DEF ReplyInv, ChainInv, Replied
        <3> QED
            BY <3>1 DEF ReplyInv, RecordInv
    <2> QED
        BY <2>1, <2>2
<1> QED
    BY <1>1, ReplyInit, ReplyNext, PTL DEF Spec

-------------------------------------------------------------------------------
(* What an ERROR stands for                                                *)

\* What an ERROR about a request may be put down to.
Blames(r) ==
    \/ throws > 0 \/ late[r] \/ StatusOf(thrown[r]) # "4xx"
    \/ ~thrown[r].app /\ thrown[r].type # "listed"

Used == {r \in Requests : id[r] # 0}

\* Every id is of one request, and no greater than their number.
IdsUnique ==
    /\ \A r \in Requests : id[r] \in 0..Cardinality(Used)
    /\ \A r, s \in Used : id[r] = id[s] => r = s

\* What a request carries at each stage of the chain.
TraceInv(r) ==
    /\ stage[r] = "arrived" <=> id[r] = 0
    /\ stage[r] # "arrived" => {"correlation", "security"} \subseteq headers[r]
    /\ stage[r] \in {"arrived", "parsing", "parsed"} => ~headersSent[r]
    /\ stage[r] = "boundary" /\ headersSent[r] => late[r] \/ throws > 0
    /\ stage[r] = "fallback" => throws > 0
    /\ \A n \in DOMAIN bodies[r] : bodies[r][n].id = id[r]

\* A line is about a request that has passed the boundary.
LineInv(line) ==
    \E r \in Requests : /\ id[r] = line.id
                        /\ stage[r] \in {"replying", "fallback", "done"}
                        /\ line.level = "error" => Blames(r)

\* The invariant behind OnlyFaultsAlarm.
AlarmInv ==
    /\ throws \in Nat
    /\ headers = [r \in Requests |-> headers[r]] /\ late = [r \in Requests |-> late[r]]
    /\ IdsUnique
    /\ \A r \in Requests : TraceInv(r)
    /\ \A line \in lines : LineInv(line)

Passed == {"replying", "fallback", "done"}

\* What a step changes of another request than its own: nothing.
OthersToo(r) ==
    /\ Others(r)
    /\ headers' = [s \in Requests |-> headers'[s]] /\ late' = [s \in Requests |-> late'[s]]
    /\ \A s \in Requests \ {r} : headers'[s] = headers[s] /\ late'[s] = late[s]

\* The initial state satisfies the invariant.
LEMMA AlarmInit == Init => AlarmInv
<1> SUFFICES ASSUME Init PROVE AlarmInv
    OBVIOUS
<1>1. Used = {} /\ Cardinality(Used) = 0
    BY FS_EmptySet DEF Used, Init
<1>2. IdsUnique
    BY <1>1 DEF IdsUnique, Init
<1> QED
    BY <1>2 DEF AlarmInv, TraceInv, Init

\* A step keeps the invariant if it does so for its own request and for the
\* lines it writes: a request that has passed the boundary keeps its excuses.
LEMMA AlarmKept ==
    ASSUME AlarmInv, NEW r \in Requests, OthersToo(r), throws' \in Nat, throws <= throws',
           IdsUnique', id[r] # 0 => id'[r] = id[r],
           stage[r] \in Passed =>
               stage'[r] \in Passed /\ thrown'[r] = thrown[r] /\ late'[r] = late[r],
           TraceInv(r)', \A line \in lines' \ lines : LineInv(line)'
    PROVE  AlarmInv'
<1>1. throws > 0 => throws' > 0
    BY DEF AlarmInv
<1>2. ASSUME NEW s \in Requests PROVE TraceInv(s)'
    BY <1>1 DEF AlarmInv, TraceInv, OthersToo, Others
<1>3. ASSUME NEW line \in lines' PROVE LineInv(line)'
    <2>1. CASE line \in lines
        <3>1. PICK s \in Requests : /\ id[s] = line.id /\ stage[s] \in Passed
                                    /\ line.level = "error" => Blames(s)
            BY <2>1 DEF AlarmInv, LineInv, Passed
        <3>2. id[s] # 0
            BY <3>1 DEF AlarmInv, TraceInv, Passed
        <3>3. id'[s] = id[s] /\ stage'[s] \in Passed /\ thrown'[s] = thrown[s] /\ late'[s] = late[s]
            BY <3>1, <3>2 DEF OthersToo, Others
        <3>4. Blames(s) => Blames(s)'
            BY <1>1, <3>3 DEF Blames
        <3> QED
            BY <3>1, <3>3, <3>4 DEF LineInv, Passed
    <2> QED
        BY <2>1
<1> QED
    BY <1>2, <1>3 DEF AlarmInv, OthersToo

\* correlation.ts: the id of a request that arrives is its own.
LEMMA FreshIds ==
    ASSUME IsFiniteSet(Requests), Shape, IdsUnique, NEW r \in Requests, id[r] = 0,
           id' = [id EXCEPT ![r] = FreshId]
    PROVE  IdsUnique' /\ id'[r] # 0
<1> DEFINE n == Cardinality(Used)
<1>1. IsFiniteSet(Used) /\ n \in Nat /\ r \notin Used
    BY FS_Subset, FS_CardinalityType DEF Used
<1>2. /\ id' = [s \in Requests |-> id'[s]]
      /\ \A s \in Requests : id'[s] = IF s = r THEN n + 1 ELSE id[s]
    <2>1. FreshId = n + 1
        BY <1>1 DEF FreshId, Used
    <2>2. id = [s \in Requests |-> id[s]]
        BY DEF Shape
    <2> HIDE DEF n
    <2> QED
        BY <2>1, <2>2
<1>3. Used' = Used \cup {r}
    BY <1>1, <1>2 DEF Used
<1>4. Cardinality(Used)' = n + 1
    BY <1>1, <1>3, FS_AddElement
<1> HIDE DEF n
<1>5. \A s \in Requests : id[s] \in 0..n
    BY DEF IdsUnique, n
<1>6. \A s \in Requests : id'[s] \in 0..(n + 1)
    BY <1>1, <1>2, <1>5
<1>7. \A s, t \in Used' : id'[s] = id'[t] => s = t
    <2> SUFFICES ASSUME NEW s \in Used', NEW t \in Used', id'[s] = id'[t] PROVE s = t
        OBVIOUS
    <2>1. s \in Requests /\ t \in Requests
        BY DEF Used
    <2>2. CASE s # r /\ t # r
        BY <1>2, <1>3, <2>1, <2>2 DEF IdsUnique
    <2>3. CASE s = r \/ t = r
        BY <1>1, <1>2, <1>5, <2>1, <2>3
    <2> QED
        BY <2>2, <2>3
<1> QED
    BY <1>1, <1>2, <1>4, <1>6, <1>7 DEF IdsUnique

\* Ids that stay as they are stay unique.
LEMMA SameIds ==
    ASSUME IdsUnique, id' = id PROVE IdsUnique'
BY DEF IdsUnique, Used

\* A body for a request that has none bears the id of the request.
LEMMA BodyTraced ==
    ASSUME NEW r \in Requests, Shape, bodies[r] = <<>>, NEW kind, Json(r, kind), id' = id
    PROVE  \A n \in DOMAIN bodies'[r] : bodies'[r][n].id = id'[r]
<1> DEFINE b == [kind |-> kind, id |-> id[r]]
<1>1. bodies' = [bodies EXCEPT ![r] = Append(bodies[r], b)]
    BY DEF Json
<1>2. b.id = id[r]
    OBVIOUS
<1> HIDE DEF b
<1>3. bodies'[r] = <<b>>
    BY <1>1 DEF Shape
<1> QED
    BY <1>2, <1>3

\* Every step of a request keeps the invariant.
LEMMA StepAlarms ==
    ASSUME BoundaryAssumption, LoggerAssumption, ReplyInv, AlarmInv, NEW r \in Requests, Step(r)
    PROVE  AlarmInv'
<1> USE DEF Passed
<1>1. /\ Shape /\ ChainInv(r) /\ TraceInv(r) /\ IdsUnique /\ throws \in Nat
      /\ Others(r) /\ ReplyInv'
      /\ headers = [s \in Requests |-> headers[s]] /\ late = [s \in Requests |-> late[s]]
    BY StepReplies DEF ReplyInv, AlarmInv
<1>2. CASE Arrive(r)
    <2>1. /\ id' = [id EXCEPT ![r] = FreshId]
          /\ headers' = [headers EXCEPT ![r] = {"correlation"} \cup SecurityHeaders]
          /\ Go(r, "arrived", "parsing")
          /\ UNCHANGED <<thrown, headersSent, bodies, late, lines, throws>>
        BY <1>2 DEF Arrive
    <2>2. id[r] = 0
        BY <1>1, <2>1 DEF Go, TraceInv
    <2>3. IdsUnique' /\ id'[r] # 0
        BY <1>1, <2>1, <2>2, FreshIds DEF BoundaryAssumption
    <2>4. OthersToo(r) /\ {"correlation", "security"} \subseteq headers'[r]
        BY <1>1, <2>1 DEF OthersToo, SecurityHeaders
    <2>5. stage[r] = "arrived" /\ stage'[r] = "parsing" /\ bodies'[r] = <<>>
        BY <1>1, <2>1 DEF Go, Shape, ChainInv, Before
    <2>6. TraceInv(r)'
        BY <1>1, <2>1, <2>3, <2>4, <2>5 DEF TraceInv
    <2> QED
        BY <1>1, <2>1, <2>2, <2>3, <2>4, <2>5, <2>6, AlarmKept
<1>3. ASSUME UNCHANGED <<id, headers>>, OthersToo(r), throws' \in Nat, throws <= throws',
             stage[r] \in {"parsing", "parsed"}, lines' = lines,
             stage'[r] \in {"parsed", "boundary", "done"},
             stage'[r] = "parsed" => ~headersSent'[r],
             stage'[r] = "boundary" /\ headersSent'[r] => late'[r] \/ throws' > 0,
             \A n \in DOMAIN bodies'[r] : bodies'[r][n].id = id'[r]
      PROVE  AlarmInv'
    <2>1. TraceInv(r)'
        BY <1>1, <1>3 DEF TraceInv
    <2> QED
        BY <1>1, <1>3, <2>1, SameIds, AlarmKept
<1>4. CASE ParseBody(r)
    <2>1. /\ stage[r] = "parsing" /\ UNCHANGED <<id, headers, headersSent, bodies, late, lines, throws>>
          /\ stage'[r] \in {"parsed", "boundary"}
        BY <1>1, <1>4 DEF ParseBody, Go, Raise, Shape
    <2>2. bodies'[r] = <<>> /\ ~headersSent'[r] /\ OthersToo(r)
        BY <1>1, <2>1 DEF ChainInv, Before, TraceInv, OthersToo
    <2> QED
        BY <1>1, <1>3, <2>1, <2>2
<1>5. CASE Handle(r)
    <2>1. /\ stage[r] = "parsed" /\ UNCHANGED <<id, headers, lines, throws>>
          /\ bodies[r] = <<>> /\ ~headersSent[r]
        BY <1>1, <1>5 DEF Handle, ChainInv, Before, TraceInv
    <2>2. CASE (\E kind \in Replies : Json(r, kind)) /\ Go(r, "parsed", "done") /\ UNCHANGED late
        <3>1. \A n \in DOMAIN bodies'[r] : bodies'[r][n].id = id'[r]
            BY <1>1, <2>1, <2>2, BodyTraced
        <3>2. stage'[r] = "done" /\ OthersToo(r)
            BY <1>1, <2>1, <2>2 DEF Go, Shape, OthersToo
        <3> QED
            BY <1>1, <1>3, <2>1, <3>1, <3>2
    <2>3. CASE (\E e \in HandlerErrors : Raise(r, e)) /\ UNCHANGED <<headersSent, bodies, late>>
        <3>1. stage'[r] = "boundary" /\ OthersToo(r)
            BY <1>1, <2>1, <2>3 DEF Raise, Shape, OthersToo
        <3> QED
            BY <1>1, <1>3, <2>1, <2>3, <3>1
    <2>4. CASE /\ \E e \in HandlerErrors : Raise(r, e)
               /\ Json(r, "success") /\ late' = [late EXCEPT ![r] = TRUE]
        <3>1. \A n \in DOMAIN bodies'[r] : bodies'[r][n].id = id'[r]
            BY <1>1, <2>1, <2>4, BodyTraced
        <3>2. stage'[r] = "boundary" /\ OthersToo(r) /\ late'[r]
            BY <1>1, <2>1, <2>4 DEF Raise, Shape, OthersToo
        <3> QED
            BY <1>1, <1>3, <2>1, <3>1, <3>2
    <2> QED
        BY <1>5, <2>2, <2>3, <2>4 DEF Handle, Replies
<1>6. CASE NotFound(r)
    <2>1. /\ stage[r] = "parsed" /\ UNCHANGED <<id, headers, late, lines>>
          /\ bodies[r] = <<>> /\ ~headersSent[r]
        BY <1>1, <1>6 DEF NotFound, ChainInv, Before, TraceInv
    <2>2. CASE Go(r, "parsed", "done") /\ Json(r, "clientError") /\ UNCHANGED <<thrown, throws>>
        <3>1. \A n \in DOMAIN bodies'[r] : bodies'[r][n].id = id'[r]
            BY <1>1, <2>1, <2>2, BodyTraced
        <3>2. stage'[r] = "done" /\ OthersToo(r)
            BY <1>1, <2>1, <2>2 DEF Go, Shape, OthersToo
        <3> QED
            BY <1>1, <1>3, <2>1, <2>2, <3>1, <3>2
    <2>3. CASE ResponseThrows(r) /\ Raise(r, ResponseError) /\ UNCHANGED bodies
        <3>1. stage'[r] = "boundary" /\ OthersToo(r)
            BY <1>1, <2>1, <2>3 DEF Raise, Shape, OthersToo
        <3>2. throws' = throws + 1
            BY <2>3 DEF ResponseThrows
        <3> QED
            BY <1>1, <1>3, <2>1, <2>3, <3>1, <3>2
    <2> QED
        BY <1>6, <2>2, <2>3 DEF NotFound
<1>7. CASE HandleError(r)
    <2>1. /\ stage[r] = "boundary" /\ UNCHANGED <<id, headers, thrown, headersSent, bodies, late, throws>>
          /\ stage'[r] = "replying" /\ OthersToo(r)
        BY <1>1, <1>7 DEF HandleError, Go, Shape, OthersToo
    <2>2. TraceInv(r)'
        BY <1>1, <2>1 DEF TraceInv
    <2> DEFINE level == IF headersSent[r] THEN "error" ELSE Verdict(thrown[r]).level
    <2>3. \A line \in lines' \ lines : line.level = level /\ line.id = id[r]
        BY <1>7 DEF HandleError, WriteLine
    <2>4. level = "error" => Blames(r)
        <3>1. CASE headersSent[r]
            BY <1>1, <2>1, <3>1 DEF TraceInv, Blames
        <3>2. CASE ~headersSent[r]
            BY <1>1, <3>2 DEF ChainInv, Verdict, ClassifyFrameworkError, StatusOf, Thrown, Status, Blames
        <3> QED
            BY <3>1, <3>2
    <2> HIDE DEF level
    <2>5. Blames(r) => Blames(r)'
        BY <2>1 DEF Blames
    <2>6. \A line \in lines' \ lines : LineInv(line)'
        BY <2>1, <2>3, <2>4, <2>5 DEF LineInv
    <2> QED
        BY <1>1, <2>1, <2>2, <2>6, SameIds, AlarmKept
<1>8. CASE Reply(r)
    <2>1. /\ stage[r] = "replying" /\ UNCHANGED <<id, headers, thrown, late, lines>> /\ OthersToo(r)
          /\ stage'[r] \in {"done", "fallback"}
        BY <1>1, <1>8 DEF Reply, Go, Shape, OthersToo
    <2>2. CASE Go(r, "replying", "done") /\ headersSent[r] /\ UNCHANGED <<headersSent, bodies, throws>>
        <3>1. stage'[r] = "done"
            BY <1>1, <2>2 DEF Go, Shape
        <3>2. TraceInv(r)'
            BY <1>1, <2>1, <2>2, <3>1 DEF TraceInv
        <3> QED
            BY <1>1, <2>1, <2>2, <3>1, <3>2, SameIds, AlarmKept
    <2>3. CASE /\ Go(r, "replying", "done") /\ ~headersSent[r]
               /\ Json(r, Verdict(thrown[r]).kind) /\ UNCHANGED throws
        <3>1. stage'[r] = "done" /\ bodies[r] = <<>>
            BY <1>1, <2>3 DEF Go, Shape, ChainInv
        <3>2. \A n \in DOMAIN bodies'[r] : bodies'[r][n].id = id'[r]
            BY <1>1, <2>1, <2>3, <3>1, BodyTraced
        <3>3. TraceInv(r)'
            BY <1>1, <2>1, <3>1, <3>2 DEF TraceInv
        <3> QED
            BY <1>1, <2>1, <2>3, <3>1, <3>3, SameIds, AlarmKept
    <2>4. CASE Go(r, "replying", "fallback") /\ ResponseThrows(r) /\ UNCHANGED bodies
        <3>1. stage'[r] = "fallback" /\ throws' = throws + 1
            BY <1>1, <2>4 DEF Go, Shape, ResponseThrows
        <3>2. TraceInv(r)'
            BY <1>1, <2>1, <2>4, <3>1 DEF TraceInv
        <3> QED
            BY <1>1, <2>1, <3>1, <3>2, SameIds, AlarmKept
    <2> QED
        BY <1>8, <2>2, <2>3, <2>4 DEF Reply
<1>9. CASE MinimalFallback(r)
    <2>1. /\ stage[r] = "fallback" /\ UNCHANGED <<id, headers, thrown, late>> /\ OthersToo(r)
          /\ stage'[r] = "done" /\ throws > 0
        BY <1>1, <1>9 DEF MinimalFallback, Go, Shape, OthersToo, TraceInv
    <2>2. throws' \in Nat /\ throws <= throws'
        BY <1>1, <1>9 DEF MinimalFallback, ResponseThrows
    <2>3. \A line \in lines' \ lines : LineInv(line)'
        <3>1. \A line \in lines' \ lines : line.id = id[r]
            BY <1>9 DEF MinimalFallback, LastResortRecord
        <3>2. Blames(r)'
            BY <1>1, <2>1, <2>2 DEF Blames
        <3> QED
            BY <2>1, <3>1, <3>2 DEF LineInv
    <2>4. \A n \in DOMAIN bodies'[r] : bodies'[r][n].id = id'[r]
        <3>1. CASE UNCHANGED bodies
            BY <1>1, <2>1, <3>1 DEF TraceInv
        <3>2. CASE ~headersSent[r] /\ Json(r, "serverError")
            <4>1. bodies[r] = <<>>
                BY <1>1, <3>2 DEF ChainInv
            <4> QED
                BY <1>1, <2>1, <3>2, <4>1, BodyTraced
        <3> QED
            BY <1>9, <3>1, <3>2 DEF MinimalFallback
    <2>5. TraceInv(r)'
        BY <1>1, <2>1, <2>4 DEF TraceInv
    <2> QED
        BY <1>1, <2>1, <2>2, <2>3, <2>5, SameIds, AlarmKept
<1> QED
    BY <1>2, <1>4, <1>5, <1>6, <1>7, <1>8, <1>9 DEF Step

LEMMA AlarmNext == ReplyInv /\ AlarmInv /\ [Next]_vars => AlarmInv'
<1> SUFFICES ASSUME ReplyInv, AlarmInv, [Next]_vars PROVE AlarmInv'
    OBVIOUS
<1>1. ASSUME NEW r \in Requests, Step(r) PROVE AlarmInv'
    BY <1>1, StepAlarms, BoundaryAssumption, LoggerAssumption
<1>2. CASE UNCHANGED <<request, lines, throws>>
    BY <1>2 DEF request, AlarmInv, IdsUnique, Used, TraceInv, LineInv, Blames
<1> QED
    BY <1>1, <1>2 DEF Next, vars

\* errorHandler.ts:312-313: a line at ERROR is about the one request whose id it
\* carries, and that met a fault of the server, for any finite set of requests.
THEOREM OnlyFaultsOnRecord == Spec => []OnlyFaultsAlarm
<1>1. ReplyInv /\ AlarmInv => OnlyFaultsAlarm
    <2> SUFFICES ASSUME ReplyInv, AlarmInv PROVE OnlyFaultsAlarm
        OBVIOUS
    <2>1. ASSUME NEW line \in lines, line.level = "error"
          PROVE  \E r \in Requests : /\ id[r] = line.id
                                     /\ \A s \in Requests \ {r} : id[s] # line.id
                                     /\ Blames(r)
        <3>1. PICK r \in Requests : /\ id[r] = line.id /\ Blames(r)
                                    /\ stage[r] \in {"replying", "fallback", "done"}
            BY <2>1 DEF AlarmInv, LineInv
        <3>2. id[r] # 0
            BY <3>1 DEF AlarmInv, TraceInv
        <3>3. \A s \in Requests \ {r} : id[s] # line.id
            BY <3>1, <3>2 DEF AlarmInv, IdsUnique, Used
        <3> QED
            BY <3>1, <3>3
    <2>2. ASSUME NEW r \in Requests, NEW n \in DOMAIN bodies[r]
          PROVE  {"correlation", "security"} \subseteq headers[r] /\ bodies[r][n].id = id[r]
        <3>1. stage[r] # "arrived"
            BY DEF ReplyInv, ChainInv, Before
        <3> QED
            BY <3>1 DEF AlarmInv, TraceInv
    <2> QED
        BY <2>1, <2>2 DEF OnlyFaultsAlarm, Blames
<1> QED
    BY <1>1, ReplyInit, ReplyNext, AlarmInit, AlarmNext, PTL DEF Spec

-------------------------------------------------------------------------------
(* Natural numbers                                                         *)

\* Less-than on the natural numbers, as a set of pairs.
Below == {p \in Nat \X Nat : p[1] < p[2]}

\* Every nonempty set of natural numbers has a least element.
LEMMA LeastNatural ==
    ASSUME NEW S \in SUBSET Nat, S # {}
    PROVE  \E n \in S : \A m \in S : n <= m
<1>1. IsWellFoundedOn(Below, Nat)
    BY NatLessThanWellFounded DEF OpToRel, Below
<1>2. PICK n \in S : \A m \in S : <<m, n>> \notin Below
    BY <1>1, WFMin
<1>3. ASSUME NEW m \in S PROVE n <= m
    <2>1. ~(m < n)
        BY <1>2 DEF Below
    <2> QED
        BY <2>1
<1> QED
    BY <1>3

\* Induction up to a bound, over the set of the numbers for which a fact holds.
LEMMA InductionUpTo ==
    ASSUME NEW N \in Nat, NEW G, 0 \in G, \A n \in 1..N : n - 1 \in G => n \in G
    PROVE  0..N \subseteq G
<1> DEFINE Bad == (0..N) \ G
<1> SUFFICES ASSUME Bad # {} PROVE FALSE
    OBVIOUS
<1>1. PICK n \in Bad : \A m \in Bad : n <= m
    <2>1. Bad \in SUBSET Nat
        OBVIOUS
    <2> HIDE DEF Bad
    <2> QED
        BY <2>1, LeastNatural
<1>2. n \in 1..N /\ n - 1 \in 0..N /\ ~(n <= n - 1)
    OBVIOUS
<1>3. n - 1 \in G
    BY <1>1, <1>2
<1> QED
    BY <1>2, <1>3

-------------------------------------------------------------------------------
(* Redaction.  The function of Walk satisfies its equation, since each call *)
(* of itself is for fewer objects not seen; its leaves are those of paths   *)
(* through the context by induction on the number of these objects.         *)

WalkStep(c, f, seen, x) ==
    IF x \in Scalars THEN {Leaf(RedactString(x))}
    ELSE IF x \in seen THEN {Leaf("[Circular]")}
    ELSE UNION {Under(key, IF IsSecretKey(key) THEN {Leaf("[REDACTED]")}
                           ELSE f[seen \cup {x}][c.heap[x][key]]) : key \in Keys}

Level(c, f, seen) == [x \in Values |-> WalkStep(c, f, seen, x)]
IsWalk(c, f) == f = [seen \in SUBSET Objects |-> Level(c, f, seen)]

Unseen(seen) == Cardinality(Objects \ seen)

\* A function that satisfies the equation where fewer than m are not seen.
WalkBelow(c, f, m) ==
    /\ f = [seen \in SUBSET Objects |-> f[seen]]
    /\ \A seen \in SUBSET Objects : Unseen(seen) < m => f[seen] = Level(c, f, seen)

LEMMA UnseenCounts ==
    /\ Cardinality(Objects) \in Nat
    /\ \A seen \in SUBSET Objects : Unseen(seen) \in 0..Cardinality(Objects)
<1>1. IsFiniteSet(Objects)
    BY LoggerAssumption
<1>2. Cardinality(Objects) \in Nat
    BY <1>1, FS_CardinalityType
<1>3. ASSUME NEW seen \in SUBSET Objects
      PROVE  Unseen(seen) \in 0..Cardinality(Objects)
    <2>1. IsFiniteSet(Objects \ seen) /\ Cardinality(Objects \ seen) <= Cardinality(Objects)
        BY <1>1, FS_Subset
    <2>2. Cardinality(Objects \ seen) \in Nat
        BY <2>1, FS_CardinalityType
    <2> QED
        BY <1>2, <2>1, <2>2 DEF Unseen
<1> QED
    BY <1>2, <1>3

LEMMA UnseenShrinks ==
    ASSUME NEW seen \in SUBSET Objects, NEW x \in Objects \ seen
    PROVE  seen \cup {x} \in SUBSET Objects /\ Unseen(seen \cup {x}) = Unseen(seen) - 1
<1>1. IsFiniteSet(Objects \ seen)
    BY LoggerAssumption, FS_Subset
<1>2. Objects \ (seen \cup {x}) = (Objects \ seen) \ {x}
    OBVIOUS
<1>3. Cardinality((Objects \ seen) \ {x}) = Cardinality(Objects \ seen) - 1
    BY <1>1, FS_RemoveElement
<1> QED
    BY <1>2, <1>3 DEF Unseen

LEMMA HeapTyped ==
    ASSUME NEW c \in Contexts
    PROVE  /\ c.root \in Values
           /\ \A x \in Objects, key \in Keys : c.heap[x][key] \in Values
BY LoggerAssumption DEF Heap

LEMMA WalkExists ==
    ASSUME NEW c \in Contexts
    PROVE  \E f : IsWalk(c, f)
<1> DEFINE N == Cardinality(Objects) + 1
           G == {m \in 0..N : \E f : WalkBelow(c, f, m)}
<1>1. N \in Nat /\ \A seen \in SUBSET Objects : Unseen(seen) \in Nat /\ Unseen(seen) < N
    BY UnseenCounts
<1> HIDE DEF N
<1>2. 0 \in G
    <2> DEFINE f == [seen \in SUBSET Objects |-> {}]
    <2>1. f = [seen \in SUBSET Objects |-> f[seen]]
        OBVIOUS
    <2>2. \A seen \in SUBSET Objects : ~(Unseen(seen) < 0)
        BY <1>1
    <2> HIDE DEF f
    <2>3. WalkBelow(c, f, 0)
        BY <2>1, <2>2 DEF WalkBelow
    <2> QED
        BY <1>1, <2>3
<1>3. ASSUME NEW m \in 1..N, m - 1 \in G
      PROVE  m \in G
    <2>1. PICK f : WalkBelow(c, f, m - 1)
        BY <1>3
    <2> DEFINE g == [seen \in SUBSET Objects |-> Level(c, f, seen)]
    <2>2. g = [seen \in SUBSET Objects |-> g[seen]] /\ \A seen \in SUBSET Objects : g[seen] = Level(c, f, seen)
        OBVIOUS
    <2> HIDE DEF g
    <2>3. ASSUME NEW seen \in SUBSET Objects, Unseen(seen) < m
          PROVE  Level(c, f, seen) = Level(c, g, seen)
        <3>1. ASSUME NEW x \in Values
              PROVE  WalkStep(c, f, seen, x) = WalkStep(c, g, seen, x)
            <4>1. CASE x \in Scalars \/ x \in seen
                BY <4>1 DEF WalkStep
            <4>2. CASE x \notin Scalars /\ x \notin seen
                <5>1. x \in Objects \ seen
                    BY <4>2 DEF Values
                <5>2. seen \cup {x} \in SUBSET Objects /\ Unseen(seen \cup {x}) < m - 1
                    BY <1>1, <2>3, <5>1, UnseenShrinks
                <5>3. g[seen \cup {x}] = f[seen \cup {x}]
                    BY <2>1, <2>2, <5>2 DEF WalkBelow
                <5> QED
                    BY <5>3 DEF WalkStep
            <4> QED
                BY <4>1, <4>2
        <3> QED
            BY <3>1 DEF Level
    <2>4. WalkBelow(c, g, m)
        BY <2>2, <2>3 DEF WalkBelow
    <2> QED
        BY <1>1, <2>4
<1> HIDE DEF G
<1>4. 0..N \subseteq G
    BY <1>1, <1>2, <1>3, InductionUpTo
<1>5. N \in 0..N
    BY <1>1
<1>6. N \in G
    BY <1>4, <1>5, Zenon
<1>7. PICK f : WalkBelow(c, f, N)
    BY <1>6 DEF G
<1>8. IsWalk(c, f)
    BY <1>1, <1>7 DEF WalkBelow, IsWalk
<1> QED
    BY <1>8

-------------------------------------------------------------------------------
\* The values on a path from one of a context, as the walk follows it.
Trail(c, x, at, path) ==
    /\ at = [n \in 0..Len(path) |-> at[n]]
    /\ at[0] = x
    /\ \A n \in 1..Len(path) : at[n - 1] \in Objects /\ at[n] = c.heap[at[n - 1]][path[n]]

Hidden(leaf) == \E n \in 1..Len(leaf.path) : leaf.path[n] = "secret"

\* Why a leaf has its value: `last` is what its path leads to.
Accounts(seen, at, leaf) ==
    LET last == at[Len(leaf.path)]
    IN  \/ leaf.value = last
        \/ leaf.value = "[REDACTED]" /\ (last = "credential" \/ Hidden(leaf))
        \/ leaf.value = "[Circular]"
           /\ (last \in seen \/ \E n \in 0..(Len(leaf.path) - 1) : at[n] = last)

LeafOk(c, seen, x, leaf) ==
    /\ leaf = [path |-> leaf.path, value |-> leaf.value]
    /\ leaf.path \in Seq(Keys)
    /\ leaf.value # "credential"
    /\ Hidden(leaf) => leaf.value = "[REDACTED]"
    /\ \E at : Trail(c, x, at, leaf.path) /\ Accounts(seen, at, leaf)

LEMMA LeafAtOnce ==
    ASSUME NEW c, NEW seen, NEW x, NEW value,
           \/ value = x /\ x # "credential"
           \/ value = "[REDACTED]" /\ x = "credential"
           \/ value = "[Circular]" /\ x \in seen
    PROVE  LeafOk(c, seen, x, Leaf(value))
<1> DEFINE leaf == Leaf(value)
           at == [n \in 0..0 |-> x]
<1>1. leaf = [path |-> leaf.path, value |-> leaf.value] /\ leaf.path = <<>> /\ leaf.value = value
    BY DEF Leaf
<1>2. <<>> \in Seq(Keys) /\ Len(<<>>) = 0
    OBVIOUS
<1>3. at = [n \in 0..0 |-> at[n]] /\ at[0] = x
    OBVIOUS
<1> HIDE DEF leaf, at
<1>4. ~Hidden(leaf)
    BY <1>1, <1>2 DEF Hidden
<1>5. Trail(c, x, at, leaf.path)
    BY <1>1, <1>2, <1>3 DEF Trail
<1>6. Accounts(seen, at, leaf)
    BY <1>1, <1>2, <1>3 DEF Accounts
<1>7. LeafOk(c, seen, x, leaf)
    BY <1>1, <1>2, <1>4, <1>5, <1>6 DEF LeafOk
<1> QED
    BY <1>7 DEF leaf

\* The path of a leaf one key further up.
LEMMA PathUnder ==
    ASSUME NEW path \in Seq(Keys), NEW key \in Keys
    PROVE  /\ <<key>> \o path \in Seq(Keys) /\ Len(<<key>> \o path) = Len(path) + 1
           /\ (<<key>> \o path)[1] = key
           /\ \A n \in 1..Len(path) : (<<key>> \o path)[n + 1] = path[n]
<1>1. <<key>> \in Seq(Keys) /\ Len(<<key>>) = 1 /\ <<key>>[1] = key
    OBVIOUS
<1> QED
    BY <1>1

\* A leaf below a key of an object is one of the object: a trail from the
\* object is one from the value under the key with the object in front.
LEMMA LeafUnder ==
    ASSUME NEW c \in Contexts, NEW seen \in SUBSET Objects, NEW x \in Objects, NEW key \in Keys,
           NEW leaf, NEW at, NEW wider, wider = seen \cup {x},
           leaf = [path |-> leaf.path, value |-> leaf.value], leaf.path \in Seq(Keys),
           leaf.value # "credential", Hidden(leaf) => leaf.value = "[REDACTED]",
           key = "secret" => leaf.value = "[REDACTED]",
           Trail(c, c.heap[x][key], at, leaf.path),
           Accounts(wider, at, leaf) \/ (leaf.value = "[REDACTED]" /\ key = "secret")
    PROVE  LeafOk(c, seen, x, [leaf EXCEPT !.path = <<key>> \o @])
<1> DEFINE up == [leaf EXCEPT !.path = <<key>> \o @]
           L == Len(leaf.path)
           to == [n \in 0..(L + 1) |-> IF n = 0 THEN x ELSE at[n - 1]]
<1>1. up.path = <<key>> \o leaf.path /\ up.value = leaf.value /\ up = [path |-> up.path, value |-> up.value]
    OBVIOUS
<1>2. L \in Nat
    OBVIOUS
<1> HIDE DEF up, L
<1>3. /\ up.path \in Seq(Keys) /\ Len(up.path) = L + 1
      /\ up.path[1] = key
      /\ \A n \in 1..L : up.path[n + 1] = leaf.path[n]
    BY <1>1, PathUnder DEF L
<1>4. Hidden(up) <=> Hidden(leaf) \/ key = "secret"
    <2>1. ASSUME NEW n \in 1..(L + 1), up.path[n] = "secret"
          PROVE  Hidden(leaf) \/ key = "secret"
        <3>1. CASE n = 1
            BY <1>3, <2>1, <3>1
        <3>2. CASE n # 1
            <4>1. n - 1 \in 1..L /\ (n - 1) + 1 = n
                BY <1>2, <3>2
            <4>2. leaf.path[n - 1] = "secret"
                BY <1>3, <2>1, <4>1
            <4> QED
                BY <4>1, <4>2 DEF Hidden, L
        <3> QED
            BY <3>1, <3>2
    <2>2. key = "secret" => Hidden(up)
        <3>1. 1 \in 1..Len(up.path)
            BY <1>2, <1>3
        <3> QED
            BY <1>3, <3>1 DEF Hidden
    <2>3. Hidden(leaf) => Hidden(up)
        <3>1. ASSUME NEW n \in 1..L, leaf.path[n] = "secret"
              PROVE  Hidden(up)
            <4>1. n + 1 \in 1..Len(up.path)
                BY <1>2, <1>3
            <4> QED
                BY <1>3, <3>1, <4>1 DEF Hidden
        <3> QED
            BY <3>1 DEF Hidden, L
    <2>4. Hidden(up) => Hidden(leaf) \/ key = "secret"
        BY <1>3, <2>1 DEF Hidden
    <2> QED
        BY <2>2, <2>3, <2>4
<1>5. /\ to = [n \in 0..(L + 1) |-> to[n]] /\ to[0] = x
      /\ \A n \in 0..L : to[n + 1] = at[n]
    BY <1>2
<1> HIDE DEF to
<1>6. Trail(c, x, to, up.path)
    <2>1. ASSUME NEW n \in 1..(L + 1)
          PROVE  to[n - 1] \in Objects /\ to[n] = c.heap[to[n - 1]][up.path[n]]
        <3>1. CASE n = 1
            <4>1. at[0] = c.heap[x][key]
                BY DEF Trail
            <4>2. 0 \in 0..L /\ 0 + 1 = 1 /\ 1 - 1 = 0
                BY <1>2
            <4>3. to[1] = c.heap[x][key] /\ to[1 - 1] = x
                BY <1>5, <4>1, <4>2
            <4> QED
                BY <1>3, <3>1, <4>3
        <3>2. CASE n # 1
            <4>1. /\ n - 1 \in 1..L /\ n - 1 \in 0..L /\ (n - 1) + 1 = n
                  /\ (n - 1) - 1 \in 0..L /\ ((n - 1) - 1) + 1 = n - 1
                BY <1>2, <3>2
            <4>2. to[n] = at[n - 1] /\ to[n - 1] = at[(n - 1) - 1] /\ up.path[n] = leaf.path[n - 1]
                BY <1>3, <1>5, <4>1
            <4>3. at[(n - 1) - 1] \in Objects /\ at[n - 1] = c.heap[at[(n - 1) - 1]][leaf.path[n - 1]]
                BY <4>1 DEF Trail, L
            <4> QED
                BY <4>2, <4>3
        <3> QED
            BY <3>1, <3>2
    <2> QED
        BY <1>3, <1>5, <2>1 DEF Trail
<1>7. Accounts(seen, to, up)
    <2>1. to[L + 1] = at[L] /\ L \in 0..L
        BY <1>2, <1>5
    <2>2. CASE leaf.value = at[L]
        BY <1>1, <1>3, <2>1, <2>2 DEF Accounts
    <2>3. CASE leaf.value = "[REDACTED]" /\ (at[L] = "credential" \/ Hidden(leaf) \/ key = "secret")
        BY <1>1, <1>3, <1>4, <2>1, <2>3 DEF Accounts
    <2>4. CASE leaf.value = "[Circular]" /\ at[L] \in wider
        <3>1. CASE at[L] \in seen
            BY <1>1, <1>3, <2>1, <2>4, <3>1 DEF Accounts
        <3>2. CASE at[L] = x
            <4>1. 0 \in 0..((L + 1) - 1) /\ to[0] = at[L]
                BY <1>2, <1>5, <3>2
            <4> QED
                BY <1>1, <1>3, <2>1, <2>4, <4>1 DEF Accounts
        <3> QED
            BY <2>4, <3>1, <3>2
    <2>5. CASE leaf.value = "[Circular]" /\ \E n \in 0..(L - 1) : at[n] = at[L]
        <3>1. PICK n \in 0..(L - 1) : at[n] = at[L]
            BY <2>5
        <3>2. n \in 0..L /\ n + 1 \in 0..((L + 1) - 1)
            BY <1>2
        <3>3. to[n + 1] = at[L]
            BY <1>5, <3>1, <3>2
        <3> QED
            BY <1>1, <1>3, <2>1, <2>5, <3>2, <3>3 DEF Accounts
    <2> QED
        BY <2>2, <2>3, <2>4, <2>5 DEF Accounts, L
<1>8. LeafOk(c, seen, x, up)
    BY <1>1, <1>3, <1>4, <1>6, <1>7 DEF LeafOk
<1> QED
    BY <1>8 DEF up

\* What is under a secret key is one leaf that says nothing.
LEMMA SecretUnder ==
    ASSUME NEW c \in Contexts, NEW seen \in SUBSET Objects, NEW x \in Objects
    PROVE  LeafOk(c, seen, x, [Leaf("[REDACTED]") EXCEPT !.path = <<"secret">> \o @])
<1> DEFINE leaf == Leaf("[REDACTED]")
           at == [n \in 0..0 |-> c.heap[x]["secret"]]
<1>1. leaf = [path |-> leaf.path, value |-> leaf.value] /\ leaf.path = <<>> /\ leaf.value = "[REDACTED]"
    BY DEF Leaf
<1>2. at = [n \in 0..0 |-> at[n]] /\ at[0] = c.heap[x]["secret"]
    OBVIOUS
<1>3. <<>> \in Seq(Keys) /\ Len(<<>>) = 0 /\ "secret" \in Keys
    BY DEF Keys
<1> HIDE DEF leaf, at
<1>4. Trail(c, c.heap[x]["secret"], at, leaf.path)
    BY <1>1, <1>2, <1>3 DEF Trail
<1>5. LeafOk(c, seen, x, [leaf EXCEPT !.path = <<"secret">> \o @])
    <2> DEFINE wider == seen \cup {x}
               key == "secret"
    <2>1. leaf.path \in Seq(Keys) /\ leaf.value # "credential" /\ wider = seen \cup {x} /\ key \in Keys
        BY <1>1, <1>3
    <2>2. key = "secret" /\ Trail(c, c.heap[x][key], at, leaf.path)
        BY <1>4
    <2> HIDE DEF wider, key
    <2>3. LeafOk(c, seen, x, [leaf EXCEPT !.path = <<key>> \o @])
        BY <1>1, <2>1, <2>2, LeafUnder
    <2> QED
        BY <2>2, <2>3
<1> QED
    BY <1>5 DEF leaf

\* Every leaf of the walk is accounted for.
LEMMA WalkLeaves ==
    ASSUME NEW c \in Contexts, NEW f, IsWalk(c, f)
    PROVE  \A seen \in SUBSET Objects : \A x \in Values : \A leaf \in f[seen][x] : LeafOk(c, seen, x, leaf)
<1> DEFINE N == Cardinality(Objects) + 1
           Fine(m) == \A seen \in SUBSET Objects : Unseen(seen) < m =>
                         \A x \in Values : \A leaf \in f[seen][x] : LeafOk(c, seen, x, leaf)
           G == {m \in 0..N : Fine(m)}
<1>1. N \in Nat /\ \A seen \in SUBSET Objects : Unseen(seen) \in Nat /\ Unseen(seen) < N
    BY UnseenCounts
<1>2. \A seen \in SUBSET Objects : \A x \in Values : f[seen][x] = WalkStep(c, f, seen, x)
    BY DEF IsWalk, Level
<1> HIDE DEF N
<1>3. 0 \in G
    <2>1. \A seen \in SUBSET Objects : ~(Unseen(seen) < 0)
        BY <1>1
    <2> QED
        BY <1>1, <2>1
<1>4. ASSUME NEW m \in 1..N, m - 1 \in G
      PROVE  m \in G
    <2>1. Fine(m - 1)
        BY <1>4
    <2>2. ASSUME NEW seen \in SUBSET Objects, Unseen(seen) < m, NEW x \in Values,
                 NEW leaf \in WalkStep(c, f, seen, x)
          PROVE  LeafOk(c, seen, x, leaf)
        <3>1. CASE x \in Scalars
            <4>1. leaf = Leaf(RedactString(x))
                BY <2>2, <3>1 DEF WalkStep
            <4> DEFINE value == RedactString(x)
            <4>2. \/ value = x /\ x # "credential"
                  \/ value = "[REDACTED]" /\ x = "credential"
                BY DEF RedactString
            <4> HIDE DEF value
            <4>3. LeafOk(c, seen, x, Leaf(value))
                BY <4>2, LeafAtOnce
            <4> QED
                BY <4>1, <4>3 DEF value
        <3>2. CASE x \notin Scalars /\ x \in seen
            <4>1. leaf = Leaf("[Circular]")
                BY <2>2, <3>2 DEF WalkStep
            <4> DEFINE value == "[Circular]"
            <4>2. value = "[Circular]" /\ x \in seen
                BY <3>2
            <4> HIDE DEF value
            <4>3. LeafOk(c, seen, x, Leaf(value))
                BY <4>2, LeafAtOnce
            <4> QED
                BY <4>1, <4>3 DEF value
        <3>3. CASE x \notin Scalars /\ x \notin seen
            <4>1. x \in Objects \ seen
                BY <3>3 DEF Values
            <4>2. PICK key \in Keys :
                    leaf \in Under(key, IF IsSecretKey(key) THEN {Leaf("[REDACTED]")}
                                        ELSE f[seen \cup {x}][c.heap[x][key]])
                BY <2>2, <3>3 DEF WalkStep
            <4>3. PICK low \in (IF IsSecretKey(key) THEN {Leaf("[REDACTED]")}
                                ELSE f[seen \cup {x}][c.heap[x][key]]) :
                    leaf = [low EXCEPT !.path = <<key>> \o @]
                BY <4>2 DEF Under
            <4>4. CASE IsSecretKey(key)
                <5>1. key = "secret" /\ low = Leaf("[REDACTED]")
                    BY <4>3, <4>4 DEF IsSecretKey
                <5> QED
                    BY <4>1, <4>3, <5>1, SecretUnder
            <4>5. CASE ~IsSecretKey(key)
                <5> DEFINE wider == seen \cup {x}
                <5>1. wider \in SUBSET Objects /\ Unseen(wider) < m - 1 /\ wider = seen \cup {x}
                    BY <1>1, <2>2, <4>1, UnseenShrinks
                <5> HIDE DEF wider
                <5>2. low \in f[wider][c.heap[x][key]] /\ c.heap[x][key] \in Values /\ key # "secret"
                    BY <4>1, <4>3, <4>5, <5>1, HeapTyped DEF IsSecretKey
                <5>3. LeafOk(c, wider, c.heap[x][key], low)
                    BY <2>1, <5>1, <5>2
                <5>4. PICK at : Trail(c, c.heap[x][key], at, low.path) /\ Accounts(wider, at, low)
                    BY <5>3 DEF LeafOk
                <5>5. /\ low = [path |-> low.path, value |-> low.value] /\ low.path \in Seq(Keys)
                      /\ low.value # "credential" /\ (Hidden(low) => low.value = "[REDACTED]")
                    BY <5>3 DEF LeafOk
                <5>6. LeafOk(c, seen, x, [low EXCEPT !.path = <<key>> \o @])
                    BY <4>1, <5>1, <5>2, <5>4, <5>5, LeafUnder
                <5> QED
                    BY <4>3, <5>6
            <4> QED
                BY <4>4, <4>5
        <3> QED
            BY <3>1, <3>2, <3>3
    <2>3. Fine(m)
        BY <1>2, <2>2
    <2> HIDE DEF Fine
    <2> QED
        BY <1>1, <2>3
<1> HIDE DEF G
<1>5. 0..N \subseteq G
    BY <1>1, <1>3, <1>4, InductionUpTo
<1>6. N \in 0..N
    BY <1>1
<1>7. N \in G
    BY <1>5, <1>6, Zenon
<1>8. Fine(N)
    BY <1>7 DEF G
<1> QED
    BY <1>1, <1>8

\* logger.ts:128-170: so is every leaf that is there when the walk is over.
LEMMA WalkIsExact ==
    ASSUME NEW c \in Contexts
    PROVE  \A leaf \in Walk(c) : LeafOk(c, {}, c.root, leaf)
<1> DEFINE walk == CHOOSE f : IsWalk(c, f)
<1>1. Walk(c) = walk[{}][c.root]
    BY DEF Walk, WalkStep, Level, IsWalk
<1>2. IsWalk(c, walk)
    BY WalkExists
<1> HIDE DEF walk
<1>3. c.root \in Values /\ {} \in SUBSET Objects
    BY HeapTyped
<1> QED
    BY <1>1, <1>2, <1>3, WalkLeaves

\* The trail of a leaf is what Followed finds.
LEMMA FollowedIsTrail ==
    ASSUME NEW c, NEW path \in Seq(Keys), NEW at, Trail(c, c.root, at, path)
    PROVE  \A n \in 0..Len(path) : Followed(c, path)[n] = at[n]
<1> DEFINE L == Len(path)
           Next1(f, n) == IF n = 0 THEN c.root ELSE c.heap[f[n - 1]][path[n]]
           Follows(f) == f = [n \in 0..L |-> Next1(f, n)]
           to == CHOOSE f : Follows(f)
<1>1. Followed(c, path) = to
    BY DEF Followed
<1>2. L \in Nat
    OBVIOUS
<1>3. Follows(at)
    <2>1. ASSUME NEW n \in 0..L PROVE at[n] = Next1(at, n)
        <3>1. CASE n = 0
            BY <3>1 DEF Trail
        <3>2. CASE n # 0
            <4>1. n \in 1..Len(path)
                BY <1>2, <3>2
            <4> QED
                BY <3>2, <4>1 DEF Trail
        <3> QED
            BY <3>1, <3>2
    <2> HIDE DEF Next1
    <2> QED
        BY <2>1 DEF Trail
<1>4. Follows(to)
    BY <1>3
<1> HIDE DEF to
<1>5. \A n \in 0..L : to[n] = Next1(to, n) /\ at[n] = Next1(at, n)
    <2> HIDE DEF Next1
    <2> QED
        BY <1>3, <1>4
<1> DEFINE G == {n \in 0..L : to[n] = at[n]}
<1> HIDE DEF L
<1>6. 0 \in G
    BY <1>2, <1>5
<1>7. ASSUME NEW n \in 1..L, n - 1 \in G
      PROVE  n \in G
    <2>1. n \in 0..L /\ n # 0 /\ to[n - 1] = at[n - 1]
        BY <1>2, <1>7
    <2>2. to[n] = at[n]
        BY <1>5, <2>1
    <2> QED
        BY <2>1, <2>2
<1> HIDE DEF G
<1>8. 0..L \subseteq G
    BY <1>2, <1>6, <1>7, InductionUpTo
<1>9. \A n \in 0..L : to[n] = at[n]
    BY <1>8 DEF G
<1> QED
    BY <1>1, <1>9 DEF L

-------------------------------------------------------------------------------
\* What is in the logs went through redact and the serialization of its line.
Written == \A p \in printed : \E c \in Contexts : p = [context |-> c, leaves |-> Serialized(Redact(c))]

\* A leaf of the value that nothing accounts for is in the context itself.
LEMMA LeafIsInContext ==
    ASSUME NEW c \in Contexts, NEW leaf \in Walk(c), leaf.value \in {"invalidDate", "toJSON"}
    PROVE  \/ c.root \in {"invalidDate", "toJSON"}
           \/ \E o \in Objects, key \in Keys : c.heap[o][key] \in {"invalidDate", "toJSON"}
<1>1. LeafOk(c, {}, c.root, leaf)
    BY WalkIsExact
<1>2. PICK at : Trail(c, c.root, at, leaf.path) /\ Accounts({}, at, leaf)
    BY <1>1 DEF LeafOk
<1> DEFINE L == Len(leaf.path)
<1>3. L \in Nat /\ leaf.path \in Seq(Keys) /\ \A n \in 1..L : leaf.path[n] \in Keys
    BY <1>1 DEF LeafOk
<1>4. at[L] = leaf.value
    BY <1>2 DEF Accounts
<1> HIDE DEF L
<1>5. CASE L = 0
    BY <1>2, <1>4, <1>5 DEF Trail
<1>6. CASE L # 0
    <2>1. L \in 1..L
        BY <1>3, <1>6
    <2>2. at[L - 1] \in Objects /\ at[L] = c.heap[at[L - 1]][leaf.path[L]] /\ leaf.path[L] \in Keys
        BY <1>2, <1>3, <2>1 DEF Trail, L
    <2> QED
        BY <1>4, <2>2
<1> QED
    BY <1>5, <1>6

\* A line is the leaves of the walk, or one leaf that says it could not be
\* written for something in the context.
LEMMA LineIsWalk ==
    ASSUME NEW c \in Contexts
    PROVE  \/ Serialized(Redact(c)) = Walk(c)
           \/ /\ Serialized(Redact(c)) = {Leaf("[unserializable]")}
              /\ \/ c.root \in {"invalidDate", "toJSON"}
                 \/ \E o \in Objects, key \in Keys : c.heap[o][key] \in {"invalidDate", "toJSON"}
<1>1. CASE HasValue(Walk(c), "invalidDate")
    <2>1. Redact(c) = {Leaf("[unserializable]")}
        BY <1>1 DEF Redact
    <2>2. Serialized(Redact(c)) = {Leaf("[unserializable]")}
        BY <2>1 DEF Serialized
    <2> QED
        BY <1>1, <2>2, LeafIsInContext DEF HasValue
<1>2. CASE ~HasValue(Walk(c), "invalidDate")
    <2>1. Redact(c) = Walk(c)
        BY <1>2 DEF Redact
    <2>2. CASE HasValue(Walk(c), "toJSON")
        <3>1. Serialized(Redact(c)) = {Leaf("[unserializable]")}
            BY <2>1, <2>2 DEF Serialized
        <3> QED
            BY <2>2, <3>1, LeafIsInContext DEF HasValue
    <2>3. CASE ~HasValue(Walk(c), "toJSON")
        BY <2>1, <2>3 DEF Serialized
    <2> QED
        BY <2>2, <2>3
<1> QED
    BY <1>1, <1>2

LEMMA WrittenIsExact == Written => RedactionExact
<1> SUFFICES ASSUME Written PROVE RedactionExact
    OBVIOUS
<1>1. ASSUME NEW p \in printed, NEW leaf \in p.leaves
      PROVE  /\ leaf.value # "credential"
             /\ (\E n \in DOMAIN leaf.path : leaf.path[n] = "secret") => leaf.value = "[REDACTED]"
             /\ LET at == Followed(p.context, leaf.path)
                    last == at[Len(leaf.path)]
                IN  \/ leaf.value = last
                    \/ leaf.value = "[REDACTED]"
                       /\ (last = "credential" \/ \E n \in DOMAIN leaf.path : leaf.path[n] = "secret")
                    \/ leaf.value = "[Circular]" /\ \E n \in 0..(Len(leaf.path) - 1) : at[n] = last
                    \/ leaf.value = "[unserializable]"
                       /\ \/ p.context.root \in {"invalidDate", "toJSON"}
                          \/ \E o \in Objects, key \in Keys :
                               p.context.heap[o][key] \in {"invalidDate", "toJSON"}
    <2>1. PICK c \in Contexts : p = [context |-> c, leaves |-> Serialized(Redact(c))]
        BY DEF Written
    <2>2. p.context = c /\ leaf \in Serialized(Redact(c))
        BY <1>1, <2>1
    <2>3. CASE leaf \in Walk(c)
        <3>1. LeafOk(c, {}, c.root, leaf)
            BY <2>3, WalkIsExact
        <3>2. PICK at : Trail(c, c.root, at, leaf.path) /\ Accounts({}, at, leaf)
            BY <3>1 DEF LeafOk
        <3>3. leaf.path \in Seq(Keys) /\ Len(leaf.path) \in Nat /\ DOMAIN leaf.path = 1..Len(leaf.path)
            BY <3>1 DEF LeafOk
        <3>4. \A n \in 0..Len(leaf.path) : Followed(c, leaf.path)[n] = at[n]
            BY <3>2, <3>3, FollowedIsTrail
        <3> DEFINE L == Len(leaf.path)
                   F == Followed(c, leaf.path)
        <3>5. L \in Nat /\ F[L] = at[L] /\ \A n \in 0..(L - 1) : F[n] = at[n]
            BY <3>3, <3>4
        <3> HIDE DEF L, F
        <3>6. \/ leaf.value = F[L]
              \/ leaf.value = "[REDACTED]" /\ (F[L] = "credential" \/ Hidden(leaf))
              \/ leaf.value = "[Circular]" /\ \E n \in 0..(L - 1) : F[n] = F[L]
            BY <3>2, <3>5 DEF Accounts, L
        <3>7. Hidden(leaf) <=> \E n \in DOMAIN leaf.path : leaf.path[n] = "secret"
            BY <3>3 DEF Hidden
        <3>8. leaf.value # "credential" /\ (Hidden(leaf) => leaf.value = "[REDACTED]")
            BY <3>1 DEF LeafOk
        <3> QED
            BY <2>2, <3>6, <3>7, <3>8 DEF L, F
    <2>4. CASE /\ Serialized(Redact(c)) = {Leaf("[unserializable]")}
               /\ \/ c.root \in {"invalidDate", "toJSON"}
                  \/ \E o \in Objects, key \in Keys : c.heap[o][key] \in {"invalidDate", "toJSON"}
        <3>1. leaf.value = "[unserializable]" /\ leaf.path = <<>> /\ DOMAIN leaf.path = {}
            BY <2>2, <2>4 DEF Leaf
        <3> QED
            BY <2>2, <2>4, <3>1
    <2> QED
        BY <2>2, <2>3, <2>4, LineIsWalk
<1>2. SecretsStay
    BY <1>1 DEF SecretsStay
<1>3. ContextKept
    BY <1>1 DEF ContextKept
<1> QED
    BY <1>2, <1>3 DEF RedactionExact

LEMMA WrittenStep == Written /\ [Next]_vars => Written'
<1> SUFFICES ASSUME Written, [Next]_vars PROVE Written'
    OBVIOUS
<1>1. CASE UNCHANGED printed
    BY <1>1 DEF Written
<1>2. CASE Log
    <2>1. PICK c \in Contexts :
            \/ printed' = printed \cup {[context |-> c, leaves |-> Serialized(Redact(c))]}
            \/ printed' = printed
        BY <1>2 DEF Log
    <2> QED
        BY <2>1 DEF Written
<1>3. ASSUME NEW r \in Requests, Step(r) PROVE UNCHANGED printed
    BY <1>3 DEF Step, Arrive, ParseBody, Handle, NotFound, HandleError, Reply, MinimalFallback, logger
<1>4. Hangup => UNCHANGED printed
    BY DEF Hangup
<1>5. UNCHANGED vars => UNCHANGED printed
    BY DEF vars, logger
<1> QED
    BY <1>1, <1>2, <1>3, <1>4, <1>5 DEF Next

\* logger.ts:1-11 and :128-170: whatever contexts are logged, of whatever
\* shape, shared and cyclic, no credential and nothing under a secret key is
\* written, and everything else is.
THEOREM RedactionKept == Spec => []RedactionExact
<1>1. Init => Written
    BY DEF Init, LoggerInit, Written
<1> QED
    BY <1>1, WrittenStep, WrittenIsExact, PTL DEF Spec
===============================================================================
