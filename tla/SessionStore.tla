----------------------------- MODULE SessionStore -----------------------------
(***************************************************************************)
(* One opaque session of the BFF: its Redis record, the login that creates *)
(* it, and the concurrent HTTP requests that present its cookie.           *)
(*                                                                         *)
(* A request runs requireSession: sessions.get (GET, then SET and EXPIRE), *)
(* refreshIfNeeded (the IdP, then sessions.update: GET, SET, EXPIRE), and  *)
(* a logout then runs sessions.destroy (DEL).  Every await is a point      *)
(* where another request may run, so every Redis command and every IdP     *)
(* call is an action of its own; the synchronous code between the reply to *)
(* one command and the issue of the next belongs to the action of the      *)
(* latter.  Session ids are random and never shared, so one id is enough.  *)
(***************************************************************************)
EXTENDS Integers, FiniteSets

CONSTANTS
    Requests,       \* HTTP requests that carry this session's cookie
    NoRecord,       \* Redis has no value under the session's key
    Idle,           \* idleTimeoutSeconds
    Abs,            \* absoluteLifetimeSeconds
    Skew,           \* REFRESH_SKEW_MS, in the same unit
    TokenLife,      \* lifetime of an access token issued by the IdP
    RotateRefresh,  \* the IdP accepts only the newest refresh token
    Faults,         \* the faults that may happen: "idp", "redis", "kill"
    MaxTime         \* bound on the clock, for model checking

Record == [createdAt : Nat, lastSeenAt : Nat, refresh : Nat, tokenExp : Nat]

ASSUME SessionAssumption ==
    /\ NoRecord \notin Record
    /\ Idle \in Nat \ {0}
    /\ Abs \in Nat \ {0}
    /\ Skew \in Nat
    /\ TokenLife \in Nat
    /\ RotateRefresh \in BOOLEAN
    /\ Faults \subseteq {"idp", "redis", "kill"}
    /\ MaxTime \in Nat

VARIABLES
    now,          \* Date.now() and the clock of Redis
    store,        \* the value of key sess:<id>
    expireAt,     \* when Redis drops the key; NoTtl if the key has no TTL
    conn,         \* the BFF's Redis connection
    login,        \* progress of the callback's sessions.create
    pc,           \* progress of each request
    held,         \* the record each request has read or is about to write
    idpRefresh,   \* number of the newest refresh token the IdP has issued
    \* History, read by the properties only:
    loginAt,      \* when the session was created
    activity,     \* when the session was last written by the BFF
    deleted,      \* some DEL has been executed
    overlap,      \* who held a copy of the record when the last DEL ran
    loggedOut,    \* a logout has executed its DEL
    late,         \* requests that began after a logout's DEL
    crowded,      \* two requests have been inside requireSession at once
    interrupted,  \* some SET has lost its EXPIRE to a fault
    faulted       \* a fault has happened

redisVars == <<store, expireAt>>
requestVars == <<pc, held>>
historyVars == <<loginAt, activity, deleted, overlap, loggedOut, late,
                 crowded, interrupted, faulted>>
vars == <<now, redisVars, conn, login, requestVars, idpRefresh, historyVars>>

NoTtl == 0

(***************************************************************************)
(* Progress of a request.  A request waits ...                             *)
(*   new        to send the GET of sessions.get                            *)
(*   got        for get to act on the record GET returned                  *)
(*   set        for the EXPIRE that follows get's SET                      *)
(*   loaded     for refreshIfNeeded to look at the access token            *)
(*   refreshed  for the GET of sessions.update, new tokens in hand         *)
(*   merged     for the SET of sessions.update                             *)
(*   updated    for the EXPIRE that follows update's SET                   *)
(*   refused    for the DEL that follows a failed refresh                  *)
(* `passed` means requireSession called next(); the rest are the ends.     *)
(***************************************************************************)
Copying == {"got", "merged"}
Persisting == {"set", "updated"}
InFlight == Copying \union Persisting
              \union {"loaded", "refreshed", "refused", "passed"}
Ended == {"authRequired", "sessionExpired", "loggedOut", "error", "lost"}
Label == {"new"} \union InFlight \union Ended

TypeOK ==
    /\ now \in Nat
    /\ store \in Record \union {NoRecord}
    /\ expireAt \in Nat
    /\ conn \in {"open", "closed"}
    /\ login \in {"exchanged", "set", "cookie", "failed"}
    /\ pc \in [Requests -> Label]
    /\ held \in [Requests -> Record \union {NoRecord}]
    /\ idpRefresh \in Nat
    /\ loginAt \in Nat
    /\ activity \in Nat
    /\ deleted \in BOOLEAN
    /\ overlap \subseteq Requests
    /\ loggedOut \in BOOLEAN
    /\ late \subseteq Requests
    /\ crowded \in BOOLEAN
    /\ interrupted \in BOOLEAN
    /\ faulted \in BOOLEAN

Init ==
    /\ now = 0
    /\ store = NoRecord
    /\ expireAt = NoTtl
    /\ conn = "open"
    /\ login = "exchanged"
    /\ pc = [r \in Requests |-> "new"]
    /\ held = [r \in Requests |-> NoRecord]
    /\ idpRefresh = 0
    /\ loginAt = 0
    /\ activity = 0
    /\ deleted = FALSE
    /\ overlap = {}
    /\ loggedOut = FALSE
    /\ late = {}
    /\ crowded = FALSE
    /\ interrupted = FALSE
    /\ faulted = FALSE

-------------------------------------------------------------------------------
(* The Redis commands and the helpers of sessionStore.ts.                  *)

\* Mutant: SET with KEEPTTL.
RedisSetKeepTtl(rec) ==
    /\ store' = rec
    /\ UNCHANGED expireAt

\* SET without options discards the TTL the key had.
RedisSet(rec) ==
    /\ store' = rec
    /\ expireAt' = NoTtl

\* EXPIRE of a missing key does nothing.
RedisExpire(seconds) ==
    /\ expireAt' = IF store = NoRecord THEN expireAt ELSE now + seconds
    /\ UNCHANGED store

\* DEL, and the requests other than r that hold a copy while it runs.
RedisDel(r) ==
    /\ store' = NoRecord
    /\ expireAt' = NoTtl
    /\ deleted' = TRUE
    /\ overlap' = {q \in Requests \ {r} : pc[q] \in Copying}

\* Mutant: the idle window counts from the login instead of from now.
SlideTtlFromLogin(rec) ==
    LET remaining == rec.createdAt + Idle - now
    IN  IF remaining < 1 THEN 1 ELSE remaining

\* The idle window bounded by what is left of the absolute lifetime, at least 1.
SlideTtl(rec) ==
    LET remaining == rec.createdAt + Abs - now
        capped    == IF remaining < Idle THEN remaining ELSE Idle
    IN  IF capped < 1 THEN 1 ELSE capped

\* The check sessions.get makes on the record it read.
Expired(rec) ==
    \/ now - rec.createdAt > Abs
    \/ now - rec.lastSeenAt > Idle

\* What get writes back: the whole record it read, seen now.
Touch(rec) == [rec EXCEPT !.lastSeenAt = now]

\* Mutant: update stamps a new createdAt, as create does.
MergeAsNew(rec, tokens) ==
    [rec EXCEPT !.refresh = tokens.refresh, !.tokenExp = tokens.tokenExp,
                !.createdAt = now]

\* Mutant: update keeps the new access token and drops the new refresh token.
MergeAccessOnly(rec, tokens) ==
    [rec EXCEPT !.tokenExp = tokens.tokenExp]

\* What update writes: the record it read, patched with the new tokens.
Merge(rec, tokens) ==
    [rec EXCEPT !.refresh = tokens.refresh, !.tokenExp = tokens.tokenExp]

\* refreshIfNeeded leaves a token alone that outlives the skew window.
TokenFresh(rec) == rec.tokenExp - now > Skew

Goto(r, label) == pc' = [pc EXCEPT ![r] = label]

-------------------------------------------------------------------------------
(* The callback's sessions.create, after the IdP has returned the tokens.  *)

CreateSet ==
    /\ login = "exchanged"
    /\ conn = "open"
    /\ RedisSet([createdAt |-> now, lastSeenAt |-> now,
                 refresh |-> idpRefresh, tokenExp |-> now + TokenLife])
    /\ login' = "set"
    /\ loginAt' = now
    /\ activity' = now
    /\ UNCHANGED <<now, conn, requestVars, idpRefresh, deleted, overlap,
                   loggedOut, late, crowded, interrupted, faulted>>

\* The reply to EXPIRE lets the callback hand out the cookie.
CreateExpire ==
    /\ login = "set"
    /\ conn = "open"
    /\ RedisExpire(SlideTtl([createdAt |-> loginAt]))
    /\ login' = "cookie"
    /\ UNCHANGED <<now, conn, requestVars, idpRefresh, historyVars>>

\* A Redis error is passed to next(err): no cookie.
CreateFails ==
    /\ login \in {"exchanged", "set"}
    /\ conn = "closed"
    /\ login' = "failed"
    /\ interrupted' = (interrupted \/ login = "set")
    /\ UNCHANGED <<now, redisVars, conn, requestVars, idpRefresh, loginAt,
                   activity, deleted, overlap, loggedOut, late, crowded, faulted>>

-------------------------------------------------------------------------------
(* requireSession: sessions.get.                                           *)

GetRead(r) ==
    /\ pc[r] = "new"
    /\ login = "cookie"
    /\ conn = "open"
    /\ Goto(r, IF store = NoRecord THEN "authRequired" ELSE "got")
    /\ held' = [held EXCEPT ![r] = store]
    /\ late' = IF loggedOut THEN late \union {r} ELSE late
    /\ crowded' = (\/ crowded
                   \/ \E q \in Requests : pc[q] \in InFlight \ {"passed"})
    /\ UNCHANGED <<now, redisVars, conn, login, idpRefresh, loginAt, activity,
                   deleted, overlap, loggedOut, interrupted, faulted>>

GetExpired(r) ==
    /\ pc[r] = "got"
    /\ conn = "open"
    /\ Expired(held[r])
    /\ RedisDel(r)
    /\ Goto(r, "authRequired")
    /\ UNCHANGED <<now, conn, login, held, idpRefresh, loginAt, activity,
                   loggedOut, late, crowded, interrupted, faulted>>

GetSet(r) ==
    /\ pc[r] = "got"
    /\ conn = "open"
    /\ ~Expired(held[r])
    /\ held' = [held EXCEPT ![r] = Touch(held[r])]
    /\ RedisSet(Touch(held[r]))
    /\ Goto(r, "set")
    /\ activity' = now
    /\ UNCHANGED <<now, conn, login, idpRefresh, loginAt, deleted, overlap,
                   loggedOut, late, crowded, interrupted, faulted>>

\* Mutant: get leaves the TTL to create.
GetExpireSkipped(r) ==
    /\ pc[r] = "set"
    /\ conn = "open"
    /\ Goto(r, "loaded")
    /\ UNCHANGED <<now, redisVars, conn, login, held, idpRefresh, historyVars>>

GetExpire(r) ==
    /\ pc[r] = "set"
    /\ conn = "open"
    /\ RedisExpire(SlideTtl(held[r]))
    /\ Goto(r, "loaded")
    /\ UNCHANGED <<now, conn, login, held, idpRefresh, historyVars>>

-------------------------------------------------------------------------------
(* requireSession: refreshIfNeeded.                                        *)

PassFresh(r) ==
    /\ pc[r] = "loaded"
    /\ TokenFresh(held[r])
    /\ Goto(r, "passed")
    /\ UNCHANGED <<now, redisVars, conn, login, held, idpRefresh, historyVars>>

\* External: the IdP answers the refresh grant with new tokens.
IdpAccepts(r) ==
    /\ pc[r] = "loaded"
    /\ ~TokenFresh(held[r])
    /\ RotateRefresh => held[r].refresh = idpRefresh
    /\ idpRefresh' = idpRefresh + 1
    /\ held' = [held EXCEPT ![r].refresh = idpRefresh + 1]
    /\ Goto(r, "refreshed")
    /\ UNCHANGED <<now, redisVars, conn, login, historyVars>>

\* External: a rotating IdP refuses a refresh token it has replaced.
IdpRefuses(r) ==
    /\ pc[r] = "loaded"
    /\ ~TokenFresh(held[r])
    /\ RotateRefresh
    /\ held[r].refresh # idpRefresh
    /\ Goto(r, "refused")
    /\ UNCHANGED <<now, redisVars, conn, login, held, idpRefresh, historyVars>>

\* External: the call fails or times out; the IdP may have rotated the token.
IdpFails(r) ==
    /\ "idp" \in Faults
    /\ pc[r] = "loaded"
    /\ ~TokenFresh(held[r])
    /\ idpRefresh' \in {idpRefresh, idpRefresh + 1}
    /\ Goto(r, "refused")
    /\ faulted' = TRUE
    /\ UNCHANGED <<now, redisVars, conn, login, held, loginAt, activity,
                   deleted, overlap, loggedOut, late, crowded, interrupted>>

\* Mutant: update writes back the record the request already holds.
UpdateReadBlind(r) ==
    /\ pc[r] = "refreshed"
    /\ conn = "open"
    /\ Goto(r, "merged")
    /\ held' = [held EXCEPT ![r].tokenExp = now + TokenLife]
    /\ UNCHANGED <<now, redisVars, conn, login, idpRefresh, historyVars>>

\* update's GET.  The expiry of the new access token counts from the reply.
\* A missing record makes update a no-op and the request goes on.
UpdateRead(r) ==
    /\ pc[r] = "refreshed"
    /\ conn = "open"
    /\ IF store = NoRecord
         THEN /\ Goto(r, "passed")
              /\ UNCHANGED held
         ELSE /\ Goto(r, "merged")
              /\ held' = [held EXCEPT ![r] =
                            Merge(store, [refresh  |-> held[r].refresh,
                                          tokenExp |-> now + TokenLife])]
    /\ UNCHANGED <<now, redisVars, conn, login, idpRefresh, historyVars>>

UpdateSet(r) ==
    /\ pc[r] = "merged"
    /\ conn = "open"
    /\ held' = [held EXCEPT ![r] = Touch(held[r])]
    /\ RedisSet(Touch(held[r]))
    /\ Goto(r, "updated")
    /\ activity' = now
    /\ UNCHANGED <<now, conn, login, idpRefresh, loginAt, deleted, overlap,
                   loggedOut, late, crowded, interrupted, faulted>>

UpdateExpire(r) ==
    /\ pc[r] = "updated"
    /\ conn = "open"
    /\ RedisExpire(SlideTtl(held[r]))
    /\ Goto(r, "passed")
    /\ UNCHANGED <<now, conn, login, held, idpRefresh, historyVars>>

\* A Redis error inside update lands in the same catch as a refused refresh.
UpdateFails(r) ==
    /\ pc[r] \in {"refreshed", "merged", "updated"}
    /\ conn = "closed"
    /\ Goto(r, "refused")
    /\ interrupted' = (interrupted \/ pc[r] = "updated")
    /\ UNCHANGED <<now, redisVars, conn, login, held, idpRefresh, loginAt,
                   activity, deleted, overlap, loggedOut, late, crowded, faulted>>

DestroyAfterFailure(r) ==
    /\ pc[r] = "refused"
    /\ conn = "open"
    /\ RedisDel(r)
    /\ Goto(r, "sessionExpired")
    /\ UNCHANGED <<now, conn, login, held, idpRefresh, loginAt, activity,
                   loggedOut, late, crowded, interrupted, faulted>>

\* requireSession answers SESSION_EXPIRED although nothing was destroyed.
DestroyFails(r) ==
    /\ pc[r] = "refused"
    /\ conn = "closed"
    /\ Goto(r, "sessionExpired")
    /\ UNCHANGED <<now, redisVars, conn, login, held, idpRefresh, historyVars>>

-------------------------------------------------------------------------------
(* POST /auth/logout, once requireSession and the header check have passed. *)

Logout(r) ==
    /\ pc[r] = "passed"
    /\ conn = "open"
    /\ RedisDel(r)
    /\ Goto(r, "loggedOut")
    /\ loggedOut' = TRUE
    /\ UNCHANGED <<now, conn, login, held, idpRefresh, loginAt, activity,
                   late, crowded, interrupted, faulted>>

LogoutFails(r) ==
    /\ pc[r] = "passed"
    /\ conn = "closed"
    /\ Goto(r, "error")
    /\ UNCHANGED <<now, redisVars, conn, login, held, idpRefresh, historyVars>>

-------------------------------------------------------------------------------
(* The environment.                                                        *)

\* Time passes; Redis drops a key whose TTL has run out.
Tick ==
    /\ now < MaxTime
    /\ login # "exchanged"
    /\ now' = now + 1
    /\ IF expireAt # NoTtl /\ expireAt <= now'
         THEN store' = NoRecord /\ expireAt' = NoTtl
         ELSE UNCHANGED redisVars
    /\ UNCHANGED <<conn, login, requestVars, idpRefresh, historyVars>>

\* The client never reconnects: every later command of this process rejects.
LoseConnection ==
    /\ "redis" \in Faults
    /\ conn = "open"
    /\ conn' = "closed"
    /\ faulted' = TRUE
    /\ UNCHANGED <<now, redisVars, login, requestVars, idpRefresh, loginAt,
                   activity, deleted, overlap, loggedOut, late, crowded, interrupted>>

\* Whatever the process was doing is lost, the requests in `more` included;
\* the next process connects afresh.
Crash(more) ==
    /\ pc' = [r \in Requests |-> IF pc[r] \in InFlight \/ r \in more
                                  THEN "lost" ELSE pc[r]]
    /\ login' = IF login = "cookie" THEN "cookie" ELSE "failed"
    /\ conn' = "open"
    /\ interrupted' = (\/ interrupted
                       \/ login = "set"
                       \/ \E r \in Requests : pc[r] \in Persisting)
    /\ faulted' = TRUE
    /\ UNCHANGED <<now, redisVars, held, idpRefresh, loginAt, activity,
                   deleted, overlap, loggedOut, late, crowded>>

Kill ==
    /\ "kill" \in Faults
    /\ Crash({})

\* sessions.get is awaited outside requireSession's try: its rejection is
\* unhandled and ends the process.
GetRejects(r) ==
    /\ pc[r] \in {"got", "set"} \/ (pc[r] = "new" /\ login = "cookie")
    /\ conn = "closed"
    /\ Crash({r})

Get(r) == GetRead(r) \/ GetExpired(r) \/ GetSet(r) \/ GetExpire(r)
            \/ GetRejects(r)
Refresh(r) == PassFresh(r) \/ IdpAccepts(r) \/ IdpRefuses(r) \/ IdpFails(r)
Update(r) == UpdateRead(r) \/ UpdateSet(r) \/ UpdateExpire(r) \/ UpdateFails(r)
Destroy(r) == DestroyAfterFailure(r) \/ DestroyFails(r)
                \/ Logout(r) \/ LogoutFails(r)
Create == CreateSet \/ CreateExpire \/ CreateFails
Environment == Tick \/ LoseConnection \/ Kill

Next ==
    \/ Create
    \/ \E r \in Requests : Get(r) \/ Refresh(r) \/ Update(r) \/ Destroy(r)
    \/ Environment

Spec == Init /\ [][Next]_vars

-------------------------------------------------------------------------------
(* Properties.                                                             *)

\* A writer has sent its SET and not yet its EXPIRE.
WriterPending == login = "set" \/ \E r \in Requests : pc[r] \in Persisting

\* FR-19: sessions.get lets a request through only within the absolute
\* lifetime of the login and within the idle window of the last write, no
\* matter how requests that write whole records back have raced before.
AdmissionWithinLifetimes ==
    [][\A r \in Requests :
         pc[r] = "got" /\ pc'[r] = "set" =>
           /\ now - loginAt <= Abs
           /\ now - activity <= Idle]_vars

\* The safety net of sessionStore.ts does not cut a live session short: Redis
\* drops the record only once one of the two windows, by the record's own
\* timestamps, has run out, whichever writer's EXPIRE came last.
NotReapedWhileValid ==
    [][store # NoRecord /\ store' = NoRecord /\ now' # now =>
         \/ now' - store.lastSeenAt >= Idle
         \/ now' - store.createdAt >= Abs]_vars

\* persist() leaves a record without a TTL only while some writer still has
\* its EXPIRE to send, unless a fault came between the two commands.
TtlUnlessInterrupted ==
    store # NoRecord /\ expireAt = NoTtl => WriterPending \/ interrupted

\* After a DEL (logout, failed refresh, expiry) the record stays away unless
\* a request held a copy it had read before the DEL: nothing but the
\* read-modify-write of get or update brings it back.
OnlyOverlapRevives ==
    deleted /\ overlap = {} => store = NoRecord

\* FR-18 and sessionStore.ts:112: a request that begins after a logout
\* deleted the record is not let through by requireSession.
LoggedOutStaysOut ==
    \A r \in late : pc[r] # "passed"

\* FR-17 for a browser that sends one request at a time: it is never sent back
\* to login by a refresh, also if the IdP rotates refresh tokens, since every
\* refresh presents the token the one before it was given.
SoloRefreshSilent ==
    \A r \in Requests : pc[r] = "sessionExpired" => faulted \/ crowded

-------------------------------------------------------------------------------
(* The inductive invariant behind the safety properties.                   *)

\* A copy of the record, stored or held, is of this login and not newer than
\* the last write.
Faithful(rec) ==
    /\ rec.createdAt = loginAt
    /\ rec.lastSeenAt <= activity

\* No copy of the record, in Redis or in a request's hands, ever carries a
\* creation time other than the login's or a last use the BFF has not written:
\* update's merge and get's write-back keep createdAt.
CopiesFaithful ==
    /\ loginAt <= activity
    /\ activity <= now
    /\ store # NoRecord => Faithful(store)
    /\ \A r \in Requests : held[r] # NoRecord => Faithful(held[r])

\* Requests exist, and anything has been deleted, only after the cookie is out.
CookieFirst ==
    /\ login = "exchanged" => store = NoRecord
    /\ login # "cookie" => /\ ~deleted
                           /\ \A r \in Requests : /\ pc[r] = "new"
                                                   /\ held[r] = NoRecord

\* A request between get's GET and the end of requireSession holds a record.
HoldsRecord ==
    \A r \in Requests :
        pc[r] \in InFlight => held[r] # NoRecord

\* A TTL never ends before the idle or the absolute window of the record.
TtlCoversWindows ==
    store # NoRecord /\ expireAt # NoTtl =>
        \/ expireAt >= store.lastSeenAt + Idle
        \/ expireAt >= store.createdAt + Abs

\* Nobody holds a copy from before the last DEL, so nobody can write it back.
NoReviver ==
    deleted /\ overlap = {} =>
        /\ store = NoRecord
        /\ \A r \in Requests : pc[r] \notin Copying

CopyInv ==
    /\ TypeOK
    /\ CopiesFaithful
    /\ CookieFirst
    /\ HoldsRecord
    /\ TtlCoversWindows
    /\ TtlUnlessInterrupted
    /\ NoReviver

\* A request is between sessions.get's GET and the end of requireSession.
Busy(r) == pc[r] \in InFlight \ {"passed"}

\* Without faults and with one request at a time, the request under way holds
\* the newest refresh token, and so does Redis, unless that very request has
\* just rotated it and has still to write it back.
TokenInHand ==
    ~faulted /\ ~crowded =>
        /\ conn = "open"
        /\ \A r \in Requests : pc[r] \notin {"refused", "sessionExpired"}
        /\ \A q, r \in Requests : Busy(q) /\ Busy(r) => q = r
        /\ \A r \in Requests : Busy(r) => held[r].refresh = idpRefresh
        /\ store # NoRecord => \/ store.refresh = idpRefresh
                               \/ \E r \in Requests :
                                     pc[r] \in {"refreshed", "merged"}

IInv == CopyInv /\ TokenInHand
===============================================================================
