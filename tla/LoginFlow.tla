------------------------------- MODULE LoginFlow ------------------------------
(***************************************************************************)
(* The login handshake: /auth/login puts a pre-session under a fresh state *)
(* and sends the browser to the IdP; /auth/callback consumes the state,    *)
(* exchanges the code and creates a session.  Each Redis command and each  *)
(* IdP call is a step, so logins, callbacks and replays interleave.  Redis  *)
(* may hang: it then answers no command of the open connection, and        *)
(* nothing in the BFF bounds the wait.                                     *)
(***************************************************************************)
EXTENDS Integers, FiniteSets

CONSTANTS
    Logins,      \* calls of /auth/login, each with its own fresh state
    Tries,       \* how often the IdP may send a browser back with one state
    Callbacks,   \* calls of /auth/callback
    PreTtl,      \* ttlSeconds of the pre-session store
    MaxTime,     \* bound on the clock, for model checking
    Faults       \* whether Redis, the IdP and the process may fail

ASSUME LoginAssumption ==
    /\ PreTtl \in Nat \ {0}
    /\ MaxTime \in Nat
    /\ Faults \in BOOLEAN

NoTtl == -1
Codes == Logins \X Tries       \* a code and the state it came with
StateOf(code) == code[1]
NoCode == <<>>

LoginPcs == {"idle", "set", "expire", "redirect", "sent", "failed"}
\* The pcs of a callback that consume let through, and the ends of the others.
InsidePcs == {"exchange", "verify", "create", "admitted"}
CallbackPcs == InsidePcs \cup {"idle", "get", "del", "rejected", "failed", "gone"}

VARIABLES
    now,       \* seconds
    stored,    \* the states whose presess: key Redis holds
    expiry,    \* when Redis reaps such a key, or NoTtl
    redis,     \* "up", or "hung": no command is answered
    login,     \* pc of each /auth/login call
    sentAt,    \* when the browser of a login was redirected
    issued,    \* codes the IdP has sent browsers back with
    spent,     \* codes the IdP has exchanged
    cb,        \* each callback: pc, code, whether consume's GET found a record
    consumed   \* history: states whose DEL some callback has completed

vars == <<now, stored, expiry, redis, login, sentAt, issued, spent, cb, consumed>>
loginVars == <<login, sentAt>>
idpVars == <<issued, spent>>

\* age is history: how long after its redirect the state was looked up.
\* late is history: another callback had completed its consume by then.
Callback == [pc : CallbackPcs, code : Codes \cup {NoCode}, found : BOOLEAN,
             late : BOOLEAN, age : Int]

TypeOK ==
    /\ now \in Nat
    /\ stored \subseteq Logins
    /\ expiry \in [Logins -> Nat \cup {NoTtl}]
    /\ redis \in {"up", "hung"}
    /\ login \in [Logins -> LoginPcs]
    /\ sentAt \in [Logins -> Nat]
    /\ issued \subseteq Codes /\ spent \subseteq issued
    /\ cb \in [Callbacks -> Callback]
    /\ consumed \subseteq Logins

Init ==
    /\ now = 0
    /\ stored = {}
    /\ expiry = [s \in Logins |-> NoTtl]
    /\ redis = "up"
    /\ login = [s \in Logins |-> "idle"]
    /\ sentAt = [s \in Logins |-> 0]
    /\ issued = {} /\ spent = {}
    /\ cb = [c \in Callbacks |-> [pc |-> "idle", code |-> NoCode, found |-> FALSE,
                                  late |-> FALSE, age |-> 0]]
    /\ consumed = {}

-------------------------------------------------------------------------------
(* /auth/login                                                             *)

LoginGoes(s, from, to) == login[s] = from /\ login' = [login EXCEPT ![s] = to]

LoginStart(s) ==
    /\ LoginGoes(s, "idle", "set")
    /\ UNCHANGED <<now, redis, stored, expiry, sentAt, idpVars, cb, consumed>>

\* Mutant: the redirect does not wait for put.
PutSetUnawaited(s) ==
    /\ redis = "up"
    /\ LoginGoes(s, "set", "redirect")
    /\ stored' = stored \cup {s}
    /\ expiry' = [expiry EXCEPT ![s] = NoTtl]
    /\ UNCHANGED <<now, redis, sentAt, idpVars, cb, consumed>>

PutSet(s) ==
    /\ redis = "up"
    /\ LoginGoes(s, "set", "expire")
    /\ stored' = stored \cup {s}
    /\ expiry' = [expiry EXCEPT ![s] = NoTtl]
    /\ UNCHANGED <<now, redis, sentAt, idpVars, cb, consumed>>

PutExpire(s) ==
    /\ redis = "up"
    /\ LoginGoes(s, "expire", "redirect")
    /\ expiry' = [expiry EXCEPT ![s] = now + PreTtl]
    /\ UNCHANGED <<now, redis, stored, sentAt, idpVars, cb, consumed>>

\* The discovery document may still have to be fetched for the URL.
Redirect(s) ==
    /\ LoginGoes(s, "redirect", "sent")
    /\ sentAt' = [sentAt EXCEPT ![s] = now]
    /\ UNCHANGED <<now, redis, stored, expiry, idpVars, cb, consumed>>

\* Mutant: the handler goes on when put or discovery fails.
LoginFailsSwallowed(s) ==
    /\ Faults
    /\ login[s] \in {"set", "expire", "redirect"}
    /\ login' = [login EXCEPT ![s] = "redirect"]
    /\ UNCHANGED <<now, redis, stored, expiry, sentAt, idpVars, cb, consumed>>

\* SET or EXPIRE rejects, or discovery does: the browser gets an error and
\* never learns the state.  A SET may have reached Redis all the same.
LoginFails(s) ==
    /\ Faults
    /\ login[s] \in {"set", "expire", "redirect"}
    /\ login' = [login EXCEPT ![s] = "failed"]
    /\ \/ UNCHANGED <<stored, expiry>>
       \/ /\ login[s] = "set"
          /\ stored' = stored \cup {s}
          /\ expiry' = [expiry EXCEPT ![s] = NoTtl]
    /\ UNCHANGED <<now, redis, sentAt, idpVars, cb, consumed>>

-------------------------------------------------------------------------------
(* The IdP and the browser                                                 *)

\* The user signs in.  Going back in the browser and signing in once more
\* yields a second code for the same state.
IdpReturns(code) ==
    /\ login[StateOf(code)] = "sent"
    /\ code \notin issued
    /\ issued' = issued \cup {code}
    /\ UNCHANGED <<now, redis, stored, expiry, loginVars, spent, cb, consumed>>

-------------------------------------------------------------------------------
(* /auth/callback                                                          *)

CallbackGoes(c, from, to) ==
    /\ cb[c].pc = from
    /\ cb' = [cb EXCEPT ![c].pc = to]

\* The browser follows the redirect, or repeats it.
Arrive(c, code) ==
    /\ cb[c].pc = "idle"
    /\ code \in issued
    /\ cb' = [cb EXCEPT ![c].pc = "get", ![c].code = code]
    /\ UNCHANGED <<now, redis, stored, expiry, loginVars, idpVars, consumed>>

\* The limiter answers 429, or code or state is missing and the answer is 400.
TurnedAway(c) ==
    /\ CallbackGoes(c, "idle", "rejected")
    /\ UNCHANGED <<now, redis, stored, expiry, loginVars, idpVars, consumed>>

ConsumeGet(c) ==
    LET s == StateOf(cb[c].code)
    IN  /\ cb[c].pc = "get" /\ redis = "up"
        /\ cb' = [cb EXCEPT ![c].pc = "del", ![c].found = s \in stored,
                            ![c].late = s \in consumed,
                            ![c].age = now - sentAt[s]]
        /\ UNCHANGED <<now, redis, stored, expiry, loginVars, idpVars, consumed>>

AfterDel(c) == IF cb[c].found THEN "exchange" ELSE "rejected"

\* Mutant: the state is deleted only when the login has come through.
ConsumeDelOnReject(c) ==
    LET s == StateOf(cb[c].code)
    IN  /\ CallbackGoes(c, "del", AfterDel(c)) /\ redis = "up"
        /\ stored' = IF cb[c].found THEN stored ELSE stored \ {s}
        /\ consumed' = consumed \cup {s}
        /\ UNCHANGED <<now, redis, expiry, loginVars, idpVars>>

\* Mutant: a missing state is not answered.
ConsumeDelSilent(c) ==
    LET s == StateOf(cb[c].code)
    IN  /\ cb[c].pc = "del" /\ redis = "up"
        /\ cb' = [cb EXCEPT ![c].pc = IF cb[c].found THEN "exchange" ELSE @]
        /\ stored' = stored \ {s}
        /\ consumed' = consumed \cup {s}
        /\ UNCHANGED <<now, redis, expiry, loginVars, idpVars>>

ConsumeDel(c) ==
    LET s == StateOf(cb[c].code)
    IN  /\ CallbackGoes(c, "del", AfterDel(c)) /\ redis = "up"
        /\ stored' = stored \ {s}
        /\ consumed' = consumed \cup {s}
        /\ UNCHANGED <<now, redis, expiry, loginVars, idpVars>>

\* The IdP exchanges a code once; the PKCE verifier is the one of its login.
ExchangeAccepted(c) ==
    /\ CallbackGoes(c, "exchange", "verify")
    /\ cb[c].code \notin spent
    /\ spent' = spent \cup {cb[c].code}
    /\ UNCHANGED <<now, redis, stored, expiry, loginVars, issued, consumed>>

ExchangeRefused(c) ==
    /\ CallbackGoes(c, "exchange", "failed")
    /\ cb[c].code \in spent
    /\ UNCHANGED <<now, redis, stored, expiry, loginVars, idpVars, consumed>>

\* The ID token verifies and the user's groups map to a role; ensureUser may
\* fail without consequence.
Verified(c) ==
    /\ CallbackGoes(c, "verify", "create")
    /\ UNCHANGED <<now, redis, stored, expiry, loginVars, idpVars, consumed>>

\* The ID token does not verify, or no group of the user maps to a role.
Denied(c) ==
    /\ CallbackGoes(c, "verify", "failed")
    /\ UNCHANGED <<now, redis, stored, expiry, loginVars, idpVars, consumed>>

\* sessions.create (its own steps are those of SessionStore) and the cookie.
Admit(c) ==
    /\ CallbackGoes(c, "create", "admitted") /\ redis = "up"
    /\ UNCHANGED <<now, redis, stored, expiry, loginVars, idpVars, consumed>>

\* Redis or the IdP fails, or the answer of the IdP is late: the request is
\* answered with an error.  What was under way may have happened all the same.
CallbackFails(c) ==
    LET s == StateOf(cb[c].code)
    IN  /\ Faults
        /\ cb[c].pc \in {"get", "del", "exchange", "verify", "create"}
        /\ cb' = [cb EXCEPT ![c].pc = "failed"]
        /\ \/ UNCHANGED <<stored, spent, consumed>>
           \/ /\ cb[c].pc = "del"
              /\ stored' = stored \ {s}
              /\ consumed' = consumed \cup {s}
              /\ UNCHANGED spent
           \/ /\ cb[c].pc = "exchange"
              /\ spent' = spent \cup {cb[c].code}
              /\ UNCHANGED <<stored, consumed>>
        /\ UNCHANGED <<now, redis, expiry, loginVars, issued>>

-------------------------------------------------------------------------------

\* Redis stops answering on a connection that stays open, and goes on later.
Hang ==
    /\ Faults
    /\ redis = "up" /\ redis' = "hung"
    /\ UNCHANGED <<now, stored, expiry, loginVars, idpVars, cb, consumed>>

Resume ==
    /\ redis = "hung" /\ redis' = "up"
    /\ UNCHANGED <<now, stored, expiry, loginVars, idpVars, cb, consumed>>

\* The process dies: whatever it was doing is cut off, Redis stays.
Crash ==
    /\ Faults
    /\ login' = [s \in Logins |->
                   IF login[s] \in {"set", "expire", "redirect"}
                   THEN "failed" ELSE login[s]]
    /\ cb' = [c \in Callbacks |->
                IF cb[c].pc \in {"get", "del", "exchange", "verify", "create"}
                THEN [cb[c] EXCEPT !.pc = "gone"] ELSE cb[c]]
    /\ UNCHANGED <<now, redis, stored, expiry, sentAt, idpVars, consumed>>

\* Redis reaps what is due.
Tick ==
    /\ now < MaxTime
    /\ now' = now + 1
    /\ stored' = {s \in stored : expiry[s] = NoTtl \/ expiry[s] > now + 1}
    /\ UNCHANGED <<redis, expiry, loginVars, idpVars, cb, consumed>>

LoginStep(s) ==
    LoginStart(s) \/ PutSet(s) \/ PutExpire(s) \/ Redirect(s) \/ LoginFails(s)

CallbackStep(c) ==
    \/ ConsumeGet(c) \/ ConsumeDel(c)
    \/ ExchangeAccepted(c) \/ ExchangeRefused(c)
    \/ Verified(c) \/ Denied(c) \/ Admit(c)

Next ==
    \/ \E s \in Logins : LoginStep(s)
    \/ \E code \in Codes : IdpReturns(code)
    \/ \E c \in Callbacks :
         \/ TurnedAway(c)
         \/ \E code \in Codes : Arrive(c, code)
         \/ CallbackStep(c)
         \/ CallbackFails(c)
    \/ Hang \/ Resume
    \/ Crash
    \/ Tick

Spec == Init /\ [][Next]_vars

\* fetchJson aborts IdP calls after its timeout, and a Redis that is up answers;
\* of a hung one nothing is assumed, not even that it ever resumes.
FairSpec == Spec /\ \A c \in Callbacks : WF_vars(CallbackStep(c))

-------------------------------------------------------------------------------
(* Properties                                                              *)

\* preSessionStore.ts:6: a callback gets past consume only with a state whose
\* browser was redirected less than PreTtl ago, whatever fails or restarts.
StaleStateRejected ==
    \A c \in Callbacks : cb[c].pc \in InsidePcs => cb[c].age < PreTtl

\* ADR 0003:76: once a callback has completed its consume, a replay that
\* arrives later never gets past its own.
LateReplayRejected ==
    \A c \in Callbacks : cb[c].pc \in InsidePcs => ~cb[c].late

\* A browser that was sent to the IdP finds its state on return, for the whole
\* TTL counted from put, unless a callback has taken it.
RedirectedIsStored ==
    \A s \in Logins :
        login[s] = "sent" /\ s \notin consumed /\ s \notin stored =>
            expiry[s] # NoTtl /\ now >= expiry[s]

\* routes/auth.ts:116-191: a callback under way is answered or cut off with the
\* process, unless Redis hangs: no timer bounds a command on an open connection
\* (redis.ts:24 bounds connect alone), so then it may wait for ever.
UnderWay(c) == cb[c].pc \in {"get", "del", "exchange", "verify", "create"}

CallbacksAnswered ==
    \A c \in Callbacks : UnderWay(c) ~> (~UnderWay(c) \/ redis = "hung")

-------------------------------------------------------------------------------
(* The inductive invariant behind the three safety properties.             *)

\* A record a browser may come back for carries its TTL, counted from put.
SentIsTimed ==
    \A s \in Logins :
        /\ login[s] \in {"redirect", "sent"} /\ s \in stored => expiry[s] # NoTtl
        /\ login[s] = "redirect" => expiry[s] <= now + PreTtl
        /\ login[s] = "sent" => expiry[s] <= sentAt[s] + PreTtl

\* What Redis holds is not due.
NothingOverdue == \A s \in stored : expiry[s] = NoTtl \/ now < expiry[s]

\* Codes, and so callbacks and consumed states, belong to redirected logins.
CodesFollowRedirect ==
    /\ \A code \in issued : login[StateOf(code)] = "sent"
    /\ \A c \in Callbacks : cb[c].pc # "idle" /\ cb[c].pc # "rejected" =>
                               cb[c].code \in issued
    /\ \A s \in consumed : login[s] = "sent" /\ s \notin stored

LookupsFresh ==
    \A c \in Callbacks :
        cb[c].pc \in InsidePcs \cup {"del"} /\ cb[c].found =>
            cb[c].age < PreTtl /\ ~cb[c].late

InsideFound == \A c \in Callbacks : cb[c].pc \in InsidePcs => cb[c].found

\* A record is kept, from put's SET on, until it is consumed or due.
KeptUntilDue ==
    \A s \in Logins :
        /\ login[s] = "expire" => s \in stored /\ expiry[s] = NoTtl
        /\ login[s] \in {"redirect", "sent"} =>
              /\ expiry[s] # NoTtl
              /\ s \in stored \/ s \in consumed \/ now >= expiry[s]

ReplayInv ==
    /\ TypeOK
    /\ SentIsTimed
    /\ NothingOverdue
    /\ CodesFollowRedirect
    /\ LookupsFresh
    /\ InsideFound

IInv == ReplayInv /\ KeptUntilDue
===============================================================================
