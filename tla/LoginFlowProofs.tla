---------------------------- MODULE LoginFlowProofs ---------------------------
(***************************************************************************)
(* Stale and replayed login states are rejected, for any number of logins  *)
(* and callbacks, any TTL and any faults.  The invariant says that a       *)
(* record whose state a browser can know carries a TTL counted from before *)
(* the redirect, and that a consumed state is never stored again.          *)
(***************************************************************************)
EXTENDS LoginFlow, TLAPS

\* What a step of a callback leaves in place of its record.
LEMMA CallbackType ==
    ASSUME NEW c \in Callbacks, cb \in [Callbacks -> Callback],
           NEW to \in CallbackPcs, cb' = [cb EXCEPT ![c].pc = to]
    PROVE  /\ cb' \in [Callbacks -> Callback]
           /\ cb'[c].pc = to
           /\ cb'[c].code = cb[c].code
           /\ cb'[c].found = cb[c].found
           /\ cb'[c].late = cb[c].late
           /\ cb'[c].age = cb[c].age
           /\ \A d \in Callbacks : d # c => cb'[d] = cb[d]
<1>1. cb[c] \in [pc : CallbackPcs, code : Codes \cup {NoCode}, found : BOOLEAN,
                 late : BOOLEAN, age : Int]
    BY DEF Callback
<1>2. cb'[c] = [cb[c] EXCEPT !.pc = to]
    OBVIOUS
<1>3. /\ [cb[c] EXCEPT !.pc = to] \in Callback
      /\ [cb[c] EXCEPT !.pc = to].pc = to
      /\ [cb[c] EXCEPT !.pc = to].code = cb[c].code
      /\ [cb[c] EXCEPT !.pc = to].found = cb[c].found
      /\ [cb[c] EXCEPT !.pc = to].late = cb[c].late
      /\ [cb[c] EXCEPT !.pc = to].age = cb[c].age
    BY <1>1 DEF Callback
<1> QED
    BY <1>2, <1>3

\* The state of a code the IdP has issued is that of a login.
LEMMA CodeType ==
    ASSUME NEW code \in Codes PROVE StateOf(code) \in Logins
BY DEF Codes, StateOf

\* The invariant holds initially.
LEMMA InitReplayInv == ASSUME LoginAssumption PROVE Init => ReplayInv
<1> SUFFICES ASSUME Init PROVE ReplayInv
    OBVIOUS
<1>1. TypeOK
    BY DEF Init, TypeOK, Callback, CallbackPcs, LoginPcs, NoCode
<1>2. SentIsTimed /\ NothingOverdue /\ CodesFollowRedirect
    BY DEF Init, SentIsTimed, NothingOverdue, CodesFollowRedirect
<1>3. LookupsFresh /\ InsideFound
    BY DEF Init, LookupsFresh, InsideFound, InsidePcs
<1> QED
    BY <1>1, <1>2, <1>3 DEF ReplayInv

-------------------------------------------------------------------------------

\* A step of /auth/login changes one login and its record; no callback can
\* hold a code of that login yet.
LEMMA LoginStepReplayInv ==
    ASSUME LoginAssumption, ReplayInv, NEW s \in Logins, LoginStep(s) PROVE ReplayInv'
<1> USE DEF ReplayInv, TypeOK
<1>1. /\ cb' = cb /\ consumed' = consumed /\ issued' = issued /\ spent' = spent
      /\ now' = now
      /\ \A t \in Logins : t # s => /\ login'[t] = login[t]
                                    /\ sentAt'[t] = sentAt[t]
                                    /\ expiry'[t] = expiry[t]
                                    /\ t \in stored' <=> t \in stored
      /\ login[s] # "sent"
    BY DEF LoginStep, LoginStart, PutSet, PutExpire, Redirect, LoginFails,
           LoginGoes, idpVars
<1>2. TypeOK'
    BY DEF LoginStep, LoginStart, PutSet, PutExpire, Redirect, LoginFails,
           LoginGoes, idpVars, LoginPcs, LoginAssumption
<1>3. \A code \in issued : StateOf(code) \in Logins /\ StateOf(code) # s
    BY <1>1, CodeType DEF CodesFollowRedirect
<1>4. CodesFollowRedirect'
    BY <1>1, <1>3 DEF CodesFollowRedirect
<1>5. LookupsFresh' /\ InsideFound'
    BY <1>1 DEF LookupsFresh, InsideFound
<1>6. SentIsTimed' /\ NothingOverdue'
    <2>1. CASE LoginStart(s)
        BY <1>1, <2>1 DEF LoginStart, LoginGoes, SentIsTimed, NothingOverdue
    <2>2. CASE PutSet(s)
        BY <1>1, <2>2 DEF PutSet, LoginGoes, SentIsTimed, NothingOverdue
    <2>3. CASE PutExpire(s)
        BY <1>1, <2>3 DEF PutExpire, LoginGoes, SentIsTimed, NothingOverdue,
                          LoginAssumption, NoTtl
    <2>4. CASE Redirect(s)
        BY <1>1, <2>4 DEF Redirect, LoginGoes, SentIsTimed, NothingOverdue
    <2>5. CASE LoginFails(s)
        BY <1>1, <2>5 DEF LoginFails, SentIsTimed, NothingOverdue
    <2> QED
        BY <2>1, <2>2, <2>3, <2>4, <2>5 DEF LoginStep
<1> QED
    BY <1>2, <1>4, <1>5, <1>6

\* Of the records, SentIsTimed and NothingOverdue only fear new ones and new
\* times: steps of the IdP and of callbacks bring neither.
LEMMA RecordsKept ==
    ASSUME SentIsTimed, NothingOverdue, stored' \subseteq stored, now' = now,
           expiry' = expiry, login' = login, sentAt' = sentAt
    PROVE  SentIsTimed' /\ NothingOverdue'
BY DEF SentIsTimed, NothingOverdue

\* A sign-in at the IdP adds a code of a redirected login.
LEMMA IdpReturnsReplayInv ==
    ASSUME LoginAssumption, ReplayInv, NEW code \in Codes, IdpReturns(code)
    PROVE  ReplayInv'
<1> USE DEF ReplayInv, TypeOK
<1>1. TypeOK'
    BY DEF IdpReturns, loginVars
<1>2. SentIsTimed' /\ NothingOverdue'
    BY RecordsKept DEF IdpReturns, loginVars
<1>3. CodesFollowRedirect'
    BY DEF IdpReturns, loginVars, CodesFollowRedirect
<1>4. LookupsFresh' /\ InsideFound'
    BY DEF IdpReturns, LookupsFresh, InsideFound
<1> QED
    BY <1>1, <1>2, <1>3, <1>4

\* What a step of a callback that moves on with its code and its lookup must
\* satisfy to keep the invariant: states only leave Redis, and it gets inside
\* only with a record found.
LEMMA MoveKeepsReplayInv ==
    ASSUME ReplayInv, NEW c \in Callbacks, NEW to \in CallbackPcs,
           cb[c].pc \notin {"idle", "rejected"},
           cb' = [cb EXCEPT ![c].pc = to],
           to \in InsidePcs => cb[c].pc \in InsidePcs \cup {"del"} /\ cb[c].found,
           to \notin {"get", "del"},
           stored' \subseteq stored, issued' = issued,
           spent' \subseteq spent \cup {cb[c].code},
           consumed \subseteq consumed',
           consumed' \subseteq consumed \cup {StateOf(cb[c].code)},
           consumed' # consumed => StateOf(cb[c].code) \notin stored',
           now' = now, redis' = redis, expiry' = expiry, login' = login, sentAt' = sentAt
    PROVE  ReplayInv'
<1> USE DEF ReplayInv, TypeOK
<1>1. cb[c].code \in issued /\ cb[c].code \in Codes
    BY DEF CodesFollowRedirect
<1>2. StateOf(cb[c].code) \in Logins /\ login[StateOf(cb[c].code)] = "sent"
    BY <1>1, CodeType DEF CodesFollowRedirect
<1>3. /\ cb' \in [Callbacks -> Callback]
      /\ cb'[c].pc = to
      /\ cb'[c].code = cb[c].code
      /\ cb'[c].found = cb[c].found
      /\ cb'[c].late = cb[c].late
      /\ cb'[c].age = cb[c].age
      /\ \A d \in Callbacks : d # c => cb'[d] = cb[d]
    BY CallbackType
<1>4. TypeOK'
    BY <1>1, <1>2, <1>3
<1>5. SentIsTimed' /\ NothingOverdue'
    BY RecordsKept
<1>6. CodesFollowRedirect'
    <2>1. \A d \in Callbacks : cb'[d].pc # "idle" /\ cb'[d].pc # "rejected" =>
                                  cb'[d].code \in issued
        BY <1>1, <1>3 DEF CodesFollowRedirect
    <2>2. \A s \in consumed' : login[s] = "sent" /\ s \notin stored'
        BY <1>2 DEF CodesFollowRedirect
    <2> QED
        BY <2>1, <2>2 DEF CodesFollowRedirect
<1>7. LookupsFresh'
    <2> SUFFICES ASSUME NEW d \in Callbacks,
                        cb'[d].pc \in InsidePcs \cup {"del"}, cb'[d].found
                 PROVE  cb'[d].age < PreTtl /\ ~cb'[d].late
        BY DEF LookupsFresh
    <2>1. CASE d = c
        BY <1>3, <2>1 DEF LookupsFresh
    <2>2. CASE d # c
        BY <1>3, <2>2 DEF LookupsFresh
    <2> QED
        BY <2>1, <2>2
<1>8. InsideFound'
    BY <1>3 DEF InsideFound
<1> QED
    BY <1>4, <1>5, <1>6, <1>7, <1>8

\* A callback that arrives brings a code the IdP has issued.
LEMMA ArriveReplayInv ==
    ASSUME ReplayInv, NEW c \in Callbacks, NEW code \in Codes, Arrive(c, code)
    PROVE  ReplayInv'
<1> USE DEF ReplayInv, TypeOK
<1>1. cb[c] \in [pc : CallbackPcs, code : Codes \cup {NoCode}, found : BOOLEAN,
                 late : BOOLEAN, age : Int]
    BY DEF Callback
<1>2. cb'[c] = [cb[c] EXCEPT !.pc = "get", !.code = code]
    BY DEF Arrive
<1>3. cb'[c].pc = "get" /\ cb'[c].code = code /\ cb'[c] \in Callback
    BY <1>1, <1>2 DEF Callback, CallbackPcs
<1>4. \A d \in Callbacks : d # c => cb'[d] = cb[d]
    BY DEF Arrive
<1>5. TypeOK'
    <2>1. cb' \in [Callbacks -> Callback]
        BY <1>3, <1>4 DEF Arrive
    <2> QED
        BY <2>1 DEF Arrive, loginVars, idpVars
<1>6. SentIsTimed' /\ NothingOverdue'
    BY RecordsKept DEF Arrive, loginVars
<1>7. CodesFollowRedirect'
    BY <1>3, <1>4 DEF Arrive, loginVars, idpVars, CodesFollowRedirect
<1>8. LookupsFresh' /\ InsideFound'
    BY <1>3, <1>4 DEF LookupsFresh, InsideFound, InsidePcs
<1> QED
    BY <1>5, <1>6, <1>7, <1>8

\* A callback turned away never looks a state up.
LEMMA TurnedAwayReplayInv ==
    ASSUME ReplayInv, NEW c \in Callbacks, TurnedAway(c) PROVE ReplayInv'
<1> USE DEF ReplayInv, TypeOK
<1>1. /\ cb' \in [Callbacks -> Callback]
      /\ cb'[c].pc = "rejected"
      /\ \A d \in Callbacks : d # c => cb'[d] = cb[d]
    BY CallbackType DEF TurnedAway, CallbackGoes, CallbackPcs
<1>2. TypeOK'
    BY <1>1 DEF TurnedAway, loginVars, idpVars
<1>3. SentIsTimed' /\ NothingOverdue'
    BY RecordsKept DEF TurnedAway, loginVars
<1>4. CodesFollowRedirect'
    BY <1>1 DEF TurnedAway, loginVars, idpVars, CodesFollowRedirect
<1>5. LookupsFresh' /\ InsideFound'
    BY <1>1 DEF LookupsFresh, InsideFound, InsidePcs
<1> QED
    BY <1>2, <1>3, <1>4, <1>5

\* A record that is found is one whose TTL has not run out since a moment
\* before its redirect, and no callback has consumed it.
LEMMA ConsumeGetReplayInv ==
    ASSUME LoginAssumption, ReplayInv, NEW c \in Callbacks, ConsumeGet(c) PROVE ReplayInv'
<1> USE DEF ReplayInv, TypeOK
<1> DEFINE s == StateOf(cb[c].code)
<1>1. /\ cb[c].code \in issued /\ cb[c].code \in Codes
      /\ s \in Logins /\ login[s] = "sent"
    <2>1. cb[c].code \in issued /\ cb[c].code \in Codes
        BY DEF CodesFollowRedirect, ConsumeGet
    <2> QED
        BY <2>1, CodeType DEF CodesFollowRedirect
<1> HIDE DEF s
<1>2. cb[c] \in [pc : CallbackPcs, code : Codes \cup {NoCode}, found : BOOLEAN,
                 late : BOOLEAN, age : Int]
    BY DEF Callback
<1>3. cb'[c] = [cb[c] EXCEPT !.pc = "del", !.found = s \in stored,
                             !.late = s \in consumed, !.age = now - sentAt[s]]
    BY DEF ConsumeGet, s
<1>4. /\ cb'[c].pc = "del" /\ cb'[c].code = cb[c].code
      /\ cb'[c].found = (s \in stored) /\ cb'[c].late = (s \in consumed)
      /\ cb'[c].age = now - sentAt[s]
      /\ cb'[c] \in Callback
    <2>1. now - sentAt[s] \in Int
        BY <1>1
    <2>2. (s \in stored) \in BOOLEAN /\ (s \in consumed) \in BOOLEAN
        OBVIOUS
    <2>3. "del" \in CallbackPcs
        BY DEF CallbackPcs
    <2> QED
        BY <1>2, <1>3, <2>1, <2>2, <2>3 DEF Callback
<1>5. \A d \in Callbacks : d # c => cb'[d] = cb[d]
    BY DEF ConsumeGet
<1>6. TypeOK'
    <2>1. cb' \in [Callbacks -> Callback]
        BY <1>4, <1>5 DEF ConsumeGet
    <2> QED
        BY <2>1 DEF ConsumeGet, loginVars, idpVars
<1>7. SentIsTimed' /\ NothingOverdue'
    BY RecordsKept DEF ConsumeGet, loginVars
<1>8. CodesFollowRedirect'
    <2>1. /\ cb[c].pc = "get"
          /\ UNCHANGED <<stored, login, issued, consumed>>
        BY DEF ConsumeGet, loginVars, idpVars
    <2>2. cb[c].code \in issued
        BY <1>1, <2>1 DEF CodesFollowRedirect
    <2>3. \A d \in Callbacks : cb'[d].pc # "idle" /\ cb'[d].pc # "rejected" =>
                                  cb'[d].code \in issued
        BY <1>1, <1>4, <1>5, <2>2 DEF CodesFollowRedirect
    <2> QED
        BY <1>1, <2>1, <2>3 DEF CodesFollowRedirect
<1>9. LookupsFresh'
    <2>1. s \in stored => now - sentAt[s] < PreTtl /\ s \notin consumed
        BY <1>1 DEF SentIsTimed, NothingOverdue, CodesFollowRedirect,
                    LoginAssumption, NoTtl
    <2> QED
        BY <1>4, <1>5, <2>1 DEF LookupsFresh
<1>10. InsideFound'
    BY <1>4, <1>5 DEF InsideFound, InsidePcs
<1> QED
    BY <1>6, <1>7, <1>8, <1>9, <1>10

\* The steps of a callback after its lookup.
LEMMA CallbackMovesReplayInv ==
    ASSUME ReplayInv, NEW c \in Callbacks,
           \/ ConsumeDel(c) \/ ExchangeAccepted(c) \/ ExchangeRefused(c)
           \/ Verified(c) \/ Denied(c) \/ Admit(c) \/ CallbackFails(c)
    PROVE  ReplayInv'
<1>1. InsideFound
    BY DEF ReplayInv
<1>2. CASE ConsumeDel(c)
    <2> DEFINE to == AfterDel(c)
    <2>1. /\ cb[c].pc \notin {"idle", "rejected"}
          /\ to \in CallbackPcs
          /\ to \in InsidePcs => cb[c].pc \in InsidePcs \cup {"del"} /\ cb[c].found
          /\ to \notin {"get", "del"}
        BY <1>2 DEF ConsumeDel, CallbackGoes, AfterDel, CallbackPcs, InsidePcs
    <2>2. cb' = [cb EXCEPT ![c].pc = to]
        BY <1>2 DEF ConsumeDel, CallbackGoes
    <2>3. /\ stored' \subseteq stored /\ issued' = issued
          /\ spent' \subseteq spent \cup {cb[c].code}
          /\ consumed \subseteq consumed'
          /\ consumed' \subseteq consumed \cup {StateOf(cb[c].code)}
          /\ StateOf(cb[c].code) \notin stored'
          /\ now' = now /\ redis' = redis /\ expiry' = expiry
          /\ login' = login /\ sentAt' = sentAt
        BY <1>2 DEF ConsumeDel, loginVars, idpVars
    <2> HIDE DEF to
    <2> QED
        BY <2>1, <2>2, <2>3, MoveKeepsReplayInv
<1>3. CASE ExchangeAccepted(c)
    <2>1. /\ cb[c].pc \notin {"idle", "rejected"}
          /\ "verify" \in CallbackPcs
          /\ "verify" \in InsidePcs => cb[c].pc \in InsidePcs \cup {"del"} /\ cb[c].found
          /\ "verify" \notin {"get", "del"}
        BY <1>1, <1>3 DEF ExchangeAccepted, CallbackGoes, InsideFound, CallbackPcs, InsidePcs
    <2>2. cb' = [cb EXCEPT ![c].pc = "verify"]
        BY <1>3 DEF ExchangeAccepted, CallbackGoes
    <2>3. /\ stored' \subseteq stored /\ issued' = issued
          /\ spent' \subseteq spent \cup {cb[c].code}
          /\ consumed' = consumed
          /\ now' = now /\ redis' = redis /\ expiry' = expiry
          /\ login' = login /\ sentAt' = sentAt
        BY <1>3 DEF ExchangeAccepted, loginVars, idpVars
    <2> QED
        BY <2>1, <2>2, <2>3, MoveKeepsReplayInv
<1>4. CASE ExchangeRefused(c)
    <2>1. /\ cb[c].pc \notin {"idle", "rejected"}
          /\ "failed" \in CallbackPcs
          /\ "failed" \in InsidePcs => cb[c].pc \in InsidePcs \cup {"del"} /\ cb[c].found
          /\ "failed" \notin {"get", "del"}
        BY <1>1, <1>4 DEF ExchangeRefused, CallbackGoes, InsideFound, CallbackPcs, InsidePcs
    <2>2. cb' = [cb EXCEPT ![c].pc = "failed"]
        BY <1>4 DEF ExchangeRefused, CallbackGoes
    <2>3. /\ stored' \subseteq stored /\ issued' = issued
          /\ spent' \subseteq spent \cup {cb[c].code}
          /\ consumed' = consumed
          /\ now' = now /\ redis' = redis /\ expiry' = expiry
          /\ login' = login /\ sentAt' = sentAt
        BY <1>4 DEF ExchangeRefused, loginVars, idpVars
    <2> QED
        BY <2>1, <2>2, <2>3, MoveKeepsReplayInv
<1>5. CASE Verified(c)
    <2>1. /\ cb[c].pc \notin {"idle", "rejected"}
          /\ "create" \in CallbackPcs
          /\ "create" \in InsidePcs => cb[c].pc \in InsidePcs \cup {"del"} /\ cb[c].found
          /\ "create" \notin {"get", "del"}
        BY <1>1, <1>5 DEF Verified, CallbackGoes, InsideFound, CallbackPcs, InsidePcs
    <2>2. cb' = [cb EXCEPT ![c].pc = "create"]
        BY <1>5 DEF Verified, CallbackGoes
    <2>3. /\ stored' \subseteq stored /\ issued' = issued
          /\ spent' \subseteq spent \cup {cb[c].code}
          /\ consumed' = consumed
          /\ now' = now /\ redis' = redis /\ expiry' = expiry
          /\ login' = login /\ sentAt' = sentAt
        BY <1>5 DEF Verified, loginVars, idpVars
    <2> QED
        BY <2>1, <2>2, <2>3, MoveKeepsReplayInv
<1>6. CASE Denied(c)
    <2>1. /\ cb[c].pc \notin {"idle", "rejected"}
          /\ "failed" \in CallbackPcs
          /\ "failed" \in InsidePcs => cb[c].pc \in InsidePcs \cup {"del"} /\ cb[c].found
          /\ "failed" \notin {"get", "del"}
        BY <1>1, <1>6 DEF Denied, CallbackGoes, InsideFound, CallbackPcs, InsidePcs
    <2>2. cb' = [cb EXCEPT ![c].pc = "failed"]
        BY <1>6 DEF Denied, CallbackGoes
    <2>3. /\ stored' \subseteq stored /\ issued' = issued
          /\ spent' \subseteq spent \cup {cb[c].code}
          /\ consumed' = consumed
          /\ now' = now /\ redis' = redis /\ expiry' = expiry
          /\ login' = login /\ sentAt' = sentAt
        BY <1>6 DEF Denied, loginVars, idpVars
    <2> QED
        BY <2>1, <2>2, <2>3, MoveKeepsReplayInv
<1>7. CASE Admit(c)
    <2>1. /\ cb[c].pc \notin {"idle", "rejected"}
          /\ "admitted" \in CallbackPcs
          /\ "admitted" \in InsidePcs => cb[c].pc \in InsidePcs \cup {"del"} /\ cb[c].found
          /\ "admitted" \notin {"get", "del"}
        BY <1>1, <1>7 DEF Admit, CallbackGoes, InsideFound, CallbackPcs, InsidePcs
    <2>2. cb' = [cb EXCEPT ![c].pc = "admitted"]
        BY <1>7 DEF Admit, CallbackGoes
    <2>3. /\ stored' \subseteq stored /\ issued' = issued
          /\ spent' \subseteq spent \cup {cb[c].code}
          /\ consumed' = consumed
          /\ now' = now /\ redis' = redis /\ expiry' = expiry
          /\ login' = login /\ sentAt' = sentAt
        BY <1>7 DEF Admit, loginVars, idpVars
    <2> QED
        BY <2>1, <2>2, <2>3, MoveKeepsReplayInv
<1>8. CASE CallbackFails(c)
    <2>1. /\ cb[c].pc \notin {"idle", "rejected"}
          /\ "failed" \in CallbackPcs
          /\ "failed" \notin InsidePcs
          /\ "failed" \notin {"get", "del"}
        BY <1>8 DEF CallbackFails, CallbackPcs, InsidePcs
    <2>2. cb' = [cb EXCEPT ![c].pc = "failed"]
        BY <1>8 DEF CallbackFails
    <2>3. /\ stored' \subseteq stored /\ issued' = issued
          /\ spent' \subseteq spent \cup {cb[c].code}
          /\ consumed \subseteq consumed'
          /\ consumed' \subseteq consumed \cup {StateOf(cb[c].code)}
          /\ consumed' # consumed => StateOf(cb[c].code) \notin stored'
          /\ now' = now /\ redis' = redis /\ expiry' = expiry
          /\ login' = login /\ sentAt' = sentAt
        BY <1>8 DEF CallbackFails, loginVars
    <2> QED
        BY <2>1, <2>2, <2>3, MoveKeepsReplayInv
<1> QED
    BY <1>2, <1>3, <1>4, <1>5, <1>6, <1>7, <1>8

\* A crash cuts callbacks and logins off and leaves Redis alone.
LEMMA CrashReplayInv == ASSUME LoginAssumption, ReplayInv, Crash PROVE ReplayInv'
<1> USE DEF ReplayInv, TypeOK
<1>1. \A c \in Callbacks :
        /\ cb'[c] \in Callback
        /\ \/ cb'[c] = cb[c]
           \/ /\ cb'[c].pc = "gone" /\ cb'[c].code = cb[c].code
              /\ cb[c].pc \notin {"idle", "rejected"}
    <2> SUFFICES ASSUME NEW c \in Callbacks
                 PROVE  /\ cb'[c] \in Callback
                        /\ \/ cb'[c] = cb[c]
                           \/ /\ cb'[c].pc = "gone" /\ cb'[c].code = cb[c].code
                              /\ cb[c].pc \notin {"idle", "rejected"}
        OBVIOUS
    <2>1. cb[c] \in [pc : CallbackPcs, code : Codes \cup {NoCode},
                     found : BOOLEAN, late : BOOLEAN, age : Int]
        BY DEF Callback
    <2>2. /\ [cb[c] EXCEPT !.pc = "gone"] \in Callback
          /\ [cb[c] EXCEPT !.pc = "gone"].pc = "gone"
          /\ [cb[c] EXCEPT !.pc = "gone"].code = cb[c].code
        BY <2>1 DEF Callback, CallbackPcs
    <2>3. cb'[c] = IF cb[c].pc \in {"get", "del", "exchange", "verify", "create"}
                   THEN [cb[c] EXCEPT !.pc = "gone"] ELSE cb[c]
        BY DEF Crash
    <2> QED
        BY <2>1, <2>2, <2>3 DEF Callback
<1>2. /\ cb' \in [Callbacks -> Callback]
      /\ login' \in [Logins -> LoginPcs]
    BY <1>1 DEF Crash, LoginPcs
<1>3. TypeOK'
    BY <1>2 DEF Crash, idpVars
<1>4. \A s \in Logins : login'[s] = login[s] \/ /\ login'[s] = "failed"
                                                /\ login[s] # "sent"
    BY DEF Crash
<1>5. SentIsTimed' /\ NothingOverdue'
    BY <1>4 DEF Crash, SentIsTimed, NothingOverdue
<1>6. CodesFollowRedirect'
    <2>1. \A code \in issued : StateOf(code) \in Logins
        BY CodeType
    <2> QED
        BY <1>1, <1>4, <2>1 DEF Crash, idpVars, CodesFollowRedirect
<1>7. LookupsFresh' /\ InsideFound'
    BY <1>1 DEF LookupsFresh, InsideFound, InsidePcs
<1> QED
    BY <1>3, <1>5, <1>6, <1>7

\* As time passes Redis reaps what is due.
LEMMA TickReplayInv == ASSUME LoginAssumption, ReplayInv, Tick PROVE ReplayInv'
<1> USE DEF ReplayInv, TypeOK
<1>1. TypeOK'
    BY DEF Tick, loginVars, idpVars
<1>2. SentIsTimed'
    BY DEF Tick, loginVars, SentIsTimed, LoginAssumption, NoTtl
<1>3. NothingOverdue'
    BY DEF Tick, NothingOverdue
<1>4. CodesFollowRedirect'
    BY DEF Tick, loginVars, idpVars, CodesFollowRedirect
<1>5. LookupsFresh' /\ InsideFound'
    BY DEF Tick, LookupsFresh, InsideFound
<1> QED
    BY <1>1, <1>2, <1>3, <1>4, <1>5

-------------------------------------------------------------------------------

\* Every step preserves the invariant.
LEMMA StepReplayInv == ASSUME LoginAssumption, ReplayInv, [Next]_vars PROVE ReplayInv'
<1>1. ASSUME NEW s \in Logins, LoginStep(s) PROVE ReplayInv'
    BY <1>1, LoginStepReplayInv
<1>2. ASSUME NEW code \in Codes, IdpReturns(code) PROVE ReplayInv'
    BY <1>2, IdpReturnsReplayInv
<1>3. ASSUME NEW c \in Callbacks, TurnedAway(c) PROVE ReplayInv'
    BY <1>3, TurnedAwayReplayInv
<1>4. ASSUME NEW c \in Callbacks, NEW code \in Codes, Arrive(c, code) PROVE ReplayInv'
    BY <1>4, ArriveReplayInv
<1>5. ASSUME NEW c \in Callbacks, CallbackStep(c) \/ CallbackFails(c) PROVE ReplayInv'
    BY <1>5, ConsumeGetReplayInv, CallbackMovesReplayInv DEF CallbackStep
<1>6. ASSUME Crash PROVE ReplayInv'
    BY <1>6, CrashReplayInv
<1>7. ASSUME Tick PROVE ReplayInv'
    BY <1>7, TickReplayInv
<1>8. ASSUME Hang \/ Resume PROVE ReplayInv'
    BY <1>8 DEF Hang, Resume, loginVars, idpVars, ReplayInv, TypeOK, SentIsTimed,
                NothingOverdue, CodesFollowRedirect, LookupsFresh, InsideFound
<1>9. ASSUME UNCHANGED vars PROVE ReplayInv'
    BY <1>9 DEF vars, loginVars, idpVars, ReplayInv, TypeOK, SentIsTimed, NothingOverdue,
                CodesFollowRedirect, LookupsFresh, InsideFound
<1> QED
    BY <1>1, <1>2, <1>3, <1>4, <1>5, <1>6, <1>7, <1>8, <1>9 DEF Next

\* No step takes a record away before it is due, unless it consumes it.
LEMMA StepKeepsUntilDue ==
    ASSUME LoginAssumption, ReplayInv, KeptUntilDue, [Next]_vars
    PROVE  KeptUntilDue'
<1> USE DEF ReplayInv, TypeOK, KeptUntilDue, loginVars, idpVars
<1>1. ASSUME NEW s \in Logins, LoginStep(s) PROVE KeptUntilDue'
    <2>1. CASE LoginStart(s)
        BY <2>1 DEF LoginStart, LoginGoes
    <2>2. CASE PutSet(s)
        BY <2>2 DEF PutSet, LoginGoes
    <2>3. CASE PutExpire(s)
        BY <2>3 DEF PutExpire, LoginGoes, LoginAssumption, NoTtl
    <2>4. CASE Redirect(s)
        BY <2>4 DEF Redirect, LoginGoes
    <2>5. CASE LoginFails(s)
        BY <2>5 DEF LoginFails
    <2> QED
        BY <1>1, <2>1, <2>2, <2>3, <2>4, <2>5 DEF LoginStep
<1>2. ASSUME UNCHANGED <<now, expiry, login>>,
             stored \cup consumed \subseteq stored' \cup consumed',
             \A s \in Logins : login[s] = "expire" =>
                                 (s \in stored => s \in stored')
      PROVE  KeptUntilDue'
    BY <1>2
<1>3. ASSUME NEW code \in Codes, IdpReturns(code) PROVE KeptUntilDue'
    BY <1>2, <1>3 DEF IdpReturns
<1>4. ASSUME NEW c \in Callbacks,
             \/ TurnedAway(c) \/ \E code \in Codes : Arrive(c, code)
             \/ CallbackStep(c) \/ CallbackFails(c)
      PROVE  KeptUntilDue'
    <2>1. cb[c].pc = "del" => /\ StateOf(cb[c].code) \in Logins
                              /\ login[StateOf(cb[c].code)] = "sent"
        BY CodeType DEF CodesFollowRedirect
    <2>2. UNCHANGED <<now, expiry, login>>
        BY <1>4 DEF TurnedAway, Arrive, CallbackStep, ConsumeGet, ConsumeDel,
                    ExchangeAccepted, ExchangeRefused, Verified, Denied, Admit,
                    CallbackFails
    <2>3. \/ UNCHANGED <<stored, consumed>>
          \/ /\ cb[c].pc = "del"
             /\ stored' = stored \ {StateOf(cb[c].code)}
             /\ consumed' = consumed \cup {StateOf(cb[c].code)}
        BY <1>4 DEF TurnedAway, Arrive, CallbackStep, CallbackGoes, ConsumeGet,
                    ConsumeDel, ExchangeAccepted, ExchangeRefused, Verified,
                    Denied, Admit, CallbackFails
    <2> QED
        BY <1>2, <2>1, <2>2, <2>3
<1>5. CASE Crash
    BY <1>5 DEF Crash
<1>6. CASE Tick
    BY <1>6 DEF Tick, LoginAssumption
<1>7. CASE Hang \/ Resume
    BY <1>7 DEF Hang, Resume
<1>8. CASE UNCHANGED vars
    BY <1>8 DEF vars
<1> QED
    BY <1>1, <1>3, <1>4, <1>5, <1>6, <1>7, <1>8 DEF Next

\* The invariant of the login handshake holds in every reachable state.
THEOREM Invariance == Spec => []IInv
<1>1. Init => IInv
    BY LoginAssumption, InitReplayInv DEF Init, KeptUntilDue, IInv
<1>2. IInv /\ [Next]_vars => IInv'
    BY LoginAssumption, StepReplayInv, StepKeepsUntilDue DEF IInv
<1> QED
    BY <1>1, <1>2, PTL DEF Spec

\* preSessionStore.ts:40-51 lets no callback in with a state older than the TTL,
\* although SET and EXPIRE are two commands: a browser learns the state only
\* after both.
THEOREM StaleRejected == Spec => []StaleStateRejected
<1>1. IInv => StaleStateRejected
    BY DEF IInv, ReplayInv, InsideFound, LookupsFresh, StaleStateRejected
<1> QED
    BY <1>1, Invariance, PTL

\* preSessionStore.ts:40-51: once a consume has completed, no later replay of
\* its state gets past consume.
THEOREM ReplayRejected == Spec => []LateReplayRejected
<1>1. IInv => LateReplayRejected
    BY DEF IInv, ReplayInv, InsideFound, LookupsFresh, LateReplayRejected
<1> QED
    BY <1>1, Invariance, PTL

\* A browser sent to the IdP finds its state on return until the TTL counted
\* from put is over, unless a callback has consumed it: no failure, restart or
\* other login takes it away.
THEOREM StateKept == Spec => []RedirectedIsStored
<1>1. IInv => RedirectedIsStored
    BY DEF IInv, KeptUntilDue, RedirectedIsStored
<1> QED
    BY <1>1, Invariance, PTL
===============================================================================
