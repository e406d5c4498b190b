-------------------------- MODULE SessionStoreProofs --------------------------
(***************************************************************************)
(* Proofs about SessionStore, for any set of requests, any lifetimes, any  *)
(* faults and an unbounded clock up to MaxTime.                            *)
(***************************************************************************)
EXTENDS SessionStore, TLAPS

\* The TTL slideTtlSeconds computes is positive and never ends before one of
\* the record's two windows does.
LEMMA SlideTtlBounds ==
    ASSUME NEW rec, rec.createdAt \in Nat, now \in Nat
    PROVE  /\ SlideTtl(rec) \in Nat \ {0}
           /\ \/ now + SlideTtl(rec) >= now + Idle
              \/ now + SlideTtl(rec) >= rec.createdAt + Abs
  BY SessionAssumption, SMT DEF SlideTtl

\* A copy touched, or merged with a refresh, is a record of the same login.
LEMMA CopyKeepsType ==
    ASSUME NEW rec \in Record, now \in Nat,
           NEW tokens, tokens.refresh \in Nat, tokens.tokenExp \in Nat
    PROVE  /\ Touch(rec) \in Record
           /\ Touch(rec).createdAt = rec.createdAt
           /\ Touch(rec).lastSeenAt = now
           /\ Merge(rec, tokens) \in Record
           /\ Merge(rec, tokens).createdAt = rec.createdAt
           /\ Merge(rec, tokens).lastSeenAt = rec.lastSeenAt
  BY DEF Touch, Merge, Record

\* The session starts with no record, no request and no copy.
LEMMA InitCopyInv == Init => CopyInv
<1> SUFFICES ASSUME Init PROVE CopyInv
  OBVIOUS
<1> USE DEF Init
<1>1. TypeOK
  BY Zenon DEF TypeOK, NoTtl, Label
<1>2. CopiesFaithful
  BY SMT DEF CopiesFaithful
<1>3. CookieFirst
  BY SMT DEF CookieFirst
<1>4. HoldsRecord
  BY SMT DEF HoldsRecord, InFlight, Copying, Persisting
<1>5. TtlCoversWindows /\ TtlUnlessInterrupted /\ NoReviver
  BY SMT DEF TtlCoversWindows, TtlUnlessInterrupted, NoReviver
<1>6. QED
  BY <1>1, <1>2, <1>3, <1>4, <1>5 DEF CopyInv

\* A crash keeps the record and every copy, and marks a SET without EXPIRE.
LEMMA CrashCopyInv ==
    ASSUME NEW more \in SUBSET Requests, CopyInv, Crash(more),
           more = {} \/ login = "cookie"
    PROVE  CopyInv'
<1> USE SessionAssumption
        DEF CopyInv, TypeOK, CopiesFaithful, Faithful, CookieFirst, HoldsRecord,
            TtlCoversWindows, TtlUnlessInterrupted, NoReviver, WriterPending,
            InFlight, Copying, Persisting, Ended, Label, NoTtl,
            redisVars, requestVars, historyVars
<1>1. interrupted' = (\/ interrupted
                      \/ login = "set"
                      \/ \E r \in Requests : pc[r] \in Persisting)
  BY Zenon DEF Crash
<1>2. /\ interrupted' \in BOOLEAN
      /\ faulted' \in BOOLEAN
  BY <1>1, Zenon DEF Crash
<1>3. TypeOK'
  BY <1>2, SMT DEF Crash
<1>4. /\ CopiesFaithful'
      /\ CookieFirst'
      /\ HoldsRecord'
  <2>1. CopiesFaithful' /\ HoldsRecord'
    BY SMT DEF Crash
  <2>2. CookieFirst'
    BY SMT DEF Crash
  <2>3. QED
    BY <2>1, <2>2
<1>5. TtlCoversWindows' /\ NoReviver'
  BY SMT DEF Crash
<1>6. TtlUnlessInterrupted'
  <2>1. store' = store /\ expireAt' = expireAt
    BY DEF Crash
  <2>2. QED
    BY <1>1, <2>1, Zenon DEF TtlUnlessInterrupted, WriterPending
<1>7. QED
  BY <1>3, <1>4, <1>5, <1>6

\* Every step keeps the invariant; one step of the proof per action.
LEMMA StepCopyInv == CopyInv /\ [Next]_vars => CopyInv'
<1> SUFFICES ASSUME CopyInv, [Next]_vars PROVE CopyInv'
  OBVIOUS
<1> USE SessionAssumption
        DEF CopyInv, TypeOK, CopiesFaithful, Faithful, CookieFirst, HoldsRecord,
            TtlCoversWindows, TtlUnlessInterrupted, NoReviver, WriterPending,
            InFlight, Copying, Persisting, Ended, Label, NoTtl,
            redisVars, requestVars, historyVars, RedisSet, RedisDel,
            RedisExpire, Goto
<1>1. CASE CreateSet
  <2> DEFINE rec == [createdAt |-> now, lastSeenAt |-> now,
                     refresh |-> idpRefresh, tokenExp |-> now + TokenLife]
  <2>1. rec \in Record /\ rec.createdAt = now /\ rec.lastSeenAt = now
    BY SMT DEF Record
  <2>2. store' = rec
    BY <1>1 DEF CreateSet
  <2> HIDE DEF rec
  <2>3. TypeOK'
    BY <1>1, <2>1, <2>2, SMT DEF CreateSet
  <2>4. CopiesFaithful' /\ CookieFirst' /\ HoldsRecord'
    BY <1>1, <2>1, <2>2, SMT DEF CreateSet
  <2>5. TtlCoversWindows' /\ TtlUnlessInterrupted' /\ NoReviver'
    BY <1>1, <2>1, <2>2, SMT DEF CreateSet
  <2>6. QED
    BY <2>3, <2>4, <2>5
<1>2. CASE CreateExpire
  <2>1. SlideTtl([createdAt |-> loginAt]) \in Nat \ {0}
    BY SlideTtlBounds, SMT
  <2>2. store # NoRecord => store.lastSeenAt \in Nat /\ store.createdAt = loginAt
    BY SMT DEF Record
  <2>3. \/ now + SlideTtl([createdAt |-> loginAt]) >= now + Idle
        \/ now + SlideTtl([createdAt |-> loginAt]) >= loginAt + Abs
    BY SlideTtlBounds, SMT
  <2>4. TypeOK'
    BY <1>2, <2>1, SMT DEF CreateExpire
  <2>5. CopiesFaithful' /\ CookieFirst' /\ HoldsRecord' /\ NoReviver'
    BY <1>2, SMT DEF CreateExpire
  <2>6. TtlCoversWindows'
    BY <1>2, <2>1, <2>2, <2>3, SMT DEF CreateExpire
  <2>7. TtlUnlessInterrupted'
    BY <1>2, <2>1, SMT DEF CreateExpire
  <2>8. QED
    BY <2>4, <2>5, <2>6, <2>7
<1>3. CASE CreateFails
  <2>1. interrupted' = (interrupted \/ login = "set")
    BY <1>3, Zenon DEF CreateFails
  <2>2. TypeOK' /\ CopiesFaithful' /\ CookieFirst' /\ HoldsRecord'
    BY <1>3, SMT DEF CreateFails
  <2>3. TtlCoversWindows' /\ NoReviver'
    BY <1>3, SMT DEF CreateFails
  <2>4. TtlUnlessInterrupted'
    <3>1. CASE interrupted'
      BY <3>1
    <3>2. CASE ~interrupted'
      <4>1. ~interrupted /\ ~(login = "set")
        BY <2>1, <3>2, Zenon
      <4>2. QED
        BY <1>3, <4>1, SMT DEF CreateFails
    <3>3. QED
      BY <3>1, <3>2
  <2>5. QED
    BY <2>2, <2>3, <2>4
<1>4. CASE Tick
  BY <1>4, SMT DEF Tick
<1>5. CASE LoseConnection
  BY <1>5, SMT DEF LoseConnection
<1>6. CASE Kill
  <2>1. Crash({})
    BY <1>6 DEF Kill
  <2>2. QED
    BY <2>1, CrashCopyInv
<1>7. ASSUME NEW r \in Requests, GetRead(r) PROVE CopyInv'
  BY <1>7, SMT DEF GetRead
<1>8. ASSUME NEW r \in Requests, GetExpired(r) PROVE CopyInv'
  BY <1>8, SMT DEF GetExpired
<1>9. ASSUME NEW r \in Requests, GetSet(r) PROVE CopyInv'
  <2>1. /\ held[r] \in Record
        /\ Faithful(held[r])
    BY <1>9, SMT DEF GetSet
  <2>2. /\ Touch(held[r]) \in Record
        /\ Touch(held[r]).createdAt = loginAt
        /\ Touch(held[r]).lastSeenAt = now
    BY <2>1, SMT DEF Touch, Record
  <2>3. /\ store' = Touch(held[r])
        /\ held' = [held EXCEPT ![r] = Touch(held[r])]
    BY <1>9 DEF GetSet
  <2>4. TypeOK'
    BY <1>9, <2>2, <2>3, SMT DEF GetSet
  <2>5. CopiesFaithful'
    <3>1. loginAt' = loginAt /\ activity' = now /\ now' = now
      BY <1>9 DEF GetSet
    <3>2. loginAt <= now
      BY SMT
    <3>3. ASSUME NEW q \in Requests, held'[q] # NoRecord
          PROVE  Faithful(held[q])' 
      <4>1. CASE q = r
        BY <2>2, <2>3, <3>1, <4>1, SMT
      <4>2. CASE q # r
        <5>1. held'[q] = held[q] /\ Faithful(held[q])
          BY <2>3, <3>3, <4>2, SMT
        <5>2. held[q].lastSeenAt \in Nat
          BY <3>3, <5>1, SMT DEF Record
        <5>3. QED
          BY <3>1, <5>1, <5>2, SMT
      <4>3. QED
        BY <4>1, <4>2
    <3>4. QED
      BY <2>2, <2>3, <3>1, <3>2, <3>3, SMT
  <2>6. CookieFirst' /\ HoldsRecord'
    BY <1>9, <2>2, <2>3, SMT DEF GetSet
  <2>7. TtlCoversWindows' /\ TtlUnlessInterrupted'
    BY <1>9, SMT DEF GetSet
  <2>8. NoReviver'
    BY <1>9, SMT DEF GetSet
  <2>9. QED
    BY <2>4, <2>5, <2>6, <2>7, <2>8
<1>10. ASSUME NEW r \in Requests, GetExpire(r) PROVE CopyInv'
  <2>0. held[r] \in Record /\ held[r].createdAt = loginAt
    BY <1>10, SMT DEF GetExpire, Record
  <2>1. SlideTtl(held[r]) \in Nat \ {0}
    BY <2>0, SlideTtlBounds, SMT DEF Record
  <2>2. store # NoRecord => store.lastSeenAt \in Nat /\ store.createdAt = loginAt
    BY SMT DEF Record
  <2>3. \/ now + SlideTtl(held[r]) >= now + Idle
        \/ now + SlideTtl(held[r]) >= loginAt + Abs
    BY <2>0, SlideTtlBounds, SMT DEF Record
  <2>4. TypeOK'
    BY <1>10, <2>1, SMT DEF GetExpire
  <2>5. CopiesFaithful' /\ CookieFirst' /\ HoldsRecord' /\ NoReviver'
    BY <1>10, SMT DEF GetExpire
  <2>6. TtlCoversWindows'
    BY <1>10, <2>1, <2>2, <2>3, SMT DEF GetExpire
  <2>7. TtlUnlessInterrupted'
    BY <1>10, <2>1, SMT DEF GetExpire
  <2>8. QED
    BY <2>4, <2>5, <2>6, <2>7
<1>11. ASSUME NEW r \in Requests, GetRejects(r) PROVE CopyInv'
  <2>1. Crash({r})
    BY <1>11 DEF GetRejects
  <2>2. login = "cookie"
    BY <1>11, SMT DEF GetRejects
  <2>3. QED
    BY <2>1, <2>2, CrashCopyInv
<1>12. ASSUME NEW r \in Requests, PassFresh(r) PROVE CopyInv'
  BY <1>12, SMT DEF PassFresh
<1>13. ASSUME NEW r \in Requests, IdpAccepts(r) PROVE CopyInv'
  <2>1. held[r] \in Record
    BY <1>13, SMT DEF IdpAccepts
  <2> DEFINE new == [held[r] EXCEPT !.refresh = idpRefresh + 1]
  <2>2. /\ new \in Record
        /\ new.createdAt = held[r].createdAt
        /\ new.lastSeenAt = held[r].lastSeenAt
    BY <2>1, SMT DEF Record
  <2>3. held' = [held EXCEPT ![r] = new]
    BY <1>13 DEF IdpAccepts
  <2> HIDE DEF new
  <2>4. TypeOK'
    BY <1>13, <2>2, <2>3, SMT DEF IdpAccepts
  <2>5. CopiesFaithful' /\ CookieFirst' /\ HoldsRecord'
    BY <1>13, <2>2, <2>3, SMT DEF IdpAccepts
  <2>6. TtlCoversWindows' /\ TtlUnlessInterrupted' /\ NoReviver'
    BY <1>13, SMT DEF IdpAccepts
  <2>7. QED
    BY <2>4, <2>5, <2>6
<1>14. ASSUME NEW r \in Requests, IdpRefuses(r) PROVE CopyInv'
  BY <1>14, SMT DEF IdpRefuses
<1>15. ASSUME NEW r \in Requests, IdpFails(r) PROVE CopyInv'
  BY <1>15, SMT DEF IdpFails
<1>16. ASSUME NEW r \in Requests, UpdateRead(r) PROVE CopyInv'
  <2>1. CASE store = NoRecord
    BY <1>16, <2>1, SMT DEF UpdateRead
  <2>2. CASE store # NoRecord
    <3> DEFINE tokens == [refresh  |-> held[r].refresh,
                          tokenExp |-> now + TokenLife]
               new == Merge(store, tokens)
    <3>1. held[r] \in Record /\ store \in Record
      BY <1>16, <2>2, SMT DEF UpdateRead
    <3>2. tokens.refresh \in Nat /\ tokens.tokenExp \in Nat
      BY <3>1, SMT DEF Record
    <3>3. /\ new \in Record
          /\ new.createdAt = store.createdAt
          /\ new.lastSeenAt = store.lastSeenAt
      BY <3>1, <3>2, CopyKeepsType
    <3>4. held' = [held EXCEPT ![r] = new]
      BY <1>16, <2>2 DEF UpdateRead
    <3> HIDE DEF new
    <3>5. TypeOK'
      BY <1>16, <2>2, <3>3, <3>4, SMT DEF UpdateRead
    <3>6. CopiesFaithful' /\ CookieFirst' /\ HoldsRecord'
      BY <1>16, <2>2, <3>3, <3>4, SMT DEF UpdateRead
    <3>7. TtlCoversWindows' /\ TtlUnlessInterrupted' /\ NoReviver'
      BY <1>16, <2>2, SMT DEF UpdateRead
    <3>8. QED
      BY <3>5, <3>6, <3>7
  <2>3. QED
    BY <2>1, <2>2
<1>17. ASSUME NEW r \in Requests, UpdateSet(r) PROVE CopyInv'
  <2>1. /\ held[r] \in Record
        /\ Faithful(held[r])
    BY <1>17, SMT DEF UpdateSet
  <2>2. /\ Touch(held[r]) \in Record
        /\ Touch(held[r]).createdAt = loginAt
        /\ Touch(held[r]).lastSeenAt = now
    BY <2>1, SMT DEF Touch, Record
  <2>3. /\ store' = Touch(held[r])
        /\ held' = [held EXCEPT ![r] = Touch(held[r])]
    BY <1>17 DEF UpdateSet
  <2>4. TypeOK'
    BY <1>17, <2>2, <2>3, SMT DEF UpdateSet
  <2>5. CopiesFaithful'
    <3>1. loginAt' = loginAt /\ activity' = now /\ now' = now
      BY <1>17 DEF UpdateSet
    <3>2. loginAt <= now
      BY SMT
    <3>3. ASSUME NEW q \in Requests, held'[q] # NoRecord
          PROVE  Faithful(held[q])' 
      <4>1. CASE q = r
        BY <2>2, <2>3, <3>1, <4>1, SMT
      <4>2. CASE q # r
        <5>1. held'[q] = held[q] /\ Faithful(held[q])
          BY <2>3, <3>3, <4>2, SMT
        <5>2. held[q].lastSeenAt \in Nat
          BY <3>3, <5>1, SMT DEF Record
        <5>3. QED
          BY <3>1, <5>1, <5>2, SMT
      <4>3. QED
        BY <4>1, <4>2
    <3>4. QED
      BY <2>2, <2>3, <3>1, <3>2, <3>3, SMT
  <2>6. CookieFirst' /\ HoldsRecord'
    BY <1>17, <2>2, <2>3, SMT DEF UpdateSet
  <2>7. TtlCoversWindows' /\ TtlUnlessInterrupted'
    BY <1>17, SMT DEF UpdateSet
  <2>8. NoReviver'
    BY <1>17, SMT DEF UpdateSet
  <2>9. QED
    BY <2>4, <2>5, <2>6, <2>7, <2>8
<1>18. ASSUME NEW r \in Requests, UpdateExpire(r) PROVE CopyInv'
  <2>0. held[r] \in Record /\ held[r].createdAt = loginAt
    BY <1>18, SMT DEF UpdateExpire, Record
  <2>1. SlideTtl(held[r]) \in Nat \ {0}
    BY <2>0, SlideTtlBounds, SMT DEF Record
  <2>2. store # NoRecord => store.lastSeenAt \in Nat /\ store.createdAt = loginAt
    BY SMT DEF Record
  <2>3. \/ now + SlideTtl(held[r]) >= now + Idle
        \/ now + SlideTtl(held[r]) >= loginAt + Abs
    BY <2>0, SlideTtlBounds, SMT DEF Record
  <2>4. TypeOK'
    BY <1>18, <2>1, SMT DEF UpdateExpire
  <2>5. CopiesFaithful' /\ CookieFirst' /\ HoldsRecord' /\ NoReviver'
    BY <1>18, SMT DEF UpdateExpire
  <2>6. TtlCoversWindows'
    BY <1>18, <2>1, <2>2, <2>3, SMT DEF UpdateExpire
  <2>7. TtlUnlessInterrupted'
    BY <1>18, <2>1, SMT DEF UpdateExpire
  <2>8. QED
    BY <2>4, <2>5, <2>6, <2>7
<1>19. ASSUME NEW r \in Requests, UpdateFails(r) PROVE CopyInv'
  <2>1. interrupted' = (interrupted \/ pc[r] = "updated")
    BY <1>19, Zenon DEF UpdateFails
  <2>2. TypeOK' /\ CopiesFaithful' /\ CookieFirst' /\ HoldsRecord'
    BY <1>19, SMT DEF UpdateFails
  <2>3. TtlCoversWindows' /\ NoReviver'
    BY <1>19, SMT DEF UpdateFails
  <2>4. TtlUnlessInterrupted'
    <3>1. CASE interrupted'
      BY <3>1
    <3>2. CASE ~interrupted'
      <4>1. ~interrupted /\ ~(pc[r] = "updated")
        BY <2>1, <3>2, Zenon
      <4>2. QED
        BY <1>19, <4>1, SMT DEF UpdateFails
    <3>3. QED
      BY <3>1, <3>2
  <2>5. QED
    BY <2>2, <2>3, <2>4
<1>20. ASSUME NEW r \in Requests, DestroyAfterFailure(r) PROVE CopyInv'
  BY <1>20, SMT DEF DestroyAfterFailure
<1>21. ASSUME NEW r \in Requests, DestroyFails(r) PROVE CopyInv'
  BY <1>21, SMT DEF DestroyFails
<1>22. ASSUME NEW r \in Requests, Logout(r) PROVE CopyInv'
  BY <1>22, SMT DEF Logout
<1>23. ASSUME NEW r \in Requests, LogoutFails(r) PROVE CopyInv'
  BY <1>23, SMT DEF LogoutFails
<1>24. CASE UNCHANGED vars
  BY <1>24, SMT DEF vars
<1>25. QED
  BY <1>1, <1>2, <1>3, <1>4, <1>5, <1>6, <1>7, <1>8, <1>9, <1>10, <1>11, <1>12, <1>13, <1>14, <1>15, <1>16, <1>17, <1>18, <1>19, <1>20, <1>21, <1>22, <1>23, <1>24
     DEF Next, Create, Environment, Get, Refresh, Update, Destroy

-------------------------------------------------------------------------------

\* The first request finds the token the login was given.
LEMMA InitTokenInHand == Init => TokenInHand
  BY SMT DEF Init, TokenInHand, Busy, InFlight, Copying, Persisting

\* Every step keeps the newest refresh token in hand: only a second request or
\* a fault can put an older one before the IdP.
LEMMA StepTokenInHand == CopyInv /\ TokenInHand /\ [Next]_vars => TokenInHand'
<1> SUFFICES ASSUME CopyInv, TokenInHand, [Next]_vars, ~faulted', ~crowded'
             PROVE  TokenInHand'
  BY DEF TokenInHand
<1> USE DEF TypeOK, TokenInHand, Busy, InFlight, Copying, Persisting, Label,
            Ended, Goto, RedisSet, RedisDel, RedisExpire,
            redisVars, requestVars, historyVars
<1>0. /\ TypeOK /\ HoldsRecord /\ CookieFirst
      /\ \A r \in Requests : Busy(r) => held[r] \in Record
  BY SMT DEF CopyInv, HoldsRecord
<1>1. CASE CreateSet
  <2> DEFINE rec == [createdAt |-> now, lastSeenAt |-> now,
                     refresh |-> idpRefresh, tokenExp |-> now + TokenLife]
  <2>1. rec.refresh = idpRefresh /\ store' = rec
    BY <1>1 DEF CreateSet
  <2> HIDE DEF rec
  <2>2. QED
    BY <1>0, <1>1, <2>1, SMT DEF CreateSet
<1>2. CASE CreateExpire
  BY <1>0, <1>2, SMT DEF CreateExpire
<1>3. CASE CreateFails
  BY <1>0, <1>3, SMT DEF CreateFails
<1>4. CASE Tick
  BY <1>0, <1>4, SMT DEF Tick
<1>5. CASE LoseConnection
  BY <1>5 DEF LoseConnection
<1>6. ASSUME NEW more, Crash(more) PROVE FALSE
  BY <1>6 DEF Crash
<1>7. ASSUME NEW r \in Requests, GetRead(r) PROVE TokenInHand'
  <2>1. ~crowded /\ \A q \in Requests : ~Busy(q)
    BY <1>7, Zenon DEF GetRead
  <2>2. QED
    BY <1>0, <1>7, <2>1, SMT DEF GetRead
<1>8. ASSUME NEW r \in Requests, GetExpired(r) PROVE TokenInHand'
  BY <1>0, <1>8, SMT DEF GetExpired
<1>9. ASSUME NEW r \in Requests, GetSet(r) PROVE TokenInHand'
  <2>1. held[r] \in Record /\ held[r].refresh = idpRefresh
    BY <1>0, <1>9, SMT DEF GetSet
  <2>2. Touch(held[r]).refresh = idpRefresh
    BY <2>1, SMT DEF Touch, Record
  <2>3. QED
    BY <1>0, <1>9, <2>2, SMT DEF GetSet
<1>10. ASSUME NEW r \in Requests, GetExpire(r) PROVE TokenInHand'
  BY <1>0, <1>10, SMT DEF GetExpire
<1>11. ASSUME NEW r \in Requests, PassFresh(r) PROVE TokenInHand'
  BY <1>0, <1>11, SMT DEF PassFresh
<1>12. ASSUME NEW r \in Requests, IdpAccepts(r) PROVE TokenInHand'
  <2> DEFINE new == [held[r] EXCEPT !.refresh = idpRefresh + 1]
  <2>1. held[r] \in Record
    BY <1>0, <1>12, SMT DEF IdpAccepts
  <2>2. new.refresh = idpRefresh'
    BY <1>12, <2>1, SMT DEF IdpAccepts, Record
  <2>3. held' = [held EXCEPT ![r] = new]
    BY <1>12 DEF IdpAccepts
  <2> HIDE DEF new
  <2>4. QED
    BY <1>0, <1>12, <2>2, <2>3, SMT DEF IdpAccepts
<1>13. ASSUME NEW r \in Requests, IdpRefuses(r) PROVE TokenInHand'
  BY <1>0, <1>13, SMT DEF IdpRefuses
<1>14. ASSUME NEW r \in Requests, IdpFails(r) PROVE TokenInHand'
  BY <1>14 DEF IdpFails
<1>15. ASSUME NEW r \in Requests, UpdateRead(r) PROVE TokenInHand'
  <2>1. CASE store = NoRecord
    BY <1>0, <1>15, <2>1, SMT DEF UpdateRead
  <2>2. CASE store # NoRecord
    <3> DEFINE tokens == [refresh  |-> held[r].refresh,
                          tokenExp |-> now + TokenLife]
               new == Merge(store, tokens)
    <3>1. new.refresh = held[r].refresh
      BY <1>0, <2>2, SMT DEF Merge, Record
    <3>2. held' = [held EXCEPT ![r] = new]
      BY <1>15, <2>2 DEF UpdateRead
    <3> HIDE DEF new
    <3>3. QED
      BY <1>0, <1>15, <2>2, <3>1, <3>2, SMT DEF UpdateRead
  <2>3. QED
    BY <2>1, <2>2
<1>16. ASSUME NEW r \in Requests, UpdateSet(r) PROVE TokenInHand'
  <2>1. held[r] \in Record /\ held[r].refresh = idpRefresh
    BY <1>0, <1>16, SMT DEF UpdateSet
  <2>2. Touch(held[r]).refresh = idpRefresh
    BY <2>1, SMT DEF Touch, Record
  <2>3. QED
    BY <1>0, <1>16, <2>2, SMT DEF UpdateSet
<1>17. ASSUME NEW r \in Requests, UpdateExpire(r) PROVE TokenInHand'
  BY <1>0, <1>17, SMT DEF UpdateExpire
<1>18. ASSUME NEW r \in Requests, UpdateFails(r) PROVE TokenInHand'
  BY <1>18, SMT DEF UpdateFails
<1>19. ASSUME NEW r \in Requests, DestroyAfterFailure(r) PROVE TokenInHand'
  BY <1>19, SMT DEF DestroyAfterFailure
<1>20. ASSUME NEW r \in Requests, DestroyFails(r) PROVE TokenInHand'
  BY <1>20, SMT DEF DestroyFails
<1>21. ASSUME NEW r \in Requests, Logout(r) PROVE TokenInHand'
  BY <1>0, <1>21, SMT DEF Logout
<1>22. ASSUME NEW r \in Requests, LogoutFails(r) PROVE TokenInHand'
  BY <1>0, <1>22, SMT DEF LogoutFails
<1>23. CASE UNCHANGED vars
  BY <1>23, SMT DEF vars
<1>24. QED
  BY <1>1, <1>2, <1>3, <1>4, <1>5, <1>6, <1>7, <1>8, <1>9, <1>10, <1>11,
     <1>12, <1>13, <1>14, <1>15, <1>16, <1>17, <1>18, <1>19, <1>20, <1>21,
     <1>22, <1>23
     DEF Next, Create, Environment, Get, GetRejects, Kill, Refresh, Update,
         Destroy

-------------------------------------------------------------------------------

\* The invariant holds in every reachable state.
THEOREM Invariance == Spec => []IInv
  BY InitCopyInv, InitTokenInHand, StepCopyInv, StepTokenInHand, PTL
     DEF Spec, IInv

\* Every variable keeps its type: in particular whatever is stored or held is
\* a whole session record.
THEOREM TypeCorrect == Spec => []TypeOK
<1>1. IInv => TypeOK
  BY DEF IInv, CopyInv
<1>2. QED
  BY <1>1, Invariance, PTL

\* A record without a TTL has a writer about to set one, or a fault has cut
\* some persist() in two.
THEOREM TtlSafe == Spec => []TtlUnlessInterrupted
<1>1. IInv => TtlUnlessInterrupted
  BY DEF IInv, CopyInv
<1>2. QED
  BY <1>1, Invariance, PTL

\* After a DEL that overlapped nobody's read-modify-write the session is gone
\* for good.
THEOREM DeletionFinal == Spec => []OnlyOverlapRevives
<1>1. IInv => OnlyOverlapRevives
  BY DEF IInv, CopyInv, NoReviver, OnlyOverlapRevives
<1>2. QED
  BY <1>1, Invariance, PTL

\* FR-17: with one request at a time and no fault, a refresh never sends the
\* browser back to login, whatever the IdP does with old refresh tokens.
THEOREM RefreshSilent == Spec => []SoloRefreshSilent
<1>1. IInv => SoloRefreshSilent
  BY DEF IInv, TokenInHand, SoloRefreshSilent
<1>2. QED
  BY <1>1, Invariance, PTL

\* Only get's SET takes a request from reading the record to having set it.
LEMMA OnlyGetSetAdmits ==
    ASSUME CopyInv, [Next]_vars, NEW r \in Requests,
           pc[r] = "got", pc'[r] = "set"
    PROVE  GetSet(r)
<1> USE DEF CopyInv, TypeOK, Goto, InFlight, Copying, Persisting, vars,
            requestVars
<1>1. ASSUME Create \/ Tick \/ LoseConnection \/ UNCHANGED vars PROVE FALSE
  BY <1>1 DEF Create, CreateSet, CreateExpire, CreateFails, Tick,
              LoseConnection
<1>2. ASSUME NEW more, Crash(more) PROVE FALSE
  BY <1>2 DEF Crash
<1>3. ASSUME NEW q \in Requests,
             Get(q) \/ Refresh(q) \/ Update(q) \/ Destroy(q)
      PROVE  GetSet(r)
  <2>1. CASE q = r
    BY <1>2, <1>3, <2>1
       DEF Get, GetRead, GetExpired, GetExpire, GetRejects,
           Refresh, PassFresh, IdpAccepts, IdpRefuses, IdpFails,
           Update, UpdateRead, UpdateSet, UpdateExpire, UpdateFails,
           Destroy, DestroyAfterFailure, DestroyFails, Logout, LogoutFails
  <2>2. CASE q # r
    BY <1>2, <1>3, <2>2
       DEF Get, GetRead, GetExpired, GetSet, GetExpire, GetRejects,
           Refresh, PassFresh, IdpAccepts, IdpRefuses, IdpFails,
           Update, UpdateRead, UpdateSet, UpdateExpire, UpdateFails,
           Destroy, DestroyAfterFailure, DestroyFails, Logout, LogoutFails
  <2>3. QED
    BY <2>1, <2>2
<1>4. QED
  BY <1>1, <1>2, <1>3 DEF Next, Environment, Kill

\* FR-19 for every interleaving: get lets a request through only within both
\* windows of the real login and the real last write.
THEOREM LifetimesEnforced == Spec => AdmissionWithinLifetimes
<1>1. ASSUME CopyInv, [Next]_vars, NEW r \in Requests,
             pc[r] = "got", pc'[r] = "set"
      PROVE  now - loginAt <= Abs /\ now - activity <= Idle
  <2>1. GetSet(r)
    BY <1>1, OnlyGetSetAdmits
  <2>2. ~Expired(held[r])
    BY <2>1 DEF GetSet
  <2>3. held[r] \in Record /\ Faithful(held[r])
    BY <1>1, SMT DEF CopyInv, TypeOK, CopiesFaithful, HoldsRecord, InFlight,
                     Copying
  <2>4. now \in Nat /\ activity \in Nat
    BY <1>1 DEF CopyInv, TypeOK
  <2>5. QED
    BY <2>2, <2>3, <2>4, SessionAssumption, SMT DEF Expired, Faithful, Record
<1>2. IInv /\ [Next]_vars =>
        [\A r \in Requests :
           pc[r] = "got" /\ pc'[r] = "set" =>
             /\ now - loginAt <= Abs
             /\ now - activity <= Idle]_vars
  BY <1>1 DEF IInv
<1>3. QED
  BY <1>2, Invariance, PTL DEF Spec, AdmissionWithinLifetimes

\* The TTL never drops a record that the code would still have let through.
THEOREM SafetyNetSpares == Spec => NotReapedWhileValid
<1>1. ASSUME CopyInv, [Next]_vars,
             store # NoRecord, store' = NoRecord, now' # now
      PROVE  \/ now' - store.lastSeenAt >= Idle
             \/ now' - store.createdAt >= Abs
  <2>1. Tick
    BY <1>1 DEF Next, vars, Create, CreateSet, CreateExpire, CreateFails,
           Get, GetRead, GetExpired, GetSet, GetExpire, GetRejects, Crash,
           Refresh, PassFresh, IdpAccepts, IdpRefuses, IdpFails,
           Update, UpdateRead, UpdateSet, UpdateExpire, UpdateFails,
           Destroy, DestroyAfterFailure, DestroyFails, Logout, LogoutFails,
           Environment, LoseConnection, Kill
  <2>2. expireAt # NoTtl /\ expireAt <= now' /\ now' = now + 1
    BY <1>1, <2>1 DEF Tick, redisVars
  <2>3. /\ now \in Nat /\ expireAt \in Nat
        /\ store.lastSeenAt \in Nat /\ store.createdAt \in Nat
    BY <1>1, SMT DEF CopyInv, TypeOK, Record
  <2>4. QED
    BY <1>1, <2>2, <2>3, SessionAssumption, SMT DEF CopyInv, TtlCoversWindows
<1>2. IInv /\ [Next]_vars =>
        [store # NoRecord /\ store' = NoRecord /\ now' # now =>
           \/ now' - store.lastSeenAt >= Idle
           \/ now' - store.createdAt >= Abs]_vars
  BY <1>1 DEF IInv
<1>3. QED
  BY <1>2, Invariance, PTL DEF Spec, NotReapedWhileValid
===============================================================================
