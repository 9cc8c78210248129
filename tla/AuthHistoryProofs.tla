-------------------------- MODULE AuthHistoryProofs --------------------------
(***************************************************************************)
(* The grace window, for any number of requests and accounts: where only   *)
(* rotations have ended sessions of an account, the loser of a rotation    *)
(* finds the new pair as long as the window lasts, and a breach response   *)
(* means a token was reused after it.                                      *)
(***************************************************************************)
EXTENDS AuthHistory, AuthContractProofs

\* A step of the history is one of the system.
LEMMA HistorySteps ==
    ASSUME [HistoryNext]_historyVars
    PROVE  /\ [Next]_vars /\ ended \subseteq ended'
           /\ \A r \in Reqs : Ending(req'[r]) => req'[r].user \in ended' \/ UNCHANGED historyVars
  BY DEF HistoryNext, historyVars, EndingNow, Ending

\* So what holds of the system holds here too.
LEMMA HistoryRefines == HistorySpec => Spec
  <1>1. HistoryInit => Init
    BY DEF HistoryInit
  <1>2. [HistoryNext]_historyVars => [Next]_vars
    BY HistorySteps
  <1>3. QED
    BY <1>1, <1>2, PTL DEF HistorySpec, Spec

-----------------------------------------------------------------------------
(* Time *)

\* No time kept lies ahead.
TimeInv ==
    /\ \A r \in Reqs : req[r].at <= clock
    /\ \A s \in Sids : locks[s] # Nil => locks[s].at <= clock
    /\ \A s \in Sids : Stored(s) /\ Revoked(sess[s]) => sess[s].revoked <= clock

\* A request keeps the time it has, takes the current one or is answered.
LEMMA AtKept ==
    ASSUME SystemInv, NEW r \in Reqs, Acts(r), NEW p, p = req[r], NEW q, q = req'[r]
    PROVE  q.at \in {0, p.at, clock}
  <1>1. q = Idle => q.at = 0
    BY DEF Idle
  <1>2. Return(r) => q.at = 0
    BY <1>1, ReturnEffect
  <1>3. ASSUME NEW pc \in Places, Goto(r, pc) PROVE q.at = p.at
    BY <1>3, GotoEffect DEF Same
  <1>4. ASSUME NEW m, m.at \in {p.at, clock}, WritingTo(m, q) \/ PurgingTo(m, q)
        PROVE  q.at \in {0, p.at, clock}
    BY <1>1, <1>4 DEF WritingTo, PurgingTo, Same
  <1>5. CASE Arrival(r)
    <2>1. \A s \in Sids : Logout(r, s) => q.at = clock
      BY LogoutEffect
    <2>2. \A s \in Sids : Refresh(r, s) => q.at = 0
      BY RefreshEffect DEF Fresh
    <2>3. \A s \in Sids, op \in {"gate", "logout_all"} : Gate(r, s, op) => q.at = 0
      BY GateEffect DEF Fresh
    <2>4. QED
      BY <1>5, <2>1, <2>2, <2>3, LoginEffect, ChangeStatusEffect, DeleteUserEffect
         DEF Fresh, Arrival, AuthArrival, GateArrival, StatusArrival
  <1>6. ListSessions(r) => q.at = clock
    BY ListSessionsEffect
  <1>7. UncacheEvicted(r) => q.at = clock
    BY UncacheEvictedEffect
  <1>8. CheckUser(r) => q = Idle \/ q.at = clock
    BY CheckUserEffect
  <1>9. UncacheRotated(r) => q.at = clock
    BY UncacheRotatedEffect
  <1>10. Evict(r) \/ Revoke(r) \/ CommitNew(r) \/ CommitUser(r) \/ Purge(r) \/ WriteUser(r)
         => q.at = p.at
    BY <1>3 DEF Evict, Revoke, CommitNew, CommitUser, Purge, WriteUser, Places, PreCommit,
       PostCommit, Other
  <1>11. Warm(r) \/ SetGrace(r) \/ Replay(r) \/ UncacheUser(r) \/ DbError(r) => q.at \in {0, p.at}
    BY <1>2, <1>3 DEF Warm, SetGrace, Replay, UncacheUser, DbError, Places, PostCommit
  <1>12. SelectAll(r) => q.at \in {0, p.at, clock}
    BY <1>4, SelectAllEffect
  <1>13. WriteAll(r) => q.at \in {0, p.at, clock}
    BY <1>4, WriteAllEffect
  <1>14. CommitRevocations(r) => q.at \in {0, p.at, clock}
    BY <1>4, CommitRevocationsEffect
  <1>15. PurgeGrace(r) => q.at \in {0, p.at, clock}
    BY <1>4, PurgeGraceEffect
  <1>16. ReadSession(r) => q.at = p.at
    BY ReadSessionEffect
  <1>17. WarmSession(r) \/ ReadUserCache(r) \/ WarmUser(r) \/ Handle(r) => q.at \in {0, p.at}
    BY <1>2, <1>3 DEF WarmSession, ReadUserCache, WarmUser, Handle, Decide, Places, PreCommit, Other
  <1>18. SelectStatus(r) => q.at = p.at
    BY SelectStatusEffect
  <1>19. ListActive(r) => q.at = p.at
    BY ListActiveEffect
  <1>20. ReadUser(r) => q = Idle \/ q.at = p.at
    BY ReadUserEffect
  <1>21. QED
    BY <1>1, <1>5, <1>6, <1>7, <1>8, <1>9, <1>10, <1>11, <1>12, <1>13, <1>14, <1>15, <1>16,
       <1>17, <1>18, <1>19, <1>20
       DEF Acts, Step, AuthStep, GateStep, StatusStep, Locking, LockStep

\* A row lock keeps its time, or is new and takes that of its request.
LEMMA LockTimes ==
    ASSUME SystemInv, NEW r \in Reqs, Acts(r), NEW s \in Sids, locks'[s] # Nil
    PROVE  locks'[s] = locks[s] \/ locks'[s].at = req[r].at
  <1>0. locks \in [Sids -> Lock \cup {Nil}]
    BY DEF SystemInv, TypeOK, StoreTypeOK
  <1>1. locks' = Unlocked(r) => locks'[s] = locks[s]
    BY DEF Unlocked
  <1>2. Arrival(r) => UNCHANGED locks
    BY ArrivalStays DEF storeVars, db
  <1>3. AuthStep(r) => UNCHANGED locks \/ locks' = Unlocked(r)
    BY DEF AuthStep, ListSessions, UncacheEvicted, Replay, CheckUser,
       UncacheRotated, Warm, SetGrace, ListActive, SelectAll, Purge, PurgeGrace, storeVars, db,
       CommitNew, CommitRevocations, PublishSessions, PublishWithInsert
  <1>4. GateStep(r) => UNCHANGED locks
    BY DEF GateStep, ReadSession, WarmSession, ReadUserCache, ReadUser, WarmUser, Handle,
       storeVars, db
  <1>5. StatusStep(r) \/ DbError(r) => UNCHANGED locks \/ locks' = Unlocked(r)
    BY DEF StatusStep, SelectStatus, UncacheUser, CommitUser, PublishSessions, DbError, Rollback,
       storeVars, db
  <1>6. ASSUME NEW t, UpdateRevoked(r, t, req[r].at)
        PROVE  locks'[s] = locks[s] \/ locks'[s].at = req[r].at
    BY <1>0, <1>6 DEF UpdateRevoked
  <1>7. Locking(r) => UNCHANGED locks \/ \E t : UpdateRevoked(r, t, req[r].at)
    BY DEF Locking, LockStep, Evict, Revoke, WriteAll, WriteUser
  <1>8. QED
    BY <1>1, <1>2, <1>3, <1>4, <1>5, <1>6, <1>7 DEF Acts, Step

\* The clock only moves on.
LEMMA TimeKept ==
    ASSUME SystemInv, SystemInv', TimeInv, [Next]_vars
    PROVE  TimeInv'
  <1>0. clock \in Nat /\ clock' \in Nat /\ clock <= clock'
    BY ClockSteps
  <1>1. ASSUME NEW r \in Reqs PROVE req'[r].at <= clock'
    <2>1. req[r].at \in Nat /\ req[r].at <= clock
      BY Facts DEF TimeInv, Request, Time
    <2>2. CASE req'[r] = req[r]
      BY <1>0, <2>1, <2>2
    <2>3. CASE Acts(r)
      <3>1. req'[r].at \in {0, req[r].at, clock}
        BY <2>3, AtKept
      <3>2. QED
        BY <1>0, <2>1, <3>1
    <2>4. QED
      BY <2>2, <2>3, StepActs, ActsAlone DEF OthersStay, vars
  <1>2. ASSUME NEW s \in Sids, locks'[s] # Nil PROVE locks'[s].at <= clock'
    <2>1. CASE locks'[s] = locks[s]
      <3>1. locks[s].at \in Nat /\ locks[s].at <= clock
        BY <1>2, <2>1 DEF TimeInv, SystemInv, TypeOK, StoreTypeOK, Lock, Time
      <3>2. QED
        BY <1>0, <2>1, <3>1
    <2>2. ASSUME NEW r \in Reqs, locks'[s].at = req[r].at PROVE locks'[s].at <= clock'
      <3>1. req[r].at \in Nat /\ req[r].at <= clock
        BY Facts DEF TimeInv, Request, Time
      <3>2. QED
        BY <1>0, <2>2, <3>1
    <2>3. QED
      BY <1>2, <2>1, <2>2, StepActs, LockTimes DEF Tick, CacheOutage, vars, storeVars, db
  <1>3. ASSUME NEW s \in Sids, Stored(s)', Revoked(sess'[s]) PROVE sess'[s].revoked <= clock'
    <2>1. CASE sess'[s] = sess[s]
      <3>1. sess[s].revoked \in Nat /\ sess[s].revoked <= clock
        BY <1>3, <2>1 DEF TimeInv, Stored, Revoked, SystemInv, TypeOK, StoreTypeOK, Row, Time
      <3>2. QED
        BY <1>0, <2>1, <3>1
    <2>2. CASE sess'[s] # sess[s] /\ Stored(s)
      <3>1. PICK r \in Reqs : Commits(r)
        BY <2>2, TableSteps
      <3>2. HeldBy(r, s) /\ sess'[s] = [sess[s] EXCEPT !.revoked = locks[s].at]
            /\ locks[s].at \in Time
        BY <2>2, <3>1, CommitKeepsRow
      <3>3. sess'[s].revoked = locks[s].at
        BY <2>2, <3>2 DEF SystemInv, TypeOK, StoreTypeOK, Stored, Row
      <3>4. locks[s].at <= clock /\ locks[s].at \in Nat
        BY <3>2 DEF TimeInv, HeldBy, Time
      <3>5. QED
        BY <1>0, <3>3, <3>4
    <2>3. CASE ~Stored(s)
      <3>1. PICK r \in Reqs : Commits(r)
        BY <1>3, <2>3, TableSteps DEF Stored
      <3>2. CommitNew(r)
        BY <1>3, <2>3, <3>1, StampedFields
           DEF Commits, CommitRevocations, CommitUser, PublishSessions, Stored
      <3>3. req[r].new \in Sids
        BY <3>2, Facts DEF CommitNew, Request
      <3>4. sess'[s] = NewRow(req[r])
        BY <1>3, <2>3, <3>2, <3>3, StampedFields DEF CommitNew, PublishWithInsert, Stored
      <3>5. QED
        BY <1>3, <3>4 DEF NewRow, Revoked
    <2>4. QED
      BY <2>1, <2>2, <2>3
  <1>4. QED
    BY <1>1, <1>2, <1>3 DEF TimeInv

-----------------------------------------------------------------------------
(* The accounts where more than rotations ended sessions *)

\* A request that ends, or has ended, sessions otherwise.
EndsOtherwise(q) ==
    \/ q.op = "logout"
    \/ q.pc \in {"evict", "evicted", "list_active", "select_all", "write_all"}

\* All it does is recorded: what it is to do, the keys to delete, the rows
\* locked and those revoked.
EndedInv ==
    /\ \A r \in Reqs : EndsOtherwise(req[r]) => req[r].user \in ended
    /\ \A r \in Reqs : req[r].purge # {} =>
          req[r].user \in ended /\ req[r].purge \subseteq SessionsOf(req[r].user)
    /\ \A r \in Reqs, s \in Sids : HeldBy(r, s) => req[r].user \in ended \/ Rotating(req[r])
    /\ \A s \in Sids : Stored(s) /\ Revoked(sess[s]) =>
          Successors(s) # {} \/ sess[s].user \in ended

\* It is recorded from its first such step on.
LEMMA EndsFrom ==
    ASSUME SystemInv, SystemInv', RoutedInv, NEW r \in Reqs, Acts(r), EndsOtherwise(req'[r])
    PROVE  Ending(req'[r]) \/ (Task(req[r], req'[r]) /\ EndsOtherwise(req[r]))
  <1> PICK p : p = req[r]
    OBVIOUS
  <1> PICK q : q = req'[r]
    OBVIOUS
  <1>1. CASE q.op = "logout" \/ q.pc \in {"evict", "list_active"}
    BY <1>1 DEF Ending
  <1>2. CASE q.pc = "evicted"
    <2>1. Evict(r)
      BY <1>2, EvictedByEvict
    <2>2. p.pc = "evict" /\ Task(p, q)
      BY <2>1, GotoEffect DEF Evict, At, Places, PreCommit, Same
    <2>3. QED
      BY <2>2 DEF EndsOtherwise
  <1>3. CASE q.pc = "select_all"
    <2>1. ListActive(r)
      BY <1>3, ReadPlaces
    <2>2. p.pc = "list_active" /\ Task(p, q)
      BY <2>1, ListActiveEffect
    <2>3. QED
      BY <2>2 DEF EndsOtherwise
  <1>4. CASE q.pc = "write_all"
    <2>1. SelectAll(r) \/ WriteAll(r) \/ Purge(r) \/ PurgeGrace(r)
      BY <1>4, SweepsElsewhere
    <2>2. ASSUME NEW m, Task(p, m), WritingTo(m, q) PROVE Task(p, q)
      BY <1>4, <2>2, IdleFields DEF WritingTo, PurgingTo, Same, Task
    <2>3. SelectAll(r) => p.pc = "select_all" /\ Task(p, q)
      BY <2>2, SelectAllEffect
    <2>4. WriteAll(r) => p.pc = "write_all" /\ Task(p, q)
      BY <2>2, WriteAllEffect
    <2>5. ~Purge(r)
      BY <1>4, GotoEffect DEF Purge, Places, Other
    <2>6. ~PurgeGrace(r)
      BY <1>4, PurgeGraceEffect, IdleFields DEF PurgingTo
    <2>7. QED
      BY <2>1, <2>3, <2>4, <2>5, <2>6 DEF EndsOtherwise
  <1>5. QED
    BY <1>1, <1>2, <1>3, <1>4 DEF EndsOtherwise

\* The keys a request has to delete are those of its logout, or of the sessions
\* it has just listed; from then on there are fewer of them.
LEMMA PurgeFrom ==
    ASSUME SystemInv, NEW r \in Reqs, Acts(r), NEW p, p = req[r], NEW q, q = req'[r]
    PROVE  \/ q.purge = {}
           \/ q.op = "logout" /\ q.purge \subseteq SessionsOf(q.user)
           \/ ListActive(r)
           \/ Task(p, q) /\ q.purge \subseteq p.purge
  <1>1. q = Idle => q.purge = {}
    BY IdleFields
  <1>2. Return(r) => q.purge = {}
    BY <1>1, ReturnEffect
  <1>3. ASSUME NEW pc \in Places, Goto(r, pc) PROVE Task(p, q) /\ q.purge = p.purge
    BY <1>3, GotoEffect DEF Same
  <1>4. ASSUME NEW m, Task(p, m), m.purge \subseteq p.purge, WritingTo(m, q) \/ PurgingTo(m, q)
        PROVE  q.purge = {} \/ (Task(p, q) /\ q.purge \subseteq p.purge)
    BY <1>1, <1>4 DEF WritingTo, PurgingTo, Same, Task
  <1>5. CASE Arrival(r)
    <2>1. ASSUME NEW s \in Sids, Logout(r, s)
          PROVE  q.op = "logout" /\ q.purge \subseteq SessionsOf(q.user)
      BY <2>1, LogoutEffect DEF SessionsOf, Stored
    <2>2. \A s \in Sids : Refresh(r, s) => q.purge = {}
      BY RefreshEffect
    <2>3. \A s \in Sids, op \in {"gate", "logout_all"} : Gate(r, s, op) => q.purge = {}
      BY GateEffect
    <2>4. QED
      BY <1>5, <2>1, <2>2, <2>3, LoginEffect, ChangeStatusEffect, DeleteUserEffect
         DEF Arrival, AuthArrival, GateArrival, StatusArrival
  <1>6. ListSessions(r) => Task(p, q) /\ q.purge = p.purge
    BY ListSessionsEffect
  <1>7. UncacheEvicted(r) => Task(p, q) /\ q.purge = p.purge
    BY UncacheEvictedEffect
  <1>8. CheckUser(r) => q = Idle \/ (Task(p, q) /\ q.purge = p.purge)
    BY CheckUserEffect
  <1>9. UncacheRotated(r) => Task(p, q) /\ q.purge = p.purge
    BY UncacheRotatedEffect
  <1>10. Evict(r) \/ Revoke(r) \/ CommitNew(r) \/ CommitUser(r) \/ Purge(r) \/ WriteUser(r)
         => Task(p, q) /\ q.purge = p.purge
    BY <1>3 DEF Evict, Revoke, CommitNew, CommitUser, Purge, WriteUser, Places, PreCommit,
       PostCommit, Other
  <1>11. Warm(r) \/ SetGrace(r) \/ Replay(r) \/ UncacheUser(r) \/ DbError(r)
         => q.purge = {} \/ (Task(p, q) /\ q.purge = p.purge)
    BY <1>2, <1>3 DEF Warm, SetGrace, Replay, UncacheUser, DbError, Places, PostCommit
  <1>12. SelectAll(r) => q.purge = {} \/ (Task(p, q) /\ q.purge \subseteq p.purge)
    BY <1>4, SelectAllEffect
  <1>13. WriteAll(r) => q.purge = {} \/ (Task(p, q) /\ q.purge \subseteq p.purge)
    BY <1>4, WriteAllEffect
  <1>14. CommitRevocations(r) => q.purge = {} \/ (Task(p, q) /\ q.purge \subseteq p.purge)
    BY <1>4, CommitRevocationsEffect DEF Task
  <1>15. PurgeGrace(r) => q.purge = {} \/ (Task(p, q) /\ q.purge \subseteq p.purge)
    BY <1>4, PurgeGraceEffect
  <1>16. ReadSession(r) => Task(p, q) /\ q.purge = p.purge
    BY ReadSessionEffect
  <1>17. WarmSession(r) \/ ReadUserCache(r) \/ WarmUser(r) \/ Handle(r)
         => q.purge = {} \/ (Task(p, q) /\ q.purge = p.purge)
    BY <1>2, <1>3 DEF WarmSession, ReadUserCache, WarmUser, Handle, Decide, Places, PreCommit, Other
  <1>18. SelectStatus(r) => Task(p, q) /\ q.purge = p.purge
    BY SelectStatusEffect
  <1>19. ReadUser(r) => q = Idle \/ (Task(p, q) /\ q.purge = p.purge)
    BY ReadUserEffect
  <1>20. QED
    BY <1>1, <1>5, <1>6, <1>7, <1>8, <1>9, <1>10, <1>11, <1>12, <1>13, <1>14, <1>15, <1>16,
       <1>17, <1>18, <1>19
       DEF Acts, Step, AuthStep, GateStep, StatusStep, Locking, LockStep

\* A row keeps its user.
LEMMA UserStays ==
    ASSUME SystemInv, [Next]_vars, NEW s \in Sids, Stored(s)
    PROVE  Stored(s)' /\ sess'[s].user = sess[s].user
  <1>1. sess[s] \in Row
    BY DEF SystemInv, TypeOK, StoreTypeOK, Stored
  <1>2. PICK x : x = sess'[s].revoked
    OBVIOUS
  <1>3. sess'[s] # Nil /\ sess'[s] = [sess[s] EXCEPT !.revoked = x]
    BY <1>2, RowsKept
  <1>4. QED
    BY <1>1, <1>3 DEF Row, Stored

\* So a user's sessions stay.
LEMMA SessionsStay ==
    ASSUME SystemInv, [Next]_vars, NEW u
    PROVE  SessionsOf(u) \subseteq SessionsOf(u)'
  BY UserStays DEF SessionsOf, Stored

\* The row a commit puts in is live.
LEMMA NewRowsLive ==
    ASSUME SystemInv, [Next]_vars, NEW s \in Sids, ~Stored(s), Stored(s)'
    PROVE  ~Revoked(sess'[s])
  <1>1. PICK r \in Reqs : Commits(r)
    BY TableSteps DEF Stored
  <1>2. CommitNew(r)
    BY <1>1, StampedFields DEF Commits, CommitRevocations, CommitUser, PublishSessions, Stored
  <1>3. req[r].new \in Sids
    BY <1>2, Facts DEF CommitNew, Request
  <1>4. sess'[s] = NewRow(req[r])
    BY <1>2, <1>3, StampedFields DEF CommitNew, PublishWithInsert, Stored
  <1>5. QED
    BY <1>4 DEF NewRow, Revoked

\* Only an idle request takes a call.
LEMMA ArrivalIdle ==
    ASSUME NEW r \in Reqs, Arrival(r)
    PROVE  req[r].pc = "idle"
  BY DEF Arrival, AuthArrival, GateArrival, StatusArrival, Login, Refresh, Logout, Gate,
         ChangeStatus, DeleteUser, At

\* EndedInv is kept: what a request is about to end ...
LEMMA EndingKept ==
    ASSUME SystemInv, SystemInv', RoutedInv, EndedInv, [HistoryNext]_historyVars,
           NEW r \in Reqs, EndsOtherwise(req'[r])
    PROVE  req'[r].user \in ended'
  <1>1. [Next]_vars /\ ended \subseteq ended'
    BY HistorySteps
  <1>2. CASE req'[r] = req[r]
    BY <1>1, <1>2 DEF EndedInv
  <1>3. CASE Acts(r)
    <2>1. CASE Ending(req'[r])
      <3>1. req'[r].user \in ended' \/ UNCHANGED historyVars
        BY <2>1, HistorySteps
      <3>2. UNCHANGED historyVars => req' = req
        BY DEF historyVars, vars
      <3>3. QED
        BY <1>2, <3>1, <3>2
    <2>2. CASE Task(req[r], req'[r]) /\ EndsOtherwise(req[r])
      BY <1>1, <2>2 DEF Task, EndedInv, EndsOtherwise
    <2>3. QED
      BY <1>3, <2>1, <2>2, EndsFrom
  <1>4. QED
    BY <1>1, <1>2, <1>3, StepActs, ActsAlone DEF OthersStay, vars

\* ... the keys it is to delete ...
LEMMA PurgeKept ==
    ASSUME SystemInv, SystemInv', RoutedInv, EndedInv, [HistoryNext]_historyVars,
           NEW r \in Reqs, NEW q, q = req'[r], q.purge # {}
    PROVE  q.user \in ended' /\ q.purge \subseteq SessionsOf(q.user)'
  <1> PICK p : p = req[r]
    OBVIOUS
  <1>1. [Next]_vars /\ ended \subseteq ended'
    BY HistorySteps
  <1>2. SessionsOf(q.user) \subseteq SessionsOf(q.user)'
    BY <1>1, SessionsStay
  <1>3. CASE Task(p, q) /\ q.purge \subseteq p.purge
    <2>1. p.user \in ended /\ p.purge \subseteq SessionsOf(p.user) /\ p.user = q.user
      BY <1>3 DEF EndedInv, Task
    <2>2. QED
      BY <1>1, <1>2, <1>3, <2>1
  <1>4. CASE q.op = "logout" /\ q.purge \subseteq SessionsOf(q.user)
    BY <1>2, <1>4, EndingKept DEF EndsOtherwise
  <1>5. CASE ListActive(r)
    <2>1. p.pc = "list_active" /\ Task(p, q) /\ q.purge = ActiveSessions(p.user)
      BY <1>5, ListActiveEffect
    <2>2. p.user \in ended /\ p.user = q.user /\ q.purge \subseteq SessionsOf(q.user)
      BY <2>1 DEF EndedInv, EndsOtherwise, Task, ActiveSessions
    <2>3. QED
      BY <1>1, <1>2, <2>2
  <1>6. CASE Acts(r)
    BY <1>3, <1>4, <1>5, <1>6, PurgeFrom
  <1>7. CASE q = p
    BY <1>3, <1>7 DEF Task
  <1>8. QED
    BY <1>1, <1>6, <1>7, StepActs, ActsAlone DEF OthersStay, vars

\* ... the rows it locks ...
LEMMA HeldKept ==
    ASSUME SystemInv, SystemInv', RoutedInv, EndedInv, [HistoryNext]_historyVars,
           NEW r \in Reqs, NEW s \in Sids, HeldBy(r, s)'
    PROVE  req'[r].user \in ended' \/ Rotating(req'[r])
  <1> PICK p : p = req[r]
    OBVIOUS
  <1> PICK q : q = req'[r]
    OBVIOUS
  <1>1. [Next]_vars /\ ended \subseteq ended'
    BY HistorySteps
  <1>2. CASE q = p /\ HeldBy(r, s)
    BY <1>1, <1>2 DEF EndedInv
  <1>3. CASE Acts(r)
    <2>1. ~Commits(r) /\ ~DbError(r)
      BY <1>3, LockSteps
    <2>2. Locks(q)
      BY DEF SystemInv, LocksSound, LocksFor
    <2>3. q # Idle
      BY <2>2, IdleFields DEF Locks
    <2>4. CASE HeldBy(r, s)
      <3>1. Locks(p)
        BY <2>4 DEF SystemInv, LocksSound, LocksFor
      <3>2. ~Arrival(r)
        BY <3>1, ArrivalIdle DEF Locks
      <3>3. p.user = q.user
        BY <1>3, <2>3, <3>2, TaskKept DEF Task
      <3>4. CASE p.user \in ended
        BY <1>1, <3>3, <3>4
      <3>5. CASE p.pc = "revoked"
        <4>1. UncacheRotated(r)
          BY <1>3, <2>1, <3>5, NextPlace
        <4>2. q.op = "refresh" /\ q.pc = "commit" /\ q.new # Nil
          BY <4>1, UncacheRotatedEffect DEF Task
        <4>3. QED
          BY <4>2 DEF Rotating
      <3>6. p.pc # "commit"
        BY <1>3, <2>1, NextPlace
      <3>7. QED
        BY <2>4, <3>4, <3>5, <3>6 DEF EndedInv, Rotating
    <2>5. CASE ~HeldBy(r, s)
      <3>1. CASE Evict(r)
        <4>1. p.pc = "evict" /\ Task(p, q)
          BY <3>1, GotoEffect DEF Evict, At, Places, PreCommit, Same
        <4>2. QED
          BY <1>1, <4>1 DEF EndedInv, EndsOtherwise, Task
      <3>2. CASE Revoke(r)
        <4>1. p.pc = "revoke" /\ (p.op = "refresh" => q.pc = "revoked") /\ Task(p, q)
          BY <3>2, GotoEffect DEF Revoke, At, Places, PreCommit, Same
        <4>2. p.op \in {"refresh", "logout"}
          BY <4>1 DEF RoutedInv, Routed, Placed, Revoking, AtTheGate, Inserting
        <4>3. QED
          BY <1>1, <4>1, <4>2 DEF EndedInv, EndsOtherwise, Task, Rotating
      <3>3. CASE WriteAll(r)
        <4>1. ~Arrival(r) /\ p.pc = "write_all"
          BY <3>3, ArrivalIdle DEF WriteAll, At
        <4>2. Task(p, q)
          BY <1>3, <2>3, <4>1, TaskKept
        <4>3. QED
          BY <1>1, <4>1, <4>2 DEF EndedInv, EndsOtherwise, Task
      <3>4. QED
        BY <1>3, <2>5, <3>1, <3>2, <3>3, LockTaker
    <2>6. QED
      BY <2>4, <2>5
  <1>4. ASSUME NEW o \in Reqs \ {r}, Acts(o) PROVE q = p /\ HeldBy(r, s)
    BY <1>4, ActsAlone, LockSteps DEF OthersStay
  <1>5. UNCHANGED <<req, locks>> => q = p /\ HeldBy(r, s)
    BY DEF HeldBy
  <1>6. QED
    BY <1>1, <1>2, <1>3, <1>4, <1>5, StepActs DEF Tick, CacheOutage, vars, storeVars, db

\* ... and those it has revoked: only a rotation leaves a successor in place.
LEMMA RevokedKept ==
    ASSUME SystemInv, SystemInv', EndedInv, [HistoryNext]_historyVars,
           NEW s \in Sids, Stored(s)', Revoked(sess'[s])
    PROVE  Successors(s)' # {} \/ sess'[s].user \in ended'
  <1>1. [Next]_vars /\ ended \subseteq ended'
    BY HistorySteps
  <1>2. Stored(s)
    BY <1>1, NewRowsLive
  <1>3. sess'[s].user = sess[s].user
    BY <1>1, <1>2, UserStays
  <1>4. CASE Revoked(sess[s])
    BY <1>1, <1>2, <1>3, <1>4, SuccessorsKept DEF EndedInv
  <1>5. CASE ~Revoked(sess[s])
    <2>1. sess'[s] # sess[s]
      BY <1>5
    <2>2. PICK r \in Reqs : Commits(r)
      BY <1>1, <2>1, TableSteps
    <2>3. HeldBy(r, s) /\ sess[s].user = req[r].user
      BY <1>2, <2>1, <2>2, CommitKeepsRow
    <2>4. CASE Rotating(req[r])
      <3>1. req[r].op = "refresh" /\ req[r].new # Nil /\ s = req[r].sid
        BY <2>2, <2>3, <2>4, Facts
           DEF Rotating, Commits, CommitNew, CommitRevocations, CommitUser, At, LocksFor
      <3>2. CommitNew(r)
        BY <2>2, <3>1 DEF Commits, CommitRevocations, CommitUser
      <3>3. QED
        BY <3>1, <3>2, RotationCommitted
    <2>5. QED
      BY <1>1, <1>3, <2>3, <2>4 DEF EndedInv
  <1>6. QED
    BY <1>4, <1>5

\* All four together.
LEMMA EndedKept ==
    ASSUME SystemInv, SystemInv', RoutedInv, EndedInv, [HistoryNext]_historyVars
    PROVE  EndedInv'
  <1>1. ASSUME NEW r \in Reqs PROVE (EndsOtherwise(req[r]) => req[r].user \in ended)'
    BY EndingKept DEF EndsOtherwise
  <1>2. ASSUME NEW r \in Reqs
        PROVE  (req[r].purge # {} =>
                   req[r].user \in ended /\ req[r].purge \subseteq SessionsOf(req[r].user))'
    <2>1. PICK q : q = req'[r]
      OBVIOUS
    <2>2. q.purge # {} => q.user \in ended' /\ q.purge \subseteq SessionsOf(q.user)'
      BY <2>1, PurgeKept
    <2>3. QED
      BY <2>1, <2>2 DEF SessionsOf
  <1>3. ASSUME NEW r \in Reqs, NEW s \in Sids
        PROVE  (HeldBy(r, s) => req[r].user \in ended \/ Rotating(req[r]))'
    BY HeldKept DEF Rotating
  <1>4. ASSUME NEW s \in Sids
        PROVE  (Stored(s) /\ Revoked(sess[s]) => Successors(s) # {} \/ sess[s].user \in ended)'
    BY RevokedKept DEF Revoked
  <1>5. QED
    BY <1>1, <1>2, <1>3, <1>4 DEF EndedInv

-----------------------------------------------------------------------------
(* The grace entry *)

\* Where only rotations ended sessions, the entry of a rotated session is there
\* to the end of its window, or one of its rotations is still to write it.
Windowed(s) ==
    /\ Stored(s) /\ Successors(s) # {} /\ sess[s].user \notin ended
    /\ ~fallback /\ clock < sess[s].revoked + GRACE
Replayable(s) ==
    gkey[s] # Nil /\ gkey[s].until # Forever /\ gkey[s].until >= sess[s].revoked + GRACE
Answering(q, s) == q.pc \in {"warm", "set_grace"} /\ q.op = "refresh" /\ q.sid = s

GraceInv ==
    \A s \in Sids : Windowed(s) => Replayable(s) \/ \E r \in Reqs : Answering(req[r], s)

\* The client never leaves its fallback.
LEMMA FallbackStays ==
    ASSUME [Next]_vars, fallback
    PROVE  fallback'
  <1>1. UNCHANGED cache => fallback'
    BY DEF cache
  <1>2. ASSUME NEW r \in Reqs, AuthStep(r) PROVE fallback'
    <2>1. Warm(r) => fallback'
      BY DEF Warm, SetSessionKey
    <2>2. SetGrace(r) \/ PurgeGrace(r) => fallback'
      BY DEF SetGrace, PurgeGrace
    <2>3. UncacheEvicted(r) \/ UncacheRotated(r) \/ Purge(r) => fallback'
      BY DEF UncacheEvicted, UncacheRotated, Purge, DeleteSessionKey
    <2>4. QED
      BY <1>1, <1>2, <2>1, <2>2, <2>3
         DEF AuthStep, ListSessions, Replay, CheckUser, CommitNew, ListActive, SelectAll,
             CommitRevocations, storeVars
  <1>3. ASSUME NEW r \in Reqs, GateStep(r) \/ StatusStep(r) PROVE fallback'
    <2>1. WarmSession(r) => fallback'
      BY DEF WarmSession, SetSessionKey
    <2>2. WarmUser(r) \/ UncacheUser(r) => fallback'
      BY DEF WarmUser, UncacheUser
    <2>3. QED
      BY <1>1, <1>3, <2>1, <2>2
         DEF GateStep, StatusStep, ReadSession, ReadUserCache, ReadUser, Handle, SelectStatus,
             CommitUser, storeVars
  <1>4. ASSUME NEW r \in Reqs, Acts(r) PROVE fallback'
    BY <1>1, <1>2, <1>3, <1>4, CacheReads DEF Acts, Step, DbError
  <1>5. QED
    BY <1>1, <1>4, StepActs DEF Tick, CacheOutage, vars, storeVars

\* While the cache is not lost, a request changes a grace entry only where a
\* rotation writes it or a purge deletes it.
LEMMA GraceSteps ==
    ASSUME SystemInv, NEW r \in Reqs, Acts(r), ~fallback', NEW s \in Sids
    PROVE  \/ gkey'[s] = gkey[s]
           \/ SetGrace(r) /\ s = req[r].sid
           \/ PurgeGrace(r) /\ s = Min(req[r].purge)
  <1>0. gkey \in [Sids -> GraceEntry \cup {Nil}]
    BY DEF SystemInv, TypeOK, StoreTypeOK
  <1>1. UNCHANGED cache => gkey' = gkey
    BY DEF cache
  <1>2. ASSUME NEW t, NEW revoked, NEW ttl, SetSessionKey(t, revoked, ttl) PROVE gkey' = gkey
    BY <1>2 DEF SetSessionKey, Switches
  <1>3. CASE AuthStep(r)
    <2>1. Warm(r) => gkey' = gkey
      BY <1>2 DEF Warm
    <2>2. SetGrace(r) => gkey'[s] = gkey[s] \/ s = req[r].sid
      BY <1>0 DEF SetGrace
    <2>3. PurgeGrace(r) => gkey'[s] = gkey[s] \/ s = Min(req[r].purge)
      BY <1>0 DEF PurgeGrace
    <2>4. UncacheEvicted(r) \/ UncacheRotated(r) \/ Purge(r) => gkey' = gkey
      BY DEF UncacheEvicted, UncacheRotated, Purge, DeleteSessionKey
    <2>5. QED
      BY <1>1, <1>3, <2>1, <2>2, <2>3, <2>4
         DEF AuthStep, ListSessions, Replay, CheckUser, CommitNew, ListActive, SelectAll,
             CommitRevocations, storeVars
  <1>4. CASE GateStep(r) \/ StatusStep(r)
    <2>1. WarmSession(r) => gkey' = gkey
      BY <1>2 DEF WarmSession
    <2>2. WarmUser(r) \/ UncacheUser(r) => gkey' = gkey
      BY DEF WarmUser, UncacheUser
    <2>3. QED
      BY <1>1, <1>4, <2>1, <2>2
         DEF GateStep, StatusStep, ReadSession, ReadUserCache, ReadUser, Handle, SelectStatus,
             CommitUser, storeVars
  <1>5. QED
    BY <1>1, <1>3, <1>4, CacheReads DEF Acts, Step, DbError

\* A session comes into the window with the commit of a rotation, whose request
\* is then to write the entry; nothing else moves the window.
LEMMA WindowOpens ==
    ASSUME SystemInv, SystemInv', LineageSound, EndedInv, [HistoryNext]_historyVars,
           NEW s \in Sids, Windowed(s)'
    PROVE  \/ Windowed(s) /\ Revoked(sess[s]) /\ sess'[s] = sess[s]
           \/ \E r \in Reqs : Answering(req'[r], s)
  <1>1. [Next]_vars /\ ended \subseteq ended'
    BY HistorySteps
  <1>2. ASSUME NEW r \in Reqs, CommitNew(r), req[r].op = "refresh", req[r].sid = s
        PROVE  Answering(req'[r], s)
    BY <1>2, GotoEffect DEF CommitNew, Answering, Same, Task, Places, PostCommit
  <1>3. CASE ~(Successors(s)' \subseteq Successors(s))
    <2>1. PICK t : t \in Successors(s)' \ Successors(s)
      BY <1>3
    <2>2. QED
      BY <1>1, <1>2, <2>1, SuccessorAppears
  <1>4. CASE Successors(s)' \subseteq Successors(s)
    <2>1. Successors(s) # {}
      BY <1>4 DEF Windowed
    <2>2. Stored(s) /\ Revoked(sess[s])
      <3>1. s # Nil
        BY NilAssumption, NatAssumption DEF Sids
      <3>2. PICK t \in Sids : Stored(t) /\ sess[t].prev = s
        BY <2>1 DEF Successors
      <3>3. QED
        BY <3>1, <3>2 DEF LineageSound
    <2>3. sess'[s].user = sess[s].user
      BY <1>1, <2>2, UserStays
    <2>4. sess[s].user \notin ended
      BY <1>1, <2>3 DEF Windowed
    <2>5. CASE sess'[s] # sess[s]
      <3>1. PICK r \in Reqs : Commits(r)
        BY <1>1, <2>5, TableSteps
      <3>2. HeldBy(r, s) /\ sess[s].user = req[r].user
        BY <2>2, <2>5, <3>1, CommitKeepsRow
      <3>3. Rotating(req[r])
        BY <2>4, <3>2 DEF EndedInv
      <3>4. req[r].op = "refresh" /\ req[r].new # Nil /\ s = req[r].sid
        BY <3>1, <3>2, <3>3, Facts
           DEF Rotating, Commits, CommitNew, CommitRevocations, CommitUser, At, LocksFor
      <3>5. CommitNew(r)
        BY <3>1, <3>4 DEF Commits, CommitRevocations, CommitUser
      <3>6. QED
        BY <1>2, <3>4, <3>5
    <2>6. CASE sess'[s] = sess[s]
      <3>1. sess[s].revoked \in Nat /\ GRACE \in Nat
        BY <2>2, NatAssumption DEF SystemInv, TypeOK, StoreTypeOK, Stored, Revoked, Row, Time
      <3>2. clock < sess[s].revoked + GRACE
        <4>1. clock' < sess[s].revoked + GRACE
          BY <2>6 DEF Windowed
        <4>2. QED
          BY <1>1, <3>1, <4>1, ClockSteps
      <3>3. ~fallback
        BY <1>1, FallbackStays DEF Windowed
      <3>4. QED
        BY <2>1, <2>2, <2>4, <2>6, <3>2, <3>3 DEF Windowed
    <2>7. QED
      BY <2>5, <2>6
  <1>5. QED
    BY <1>3, <1>4

\* The request that is to write the entry writes it next, or loses the cache.
LEMMA AnswerPlace ==
    ASSUME SystemInv, NEW r \in Reqs, Acts(r), NEW s, Answering(req[r], s)
    PROVE  Warm(r) \/ SetGrace(r)
  <1>1. req[r].pc \in {"warm", "set_grace"}
    BY DEF Answering
  <1>2. ~Arrival(r)
    BY <1>1, ArrivalIdle
  <1>3. ~DbError(r)
    BY <1>1 DEF DbError, InTransaction, PreCommit
  <1>4. ~Locking(r)
    BY <1>1 DEF Locking, LockStep, Evict, Revoke, WriteAll, WriteUser, At
  <1>5. ~GateStep(r)
    BY <1>1 DEF GateStep, ReadSession, WarmSession, ReadUserCache, ReadUser, WarmUser, Handle, At
  <1>6. ~StatusStep(r)
    BY <1>1 DEF StatusStep, SelectStatus, CommitUser, UncacheUser, At
  <1>7. AuthStep(r) => Warm(r) \/ SetGrace(r)
    BY <1>1 DEF AuthStep, ListSessions, UncacheEvicted, Replay, CheckUser, UncacheRotated,
       CommitNew, ListActive, SelectAll, CommitRevocations, Purge, PurgeGrace, At
  <1>8. QED
    BY <1>2, <1>3, <1>4, <1>5, <1>6, <1>7 DEF Acts, Step

\* What SetGrace writes lasts as long as the window (TimeInv: revoked_at is not
\* ahead of the clock).
LEMMA EntryWritten ==
    ASSUME SystemInv, TimeInv, NEW r \in Reqs, SetGrace(r), NEW s \in Sids, s = req[r].sid,
           Stored(s), Revoked(sess[s]), sess'[s] = sess[s]
    PROVE  Replayable(s)'
  <1>1. gkey \in [Sids -> GraceEntry \cup {Nil}]
    BY DEF SystemInv, TypeOK, StoreTypeOK
  <1>2. gkey'[s] = [pair |-> req[r].new, until |-> clock + GRACE]
    BY <1>1 DEF SetGrace
  <1>3. req[r].new \in Sids
    BY Facts DEF SetGrace, At, RequestSound, Request
  <1>4. clock \in Nat /\ GRACE \in Nat /\ sess[s].revoked \in Nat /\ sess[s].revoked <= clock
    BY NatAssumption DEF SystemInv, TypeOK, StoreTypeOK, Stored, Revoked, Row, Time, TimeInv
  <1>5. gkey'[s] \in GraceEntry
    BY <1>2, <1>3, <1>4 DEF GraceEntry, Until, Time
  <1>6. gkey'[s] # Nil
    BY <1>5, NilAssumption
  <1>7. gkey'[s].until = clock + GRACE /\ clock + GRACE \in Int
    BY <1>2, <1>4
  <1>8. gkey'[s].until # Forever
    BY <1>7, NilAssumption
  <1>9. gkey'[s].until >= sess'[s].revoked + GRACE
    BY <1>4, <1>7
  <1>10. QED
    BY <1>6, <1>8, <1>9 DEF Replayable

\* An entry that lasts as long as the window does not lapse within it, and only
\* a purge of more than rotations deletes it.
LEMMA EntryStays ==
    ASSUME SystemInv, TimeInv, EndedInv, [HistoryNext]_historyVars, NEW s \in Sids,
           Windowed(s), Revoked(sess[s]), Replayable(s), sess'[s] = sess[s], Windowed(s)'
    PROVE  Replayable(s)'
  <1>1. [Next]_vars
    BY HistorySteps
  <1>2. gkey'[s] = gkey[s] => Replayable(s)'
    BY DEF Replayable
  <1>3. ~fallback' /\ Stored(s) /\ sess[s].user \notin ended
    BY DEF Windowed
  <1>4. ASSUME NEW r \in Reqs, Acts(r) PROVE Replayable(s)'
    <2>1. CASE SetGrace(r) /\ s = req[r].sid
      BY <1>3, <2>1, EntryWritten
    <2>2. ~(PurgeGrace(r) /\ s = Min(req[r].purge))
      <3> SUFFICES ASSUME PurgeGrace(r), s = Min(req[r].purge) PROVE FALSE
        OBVIOUS
      <3>1. req[r].purge # {} /\ req[r].purge \in SUBSET Sids
        BY Facts DEF PurgeGrace, At, RequestSound, Request
      <3>2. s \in SessionsOf(req[r].user) /\ req[r].user \in ended
        BY <3>1, MinIn DEF EndedInv
      <3>3. QED
        BY <1>3, <3>2 DEF SessionsOf
    <2>3. QED
      BY <1>2, <1>3, <1>4, <2>1, <2>2, GraceSteps
  <1>5. CASE Tick
    <2>1. gkey'[s] = IF Lapsed(gkey[s], clock + 1) THEN Nil ELSE gkey[s]
      BY <1>5 DEF Tick
    <2>2. clock + 1 < sess[s].revoked + GRACE /\ clock \in Nat
      BY <1>5 DEF Tick, Windowed, SystemInv, TypeOK, StoreTypeOK, Time
    <2>3. gkey[s].until \in Nat /\ gkey[s].until >= sess[s].revoked + GRACE
      BY DEF Replayable, SystemInv, TypeOK, StoreTypeOK, GraceEntry, Until, Time
    <2>4. sess[s].revoked \in Nat /\ GRACE \in Nat
      BY <1>3, NatAssumption DEF SystemInv, TypeOK, StoreTypeOK, Stored, Revoked, Row, Time
    <2>5. ~(clock + 1 >= gkey[s].until)
      BY <2>2, <2>3, <2>4
    <2>6. ~fallback
      BY DEF Windowed
    <2>7. ~Lapsed(gkey[s], clock + 1)
      BY <2>5, <2>6 DEF Lapsed
    <2>8. QED
      BY <1>2, <2>1, <2>7
  <1>6. ~CacheOutage
    BY <1>3 DEF CacheOutage
  <1>7. UNCHANGED vars => gkey' = gkey
    BY DEF vars, storeVars, cache
  <1>8. QED
    BY <1>1, <1>2, <1>4, <1>5, <1>6, <1>7, StepActs

\* The grace entries, step by step.
LEMMA GraceKept ==
    ASSUME SystemInv, SystemInv', LineageSound, TimeInv, EndedInv, GraceInv,
           [HistoryNext]_historyVars
    PROVE  GraceInv'
  <1> SUFFICES ASSUME NEW s \in Sids, Windowed(s)'
               PROVE  Replayable(s)' \/ \E r \in Reqs : Answering(req'[r], s)
    BY DEF GraceInv, Answering
  <1>1. [Next]_vars
    BY HistorySteps
  <1>2. CASE \E r \in Reqs : Answering(req'[r], s)
    BY <1>2
  <1>3. CASE Windowed(s) /\ Revoked(sess[s]) /\ sess'[s] = sess[s]
    <2>1. CASE Replayable(s)
      BY <1>3, <2>1, EntryStays
    <2>2. ASSUME NEW r \in Reqs, Answering(req[r], s)
          PROVE  Replayable(s)' \/ Answering(req'[r], s)
      <3>1. CASE req'[r] = req[r]
        BY <2>2, <3>1
      <3>2. CASE Warm(r)
        BY <2>2, <3>2, GotoEffect DEF Warm, Answering, Same, Task, Places, PostCommit
      <3>3. CASE SetGrace(r)
        BY <1>3, <2>2, <3>3, EntryWritten DEF Answering, Windowed
      <3>4. QED
        BY <1>1, <2>2, <3>1, <3>2, <3>3, StepActs, ActsAlone, AnswerPlace DEF OthersStay, vars
    <2>3. QED
      BY <1>3, <2>1, <2>2 DEF GraceInv
  <1>4. QED
    BY <1>2, <1>3, WindowOpens

\* At first no session has been rotated or ended.
LEMMA HistoryInitially == HistoryInit => TimeInv /\ EndedInv /\ GraceInv
  <1>1. ASSUME HistoryInit PROVE TimeInv
    BY <1>1 DEF HistoryInit, Init, StoreInit, AuthInit, TimeInv, Stored, Idle
  <1>2. ASSUME HistoryInit PROVE EndedInv
    <2>1. \A r \in Reqs : req[r] = Idle
      BY <1>2 DEF HistoryInit, Init, AuthInit
    <2>2. ~EndsOtherwise(Idle) /\ Idle.purge = {}
      BY OpsAssumption DEF EndsOtherwise, Idle, AllOps
    <2>3. \A s \in Sids : ~Stored(s) /\ \A r \in Reqs : ~HeldBy(r, s)
      BY <1>2 DEF HistoryInit, Init, StoreInit, Stored, HeldBy
    <2>4. QED
      BY <2>1, <2>2, <2>3 DEF EndedInv, EndsOtherwise
  <1>3. ASSUME HistoryInit PROVE GraceInv
    BY <1>3 DEF HistoryInit, Init, StoreInit, GraceInv, Windowed, Stored
  <1>4. QED
    BY <1>1, <1>2, <1>3

\* Where logins below the limit and rotations are all that happened to an
\* account, what its rotated sessions, keys and locks are is known at every step.
LEMMA HistoryInvariant ==
    HistorySpec => [](SystemInv /\ RoutedInv /\ LineageSound /\ TimeInv /\ EndedInv /\ GraceInv)
  <1>1. HistoryInit => TimeInv /\ EndedInv /\ GraceInv
    BY HistoryInitially
  <1>2. HistoryInit => RoutedInv
    BY RoutedInit DEF HistoryInit
  <1>3. /\ SystemInv /\ SystemInv' /\ RoutedInv /\ LineageSound /\ TimeInv /\ EndedInv /\ GraceInv
        /\ [HistoryNext]_historyVars
        => (RoutedInv /\ TimeInv /\ EndedInv /\ GraceInv)'
    BY HistorySteps, RoutedKept, TimeKept, EndedKept, GraceKept
  <1>4. QED
    BY <1>1, <1>2, <1>3, HistoryRefines, SystemInvariant, RotationsKeepLineage, PTL DEF HistorySpec

\* The loser of a rotation finds the new pair in the grace entry as long as the
\* window of refresh_token lasts (service.py:134-138, 249-261), for any number
\* of requests, unless the cache was lost or the account's sessions were ended
\* otherwise meanwhile.
THEOREM LosersGetTheNewPair == HistorySpec => []GraceReplayAvailable
  <1>1. GraceInv => GraceReplayAvailable
    BY DEF GraceInv, GraceReplayAvailable, Windowed, Replayable, Answering, AllIdle, At
  <1>2. QED
    BY <1>1, HistoryInvariant, PTL

\* A breach response begins where refresh_token finds the row revoked.
LEMMA BreachByRefresh ==
    ASSUME SystemInv, RoutedInv, NEW r \in Reqs, Acts(r), NEW p, p = req[r], NEW q, q = req'[r],
           q.op = "refresh", q.pc = "list_active", p.pc # "list_active"
    PROVE  \E s \in Sids : Refresh(r, s)
  <1>1. q # Idle
    BY IdleFields
  <1>2. Arrival(r) => \E s \in Sids : Refresh(r, s)
    <2>1. \A s \in Sids : ~Logout(r, s)
      BY LogoutEffect
    <2>2. \A s \in Sids, op \in {"gate", "logout_all"} : ~Gate(r, s, op)
      BY GateEffect DEF Fresh
    <2>3. (\A u \in Users : ~Login(r, u)) /\ ~StatusArrival(r)
      BY LoginEffect, ChangeStatusEffect, DeleteUserEffect DEF Fresh, StatusArrival
    <2>4. QED
      BY <2>1, <2>2, <2>3 DEF Arrival, AuthArrival, GateArrival
  <1>3. ASSUME ~Arrival(r) PROVE FALSE
    <2>1. p.op = "refresh"
      BY <1>1, <1>3, TaskKept DEF Task
    <2>2. p.pc \notin AtTheGate /\ p.pc \notin {"write_status", "write_deleted"}
      BY <2>1 DEF RoutedInv, Routed, Placed, Revoking, AtTheGate, Inserting
    <2>3. ~GateStep(r)
      BY <2>2 DEF GateStep, ReadSession, WarmSession, ReadUserCache, ReadUser, WarmUser, Handle,
         At, AtTheGate
    <2>4. ~WriteUser(r)
      BY <2>2 DEF WriteUser
    <2>5. ASSUME NEW pc \in Places, Goto(r, pc) PROVE pc = "list_active"
      BY <2>5, GotoEffect
    <2>6. ASSUME NEW m, WritingTo(m, q) \/ PurgingTo(m, q) PROVE FALSE
      BY <1>1, <2>6 DEF WritingTo, PurgingTo
    <2>7. ~Return(r)
      BY <1>1, ReturnEffect
    <2>8. ~ListSessions(r) /\ ~UncacheEvicted(r)
      BY ListSessionsEffect, UncacheEvictedEffect
    <2>9. ~CheckUser(r) /\ ~UncacheRotated(r)
      BY <1>1, CheckUserEffect, UncacheRotatedEffect
    <2>10. ~Evict(r) /\ ~Revoke(r) /\ ~CommitNew(r) /\ ~CommitUser(r) /\ ~Purge(r)
      BY <2>5 DEF Evict, Revoke, CommitNew, CommitUser, Purge, Places, PreCommit, PostCommit, Other
    <2>11. ~Warm(r) /\ ~SetGrace(r) /\ ~Replay(r) /\ ~UncacheUser(r) /\ ~DbError(r)
      BY <2>5, <2>7 DEF Warm, SetGrace, Replay, UncacheUser, DbError, Places, PostCommit
    <2>12. ~SelectAll(r)
      BY <2>6, SelectAllEffect
    <2>13. ~WriteAll(r)
      BY <2>6, WriteAllEffect
    <2>14. ~CommitRevocations(r)
      BY <2>6, CommitRevocationsEffect
    <2>15. ~PurgeGrace(r)
      BY <2>6, PurgeGraceEffect
    <2>16. ~ListActive(r) /\ ~SelectStatus(r)
      BY ListActiveEffect, SelectStatusEffect
    <2>17. QED
      BY <1>3, <2>3, <2>4, <2>8, <2>9, <2>10, <2>11, <2>12, <2>13, <2>14, <2>15, <2>16
         DEF Acts, Step, AuthStep, StatusStep, Locking, LockStep
  <1>4. QED
    BY <1>2, <1>3

\* refresh_token enters its breach response only on a token of a session that
\* was rotated and is past the grace window, unless a logout, an eviction or a
\* logout-all of the account left it one that was never rotated
\* (service.py:131-140): no outage and no interleaving of rotations does it.
THEOREM BreachesAreReuses == HistorySpec => BreachNeedsReuse
  <1>1. ASSUME SystemInv, SystemInv', RoutedInv, EndedInv, [HistoryNext]_historyVars,
               NEW r \in Reqs, BreachBegins(r), NEW u, u = req'[r].user
        PROVE  \/ u \in ended
               \/ \E s \in SessionsOf(u) :
                     Revoked(sess[s]) /\ Successors(s) # {} /\ clock > sess[s].revoked + GRACE
    <2> PICK p : p = req[r]
      OBVIOUS
    <2> PICK q : q = req'[r]
      OBVIOUS
    <2>1. q.op = "refresh" /\ q.pc = "list_active" /\ p.pc # "list_active"
      BY <1>1 DEF BreachBegins, At
    <2>2. Acts(r)
      BY <1>1, <2>1, HistorySteps, StepActs, ActsAlone DEF OthersStay, vars
    <2>3. PICK s \in Sids : Refresh(r, s)
      BY <1>1, <2>1, <2>2, BreachByRefresh
    <2>4. /\ Revoked(sess[s]) /\ clock - sess[s].revoked > GRACE
          /\ Stored(s) /\ sess[s].user = u
      BY <1>1, <2>1, <2>3, RefreshEffect DEF Fresh
    <2>5. clock > sess[s].revoked + GRACE /\ s \in SessionsOf(u)
      BY <1>1, <2>4, NatAssumption
         DEF SystemInv, TypeOK, StoreTypeOK, Stored, Revoked, Row, Time, SessionsOf
    <2>6. QED
      BY <1>1, <2>4, <2>5 DEF EndedInv
  <1>2. /\ SystemInv /\ SystemInv' /\ RoutedInv /\ EndedInv /\ [HistoryNext]_historyVars
        => [\A r \in Reqs : BreachBegins(r) =>
              \/ req'[r].user \in ended
              \/ \E s \in SessionsOf(req'[r].user) :
                    Revoked(sess[s]) /\ Successors(s) # {}
                    /\ clock > sess[s].revoked + GRACE]_historyVars
    BY <1>1
  <1>3. QED
    BY <1>2, HistoryInvariant, PTL DEF HistorySpec, BreachNeedsReuse
=============================================================================
