--------------------------- MODULE AuthTableProofs ---------------------------
(***************************************************************************)
(* What the sessions table goes through, for any number of requests in     *)
(* flight and under every rollback and outage.                             *)
(*                                                                         *)
(* First, the table implements SessionLedger, so that what the ledger      *)
(* promises (lineage, permanence) holds of it.  Only three actions write   *)
(* it; each is a commit, and SystemInv says which rows a transaction may   *)
(* hold when it commits.                                                   *)
(*                                                                         *)
(* Then, what the cached session and grace keys say of the table, and how  *)
(* far concurrent rotations can fork a chain.  Both need more than         *)
(* SystemInv: what a request has read or committed but not yet written to  *)
(* the cache (KeyPending), and the rotations that have passed the check of *)
(* the row but not yet committed (Rotators).                               *)
(***************************************************************************)
EXTENDS AuthSystemProofs, FiniteSetTheorems

-----------------------------------------------------------------------------
(* Which steps write the table *)

\* A client's call only starts a request.
LEMMA ArrivalReads ==
    ASSUME NEW r \in Reqs, Arrival(r)
    PROVE  UNCHANGED sess
  BY DEF Arrival, AuthArrival, GateArrival, StatusArrival, Login, Refresh, Logout, Gate,
     ChangeStatus, DeleteUser, storeVars, db

\* An UPDATE is invisible until the commit.
LEMMA LockingReads ==
    ASSUME NEW r \in Reqs, Locking(r)
    PROVE  UNCHANGED sess
  BY DEF Locking, LockStep, Evict, Revoke, WriteAll, WriteUser

Commits(r) == CommitNew(r) \/ CommitRevocations(r) \/ CommitUser(r)

\* Nor does any other step that is not a commit.
LEMMA StepReads ==
    ASSUME NEW r \in Reqs, Step(r), ~Commits(r)
    PROVE  UNCHANGED sess
  <1>1. CASE AuthStep(r)
    BY <1>1 DEF Commits, AuthStep, ListSessions, UncacheEvicted, Replay, CheckUser,
       UncacheRotated, Warm, SetGrace, ListActive, SelectAll, Purge, PurgeGrace, storeVars, db
  <1>2. CASE GateStep(r)
    BY <1>2 DEF GateStep, ReadSession, WarmSession, ReadUserCache, ReadUser, WarmUser, Handle,
       storeVars, db
  <1>3. CASE StatusStep(r)
    BY <1>3 DEF Commits, StatusStep, SelectStatus, UncacheUser, storeVars, db
  <1>4. QED
    BY <1>1, <1>2, <1>3 DEF Step

\* So the table changes in commits only.
LEMMA TableSteps ==
    ASSUME [Next]_vars
    PROVE  UNCHANGED sess \/ \E r \in Reqs : Commits(r)
  <1>1. ASSUME NEW r \in Reqs, DbError(r) PROVE UNCHANGED sess
    BY <1>1 DEF DbError, Rollback
  <1>2. Environment => UNCHANGED sess
    BY <1>1 DEF Environment, Tick, CacheOutage, db
  <1>3. UNCHANGED vars => UNCHANGED sess
    BY DEF vars, storeVars, db
  <1>4. QED
    BY <1>1, <1>2, <1>3, ArrivalReads, LockingReads, StepReads DEF Next, DeadlockVictim

-----------------------------------------------------------------------------
(* What a commit does to the ledger *)

\* The rows r revokes when it commits.
Ended(r) == {s \in Sids : HeldBy(r, s) /\ Stored(s)}

\* The ledger entry of a stored row.
LEMMA RecordedFields ==
    ASSUME TypeOK, NEW s \in Sids
    PROVE  /\ Recorded[s] \in Ledger!Entry \cup {Nil}
           /\ Recorded[s] = Nil <=> ~Stored(s)
           /\ Stored(s) => /\ Recorded[s].user = sess[s].user
                           /\ Recorded[s].prev = sess[s].prev
                           /\ Recorded[s].expires = sess[s].expires
                           /\ Recorded[s].live <=> ~Revoked(sess[s])
  <1>1. CASE ~Stored(s)
    BY <1>1 DEF Recorded, Stored
  <1>2. CASE Stored(s)
    <2> DEFINE e == [user |-> sess[s].user, prev |-> sess[s].prev,
                     expires |-> sess[s].expires, live |-> ~Revoked(sess[s])]
    <2>1. sess[s] \in Row
      BY <1>2 DEF Stored, TypeOK, StoreTypeOK
    <2>2. e \in Ledger!Entry
      BY <2>1 DEF Ledger!Entry, Row, Time, Revoked
    <2>3. Recorded[s] = e
      BY <1>2 DEF Recorded, Stored
    <2>4. e # Nil
      BY <2>2, LedgerNilAssumption
    <2>5. e.user = sess[s].user /\ e.prev = sess[s].prev /\ e.expires = sess[s].expires
      OBVIOUS
    <2>6. e.live <=> ~Revoked(sess[s])
      BY Zenon
    <2> HIDE DEF e
    <2>7. QED
      BY <1>2, <2>2, <2>3, <2>4, <2>5, <2>6
  <1>3. QED
    BY <1>1, <1>2

\* Ending an entry touches one of its fields.
LEMMA EndedEntry ==
    ASSUME NEW e \in Ledger!Entry
    PROVE  [e EXCEPT !.live = FALSE] =
              [user |-> e.user, prev |-> e.prev, expires |-> e.expires, live |-> FALSE]
  <1>1. ASSUME NEW v
        PROVE  [e EXCEPT !.live = v] =
                  [user |-> e.user, prev |-> e.prev, expires |-> e.expires, live |-> v]
    BY DEF Ledger!Entry
  <1>2. QED
    BY <1>1

\* A row that r holds is ended, any other stays.
LEMMA StampedRecorded ==
    ASSUME SystemInv, NEW r \in Reqs, NEW s \in Sids, sess'[s] = Stamped(r)[s]
    PROVE  Recorded'[s] = IF s \in Ended(r) THEN [Recorded[s] EXCEPT !.live = FALSE]
                          ELSE Recorded[s]
  <1>1. CASE s \in Ended(r)
    <2>1. HeldBy(r, s) /\ sess[s] # Nil /\ sess[s] \in Row
      BY <1>1 DEF Ended, Stored, SystemInv, TypeOK, StoreTypeOK
    <2>2. locks[s].at \in Time
      BY <2>1 DEF HeldBy, SystemInv, TypeOK, StoreTypeOK, Lock
    <2>3. sess'[s] = [sess[s] EXCEPT !.revoked = locks[s].at]
      BY <2>1 DEF Stamped
    <2>4. /\ sess'[s].user = sess[s].user /\ sess'[s].prev = sess[s].prev
          /\ sess'[s].expires = sess[s].expires /\ Revoked(sess'[s])
          /\ sess'[s] \in Row
      BY <2>1, <2>2, <2>3, NilAssumption DEF Row, Revoked, Time
    <2>5. sess'[s] # Nil
      BY <2>4, NilAssumption
    <2>6. Recorded'[s] = [user |-> sess[s].user, prev |-> sess[s].prev,
                          expires |-> sess[s].expires, live |-> FALSE]
      <3>1. Recorded'[s] = [user |-> sess'[s].user, prev |-> sess'[s].prev,
                            expires |-> sess'[s].expires, live |-> ~Revoked(sess'[s])]
        BY <2>5 DEF Recorded, Revoked
      <3>2. ~Revoked(sess'[s]) = FALSE
        BY <2>4
      <3>3. QED
        BY <2>4, <3>1, <3>2
    <2>7. /\ Recorded[s] \in Ledger!Entry /\ Recorded[s].user = sess[s].user
          /\ Recorded[s].prev = sess[s].prev /\ Recorded[s].expires = sess[s].expires
      BY <2>1, RecordedFields DEF Stored, SystemInv
    <2>8. [Recorded[s] EXCEPT !.live = FALSE] =
             [user |-> sess[s].user, prev |-> sess[s].prev,
              expires |-> sess[s].expires, live |-> FALSE]
      BY <2>7, EndedEntry
    <2>9. QED
      BY <1>1, <2>6, <2>8
  <1>2. CASE s \notin Ended(r)
    <2>1. sess'[s] = sess[s]
      BY <1>2 DEF Stamped, Ended, Stored
    <2>2. QED
      BY <1>2, <2>1 DEF Recorded, Revoked
  <1>3. QED
    BY <1>1, <1>2

\* They are rows of the account r acts for.
LEMMA EndedOwned ==
    ASSUME SystemInv, NEW r \in Reqs
    PROVE  Ended(r) \in SUBSET Ledger!OwnedBy(req[r].user)
  <1> SUFFICES ASSUME NEW s \in Ended(r) PROVE s \in Ledger!OwnedBy(req[r].user)
    OBVIOUS
  <1>1. s \in Sids /\ Stored(s) /\ sess[s].user = req[r].user
    BY Facts DEF Ended, LocksFor, SessionsOf
  <1>2. QED
    BY <1>1, RecordedFields DEF Ledger!OwnedBy, SystemInv

\* A commit without an insertion ends sessions of one account, or does nothing.
LEMMA RevokingCommit ==
    ASSUME SystemInv, SystemInv', NEW r \in Reqs, CommitRevocations(r) \/ CommitUser(r)
    PROVE  UNCHANGED Recorded \/ Ledger!End(req[r].user)
  <1>1. sess' = Stamped(r)
    BY DEF CommitRevocations, CommitUser, PublishSessions
  <1>2. \A s \in Sids : Recorded'[s] = IF s \in Ended(r) THEN [Recorded[s] EXCEPT !.live = FALSE]
                                       ELSE Recorded[s]
    BY <1>1, StampedRecorded
  <1>3. CASE Ended(r) = {}
    <2>1. \A s \in Sids : Recorded'[s] = Recorded[s]
      BY <1>2, <1>3
    <2>2. QED
      BY <2>1 DEF Recorded
  <1>4. CASE Ended(r) # {}
    <2>1. Ledger!Ends(Ended(r), {})
      BY <1>2 DEF Ledger!Ends
    <2>2. QED
      BY <1>4, <2>1, EndedOwned DEF Ledger!End
  <1>5. QED
    BY <1>3, <1>4

\* A commit with an insertion opens a session or replaces one.
LEMMA InsertingCommit ==
    ASSUME SystemInv, SystemInv', NEW r \in Reqs, CommitNew(r)
    PROVE  \/ \E s \in Sids : Ledger!Open(req[r].user, s)
           \/ \E p, s \in Sids : Ledger!Replace(p, s)
  <1>1. PICK n \in Sids : n = req[r].new
    BY Facts DEF CommitNew, Request
  <1>2. /\ ~Stored(n) /\ At(r, "commit") /\ req[r].new # Nil /\ req[r].user \in Users
        /\ req[r].op \in {"login", "refresh"}
    BY <1>1, Facts DEF CommitNew, At, RequestSound, Request, SystemInv, IdsFresh
  <1>3. sess' = [Stamped(r) EXCEPT ![n] = NewRow(req[r])]
    BY <1>1 DEF CommitNew, PublishWithInsert
  <1>4. NewRow(req[r]) \in Row /\ NewRow(req[r]).user = req[r].user
    BY <1>2, NewRowFields
  <1>5. sess'[n] = NewRow(req[r]) /\ \A s \in Sids \ {n} : sess'[s] = Stamped(r)[s]
    BY <1>3, StampedFields
  <1>6. Ledger!Ends(Ended(r), {n})
    BY <1>5, StampedRecorded DEF Ledger!Ends
  <1>7. /\ NewRow(req[r]).prev = req[r].sid /\ ~Revoked(NewRow(req[r]))
        /\ req[r].op = "refresh" => NewRow(req[r]).expires = sess[req[r].sid].expires
    BY DEF NewRow, Revoked
  <1>8. sess'[n] # Nil
    BY <1>4, <1>5, NilAssumption
  <1>9. Ledger!Appears(n, req[r].user, req[r].sid)
    <2>1. Recorded[n] = Nil
      BY <1>2, RecordedFields DEF SystemInv
    <2>2. Recorded'[n] = [user |-> sess'[n].user, prev |-> sess'[n].prev,
                          expires |-> sess'[n].expires, live |-> ~Revoked(sess'[n])]
      BY <1>8 DEF Recorded, Revoked
    <2>3. ~Revoked(sess'[n]) = TRUE
      BY <1>5, <1>7
    <2>4. Recorded'[n] = [user |-> req[r].user, prev |-> req[r].sid,
                          expires |-> NewRow(req[r]).expires, live |-> TRUE]
      BY <1>4, <1>5, <1>7, <2>2, <2>3
    <2>5. req[r].sid \in Sids \cup {Nil} /\ NewRow(req[r]).expires \in Nat
      BY <1>4, Facts DEF Row, Time, Request
    <2>6. QED
      BY <1>2, <2>1, <2>4, <2>5 DEF Ledger!Appears, Ledger!Entry
  <1>10. CASE req[r].op = "login"
    <2>1. req[r].sid = Nil
      BY <1>10, Facts DEF RequestSound
    <2>2. QED
      BY <1>6, <1>9, <2>1, EndedOwned DEF Ledger!Open
  <1>11. CASE req[r].op = "refresh"
    <2>1. PICK p \in Sids : p = req[r].sid
      BY <1>2, <1>11, Facts DEF RequestSound, Request
    <2>2. Stored(p) /\ sess[p].user = req[r].user
      BY <1>2, <2>1, Facts, NilAssumption, NatAssumption DEF RequestSound, SessionsOf, Stored, Sids
    <2>3. Ended(r) = {p}
      BY <1>2, <1>11, <2>1, <2>2, Facts DEF Ended, LocksFor, Rotating, At
    <2>4. /\ Recorded[p] # Nil /\ Recorded[p].user = req[r].user
          /\ Recorded[p].expires = sess[p].expires
      BY <2>2, RecordedFields DEF SystemInv
    <2>5. Recorded'[n].expires = sess[p].expires
      BY <1>5, <1>7, <1>8, <1>11, <2>1 DEF Recorded
    <2>6. QED
      BY <1>6, <1>9, <2>1, <2>3, <2>4, <2>5 DEF Ledger!Replace
  <1>12. QED
    BY <1>2, <1>10, <1>11

\* Every step of the system is a step of the ledger, or leaves it alone.
LEMMA LedgerStep ==
    ASSUME SystemInv, SystemInv', [Next]_vars
    PROVE  [Ledger!LedgerNext]_Recorded
  <1>1. Ledger!LedgerTypeOK'
    <2>1. \A s \in Sids : Recorded'[s] \in Ledger!Entry \cup {Nil}
      <3> SUFFICES ASSUME NEW s \in Sids PROVE Recorded'[s] \in Ledger!Entry \cup {Nil}
        OBVIOUS
      <3>1. CASE sess'[s] = Nil
        BY <3>1 DEF Recorded
      <3>2. CASE sess'[s] # Nil
        <4>1. sess'[s] \in Row
          BY <3>2 DEF SystemInv, TypeOK, StoreTypeOK
        <4>2. QED
          BY <3>2, <4>1 DEF Recorded, Row, Ledger!Entry, Time, Revoked
      <3>3. QED
        BY <3>1, <3>2
    <2>2. QED
      BY <2>1 DEF Ledger!LedgerTypeOK, Recorded
  <1>2. UNCHANGED sess => UNCHANGED Recorded
    BY DEF Recorded, Revoked
  <1>3. ASSUME NEW r \in Reqs, Commits(r)
        PROVE  [Ledger!LedgerNext]_Recorded
    <2>1. req[r].user \in Users
      BY <1>3, Facts DEF Commits, CommitNew, CommitRevocations, CommitUser, At, RequestSound, Request
    <2>2. QED
      BY <1>1, <1>3, <2>1, RevokingCommit, InsertingCommit DEF Commits, Ledger!LedgerNext
  <1>4. QED
    BY <1>2, <1>3, TableSteps

\* However requests interleave, roll back or lose the cache, every change of
\* the sessions table is one of SessionLedger's three operations: a login's, a
\* rotation's or a revocation's single commit (unit_of_work.py).
THEOREM TableImplementsLedger == Spec => ImplementsLedger
  <1>1. Init => Ledger!LedgerInit
    BY DEF Init, StoreInit, Ledger!LedgerInit, Recorded
  <1>2. SystemInv /\ SystemInv' /\ [Next]_vars => [Ledger!LedgerNext]_Recorded
    BY LedgerStep
  <1>3. QED
    BY <1>1, <1>2, SystemInvariant, PTL DEF Spec, ImplementsLedger, Ledger!LedgerSpec

-----------------------------------------------------------------------------
(* What the ledger promises, of the table *)

LP == INSTANCE SessionLedgerProofs WITH ledger <- Recorded

\* The parent of a session is a revoked one of the same account, from which it
\* inherits the expiry (service.py:204-234): as LineageStep holds of any ledger,
\* it holds of the steps of the table.
THEOREM RotationsKeepLineage == Spec => []LineageSound
  <1>1. Nil \notin Sids
    BY NatAssumption, NilAssumption DEF Sids
  <1>2. Init => Ledger!Lineage
    BY DEF Init, StoreInit, Recorded, Ledger!Lineage
  <1>3. SystemInv /\ SystemInv' /\ Ledger!Lineage /\ [Next]_vars => Ledger!Lineage'
    <2> SUFFICES ASSUME SystemInv, SystemInv', Ledger!Lineage, [Next]_vars
                 PROVE  Ledger!Lineage'
      OBVIOUS
    <2>1. Ledger!LedgerTypeOK
      BY RecordedFields DEF SystemInv, Ledger!LedgerTypeOK, Recorded
    <2>2. CASE UNCHANGED Recorded
      BY <2>2 DEF Ledger!Lineage
    <2>3. CASE Ledger!LedgerNext
      BY <1>1, <2>1, <2>3, LedgerNilAssumption, LP!LineageStep
         DEF Ledger!Lineage, Ledger!LedgerNext, Ledger!LedgerTypeOK, Ledger!Entry,
             Ledger!End, Ledger!Open, Ledger!Replace, Ledger!Ends, Ledger!Appears,
             Ledger!OwnedBy, LP!Lineage, LP!LedgerNext, LP!LedgerTypeOK, LP!Entry,
             LP!End, LP!Open, LP!Replace, LP!Ends, LP!Appears, LP!OwnedBy
    <2>4. QED
      BY <2>2, <2>3, LedgerStep
  <1>4. SystemInv /\ Ledger!Lineage => LineageSound
    <2> SUFFICES ASSUME SystemInv, Ledger!Lineage, NEW s \in Sids, Stored(s), sess[s].prev # Nil,
                        NEW p, p = sess[s].prev
                 PROVE  /\ p # s /\ Stored(p) /\ Revoked(sess[p])
                        /\ sess[p].user = sess[s].user /\ sess[p].expires = sess[s].expires
      BY DEF LineageSound
    <2>1. Recorded[s] # Nil /\ Recorded[s].prev = p /\ p \in Sids
      BY RecordedFields DEF SystemInv, TypeOK, StoreTypeOK, Stored, Row
    <2>2. /\ p # s /\ Recorded[p] # Nil /\ ~Recorded[p].live
          /\ Recorded[p].user = Recorded[s].user /\ Recorded[p].expires = Recorded[s].expires
      BY <2>1 DEF Ledger!Lineage
    <2>3. QED
      BY <2>1, <2>2, RecordedFields DEF SystemInv
  <1>5. QED
    BY <1>2, <1>3, <1>4, SystemInvariant, PTL DEF Spec

\* What a commit of r leaves of a stored row: itself, but for a revocation at
\* the time of r's UPDATE if r holds it.
LEMMA CommitKeepsRow ==
    ASSUME SystemInv, NEW r \in Reqs, Commits(r), NEW s \in Sids, Stored(s)
    PROVE  /\ sess'[s] = Stamped(r)[s]
           /\ sess'[s] # sess[s] => HeldBy(r, s)
           /\ HeldBy(r, s) => sess'[s] = [sess[s] EXCEPT !.revoked = locks[s].at]
           /\ HeldBy(r, s) => locks[s].at \in Time /\ sess[s].user = req[r].user
  <1>1. sess'[s] = Stamped(r)[s]
    <2>1. CASE CommitNew(r)
      <3>1. ~Stored(req[r].new)
        BY <2>1 DEF CommitNew, SystemInv, IdsFresh
      <3>2. QED
        BY <2>1, <3>1, StampedFields DEF CommitNew, PublishWithInsert
    <2>2. CASE CommitRevocations(r) \/ CommitUser(r)
      BY <2>2 DEF CommitRevocations, CommitUser, PublishSessions
    <2>3. QED
      BY <2>1, <2>2 DEF Commits
  <1>2. Stamped(r)[s] = IF HeldBy(r, s) THEN [sess[s] EXCEPT !.revoked = locks[s].at]
                        ELSE sess[s]
    BY DEF Stamped, Stored
  <1>3. HeldBy(r, s) => locks[s].at \in Time
    BY DEF HeldBy, SystemInv, TypeOK, StoreTypeOK, Lock
  <1>4. HeldBy(r, s) => sess[s].user = req[r].user
    BY Facts DEF LocksFor, SessionsOf
  <1>5. QED
    BY <1>1, <1>2, <1>3, <1>4

\* No step loses a row or changes more of it than revoked_at, which never goes
\* back to NULL.
LEMMA RowsKept ==
    ASSUME SystemInv, [Next]_vars, NEW s \in Sids, Stored(s)
    PROVE  /\ sess'[s] # Nil
           /\ sess'[s] = [sess[s] EXCEPT !.revoked = sess'[s].revoked]
           /\ Revoked(sess[s]) => Revoked(sess'[s])
  <1>1. sess[s] \in Row /\ sess[s] # Nil
    BY DEF SystemInv, TypeOK, StoreTypeOK, Stored
  <1>2. CASE sess'[s] = sess[s]
    BY <1>1, <1>2 DEF Row
  <1>3. CASE sess'[s] # sess[s]
    <2>1. PICK r \in Reqs : Commits(r)
      BY <1>3, TableSteps
    <2>2. PICK at \in Time : sess'[s] = [sess[s] EXCEPT !.revoked = at]
      BY <1>3, <2>1, CommitKeepsRow
    <2>3. sess'[s] \in Row /\ sess'[s].revoked = at
      BY <1>1, <2>2 DEF Row
    <2>4. sess'[s] # Nil /\ at # Nil
      BY <2>3, NilAssumption DEF Time
    <2>5. QED
      BY <2>2, <2>3, <2>4 DEF Revoked
  <1>4. QED
    BY <1>2, <1>3

\* No step brings a revoked session back or rewrites a row otherwise, although
\* an UPDATE that waited overwrites revoked_at (repository.py:97).
THEOREM RevocationsArePermanent == Spec => RevocationPermanent
  <1>1. SystemInv /\ [Next]_vars =>
           \A s \in Sids : Stored(s) =>
              /\ sess'[s] # Nil
              /\ sess'[s] = [sess[s] EXCEPT !.revoked = sess'[s].revoked]
              /\ Revoked(sess[s]) => Revoked(sess'[s])
    BY RowsKept
  <1>2. QED
    BY <1>1, SystemInvariant, PTL DEF Spec, RevocationPermanent

\* A session changes only in a commit of a request that acts for its owner: the
\* breach response and logout-all of one account (repository.py:101-112) never
\* reach another's sessions.
THEOREM OthersUntouched == Spec => NoCollateral
  <1>1. SystemInv /\ [Next]_vars =>
           \A s \in Sids : Stored(s) /\ sess'[s] # sess[s] =>
              \E r \in Reqs : At(r, "commit") /\ ~(At(r, "commit"))' /\ req[r].user = sess[s].user
    <2> SUFFICES ASSUME SystemInv, [Next]_vars, NEW s \in Sids, Stored(s), sess'[s] # sess[s]
                 PROVE  \E r \in Reqs : At(r, "commit") /\ ~(At(r, "commit"))'
                                        /\ req[r].user = sess[s].user
      OBVIOUS
    <2>1. PICK r \in Reqs : Commits(r)
      BY TableSteps
    <2>2. req[r].user = sess[s].user
      BY <2>1, CommitKeepsRow
    <2>3. At(r, "commit")
      BY <2>1 DEF Commits, CommitNew, CommitRevocations, CommitUser
    <2>4. ~(At(r, "commit"))'
      <3>1. CASE Goto(r, "warm") \/ Goto(r, "uncache_user")
        <4>1. PICK pc \in {"warm", "uncache_user"} : Become(r, [req[r] EXCEPT !.pc = pc])
          BY <3>1, GotoBecomes DEF SystemInv
        <4>2. [req[r] EXCEPT !.pc = pc].pc = pc
          BY Facts, MovedFields DEF Places, PostCommit
        <4>3. req'[r].pc = pc
          BY <4>1, <4>2 DEF Become, SystemInv, TypeOK
        <4>4. QED
          BY <4>3 DEF At
      <3>2. CASE CommitRevocations(r)
        <4>1. req'[r] = Purging(req[r])
          BY <3>2 DEF CommitRevocations, Become, SystemInv, TypeOK
        <4>2. Purging(req[r]).pc # "commit"
          BY <3>2, Facts, PurgingFields, IdleFields DEF CommitRevocations
        <4>3. QED
          BY <4>1, <4>2 DEF At
      <3>3. QED
        BY <2>1, <3>1, <3>2 DEF Commits, CommitNew, CommitUser
    <2>5. QED
      BY <2>2, <2>3, <2>4
  <1>2. QED
    BY <1>1, SystemInvariant, PTL DEF Spec, NoCollateral

-----------------------------------------------------------------------------
(* How a request moves through the places the two arguments watch *)

\* p and q act for the same operation on the same sessions.
SameTask(p, q) == p.op = q.op /\ p.sid = q.sid /\ p.new = q.new

\* An insertion waits for its commit.
Inserting(q) == q.pc = "commit" /\ q.new # Nil

\* The places watched: a rotation's, and those where a cache write is pending.
Watched(q) ==
    \/ q.pc \in {"user", "revoke", "revoked", "session_warm", "warm", "set_grace"}
    \/ Inserting(q)

\* A rotation starts on an active session; logout passes one place of it.
Starts(p, q) ==
    /\ p.pc = "idle" /\ q.pc \in {"user", "revoke"}
    /\ q.op = "refresh" => q.sid \in Sids /\ Active(sess[q.sid])

\* It goes on to its commit, as a login does.
Advances(p, q) ==
    /\ q.op = p.op /\ q.sid = p.sid
    /\ p.op = "refresh" => p.pc \in {"user", "revoke", "revoked"}
    /\ q.pc \in {"revoke", "revoked"} \/ Inserting(q)

\* The gate reads a row to cache.
Reads(p, q) ==
    /\ p.pc = "session_db" /\ q.pc = "session_warm"
    /\ SameTask(p, q) /\ q.seen = sess[p.sid].revoked

\* After the commit come the two cache writes.
Commit(p, q) == Inserting(p) /\ q.pc = "warm" /\ SameTask(p, q)
Warms(p, q) == p.pc = "warm" /\ p.op # "login" /\ q.pc = "set_grace" /\ SameTask(p, q)

\* What a step of r does to its own request.
Moves(p, q) ==
    \/ ~Watched(q)
    \/ UNCHANGED sess /\ (Starts(p, q) \/ Advances(p, q) \/ Reads(p, q) \/ Warms(p, q))

\* A step is one request's, or the environment's.
OthersStay(r) == \A p \in Reqs \ {r} : req'[p] = req[p]

\* Idle is not watched.
LEMMA IdleUnwatched == ~Watched(Idle)
  BY IdleFields DEF Watched, Inserting

\* Where a fresh record goes.
LEMMA BecomesIt ==
    ASSUME TypeOK, NEW r \in Reqs, NEW q, Become(r, q)
    PROVE  req'[r] = q /\ OthersStay(r)
  BY DEF TypeOK, Become, OthersStay

\* ... and what a move keeps of it.
LEMMA GoesTo ==
    ASSUME SystemInv, NEW r \in Reqs, NEW pc \in Places, Goto(r, pc)
    PROVE  /\ req'[r].pc = pc /\ SameTask(req[r], req'[r]) /\ req'[r].seen = req[r].seen
           /\ OthersStay(r)
  <1> DEFINE q == [req[r] EXCEPT !.pc = pc]
  <1>1. Become(r, q)
    BY GotoBecomes DEF SystemInv
  <1>2. q.pc = pc /\ SameTask(req[r], q) /\ q.seen = req[r].seen
    BY Facts DEF Request, SameTask
  <1> HIDE DEF q
  <1>3. QED
    BY <1>1, <1>2, BecomesIt DEF SystemInv, OthersStay

\* The answer ends the request.
LEMMA Ends ==
    ASSUME SystemInv, NEW r \in Reqs, Return(r)
    PROVE  ~Watched(req'[r]) /\ OthersStay(r)
  BY BecomesIt, IdleUnwatched DEF Return, SystemInv

\* A client's call starts a rotation only on an active session.
LEMMA ArrivalMoves ==
    ASSUME SystemInv, NEW r \in Reqs, Arrival(r)
    PROVE  Moves(req[r], req'[r]) /\ OthersStay(r)
  <1>1. ASSUME NEW u \in Users, Login(r, u)
        PROVE  Moves(req[r], req'[r]) /\ OthersStay(r)
    <2> DEFINE q == Begin("login", u, Nil, "list")
    <2>1. q.pc = "list"
      BY BeginFields DEF AllOps, PreCommit
    <2>2. Become(r, q)
      BY <1>1 DEF Login
    <2> HIDE DEF q
    <2>3. QED
      BY <2>1, <2>2, BecomesIt DEF SystemInv, Moves, Watched, Inserting
  <1>2. ASSUME NEW s \in Sids, Refresh(r, s)
        PROVE  Moves(req[r], req'[r]) /\ OthersStay(r)
    <2>1. Stored(s) /\ sess[s].user \in Users
      BY <1>2 DEF Refresh, SystemInv, TypeOK, StoreTypeOK, TokensSound, Stored, Row
    <2>2. PICK pc \in {"user", "replay", "list_active"} :
             /\ Become(r, Begin("refresh", sess[s].user, s, pc))
             /\ pc = "user" => Active(sess[s])
      BY <1>2 DEF Refresh
    <2> DEFINE q == Begin("refresh", sess[s].user, s, pc)
    <2>3. q.pc = pc /\ q.sid = s
      BY <2>1, BeginFields DEF AllOps, PreCommit, Other
    <2>4. Become(r, q)
      BY <2>2
    <2> HIDE DEF q
    <2>5. At(r, "idle") /\ UNCHANGED sess
      BY <1>2 DEF Refresh, storeVars, db
    <2>6. req'[r] = q /\ OthersStay(r)
      BY <2>4, BecomesIt DEF SystemInv
    <2>7. CASE pc = "user"
      BY <2>2, <2>3, <2>5, <2>6, <2>7 DEF Moves, Starts, At
    <2>8. CASE pc # "user"
      BY <2>2, <2>3, <2>6, <2>8 DEF Moves, Watched, Inserting
    <2>9. QED
      BY <2>7, <2>8, <2>6
  <1>3. ASSUME NEW s \in Sids, Logout(r, s)
        PROVE  Moves(req[r], req'[r]) /\ OthersStay(r)
    <2> DEFINE b == Begin("logout", sess[s].user, s, "revoke")
               q == [b EXCEPT !.purge = {s}, !.at = clock]
    <2>1. Stored(s) /\ sess[s].user \in Users
      BY <1>3 DEF Logout, SystemInv, TypeOK, StoreTypeOK, TokensSound, Stored, Row
    <2>2. b \in Request /\ b.op = "logout" /\ b.pc = "revoke" /\ b.new = Nil
      BY <2>1, BeginFields DEF AllOps, PreCommit
    <2>3. Become(r, Purging(q)) \/ Become(r, q)
      BY <1>3 DEF Logout
    <2> HIDE DEF b
    <2>4. q \in Request /\ q.op = "logout" /\ q.pc = "revoke" /\ q.new = Nil
      BY <2>2, StoredTypes DEF Request
    <2> HIDE DEF q
    <2>5. At(r, "idle") /\ UNCHANGED sess
      BY <1>3 DEF Logout, storeVars, db
    <2>6. ~Watched(Purging(q))
      BY <2>4, PurgingFields, IdleUnwatched DEF Watched, Inserting, SameData
    <2>7. QED
      BY <2>3, <2>4, <2>5, <2>6, BecomesIt DEF SystemInv, Moves, Starts, At
  <1>4. ASSUME NEW s \in Sids, NEW op \in {"gate", "logout_all"}, Gate(r, s, op)
        PROVE  Moves(req[r], req'[r]) /\ OthersStay(r)
    <2>1. Stored(s) /\ sess[s].user \in Users
      BY <1>4 DEF Gate, SystemInv, TypeOK, StoreTypeOK, TokensSound, Stored, Row
    <2>2. PICK pc \in {"session_db", "user_cache"} :
             Become(r, Begin(op, sess[s].user, s, pc))
      BY <1>4 DEF Gate
    <2> DEFINE q == Begin(op, sess[s].user, s, pc)
    <2>3. q.pc = pc
      BY <2>1, BeginFields DEF AllOps, Other
    <2>4. Become(r, q)
      BY <2>2
    <2> HIDE DEF q
    <2>5. QED
      BY <2>3, <2>4, BecomesIt DEF SystemInv, Moves, Watched, Inserting
  <1>5. ASSUME NEW u \in Users, NEW to \in Statuses, ChangeStatus(r, u, to)
        PROVE  Moves(req[r], req'[r]) /\ OthersStay(r)
    <2> DEFINE b == Begin("change", u, Nil, "select_status")
               q == [b EXCEPT !.target = to]
    <2>1. b \in Request /\ b.pc = "select_status"
      BY BeginFields DEF AllOps, PreCommit
    <2>2. Become(r, q)
      BY <1>5 DEF ChangeStatus
    <2> HIDE DEF b
    <2>3. q.pc = "select_status"
      BY <2>1 DEF Request
    <2> HIDE DEF q
    <2>4. QED
      BY <2>2, <2>3, BecomesIt DEF SystemInv, Moves, Watched, Inserting
  <1>6. ASSUME NEW u \in Users, DeleteUser(r, u)
        PROVE  Moves(req[r], req'[r]) /\ OthersStay(r)
    <2> DEFINE q == Begin("delete", u, Nil, "write_deleted")
    <2>1. q.pc = "write_deleted"
      BY BeginFields DEF AllOps, PreCommit
    <2>2. Become(r, q)
      BY <1>6 DEF DeleteUser
    <2> HIDE DEF q
    <2>3. QED
      BY <2>1, <2>2, BecomesIt DEF SystemInv, Moves, Watched, Inserting
  <1>7. QED
    BY <1>1, <1>2, <1>3, <1>4, <1>5, <1>6 DEF Arrival, AuthArrival, GateArrival, StatusArrival

\* A move to a place that is not watched.
LEMMA GoesElsewhere ==
    ASSUME SystemInv, NEW r \in Reqs, NEW pc \in Places, Goto(r, pc),
           pc \notin {"user", "revoke", "revoked", "session_warm", "warm", "set_grace"},
           pc = "commit" => req[r].new = Nil
    PROVE  Moves(req[r], req'[r]) /\ OthersStay(r)
  BY GoesTo DEF Moves, Watched, Inserting, SameTask

\* Only between the insertion and the answer does a request name a new session.
LEMMA NothingNew ==
    ASSUME SystemInv, NEW r \in Reqs, req[r].pc \notin {"commit", "warm", "set_grace"}
    PROVE  req[r].new = Nil
  BY Facts DEF RequestSound

\* The insertion of a login or of a rotation.
LEMMA InsertMoves ==
    ASSUME SystemInv, NEW r \in Reqs, NEW q \in Request, NEW ttl \in Time, Insert(r, q, ttl),
           q.op = req[r].op, q.sid = req[r].sid, UNCHANGED sess,
           req[r].op = "refresh" => req[r].pc = "revoked"
    PROVE  Moves(req[r], req'[r]) /\ OthersStay(r)
  <1> DEFINE x == [q EXCEPT !.new = nextSid, !.at = clock, !.ttl = ttl, !.pc = "commit"]
  <1>1. Become(r, x) /\ nextSid \in Sids
    BY DEF Insert
  <1>2. nextSid # Nil
    BY <1>1, NatAssumption, NilAssumption DEF Sids
  <1>3. x.op = q.op /\ x.sid = q.sid /\ x.new = nextSid /\ x.pc = "commit"
    BY DEF Request
  <1> HIDE DEF x
  <1>4. QED
    BY <1>1, <1>2, <1>3, BecomesIt DEF SystemInv, Moves, Advances, Inserting

\* Where the flush of revoke_all_sessions leads is not watched.
LEMMA WritingMoves ==
    ASSUME SystemInv, NEW r \in Reqs, NEW q \in Request, Become(r, Writing(q)), q.new = Nil
    PROVE  Moves(req[r], req'[r]) /\ OthersStay(r)
  <1>1. ~Watched(Writing(q))
    BY WritingFields DEF Watched, Inserting, SameData
  <1>2. QED
    BY <1>1, BecomesIt DEF SystemInv, Moves

\* Nor is where a purge leads.
LEMMA PurgingMoves ==
    ASSUME SystemInv, NEW r \in Reqs, NEW q \in Request, Become(r, Purging(q)), q.new = Nil
    PROVE  Moves(req[r], req'[r]) /\ OthersStay(r)
  <1>1. ~Watched(Purging(q))
    BY PurgingFields, IdleUnwatched DEF Watched, Inserting, SameData
  <1>2. QED
    BY <1>1, BecomesIt DEF SystemInv, Moves

\* authenticate: evictions, then the insertion.
LEMMA LoginMoves ==
    ASSUME SystemInv, NEW r \in Reqs, ListSessions(r) \/ UncacheEvicted(r)
    PROVE  Moves(req[r], req'[r]) /\ OthersStay(r)
  <1>1. /\ req[r].op = "login" /\ req[r].new = Nil /\ LIFETIME \in Time /\ clock \in Time
        /\ req[r] \in Request /\ UNCHANGED sess
    BY Facts, NothingNew, StoredTypes, NatAssumption
       DEF ListSessions, UncacheEvicted, At, RequestSound, Time, db
  <1>2. ASSUME NEW q \in Request, NEW todo, Become(r, [q EXCEPT !.todo = todo, !.at = clock, !.pc = "evict"])
        PROVE  Moves(req[r], req'[r]) /\ OthersStay(r)
    <2> DEFINE x == [q EXCEPT !.todo = todo, !.at = clock, !.pc = "evict"]
    <2>1. x.pc = "evict"
      BY DEF Request
    <2>2. Become(r, x)
      BY <1>2
    <2> HIDE DEF x
    <2>3. QED
      BY <2>1, <2>2, BecomesIt DEF SystemInv, Moves, Watched, Inserting
  <1>3. CASE ListSessions(r)
    <2>1. CASE Insert(r, req[r], LIFETIME)
      BY <1>1, <2>1, InsertMoves
    <2>2. CASE ~Insert(r, req[r], LIFETIME)
      <3>1. PICK todo : Become(r, [req[r] EXCEPT !.todo = todo, !.at = clock, !.pc = "evict"])
        BY <1>3, <2>2 DEF ListSessions
      <3>2. QED
        BY <1>1, <1>2, <3>1
    <2>3. QED
      BY <2>1, <2>2
  <1>4. CASE UncacheEvicted(r)
    <2> DEFINE rest == req[r].todo \ {Min(req[r].todo)}
               q == [req[r] EXCEPT !.todo = rest]
               x == [q EXCEPT !.at = clock, !.pc = "evict"]
    <2>1. rest \in SUBSET Sids
      BY <1>1 DEF Request
    <2>2. Insert(r, q, LIFETIME) \/ Become(r, x)
      BY <1>4 DEF UncacheEvicted
    <2> HIDE DEF rest
    <2>3. q \in Request /\ q.op = req[r].op /\ q.sid = req[r].sid
      BY <1>1, <2>1 DEF Request
    <2> HIDE DEF q
    <2>4. CASE Insert(r, q, LIFETIME)
      BY <1>1, <2>3, <2>4, InsertMoves
    <2>5. CASE Become(r, x)
      <3>1. x.pc = "evict"
        BY <2>3 DEF Request
      <3> HIDE DEF x
      <3>2. QED
        BY <2>5, <3>1, BecomesIt DEF SystemInv, Moves, Watched, Inserting
    <2>6. QED
      BY <2>2, <2>4, <2>5
  <1>5. QED
    BY <1>3, <1>4

\* refresh_token up to the insertion.
LEMMA RotationMoves ==
    ASSUME SystemInv, NEW r \in Reqs, CheckUser(r) \/ Revoke(r) \/ UncacheRotated(r)
    PROVE  Moves(req[r], req'[r]) /\ OthersStay(r)
  <1>1. req[r] \in Request /\ req[r].new = Nil /\ clock \in Time /\ UNCHANGED sess
    BY Facts, NothingNew, StoredTypes DEF CheckUser, Revoke, UncacheRotated, At, storeVars, db
  <1>2. CASE CheckUser(r)
    <2> DEFINE q == [req[r] EXCEPT !.at = clock, !.pc = "revoke"]
    <2>1. q.pc = "revoke" /\ q.op = req[r].op /\ q.sid = req[r].sid
      BY <1>1 DEF Request
    <2>2. Return(r) \/ Become(r, q)
      BY <1>2 DEF CheckUser
    <2> HIDE DEF q
    <2>3. req[r].pc = "user"
      BY <1>2 DEF CheckUser, At
    <2>4. QED
      BY <1>1, <2>1, <2>2, <2>3, Ends, BecomesIt DEF SystemInv, Moves, Advances
  <1>3. CASE Revoke(r)
    <2>1. Goto(r, IF req[r].op = "refresh" THEN "revoked" ELSE "commit") /\ req[r].pc = "revoke"
      BY <1>3 DEF Revoke, At
    <2>2. CASE req[r].op = "refresh"
      BY <1>1, <2>1, <2>2, GoesTo DEF Places, PreCommit, Moves, Advances, SameTask
    <2>3. CASE req[r].op # "refresh"
      BY <1>1, <2>1, <2>3, GoesElsewhere DEF Places, PreCommit
    <2>4. QED
      BY <2>2, <2>3
  <1>4. CASE UncacheRotated(r)
    <2>1. req[r].pc = "revoked" /\ req[r].sid \in Sids /\ sess[req[r].sid] \in Row
      BY <1>4, Facts DEF UncacheRotated, At, RequestSound, SessionsOf, SystemInv, TypeOK, StoreTypeOK
    <2>2. Remaining(req[r].sid) \in Time
      BY <1>1, <2>1 DEF Remaining, Row, Time
    <2>3. QED
      BY <1>1, <1>4, <2>1, <2>2, InsertMoves DEF UncacheRotated
  <1>5. QED
    BY <1>2, <1>3, <1>4

\* The flushes and purges of the revocations.
LEMMA RevocationMoves ==
    ASSUME SystemInv, NEW r \in Reqs,
           ListActive(r) \/ SelectAll(r) \/ WriteAll(r) \/ Evict(r) \/ CommitRevocations(r)
           \/ Purge(r) \/ PurgeGrace(r)
    PROVE  Moves(req[r], req'[r]) /\ OthersStay(r)
  <1>1. req[r] \in Request /\ req[r].new = Nil /\ clock \in Time
    BY Facts, NothingNew, StoredTypes
       DEF ListActive, SelectAll, WriteAll, Evict, CommitRevocations, Purge, PurgeGrace, At
  <1>2. CASE ListActive(r)
    <2> DEFINE q == [req[r] EXCEPT !.purge = ActiveSessions(req[r].user), !.pc = "select_all"]
    <2>1. q.pc = "select_all"
      BY <1>1 DEF Request
    <2>2. Become(r, q)
      BY <1>2 DEF ListActive
    <2> HIDE DEF q
    <2>3. QED
      BY <2>1, <2>2, BecomesIt DEF SystemInv, Moves, Watched, Inserting
  <1>3. CASE SelectAll(r)
    <2> DEFINE m == [req[r] EXCEPT !.todo = NonRevoked(req[r].user)]
               q == [m EXCEPT !.at = clock]
    <2>1. m \in Request /\ m.new = Nil
      <3>1. NonRevoked(req[r].user) \in SUBSET Sids
        BY StoredTypes
      <3>2. QED
        BY <1>1, <3>1 DEF Request
    <2>2. q \in Request /\ q.new = Nil
      <3> HIDE DEF m
      <3>1. QED
        BY <1>1, <2>1 DEF Request
    <2>3. Become(r, Writing(q))
      BY <1>3 DEF SelectAll
    <2> HIDE DEF q
    <2>4. QED
      BY <2>2, <2>3, WritingMoves
  <1>4. CASE WriteAll(r)
    <2> DEFINE s == FirstByPk(req[r].todo)
               q == [req[r] EXCEPT !.todo = @ \ {s}]
    <2>1. q \in Request /\ q.new = Nil
      BY <1>1 DEF Request
    <2>2. Become(r, Writing(q))
      BY <1>4 DEF WriteAll
    <2> HIDE DEF q
    <2>3. QED
      BY <2>1, <2>2, WritingMoves
  <1>5. CASE CommitRevocations(r)
    BY <1>1, <1>5, PurgingMoves DEF CommitRevocations
  <1>6. CASE Evict(r) \/ Purge(r)
    BY <1>1, <1>6, GoesElsewhere DEF Evict, Purge, Places, PreCommit, Other
  <1>7. CASE PurgeGrace(r)
    <2> DEFINE q == [req[r] EXCEPT !.purge = @ \ {Min(@)}]
    <2>1. q \in Request /\ q.new = Nil
      BY <1>1 DEF Request
    <2>2. Become(r, Purging(q))
      BY <1>7 DEF PurgeGrace
    <2> HIDE DEF q
    <2>3. QED
      BY <2>1, <2>2, PurgingMoves
  <1>8. QED
    BY <1>2, <1>3, <1>4, <1>5, <1>6, <1>7

\* What follows the commit of a login or a rotation.
LEMMA AnswerMoves ==
    ASSUME SystemInv, NEW r \in Reqs, Replay(r) \/ Warm(r) \/ SetGrace(r)
    PROVE  Moves(req[r], req'[r]) /\ OthersStay(r)
  <1>1. CASE Return(r)
    BY <1>1, Ends DEF Moves
  <1>2. CASE Goto(r, "set_grace") /\ Warm(r) /\ req[r].op # "login"
    <2>1. UNCHANGED sess /\ req[r].pc = "warm"
      BY <1>2 DEF Warm, db, At
    <2>2. QED
      BY <1>2, <2>1, GoesTo DEF Places, PostCommit, Moves, Warms
  <1>3. QED
    BY <1>1, <1>2 DEF Replay, Warm, SetGrace

\* The gate.
LEMMA GateMoves ==
    ASSUME SystemInv, NEW r \in Reqs, GateStep(r)
    PROVE  Moves(req[r], req'[r]) /\ OthersStay(r)
  <1>1. req[r] \in Request /\ req[r].new = Nil
    BY Facts, NothingNew
       DEF GateStep, ReadSession, WarmSession, ReadUserCache, ReadUser, WarmUser, Handle, At
  <1>2. CASE Return(r)
    BY <1>2, Ends DEF Moves
  <1>3. ASSUME NEW pc \in {"user_cache", "user_db", "granted", "list_active"}, Goto(r, pc)
        PROVE  Moves(req[r], req'[r]) /\ OthersStay(r)
    BY <1>3, GoesElsewhere DEF Places, PreCommit, Other
  <1>4. CASE ReadSession(r)
    <2> DEFINE q == [req[r] EXCEPT !.seen = sess[req[r].sid].revoked, !.pc = "session_warm"]
    <2>1. q.pc = "session_warm" /\ SameTask(req[r], q) /\ q.seen = sess[req[r].sid].revoked
      BY <1>1 DEF Request, SameTask
    <2>2. Become(r, q) /\ UNCHANGED sess /\ req[r].pc = "session_db"
      BY <1>4 DEF ReadSession, At, storeVars, db
    <2> HIDE DEF q
    <2>3. QED
      BY <2>1, <2>2, BecomesIt DEF SystemInv, Moves, Reads
  <1>5. CASE ReadUser(r)
    <2> DEFINE q == [req[r] EXCEPT !.loaded = users[req[r].user].status, !.pc = "user_warm"]
    <2>1. q.pc = "user_warm"
      BY <1>1 DEF Request
    <2>2. Return(r) \/ Become(r, q)
      BY <1>5 DEF ReadUser
    <2> HIDE DEF q
    <2>3. QED
      BY <1>2, <2>1, <2>2, BecomesIt DEF SystemInv, Moves, Watched, Inserting
  <1>6. CASE WarmSession(r) \/ ReadUserCache(r) \/ WarmUser(r) \/ Handle(r)
    BY <1>2, <1>3, <1>6 DEF WarmSession, ReadUserCache, WarmUser, Handle, Decide
  <1>7. QED
    BY <1>4, <1>5, <1>6 DEF GateStep

\* The account operations.
LEMMA AccountMoves ==
    ASSUME SystemInv, NEW r \in Reqs, StatusStep(r) \/ WriteUser(r)
    PROVE  Moves(req[r], req'[r]) /\ OthersStay(r)
  <1>1. req[r] \in Request
    BY Facts
  <1>2. CASE SelectStatus(r)
    <2> DEFINE q == [req[r] EXCEPT !.loaded = users[req[r].user].status, !.pc = "write_status"]
    <2>1. q.pc = "write_status"
      BY <1>1 DEF Request
    <2>2. Become(r, q)
      BY <1>2 DEF SelectStatus
    <2> HIDE DEF q
    <2>3. QED
      BY <2>1, <2>2, BecomesIt DEF SystemInv, Moves, Watched, Inserting
  <1>3. CASE CommitUser(r)
    BY <1>3, GoesElsewhere DEF CommitUser, Places, PostCommit
  <1>4. CASE UncacheUser(r)
    BY <1>4, Ends DEF UncacheUser, Moves
  <1>5. CASE WriteUser(r)
    <2>1. req[r].new = Nil
      BY <1>5, NothingNew DEF WriteUser
    <2>2. PICK pc \in {"list_active", "commit"} : Goto(r, pc)
      BY <1>5 DEF WriteUser
    <2>3. QED
      BY <2>1, <2>2, GoesElsewhere DEF Places, PreCommit
  <1>6. QED
    BY <1>2, <1>3, <1>4, <1>5 DEF StatusStep

\* The commit of an insertion leads to the cache writes.
LEMMA CommitMoves ==
    ASSUME SystemInv, NEW r \in Reqs, CommitNew(r)
    PROVE  Commit(req[r], req'[r]) /\ OthersStay(r)
  BY GoesTo DEF CommitNew, At, Inserting, Commit, Places, PostCommit

\* Every step moves one request along these lines, or none.
LEMMA NextMoves ==
    ASSUME SystemInv, [Next]_vars
    PROVE  \/ UNCHANGED <<req, sess>>
           \/ \E r \in Reqs : /\ OthersStay(r)
                              /\ Moves(req[r], req'[r]) \/ CommitNew(r)
  <1>1. ASSUME NEW r \in Reqs, Step(r)
        PROVE  OthersStay(r) /\ (Moves(req[r], req'[r]) \/ CommitNew(r))
    BY <1>1, LoginMoves, RotationMoves, RevocationMoves, AnswerMoves, GateMoves, AccountMoves,
       CommitMoves DEF Step, AuthStep
  <1>2. ASSUME NEW r \in Reqs, Locking(r)
        PROVE  OthersStay(r) /\ Moves(req[r], req'[r])
    BY <1>2, RotationMoves, RevocationMoves, AccountMoves DEF Locking, LockStep
  <1>3. ASSUME NEW r \in Reqs, DbError(r)
        PROVE  OthersStay(r) /\ Moves(req[r], req'[r])
    BY <1>3, Ends DEF DbError, Moves
  <1>4. Environment => \/ UNCHANGED <<req, sess>>
                       \/ \E r \in Reqs : DbError(r)
    BY DEF Environment, Tick, CacheOutage, db
  <1>5. UNCHANGED vars => UNCHANGED <<req, sess>>
    BY DEF vars, storeVars, db
  <1>6. QED
    BY <1>1, <1>2, <1>3, <1>4, <1>5, ArrivalMoves DEF Next, DeadlockVictim

-----------------------------------------------------------------------------
(* Where keys come from *)

\* A SET of a session key writes one entry, and may lose all others.
LEMMA SetSessionKeyEntries ==
    ASSUME TypeOK, NEW t \in Sids, NEW revoked, NEW ttl, SetSessionKey(t, revoked, ttl), NEW s \in Sids
    PROVE  /\ \/ skey'[s] \in {skey[s], Nil}
              \/ s = t /\ skey'[s].revoked = revoked
           /\ gkey'[s] \in {gkey[s], Nil}
  <1>1. skey \in [Sids -> SessionEntry \cup {Nil}] /\ gkey \in [Sids -> GraceEntry \cup {Nil}]
    BY DEF TypeOK, StoreTypeOK
  <1>2. PICK keys \in {NoSessionKeys, skey} :
           skey' = [keys EXCEPT ![t] = [revoked |-> revoked, until |-> UntilOf(ttl)]]
    BY DEF SetSessionKey
  <1>3. gkey' \in {NoSessionKeys, gkey}
    BY DEF SetSessionKey
  <1>4. keys \in [Sids -> SessionEntry \cup {Nil}] /\ keys[s] \in {skey[s], Nil}
    BY <1>1, <1>2 DEF NoSessionKeys
  <1>5. QED
    BY <1>2, <1>3, <1>4 DEF NoSessionKeys

\* What a step of the environment leaves of the keys.
LEMMA EnvironmentKeys ==
    ASSUME SystemInv, Environment \/ (\E r \in Reqs : DbError(r)), NEW s \in Sids
    PROVE  skey'[s] \in {skey[s], Nil} /\ gkey'[s] \in {gkey[s], Nil}
  <1>1. CASE Tick
    BY <1>1 DEF Tick
  <1>2. CASE CacheOutage
    BY <1>2 DEF CacheOutage, NoSessionKeys
  <1>3. ASSUME NEW r \in Reqs, DbError(r)
        PROVE  skey'[s] \in {skey[s], Nil} /\ gkey'[s] \in {gkey[s], Nil}
    BY <1>3 DEF DbError, cache
  <1>4. QED
    BY <1>1, <1>2, <1>3 DEF Environment

\* Calls and lock waits leave the cache alone.
LEMMA CacheReads ==
    ASSUME NEW r \in Reqs, Arrival(r) \/ Locking(r)
    PROVE  UNCHANGED cache
  BY DEF Arrival, AuthArrival, GateArrival, StatusArrival, Login, Refresh, Logout, Gate,
     ChangeStatus, DeleteUser, Locking, LockStep, Evict, Revoke, WriteAll, WriteUser, storeVars

\* Other steps write what was committed, or what was read, to the cache.
LEMMA StepKeys ==
    ASSUME SystemInv, NEW r \in Reqs, Step(r), NEW s \in Sids
    PROVE  /\ \/ skey'[s] \in {skey[s], Nil}
              \/ At(r, "warm") /\ s = req[r].new /\ skey'[s].revoked = Nil
              \/ At(r, "session_warm") /\ s = req[r].sid /\ skey'[s].revoked = req[r].seen
           /\ \/ gkey'[s] \in {gkey[s], Nil}
              \/ At(r, "set_grace") /\ s = req[r].sid /\ gkey'[s].pair = req[r].new
  <1>1. skey \in [Sids -> SessionEntry \cup {Nil}] /\ gkey \in [Sids -> GraceEntry \cup {Nil}]
    BY DEF SystemInv, TypeOK, StoreTypeOK
  <1>2. CASE Warm(r)
    <2>1. At(r, "warm") /\ req[r].new \in Sids
      BY <1>2, Facts DEF Warm, At, RequestSound, Request
    <2>2. SetSessionKey(req[r].new, Nil, req[r].ttl)
      BY <1>2 DEF Warm
    <2>3. QED
      BY <2>1, <2>2, SetSessionKeyEntries DEF SystemInv
  <1>3. CASE WarmSession(r)
    <2>1. At(r, "session_warm") /\ req[r].sid \in Sids
      BY <1>3, Facts DEF WarmSession, At, RequestSound, Request
    <2>2. SetSessionKey(req[r].sid, req[r].seen, CACHE_TTL)
      BY <1>3 DEF WarmSession
    <2>3. QED
      BY <2>1, <2>2, SetSessionKeyEntries DEF SystemInv
  <1>4. CASE SetGrace(r)
    <2>1. At(r, "set_grace") /\ req[r].sid \in Sids /\ skey' = skey
      BY <1>4, Facts DEF SetGrace, At, RequestSound, Request
    <2>2. gkey' = [gkey EXCEPT ![req[r].sid] = [pair |-> req[r].new, until |-> clock + GRACE]]
      BY <1>4 DEF SetGrace
    <2>3. QED
      BY <1>1, <2>1, <2>2
  <1>5. CASE UncacheEvicted(r) \/ UncacheRotated(r) \/ Purge(r)
    BY <1>1, <1>5 DEF UncacheEvicted, UncacheRotated, Purge, DeleteSessionKey
  <1>6. CASE PurgeGrace(r)
    BY <1>1, <1>6 DEF PurgeGrace
  <1>7. CASE \/ ListSessions(r) \/ Replay(r) \/ CheckUser(r) \/ CommitNew(r)
             \/ ListActive(r) \/ SelectAll(r) \/ CommitRevocations(r)
    BY <1>7 DEF ListSessions, Replay, CheckUser, CommitNew, ListActive, SelectAll,
       CommitRevocations, storeVars, cache
  <1>8. CASE ReadSession(r) \/ ReadUserCache(r) \/ ReadUser(r) \/ WarmUser(r) \/ Handle(r)
    BY <1>8 DEF ReadSession, ReadUserCache, ReadUser, WarmUser, Handle, storeVars, cache
  <1>9. CASE StatusStep(r)
    BY <1>9 DEF StatusStep, SelectStatus, CommitUser, UncacheUser, storeVars, cache
  <1>10. QED
    BY <1>2, <1>3, <1>4, <1>5, <1>6, <1>7, <1>8, <1>9 DEF Step, AuthStep, GateStep

\* So these are all the keys there are.
LEMMA KeySteps ==
    ASSUME SystemInv, [Next]_vars, NEW s \in Sids
    PROVE  /\ \/ skey'[s] \in {skey[s], Nil}
              \/ \E r \in Reqs : At(r, "warm") /\ s = req[r].new /\ skey'[s].revoked = Nil
              \/ \E r \in Reqs : /\ At(r, "session_warm") /\ s = req[r].sid
                                 /\ skey'[s].revoked = req[r].seen
           /\ \/ gkey'[s] \in {gkey[s], Nil}
              \/ \E r \in Reqs : /\ At(r, "set_grace") /\ s = req[r].sid
                                 /\ gkey'[s].pair = req[r].new
  <1>1. UNCHANGED cache => skey' = skey /\ gkey' = gkey
    BY DEF cache
  <1>2. UNCHANGED vars => UNCHANGED cache
    BY DEF vars, storeVars
  <1>3. QED
    BY <1>1, <1>2, EnvironmentKeys, CacheReads, StepKeys DEF Next, DeadlockVictim

-----------------------------------------------------------------------------
(* What the keys say of the table *)

\* What a request is about to cache is true of the table: a revocation it has
\* read stays, and a rotation it has committed revoked the session it replaced.
KeyPending(q) ==
    /\ q.pc = "session_warm" /\ q.seen # Nil => Revoked(sess[q.sid])
    /\ q.pc = "set_grace" => q.op = "refresh"
    /\ q.pc \in {"warm", "set_grace"} /\ q.op = "refresh" =>
          Revoked(sess[q.sid]) /\ q.new \in Successors(q.sid)

KeysInv ==
    /\ CachedSessionSound /\ GraceEntrySound
    /\ \A r \in Reqs : KeyPending(req[r])

\* Revocations and successors stay.
LEMMA SuccessorsKept ==
    ASSUME SystemInv, [Next]_vars, NEW s \in Sids, Stored(s)
    PROVE  /\ Stored(s)' /\ (Revoked(sess[s]) => Revoked(sess'[s]))
           /\ Successors(s) \subseteq Successors(s)'
  <1>1. Stored(s)' /\ (Revoked(sess[s]) => Revoked(sess'[s]))
    BY RowsKept DEF Stored
  <1>2. ASSUME NEW t \in Successors(s) PROVE t \in Successors(s)'
    <2>1. t \in Sids /\ Stored(t) /\ sess[t].prev = s /\ sess[t] \in Row
      BY DEF Successors, SystemInv, TypeOK, StoreTypeOK, Stored
    <2>2. sess'[t] # Nil /\ sess'[t] = [sess[t] EXCEPT !.revoked = sess'[t].revoked]
      BY <2>1, RowsKept
    <2>3. [sess[t] EXCEPT !.revoked = sess'[t].revoked].prev = sess[t].prev
      BY <2>1 DEF Row
    <2>4. sess'[t].prev = s
      BY <2>1, <2>2, <2>3
    <2>5. QED
      BY <2>1, <2>2, <2>4 DEF Successors, Stored
  <1>3. QED
    BY <1>1, <1>2

\* The commit of a rotation revokes the session and records its successor.
LEMMA RotationCommitted ==
    ASSUME SystemInv, NEW r \in Reqs, CommitNew(r), req[r].op = "refresh",
           NEW s, s = req[r].sid, NEW n, n = req[r].new
    PROVE  s \in Sids /\ Stored(s) /\ Revoked(sess'[s]) /\ n \in Successors(s)'
  <1>1. /\ s \in Sids /\ Stored(s) /\ n \in Sids
        /\ At(r, "commit") /\ n # Nil /\ Rotating(req[r])
    BY Facts DEF CommitNew, At, RequestSound, SessionsOf, Stored, Request, Rotating
  <1>2. HeldBy(r, s)
    BY <1>1, Facts DEF LocksFor
  <1>3. sess'[s] = [sess[s] EXCEPT !.revoked = locks[s].at] /\ locks[s].at \in Time
    BY <1>1, <1>2, CommitKeepsRow DEF Commits
  <1>4. Revoked(sess'[s])
    <2>1. sess[s] \in Row
      BY <1>1 DEF SystemInv, TypeOK, StoreTypeOK, Stored
    <2>2. sess'[s].revoked = locks[s].at
      BY <1>3, <2>1 DEF Row
    <2>3. QED
      BY <1>3, <2>2, NilAssumption DEF Revoked, Time
  <1>5. sess'[n] = NewRow(req[r])
    BY <1>1, StampedFields DEF CommitNew, PublishWithInsert
  <1>6. NewRow(req[r]) # Nil /\ NewRow(req[r]).prev = s
    BY <1>1, NewRowFields, NilAssumption DEF NewRow
  <1>7. QED
    BY <1>1, <1>4, <1>5, <1>6 DEF Successors, Stored

\* What is pending stays true, and what becomes pending is true.
LEMMA PendingKept ==
    ASSUME SystemInv, [Next]_vars, NEW r \in Reqs, KeyPending(req[r])
    PROVE  KeyPending(req[r])'
  <1> PICK p : p = req[r]
    OBVIOUS
  <1> PICK q, s, n : q = req'[r] /\ s = q.sid /\ n = q.new
    OBVIOUS
  <1>1. SUFFICES
          /\ q.pc = "session_warm" /\ q.seen # Nil => Revoked(sess'[s])
          /\ q.pc = "set_grace" => q.op = "refresh"
          /\ q.pc \in {"warm", "set_grace"} /\ q.op = "refresh" =>
                Revoked(sess'[s]) /\ n \in Successors(s)'
    BY DEF KeyPending, Successors, Stored, Revoked
  <1>2. /\ p.pc \in {"session_db", "session_warm"} => p.sid \in Sids /\ Stored(p.sid)
        /\ p.pc \in {"warm", "set_grace"} /\ p.op = "refresh" => p.sid \in Sids /\ Stored(p.sid)
        /\ p.pc \in {"warm", "set_grace"} => p.op \in {"login", "refresh"}
    BY Facts DEF RequestSound, SessionsOf, Stored
  <1>3. CASE q = p
    BY <1>2, <1>3, SuccessorsKept DEF KeyPending
  <1>4. CASE ~Watched(q)
    BY <1>4 DEF Watched
  <1>5. CASE Starts(p, q) \/ Advances(p, q)
    BY <1>5 DEF Starts, Advances, Inserting
  <1>6. CASE Reads(p, q)
    <2>1. q.pc = "session_warm" /\ q.sid = p.sid /\ (q.seen # Nil => Revoked(sess[p.sid]))
      BY <1>6 DEF Reads, SameTask, Revoked
    <2>2. QED
      BY <1>2, <1>6, <2>1, SuccessorsKept DEF Reads
  <1>7. CASE Warms(p, q)
    BY <1>2, <1>7, SuccessorsKept DEF Warms, SameTask, KeyPending
  <1>8. CASE CommitNew(r)
    <2>1. q.pc = "warm" /\ q.op = p.op /\ q.sid = p.sid /\ q.new = p.new
      BY <1>8, CommitMoves DEF Commit, SameTask
    <2>2. QED
      BY <1>8, <2>1, RotationCommitted
  <1>9. QED
    BY <1>3, <1>4, <1>5, <1>6, <1>7, <1>8, NextMoves DEF OthersStay, Moves

\* Session keys stay right.
LEMMA SessionKeysKept ==
    ASSUME SystemInv, KeysInv, [Next]_vars
    PROVE  CachedSessionSound'
  <1> SUFFICES ASSUME NEW s \in Sids, skey'[s] # Nil
               PROVE  Stored(s)' /\ (skey'[s].revoked # Nil => Revoked(sess'[s]))
    BY DEF CachedSessionSound
  <1>1. CASE skey'[s] = skey[s]
    BY <1>1, SuccessorsKept DEF KeysInv, CachedSessionSound
  <1>2. ASSUME NEW r \in Reqs, At(r, "warm"), s = req[r].new, skey'[s].revoked = Nil
        PROVE  Stored(s)' /\ (skey'[s].revoked # Nil => Revoked(sess'[s]))
    BY <1>2, Facts, SuccessorsKept DEF At, RequestSound
  <1>3. ASSUME NEW r \in Reqs, At(r, "session_warm"), s = req[r].sid, skey'[s].revoked = req[r].seen
        PROVE  Stored(s)' /\ (skey'[s].revoked # Nil => Revoked(sess'[s]))
    <2>1. Stored(s) /\ (req[r].seen # Nil => Revoked(sess[s]))
      BY <1>3, Facts DEF At, RequestSound, SessionsOf, Stored, KeysInv, KeyPending
    <2>2. QED
      BY <1>3, <2>1, SuccessorsKept
  <1>4. QED
    BY <1>1, <1>2, <1>3, KeySteps

\* So do grace keys.
LEMMA GraceKeysKept ==
    ASSUME SystemInv, KeysInv, [Next]_vars
    PROVE  GraceEntrySound'
  <1> SUFFICES ASSUME NEW s \in Sids, gkey'[s] # Nil
               PROVE  Stored(s)' /\ Revoked(sess'[s]) /\ gkey'[s].pair \in Successors(s)'
    BY DEF GraceEntrySound
  <1>1. CASE gkey'[s] = gkey[s]
    BY <1>1, SuccessorsKept DEF KeysInv, GraceEntrySound
  <1>2. ASSUME NEW r \in Reqs, At(r, "set_grace"), s = req[r].sid, gkey'[s].pair = req[r].new
        PROVE  Stored(s)' /\ Revoked(sess'[s]) /\ gkey'[s].pair \in Successors(s)'
    <2>1. Stored(s) /\ Revoked(sess[s]) /\ req[r].new \in Successors(s)
      BY <1>2, Facts DEF At, RequestSound, SessionsOf, Stored, KeysInv, KeyPending
    <2>2. QED
      BY <1>2, <2>1, SuccessorsKept
  <1>3. QED
    BY <1>1, <1>2, KeySteps

\* Together they are inductive, given SystemInv.
LEMMA KeysInvariant == Spec => []KeysInv
  <1>1. Init => KeysInv
    BY IdleFields DEF Init, StoreInit, AuthInit, KeysInv, CachedSessionSound, GraceEntrySound,
       KeyPending
  <1>2. SystemInv /\ KeysInv /\ [Next]_vars => KeysInv'
    BY PendingKept, SessionKeysKept, GraceKeysKept DEF KeysInv
  <1>3. QED
    BY <1>1, <1>2, SystemInvariant, PTL DEF Spec

\* The gate never takes a live session for a revoked one: a cached revocation
\* was read from a committed row (authentication.py:67-71), is not a dirty read
\* of one that is rolled back, and no revocation is taken back.
THEOREM CachedRevocationsTrue == Spec => []CachedSessionSound
  <1>1. KeysInv => CachedSessionSound
    BY DEF KeysInv
  <1>2. QED
    BY <1>1, KeysInvariant, PTL

\* A retry inside the grace window is only ever answered with the pair of a
\* committed successor of its own session (service.py:249-251), whatever
\* rotations and rollbacks overlap.
THEOREM GraceEntriesTrue == Spec => []GraceEntrySound
  <1>1. KeysInv => GraceEntrySound
    BY DEF KeysInv
  <1>2. QED
    BY <1>1, KeysInvariant, PTL

-----------------------------------------------------------------------------
(* How far a chain can fork *)

\* The rotations of s that have passed the check of its row and not committed.
Rotators(s) ==
    {r \in Reqs : /\ req[r].op = "refresh" /\ req[r].sid = s
                  /\ req[r].pc \in {"user", "revoke", "revoked"} \/ Inserting(req[r])}

\* Each of them will add one successor, and each successor was one of them.
ForkInv ==
    \A s \in Sids :
        Cardinality(Successors(s)) + Cardinality(Rotators(s)) <= Cardinality(Reqs)

\* A set grows by one element at most ...
LEMMA AtMostOneMore ==
    ASSUME NEW S, IsFiniteSet(S), NEW x, NEW T \in SUBSET (S \cup {x})
    PROVE  Cardinality(T) <= Cardinality(S) + 1
  <1>1. IsFiniteSet(S \cup {x})
    BY FS_AddElement
  <1>2. Cardinality(S \cup {x}) = IF x \in S THEN Cardinality(S) ELSE Cardinality(S) + 1
    BY FS_AddElement
  <1>3. Cardinality(T) <= Cardinality(S \cup {x}) /\ Cardinality(T) \in Nat /\ Cardinality(S) \in Nat
    BY <1>1, FS_Subset, FS_CardinalityType
  <1>4. QED
    BY <1>2, <1>3

\* ... or loses one.
LEMMA OneLess ==
    ASSUME NEW S, IsFiniteSet(S), NEW x \in S, NEW T \in SUBSET (S \ {x})
    PROVE  Cardinality(T) <= Cardinality(S) - 1
  <1>1. IsFiniteSet(S \ {x}) /\ Cardinality(S \ {x}) = Cardinality(S) - 1
    BY FS_RemoveElement
  <1>2. QED
    BY <1>1, FS_Subset

\* The sets counted are finite.
LEMMA ForkFinite ==
    ASSUME NEW s
    PROVE  /\ IsFiniteSet(Successors(s)) /\ Cardinality(Successors(s)) \in Nat
           /\ IsFiniteSet(Rotators(s)) /\ Cardinality(Rotators(s)) \in Nat
           /\ Cardinality(Rotators(s)) <= Cardinality(Reqs) /\ Cardinality(Reqs) \in Nat
  <1>1. IsFiniteSet(Sids)
    BY NatAssumption, FS_Interval DEF Sids
  <1>2. Successors(s) \subseteq Sids /\ Rotators(s) \subseteq Reqs
    BY DEF Successors, Rotators
  <1>3. QED
    BY <1>1, <1>2, ReqsAssumption, FS_Subset, FS_CardinalityType

\* Only the commit of a rotation of s adds a successor of s.
LEMMA SuccessorAppears ==
    ASSUME SystemInv, [Next]_vars, NEW s \in Sids, NEW t \in Successors(s)' \ Successors(s)
    PROVE  \E r \in Reqs : CommitNew(r) /\ req[r].op = "refresh" /\ req[r].sid = s
                           /\ Successors(s)' \subseteq Successors(s) \cup {req[r].new}
  <1>1. s # Nil
    BY NatAssumption, NilAssumption DEF Sids
  <1>2. ASSUME NEW x \in Successors(s)' \ Successors(s) PROVE ~Stored(x)
    <2>1. x \in Sids /\ sess'[x] # Nil /\ sess'[x].prev = s
      BY <1>2 DEF Successors, Stored
    <2>2. SUFFICES ASSUME Stored(x) PROVE FALSE
      OBVIOUS
    <2>3. sess'[x] = [sess[x] EXCEPT !.revoked = sess'[x].revoked] /\ sess[x] \in Row
      BY <2>1, <2>2, RowsKept DEF SystemInv, TypeOK, StoreTypeOK, Stored
    <2>4. [sess[x] EXCEPT !.revoked = sess'[x].revoked].prev = sess[x].prev
      BY <2>3 DEF Row
    <2>5. sess[x].prev = s
      BY <2>1, <2>3, <2>4
    <2>6. QED
      BY <1>2, <2>1, <2>2, <2>5 DEF Successors
  <1>3. t \in Sids /\ sess[t] = Nil /\ sess'[t] # Nil
    BY <1>2 DEF Successors, Stored
  <1>4. PICK r \in Reqs : Commits(r)
    BY <1>3, TableSteps
  <1>5. CommitNew(r)
    BY <1>3, <1>4, StampedFields DEF Commits, CommitRevocations, CommitUser, PublishSessions
  <1>6. req[r].new \in Sids /\ At(r, "commit") /\ req[r].new # Nil
    BY <1>5, Facts DEF CommitNew, Request
  <1>7. /\ sess'[req[r].new] = NewRow(req[r])
        /\ \A x \in Sids \ {req[r].new} : sess'[x] = Stamped(r)[x]
    BY <1>5, <1>6, StampedFields DEF CommitNew, PublishWithInsert
  <1>8. ASSUME NEW x \in Successors(s)' \ Successors(s) PROVE x = req[r].new
    <2>1. x \in Sids /\ sess[x] = Nil /\ sess'[x] # Nil
      BY <1>2, <1>8 DEF Successors, Stored
    <2>2. QED
      BY <1>7, <2>1, StampedFields
  <1>9. req[r].sid = s
    <2>1. t = req[r].new /\ sess'[t].prev = s
      BY <1>8 DEF Successors
    <2>2. QED
      BY <1>7, <2>1 DEF NewRow
  <1>10. req[r].op = "refresh"
    BY <1>1, <1>6, <1>9, Facts DEF RequestSound
  <1>11. QED
    BY <1>5, <1>8, <1>9, <1>10

\* That rotation is no longer under way, and no other has begun.
LEMMA RotatorCommits ==
    ASSUME SystemInv, NEW r \in Reqs, CommitNew(r), req[r].op = "refresh",
           NEW s, s = req[r].sid
    PROVE  r \in Rotators(s) /\ Rotators(s)' \subseteq Rotators(s) \ {r}
  <1>1. Commit(req[r], req'[r]) /\ OthersStay(r)
    BY CommitMoves
  <1>2. QED
    BY <1>1 DEF Commit, OthersStay, Rotators, Inserting

\* A rotation begins on an active session only.
LEMMA RotatorAppears ==
    ASSUME SystemInv, [Next]_vars, NEW s \in Sids, ~(Rotators(s)' \subseteq Rotators(s))
    PROVE  Active(sess[s]) /\ UNCHANGED sess
  <1>1. PICK r \in Reqs : r \in Rotators(s)' \ Rotators(s)
    BY DEF Rotators
  <1>2. PICK p, q : p = req[r] /\ q = req'[r]
    OBVIOUS
  <1>3. /\ q.op = "refresh" /\ q.sid = s /\ Watched(q)
        /\ q.pc \in {"user", "revoke", "revoked"} \/ Inserting(q)
    BY <1>1, <1>2 DEF Rotators, Watched, Inserting
  <1>4. ~(p.op = "refresh" /\ p.sid = s /\ (p.pc \in {"user", "revoke", "revoked"} \/ Inserting(p)))
    BY <1>1, <1>2 DEF Rotators
  <1>5. q # p
    BY <1>3, <1>4
  <1>6. Moves(p, q) \/ CommitNew(r)
    BY <1>2, <1>5, NextMoves DEF OthersStay
  <1>7. ~CommitNew(r)
    BY <1>2, <1>3, CommitMoves DEF Commit, Inserting
  <1>8. UNCHANGED sess /\ Starts(p, q)
    BY <1>3, <1>4, <1>6, <1>7 DEF Moves, Advances, Reads, Warms, Inserting
  <1>9. QED
    BY <1>3, <1>8 DEF Starts

\* A step keeps the count: a rotation that begins finds no successor, and one
\* that commits turns from the one kind into the other.
LEMMA ForkKept ==
    ASSUME SystemInv, LineageSound, ForkInv, [Next]_vars
    PROVE  ForkInv'
  <1> SUFFICES ASSUME NEW s \in Sids
               PROVE  Cardinality(Successors(s)') + Cardinality(Rotators(s)') <= Cardinality(Reqs)
    BY DEF ForkInv
  <1> DEFINE S == Successors(s)
             R == Rotators(s)
  <1>1. /\ IsFiniteSet(S) /\ Cardinality(S) \in Nat /\ IsFiniteSet(R) /\ Cardinality(R) \in Nat
        /\ Cardinality(Reqs) \in Nat
    BY ForkFinite
  <1>2. /\ IsFiniteSet(S') /\ Cardinality(S') \in Nat /\ IsFiniteSet(R') /\ Cardinality(R') \in Nat
        /\ Cardinality(R') <= Cardinality(Reqs)
    <2>1. IsFiniteSet(Sids)
      BY NatAssumption, FS_Interval DEF Sids
    <2>2. S' \subseteq Sids /\ R' \subseteq Reqs
      BY DEF Successors, Rotators
    <2>3. QED
      BY <2>1, <2>2, ReqsAssumption, FS_Subset, FS_CardinalityType
  <1>3. Cardinality(S) + Cardinality(R) <= Cardinality(Reqs)
    BY DEF ForkInv
  <1>4. CASE S' \subseteq S /\ R' \subseteq R
    <2>1. Cardinality(S') <= Cardinality(S) /\ Cardinality(R') <= Cardinality(R)
      BY <1>1, <1>4, FS_Subset
    <2>2. QED
      BY <1>1, <1>2, <1>3, <2>1
  <1>5. CASE S' \subseteq S /\ ~(R' \subseteq R)
    <2>1. Active(sess[s])
      BY <1>5, RotatorAppears
    <2>2. S = {}
      BY <2>1, NatAssumption, NilAssumption DEF LineageSound, Successors, Active, Sids
    <2>3. S' = {}
      BY <1>5, <2>2
    <2>4. Cardinality(S') = 0
      BY <2>3, FS_EmptySet
    <2>5. QED
      BY <1>2, <2>4
  <1>6. CASE ~(S' \subseteq S)
    <2>1. PICK r \in Reqs : /\ CommitNew(r) /\ req[r].op = "refresh" /\ req[r].sid = s
                           /\ S' \subseteq S \cup {req[r].new}
      BY <1>6, SuccessorAppears
    <2>2. r \in R /\ R' \subseteq R \ {r}
      BY <2>1, RotatorCommits
    <2>3. Cardinality(S') <= Cardinality(S) + 1
      BY <1>1, <2>1, AtMostOneMore
    <2>4. Cardinality(R') <= Cardinality(R) - 1
      BY <1>1, <2>2, OneLess
    <2>5. QED
      BY <1>1, <1>2, <1>3, <2>3, <2>4
  <1>7. QED
    BY <1>4, <1>5, <1>6

\* Nothing is counted at first.
LEMMA ForkInit == Init => ForkInv
  <1> SUFFICES ASSUME Init, NEW s \in Sids
               PROVE  Cardinality(Successors(s)) + Cardinality(Rotators(s)) <= Cardinality(Reqs)
    BY DEF ForkInv
  <1>1. Successors(s) = {} /\ Rotators(s) = {}
    BY IdleFields DEF Init, StoreInit, AuthInit, Successors, Stored, Rotators, Inserting
  <1>2. QED
    BY <1>1, ForkFinite, FS_EmptySet

\* However rotations of one session overlap, its chain forks at most as often as
\* there are requests in flight: a token read as unused is spent by those who
\* read it so, never again after the first of them commits (service.py:204-246).
THEOREM ForksBounded == Spec => []ForkBounded
  <1>1. SystemInv /\ LineageSound /\ ForkInv /\ [Next]_vars => ForkInv'
    BY ForkKept
  <1>2. ForkInv => ForkBounded
    BY ForkFinite DEF ForkInv, ForkBounded
  <1>3. QED
    BY <1>1, <1>2, ForkInit, SystemInvariant, RotationsKeepLineage, PTL DEF Spec

\* Where requests are served one at a time a refresh token is spent once
\* (the commit of service.py:237).
THEOREM TokenSpentOnce ==
    ASSUME Cardinality(Reqs) = 1
    PROVE  Spec => []AtMostOneSuccessor
  <1>1. ForkBounded => AtMostOneSuccessor
    BY DEF ForkBounded, AtMostOneSuccessor
  <1>2. QED
    BY <1>1, ForksBounded, PTL
==============================================================================
