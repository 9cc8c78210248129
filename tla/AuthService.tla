----------------------------- MODULE AuthService ----------------------------
(***************************************************************************)
(* AuthService (src/modules/auth/service.py): login, refresh-token         *)
(* rotation, logout and logout-all, one action per awaited statement.      *)
(*                                                                         *)
(* Between two awaits any other request may run.  A request that only      *)
(* answers 4xx without having written leaves the state as it is, so it has *)
(* no action: the guards below are the conditions under which the code     *)
(* goes on.  An INSERT is invisible until the commit, so it is one step    *)
(* with the statement before it.                                           *)
(***************************************************************************)
EXTENDS Store

CONSTANT Ops    \* the routes clients call in an instance of the model

AllOps == {"login", "refresh", "logout", "logout_all", "gate", "change", "delete"}
ASSUME OpsAssumption == Ops \subseteq AllOps /\ Nil \notin AllOps

VARIABLES
    req,            \* the requests in flight
    issued          \* sessions whose token pair some client was given

vars == <<storeVars, req, issued>>

PreCommit == {"list", "evict", "evicted", "user", "revoke", "revoked", "list_active",
              "select_all", "write_all", "commit",
              "select_status", "write_status", "write_deleted"}
PostCommit == {"warm", "set_grace", "uncache_user"}
Other == {"idle", "replay", "purge", "purge_grace",
          "session_db", "session_warm", "user_cache", "user_db", "user_warm", "granted"}

Request == [
    op     : AllOps \cup {Nil},
    pc     : PreCommit \cup PostCommit \cup Other,
    user   : Users \cup {Nil},      \* the account the request acts on
    sid    : Sids \cup {Nil},       \* the session its token names
    new    : Sids \cup {Nil},       \* the session it inserts
    at     : Time,                  \* the last datetime.now it keeps
    ttl    : Time,                  \* remaining_seconds
    todo   : SUBSET Sids,           \* rows still to UPDATE
    purge  : SUBSET Sids,           \* sessions whose cache keys are still to delete
    seen   : Time \cup {Nil},       \* revoked_at it read
    target : Statuses \cup {Nil},   \* status it sets
    loaded : Statuses \cup {Nil}]   \* status it read

Idle == [op |-> Nil, pc |-> "idle", user |-> Nil, sid |-> Nil, new |-> Nil, at |-> 0,
         ttl |-> 0, todo |-> {}, purge |-> {}, seen |-> Nil, target |-> Nil, loaded |-> Nil]

At(r, pc) == req[r].pc = pc
Begin(op, u, s, pc) ==
    [Idle EXCEPT !.op = op, !.user = u, !.sid = s, !.pc = pc]
Become(r, q) == req' = [req EXCEPT ![r] = q]
Goto(r, pc) == req' = [req EXCEPT ![r].pc = pc]
Return(r) == Become(r, Idle)

\* bound: a request that will insert a session starts only if an id is left for it
Creating == {r \in Reqs : req[r].pc \in {"list", "evict", "evicted", "user", "revoke", "revoked"}
                          /\ req[r].op \in {"login", "refresh"}}
SidLeft == nextSid + Cardinality(Creating) <= MaxSid

\* UserService.get_user_by_id / _by_email, and the two locked-out statuses
Found(u) == ~users[u].deleted
LockedOut(status) == status \in {"suspended", "banned"}

AuthInit == req = [r \in Reqs |-> Idle] /\ issued = {}

-----------------------------------------------------------------------------
(* authenticate *)

\* The new session's timestamps are taken (for a rotation, remaining_seconds)
\* and the row is INSERTed.
Insert(r, q, ttl) ==
    /\ nextSid \in Sids /\ nextSid' = nextSid + 1
    /\ Become(r, [q EXCEPT !.new = nextSid, !.at = clock, !.ttl = ttl, !.pc = "commit"])

\* User lookup, password check and status check.
Login(r, u) ==
    /\ "login" \in Ops /\ At(r, "idle") /\ SidLeft
    /\ Found(u) /\ ~LockedOut(users[u].status)
    /\ Become(r, Begin("login", u, Nil, "list"))
    /\ UNCHANGED <<storeVars, issued>>

\* Faulty variants: the limit is exceeded by one; a surplus is never evicted.
OverflowLate(S) == IF Cardinality(S) > DEVICE_LIMIT
                   THEN Cardinality(S) - (DEVICE_LIMIT - 1) ELSE 0
OverflowOne(S) == IF Cardinality(S) >= DEVICE_LIMIT THEN 1 ELSE 0

Overflow(S) == IF Cardinality(S) >= DEVICE_LIMIT
               THEN Cardinality(S) - (DEVICE_LIMIT - 1) ELSE 0

\* The n oldest sessions of S.
Oldest(S, n) == {s \in S : Cardinality({t \in S : t < s}) < n}

\* The device limit: decide on the sessions to evict, oldest first.
ListSessions(r) ==
    /\ At(r, "list")
    /\ LET active == ActiveSessions(req[r].user)
           evict == Oldest(active, Overflow(active))
       IN IF evict = {} THEN Insert(r, req[r], LIFETIME)
          ELSE /\ Become(r, [req[r] EXCEPT !.todo = evict, !.at = clock, !.pc = "evict"])
               /\ UNCHANGED nextSid
    /\ UNCHANGED <<clock, db, cache, issued>>

\* update_session of the next one.
Evict(r) ==
    /\ At(r, "evict")
    /\ UpdateRevoked(r, Min(req[r].todo), req[r].at)
    /\ Goto(r, "evicted")
    /\ UNCHANGED <<clock, nextSid, users, sess, ulocks, cache, issued>>

\* Its cache key goes at once, before the commit.
UncacheEvicted(r) ==
    /\ At(r, "evicted")
    /\ DeleteSessionKey(Min(req[r].todo))
    /\ LET rest == req[r].todo \ {Min(req[r].todo)}
           q == [req[r] EXCEPT !.todo = rest]
       IN IF rest = {} THEN Insert(r, q, LIFETIME)
          ELSE Become(r, [q EXCEPT !.at = clock, !.pc = "evict"]) /\ UNCHANGED nextSid
    /\ UNCHANGED <<clock, db, issued>>

-----------------------------------------------------------------------------
(* refresh_token *)

\* Decode the token and read the session row.
Refresh(r, s) ==
    /\ "refresh" \in Ops /\ At(r, "idle")
    /\ s \in issued /\ clock <= RefreshExp(sess[s])
    /\ LET goto(pc) == Become(r, Begin("refresh", sess[s].user, s, pc))
           age == clock - sess[s].revoked
       IN \/ Revoked(sess[s]) /\ age <= GRACE /\ goto("replay")
          \/ Revoked(sess[s]) /\ age > GRACE /\ goto("list_active")    \* logout_all
          \/ Active(sess[s]) /\ SidLeft /\ goto("user")
    /\ UNCHANGED <<storeVars, issued>>

\* Faulty variant: a miss in the cache is taken for a breach.
ReplayOrBreach(r) ==
    /\ At(r, "replay")
    /\ LET e == gkey[req[r].sid]
       IN IF e = Nil THEN Goto(r, "list_active") /\ UNCHANGED issued
          ELSE Return(r) /\ issued' = issued \cup {e.pair}
    /\ UNCHANGED storeVars

\* Inside the grace window: the cached pair, or a 401.
Replay(r) ==
    /\ At(r, "replay")
    /\ LET e == gkey[req[r].sid]
       IN issued' = IF e = Nil THEN issued ELSE issued \cup {e.pair}
    /\ Return(r)
    /\ UNCHANGED storeVars

\* Check the user, then session.revoke().
CheckUser(r) ==
    /\ At(r, "user")
    /\ LET u == users[req[r].user]
       IN IF u.deleted \/ LockedOut(u.status) THEN Return(r)
          ELSE Become(r, [req[r] EXCEPT !.at = clock, !.pc = "revoke"])
    /\ UNCHANGED <<storeVars, issued>>

\* update_session, of refresh_token and of logout.
Revoke(r) ==
    /\ At(r, "revoke")
    /\ UpdateRevoked(r, req[r].sid, req[r].at)
    /\ Goto(r, IF req[r].op = "refresh" THEN "revoked" ELSE "commit")
    /\ UNCHANGED <<clock, nextSid, users, sess, ulocks, cache, issued>>

\* The old session's key is deleted before the commit; then the lifetime left
\* of the chain is computed and the new session inserted.
\* Faulty variant: without max(..., 0).
RemainingUncapped(s) == sess[s].expires - clock

Remaining(s) == IF sess[s].expires > clock THEN sess[s].expires - clock ELSE 0

\* Faulty variant: the grace entry is written before the commit.
UncacheRotatedGraceFirst(r) ==
    /\ At(r, "revoked")
    /\ gkey' = [gkey EXCEPT ![req[r].sid] = [pair |-> nextSid, until |-> clock + GRACE]]
    /\ skey' = [skey EXCEPT ![req[r].sid] = Nil]
    /\ Insert(r, req[r], Remaining(req[r].sid))
    /\ UNCHANGED <<clock, db, ukey, fallback, issued>>

UncacheRotated(r) ==
    /\ At(r, "revoked")
    /\ DeleteSessionKey(req[r].sid)
    /\ Insert(r, req[r], Remaining(req[r].sid))
    /\ UNCHANGED <<clock, db, issued>>

\* The row a login or a rotation has inserted: a rotation inherits the expiry
\* of the chain and links to the session it replaces.
NewRow(q) ==
    [user |-> q.user, created |-> q.at, revoked |-> Nil, prev |-> q.sid,
     expires |-> IF q.op = "login" THEN q.at + LIFETIME ELSE sess[q.sid].expires]

CommitNew(r) ==
    /\ At(r, "commit") /\ req[r].new # Nil
    /\ PublishWithInsert(r, req[r].new, NewRow(req[r]))
    /\ Goto(r, "warm")
    /\ UNCHANGED <<clock, nextSid, users, ulocks, cache, issued>>

\* Cache warming.  A login is answered with it.
Warm(r) ==
    /\ At(r, "warm")
    /\ SetSessionKey(req[r].new, Nil, req[r].ttl)
    /\ IF req[r].op = "login"
       THEN Return(r) /\ issued' = issued \cup {req[r].new}
       ELSE Goto(r, "set_grace") /\ UNCHANGED issued
    /\ UNCHANGED <<clock, nextSid, db>>

\* Faulty variant: the grace entry is keyed by the new session.
SetGraceUnderNew(r) ==
    /\ At(r, "set_grace")
    /\ gkey' = [gkey EXCEPT ![req[r].new] = [pair |-> req[r].new, until |-> clock + GRACE]]
    /\ issued' = issued \cup {req[r].new}
    /\ Return(r)
    /\ UNCHANGED <<clock, nextSid, db, skey, ukey, fallback>>

\* The grace entry for concurrent losers, and the answer.
SetGrace(r) ==
    /\ At(r, "set_grace")
    /\ gkey' = [gkey EXCEPT ![req[r].sid] = [pair |-> req[r].new, until |-> clock + GRACE]]
    /\ issued' = issued \cup {req[r].new}
    /\ Return(r)
    /\ UNCHANGED <<clock, nextSid, db, skey, ukey, fallback>>

-----------------------------------------------------------------------------
(* logout and logout_all *)

\* The deletions of the session and grace keys of q.purge, and what follows:
\* the answer, or for AuthSessionRevoker the caller's commit.
\* Faulty variant: the keys are left in the cache.
PurgingNothing(q) == IF q.op \in {"change", "delete"} THEN [q EXCEPT !.pc = "commit"] ELSE Idle

Purging(q) ==
    IF q.purge # {} THEN [q EXCEPT !.pc = "purge"]
    ELSE IF q.op \in {"change", "delete"} THEN [q EXCEPT !.pc = "commit"] ELSE Idle

\* logout reads the row its access token names; a row already revoked is
\* written back unchanged, and its keys are deleted all the same.
Logout(r, s) ==
    /\ "logout" \in Ops /\ At(r, "idle")
    /\ s \in issued /\ clock <= AccessExp(sess[s])
    /\ LET q == [Begin("logout", sess[s].user, s, "revoke")
                 EXCEPT !.purge = {s}, !.at = clock]
       IN Become(r, IF Revoked(sess[s]) THEN Purging(q) ELSE q)
    /\ UNCHANGED <<storeVars, issued>>

\* logout_all and revoke_user_sessions: the sessions whose keys to delete ...
ListActive(r) ==
    /\ At(r, "list_active")
    /\ Become(r, [req[r] EXCEPT !.purge = ActiveSessions(req[r].user), !.pc = "select_all"])
    /\ UNCHANGED <<storeVars, issued>>

\* ... the rows to revoke, selected by a later statement (revoke_all_sessions) ...
Writing(q) ==
    IF q.todo # {} THEN [q EXCEPT !.pc = "write_all"]
    ELSE IF q.op \in {"change", "delete"} THEN Purging(q) ELSE [q EXCEPT !.pc = "commit"]

SelectAll(r) ==
    /\ At(r, "select_all")
    /\ Become(r, Writing([req[r] EXCEPT !.todo = NonRevoked(req[r].user), !.at = clock]))
    /\ UNCHANGED <<storeVars, issued>>

\* ... the flush, one UPDATE per row in primary-key order ...
FirstByPk(S) == CHOOSE s \in S : \A t \in S : PkRank[s] <= PkRank[t]

WriteAll(r) ==
    /\ At(r, "write_all")
    /\ LET s == FirstByPk(req[r].todo)
       IN /\ UpdateRevoked(r, s, req[r].at)
          /\ Become(r, Writing([req[r] EXCEPT !.todo = @ \ {s}]))
    /\ UNCHANGED <<clock, nextSid, users, sess, ulocks, cache, issued>>

\* ... the commit of logout, logout_all and a breach ...
CommitRevocations(r) ==
    /\ At(r, "commit") /\ req[r].new = Nil /\ req[r].op \notin {"change", "delete"}
    /\ PublishSessions(r)
    /\ Become(r, Purging(req[r]))
    /\ UNCHANGED <<clock, nextSid, users, ulocks, cache, issued>>

\* ... and the keys, session:{id} then grace:{id} of each.
Purge(r) ==
    /\ At(r, "purge")
    /\ DeleteSessionKey(Min(req[r].purge))
    /\ Goto(r, "purge_grace")
    /\ UNCHANGED <<clock, nextSid, db, issued>>

PurgeGrace(r) ==
    /\ At(r, "purge_grace")
    /\ gkey' = [gkey EXCEPT ![Min(req[r].purge)] = Nil]
    /\ Become(r, Purging([req[r] EXCEPT !.purge = @ \ {Min(@)}]))
    /\ UNCHANGED <<clock, nextSid, db, skey, ukey, fallback, issued>>

-----------------------------------------------------------------------------
\* Steps that wait for a row lock another transaction may hold.
LockStep(r) == Evict(r) \/ Revoke(r) \/ WriteAll(r)

\* Any other step of a request already in flight.
AuthStep(r) ==
    \/ ListSessions(r) \/ UncacheEvicted(r) \/ Replay(r) \/ CheckUser(r)
    \/ UncacheRotated(r) \/ CommitNew(r) \/ Warm(r) \/ SetGrace(r)
    \/ ListActive(r) \/ SelectAll(r) \/ CommitRevocations(r) \/ Purge(r) \/ PurgeGrace(r)

AuthArrival(r) ==
    \/ \E u \in Users : Login(r, u)
    \/ \E s \in Sids : Refresh(r, s) \/ Logout(r, s)

InTransaction(r) ==
    \/ req[r].pc \in PreCommit
    \/ req[r].pc \in {"purge", "purge_grace"} /\ req[r].op \in {"change", "delete"}

\* A statement raises (deadlock victim, lost connection, cancelled request):
\* the transaction is rolled back and the request answers 500.
DbError(r) ==
    /\ InTransaction(r)
    /\ Rollback(r)
    /\ Return(r)
    /\ UNCHANGED <<clock, nextSid, cache, issued>>
=============================================================================
