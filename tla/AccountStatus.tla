---------------------------- MODULE AccountStatus ---------------------------
(***************************************************************************)
(* The two operations of UserService (src/modules/users/service.py) that   *)
(* lock an account out, change_status and delete_user, with the session    *)
(* revoker they call: AuthSessionRevoker revokes and purges in the         *)
(* caller's transaction, before the caller commits.  The purge is that of  *)
(* AuthService, whose Purging hands over to the commit here.               *)
(***************************************************************************)
EXTENDS AuthService

Transitions == [
    pending   |-> {"active", "banned"},
    active    |-> {"suspended", "banned"},
    suspended |-> {"active", "banned"},
    banned    |-> {}]

\* User.transition_to: the current status is accepted without effect.
MayBecome(from, to) == to = from \/ to \in Transitions[from]

\* Faulty variant: without User.transition_to.
ChangeStatusUnchecked(r, u, to) ==
    /\ "change" \in Ops /\ At(r, "idle")
    /\ Found(u)
    /\ Become(r, [Begin("change", u, Nil, "select_status") EXCEPT !.target = to])
    /\ UNCHANGED <<storeVars, issued>>

\* get_by_id and transition_to
ChangeStatus(r, u, to) ==
    /\ "change" \in Ops /\ At(r, "idle")
    /\ Found(u) /\ MayBecome(users[u].status, to)
    /\ Become(r, [Begin("change", u, Nil, "select_status") EXCEPT !.target = to])
    /\ UNCHANGED <<storeVars, issued>>

\* set_status loads the row again; it will write status only where it differs.
SelectStatus(r) ==
    /\ At(r, "select_status")
    /\ Become(r, [req[r] EXCEPT !.loaded = users[req[r].user].status, !.pc = "write_status"])
    /\ UNCHANGED <<storeVars, issued>>

\* get_by_id and deactivate
DeleteUser(r, u) ==
    /\ "delete" \in Ops /\ At(r, "idle") /\ Found(u)
    /\ Become(r, Begin("delete", u, Nil, "write_deleted"))
    /\ UNCHANGED <<storeVars, issued>>

\* The UPDATE of the users row (updated_at always changes) waits for its lock;
\* a lockout then revokes the sessions.
\* Faulty variant: delete_user without the call of the revoker.
RevokesOnLockout(q) == LockedOut(q.target)

Revokes(q) == q.op = "delete" \/ LockedOut(q.target)

WriteUser(r) ==
    /\ req[r].pc \in {"write_status", "write_deleted"}
    /\ ulocks[req[r].user] = Nil
    /\ ulocks' = [ulocks EXCEPT ![req[r].user] = r]
    /\ Goto(r, IF Revokes(req[r]) THEN "list_active" ELSE "commit")
    /\ UNCHANGED <<clock, nextSid, users, sess, locks, cache, issued>>

\* One commit for the users row and the revocations.
Updated(q) ==
    IF q.op = "delete" THEN [users[q.user] EXCEPT !.deleted = TRUE]
    ELSE IF q.target = q.loaded THEN users[q.user]
    ELSE [users[q.user] EXCEPT !.status = q.target]

CommitUser(r) ==
    /\ At(r, "commit") /\ req[r].op \in {"change", "delete"}
    /\ users' = [users EXCEPT ![req[r].user] = Updated(req[r])]
    /\ ulocks' = UnlockedUsers(r)
    /\ PublishSessions(r)
    /\ Goto(r, "uncache_user")
    /\ UNCHANGED <<clock, nextSid, cache, issued>>

UncacheUser(r) ==
    /\ At(r, "uncache_user")
    /\ ukey' = [ukey EXCEPT ![req[r].user] = Nil]
    /\ Return(r)
    /\ UNCHANGED <<clock, nextSid, db, skey, gkey, fallback, issued>>

StatusArrival(r) ==
    \E u \in Users : DeleteUser(r, u) \/ \E to \in Statuses : ChangeStatus(r, u, to)

StatusStep(r) == SelectStatus(r) \/ CommitUser(r) \/ UncacheUser(r)
=============================================================================
