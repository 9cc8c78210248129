------------------------------ MODULE AuthGate ------------------------------
(***************************************************************************)
(* get_current_user (src/modules/auth/dependencies/authentication.py): the *)
(* dependency every protected route runs first.  It looks the session and  *)
(* the user up cache-aside, each a cache read, on a miss a database read,  *)
(* and then a cache write of what was read.                                *)
(*                                                                         *)
(* The tokens are those the service issued, so the ownership check         *)
(* (session.user_id against the token's sub) always succeeds.              *)
(***************************************************************************)
EXTENDS AuthService

\* Decode the access token and read session:{id}.  A cached session that is
\* revoked or expired is a 401.
Gate(r, s, op) ==
    /\ op \in {"gate", "logout_all"} \cap Ops /\ At(r, "idle")
    /\ s \in issued /\ clock <= AccessExp(sess[s])
    /\ skey[s] # Nil => skey[s].revoked = Nil /\ ~Expired(sess[s])
    /\ Become(r, Begin(op, sess[s].user, s,
                       IF skey[s] = Nil THEN "session_db" ELSE "user_cache"))
    /\ UNCHANGED <<storeVars, issued>>

\* Faulty variant: a dirty read, of a revocation that may be rolled back.
ReadSessionDirty(r) ==
    /\ At(r, "session_db")
    /\ LET s == req[r].sid
           seen == IF locks[s] = Nil THEN sess[s].revoked ELSE locks[s].at
       IN Become(r, [req[r] EXCEPT !.seen = seen, !.pc = "session_warm"])
    /\ UNCHANGED <<storeVars, issued>>

ReadSession(r) ==
    /\ At(r, "session_db")
    /\ Become(r, [req[r] EXCEPT !.seen = sess[req[r].sid].revoked, !.pc = "session_warm"])
    /\ UNCHANGED <<storeVars, issued>>

\* Whatever was read is cached, a revoked session too.
WarmSession(r) ==
    /\ At(r, "session_warm")
    /\ SetSessionKey(req[r].sid, req[r].seen, CACHE_TTL)
    /\ IF req[r].seen = Nil /\ ~Expired(sess[req[r].sid])
       THEN Goto(r, "user_cache") ELSE Return(r)
    /\ UNCHANGED <<clock, nextSid, db, issued>>

\* Of the statuses only "active" passes; the route's handler runs next.
Decide(r, status) == IF status = "active" THEN Goto(r, "granted") ELSE Return(r)

ReadUserCache(r) ==
    /\ At(r, "user_cache")
    /\ LET e == ukey[req[r].user]
       IN IF e = Nil THEN Goto(r, "user_db") ELSE Decide(r, e.status)
    /\ UNCHANGED <<storeVars, issued>>

ReadUser(r) ==
    /\ At(r, "user_db")
    /\ LET u == users[req[r].user]
       IN IF u.deleted THEN Return(r)
          ELSE Become(r, [req[r] EXCEPT !.loaded = u.status, !.pc = "user_warm"])
    /\ UNCHANGED <<storeVars, issued>>

WarmUser(r) ==
    /\ At(r, "user_warm")
    /\ ukey' = [ukey EXCEPT ![req[r].user] =
                    [status |-> req[r].loaded, until |-> clock + CACHE_TTL]]
    /\ Decide(r, req[r].loaded)
    /\ UNCHANGED <<clock, nextSid, db, skey, gkey, fallback, issued>>

\* The handler: logout_all, or any other protected route, which leaves the
\* sessions alone.
Handle(r) ==
    /\ At(r, "granted")
    /\ IF req[r].op = "logout_all" THEN Goto(r, "list_active") ELSE Return(r)
    /\ UNCHANGED <<storeVars, issued>>

GateArrival(r) == \E s \in Sids, op \in {"gate", "logout_all"} : Gate(r, s, op)

GateStep(r) == \/ ReadSession(r) \/ WarmSession(r) \/ ReadUserCache(r)
               \/ ReadUser(r) \/ WarmUser(r) \/ Handle(r)
=============================================================================
