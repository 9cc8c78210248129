---------------------------- MODULE AuthHistory -----------------------------
(***************************************************************************)
(* AuthSystem with a history variable: the accounts a session of which was *)
(* ended otherwise than by a rotation, from the moment a request sets      *)
(* about it.  No action reads it.  It lets the properties of the grace     *)
(* window speak of the accounts where only logins below the device limit   *)
(* and rotations have happened, the ones the window is made for.           *)
(***************************************************************************)
EXTENDS AuthSystem

VARIABLE ended

historyVars == <<vars, ended>>

\* A logout, the evictions of a login, or a logout-all: the user's own, that of
\* the breach response or that of the session revoker.
Ending(q) == q.op = "logout" \/ q.pc \in {"evict", "list_active"}

EndingNow == {req[r].user : r \in {p \in Reqs : Ending(req[p])}}

HistoryInit == Init /\ ended = {}
HistoryNext == Next /\ ended' = ended \cup EndingNow'

HistorySpec == HistoryInit /\ [][HistoryNext]_historyVars

-----------------------------------------------------------------------------
\* Inside the grace window the loser of a rotation gets the new pair: once the
\* rotations are over and unless the cache was lost, the entry is there as long
\* as the window measured from revoked_at lasts (service.py:134-138).  Only the
\* purge of a logout-all that overlapped the rotation may have deleted it.
GraceReplayAvailable ==
    AllIdle /\ ~fallback =>
        \A s \in Sids : /\ Stored(s) /\ Successors(s) # {} /\ sess[s].user \notin ended
                        /\ clock < sess[s].revoked + GRACE
                        => gkey[s] # Nil

\* Request r turns to the breach response: logout_all in refresh_token.
BreachBegins(r) ==
    req'[r].op = "refresh" /\ req'[r].pc = "list_active" /\ ~At(r, "list_active")

\* No breach response without a real reuse in the account: the first time it is
\* entered, some rotated session of the account is past its grace window, unless
\* a logout or an eviction left a token that was never rotated; "a Redis outage
\* can never trigger a false logout_all" (service.py:131-133).
BreachNeedsReuse ==
    [][\A r \in Reqs : BreachBegins(r) =>
          \/ req'[r].user \in ended
          \/ \E s \in SessionsOf(req'[r].user) :
                Revoked(sess[s]) /\ Successors(s) # {} /\ clock > sess[s].revoked + GRACE]_historyVars
=============================================================================
