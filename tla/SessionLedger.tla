---------------------------- MODULE SessionLedger ---------------------------
(***************************************************************************)
(* What the session store promises, however requests interleave: every     *)
(* commit on the `sessions` table is one of three atomic operations on one *)
(* user's sessions.  A session is opened by a login (which may end others  *)
(* of that user), replaced by a rotation, or ended; it never comes back.   *)
(***************************************************************************)
EXTENDS Naturals

CONSTANTS Users, Sids, Nil

VARIABLE ledger     \* [Sids -> Entry, or Nil where there is no session yet]

Entry == [user : Users, prev : Sids \cup {Nil}, expires : Nat, live : BOOLEAN]

LedgerTypeOK == ledger \in [Sids -> Entry \cup {Nil}]

LedgerInit == ledger = [s \in Sids |-> Nil]

OwnedBy(u) == {s \in Sids : ledger[s] # Nil /\ ledger[s].user = u}

\* The entries of E end, the others except those of N stay as they are.
Ends(E, N) ==
    \A t \in Sids \ N :
        ledger'[t] = IF t \in E THEN [ledger[t] EXCEPT !.live = FALSE] ELSE ledger[t]

Appears(s, u, prev) ==
    /\ ledger[s] = Nil
    /\ ledger'[s] \in Entry
    /\ ledger'[s].user = u /\ ledger'[s].prev = prev /\ ledger'[s].live

Open(u, s) ==
    /\ Appears(s, u, Nil)
    /\ \E E \in SUBSET OwnedBy(u) : Ends(E, {s})

\* The replaced session may have ended already: concurrent rotations of one
\* session each get a successor.
Replace(p, s) ==
    /\ ledger[p] # Nil
    /\ Appears(s, ledger[p].user, p)
    /\ ledger'[s].expires = ledger[p].expires
    /\ Ends({p}, {s})

End(u) == \E E \in SUBSET OwnedBy(u) : E # {} /\ Ends(E, {})

LedgerNext ==
    /\ LedgerTypeOK'
    /\ \/ \E u \in Users : End(u) \/ \E s \in Sids : Open(u, s)
       \/ \E p, s \in Sids : Replace(p, s)

LedgerSpec == LedgerInit /\ [][LedgerNext]_ledger

-----------------------------------------------------------------------------
\* Every replaced session has ended, and its successor keeps its user and its
\* expiry: no chain lasts longer than the login that began it.
Lineage ==
    \A s \in Sids : ledger[s] # Nil /\ ledger[s].prev # Nil =>
        LET p == ledger[s].prev
        IN /\ p # s /\ ledger[p] # Nil /\ ~ledger[p].live
           /\ ledger[p].user = ledger[s].user /\ ledger[p].expires = ledger[s].expires

\* An entry is never removed, revived or rewritten.
EntryPermanent ==
    \A s \in Sids : ledger[s] # Nil =>
        /\ ledger'[s] # Nil
        /\ ledger'[s] = [ledger[s] EXCEPT !.live = ledger'[s].live]
        /\ ledger'[s].live => ledger[s].live
=============================================================================
