---------------------------- MODULE NameRegistry ----------------------------
(***************************************************************************)
(* What the accounts of the system promise about names: an e-mail address  *)
(* or username belongs to at most one account, an account has exactly one  *)
(* of each, takes new ones together or not at all, and never gives up a    *)
(* name without taking another of its kind.                                *)
(***************************************************************************)
CONSTANTS Owners, Emails, Usernames, Nil

VARIABLE owner          \* who has a name, Nil for nobody

Names == Emails \cup Usernames

RegistryTypeOK == owner \in [Names -> Owners \cup {Nil}]

\* The address and the username of an account.
OneOfEach(a, e, n) ==
    /\ \A k \in Emails : owner[k] = a <=> k = e
    /\ \A k \in Usernames : owner[k] = a <=> k = n

\* One account, the first superuser, is there from the start.
RegistryInit ==
    \E a \in Owners, e \in Emails, n \in Usernames :
        owner = [k \in Names |-> IF k \in {e, n} THEN a ELSE Nil]

\* Account a takes the names e and n, and lets go of those it had.
Claim(a, e, n) ==
    /\ owner[e] \in {Nil, a} /\ owner[n] \in {Nil, a}
    /\ owner' = [k \in Names |-> IF k \in {e, n} THEN a
                                 ELSE IF owner[k] = a THEN Nil ELSE owner[k]]

RegistryNext == \E a \in Owners, e \in Emails, n \in Usernames : Claim(a, e, n)

RegistrySpec == RegistryInit /\ [][RegistryNext]_owner
=============================================================================
