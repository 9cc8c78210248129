--------------------------- MODULE AccountsSystem ---------------------------
(***************************************************************************)
(* The user routes over one `users` table: any interleaving of the         *)
(* requests in flight and of one listing, with failing statements.         *)
(***************************************************************************)
EXTENDS UserListing

CONSTANTS
    DbFaults,       \* TRUE if statements may fail in an instance
    MaxInFlight     \* bound: requests in flight at once, the listing included

ASSUME SystemAssumption == DbFaults \in BOOLEAN /\ MaxInFlight \in Nat \ {0}

accountsVars == <<accountVars, walk>>

\* One account with a privileged role is there from the start.
Init ==
    /\ \E e \in Emails, n \in Usernames, role \in {"admin", "superuser"} :
          acct = [u \in Uids |->
                     IF u = 1 THEN [email |-> e, username |-> n, role |-> role, deleted |-> FALSE]
                     ELSE Nil]
    /\ nextUid = 2
    /\ req = [r \in Reqs |-> Idle]
    /\ walk = NoWalk

Arrival(r) ==
    \/ \E e \in Emails, n \in Usernames : Register(r, e, n)
    \/ \E c, u \in StoredUids, e \in Emails \cup {Nil}, n \in Usernames \cup {Nil} :
          Update(r, c, u, e, n)
    \/ \E u \in StoredUids : SetPassword(r, u)
    \/ \E c, u \in StoredUids : Delete(r, c, u)

Step(r) == CheckNames(r) \/ Find(r) \/ CheckEmail(r) \/ CheckName(r) \/ Reread(r) \/ Commit(r)
Waiting(r) == ClaimEmail(r) \/ ClaimName(r) \/ LockRow(r)

InFlight == {r \in Reqs : ~At(r, "idle")}
MayArrive == Cardinality(InFlight) + (IF walk.pc = "idle" THEN 0 ELSE 1) < MaxInFlight

RequestNext(r) ==
    /\ (MayArrive /\ Arrival(r)) \/ Step(r) \/ Waiting(r) \/ (DbFaults /\ DbError(r))
    /\ UNCHANGED walk

Next == (MayArrive /\ WalkArrival) \/ WalkStep \/ \E r \in Reqs : RequestNext(r)

Spec == Init /\ [][Next]_accountsVars

-----------------------------------------------------------------------------
TypeOK ==
    /\ acct \in [Uids -> Account \cup {Nil}]
    /\ nextUid \in Nat \ {0}
    /\ req \in [Reqs -> Request]
    /\ walk \in Walk

\* An address or username belongs to one account, live or deleted, whatever
\* order registrations and updates check, claim and commit in (unique=True,
\* models.py:31-33; the checks of service.py:62-66 and 106-115 alone do not
\* give it).
NamesUnique ==
    \A u, v \in StoredUids : u # v => KeysOf(acct[u]) \cap KeysOf(acct[v]) = {}

\* There is an account left for every registration in flight.
UidsLeft ==
    /\ nextUid + Cardinality(Registering) <= MaxUid + 1
    /\ \A u \in StoredUids : u < nextUid

\* What a request in flight may rely on.
RequestSound(q) ==
    /\ q.op = Nil <=> q.pc = "idle"
    /\ q.pc = "check" => q.op = "create"
    /\ q.op = "create" =>
          /\ q.pc \in {"check", "claim_email", "claim_name", "commit"}
          /\ q.email # Nil /\ q.username # Nil
          /\ Writing(q) => q.uid # Nil /\ ~Stored(q.uid) /\ q.uid < nextUid
    /\ q.op \notin {"create", Nil} =>
          /\ q.uid # Nil /\ Stored(q.uid)
          /\ q.caller # Nil /\ Stored(q.caller)
          /\ acct[q.caller].role = "superuser" \/ (q.caller = q.uid /\ q.op # "delete")
    /\ "email" \in q.cols => q.email # Nil
    /\ "username" \in q.cols => q.username # Nil
    /\ "deleted" \in q.cols => q.op = "delete"
    /\ q.pc = "check_email" => q.email # Nil
    /\ q.pc = "check_name" => q.username # Nil

\* Two transactions never hold one row, one new id or one name.
LocksSound ==
    \A p, q \in Reqs : p # q =>
        /\ Held(req[p]) \cap Held(req[q]) = {}
        /\ Writing(req[p]) /\ Writing(req[q]) => req[p].uid # req[q].uid

\* What a transaction has entered in an index, no other account has.
ClaimsSound ==
    \A r \in Reqs :
        /\ At(r, "claim_name") \/ At(r, "commit") => ~Taken(req[r].uid, Image(req[r]).email)
        /\ At(r, "commit") => ~Taken(req[r].uid, Image(req[r]).username)

\* The inductive invariant.
AccountsInv ==
    /\ TypeOK /\ NamesUnique /\ UidsLeft /\ LocksSound /\ ClaimsSound
    /\ \A r \in Reqs : RequestSound(req[r])

\* The transaction of r changes account u.
Changes(r, u) == At(r, "commit") /\ req[r].uid = u

\* A soft-deleted account stays deleted, even if an update of its profile or
\* password that found it alive commits after the deletion (service.py:101,
\* repository.py:137-144 reads the row without the filter on deleted_at).
DeletedForGood ==
    [][\A u \in StoredUids : acct[u].deleted => acct'[u] # Nil /\ acct'[u].deleted]_accountsVars

\* A stored account changes only by a request of its owner or of a superuser,
\* one that asked for the new value, and it is deleted only by a superuser
\* (router.py:80, 94): no write-back of a column somebody else changed.
ChangesAuthorized ==
    [][\A u \in StoredUids : acct'[u] # acct[u] =>
          \E r \in Reqs :
              /\ Changes(r, u)
              /\ \/ acct[req[r].caller].role = "superuser"
                 \/ req[r].caller = u /\ acct'[u].deleted = acct[u].deleted
              /\ acct'[u].email \in {acct[u].email, req[r].email}
              /\ acct'[u].username \in {acct[u].username, req[r].username}]_accountsVars

\* A walk through the pages misses accounts that were there all along only for
\* deletions during the walk, and for registrations between the last count and
\* its page; with neither it shows them all (list_users, "Return a paginated
\* list of active users and the total count", repository.py:88).
FewMissed ==
    [][walk.pc = "page" /\ walk'.pc = "idle" =>
          Cardinality((walk.start \cap LiveUids) \ Shown)
              <= Cardinality((StoredUids \ LiveUids) \ walk.dead)
                 + Cardinality(StoredUids \ walk.rows)]_accountsVars

\* A registration that cannot have its names is answered with a conflict:
\* "Raises UserAlreadyExistsError on conflict" (service.py:61).
ConflictAnswered ==
    [][\A r \in Reqs : req[r].op = "create" /\ req'[r].op = Nil =>
          req'[r].answer \in {"success", "conflict"}]_accountsVars

\* The unique indexes make the table a registry of names, whatever the
\* interleaving: a commit is a claim of both names or changes no name.
OwnerOf(k) ==
    IF \E u \in StoredUids : k \in KeysOf(acct[u])
    THEN CHOOSE u \in StoredUids : k \in KeysOf(acct[u]) ELSE Nil

Registry == INSTANCE NameRegistry WITH
    Owners <- Uids, owner <- [k \in Emails \cup Usernames |-> OwnerOf(k)]

ImplementsRegistry == Registry!RegistrySpec
=============================================================================
