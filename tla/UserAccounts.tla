---------------------------- MODULE UserAccounts ----------------------------
(***************************************************************************)
(* UserService and UserRepository (src/modules/users/service.py,           *)
(* repository.py): registration, profile update, password change and soft  *)
(* deletion, one action per awaited statement, with the role checks of the *)
(* user routes before them and the answers of the exception handlers after *)
(* them.                                                                   *)
(*                                                                         *)
(* Whether a name is free is asked by one statement and claimed by a later *)
(* one.  The question looks at live accounts; the unique indexes of the    *)
(* table, which decide, also hold the names of deleted ones.  An UPDATE    *)
(* writes only the columns whose value differs from what the ORM loaded,   *)
(* so what other transactions do to the rest of the row survives.          *)
(*                                                                         *)
(* The other columns, and the deletion of user:{id} after the commit, are  *)
(* left out: no authenticated request reads a name from that key.          *)
(* Accounts are numbered in the order of created_at.                       *)
(***************************************************************************)
EXTENDS Integers, FiniteSets

CONSTANTS
    Emails, Usernames,      \* addresses; usernames
    Reqs,                   \* requests that can be in flight at once
    MaxUid,                 \* bound: accounts for which an INSERT is tried
    AccountOps,             \* the operations clients call in an instance
    Nil                     \* SQL NULL / no row / a field absent from a payload

Uids == 1 .. MaxUid
AllAccountOps == {"create", "update", "password", "delete"}

ASSUME UidAssumption == MaxUid \in Nat \ {0} /\ IsFiniteSet(Reqs)
ASSUME NamesAssumption ==
    /\ Emails \cap Usernames = {}
    /\ Nil \notin Int \cup Emails \cup Usernames
ASSUME AccountOpsAssumption == AccountOps \subseteq AllAccountOps /\ Nil \notin AllAccountOps

VARIABLES
    acct,       \* committed rows of `users`, Nil where there is none
    nextUid,    \* the account the next registration constructs
    req         \* the requests in flight, and the last answer of each

accountVars == <<acct, nextUid, req>>

Roles == {"user", "admin", "superuser"}
ROLE_HIERARCHY == [user |-> 1, admin |-> 2, superuser |-> 3]

Account == [email : Emails, username : Usernames, role : Roles, deleted : BOOLEAN]
ASSUME RowAssumption == Nil \notin Account

Columns == {"email", "username", "deleted"}
Places == {"idle", "check", "claim_email", "claim_name", "commit",
           "find", "check_email", "check_name", "reread", "lock"}

\* 2xx, 409, 403 or 404, and 500.
Answers == {"success", "conflict", "refused", "error"}

Request == [
    op       : AllAccountOps \cup {Nil},
    pc       : Places,
    caller   : Uids \cup {Nil},         \* who is authenticated
    uid      : Uids \cup {Nil},         \* the account constructed or addressed
    email    : Emails \cup {Nil},       \* the payload
    username : Usernames \cup {Nil},
    cols     : SUBSET Columns,          \* the columns to write
    answer   : Answers]                 \* the last answer

Begun(op, pc, caller, u, e, n) ==
    [op |-> op, pc |-> pc, caller |-> caller, uid |-> u, email |-> e, username |-> n,
     cols |-> {}, answer |-> "success"]
Idle == Begun(Nil, "idle", Nil, Nil, Nil, Nil)

At(r, pc) == req[r].pc = pc
Become(r, q) == req' = [req EXCEPT ![r] = q]
Goto(r, pc) == req' = [req EXCEPT ![r].pc = pc]
Answer(r, a) == Become(r, [Idle EXCEPT !.answer = a])

\* The central handlers: domain errors carry their status, anything else is a 500.
AnswerTo == [UserNotFoundError |-> "refused", UserAlreadyExistsError |-> "conflict",
             InsufficientPermissionsError |-> "refused",
             MultipleResultsFound |-> "error", IntegrityError |-> "error", DBAPIError |-> "error"]
Raise(r, error) == Answer(r, AnswerTo[error])

-----------------------------------------------------------------------------
(* The users table *)

Stored(u) == acct[u] # Nil
Live(u) == Stored(u) /\ ~acct[u].deleted
KeysOf(row) == {row.email, row.username}

\* The row a transaction that has taken its locks will commit.
NewRow(q) == [email |-> q.email, username |-> q.username, role |-> "user", deleted |-> FALSE]
\* Faulty variant: deleted_at is written back with the rest of the entity.
WrittenBack(q, row) ==
    [email    |-> IF "email" \in q.cols THEN q.email ELSE row.email,
     username |-> IF "username" \in q.cols THEN q.username ELSE row.username,
     role     |-> row.role,
     deleted  |-> q.op = "delete"]

Written(q, row) ==
    [email    |-> IF "email" \in q.cols THEN q.email ELSE row.email,
     username |-> IF "username" \in q.cols THEN q.username ELSE row.username,
     role     |-> row.role,
     deleted  |-> IF "deleted" \in q.cols THEN q.op = "delete" ELSE row.deleted]
Image(q) == IF q.op = "create" THEN NewRow(q) ELSE Written(q, acct[q.uid])

\* A transaction that has updated a row keeps it locked until it ends.
Writing(q) == q.pc \in {"claim_email", "claim_name", "commit"}
HoldsRow(r, u) == req[r].op # "create" /\ req[r].uid = u /\ Writing(req[r])

\* Index entries of uncommitted row versions, those being replaced and those
\* being added: others must wait for the end of the transaction.
Held(q) ==
    (IF q.op # "create" /\ Writing(q) THEN KeysOf(acct[q.uid]) ELSE {})
    \cup (IF q.pc \in {"claim_name", "commit"} THEN {Image(q).email} ELSE {})
    \cup (IF q.pc = "commit" THEN {Image(q).username} ELSE {})

Busy(r, k) == \E p \in Reqs \ {r} : k \in Held(req[p])

\* Faulty variant: the indexes skip deleted rows, as the queries do.
TakenByLive(u, k) == \E v \in Uids \ {u} : Live(v) /\ k \in KeysOf(acct[v])

\* The unique indexes, over all rows.
Taken(u, k) == \E v \in Uids \ {u} : Stored(v) /\ k \in KeysOf(acct[v])

\* One unique index: a version with key k waits, is refused or goes in.
Claim(r, k, next) ==
    /\ ~Busy(r, k)
    /\ IF Taken(req[r].uid, k) THEN Raise(r, "IntegrityError") ELSE Goto(r, next)

-----------------------------------------------------------------------------
(* create_user *)

\* bound: a registration starts only if an account is left for it
Registering == {r \in Reqs : At(r, "check")}
UidLeft == nextUid + Cardinality(Registering) <= MaxUid

Register(r, e, n) ==
    /\ "create" \in AccountOps /\ At(r, "idle") /\ UidLeft
    /\ Become(r, Begun("create", "check", Nil, Nil, e, n))
    /\ UNCHANGED <<acct, nextUid>>

\* get_by_email_or_username, then the row is constructed.
Matches(e, n) == {u \in Uids : Live(u) /\ (acct[u].email = e \/ acct[u].username = n)}

CheckNames(r) ==
    /\ At(r, "check")
    /\ LET found == Cardinality(Matches(req[r].email, req[r].username))
       IN IF found = 0 THEN /\ Become(r, [req[r] EXCEPT !.uid = nextUid, !.pc = "claim_email"])
                            /\ nextUid' = nextUid + 1
          ELSE /\ Raise(r, IF found = 1 THEN "UserAlreadyExistsError" ELSE "MultipleResultsFound")
               /\ UNCHANGED nextUid
    /\ UNCHANGED acct

\* The INSERT, or the UPDATE once it has the row, enters one index after the other.
ClaimEmail(r) ==
    /\ At(r, "claim_email")
    /\ Claim(r, Image(req[r]).email, "claim_name")
    /\ UNCHANGED <<acct, nextUid>>

ClaimName(r) ==
    /\ At(r, "claim_name")
    /\ Claim(r, Image(req[r]).username, "commit")
    /\ UNCHANGED <<acct, nextUid>>

Commit(r) ==
    /\ At(r, "commit")
    /\ acct' = [acct EXCEPT ![req[r].uid] = Image(req[r])]
    /\ Answer(r, "success")
    /\ UNCHANGED nextUid

-----------------------------------------------------------------------------
(* update_user, set_password and delete_user *)

\* Faulty variant: administrators pass for superusers.
MeetsRoleAlmost(role, required) == ROLE_HIERARCHY[role] >= ROLE_HIERARCHY[required] - 1

\* RoleGuard: hierarchical, the update route's own check is not.
MeetsRole(role, required) == ROLE_HIERARCHY[role] >= ROLE_HIERARCHY[required]
MayUpdate(c, u) == c = u \/ acct[c].role = "superuser"
MayDelete(c) == MeetsRole(acct[c].role, "superuser")

\* The route: an authenticated caller c addresses account u.
Authorize(r, op, c, u, e, n, allowed) ==
    /\ op \in AccountOps /\ At(r, "idle") /\ Live(c)
    /\ IF allowed THEN Become(r, Begun(op, "find", c, u, e, n))
       ELSE Raise(r, "InsufficientPermissionsError")
    /\ UNCHANGED <<acct, nextUid>>

Update(r, c, u, e, n) == Authorize(r, "update", c, u, e, n, MayUpdate(c, u))
Delete(r, c, u) == Authorize(r, "delete", c, u, Nil, Nil, MayDelete(c))

\* set_password has no route: its callers are other modules, acting for u.
SetPassword(r, u) == Authorize(r, "password", u, u, Nil, Nil, TRUE)

\* After the question about the address comes the one about the username.
AfterEmail(q) == IF q.username # Nil THEN "check_name" ELSE "reread"

\* get_by_id; an update that asks for nothing is answered as it is.
Find(r) ==
    /\ At(r, "find")
    /\ LET q == req[r]
       IN IF ~Live(q.uid) THEN Raise(r, "UserNotFoundError")
          ELSE IF q.op # "update" THEN Goto(r, "reread")
          ELSE IF q.email # Nil THEN Goto(r, "check_email")
          ELSE IF q.username # Nil THEN Goto(r, "check_name")
          ELSE Answer(r, "success")
    /\ UNCHANGED <<acct, nextUid>>

\* get_by_email / get_by_username: is it another account's?
Others(r, k) == {u \in Uids : Live(u) /\ k \in KeysOf(acct[u]) /\ u # req[r].uid}

CheckEmail(r) ==
    /\ At(r, "check_email")
    /\ IF Others(r, req[r].email) # {} THEN Raise(r, "UserAlreadyExistsError")
       ELSE Goto(r, AfterEmail(req[r]))
    /\ UNCHANGED <<acct, nextUid>>

CheckName(r) ==
    /\ At(r, "check_name")
    /\ IF Others(r, req[r].username) # {} THEN Raise(r, "UserAlreadyExistsError")
       ELSE Goto(r, "reread")
    /\ UNCHANGED <<acct, nextUid>>

\* repo.update and set_credentials read the row again, deleted or not; the ORM
\* will write the columns that differ from this.
Changed(q, row) ==
    {c \in Columns : \/ c = "email" /\ q.email \notin {Nil, row.email}
                     \/ c = "username" /\ q.username \notin {Nil, row.username}
                     \/ c = "deleted" /\ q.op = "delete"}

Reread(r) ==
    /\ At(r, "reread")
    /\ Become(r, [req[r] EXCEPT !.cols = Changed(req[r], acct[req[r].uid]), !.pc = "lock"])
    /\ UNCHANGED <<acct, nextUid>>

\* The UPDATE waits for the row; without a new name it enters no index.
LockRow(r) ==
    /\ At(r, "lock")
    /\ \A p \in Reqs \ {r} : ~HoldsRow(p, req[r].uid)
    /\ Goto(r, IF req[r].cols \cap {"email", "username"} = {} THEN "commit" ELSE "claim_email")
    /\ UNCHANGED <<acct, nextUid>>

-----------------------------------------------------------------------------
(* A statement fails, or the database breaks a deadlock: the transaction is *)
(* rolled back and its locks are gone.                                      *)

DbError(r) ==
    /\ ~At(r, "idle")
    /\ Raise(r, "DBAPIError")
    /\ UNCHANGED <<acct, nextUid>>
=============================================================================
