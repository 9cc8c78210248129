----------------------------- MODULE Migrations -----------------------------
(***************************************************************************)
(* The Alembic history (src/alembic): the three revisions as scripts of    *)
(* statements, run by env.py in one PostgreSQL transaction, while other    *)
(* migrations and the requests of the current release run too.             *)
(*                                                                         *)
(* Of a table, only what some revision adds or removes is kept: its        *)
(* columns and indexes, which of them are NOT NULL without a default, and  *)
(* whether it has rows.  DDL locks its table against everybody until the   *)
(* transaction ends, so a migration works on copies of what it has locked. *)
(***************************************************************************)
EXTENDS Integers, Sequences

CONSTANTS
    Migrators,      \* alembic processes
    Apps,           \* requests of the API
    Nil             \* no table / no request

VARIABLES
    table,      \* committed tables, Nil where there is none
    version,    \* alembic_version: how many revisions are applied
    job,        \* what each migration has done in its transaction
    app,        \* the transaction of each request
    direct      \* DIRECT_DATABASE_URL, or a DATABASE_URL without pooler, is set

vars == <<table, version, job, app, direct>>

Tables == {"users", "sessions"}
Latest == 3
Versions == 0 .. Latest
Parts == {"name", "ix_email", "ix_username", "refresh_token_hash", "rotation_counter", "ix_user_id"}

Table == [parts : SUBSET Parts, required : SUBSET Parts, rows : BOOLEAN]

ASSUME NilAssumption == Nil \notin Table \cup {"login", "register"}

-----------------------------------------------------------------------------
(* The revisions *)

CreateTable(t, required) == [op |-> "create", table |-> t, parts |-> required]
DropTable(t) == [op |-> "drop_table", table |-> t, parts |-> {}]
Add(t, part) == [op |-> "add", table |-> t, parts |-> {part}]
AddRequired(t, part) == [op |-> "add_required", table |-> t, parts |-> {part}]
Drop(t, part) == [op |-> "drop", table |-> t, parts |-> {part}]
Stamp(v) == [op |-> "stamp", version |-> v]

upgrade_80f2ee816ce9 ==
    << CreateTable("users", {}), Add("users", "ix_email"), Add("users", "ix_username"),
       CreateTable("sessions", {"refresh_token_hash", "rotation_counter"}),
       Add("sessions", "ix_user_id") >>
downgrade_80f2ee816ce9 ==
    << Drop("sessions", "ix_user_id"), DropTable("sessions"),
       Drop("users", "ix_username"), Drop("users", "ix_email"), DropTable("users") >>

\* Faulty variant: only one of the columns is dropped.
upgrade_incomplete == << Drop("sessions", "refresh_token_hash") >>

upgrade_5ef995cd334d ==
    << Drop("sessions", "refresh_token_hash"), Drop("sessions", "rotation_counter") >>

\* Faulty variants: a column without its server default; one forgotten.
downgrade_without_default ==
    << AddRequired("sessions", "rotation_counter"), Add("sessions", "refresh_token_hash") >>
downgrade_incomplete == << Add("sessions", "refresh_token_hash") >>

\* Both are NOT NULL with a server default.
downgrade_5ef995cd334d ==
    << Add("sessions", "rotation_counter"), Add("sessions", "refresh_token_hash") >>

upgrade_70d631c75e08 == << Add("users", "name") >>
downgrade_70d631c75e08 == << Drop("users", "name") >>

Up == << upgrade_80f2ee816ce9, upgrade_5ef995cd334d, upgrade_70d631c75e08 >>
Down == << downgrade_80f2ee816ce9, downgrade_5ef995cd334d, downgrade_70d631c75e08 >>

\* alembic upgrade head and alembic downgrade -1 at version v.
UpgradeFrom(v) ==
    LET revision(i) == IF v < i THEN Append(Up[i], Stamp(i)) ELSE <<>>
    IN revision(1) \o revision(2) \o revision(3)

\* Faulty variant: the version is recorded one statement too early.
DowngradeStampedEarly(v) ==
    IF v = 0 THEN <<>>
    ELSE SubSeq(Down[v], 1, Len(Down[v]) - 1) \o <<Stamp(v - 1), Down[v][Len(Down[v])]>>

DowngradeFrom(v) == IF v = 0 THEN <<>> ELSE Append(Down[v], Stamp(v - 1))

-----------------------------------------------------------------------------
(* The transaction of a migration *)

\* todo: the statements left; from: the version it read; holds: what it has
\* locked, of which work and at are its own copies; failed: how the last ended.
NoJob == [running |-> FALSE, todo |-> <<>>, from |-> 0, holds |-> {},
          work |-> [t \in Tables |-> Nil], at |-> 0, failed |-> FALSE]

Running(m) == job[m].running
Seen(m, t) == IF t \in job[m].holds THEN job[m].work[t] ELSE table[t]

\* Locks of the others: DDL excludes everybody, requests only DDL.
Migrating(x) == \E m \in Migrators : x \in job[m].holds
Available(m, x) ==
    /\ \A n \in Migrators \ {m} : x \notin job[n].holds
    /\ \A a \in Apps : x \notin app[a].uses

\* Does statement s succeed on table row d, and what does it make of it?
Valid(s, d) ==
    CASE s.op = "create" -> d = Nil
      [] s.op = "drop_table" -> d # Nil
      [] s.op \in {"add", "add_required"} ->
            d # Nil /\ s.parts \cap d.parts = {} /\ (s.op = "add_required" => ~d.rows)
      [] s.op = "drop" -> d # Nil /\ s.parts \subseteq d.parts
Effect(s, d) ==
    CASE s.op = "create" -> [parts |-> s.parts, required |-> s.parts, rows |-> FALSE]
      [] s.op = "drop_table" -> Nil
      [] s.op = "add" -> [d EXCEPT !.parts = @ \cup s.parts]
      [] s.op = "add_required" -> [d EXCEPT !.parts = @ \cup s.parts, !.required = @ \cup s.parts]
      [] s.op = "drop" -> [d EXCEPT !.parts = @ \ s.parts, !.required = @ \ s.parts]

Begin(m, todo) ==
    /\ ~Running(m)
    /\ job' = [job EXCEPT ![m] = [NoJob EXCEPT !.running = todo # <<>>, !.todo = todo,
                                              !.from = version]]
    /\ UNCHANGED <<table, version, app, direct>>

Upgrade(m) == Begin(m, UpgradeFrom(version))
Downgrade(m) == Begin(m, DowngradeFrom(version))

\* Faulty variant: the connection keeps its locks.
AbortHoldingLocks(m, failed) ==
    job' = [job EXCEPT ![m].running = FALSE, ![m].failed = failed]

Abort(m, failed) == job' = [job EXCEPT ![m] = [NoJob EXCEPT !.failed = failed]]

Done(j) == [j EXCEPT !.todo = Tail(@)]

\* One DDL statement.  Through the transaction pooler it is discarded.
Ddl(m) ==
    /\ Running(m) /\ job[m].todo # <<>> /\ Head(job[m].todo).op # "stamp"
    /\ LET s == Head(job[m].todo)
           d == Seen(m, s.table)
       IN IF ~direct THEN job' = [job EXCEPT ![m] = Done(@)]
          ELSE /\ Available(m, s.table)
               /\ IF Valid(s, d)
                  THEN job' = [job EXCEPT ![m] =
                                  [Done(@) EXCEPT !.holds = job[m].holds \cup {s.table},
                                                  !.work[s.table] = Effect(s, d)]]
                  ELSE Abort(m, TRUE)
    /\ UNCHANGED <<table, version, app, direct>>

\* UPDATE alembic_version SET version_num = new WHERE version_num = old, which
\* must match one row.
StampVersion(m) ==
    /\ Running(m) /\ job[m].todo # <<>> /\ Head(job[m].todo).op = "stamp"
    /\ Available(m, "version")
    /\ IF "version" \notin job[m].holds /\ version # job[m].from THEN Abort(m, TRUE)
       ELSE job' = [job EXCEPT ![m] = [Done(@) EXCEPT !.holds = job[m].holds \cup {"version"},
                                                      !.at = Head(job[m].todo).version]]
    /\ UNCHANGED <<table, version, app, direct>>

CommitMigration(m) ==
    /\ Running(m) /\ job[m].todo = <<>>
    /\ table' = [t \in Tables |-> Seen(m, t)]
    /\ version' = job[m].at
    /\ Abort(m, FALSE)
    /\ UNCHANGED <<app, direct>>

Crash(m) == Running(m) /\ Abort(m, FALSE) /\ UNCHANGED <<table, version, app, direct>>

MigrationStep(m) == Ddl(m) \/ StampVersion(m) \/ CommitMigration(m)

-----------------------------------------------------------------------------
(* Requests of the current release: users are read first, then a session or *)
(* an account is inserted.                                                  *)

NoRequest == [op |-> Nil, uses |-> {}, inserted |-> FALSE, failed |-> FALSE]
Target(a) == IF app[a].op = "login" THEN "sessions" ELSE "users"
Fails(a) == app' = [app EXCEPT ![a] = [NoRequest EXCEPT !.failed = TRUE]]

Query(a, op) ==
    /\ app[a].op = Nil /\ ~Migrating("users")
    /\ IF table["users"] # Nil /\ "name" \in table["users"].parts
       THEN app' = [app EXCEPT ![a] = [NoRequest EXCEPT !.op = op, !.uses = {"users"}]]
       ELSE Fails(a)
    /\ UNCHANGED <<table, version, job, direct>>

InsertRow(a) ==
    /\ app[a].op # Nil /\ ~app[a].inserted /\ ~Migrating(Target(a))
    /\ IF table[Target(a)] # Nil /\ table[Target(a)].required = {}
       THEN app' = [app EXCEPT ![a].uses = @ \cup {Target(a)}, ![a].inserted = TRUE]
       ELSE Fails(a)
    /\ UNCHANGED <<table, version, job, direct>>

CommitRequest(a) ==
    /\ app[a].inserted
    /\ table' = [table EXCEPT ![Target(a)].rows = TRUE]
    /\ app' = [app EXCEPT ![a] = NoRequest]
    /\ UNCHANGED <<version, job, direct>>

-----------------------------------------------------------------------------
(* PostgreSQL breaks a cycle of waits by aborting one of its members. *)

\* What a statement locks.
Locks(s) == IF s.op = "stamp" THEN "version" ELSE s.table

Holds(x) == IF x \in Migrators THEN job[x].holds ELSE app[x].uses
Wants(x) ==
    IF x \in Migrators THEN (IF job[x].todo # <<>> THEN {Locks(Head(job[x].todo))} ELSE {})
    ELSE IF app[x].op # Nil /\ ~app[x].inserted THEN {Target(x)} ELSE {}
WaitsFor(x, y) ==
    x # y /\ Wants(x) \cap (Holds(y) \ Holds(x)) # {} /\ {x, y} \cap Migrators # {}

DeadlockVictim(x) ==
    /\ \E y \in Migrators \cup Apps : WaitsFor(x, y) /\ WaitsFor(y, x)
    /\ IF x \in Migrators THEN Abort(x, FALSE) /\ UNCHANGED app
       ELSE app' = [app EXCEPT ![x] = NoRequest] /\ UNCHANGED job
    /\ UNCHANGED <<table, version, direct>>

-----------------------------------------------------------------------------
MigrationsInit ==
    /\ table = [t \in Tables |-> Nil]
    /\ version = 0
    /\ job = [m \in Migrators |-> NoJob]
    /\ app = [a \in Apps |-> NoRequest]
    /\ direct \in BOOLEAN

MigrationsNext ==
    \/ \E m \in Migrators : Upgrade(m) \/ Downgrade(m) \/ MigrationStep(m) \/ Crash(m)
    \/ \E a \in Apps :
          InsertRow(a) \/ CommitRequest(a) \/ \E op \in {"login", "register"} : Query(a, op)
    \/ \E x \in Migrators \cup Apps : DeadlockVictim(x)

MigrationsSpec == MigrationsInit /\ [][MigrationsNext]_vars

\* PostgreSQL grants locks in the order of its queue: a waiter that finds the
\* table free again and again gets it.
MigrationsFairness ==
    /\ \A m \in Migrators : SF_vars(MigrationStep(m))
    /\ \A a \in Apps : SF_vars(InsertRow(a)) /\ WF_vars(CommitRequest(a))
    /\ \A x \in Migrators \cup Apps : WF_vars(DeadlockVictim(x))

FairMigrationsSpec == MigrationsSpec /\ MigrationsFairness

-----------------------------------------------------------------------------
\* What the revisions have made of the tables at each version.
SchemaAt(v, t) ==
    IF t = "users"
    THEN {"ix_email", "ix_username"} \cup (IF v = 3 THEN {"name"} ELSE {})
    ELSE {"ix_user_id"} \cup (IF v = 1 THEN {"refresh_token_hash", "rotation_counter"} ELSE {})

\* The recorded version tells what the tables are, after any sequence of
\* upgrades, downgrades, crashes and migrations run at the same time ("Schema
\* is owned by Alembic", lifespan.py:5), as long as they bypass the pooler.
SchemaMatchesVersion ==
    direct => \A t \in Tables :
        /\ table[t] = Nil <=> version = 0
        /\ table[t] # Nil => table[t].parts = SchemaAt(version, t)

\* A migration fails only because another one has overtaken it, never because
\* of the rows it finds or of what an earlier downgrade left behind.
FailsOnlyIfOvertaken ==
    [][\A m \in Migrators :
          Running(m) /\ job'[m].failed => version # job[m].from]_vars

\* A request fails for want of a table or column only while the database is not
\* at the latest version: no migration changes a table under a request that has
\* begun ("Startup assumes the database is already migrated", lifespan.py:6).
RequestsServed ==
    [][\A a \in Apps : direct /\ app'[a].failed /\ app'[a] # app[a] => version # Latest]_vars

\* However many migrations and requests wait for each other in a circle, two of
\* them wait for each other: whoever still wants a table after updating
\* alembic_version, of which all wait, has sessions locked already, and so wants
\* users.  Breaking up pairs, as DeadlockVictim does, is then enough.
DeadlocksInPairs ==
    \A S \in SUBSET (Migrators \cup Apps) :
        S # {} /\ (\A x \in S : \E y \in S : WaitsFor(x, y))
            => \E x, y \in S : WaitsFor(x, y) /\ WaitsFor(y, x)

\* Every migration ends, although upgrades, downgrades and requests lock the
\* tables in different orders.
MigrationsEnd == \A m \in Migrators : Running(m) ~> ~Running(m)
=============================================================================
