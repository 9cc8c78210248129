-------------------------- MODULE MigrationsProofs --------------------------
(***************************************************************************)
(* For any number of migrations and requests: with a direct connection the *)
(* recorded version tells what the tables are, a migration fails only when *)
(* another has overtaken it, a request finds the tables it needs while the *)
(* database is at the latest version; and every deadlock is between two.   *)
(*                                                                         *)
(* The scripts are read once, into courses: which statements a run of      *)
(* alembic executes, and at which level the schema is before each.  From   *)
(* then on a migration is a place on a course, and no script is unfolded.  *)
(***************************************************************************)
EXTENDS Migrations, SequenceTheorems, TLAPS

-----------------------------------------------------------------------------
(* The levels of the schema *)

\* Eight statements lead from no tables to the latest version; the downgrades
\* take them back in the opposite order.
LevelOf(v) == <<0, 5, 7, 8>>[v + 1]

If(c, p) == IF c THEN {p} ELSE {}

\* What table t is at level k.
Exists(t, k) == k >= IF t = "users" THEN 1 ELSE 4
PartsAt(t, k) ==
    IF t = "users"
    THEN If(k >= 2, "ix_email") \cup If(k >= 3, "ix_username") \cup If(k >= 8, "name")
    ELSE If(k >= 5, "ix_user_id") \cup If(4 <= k /\ k <= 5, "refresh_token_hash")
         \cup If(4 <= k /\ k <= 6, "rotation_counter")

Same(t, k, l) == (Exists(t, k) <=> Exists(t, l)) /\ PartsAt(t, k) = PartsAt(t, l)

Fits(d, t, k) ==
    IF Exists(t, k)
    THEN /\ d \in Table /\ d.parts = PartsAt(t, k)
         /\ d.required \subseteq d.parts \cap {"refresh_token_hash", "rotation_counter"}
    ELSE d = Nil

DdlStatement ==
    [op : {"create", "drop_table", "add", "drop"}, table : Tables, parts : SUBSET Parts]
Statement == DdlStatement \cup [op : {"stamp"}, version : Versions]

\* Statement s takes the schema from level k to level l.
Moves(s, k, l) ==
    \/ /\ s \in DdlStatement
       /\ \A t \in Tables \ {s.table} : Same(t, k, l)
       /\ \A d : Fits(d, s.table, k) => Valid(s, d) /\ Fits(Effect(s, d), s.table, l)
    \/ /\ s \in Statement /\ s.op = "stamp" /\ l = k
       /\ LevelOf(s.version) = k

\* A revision stamps the version whose level it has reached.
LEMMA StampMoves ==
    ASSUME NEW v \in Versions
    PROVE  Moves(Stamp(v), LevelOf(v), LevelOf(v))
  BY DEF Moves, Stamp, Statement

\* Statements about whole tables.
LEMMA TablesMove ==
    /\ Moves(CreateTable("users", {}), 0, 1)
    /\ Moves(CreateTable("sessions", {"refresh_token_hash", "rotation_counter"}), 3, 4)
    /\ Moves(DropTable("users"), 1, 0)
    /\ Moves(DropTable("sessions"), 4, 3)
  <1> USE DEF Moves, DdlStatement, Tables, Parts, Same, Fits, Exists, PartsAt, If, Valid, Effect,
              Table
  <1>1. Moves(CreateTable("users", {}), 0, 1)
    BY DEF CreateTable
  <1>2. Moves(CreateTable("sessions", {"refresh_token_hash", "rotation_counter"}), 3, 4)
    BY DEF CreateTable
  <1>3. Moves(DropTable("users"), 1, 0)
    BY NilAssumption DEF DropTable
  <1>4. Moves(DropTable("sessions"), 4, 3)
    BY NilAssumption DEF DropTable
  <1> QED
    BY <1>1, <1>2, <1>3, <1>4

\* A column or index comes and goes.
LEMMA PartMoves ==
    ASSUME NEW t \in Tables, NEW p \in Parts, NEW k, NEW l, Exists(t, k), Exists(t, l),
           p \notin PartsAt(t, k), PartsAt(t, l) = PartsAt(t, k) \cup {p},
           \A u \in Tables \ {t} : Same(u, k, l)
    PROVE  Moves(Add(t, p), k, l) /\ Moves(Drop(t, p), l, k)
  <1>1. Moves(Add(t, p), k, l)
    <2> DEFINE s == Add(t, p)
    <2>1. s \in DdlStatement /\ s.table = t /\ s.op = "add" /\ s.parts = {p}
      BY DEF Add, DdlStatement
    <2> HIDE DEF s
    <2>2. ASSUME NEW d, Fits(d, t, k) PROVE Valid(s, d) /\ Fits(Effect(s, d), t, l)
      <3>1. d \in Table /\ d # Nil /\ d.parts = PartsAt(t, k)
        BY <2>2, NilAssumption DEF Fits
      <3>2. Valid(s, d) /\ Effect(s, d) = [d EXCEPT !.parts = @ \cup {p}]
        BY <2>1, <3>1 DEF Valid, Effect
      <3> QED
        BY <2>2, <3>1, <3>2 DEF Fits, Table
    <2>3. \A d : Fits(d, s.table, k) => Valid(s, d) /\ Fits(Effect(s, d), s.table, l)
      BY <2>1, <2>2
    <2>4. Moves(s, k, l)
      BY <2>1, <2>3 DEF Moves
    <2> QED
      BY <2>4 DEF s
  <1>2. Moves(Drop(t, p), l, k)
    <2> DEFINE s == Drop(t, p)
    <2>1. s \in DdlStatement /\ s.table = t /\ s.op = "drop" /\ s.parts = {p}
      BY DEF Drop, DdlStatement
    <2> HIDE DEF s
    <2>2. ASSUME NEW d, Fits(d, t, l) PROVE Valid(s, d) /\ Fits(Effect(s, d), t, k)
      <3>1. d \in Table /\ d # Nil /\ d.parts = PartsAt(t, l)
        BY <2>2, NilAssumption DEF Fits
      <3>2. Valid(s, d) /\ Effect(s, d) = [d EXCEPT !.parts = @ \ {p}, !.required = @ \ {p}]
        BY <2>1, <3>1 DEF Valid, Effect
      <3>3. Effect(s, d) \in Table
        BY <3>1, <3>2 DEF Table
      <3>4. /\ Effect(s, d).parts = PartsAt(t, k)
            /\ Effect(s, d).required = d.required \ {p}
        BY <3>1, <3>2 DEF Table
      <3> QED
        BY <2>2, <3>2, <3>3, <3>4 DEF Fits
    <2>3. \A u \in Tables \ {s.table} : Same(u, l, k)
      BY <2>1 DEF Same
    <2>4. \A d : Fits(d, s.table, l) => Valid(s, d) /\ Fits(Effect(s, d), s.table, k)
      BY <2>1, <2>2
    <2>5. Moves(s, l, k)
      BY <2>1, <2>3, <2>4 DEF Moves
    <2> QED
      BY <2>5 DEF s
  <1> QED
    BY <1>1, <1>2

\* Those of the three revisions, up and down.
LEMMA PartsMove ==
    /\ Moves(Add("users", "ix_email"), 1, 2) /\ Moves(Drop("users", "ix_email"), 2, 1)
    /\ Moves(Add("users", "ix_username"), 2, 3) /\ Moves(Drop("users", "ix_username"), 3, 2)
    /\ Moves(Add("sessions", "ix_user_id"), 4, 5) /\ Moves(Drop("sessions", "ix_user_id"), 5, 4)
    /\ Moves(Drop("sessions", "refresh_token_hash"), 5, 6)
    /\ Moves(Add("sessions", "refresh_token_hash"), 6, 5)
    /\ Moves(Drop("sessions", "rotation_counter"), 6, 7)
    /\ Moves(Add("sessions", "rotation_counter"), 7, 6)
    /\ Moves(Add("users", "name"), 7, 8) /\ Moves(Drop("users", "name"), 8, 7)
  <1> DEFINE Part(t, p, k, l) ==
                /\ t \in Tables /\ p \in Parts /\ Exists(t, k) /\ Exists(t, l)
                /\ p \notin PartsAt(t, k) /\ PartsAt(t, l) = PartsAt(t, k) \cup {p}
                /\ \A u \in Tables \ {t} : Same(u, k, l)
  <1>1. /\ Part("users", "ix_email", 1, 2) /\ Part("users", "ix_username", 2, 3)
        /\ Part("users", "name", 7, 8)
    BY DEF Tables, Parts, Same, Exists, PartsAt, If
  <1>2. Part("sessions", "ix_user_id", 4, 5)
    BY DEF Tables, Parts, Same, Exists, PartsAt, If
  <1>3. Part("sessions", "refresh_token_hash", 6, 5)
    BY DEF Tables, Parts, Same, Exists, PartsAt, If
  <1>4. Part("sessions", "rotation_counter", 7, 6)
    BY DEF Tables, Parts, Same, Exists, PartsAt, If
  <1>5. ASSUME NEW t, NEW p, NEW k, NEW l, Part(t, p, k, l)
        PROVE  Moves(Add(t, p), k, l) /\ Moves(Drop(t, p), l, k)
    BY <1>5, PartMoves
  <1> HIDE DEF Part
  <1> QED
    BY <1>1, <1>2, <1>3, <1>4, <1>5

-----------------------------------------------------------------------------
(* The courses *)

\* A run of alembic from version v: its statements, and the level of the schema
\* before each and after the last.
Course(v, script, levels) == [from |-> v, script |-> script, levels |-> levels]
UpLevels(v) ==
    << <<0, 1, 2, 3, 4, 5, 5, 6, 7, 7, 8, 8>>, <<5, 6, 7, 7, 8, 8>>, <<7, 8, 8>>, <<8>> >>[v + 1]
DownLevels(v) ==
    << <<0>>, <<5, 4, 3, 2, 1, 0, 0>>, <<7, 6, 5, 5>>, <<8, 7, 7>> >>[v + 1]
Courses == {Course(v, UpgradeFrom(v), UpLevels(v)) : v \in Versions}
           \cup {Course(v, DowngradeFrom(v), DownLevels(v)) : v \in Versions}

\* What the first n statements of a course lock.
Locked(c, n) == {Locks(c.script[k]) : k \in 1 .. n}

\* What the proofs below use of a course.
Leads(c) ==
    /\ c.from \in Versions /\ c.script \in Seq(Statement)
    /\ c.levels[1] = LevelOf(c.from)
    /\ \A n \in 1 .. Len(c.script) : Moves(c.script[n], c.levels[n], c.levels[n + 1])
    /\ Len(c.script) > 0 => c.script[Len(c.script)].op = "stamp"
    /\ \A n \in 1 .. Len(c.script) - 1 :
          c.script[n].op = "stamp" => "sessions" \in Locked(c, n)

\* A sequence is known by its elements: what Append makes.
LEMMA Appended ==
    ASSUME NEW S, NEW s \in Seq(S), NEW x \in S, NEW t \in Seq(S), Len(t) = Len(s) + 1,
           \A i \in 1 .. Len(s) : t[i] = s[i], t[Len(s) + 1] = x
    PROVE  Append(s, x) = t
  <1>1. /\ Append(s, x) \in Seq(S) /\ Len(Append(s, x)) = Len(s) + 1
        /\ \A i \in 1 .. Len(s) : Append(s, x)[i] = s[i]
        /\ Append(s, x)[Len(s) + 1] = x
    BY AppendProperties
  <1>2. Len(s) \in Nat
    BY LenProperties
  <1>3. \A i \in 1 .. Len(t) : Append(s, x)[i] = t[i]
    BY <1>1, <1>2
  <1> QED
    BY <1>1, <1>2, <1>3, SeqEqual

\* The same for two sequences in a row.
LEMMA Joined ==
    ASSUME NEW S, NEW s \in Seq(S), NEW x \in Seq(S), NEW t \in Seq(S), Len(t) = Len(s) + Len(x),
           \A i \in 1 .. Len(s) : t[i] = s[i], \A i \in 1 .. Len(x) : t[Len(s) + i] = x[i]
    PROVE  s \o x = t
  <1>1. /\ s \o x \in Seq(S) /\ Len(s \o x) = Len(s) + Len(x)
        /\ \A i \in 1 .. Len(s) + Len(x) :
              (s \o x)[i] = IF i <= Len(s) THEN s[i] ELSE x[i - Len(s)]
    BY ConcatProperties
  <1>2. Len(s) \in Nat /\ Len(x) \in Nat
    BY LenProperties
  <1>3. \A i \in 1 .. Len(t) : (s \o x)[i] = t[i]
    <2> SUFFICES ASSUME NEW i \in 1 .. Len(t) PROVE (s \o x)[i] = t[i]
      OBVIOUS
    <2>1. CASE i <= Len(s)
      BY <1>1, <1>2, <2>1
    <2>2. CASE i > Len(s)
      <3>1. i - Len(s) \in 1 .. Len(x) /\ Len(s) + (i - Len(s)) = i
        BY <1>2, <2>2
      <3> QED
        BY <1>1, <1>2, <2>2, <3>1
    <2> QED
      BY <1>2, <2>1, <2>2
  <1> QED
    BY <1>1, <1>2, <1>3, SeqEqual

\* A revision of one statement, with its stamp.
LEMMA StampedOne ==
    ASSUME NEW a, NEW x
    PROVE  Append(<<a>>, x) = <<a, x>>
  <1> DEFINE S == {a, x}
             s == <<a>>
             r == <<a, x>>
  <1>1. /\ x \in S /\ s \in Seq(S) /\ r \in Seq(S) /\ Len(r) = Len(s) + 1
        /\ \A j \in 1 .. Len(s) : r[j] = s[j]
        /\ r[Len(s) + 1] = x
    OBVIOUS
  <1> HIDE DEF S, s, r
  <1>2. Append(s, x) = r
    BY <1>1, Appended
  <1> QED
    BY <1>2 DEF s, r

\* The same for a revision of two statements.
LEMMA StampedTwo ==
    ASSUME NEW a, NEW b, NEW x
    PROVE  Append(<<a, b>>, x) = <<a, b, x>>
  <1> DEFINE S == {a, b, x}
             s == <<a, b>>
             r == <<a, b, x>>
  <1>1. /\ x \in S /\ s \in Seq(S) /\ r \in Seq(S) /\ Len(r) = Len(s) + 1
        /\ \A j \in 1 .. Len(s) : r[j] = s[j]
        /\ r[Len(s) + 1] = x
    OBVIOUS
  <1> HIDE DEF S, s, r
  <1>2. Append(s, x) = r
    BY <1>1, Appended
  <1> QED
    BY <1>2 DEF s, r

\* The same for the first revision.
LEMMA StampedFive ==
    ASSUME NEW a, NEW b, NEW c, NEW d, NEW e, NEW x
    PROVE  Append(<<a, b, c, d, e>>, x) = <<a, b, c, d, e, x>>
  <1> DEFINE S == {a, b, c, d, e, x}
             s == <<a, b, c, d, e>>
             r == <<a, b, c, d, e, x>>
  <1>1. /\ x \in S /\ s \in Seq(S) /\ r \in Seq(S) /\ Len(r) = Len(s) + 1
        /\ \A j \in 1 .. Len(s) : r[j] = s[j]
        /\ r[Len(s) + 1] = x
    OBVIOUS
  <1> HIDE DEF S, s, r
  <1>2. Append(s, x) = r
    BY <1>1, Appended
  <1> QED
    BY <1>2 DEF s, r

\* An upgrade of two revisions ...
LEMMA JoinedThree ==
    ASSUME NEW a, NEW b, NEW c, NEW x, NEW y
    PROVE  <<a, b, c>> \o <<x, y>> = <<a, b, c, x, y>>
  <1> DEFINE S == {a, b, c, x, y}
             s == <<a, b, c>>
             q == <<x, y>>
             r == <<a, b, c, x, y>>
  <1>1. /\ s \in Seq(S) /\ q \in Seq(S) /\ r \in Seq(S) /\ Len(r) = Len(s) + Len(q)
        /\ \A j \in 1 .. Len(s) : r[j] = s[j]
        /\ \A j \in 1 .. Len(q) : r[Len(s) + j] = q[j]
    OBVIOUS
  <1> HIDE DEF S, s, q, r
  <1>2. s \o q = r
    BY <1>1, Joined
  <1> QED
    BY <1>2 DEF s, q, r

\* ... and of three, ...
LEMMA JoinedSix ==
    ASSUME NEW a, NEW b, NEW c, NEW d, NEW e, NEW f, NEW x, NEW y, NEW z
    PROVE  <<a, b, c, d, e, f>> \o <<x, y, z>> = <<a, b, c, d, e, f, x, y, z>>
  <1> DEFINE S == {a, b, c, d, e, f, x, y, z}
             s == <<a, b, c, d, e, f>>
             q == <<x, y, z>>
             r == <<a, b, c, d, e, f, x, y, z>>
  <1>1. /\ s \in Seq(S) /\ q \in Seq(S) /\ r \in Seq(S) /\ Len(r) = Len(s) + Len(q)
        /\ \A j \in 1 .. Len(s) : r[j] = s[j]
        /\ \A j \in 1 .. Len(q) : r[Len(s) + j] = q[j]
    OBVIOUS
  <1> HIDE DEF S, s, q, r
  <1>2. s \o q = r
    BY <1>1, Joined
  <1> QED
    BY <1>2 DEF s, q, r

\* ... whose last two statements are joined here.
LEMMA JoinedNine ==
    ASSUME NEW a, NEW b, NEW c, NEW d, NEW e, NEW f, NEW g, NEW h, NEW i, NEW x, NEW y
    PROVE  <<a, b, c, d, e, f, g, h, i>> \o <<x, y>> = <<a, b, c, d, e, f, g, h, i, x, y>>
  <1> DEFINE S == {a, b, c, d, e, f, g, h, i, x, y}
             s == <<a, b, c, d, e, f, g, h, i>>
             q == <<x, y>>
             r == <<a, b, c, d, e, f, g, h, i, x, y>>
  <1>1. /\ s \in Seq(S) /\ q \in Seq(S) /\ r \in Seq(S) /\ Len(r) = Len(s) + Len(q)
        /\ \A j \in 1 .. Len(s) : r[j] = s[j]
        /\ \A j \in 1 .. Len(q) : r[Len(s) + j] = q[j]
    OBVIOUS
  <1> HIDE DEF S, s, q, r
  <1>2. s \o q = r
    BY <1>1, Joined
  <1> QED
    BY <1>2 DEF s, q, r

\* The statements of the revisions.
LEMMA Statements ==
    /\ \A v \in Versions : Stamp(v) \in Statement
    /\ \A t \in Tables : DropTable(t) \in Statement
    /\ \A t \in Tables, required \in SUBSET Parts : CreateTable(t, required) \in Statement
    /\ \A t \in Tables, p \in Parts : Add(t, p) \in Statement /\ Drop(t, p) \in Statement
  BY DEF Stamp, DropTable, CreateTable, Add, Drop, Statement, DdlStatement

\* What alembic executes from each version.
LEMMA Scripts ==
    LET c1 == CreateTable("users", {})
        c2 == Add("users", "ix_email")
        c3 == Add("users", "ix_username")
        c4 == CreateTable("sessions", {"refresh_token_hash", "rotation_counter"})
        c5 == Add("sessions", "ix_user_id")
        c6 == Drop("sessions", "refresh_token_hash")
        c7 == Drop("sessions", "rotation_counter")
        c8 == Add("users", "name")
        d1 == DropTable("users")
        d2 == Drop("users", "ix_email")
        d3 == Drop("users", "ix_username")
        d4 == DropTable("sessions")
        d5 == Drop("sessions", "ix_user_id")
        d6 == Add("sessions", "refresh_token_hash")
        d7 == Add("sessions", "rotation_counter")
        d8 == Drop("users", "name")
    IN  /\ UpgradeFrom(3) = <<>>
        /\ UpgradeFrom(2) = <<c8, Stamp(3)>>
        /\ UpgradeFrom(1) = <<c6, c7, Stamp(2), c8, Stamp(3)>>
        /\ UpgradeFrom(0) = <<c1, c2, c3, c4, c5, Stamp(1), c6, c7, Stamp(2), c8, Stamp(3)>>
        /\ DowngradeFrom(0) = <<>>
        /\ DowngradeFrom(1) = <<d5, d4, d3, d2, d1, Stamp(0)>>
        /\ DowngradeFrom(2) = <<d7, d6, Stamp(1)>>
        /\ DowngradeFrom(3) = <<d8, Stamp(2)>>
  <1> DEFINE c1 == CreateTable("users", {})
             c2 == Add("users", "ix_email")
             c3 == Add("users", "ix_username")
             c4 == CreateTable("sessions", {"refresh_token_hash", "rotation_counter"})
             c5 == Add("sessions", "ix_user_id")
             c6 == Drop("sessions", "refresh_token_hash")
             c7 == Drop("sessions", "rotation_counter")
             c8 == Add("users", "name")
             d1 == DropTable("users")
             d2 == Drop("users", "ix_email")
             d3 == Drop("users", "ix_username")
             d4 == DropTable("sessions")
             d5 == Drop("sessions", "ix_user_id")
             d6 == Add("sessions", "refresh_token_hash")
             d7 == Add("sessions", "rotation_counter")
             d8 == Drop("users", "name")
             s0 == Stamp(0)
             s1 == Stamp(1)
             s2 == Stamp(2)
             s3 == Stamp(3)
  <1>1. /\ c1 \in Statement /\ c4 \in Statement /\ d1 \in Statement /\ d4 \in Statement
    BY Statements DEF Tables, Parts
  <1>2. /\ c2 \in Statement /\ c3 \in Statement /\ c5 \in Statement /\ c6 \in Statement
        /\ c7 \in Statement /\ c8 \in Statement
    BY Statements DEF Tables, Parts
  <1>3. /\ d2 \in Statement /\ d3 \in Statement /\ d5 \in Statement /\ d6 \in Statement
        /\ d7 \in Statement /\ d8 \in Statement
    BY Statements DEF Tables, Parts
  <1>4. s0 \in Statement /\ s1 \in Statement /\ s2 \in Statement /\ s3 \in Statement
    BY Statements DEF Versions, Latest
  <1>5. /\ Up[1] = <<c1, c2, c3, c4, c5>> /\ Up[2] = <<c6, c7>> /\ Up[3] = <<c8>>
        /\ Down[1] = <<d5, d4, d3, d2, d1>> /\ Down[2] = <<d7, d6>> /\ Down[3] = <<d8>>
    BY DEF Up, Down, upgrade_80f2ee816ce9, upgrade_5ef995cd334d, upgrade_70d631c75e08,
           downgrade_80f2ee816ce9, downgrade_5ef995cd334d, downgrade_70d631c75e08
  <1> HIDE DEF c1, c2, c3, c4, c5, c6, c7, c8, d1, d2, d3, d4, d5, d6, d7, d8, s0, s1, s2, s3
  <1>6. /\ Append(Up[1], s1) = <<c1, c2, c3, c4, c5, s1>>
        /\ Append(Down[1], s0) = <<d5, d4, d3, d2, d1, s0>>
    BY <1>5, StampedFive
  <1>7. Append(Up[2], s2) = <<c6, c7, s2>> /\ Append(Down[2], s1) = <<d7, d6, s1>>
    BY <1>5, StampedTwo
  <1>8. Append(Up[3], s3) = <<c8, s3>> /\ Append(Down[3], s2) = <<d8, s2>>
    BY <1>5, StampedOne
  <1>9. /\ Append(Up[1], s1) \in Seq(Statement) /\ Append(Up[2], s2) \in Seq(Statement)
        /\ Append(Up[3], s3) \in Seq(Statement)
    BY <1>1, <1>2, <1>3, <1>4, <1>6, <1>7, <1>8
  <1>10. UpgradeFrom(3) = <<>>
    <2>1. <<>> \o <<>> = <<>>
      BY ConcatEmptySeq, EmptySeq
    <2> QED
      BY <2>1 DEF UpgradeFrom
  <1>11. UpgradeFrom(2) = <<c8, s3>>
    <2>1. (<<>> \o <<>>) \o Append(Up[3], s3) = Append(Up[3], s3)
      BY <1>9, ConcatEmptySeq, EmptySeq
    <2> QED
      BY <1>8, <2>1 DEF UpgradeFrom, s3
  <1>12. UpgradeFrom(1) = <<c6, c7, s2, c8, s3>>
    <2>1. (<<>> \o Append(Up[2], s2)) \o Append(Up[3], s3) = Append(Up[2], s2) \o Append(Up[3], s3)
      BY <1>9, ConcatEmptySeq, EmptySeq
    <2>2. Append(Up[2], s2) \o Append(Up[3], s3) = <<c6, c7, s2, c8, s3>>
      BY <1>7, <1>8, JoinedThree
    <2>3. UpgradeFrom(1) = (<<>> \o Append(Up[2], s2)) \o Append(Up[3], s3)
      BY DEF UpgradeFrom, s2, s3
    <2> QED
      BY <2>1, <2>2, <2>3
  <1>13. UpgradeFrom(0) = <<c1, c2, c3, c4, c5, s1, c6, c7, s2, c8, s3>>
    <2>1. Append(Up[1], s1) \o Append(Up[2], s2) = <<c1, c2, c3, c4, c5, s1, c6, c7, s2>>
      BY <1>6, <1>7, JoinedSix
    <2>2. <<c1, c2, c3, c4, c5, s1, c6, c7, s2>> \o Append(Up[3], s3) =
             <<c1, c2, c3, c4, c5, s1, c6, c7, s2, c8, s3>>
      BY <1>8, JoinedNine
    <2>3. UpgradeFrom(0) = (Append(Up[1], s1) \o Append(Up[2], s2)) \o Append(Up[3], s3)
      BY DEF UpgradeFrom, s1, s2, s3
    <2> QED
      BY <2>1, <2>2, <2>3
  <1>14. /\ DowngradeFrom(0) = <<>>
         /\ DowngradeFrom(1) = <<d5, d4, d3, d2, d1, s0>>
         /\ DowngradeFrom(2) = <<d7, d6, s1>>
         /\ DowngradeFrom(3) = <<d8, s2>>
    BY <1>6, <1>7, <1>8 DEF DowngradeFrom, s0, s1, s2
  <1> QED
    BY <1>10, <1>11, <1>12, <1>13, <1>14
       DEF c1, c2, c3, c4, c5, c6, c7, c8, d1, d2, d3, d4, d5, d6, d7, d8, s0, s1, s2, s3

\* The course of every run.
LEMMA CoursesLead ==
    ASSUME NEW c \in Courses
    PROVE  Leads(c)
  <1>1. /\ \A t, p : Add(t, p).op = "add" /\ Drop(t, p).op = "drop"
        /\ \A t, parts : CreateTable(t, parts).op = "create" /\ DropTable(t).op = "drop_table"
        /\ \A t, parts : Locks(CreateTable(t, parts)) = t
        /\ \A t, p : Locks(Drop(t, p)) = t
    BY DEF Add, Drop, CreateTable, DropTable, Locks
  <1>2. \A v \in Versions : v = 0 \/ v = 1 \/ v = 2 \/ v = 3
    BY DEF Versions, Latest
  <1>3. \A v \in Versions : Stamp(v).op = "stamp"
    BY DEF Stamp
  <1>4. \A v \in Versions : Moves(Stamp(v), LevelOf(v), LevelOf(v))
    BY StampMoves
  <1>5. LevelOf(0) = 0 /\ LevelOf(1) = 5 /\ LevelOf(2) = 7 /\ LevelOf(3) = 8
    BY DEF LevelOf
  <1>6. /\ Moves(Stamp(0), 0, 0) /\ Moves(Stamp(1), 5, 5) /\ Moves(Stamp(2), 7, 7)
        /\ Moves(Stamp(3), 8, 8)
        /\ Stamp(0).op = "stamp" /\ Stamp(1).op = "stamp" /\ Stamp(2).op = "stamp"
        /\ Stamp(3).op = "stamp"
        /\ 0 \in Versions /\ 1 \in Versions /\ 2 \in Versions /\ 3 \in Versions
    BY <1>3, <1>4, <1>5 DEF Versions, Latest
  <1>7. \A s, k, l : Moves(s, k, l) => s \in Statement
    BY DEF Moves, Statement
  <1>8. Leads(Course(0, UpgradeFrom(0), UpLevels(0)))
    <2> DEFINE run == Course(0, UpgradeFrom(0), UpLevels(0))
               a == CreateTable("users", {})
               b == Add("users", "ix_email")
               d == Add("users", "ix_username")
               e == CreateTable("sessions", {"refresh_token_hash", "rotation_counter"})
               f == Add("sessions", "ix_user_id")
               g == Stamp(1)
               h == Drop("sessions", "refresh_token_hash")
               i == Drop("sessions", "rotation_counter")
               j == Stamp(2)
               k == Add("users", "name")
               l == Stamp(3)
    <2>1. /\ run.from = 0 /\ run.script = <<a, b, d, e, f, g, h, i, j, k, l>>
          /\ run.levels = <<0, 1, 2, 3, 4, 5, 5, 6, 7, 7, 8, 8>>
      BY Scripts DEF Course, UpLevels
    <2>2. /\ Moves(a, 0, 1) /\ Moves(b, 1, 2) /\ Moves(d, 2, 3) /\ Moves(e, 3, 4)
          /\ Moves(f, 4, 5) /\ Moves(g, 5, 5) /\ Moves(h, 5, 6) /\ Moves(i, 6, 7)
          /\ Moves(j, 7, 7) /\ Moves(k, 7, 8) /\ Moves(l, 8, 8)
          /\ a \in Statement /\ b \in Statement /\ d \in Statement /\ e \in Statement
          /\ f \in Statement /\ g \in Statement /\ h \in Statement /\ i \in Statement
          /\ j \in Statement /\ k \in Statement /\ l \in Statement
          /\ l.op = "stamp"
      BY <1>6, <1>7, TablesMove, PartsMove
    <2>3. /\ a.op # "stamp" /\ b.op # "stamp" /\ d.op # "stamp" /\ e.op # "stamp"
          /\ f.op # "stamp" /\ h.op # "stamp" /\ i.op # "stamp" /\ k.op # "stamp"
          /\ Locks(e) = "sessions"
      BY <1>1
    <2> HIDE DEF run, a, b, d, e, f, g, h, i, j, k, l
    <2>4. \A n \in 1 .. Len(run.script) - 1 :
             run.script[n].op = "stamp" => "sessions" \in Locked(run, n)
      <3> SUFFICES ASSUME NEW n \in 1 .. 10, run.script[n].op = "stamp"
                   PROVE  "sessions" \in Locked(run, n)
        BY <2>1
      <3>1. n = 6 \/ n = 9
        BY <2>1, <2>3
      <3>2. 4 \in 1 .. n /\ Locks(run.script[4]) = "sessions"
        BY <2>1, <2>3, <3>1
      <3> QED
        BY <3>2 DEF Locked
    <2>5. Leads(run)
      BY <1>5, <1>6, <2>1, <2>2, <2>4 DEF Leads
    <2> QED
      BY <2>5 DEF run
  <1>9. Leads(Course(1, UpgradeFrom(1), UpLevels(1)))
    <2> DEFINE run == Course(1, UpgradeFrom(1), UpLevels(1))
               a == Drop("sessions", "refresh_token_hash")
               b == Drop("sessions", "rotation_counter")
               d == Stamp(2)
               e == Add("users", "name")
               f == Stamp(3)
    <2>1. run.from = 1 /\ run.script = <<a, b, d, e, f>> /\ run.levels = <<5, 6, 7, 7, 8, 8>>
      BY Scripts DEF Course, UpLevels
    <2>2. /\ Moves(a, 5, 6) /\ Moves(b, 6, 7) /\ Moves(d, 7, 7) /\ Moves(e, 7, 8)
          /\ Moves(f, 8, 8)
          /\ a \in Statement /\ b \in Statement /\ d \in Statement /\ e \in Statement
          /\ f \in Statement
          /\ f.op = "stamp"
      BY <1>6, <1>7, TablesMove, PartsMove
    <2>3. /\ a.op # "stamp" /\ b.op # "stamp" /\ e.op # "stamp"
          /\ Locks(a) = "sessions"
      BY <1>1
    <2> HIDE DEF run, a, b, d, e, f
    <2>4. \A n \in 1 .. Len(run.script) - 1 :
             run.script[n].op = "stamp" => "sessions" \in Locked(run, n)
      <3> SUFFICES ASSUME NEW n \in 1 .. 4, run.script[n].op = "stamp"
                   PROVE  "sessions" \in Locked(run, n)
        BY <2>1
      <3>1. n = 3
        BY <2>1, <2>3
      <3>2. 1 \in 1 .. n /\ Locks(run.script[1]) = "sessions"
        BY <2>1, <2>3, <3>1
      <3> QED
        BY <3>2 DEF Locked
    <2>5. Leads(run)
      BY <1>5, <1>6, <2>1, <2>2, <2>4 DEF Leads
    <2> QED
      BY <2>5 DEF run
  <1>10. Leads(Course(2, UpgradeFrom(2), UpLevels(2)))
    <2> DEFINE run == Course(2, UpgradeFrom(2), UpLevels(2))
               a == Add("users", "name")
               b == Stamp(3)
    <2>1. run.from = 2 /\ run.script = <<a, b>> /\ run.levels = <<7, 8, 8>>
      BY Scripts DEF Course, UpLevels
    <2>2. /\ Moves(a, 7, 8) /\ Moves(b, 8, 8)
          /\ a \in Statement /\ b \in Statement
          /\ b.op = "stamp"
      BY <1>6, <1>7, TablesMove, PartsMove
    <2>3. /\ a.op # "stamp"
      BY <1>1
    <2> HIDE DEF run, a, b
    <2>4. \A n \in 1 .. Len(run.script) - 1 : run.script[n].op # "stamp"
      BY <2>1, <2>3
    <2>5. Leads(run)
      BY <1>5, <1>6, <2>1, <2>2, <2>4 DEF Leads
    <2> QED
      BY <2>5 DEF run
  <1>11. Leads(Course(3, UpgradeFrom(3), UpLevels(3)))
    <2> DEFINE run == Course(3, UpgradeFrom(3), UpLevels(3))
    <2>1. run.from = 3 /\ run.script = <<>> /\ run.levels = <<8>>
      BY Scripts DEF Course, UpLevels
    <2> HIDE DEF run
    <2>3. Leads(run)
      BY <1>5, <1>6, <2>1 DEF Leads
    <2> QED
      BY <2>3 DEF run
  <1>12. Leads(Course(0, DowngradeFrom(0), DownLevels(0)))
    <2> DEFINE run == Course(0, DowngradeFrom(0), DownLevels(0))
    <2>1. run.from = 0 /\ run.script = <<>> /\ run.levels = <<0>>
      BY Scripts DEF Course, DownLevels
    <2> HIDE DEF run
    <2>3. Leads(run)
      BY <1>5, <1>6, <2>1 DEF Leads
    <2> QED
      BY <2>3 DEF run
  <1>13. Leads(Course(1, DowngradeFrom(1), DownLevels(1)))
    <2> DEFINE run == Course(1, DowngradeFrom(1), DownLevels(1))
               a == Drop("sessions", "ix_user_id")
               b == DropTable("sessions")
               d == Drop("users", "ix_username")
               e == Drop("users", "ix_email")
               f == DropTable("users")
               g == Stamp(0)
    <2>1. run.from = 1 /\ run.script = <<a, b, d, e, f, g>> /\ run.levels = <<5, 4, 3, 2, 1, 0, 0>>
      BY Scripts DEF Course, DownLevels
    <2>2. /\ Moves(a, 5, 4) /\ Moves(b, 4, 3) /\ Moves(d, 3, 2) /\ Moves(e, 2, 1)
          /\ Moves(f, 1, 0) /\ Moves(g, 0, 0)
          /\ a \in Statement /\ b \in Statement /\ d \in Statement /\ e \in Statement
          /\ f \in Statement /\ g \in Statement
          /\ g.op = "stamp"
      BY <1>6, <1>7, TablesMove, PartsMove
    <2>3. /\ a.op # "stamp" /\ b.op # "stamp" /\ d.op # "stamp" /\ e.op # "stamp"
          /\ f.op # "stamp"
      BY <1>1
    <2> HIDE DEF run, a, b, d, e, f, g
    <2>4. \A n \in 1 .. Len(run.script) - 1 : run.script[n].op # "stamp"
      BY <2>1, <2>3
    <2>5. Leads(run)
      BY <1>5, <1>6, <2>1, <2>2, <2>4 DEF Leads
    <2> QED
      BY <2>5 DEF run
  <1>14. Leads(Course(2, DowngradeFrom(2), DownLevels(2)))
    <2> DEFINE run == Course(2, DowngradeFrom(2), DownLevels(2))
               a == Add("sessions", "rotation_counter")
               b == Add("sessions", "refresh_token_hash")
               d == Stamp(1)
    <2>1. run.from = 2 /\ run.script = <<a, b, d>> /\ run.levels = <<7, 6, 5, 5>>
      BY Scripts DEF Course, DownLevels
    <2>2. /\ Moves(a, 7, 6) /\ Moves(b, 6, 5) /\ Moves(d, 5, 5)
          /\ a \in Statement /\ b \in Statement /\ d \in Statement
          /\ d.op = "stamp"
      BY <1>6, <1>7, TablesMove, PartsMove
    <2>3. /\ a.op # "stamp" /\ b.op # "stamp"
      BY <1>1
    <2> HIDE DEF run, a, b, d
    <2>4. \A n \in 1 .. Len(run.script) - 1 : run.script[n].op # "stamp"
      BY <2>1, <2>3
    <2>5. Leads(run)
      BY <1>5, <1>6, <2>1, <2>2, <2>4 DEF Leads
    <2> QED
      BY <2>5 DEF run
  <1>15. Leads(Course(3, DowngradeFrom(3), DownLevels(3)))
    <2> DEFINE run == Course(3, DowngradeFrom(3), DownLevels(3))
               a == Drop("users", "name")
               b == Stamp(2)
    <2>1. run.from = 3 /\ run.script = <<a, b>> /\ run.levels = <<8, 7, 7>>
      BY Scripts DEF Course, DownLevels
    <2>2. /\ Moves(a, 8, 7) /\ Moves(b, 7, 7)
          /\ a \in Statement /\ b \in Statement
          /\ b.op = "stamp"
      BY <1>6, <1>7, TablesMove, PartsMove
    <2>3. /\ a.op # "stamp"
      BY <1>1
    <2> HIDE DEF run, a, b
    <2>4. \A n \in 1 .. Len(run.script) - 1 : run.script[n].op # "stamp"
      BY <2>1, <2>3
    <2>5. Leads(run)
      BY <1>5, <1>6, <2>1, <2>2, <2>4 DEF Leads
    <2> QED
      BY <2>5 DEF run
  <1> QED
    BY <1>2, <1>8, <1>9, <1>10, <1>11, <1>12, <1>13, <1>14, <1>15 DEF Courses

-----------------------------------------------------------------------------
(* The invariant *)

Job == [running : BOOLEAN, todo : Seq(Statement), from : Versions,
        holds : SUBSET (Tables \cup {"version"}), work : [Tables -> Table \cup {Nil}],
        at : Versions, failed : BOOLEAN]
App == [op : {"login", "register", Nil}, uses : SUBSET Tables, inserted : BOOLEAN, failed : BOOLEAN]

TypeOK ==
    /\ table \in [Tables -> Table \cup {Nil}]
    /\ version \in Versions
    /\ job \in [Migrators -> Job]
    /\ app \in [Apps -> App]
    /\ direct \in BOOLEAN

\* m has executed the first n statements of c.  What it sees of a table is what
\* the course makes of it, if the table was where the course starts: a migration
\* that another has overtaken may read tables of a version it did not expect.
Reached(m, c, n) ==
    /\ c.from = job[m].from
    /\ direct => job[m].holds = Locked(c, n)
    /\ job[m].todo = SubSeq(c.script, n + 1, Len(c.script))
    /\ n > 0 /\ c.script[n].op = "stamp" =>
          "version" \in job[m].holds /\ job[m].at = c.script[n].version
    /\ \A t \in Tables :
          /\ direct =>
                /\ t \notin job[m].holds => Same(t, c.levels[1], c.levels[n + 1])
                /\ Fits(table[t], t, c.levels[1]) => Fits(Seen(m, t), t, c.levels[n + 1])
          /\ ~direct => t \notin job[m].holds

\* Whoever has stamped the version keeps the others from changing it.
JobSound(m) ==
    IF Running(m)
    THEN /\ ~job[m].failed
         /\ "version" \in job[m].holds => version = job[m].from
         /\ \E c \in Courses : c.script # <<>> /\ \E n \in 0 .. Len(c.script) : Reached(m, c, n)
    ELSE job[m].holds = {}

AppSound(a) ==
    /\ IF app[a].op = Nil THEN app[a].uses = {} /\ ~app[a].inserted ELSE ~app[a].failed
    /\ app[a].inserted => Target(a) \in app[a].uses /\ table[Target(a)] # Nil

Exclusive ==
    /\ \A m, n \in Migrators : m # n => job[m].holds \cap job[n].holds = {}
    /\ \A m \in Migrators, a \in Apps : job[m].holds \cap app[a].uses = {}

TablesFit == direct => \A t \in Tables : Fits(table[t], t, LevelOf(version))

MigrationsInv ==
    /\ TypeOK /\ Exclusive /\ TablesFit
    /\ \A m \in Migrators : JobSound(m)
    /\ \A a \in Apps : AppSound(a)

-----------------------------------------------------------------------------
(* Lemmas about a step *)

\* Same is what its name says.
LEMMA SameFits ==
    ASSUME NEW t, NEW k, NEW l, Same(t, k, l), NEW d
    PROVE  Fits(d, t, k) <=> Fits(d, t, l)
  BY DEF Same, Fits

\* From one statement to the next.
LEMMA SameChain ==
    ASSUME NEW t, NEW k, NEW l, NEW h, Same(t, k, l), Same(t, l, h)
    PROVE  Same(t, k, h)
  BY DEF Same

\* A statement leaves a row of the catalog, or none.
LEMMA EffectType ==
    ASSUME NEW s \in DdlStatement, NEW d \in Table \cup {Nil}, Valid(s, d)
    PROVE  Effect(s, d) \in Table \cup {Nil}
  <1>1. CASE s.op = "create"
    BY <1>1 DEF Effect, Table, DdlStatement
  <1>2. CASE s.op = "drop_table"
    BY <1>2 DEF Effect
  <1>3. CASE s.op = "add"
    <2>1. d \in Table /\ Effect(s, d) = [d EXCEPT !.parts = @ \cup s.parts]
      BY <1>3 DEF Effect, Valid
    <2> QED
      BY <2>1 DEF Table, DdlStatement
  <1>4. CASE s.op = "drop"
    <2>1. d \in Table /\ Effect(s, d) = [d EXCEPT !.parts = @ \ s.parts, !.required = @ \ s.parts]
      BY <1>4 DEF Effect, Valid
    <2> QED
      BY <2>1 DEF Table, DdlStatement
  <1> QED
    BY <1>1, <1>2, <1>3, <1>4 DEF DdlStatement

\* The next statement of a migration.
LEMMA NextStatement ==
    ASSUME NEW m \in Migrators, NEW c \in Courses, NEW n \in 0 .. Len(c.script), Reached(m, c, n),
           job[m].todo # <<>>
    PROVE  /\ n + 1 \in 0 .. Len(c.script)
           /\ Head(job[m].todo) = c.script[n + 1] /\ Head(job[m].todo) \in Statement
           /\ Tail(job[m].todo) = SubSeq(c.script, (n + 1) + 1, Len(c.script))
           /\ Moves(Head(job[m].todo), c.levels[n + 1], c.levels[(n + 1) + 1])
  <1>1. c.script \in Seq(Statement) /\ Len(c.script) \in Nat
    BY CoursesLead DEF Leads
  <1>2. job[m].todo = SubSeq(c.script, n + 1, Len(c.script))
    BY DEF Reached
  <1>3. n + 1 \in 1 .. Len(c.script)
    <2>1. CASE n + 1 > Len(c.script)
      BY <1>1, <1>2, <2>1, SubSeqEmpty
    <2> QED
      BY <1>1, <2>1
  <1>4. /\ Head(job[m].todo) = c.script[n + 1]
        /\ Tail(job[m].todo) = SubSeq(c.script, (n + 1) + 1, Len(c.script))
    BY <1>1, <1>2, <1>3, HeadTailOfSubSeq
  <1>5. /\ Moves(c.script[n + 1], c.levels[n + 1], c.levels[(n + 1) + 1])
        /\ c.script[n + 1] \in Statement
    BY <1>1, <1>3, CoursesLead DEF Leads
  <1> QED
    BY <1>1, <1>3, <1>4, <1>5

\* What it locks.
LEMMA LockedMore ==
    ASSUME NEW c, NEW n \in Nat
    PROVE  Locked(c, n + 1) = Locked(c, n) \cup {Locks(c.script[n + 1])}
  BY DEF Locked

\* A migration stays on its course while nobody changes what it has locked.
LEMMA JobUndisturbed ==
    ASSUME TypeOK, TypeOK', NEW m \in Migrators, JobSound(m), job'[m] = job[m], direct' = direct,
           \A t \in job[m].holds \cap Tables : table'[t] = table[t],
           "version" \in job[m].holds => version' = version
    PROVE  JobSound(m)'
  <1>1. CASE ~Running(m)
    BY <1>1 DEF JobSound, Running
  <1>2. CASE Running(m)
    <2>1. PICK c \in Courses : c.script # <<>> /\ \E n \in 0 .. Len(c.script) : Reached(m, c, n)
      BY <1>2 DEF JobSound
    <2>2. PICK n \in 0 .. Len(c.script) : Reached(m, c, n)
      BY <2>1
    <2>3. ASSUME NEW t \in Tables, direct, Fits(table'[t], t, c.levels[1])
          PROVE  Fits(Seen(m, t)', t, c.levels[n + 1])
      <3>1. CASE t \in job[m].holds
        BY <2>2, <2>3, <3>1 DEF Reached, Seen
      <3>2. CASE t \notin job[m].holds
        <4>1. Same(t, c.levels[1], c.levels[n + 1])
          BY <2>2, <2>3, <3>2 DEF Reached
        <4>2. Seen(m, t)' = table'[t]
          BY <3>2 DEF Seen
        <4> QED
          BY <2>3, <4>1, <4>2, SameFits
      <3> QED
        BY <3>1, <3>2
    <2>4. Reached(m, c, n)'
      BY <2>2, <2>3 DEF Reached
    <2>5. \E k \in 0 .. Len(c.script) : Reached(m, c, k)'
      BY <2>4
    <2> QED
      BY <1>2, <2>1, <2>5 DEF JobSound, Running
  <1> QED
    BY <1>1, <1>2

\* A step of one migration that changes nothing but its own transaction.
LEMMA JobStep ==
    ASSUME MigrationsInv, NEW m \in Migrators, NEW j \in Job, job' = [job EXCEPT ![m] = j],
           UNCHANGED <<table, version, app, direct>>, JobSound(m)',
           \A x \in j.holds \ job[m].holds : Available(m, x)
    PROVE  MigrationsInv'
  <1>1. TypeOK'
    BY DEF MigrationsInv, TypeOK
  <1>2. job'[m] = j /\ \A n \in Migrators \ {m} : job'[n] = job[n]
    BY DEF MigrationsInv, TypeOK
  <1>3. Exclusive'
    <2>1. \A n \in Migrators \ {m} : j.holds \cap job[n].holds = {}
      BY DEF MigrationsInv, Exclusive, Available
    <2>2. \A a \in Apps : j.holds \cap app[a].uses = {}
      BY DEF MigrationsInv, Exclusive, Available
    <2>3. \A k, n \in Migrators : k # n => job'[k].holds \cap job'[n].holds = {}
      BY <1>2, <2>1 DEF MigrationsInv, Exclusive
    <2>4. \A k \in Migrators, a \in Apps : job'[k].holds \cap app'[a].uses = {}
      BY <1>2, <2>2 DEF MigrationsInv, Exclusive
    <2> QED
      BY <2>3, <2>4 DEF Exclusive
  <1>4. TablesFit'
    BY DEF MigrationsInv, TablesFit
  <1>5. \A n \in Migrators \ {m} : JobSound(n)'
    BY <1>1, <1>2, JobUndisturbed DEF MigrationsInv
  <1>6. \A a \in Apps : AppSound(a)'
    BY DEF MigrationsInv, AppSound, Target
  <1> QED
    BY <1>1, <1>3, <1>4, <1>5, <1>6 DEF MigrationsInv

\* The same for a request.
LEMMA AppStep ==
    ASSUME MigrationsInv, NEW a \in Apps, NEW r \in App, app' = [app EXCEPT ![a] = r],
           UNCHANGED <<table, version, job, direct>>, AppSound(a)',
           \A x \in r.uses \ app[a].uses : ~Migrating(x)
    PROVE  MigrationsInv'
  <1>1. TypeOK'
    BY DEF MigrationsInv, TypeOK
  <1>2. app'[a] = r /\ \A b \in Apps \ {a} : app'[b] = app[b]
    BY DEF MigrationsInv, TypeOK
  <1>3. Exclusive'
    BY <1>2 DEF MigrationsInv, Exclusive, Migrating
  <1>4. TablesFit'
    BY DEF MigrationsInv, TablesFit
  <1>5. \A m \in Migrators : JobSound(m)'
    BY <1>1, JobUndisturbed DEF MigrationsInv
  <1>6. \A b \in Apps \ {a} : AppSound(b)'
    BY <1>2 DEF MigrationsInv, AppSound, Target
  <1> QED
    BY <1>1, <1>3, <1>4, <1>5, <1>6 DEF MigrationsInv

-----------------------------------------------------------------------------
(* The steps *)

\* A migration that is not running.
LEMMA NoJobType == NoJob \in Job
  BY DEF NoJob, Job, Versions, Latest

\* The empty database.
LEMMA MigrationsInitial == MigrationsInit => MigrationsInv
  <1> SUFFICES ASSUME MigrationsInit PROVE MigrationsInv
    OBVIOUS
  <1>1. NoJob \in Job
    BY NoJobType
  <1>2. NoRequest \in App
    BY DEF NoRequest, App
  <1>3. TypeOK
    BY <1>1, <1>2 DEF MigrationsInit, TypeOK, Versions, Latest
  <1>4. Exclusive
    BY DEF MigrationsInit, Exclusive, NoJob, NoRequest
  <1>5. TablesFit
    BY DEF MigrationsInit, TablesFit, Fits, Exists, LevelOf, Tables
  <1>6. \A m \in Migrators : JobSound(m)
    BY DEF MigrationsInit, JobSound, Running, NoJob
  <1>7. \A a \in Apps : AppSound(a)
    BY DEF MigrationsInit, AppSound, NoRequest
  <1> QED
    BY <1>3, <1>4, <1>5, <1>6, <1>7 DEF MigrationsInv

\* A migration that starts is at the beginning of a course.
LEMMA BeginKeeps ==
    ASSUME MigrationsInv, NEW m \in Migrators, NEW c \in Courses, c.from = version,
           Begin(m, c.script)
    PROVE  MigrationsInv'
  <1> DEFINE j == [NoJob EXCEPT !.running = c.script # <<>>, !.todo = c.script, !.from = version]
  <1>1. c.script \in Seq(Statement) /\ Len(c.script) \in Nat /\ version \in Versions
    BY CoursesLead DEF Leads, MigrationsInv, TypeOK
  <1>2. j \in Job
    BY <1>1, NoJobType DEF Job
  <1>3. job' = [job EXCEPT ![m] = j] /\ job'[m] = j
    BY DEF Begin, MigrationsInv, TypeOK
  <1>4. /\ j.running = (c.script # <<>>) /\ j.todo = c.script /\ j.from = version /\ j.holds = {}
        /\ ~j.failed
    BY DEF NoJob
  <1> HIDE DEF j
  <1>5. Reached(m, c, 0)'
    <2>1. c.script = SubSeq(c.script, 0 + 1, Len(c.script))
      BY <1>1, SubSeqFull
    <2>2. \A t \in Tables : Same(t, c.levels[1], c.levels[0 + 1])
      BY DEF Same
    <2>3. \A t \in Tables : Seen(m, t)' = table'[t]
      BY <1>3, <1>4 DEF Seen
    <2>4. Locked(c, 0) = {}
      BY DEF Locked
    <2>5. c.from = job'[m].from /\ job'[m].holds = Locked(c, 0)
      BY <1>3, <1>4, <2>4
    <2> QED
      BY <1>3, <1>4, <2>1, <2>2, <2>3, <2>5 DEF Reached
  <1>6. JobSound(m)'
    <2>1. 0 \in 0 .. Len(c.script)
      BY <1>1
    <2> QED
      BY <1>3, <1>4, <1>5, <2>1 DEF JobSound, Running
  <1> QED
    BY <1>2, <1>3, <1>4, <1>6, JobStep DEF Begin

\* alembic upgrade and alembic downgrade.
LEMMA UpgradeKeeps ==
    ASSUME MigrationsInv, NEW m \in Migrators, Upgrade(m) \/ Downgrade(m)
    PROVE  MigrationsInv'
  <1> DEFINE up == Course(version, UpgradeFrom(version), UpLevels(version))
             down == Course(version, DowngradeFrom(version), DownLevels(version))
  <1>1. version \in Versions
    BY DEF MigrationsInv, TypeOK
  <1>2. /\ up \in Courses /\ up.from = version /\ up.script = UpgradeFrom(version)
        /\ down \in Courses /\ down.from = version /\ down.script = DowngradeFrom(version)
    BY <1>1 DEF Courses, Course
  <1> HIDE DEF up, down
  <1> QED
    BY <1>2, BeginKeeps DEF Upgrade, Downgrade

\* A migration whose transaction ends without effect.
LEMMA AbortKeeps ==
    ASSUME MigrationsInv, NEW m \in Migrators, NEW failed \in BOOLEAN, Abort(m, failed),
           UNCHANGED <<table, version, app, direct>>
    PROVE  MigrationsInv'
  <1> DEFINE j == [NoJob EXCEPT !.failed = failed]
  <1>1. j \in Job
    BY NoJobType DEF Job
  <1>2. j.holds = {} /\ j.running = FALSE
    BY DEF NoJob
  <1>3. job' = [job EXCEPT ![m] = j] /\ job'[m] = j
    BY DEF Abort, MigrationsInv, TypeOK
  <1> HIDE DEF j
  <1>4. JobSound(m)'
    BY <1>2, <1>3 DEF JobSound, Running
  <1> QED
    BY <1>1, <1>2, <1>3, <1>4, JobStep

\* A statement of a migration that has not been overtaken succeeds.
LEMMA DdlSucceeds ==
    ASSUME MigrationsInv, NEW m \in Migrators, Running(m), job[m].todo # <<>>,
           Head(job[m].todo).op # "stamp", direct, version = job[m].from
    PROVE  Valid(Head(job[m].todo), Seen(m, Head(job[m].todo).table))
  <1> DEFINE s == Head(job[m].todo)
  <1>1. PICK c \in Courses : c.script # <<>> /\ \E n \in 0 .. Len(c.script) : Reached(m, c, n)
    BY DEF MigrationsInv, JobSound
  <1>2. PICK n \in 0 .. Len(c.script) : Reached(m, c, n)
    BY <1>1
  <1>3. s \in DdlStatement /\ Moves(s, c.levels[n + 1], c.levels[(n + 1) + 1])
    BY <1>2, NextStatement DEF Moves
  <1>4. s.table \in Tables
    BY <1>3 DEF DdlStatement
  <1>5. Fits(table[s.table], s.table, c.levels[1])
    BY <1>2, <1>4, CoursesLead DEF Reached, Leads, MigrationsInv, TablesFit
  <1>6. Fits(Seen(m, s.table), s.table, c.levels[n + 1])
    BY <1>2, <1>4, <1>5 DEF Reached
  <1> QED
    BY <1>3, <1>6 DEF Moves

\* A statement takes a migration one place further on its course, or ends it.
LEMMA DdlKeeps ==
    ASSUME MigrationsInv, NEW m \in Migrators, Ddl(m)
    PROVE  MigrationsInv'
  <1> DEFINE s == Head(job[m].todo)
             d == Seen(m, s.table)
  <1>1. PICK c \in Courses : c.script # <<>> /\ \E n \in 0 .. Len(c.script) : Reached(m, c, n)
    BY DEF MigrationsInv, JobSound, Ddl
  <1>2. PICK n \in 0 .. Len(c.script) : Reached(m, c, n)
    BY <1>1
  <1>3. /\ Running(m) /\ job[m].todo # <<>> /\ s.op # "stamp" /\ job[m] \in Job
        /\ ~job[m].failed /\ UNCHANGED <<table, version, app, direct>>
    BY DEF Ddl, MigrationsInv, TypeOK, JobSound
  <1>4. /\ n + 1 \in 0 .. Len(c.script) /\ s = c.script[n + 1]
        /\ Tail(job[m].todo) = SubSeq(c.script, (n + 1) + 1, Len(c.script))
        /\ s \in DdlStatement /\ Moves(s, c.levels[n + 1], c.levels[(n + 1) + 1])
    BY <1>2, <1>3, NextStatement DEF Moves
  <1>5. Locked(c, n + 1) = Locked(c, n) \cup {s.table}
    <2>1. Locks(s) = s.table
      BY <1>3 DEF Locks
    <2> HIDE DEF s
    <2>2. n \in Nat /\ Locks(c.script[n + 1]) = s.table
      BY <1>4, <2>1
    <2> QED
      BY <2>2, LockedMore
  <1>6. s.table \in Tables /\ s.table # "version" /\ Tail(job[m].todo) \in Seq(Statement)
    <2>1. job[m].todo \in Seq(Statement)
      BY <1>3 DEF Job
    <2> QED
      BY <1>3, <1>4, <2>1, HeadTailProperties DEF DdlStatement, Tables
  <1>7. d \in Table \cup {Nil}
    BY <1>3, <1>6 DEF Seen, MigrationsInv, TypeOK, Job
  <1> HIDE DEF s
  <1>8. CASE ~direct
    <2> DEFINE j == Done(job[m])
    <2>1. /\ j \in Job /\ j.todo = Tail(job[m].todo) /\ j.running = job[m].running
          /\ j.holds = job[m].holds /\ j.from = job[m].from /\ j.failed = job[m].failed
      BY <1>3, <1>6 DEF Done, Job
    <2>2. job' = [job EXCEPT ![m] = j] /\ job'[m] = j
      BY <1>8 DEF Ddl, MigrationsInv, TypeOK
    <2> HIDE DEF j
    <2>3. Reached(m, c, n + 1)'
      BY <1>2, <1>3, <1>4, <1>8, <2>1, <2>2 DEF Reached
    <2>4. JobSound(m)'
      <3>1. \E k \in 0 .. Len(c.script) : Reached(m, c, k)'
        BY <1>4, <2>3
      <3> QED
        BY <1>1, <1>3, <2>1, <2>2, <3>1 DEF JobSound, Running, MigrationsInv
    <2> QED
      BY <1>3, <2>1, <2>2, <2>4, JobStep
  <1>9. CASE direct /\ Valid(s, d)
    <2> DEFINE e == Effect(s, d)
               j == [Done(job[m]) EXCEPT !.holds = job[m].holds \cup {s.table}, !.work[s.table] = e]
    <2>1. e \in Table \cup {Nil}
      BY <1>4, <1>7, <1>9, EffectType
    <2>2. Available(m, s.table) /\ job' = [job EXCEPT ![m] = j] /\ job'[m] = j
      <3>0. Available(m, s.table)
        BY <1>9 DEF Ddl, s
      <3>1. job' = [job EXCEPT ![m] = j]
        BY <1>9 DEF Ddl, s
      <3> QED
        BY <3>0, <3>1 DEF MigrationsInv, TypeOK
    <2> HIDE DEF e
    <2>3. /\ j \in Job /\ j.todo = Tail(job[m].todo) /\ j.running = job[m].running
          /\ j.holds = job[m].holds \cup {s.table} /\ j.from = job[m].from
          /\ j.failed = job[m].failed /\ j.work = [job[m].work EXCEPT ![s.table] = e]
      BY <1>3, <1>6, <2>1 DEF Done, Job
    <2> HIDE DEF j
    <2>4. ASSUME NEW t \in Tables
          PROVE  /\ t \notin j.holds => Same(t, c.levels[1], c.levels[(n + 1) + 1])
                 /\ Fits(table[t], t, c.levels[1]) => Fits(Seen(m, t)', t, c.levels[(n + 1) + 1])
      <3>1. /\ t \notin job[m].holds => Same(t, c.levels[1], c.levels[n + 1])
            /\ Fits(table[t], t, c.levels[1]) => Fits(Seen(m, t), t, c.levels[n + 1])
        BY <1>2, <1>9 DEF Reached
      <3>2. CASE t = s.table
        <4>1. Seen(m, t)' = e /\ t \in j.holds
          BY <1>3, <2>2, <2>3, <3>2 DEF Seen, Job
        <4>2. Fits(d, t, c.levels[n + 1]) => Fits(e, t, c.levels[(n + 1) + 1])
          BY <1>3, <1>4, <3>2 DEF Moves, e
        <4> QED
          BY <3>1, <3>2, <4>1, <4>2
      <3>3. CASE t # s.table
        <4>1. Seen(m, t)' = Seen(m, t) /\ (t \in j.holds <=> t \in job[m].holds)
          BY <1>3, <2>2, <2>3, <3>3 DEF Seen, Job
        <4>2. Same(t, c.levels[n + 1], c.levels[(n + 1) + 1])
          BY <1>3, <1>4, <3>3 DEF Moves
        <4> QED
          BY <3>1, <4>1, <4>2, SameFits, SameChain
      <3> QED
        BY <3>2, <3>3
    <2>5. Reached(m, c, n + 1)'
      BY <1>2, <1>3, <1>4, <1>9, <1>5, <2>2, <2>3, <2>4 DEF Reached
    <2>6. JobSound(m)'
      <3>1. \E k \in 0 .. Len(c.script) : Reached(m, c, k)'
        BY <1>4, <2>5
      <3> QED
        BY <1>1, <1>3, <1>6, <2>2, <2>3, <3>1 DEF JobSound, Running, MigrationsInv
    <2> QED
      BY <1>3, <2>2, <2>3, <2>6, JobStep
  <1>10. CASE direct /\ ~Valid(s, d)
    <2>1. Abort(m, TRUE)
      BY <1>10 DEF Ddl, s
    <2> QED
      BY <1>3, <2>1, AbortKeeps
  <1> QED
    BY <1>8, <1>9, <1>10

\* Whoever stamps the version has it for himself, at what he began from.
LEMMA StampVersionKeeps ==
    ASSUME MigrationsInv, NEW m \in Migrators, StampVersion(m)
    PROVE  MigrationsInv'
  <1> DEFINE s == Head(job[m].todo)
             j == [Done(job[m]) EXCEPT !.holds = job[m].holds \cup {"version"}, !.at = s.version]
  <1>1. PICK c \in Courses : c.script # <<>> /\ \E n \in 0 .. Len(c.script) : Reached(m, c, n)
    BY DEF MigrationsInv, JobSound, StampVersion
  <1>2. PICK n \in 0 .. Len(c.script) : Reached(m, c, n)
    BY <1>1
  <1>3. /\ Running(m) /\ job[m].todo # <<>> /\ s.op = "stamp" /\ job[m] \in Job
        /\ ~job[m].failed /\ UNCHANGED <<table, version, app, direct>>
    BY DEF StampVersion, MigrationsInv, TypeOK, JobSound
  <1>4. /\ n + 1 \in 0 .. Len(c.script) /\ s = c.script[n + 1]
        /\ Tail(job[m].todo) = SubSeq(c.script, (n + 1) + 1, Len(c.script))
        /\ s \in Statement /\ Moves(s, c.levels[n + 1], c.levels[(n + 1) + 1])
    <2>1. job[m].todo # <<>>
      BY <1>3
    <2> QED
      BY <1>2, <2>1, NextStatement
  <1>5. Locked(c, n + 1) = Locked(c, n) \cup {"version"}
    <2>1. Locks(s) = "version"
      BY <1>3 DEF Locks
    <2> HIDE DEF s
    <2>2. n \in Nat /\ Locks(c.script[n + 1]) = "version"
      BY <1>4, <2>1
    <2> QED
      BY <2>2, LockedMore
  <1>6. c.levels[(n + 1) + 1] = c.levels[n + 1] /\ s.version \in Versions
    BY <1>3, <1>4 DEF Moves, DdlStatement, Statement
  <1>7. Tail(job[m].todo) \in Seq(Statement)
    <2>1. job[m].todo \in Seq(Statement)
      BY <1>3 DEF Job
    <2> QED
      BY <1>3, <2>1, HeadTailProperties
  <1>8. CASE "version" \notin job[m].holds /\ version # job[m].from
    BY <1>3, <1>8, AbortKeeps DEF StampVersion
  <1>9. CASE ~("version" \notin job[m].holds /\ version # job[m].from)
    <2>1. Available(m, "version") /\ version = job[m].from
      BY <1>3, <1>9 DEF StampVersion, MigrationsInv, JobSound
    <2>2. job' = [job EXCEPT ![m] = j]
      BY <1>9 DEF StampVersion
    <2>3. job'[m] = j
      BY <2>2 DEF MigrationsInv, TypeOK
    <2>4. /\ j \in Job /\ j.todo = Tail(job[m].todo) /\ j.running = job[m].running
          /\ j.holds = job[m].holds \cup {"version"} /\ j.from = job[m].from
          /\ j.failed = job[m].failed /\ j.work = job[m].work /\ j.at = s.version
      BY <1>3, <1>6, <1>7 DEF Done, Job
    <2> HIDE DEF j, s
    <2>5. \A t \in Tables : t # "version"
      BY DEF Tables
    <2>6. \A t \in Tables : Seen(m, t)' = Seen(m, t)
      BY <1>3, <2>3, <2>4, <2>5 DEF Seen
    <2>7. Reached(m, c, n + 1)'
      BY <1>2, <1>3, <1>4, <1>6, <1>5, <2>3, <2>4, <2>5, <2>6 DEF Reached
    <2>8. JobSound(m)'
      <3>1. \E k \in 0 .. Len(c.script) : Reached(m, c, k)'
        BY <1>4, <2>7
      <3> QED
        BY <1>1, <1>3, <2>1, <2>3, <2>4, <3>1 DEF JobSound, Running
    <2> QED
      BY <1>3, <2>1, <2>2, <2>4, <2>8, JobStep
  <1> QED
    BY <1>8, <1>9

\* At the end of its course a migration commits the tables of the version it
\* has stamped, and nobody else was about to change either.
LEMMA CommitMigrationKeeps ==
    ASSUME MigrationsInv, NEW m \in Migrators, CommitMigration(m)
    PROVE  MigrationsInv'
  <1> DEFINE j == [NoJob EXCEPT !.failed = FALSE]
  <1>1. PICK c \in Courses : c.script # <<>> /\ \E n \in 0 .. Len(c.script) : Reached(m, c, n)
    BY DEF MigrationsInv, JobSound, CommitMigration
  <1>2. PICK n \in 0 .. Len(c.script) : Reached(m, c, n)
    BY <1>1
  <1>3. /\ Running(m) /\ job[m].todo = <<>> /\ job[m] \in Job
        /\ table' = [t \in Tables |-> Seen(m, t)] /\ version' = job[m].at
        /\ app' = app /\ direct' = direct
    BY DEF CommitMigration, MigrationsInv, TypeOK
  <1>4. job' = [job EXCEPT ![m] = j]
    BY DEF CommitMigration, Abort
  <1>5. j \in Job /\ j.holds = {} /\ j.running = FALSE
    BY NoJobType DEF Job, NoJob
  <1> HIDE DEF j
  <1>6. job'[m] = j /\ \A k \in Migrators \ {m} : job'[k] = job[k]
    BY <1>4 DEF MigrationsInv, TypeOK
  <1>7. c.script \in Seq(Statement) /\ Len(c.script) \in Nat
    BY CoursesLead DEF Leads
  <1>8. n = Len(c.script) /\ n > 0
    <2>1. SubSeq(c.script, n + 1, Len(c.script)) = <<>>
      BY <1>2, <1>3 DEF Reached
    <2>2. Len(c.script) > 0
      BY <1>1, <1>7, EmptySeq
    <2>3. \A i \in n + 1 .. Len(c.script) : c.script[i] \in Statement
      BY <1>7, ElementOfSeq
    <2>4. Len(SubSeq(c.script, n + 1, Len(c.script))) =
             IF n + 1 <= Len(c.script) THEN Len(c.script) - (n + 1) + 1 ELSE 0
      BY <1>7, <2>3, SubSeqProperties
    <2>5. Len(SubSeq(c.script, n + 1, Len(c.script))) = 0
      BY <2>1, EmptySeq
    <2> QED
      BY <1>7, <2>2, <2>4, <2>5
  <1>9. /\ c.script[n].op = "stamp" /\ "version" \in job[m].holds
        /\ job[m].at = c.script[n].version /\ version = job[m].from
    BY <1>1, <1>2, <1>3, <1>8, CoursesLead DEF Leads, Reached, MigrationsInv, JobSound
  <1>10. c.levels[n + 1] = LevelOf(job[m].at)
    <2>1. Moves(c.script[n], c.levels[n], c.levels[n + 1])
      BY <1>8, CoursesLead DEF Leads
    <2> QED
      BY <1>9, <2>1 DEF Moves, DdlStatement
  <1>11. c.levels[1] = LevelOf(version)
    BY <1>2, <1>9, CoursesLead DEF Leads, Reached
  <1>12. TypeOK'
    <2>1. \A t \in Tables : Seen(m, t) \in Table \cup {Nil}
      BY <1>3 DEF Seen, MigrationsInv, TypeOK, Job
    <2>2. job[m].at \in Versions
      BY <1>3 DEF Job
    <2> QED
      BY <1>3, <1>4, <1>5, <2>1, <2>2 DEF MigrationsInv, TypeOK
  <1>13. TablesFit'
    <2> SUFFICES ASSUME direct, NEW t \in Tables PROVE Fits(Seen(m, t), t, LevelOf(job[m].at))
      BY <1>3 DEF TablesFit
    <2>1. Fits(table[t], t, c.levels[1])
      BY <1>11 DEF MigrationsInv, TablesFit
    <2> QED
      BY <1>2, <1>10, <2>1 DEF Reached
  <1>14. Exclusive'
    <2>1. \A k \in Migrators : job'[k].holds = {} \/ (k # m /\ job'[k].holds = job[k].holds)
      BY <1>5, <1>6
    <2> QED
      BY <1>3, <2>1 DEF MigrationsInv, Exclusive
  <1>15. ASSUME NEW t \in Tables, t \notin job[m].holds PROVE table'[t] = table[t]
    BY <1>3, <1>15 DEF Seen
  <1>16. ASSUME NEW k \in Migrators PROVE JobSound(k)'
    <2>1. CASE k = m
      BY <1>5, <1>6, <2>1 DEF JobSound, Running
    <2>2. CASE k # m
      <3>1. job[k].holds \cap job[m].holds = {}
        BY <2>2 DEF MigrationsInv, Exclusive
      <3>2. "version" \notin job[k].holds
        BY <1>9, <3>1
      <3>3. \A t \in job[k].holds \cap Tables : table'[t] = table[t]
        BY <1>15, <3>1
      <3>4. TypeOK /\ JobSound(k) /\ job'[k] = job[k]
        BY <1>6, <2>2 DEF MigrationsInv
      <3> QED
        BY <1>3, <1>12, <3>2, <3>3, <3>4, JobUndisturbed
    <2> QED
      BY <2>1, <2>2
  <1>17. ASSUME NEW a \in Apps PROVE AppSound(a)'
    <2>1. AppSound(a) /\ Target(a)' = Target(a) /\ Target(a) \in Tables
      BY <1>3 DEF MigrationsInv, Target, Tables
    <2>2. Target(a) \in app[a].uses => table'[Target(a)] = table[Target(a)]
      BY <1>15, <2>1 DEF MigrationsInv, Exclusive
    <2> QED
      BY <1>3, <2>1, <2>2 DEF AppSound
  <1> QED
    BY <1>12, <1>13, <1>14, <1>16, <1>17 DEF MigrationsInv

\* A request that has not begun, ...
LEMMA NoRequestType == NoRequest \in App
  BY DEF NoRequest, App

\* ... or has failed.
LEMMA FailsKeeps ==
    ASSUME MigrationsInv, NEW a \in Apps, Fails(a), UNCHANGED <<table, version, job, direct>>
    PROVE  MigrationsInv'
  <1> DEFINE r == [NoRequest EXCEPT !.failed = TRUE]
  <1>1. r \in App /\ r.uses = {} /\ r.op = Nil /\ ~r.inserted
    BY NoRequestType DEF App, NoRequest
  <1>2. app' = [app EXCEPT ![a] = r] /\ app'[a] = r
    BY DEF Fails, MigrationsInv, TypeOK
  <1> HIDE DEF r
  <1>3. AppSound(a)'
    BY <1>1, <1>2 DEF AppSound
  <1> QED
    BY <1>1, <1>2, <1>3, AppStep

\* The reading of users locks the table against migrations.
LEMMA QueryKeeps ==
    ASSUME MigrationsInv, NEW a \in Apps, NEW op \in {"login", "register"}, Query(a, op)
    PROVE  MigrationsInv'
  <1> DEFINE found == table["users"] # Nil /\ "name" \in table["users"].parts
             r == [NoRequest EXCEPT !.op = op, !.uses = {"users"}]
  <1>1. CASE found
    <2>1. /\ r \in App /\ r.uses = {"users"} /\ r.op = op /\ ~r.inserted /\ ~r.failed
      BY NoRequestType DEF App, NoRequest, Tables
    <2>2. app' = [app EXCEPT ![a] = r] /\ app'[a] = r
      BY <1>1 DEF Query, MigrationsInv, TypeOK
    <2> HIDE DEF r
    <2>3. op # Nil
      BY NilAssumption
    <2>4. AppSound(a)'
      BY <2>1, <2>2, <2>3 DEF AppSound
    <2>5. UNCHANGED <<table, version, job, direct>> /\ ~Migrating("users")
      BY DEF Query
    <2> QED
      BY <2>1, <2>2, <2>4, <2>5, AppStep
  <1>2. CASE ~found
    BY <1>2, FailsKeeps DEF Query
  <1> QED
    BY <1>1, <1>2

\* So does the insertion of a row.
LEMMA InsertRowKeeps ==
    ASSUME MigrationsInv, NEW a \in Apps, InsertRow(a)
    PROVE  MigrationsInv'
  <1> DEFINE fits == table[Target(a)] # Nil /\ table[Target(a)].required = {}
             r == [app[a] EXCEPT !.uses = @ \cup {Target(a)}, !.inserted = TRUE]
  <1>1. /\ app[a] \in App /\ app[a].op # Nil /\ ~Migrating(Target(a)) /\ AppSound(a)
        /\ UNCHANGED <<table, version, job, direct>> /\ Target(a) \in Tables
    BY DEF InsertRow, MigrationsInv, TypeOK, Target, Tables
  <1>2. CASE fits
    <2>1. /\ r \in App /\ r.uses = app[a].uses \cup {Target(a)} /\ r.op = app[a].op /\ r.inserted
          /\ r.failed = app[a].failed
      BY <1>1 DEF App
    <2>2. app' = [app EXCEPT ![a] = r] /\ app'[a] = r
      BY <1>2 DEF InsertRow, MigrationsInv, TypeOK
    <2> HIDE DEF r
    <2>3. Target(a)' = Target(a)
      BY <2>1, <2>2 DEF Target
    <2>4. AppSound(a)'
      BY <1>1, <1>2, <2>1, <2>2, <2>3 DEF AppSound
    <2> QED
      BY <1>1, <2>1, <2>2, <2>4, AppStep
  <1>3. CASE ~fits
    BY <1>1, <1>3, FailsKeeps DEF InsertRow
  <1> QED
    BY <1>2, <1>3

\* Rows come into a table that no migration has locked, and no level asks how
\* many there are.
LEMMA CommitRequestKeeps ==
    ASSUME MigrationsInv, NEW a \in Apps, CommitRequest(a)
    PROVE  MigrationsInv'
  <1> DEFINE x == Target(a)
             d == [table[x] EXCEPT !.rows = TRUE]
  <1>1. /\ app[a].inserted /\ app' = [app EXCEPT ![a] = NoRequest]
        /\ table' = [table EXCEPT ![x] = d]
        /\ UNCHANGED <<version, job, direct>>
    BY DEF CommitRequest
  <1>2. x \in Tables /\ x \in app[a].uses /\ table[x] \in Table
    BY <1>1 DEF MigrationsInv, TypeOK, AppSound, Target, Tables
  <1>3. d \in Table /\ d.parts = table[x].parts /\ d.required = table[x].required
    BY <1>2 DEF Table
  <1> HIDE DEF x, d
  <1>4. table'[x] = d /\ \A t \in Tables \ {x} : table'[t] = table[t]
    BY <1>1, <1>2 DEF MigrationsInv, TypeOK
  <1>5. TypeOK'
    BY <1>1, <1>3, NoRequestType DEF MigrationsInv, TypeOK
  <1>6. app'[a] = NoRequest /\ \A b \in Apps \ {a} : app'[b] = app[b]
    BY <1>1 DEF MigrationsInv, TypeOK
  <1>7. Exclusive'
    BY <1>1, <1>6 DEF MigrationsInv, Exclusive, NoRequest
  <1>8. TablesFit'
    <2>1. \A k : Fits(table[x], x, k) => Fits(d, x, k)
      BY <1>2, <1>3, NilAssumption DEF Fits
    <2> QED
      BY <1>1, <1>4, <2>1 DEF MigrationsInv, TablesFit
  <1>9. ASSUME NEW m \in Migrators PROVE JobSound(m)'
    <2>1. x \notin job[m].holds
      BY <1>2 DEF MigrationsInv, Exclusive
    <2>2. TypeOK /\ JobSound(m)
      BY DEF MigrationsInv
    <2> QED
      BY <1>1, <1>4, <1>5, <2>1, <2>2, JobUndisturbed
  <1>10. ASSUME NEW b \in Apps PROVE AppSound(b)'
    <2>1. CASE b = a
      BY <1>6, <2>1 DEF AppSound, NoRequest
    <2>2. CASE b # a
      <3>1. AppSound(b) /\ app'[b] = app[b] /\ Target(b)' = Target(b) /\ Target(b) \in Tables
        BY <1>6, <2>2 DEF MigrationsInv, Target, Tables
      <3>2. table[Target(b)] # Nil => table'[Target(b)] # Nil
        BY <1>3, <1>4, <3>1, NilAssumption
      <3> QED
        BY <3>1, <3>2 DEF AppSound
    <2> QED
      BY <2>1, <2>2
  <1> QED
    BY <1>5, <1>7, <1>8, <1>9, <1>10 DEF MigrationsInv

\* The victim of a deadlock gives up what it holds.
LEMMA DeadlockVictimKeeps ==
    ASSUME MigrationsInv, NEW x \in Migrators \cup Apps, DeadlockVictim(x)
    PROVE  MigrationsInv'
  <1>1. CASE x \in Migrators
    BY <1>1, AbortKeeps DEF DeadlockVictim
  <1>2. CASE x \notin Migrators
    <2>1. /\ x \in Apps /\ app' = [app EXCEPT ![x] = NoRequest]
          /\ UNCHANGED <<table, version, job, direct>>
      BY <1>2 DEF DeadlockVictim
    <2>2. app'[x] = NoRequest
      BY <2>1 DEF MigrationsInv, TypeOK
    <2>3. AppSound(x)'
      BY <2>2 DEF AppSound, NoRequest
    <2>4. NoRequest.uses = {}
      BY DEF NoRequest
    <2> QED
      BY <2>1, <2>3, <2>4, NoRequestType, AppStep
  <1> QED
    BY <1>1, <1>2

\* Every step keeps the invariant.
LEMMA MigrationsMove == MigrationsInv /\ [MigrationsNext]_vars => MigrationsInv'
  <1> SUFFICES ASSUME MigrationsInv, [MigrationsNext]_vars PROVE MigrationsInv'
    OBVIOUS
  <1>1. ASSUME NEW m \in Migrators, Upgrade(m) \/ Downgrade(m) PROVE MigrationsInv'
    BY <1>1, UpgradeKeeps
  <1>2. ASSUME NEW m \in Migrators, MigrationStep(m) PROVE MigrationsInv'
    BY <1>2, DdlKeeps, StampVersionKeeps, CommitMigrationKeeps DEF MigrationStep
  <1>3. ASSUME NEW m \in Migrators, Crash(m) PROVE MigrationsInv'
    BY <1>3, AbortKeeps DEF Crash
  <1>4. ASSUME NEW a \in Apps, InsertRow(a) PROVE MigrationsInv'
    BY <1>4, InsertRowKeeps
  <1>5. ASSUME NEW a \in Apps, CommitRequest(a) PROVE MigrationsInv'
    BY <1>5, CommitRequestKeeps
  <1>6. ASSUME NEW a \in Apps, NEW op \in {"login", "register"}, Query(a, op) PROVE MigrationsInv'
    BY <1>6, QueryKeeps
  <1>7. ASSUME NEW x \in Migrators \cup Apps, DeadlockVictim(x) PROVE MigrationsInv'
    BY <1>7, DeadlockVictimKeeps
  <1>8. CASE UNCHANGED vars
    BY <1>8 DEF vars, MigrationsInv, TypeOK, Exclusive, TablesFit, JobSound, Running, Reached, Seen,
               AppSound, Target
  <1> QED
    BY <1>1, <1>2, <1>3, <1>4, <1>5, <1>6, <1>7, <1>8 DEF MigrationsNext

\* The invariant, for any number of migrations and requests.
THEOREM MigrationsInvariant == MigrationsSpec => []MigrationsInv
  BY MigrationsInitial, MigrationsMove, PTL DEF MigrationsSpec

-----------------------------------------------------------------------------
(* What it shows *)

\* The recorded version tells what the tables are, whatever upgrades, downgrades
\* and crashes there have been, when no pooler is in the way ("Schema is owned
\* by Alembic", lifespan.py:5).
THEOREM VersionTells == MigrationsSpec => []SchemaMatchesVersion
  <1>1. ASSUME MigrationsInv PROVE SchemaMatchesVersion
    <2> SUFFICES ASSUME direct, NEW t \in Tables
                 PROVE  /\ table[t] = Nil <=> version = 0
                        /\ table[t] # Nil => table[t].parts = SchemaAt(version, t)
      BY DEF SchemaMatchesVersion
    <2>1. Fits(table[t], t, LevelOf(version)) /\ version \in 0 .. 3
      BY <1>1 DEF MigrationsInv, TablesFit, TypeOK, Versions, Latest
    <2>2. CASE version = 0
      BY <2>1, <2>2 DEF Fits, Exists, LevelOf, Tables
    <2>3. CASE version \in 1 .. 3
      <3>1. Exists(t, LevelOf(version)) /\ PartsAt(t, LevelOf(version)) = SchemaAt(version, t)
        BY <2>3 DEF Exists, LevelOf, PartsAt, If, SchemaAt, Tables
      <3> QED
        BY <2>1, <2>3, <3>1, NilAssumption DEF Fits
    <2> QED
      BY <2>1, <2>2, <2>3
  <1> QED
    BY <1>1, MigrationsInvariant, PTL

\* A migration fails only because another has overtaken it: neither the rows it
\* finds nor what an earlier downgrade left behind stop a statement.
THEOREM OnlyOvertakenFail == MigrationsSpec => FailsOnlyIfOvertaken
  <1>1. ASSUME MigrationsInv, [MigrationsNext]_vars, NEW m \in Migrators, Running(m), job'[m].failed
        PROVE  version # job[m].from
    <2>1. job[m] \in Job /\ ~job[m].failed /\ job \in [Migrators -> Job]
      BY <1>1 DEF MigrationsInv, TypeOK, JobSound
    <2>2. ASSUME NEW k \in Migrators, Upgrade(k) \/ Downgrade(k) PROVE FALSE
      <3>1. k # m /\ job'[m] = job[m]
        BY <1>1, <2>1, <2>2 DEF Upgrade, Downgrade, Begin, Running
      <3> QED
        BY <1>1, <2>1, <3>1
    <2>3. ASSUME NEW k \in Migrators, Abort(k, FALSE) PROVE FALSE
      BY <1>1, <2>1, <2>3 DEF Abort, NoJob
    <2>4. ASSUME NEW k \in Migrators, Ddl(k) PROVE version # job[m].from
      <3>1. CASE k # m
        BY <1>1, <2>1, <2>4, <3>1 DEF Ddl, Abort
      <3>2. CASE k = m
        <4>1. CASE ~direct
          <5>1. job' = [job EXCEPT ![m] = Done(job[m])]
            BY <2>4, <3>2, <4>1 DEF Ddl
          <5> QED
            BY <1>1, <2>1, <5>1 DEF Done, Job
        <4>2. CASE direct /\ Valid(Head(job[m].todo), Seen(m, Head(job[m].todo).table))
          <5> DEFINE s == Head(job[m].todo)
                     j == [Done(job[m]) EXCEPT !.holds = job[m].holds \cup {s.table},
                                               !.work[s.table] = Effect(s, Seen(m, s.table))]
          <5>1. job' = [job EXCEPT ![m] = j]
            BY <2>4, <3>2, <4>2 DEF Ddl
          <5>2. ~j.failed
            BY <2>1 DEF Done, Job
          <5> HIDE DEF j
          <5> QED
            BY <1>1, <2>1, <5>1, <5>2
        <4>3. CASE direct /\ ~Valid(Head(job[m].todo), Seen(m, Head(job[m].todo).table))
          BY <1>1, <2>4, <3>2, <4>3, DdlSucceeds DEF Ddl
        <4> QED
          BY <4>1, <4>2, <4>3
      <3> QED
        BY <3>1, <3>2
    <2>5. ASSUME NEW k \in Migrators, StampVersion(k) PROVE version # job[m].from
      <3>1. CASE k # m
        BY <1>1, <2>1, <2>5, <3>1 DEF StampVersion, Abort
      <3>2. CASE k = m
        <4> SUFFICES ASSUME version = job[m].from PROVE FALSE
          OBVIOUS
        <4> DEFINE j == [Done(job[m]) EXCEPT !.holds = job[m].holds \cup {"version"},
                                             !.at = Head(job[m].todo).version]
        <4>1. job' = [job EXCEPT ![m] = j]
          BY <2>5, <3>2 DEF StampVersion
        <4>2. ~j.failed
          BY <2>1 DEF Done, Job
        <4> HIDE DEF j
        <4> QED
          BY <1>1, <2>1, <4>1, <4>2
      <3> QED
        BY <3>1, <3>2
    <2>6. CASE job' = job
      BY <1>1, <2>1, <2>6
    <2>7. ASSUME NEW k \in Migrators, MigrationStep(k) PROVE version # job[m].from
      BY <2>3, <2>4, <2>5, <2>7 DEF MigrationStep, CommitMigration
    <2>8. ASSUME NEW k \in Migrators, Crash(k) PROVE FALSE
      BY <2>3, <2>8 DEF Crash
    <2>9. ASSUME NEW a \in Apps,
                 InsertRow(a) \/ CommitRequest(a) \/ \E op \in {"login", "register"} : Query(a, op)
          PROVE  version # job[m].from
      BY <2>6, <2>9 DEF InsertRow, CommitRequest, Query
    <2>10. ASSUME NEW x \in Migrators \cup Apps, DeadlockVictim(x) PROVE version # job[m].from
      BY <2>3, <2>6, <2>10 DEF DeadlockVictim
    <2>11. CASE UNCHANGED vars
      BY <2>6, <2>11 DEF vars
    <2> QED
      BY <1>1, <2>2, <2>7, <2>8, <2>9, <2>10, <2>11 DEF MigrationsNext
  <1>2. MigrationsInv /\ [MigrationsNext]_vars =>
           [\A m \in Migrators : Running(m) /\ job'[m].failed => version # job[m].from]_vars
    BY <1>1
  <1> QED
    BY <1>2, MigrationsInvariant, PTL DEF MigrationsSpec, FailsOnlyIfOvertaken

\* While the database is at the latest version no request misses a table or a
\* column, and no migration takes them from one that has begun ("Startup assumes
\* the database is already migrated", lifespan.py:6).
THEOREM LatestServes == MigrationsSpec => RequestsServed
  <1>1. ASSUME MigrationsInv, [MigrationsNext]_vars, NEW a \in Apps, direct, app'[a].failed,
               app'[a] # app[a], version = Latest
        PROVE  FALSE
    <2>1. app \in [Apps -> App] /\ LevelOf(version) = 8
      BY <1>1 DEF MigrationsInv, TypeOK, LevelOf, Latest
    <2>2. ASSUME NEW t \in Tables
          PROVE  /\ table[t] \in Table /\ table[t] # Nil
                 /\ table[t].parts = PartsAt(t, 8) /\ table[t].required = {}
      <3>1. Fits(table[t], t, 8) /\ Exists(t, 8)
        BY <1>1, <2>1 DEF MigrationsInv, TablesFit, Exists, Tables
      <3>2. /\ table[t] \in Table /\ table[t].parts = PartsAt(t, 8)
            /\ table[t].required \subseteq
                  PartsAt(t, 8) \cap {"refresh_token_hash", "rotation_counter"}
        BY <3>1 DEF Fits
      <3>3. PartsAt(t, 8) \cap {"refresh_token_hash", "rotation_counter"} = {}
        BY DEF PartsAt, If, Tables
      <3> QED
        BY <3>2, <3>3, NilAssumption
    <2>3. table["users"] # Nil /\ "name" \in table["users"].parts
      BY <2>2 DEF Tables, PartsAt, If
    <2>4. ASSUME NEW b \in Apps, NEW op \in {"login", "register"}, Query(b, op) PROVE FALSE
      <3>1. app' = [app EXCEPT ![b] = [NoRequest EXCEPT !.op = op, !.uses = {"users"}]]
        BY <2>3, <2>4 DEF Query
      <3> QED
        BY <1>1, <2>1, <3>1 DEF NoRequest
    <2>5. ASSUME NEW b \in Apps, InsertRow(b) PROVE FALSE
      <3>1. Target(b) \in Tables
        BY DEF Target, Tables
      <3>2. app' = [app EXCEPT ![b].uses = @ \cup {Target(b)}, ![b].inserted = TRUE]
        BY <2>2, <2>5, <3>1 DEF InsertRow
      <3>3. ~app[b].failed
        BY <1>1, <2>5 DEF MigrationsInv, AppSound, InsertRow
      <3> QED
        BY <1>1, <2>1, <3>2, <3>3 DEF App
    <2>6. ASSUME NEW b \in Apps, app' = [app EXCEPT ![b] = NoRequest] PROVE FALSE
      BY <1>1, <2>1, <2>6 DEF NoRequest
    <2>7. ASSUME NEW m \in Migrators, Upgrade(m) \/ Downgrade(m) \/ MigrationStep(m) \/ Crash(m)
          PROVE  FALSE
      BY <1>1, <2>7 DEF Upgrade, Downgrade, Begin, MigrationStep, Ddl, StampVersion,
                        CommitMigration, Crash
    <2>8. ASSUME NEW b \in Apps, CommitRequest(b) PROVE FALSE
      BY <2>6, <2>8 DEF CommitRequest
    <2>9. ASSUME NEW x \in Migrators \cup Apps, DeadlockVictim(x) PROVE FALSE
      BY <1>1, <2>6, <2>9 DEF DeadlockVictim
    <2>10. CASE UNCHANGED vars
      BY <1>1, <2>10 DEF vars
    <2> QED
      BY <1>1, <2>4, <2>5, <2>7, <2>8, <2>9, <2>10 DEF MigrationsNext
  <1>2. MigrationsInv /\ [MigrationsNext]_vars =>
           [\A a \in Apps : direct /\ app'[a].failed /\ app'[a] # app[a] => version # Latest]_vars
    BY <1>1
  <1> QED
    BY <1>2, MigrationsInvariant, PTL DEF MigrationsSpec, RequestsServed

\* What everybody in the circle has locked and waits for.
LEMMA LockOrder ==
    ASSUME MigrationsInv
    PROVE  /\ \A m \in Migrators :
                /\ Wants(m) # {} /\ "version" \in Holds(m) /\ direct => "sessions" \in Holds(m)
                /\ ~direct => Holds(m) \cap Tables = {}
           /\ \A x \in Migrators \cup Apps :
                 \E k \in Tables \cup {"version"} : Wants(x) \subseteq {k}
           /\ \A a \in Apps \ Migrators : Wants(a) \subseteq Tables /\ Holds(a) \subseteq Tables
  <1>1. ASSUME NEW m \in Migrators
        PROVE  /\ Wants(m) # {} /\ "version" \in Holds(m) /\ direct => "sessions" \in Holds(m)
               /\ ~direct => Holds(m) \cap Tables = {}
    <2>1. Holds(m) = job[m].holds /\ JobSound(m)
      BY DEF Holds, MigrationsInv
    <2>2. CASE ~Running(m)
      BY <2>1, <2>2 DEF JobSound
    <2>3. CASE Running(m)
      <3>1. PICK c \in Courses : c.script # <<>> /\ \E n \in 0 .. Len(c.script) : Reached(m, c, n)
        BY <2>1, <2>3 DEF JobSound
      <3>2. PICK n \in 0 .. Len(c.script) : Reached(m, c, n)
        BY <3>1
      <3>3. ~direct => Holds(m) \cap Tables = {}
        BY <2>1, <3>2 DEF Reached
      <3>4. ASSUME Wants(m) # {}, "version" \in Holds(m), direct PROVE "sessions" \in Holds(m)
        <4>1. c.script \in Seq(Statement) /\ Len(c.script) \in Nat
          BY CoursesLead DEF Leads
        <4>2. job[m].todo # <<>> /\ job[m].holds = Locked(c, n)
          BY <3>2, <3>4 DEF Wants, Reached
        <4>3. PICK k \in 1 .. n : Locks(c.script[k]) = "version"
          BY <2>1, <3>4, <4>2 DEF Locked
        <4>4. n + 1 \in 0 .. Len(c.script)
          BY <3>2, <4>2, NextStatement
        <4>5. k \in 1 .. Len(c.script) - 1
          BY <4>1, <4>3, <4>4
        <4>6. c.script[k] \in Statement
          BY <4>1, <4>5, ElementOfSeq
        <4>7. c.script[k].op = "stamp"
          BY <4>3, <4>6 DEF Locks, Statement, DdlStatement, Tables
        <4>8. "sessions" \in Locked(c, k)
          BY <4>5, <4>7, CoursesLead DEF Leads
        <4>9. Locked(c, k) \subseteq Locked(c, n)
          BY <4>3 DEF Locked
        <4> QED
          BY <2>1, <4>2, <4>8, <4>9
      <3> QED
        BY <3>3, <3>4
    <2> QED
      BY <2>2, <2>3
  <1>2. ASSUME NEW x \in Migrators \cup Apps
        PROVE  \E k \in Tables \cup {"version"} : Wants(x) \subseteq {k}
    <2>1. CASE x \in Migrators /\ job[x].todo # <<>>
      <3>1. job[x].todo \in Seq(Statement)
        BY <2>1 DEF MigrationsInv, TypeOK, Job
      <3>2. Head(job[x].todo) \in Statement
        BY <2>1, <3>1, HeadTailProperties
      <3>3. Locks(Head(job[x].todo)) \in Tables \cup {"version"}
        BY <3>2 DEF Statement, DdlStatement, Locks
      <3> QED
        BY <2>1, <3>3 DEF Wants
    <2>2. CASE ~(x \in Migrators /\ job[x].todo # <<>>)
      BY <2>2 DEF Wants, Target, Tables
    <2> QED
      BY <2>1, <2>2
  <1>3. \A a \in Apps \ Migrators : Wants(a) \subseteq Tables /\ Holds(a) \subseteq Tables
    BY DEF Wants, Holds, Target, Tables, MigrationsInv, TypeOK, App
  <1> QED
    BY <1>1, <1>2, <1>3

\* Among any number of migrations and requests that wait in a circle there are
\* two that wait for each other: downgrades lock sessions before users and
\* requests users before sessions, but nobody waits for users with alembic_version
\* alone (upgrade and downgrade, alembic/versions; PostgreSQL locks).
THEOREM PairsDeadlock == MigrationsSpec => []DeadlocksInPairs
  <1>1. ASSUME MigrationsInv PROVE DeadlocksInPairs
    <2> SUFFICES ASSUME NEW S \in SUBSET (Migrators \cup Apps), S # {},
                        \A x \in S : \E y \in S : WaitsFor(x, y)
                 PROVE  \E x, y \in S : WaitsFor(x, y) /\ WaitsFor(y, x)
      BY DEF DeadlocksInPairs
    <2>1. ASSUME NEW x \in S
          PROVE  /\ Wants(x) # {} /\ Wants(x) \cap Holds(x) = {}
                 /\ \E k \in {"users", "sessions", "version"} : Wants(x) = {k}
      <3>1. PICK y \in S : WaitsFor(x, y)
        OBVIOUS
      <3>2. Wants(x) \cap (Holds(y) \ Holds(x)) # {}
        BY <3>1 DEF WaitsFor
      <3>3. PICK k \in Tables \cup {"version"} : Wants(x) \subseteq {k}
        BY <1>1, LockOrder
      <3> QED
        BY <3>2, <3>3 DEF Tables
    \* Who wants what the other has, and the other one of them.
    <2>2. ASSUME NEW y \in S, NEW z \in S, WaitsFor(y, z), Wants(z) \subseteq Holds(y)
          PROVE  WaitsFor(z, y)
      BY <2>1, <2>2 DEF WaitsFor
    <2>3. CASE \E x \in S : Wants(x) = {"version"}
      <3>1. PICK x \in S : Wants(x) = {"version"}
        BY <2>3
      <3>2. PICK y \in S : WaitsFor(x, y)
        OBVIOUS
      <3>3. "version" \in Holds(y)
        BY <3>1, <3>2 DEF WaitsFor
      <3>4. y \in Migrators
        BY <1>1, <3>3, LockOrder DEF Tables
      <3>5. PICK z \in S : WaitsFor(y, z)
        OBVIOUS
      <3>6. Wants(y) \cap Holds(z) # {} /\ Wants(y) \subseteq Tables
        BY <2>1, <3>3, <3>5 DEF WaitsFor, Tables
      <3>7. CASE direct
        <4>1. "sessions" \in Holds(y)
          BY <1>1, <2>1, <3>3, <3>4, <3>7, LockOrder
        <4>2. Wants(y) = {"users"}
          BY <2>1, <3>3, <4>1
        <4>3. "users" \in Holds(z)
          BY <3>6, <4>2
        <4>4. Wants(z) \subseteq Holds(y)
          BY <2>1, <3>3, <4>1, <4>3
        <4> QED
          BY <2>2, <3>5, <4>4
      <3>8. CASE ~direct
        <4>1. z \notin Migrators
          BY <1>1, <3>6, <3>8, LockOrder
        <4>2. PICK u \in S : WaitsFor(z, u)
          OBVIOUS
        <4>3. u \in Migrators /\ Wants(z) \cap Holds(u) # {} /\ Wants(z) \subseteq Tables
          BY <1>1, <4>1, <4>2, LockOrder DEF WaitsFor
        <4> QED
          BY <1>1, <3>8, <4>3, LockOrder
      <3> QED
        BY <3>7, <3>8
    <2>4. CASE ~\E x \in S : Wants(x) = {"version"}
      <3>1. PICK x \in S : TRUE
        OBVIOUS
      <3>2. PICK y \in S : WaitsFor(x, y)
        OBVIOUS
      <3>3. PICK z \in S : WaitsFor(y, z)
        OBVIOUS
      <3>4. Wants(x) \subseteq Holds(y) /\ Wants(y) \subseteq Holds(z)
        BY <2>1, <3>2, <3>3 DEF WaitsFor
      <3>5. Wants(z) = Wants(x)
        BY <2>1, <2>4, <3>4
      <3> QED
        BY <2>2, <3>3, <3>4, <3>5
    <2> QED
      BY <2>3, <2>4
  <1> QED
    BY <1>1, MigrationsInvariant, PTL
=============================================================================
