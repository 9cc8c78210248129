------------------------ MODULE AccountsSystemProofs ------------------------
(***************************************************************************)
(* For any number of addresses, usernames, accounts and requests in        *)
(* flight: AccountsInv is an invariant of the user routes, so names stay   *)
(* unique; deletions are final; nobody's account is changed by others; the *)
(* table implements NameRegistry; and a walk through the pages misses no   *)
(* more accounts than were deleted, or came after its last count.          *)
(*                                                                         *)
(* RequestStep does once what is the same for all actions but Commit: one  *)
(* request moves, the table stays as it is.  Each action then says what it *)
(* makes of its own request.                                               *)
(***************************************************************************)
EXTENDS AccountsSystem, FiniteSetTheorems, TLAPS

-----------------------------------------------------------------------------
(* Requests *)

\* Moving a request on changes its place only.
LEMMA MovedFields ==
    ASSUME NEW q \in Request, NEW pc \in Places
    PROVE  LET m == [q EXCEPT !.pc = pc]
           IN /\ m \in Request /\ m.pc = pc
              /\ m.op = q.op /\ m.caller = q.caller /\ m.uid = q.uid /\ m.email = q.email
              /\ m.username = q.username /\ m.cols = q.cols
  BY DEF Request

\* An answered request is idle.
LEMMA AnsweredFields ==
    ASSUME NEW a \in Answers
    PROVE  LET m == [Idle EXCEPT !.answer = a]
           IN m \in Request /\ m.op = Nil /\ m.pc = "idle" /\ m.cols = {}
  BY DEF Idle, Begun, Request, Places

\* A request that writes nothing yet holds nothing.
LEMMA NothingHeld ==
    ASSUME NEW q, ~Writing(q)
    PROVE  Held(q) = {}
  BY DEF Held, Writing

\* Registrations whose names are being checked can be counted.
LEMMA RegisteringCount ==
    ASSUME NEW r \in Reqs
    PROVE  /\ IsFiniteSet(Registering) /\ Cardinality(Registering) \in Nat
           /\ At(r, "check") => Cardinality(Registering) >= 1
  <1>1. IsFiniteSet(Registering) /\ IsFiniteSet(Registering \ {r})
    BY UidAssumption, FS_Subset DEF Registering
  <1>2. Cardinality(Registering) \in Nat /\ Cardinality(Registering \ {r}) \in Nat
    BY <1>1, FS_CardinalityType
  <1>3. At(r, "check") => Cardinality(Registering \ {r}) = Cardinality(Registering) - 1
    BY <1>1, FS_RemoveElement DEF Registering
  <1> QED
    BY <1>1, <1>2, <1>3

\* A request that moves is counted or no longer counted.
LEMMA RegisteringFacts ==
    ASSUME req \in [Reqs -> Request], NEW r \in Reqs, NEW q \in Request,
           req' = [req EXCEPT ![r] = q]
    PROVE  /\ q.pc = "check" /\ ~At(r, "check") =>
                 Cardinality(Registering') = Cardinality(Registering) + 1
           /\ q.pc # "check" /\ At(r, "check") =>
                 Cardinality(Registering') = Cardinality(Registering) - 1
           /\ q.pc # "check" /\ ~At(r, "check") =>
                 Cardinality(Registering') = Cardinality(Registering)
  <1>1. IsFiniteSet(Registering) /\ (r \in Registering <=> At(r, "check"))
    BY RegisteringCount DEF Registering
  <1>2. q.pc = "check" => Registering' = Registering \cup {r}
    BY DEF Registering, At
  <1>3. q.pc # "check" => Registering' = Registering \ {r}
    BY DEF Registering, At
  <1>4. q.pc = "check" /\ ~At(r, "check") =>
                 Cardinality(Registering') = Cardinality(Registering) + 1
    BY <1>1, <1>2, FS_AddElement
  <1>5. q.pc # "check" /\ At(r, "check") =>
                 Cardinality(Registering') = Cardinality(Registering) - 1
    BY <1>1, <1>3, FS_RemoveElement
  <1>6. q.pc # "check" /\ ~At(r, "check") => Registering' = Registering
    BY <1>1, <1>3
  <1> QED
    BY <1>4, <1>5, <1>6

-----------------------------------------------------------------------------
(* One request moves, the table stays as it is *)

\* What the next state of r must satisfy by itself, and beside the others.
Fits(r, q) ==
    /\ \A p \in Reqs \ {r} :
          /\ Held(q) \cap Held(req[p]) = {}
          /\ Writing(q) /\ Writing(req[p]) => q.uid # req[p].uid
    /\ q.pc \in {"claim_name", "commit"} => ~Taken(q.uid, Image(q).email)
    /\ q.pc = "commit" => ~Taken(q.uid, Image(q).username)

\* All the others are undisturbed.
LEMMA RequestStep ==
    ASSUME AccountsInv, NEW r \in Reqs, NEW q \in Request,
           req' = [req EXCEPT ![r] = q], acct' = acct, walk' = walk,
           nextUid' \in Nat, nextUid <= nextUid',
           nextUid' + Cardinality(Registering') <= MaxUid + 1,
           RequestSound(q)', Fits(r, q)
    PROVE  AccountsInv'
  <1>1. /\ req \in [Reqs -> Request] /\ acct \in [Uids -> Account \cup {Nil}]
        /\ nextUid \in Nat \ {0} /\ walk \in Walk
    BY DEF AccountsInv, TypeOK
  <1>2. req'[r] = q /\ \A p \in Reqs \ {r} : req'[p] = req[p]
    BY <1>1
  <1>3. TypeOK'
    BY <1>1 DEF TypeOK
  <1>4. NamesUnique'
    BY DEF AccountsInv, NamesUnique, StoredUids, Stored
  <1>5. UidsLeft'
    <2>1. \A u \in StoredUids : u < nextUid /\ u \in Nat
      BY DEF AccountsInv, UidsLeft, StoredUids, Uids
    <2>2. StoredUids' = StoredUids
      BY DEF StoredUids, Stored
    <2> QED
      BY <1>1, <2>1, <2>2 DEF UidsLeft
  <1>6. \A p \in Reqs : RequestSound(req[p])'
    <2> SUFFICES ASSUME NEW p \in Reqs \ {r} PROVE RequestSound(req[p])'
      BY <1>2
    <2>1. RequestSound(req[p]) /\ req'[p] = req[p] /\ req[p] \in Request
      BY <1>1, <1>2 DEF AccountsInv
    <2>2. Writing(req[p]) /\ req[p].op = "create" => req[p].uid \in Nat
      BY <2>1 DEF RequestSound, Request, Uids
    <2> QED
      BY <1>1, <2>1, <2>2 DEF RequestSound, Stored, Writing
  <1>7. /\ Held(q)' = Held(q) /\ Image(q)' = Image(q)
        /\ \A p \in Reqs : Held(req[p])' = IF p = r THEN Held(q) ELSE Held(req[p])
        /\ \A p \in Reqs : Image(req[p])' = IF p = r THEN Image(q) ELSE Image(req[p])
        /\ \A p \in Reqs : Writing(req[p])' <=> IF p = r THEN Writing(q) ELSE Writing(req[p])
    <2>1. \A p \in Reqs : Image(req[p])' = IF p = r THEN Image(q) ELSE Image(req[p])
      BY <1>2 DEF Image, NewRow, Written
    <2>2. \A p \in Reqs : Writing(req[p])' <=> IF p = r THEN Writing(q) ELSE Writing(req[p])
      BY <1>2 DEF Writing
    <2>3. Image(q)' = Image(q)
      BY DEF Image, NewRow, Written
    <2>4. Held(q)' = Held(q)
      BY <2>3 DEF Held
    <2>5. ASSUME NEW p \in Reqs PROVE Held(req[p])' = IF p = r THEN Held(q) ELSE Held(req[p])
      <3>1. CASE p = r
        BY <3>1, <1>2, <2>1, <2>2 DEF Held
      <3>2. CASE p # r
        BY <3>2, <1>2, <2>1, <2>2 DEF Held
      <3> QED
        BY <3>1, <3>2
    <2> QED
      BY <2>1, <2>2, <2>3, <2>4, <2>5
  <1>8. LocksSound'
    <2> SUFFICES ASSUME NEW p1 \in Reqs, NEW p2 \in Reqs, p1 # p2
                 PROVE  /\ Held(req[p1])' \cap Held(req[p2])' = {}
                        /\ Writing(req[p1])' /\ Writing(req[p2])' => req'[p1].uid # req'[p2].uid
      BY DEF LocksSound
    <2>1. CASE p1 = r
      BY <2>1, <1>2, <1>7 DEF Fits
    <2>2. CASE p2 = r
      BY <2>2, <1>2, <1>7 DEF Fits
    <2>3. CASE p1 # r /\ p2 # r
      BY <2>3, <1>2, <1>7 DEF AccountsInv, LocksSound
    <2> QED
      BY <2>1, <2>2, <2>3
  <1>9. ClaimsSound'
    <2> SUFFICES ASSUME NEW p \in Reqs
                 PROVE  /\ At(p, "claim_name")' \/ At(p, "commit")'
                              => ~Taken(req[p].uid, Image(req[p]).email)'
                        /\ At(p, "commit")' => ~Taken(req[p].uid, Image(req[p]).username)'
      BY DEF ClaimsSound
    <2>1. \A u, k : Taken(u, k)' <=> Taken(u, k)
      BY DEF Taken, Stored
    <2>2. CASE p = r
      BY <2>2, <1>2, <1>7 DEF Fits, At, Taken, Stored
    <2>3. CASE p # r
      BY <2>3, <1>2, <1>7 DEF AccountsInv, ClaimsSound, At, Taken, Stored
    <2> QED
      BY <2>2, <2>3
  <1> QED
    BY <1>3, <1>4, <1>5, <1>6, <1>8, <1>9 DEF AccountsInv

\* Only registrations that leave the question about their names use an id.
LEMMA PlainStep ==
    ASSUME AccountsInv, NEW r \in Reqs, NEW q \in Request,
           req' = [req EXCEPT ![r] = q], acct' = acct, walk' = walk, nextUid' = nextUid,
           q.pc # "check", RequestSound(q), Fits(r, q)
    PROVE  AccountsInv'
  <1>1. req \in [Reqs -> Request] /\ nextUid \in Nat /\ MaxUid \in Nat
    BY UidAssumption DEF AccountsInv, TypeOK
  <1>2. nextUid' + Cardinality(Registering') <= MaxUid + 1
    <2>1. /\ Cardinality(Registering) \in Nat
          /\ nextUid + Cardinality(Registering) <= MaxUid + 1
      BY RegisteringCount DEF AccountsInv, UidsLeft
    <2>2. \/ Cardinality(Registering') = Cardinality(Registering)
          \/ Cardinality(Registering') = Cardinality(Registering) - 1
      BY <1>1, <2>1, RegisteringFacts
    <2> QED
      BY <1>1, <2>1, <2>2
  <1>3. RequestSound(q)'
    BY DEF RequestSound, Stored, Writing
  <1>4. nextUid <= nextUid' /\ nextUid' \in Nat
    BY <1>1
  <1> QED
    BY <1>2, <1>3, <1>4, RequestStep

\* A request that has not written anything is in nobody's way.
LEMMA QuietStep ==
    ASSUME AccountsInv, NEW r \in Reqs, NEW q \in Request,
           req' = [req EXCEPT ![r] = q], acct' = acct, walk' = walk, nextUid' = nextUid,
           q.pc # "check", ~Writing(q), RequestSound(q)
    PROVE  AccountsInv'
  <1>1. Fits(r, q)
    BY NothingHeld DEF Fits, Writing
  <1> QED
    BY <1>1, PlainStep

\* A request is answered: its transaction, if it had one, is rolled back.
LEMMA AnswerStep ==
    ASSUME AccountsInv, NEW r \in Reqs, NEW a \in Answers, Answer(r, a),
           acct' = acct, walk' = walk, nextUid' = nextUid
    PROVE  AccountsInv'
  <1> DEFINE m == [Idle EXCEPT !.answer = a]
  <1>1. m \in Request /\ m.op = Nil /\ m.pc = "idle" /\ m.cols = {}
    BY AnsweredFields
  <1>2. req' = [req EXCEPT ![r] = m]
    BY DEF Answer, Become
  <1> HIDE DEF m
  <1>3. ~Writing(m) /\ m.pc # "check" /\ RequestSound(m)
    BY <1>1, AccountOpsAssumption DEF Writing, RequestSound, AllAccountOps
  <1> QED
    BY <1>1, <1>2, <1>3, QuietStep

\* An error is answered, whatever it is.
LEMMA RaiseStep ==
    ASSUME AccountsInv, NEW r \in Reqs, NEW e \in DOMAIN AnswerTo, Raise(r, e),
           acct' = acct, walk' = walk, nextUid' = nextUid
    PROVE  AccountsInv'
  <1>1. AnswerTo[e] \in Answers
    BY DEF AnswerTo, Answers
  <1> QED
    BY <1>1, AnswerStep DEF Raise

\* A request moves on before it writes anything.
LEMMA QuietMove ==
    ASSUME AccountsInv, NEW r \in Reqs,
           NEW pc \in {"check_email", "check_name", "reread"}, Goto(r, pc),
           acct' = acct, walk' = walk, nextUid' = nextUid,
           req[r].op \notin {"create", Nil},
           pc = "check_email" => req[r].email # Nil,
           pc = "check_name" => req[r].username # Nil
    PROVE  AccountsInv'
  <1> DEFINE m == [req[r] EXCEPT !.pc = pc]
  <1>1. req[r] \in Request /\ pc \in Places /\ RequestSound(req[r])
    BY DEF AccountsInv, TypeOK, Places
  <1>2. /\ m \in Request /\ m.pc = pc
        /\ m.op = req[r].op /\ m.caller = req[r].caller /\ m.uid = req[r].uid
        /\ m.email = req[r].email /\ m.username = req[r].username /\ m.cols = req[r].cols
    BY <1>1, MovedFields
  <1>3. req' = [req EXCEPT ![r] = m]
    BY DEF Goto
  <1> HIDE DEF m
  <1>4. ~Writing(m) /\ m.pc # "check"
    BY <1>2 DEF Writing
  <1>5. RequestSound(m)
    BY <1>1, <1>2 DEF RequestSound
  <1> QED
    BY <1>2, <1>3, <1>4, <1>5, QuietStep

-----------------------------------------------------------------------------
(* Registration *)

\* A registration starts if an account is left for it.
LEMMA RegisterStep ==
    ASSUME AccountsInv, NEW r \in Reqs, NEW e \in Emails, NEW n \in Usernames,
           Register(r, e, n), walk' = walk
    PROVE  AccountsInv'
  <1> DEFINE m == Begun("create", "check", Nil, Nil, e, n)
  <1>2. /\ m \in Request /\ m.op = "create" /\ m.pc = "check"
        /\ m.email = e /\ m.username = n /\ m.cols = {}
    BY DEF Begun, Request, AllAccountOps, Places, Answers
  <1>3. req' = [req EXCEPT ![r] = m] /\ acct' = acct /\ nextUid' = nextUid
    BY DEF Register, Become
  <1> HIDE DEF m
  <1>4. req \in [Reqs -> Request] /\ nextUid \in Nat /\ MaxUid \in Nat
    BY UidAssumption DEF AccountsInv, TypeOK
  <1>5. nextUid' + Cardinality(Registering') <= MaxUid + 1
    <2>1. Cardinality(Registering') = Cardinality(Registering) + 1
      BY <1>2, <1>3, <1>4, RegisteringFacts DEF Register, At
    <2>2. nextUid + Cardinality(Registering) <= MaxUid /\ Cardinality(Registering) \in Nat
      BY RegisteringCount DEF Register, UidLeft
    <2> QED
      BY <1>3, <1>4, <2>1, <2>2
  <1>6. ~Writing(m)
    BY <1>2 DEF Writing
  <1>7. RequestSound(m)'
    BY <1>2, <1>6, NamesAssumption, AccountOpsAssumption DEF RequestSound, Writing, AllAccountOps
  <1>8. Fits(r, m)
    BY <1>2, <1>6, NothingHeld DEF Fits
  <1>9. nextUid' \in Nat /\ nextUid <= nextUid'
    BY <1>3, <1>4
  <1> QED
    BY <1>2, <1>3, <1>5, <1>7, <1>8, <1>9, RequestStep

\* The names looked free: the new row has an id nobody else has.
LEMMA CheckNamesStep ==
    ASSUME AccountsInv, NEW r \in Reqs, CheckNames(r), walk' = walk
    PROVE  AccountsInv'
  <1> DEFINE found == Cardinality(Matches(req[r].email, req[r].username))
  <1>1. /\ req \in [Reqs -> Request] /\ nextUid \in Nat \ {0} /\ MaxUid \in Nat
        /\ RequestSound(req[r]) /\ req[r] \in Request /\ acct' = acct
    BY UidAssumption DEF AccountsInv, TypeOK, CheckNames
  <1>2. CASE found # 0
    <2>1. PICK e \in {"UserAlreadyExistsError", "MultipleResultsFound"} :
             Raise(r, e) /\ nextUid' = nextUid
      BY <1>2 DEF CheckNames
    <2>2. e \in DOMAIN AnswerTo
      BY DEF AnswerTo
    <2> QED
      BY <1>1, <2>1, <2>2, RaiseStep
  <1>3. CASE found = 0
    <2> DEFINE m == [req[r] EXCEPT !.uid = nextUid]
               new == [m EXCEPT !.pc = "claim_email"]
    <2>1. /\ nextUid + Cardinality(Registering) <= MaxUid + 1
          /\ Cardinality(Registering) >= 1 /\ Cardinality(Registering) \in Nat
      BY RegisteringCount DEF CheckNames, AccountsInv, UidsLeft
    <2>2. nextUid \in Uids
      BY <1>1, <2>1 DEF Uids
    <2>3. /\ m \in Request /\ m.uid = nextUid /\ m.op = req[r].op /\ m.email = req[r].email
          /\ m.username = req[r].username /\ m.cols = req[r].cols /\ m.caller = req[r].caller
      BY <1>1, <2>2 DEF Request
    <2> HIDE DEF m
    <2>4. /\ new \in Request /\ new.pc = "claim_email" /\ new.uid = nextUid
          /\ new.op = req[r].op /\ new.email = req[r].email
          /\ new.username = req[r].username /\ new.cols = req[r].cols
      BY <2>3, MovedFields DEF Places
    <2>5. req' = [req EXCEPT ![r] = new] /\ nextUid' = nextUid + 1
      BY <1>3 DEF CheckNames, Become, m
    <2> HIDE DEF new
    <2>6. PICK q \in Request :
              /\ q.pc = "claim_email" /\ q.uid = nextUid
              /\ q.op = req[r].op /\ q.email = req[r].email
              /\ q.username = req[r].username /\ q.cols = req[r].cols
              /\ req' = [req EXCEPT ![r] = q]
      BY <2>4, <2>5
    <2>7. req[r].op = "create"
      BY <1>1 DEF CheckNames, At, RequestSound
    <2>8. nextUid' + Cardinality(Registering') <= MaxUid + 1
      <3>1. Cardinality(Registering') = Cardinality(Registering) - 1
        BY <1>1, <2>6, <2>5, RegisteringFacts DEF CheckNames
      <3> QED
        BY <1>1, <2>1, <2>5, <3>1
    <2>9. ~Stored(nextUid)
      BY <1>1, <2>2 DEF AccountsInv, UidsLeft, StoredUids
    <2>10. RequestSound(q)'
      <3>1. q.email # Nil /\ q.username # Nil
        BY <1>1, <2>6, <2>7 DEF RequestSound
      <3>2. q.uid # Nil /\ ~Stored(q.uid) /\ q.uid < nextUid' /\ (Stored(q.uid)' <=> Stored(q.uid))
        BY <1>1, <2>6, <2>5, <2>9, NamesAssumption DEF Stored
      <3>3. q.op # Nil /\ q.op = "create" /\ q.pc = "claim_email"
        BY <2>6, <2>7, AccountOpsAssumption DEF AllAccountOps
      <3>4. "deleted" \notin q.cols
        BY <1>1, <2>6, <2>7 DEF RequestSound
      <3> QED
        BY <3>1, <3>2, <3>3, <3>4 DEF RequestSound
    <2>11. Fits(r, q)
      <3>1. Held(q) = {}
        BY <2>6, <2>7 DEF Held
      <3>2. ASSUME NEW p \in Reqs, Writing(req[p]) PROVE req[p].uid # nextUid
        <4>1. RequestSound(req[p]) /\ req[p] \in Request
          BY <1>1 DEF AccountsInv
        <4>2. CASE req[p].op = "create"
          BY <1>1, <3>2, <4>1, <4>2 DEF RequestSound, Request, Uids
        <4>3. CASE req[p].op # "create"
          <5>1. Stored(req[p].uid)
            BY <3>2, <4>1, <4>3 DEF RequestSound, Writing
          <5> QED
            BY <2>9, <5>1
        <4> QED
          BY <4>2, <4>3
      <3> QED
        BY <2>6, <3>1, <3>2 DEF Fits
    <2>12. nextUid' \in Nat /\ nextUid <= nextUid'
      BY <1>1, <2>5
    <2>13. q \in Request /\ req' = [req EXCEPT ![r] = q] /\ acct' = acct
      BY <1>1, <2>6, <2>5
    <2> HIDE DEF found
    <2> QED
      BY <2>8, <2>10, <2>11, <2>12, <2>13, RequestStep
  <1> QED
    BY <1>2, <1>3

-----------------------------------------------------------------------------
(* Update, password change and deletion, until they write *)

\* RoleGuard lets only a superuser delete.
LEMMA DeletersAreSuperusers ==
    ASSUME NEW c \in Uids, acct[c] \in Account, MayDelete(c)
    PROVE  acct[c].role = "superuser"
  <1>1. acct[c].role \in Roles
    BY DEF Account
  <1> QED
    BY <1>1 DEF MayDelete, MeetsRole, ROLE_HIERARCHY, Roles

\* The route checks who may call.
LEMMA AuthorizeStep ==
    ASSUME AccountsInv, NEW r \in Reqs, NEW op \in {"update", "password", "delete"},
           NEW c \in StoredUids, NEW u \in StoredUids,
           NEW e \in Emails \cup {Nil}, NEW n \in Usernames \cup {Nil}, NEW allowed \in BOOLEAN,
           Authorize(r, op, c, u, e, n, allowed), walk' = walk,
           allowed => acct[c].role = "superuser" \/ (c = u /\ op # "delete")
    PROVE  AccountsInv'
  <1>1. acct' = acct /\ nextUid' = nextUid
    BY DEF Authorize
  <1>2. CASE ~allowed
    <2>1. Raise(r, "InsufficientPermissionsError")
      BY <1>2 DEF Authorize
    <2>2. "InsufficientPermissionsError" \in DOMAIN AnswerTo
      BY DEF AnswerTo
    <2> QED
      BY <1>1, <2>1, <2>2, RaiseStep
  <1>3. CASE allowed
    <2> DEFINE m == Begun(op, "find", c, u, e, n)
    <2>1. /\ m \in Request /\ m.op = op /\ m.pc = "find" /\ m.caller = c /\ m.uid = u
          /\ m.cols = {}
      BY DEF Begun, Request, AllAccountOps, Places, Answers, StoredUids
    <2>2. req' = [req EXCEPT ![r] = m]
      BY <1>3 DEF Authorize, Become
    <2> HIDE DEF m
    <2>3. Stored(c) /\ Stored(u) /\ c # Nil /\ u # Nil
      BY NamesAssumption DEF StoredUids, Uids
    <2>4. op # Nil
      BY AccountOpsAssumption DEF AllAccountOps
    <2>5. RequestSound(m)
      BY <1>3, <2>1, <2>3, <2>4 DEF RequestSound
    <2>6. ~Writing(m) /\ m.pc # "check"
      BY <2>1 DEF Writing
    <2> QED
      BY <1>1, <2>1, <2>2, <2>5, <2>6, QuietStep
  <1> QED
    BY <1>2, <1>3

\* A request that has found its account.
LEMMA AddressedFacts ==
    ASSUME AccountsInv, NEW r \in Reqs,
           req[r].pc \in {"find", "check_email", "check_name", "reread", "lock"}
    PROVE  /\ req[r] \in Request /\ RequestSound(req[r])
           /\ req[r].op \notin {"create", Nil}
           /\ req[r].uid \in Uids /\ Stored(req[r].uid) /\ acct[req[r].uid] \in Account
  <1>1. req[r] \in Request /\ RequestSound(req[r])
    BY DEF AccountsInv, TypeOK
  <1>2. req[r].op \notin {"create", Nil}
    BY <1>1 DEF RequestSound
  <1>3. req[r].uid \in Uids /\ Stored(req[r].uid)
    BY <1>1, <1>2 DEF RequestSound, Request
  <1> QED
    BY <1>1, <1>2, <1>3 DEF AccountsInv, TypeOK, Stored

\* The questions before the row is read again change nothing.
LEMMA QuestionStep ==
    ASSUME AccountsInv, NEW r \in Reqs, Find(r) \/ CheckEmail(r) \/ CheckName(r), walk' = walk
    PROVE  AccountsInv'
  <1>1. acct' = acct /\ nextUid' = nextUid
    BY DEF Find, CheckEmail, CheckName
  <1>2. /\ req[r].op \notin {"create", Nil}
        /\ At(r, "check_email") => req[r].email # Nil
    <2>1. req[r].pc \in {"find", "check_email", "check_name", "reread", "lock"}
      BY DEF Find, CheckEmail, CheckName, At
    <2> QED
      BY <2>1, AddressedFacts DEF RequestSound, At
  <1>3. CASE \E e \in {"UserNotFoundError", "UserAlreadyExistsError"} : Raise(r, e)
    <2>1. PICK e \in DOMAIN AnswerTo : Raise(r, e)
      BY <1>3 DEF AnswerTo
    <2> QED
      BY <1>1, <2>1, RaiseStep
  <1>4. CASE Answer(r, "success")
    BY <1>1, <1>4, AnswerStep DEF Answers
  <1>5. CASE Goto(r, "reread")
    BY <1>1, <1>2, <1>5, QuietMove
  <1>6. CASE Goto(r, "check_email") /\ req[r].email # Nil
    BY <1>1, <1>2, <1>6, QuietMove
  <1>7. CASE Goto(r, "check_name") /\ req[r].username # Nil
    BY <1>1, <1>2, <1>7, QuietMove
  <1> QED
    BY <1>3, <1>4, <1>5, <1>6, <1>7 DEF Find, CheckEmail, CheckName, AfterEmail

\* The columns to write are those the payload or the deletion sets.
LEMMA RereadStep ==
    ASSUME AccountsInv, NEW r \in Reqs, Reread(r), walk' = walk
    PROVE  AccountsInv'
  <1> DEFINE cols == Changed(req[r], acct[req[r].uid])
             m == [req[r] EXCEPT !.cols = cols]
             new == [m EXCEPT !.pc = "lock"]
  <1>1. /\ req[r] \in Request /\ RequestSound(req[r]) /\ req[r].op \notin {"create", Nil}
    BY AddressedFacts DEF Reread, At
  <1>2. /\ cols \in SUBSET Columns
        /\ "email" \in cols => req[r].email # Nil
        /\ "username" \in cols => req[r].username # Nil
        /\ "deleted" \in cols => req[r].op = "delete"
    BY DEF Changed
  <1> HIDE DEF cols
  <1>3. /\ m \in Request /\ m.cols = cols /\ m.op = req[r].op /\ m.caller = req[r].caller
        /\ m.uid = req[r].uid /\ m.email = req[r].email /\ m.username = req[r].username
    BY <1>1, <1>2 DEF Request
  <1> HIDE DEF m
  <1>4. /\ new \in Request /\ new.pc = "lock" /\ new.cols = cols /\ new.op = req[r].op
        /\ new.caller = req[r].caller /\ new.uid = req[r].uid
        /\ new.email = req[r].email /\ new.username = req[r].username
    BY <1>3, MovedFields DEF Places
  <1>5. req' = [req EXCEPT ![r] = new] /\ acct' = acct /\ nextUid' = nextUid
    BY DEF Reread, Become, m, cols
  <1> HIDE DEF new
  <1>6. RequestSound(new)
    BY <1>1, <1>2, <1>4 DEF RequestSound
  <1>7. ~Writing(new) /\ new.pc # "check"
    BY <1>4 DEF Writing
  <1> QED
    BY <1>4, <1>5, <1>6, <1>7, QuietStep

-----------------------------------------------------------------------------
(* Locks and index entries *)

\* The names of a stored row are held by nobody but the writer of the row.
LEMMA RowFree ==
    ASSUME AccountsInv, NEW p \in Reqs, NEW u \in Uids, Stored(u),
           Writing(req[p]) => req[p].uid # u
    PROVE  KeysOf(acct[u]) \cap Held(req[p]) = {}
  <1>1. CASE ~Writing(req[p])
    BY <1>1, NothingHeld
  <1>2. CASE Writing(req[p])
    <2> DEFINE q == req[p]
    <2>1. q \in Request /\ RequestSound(q) /\ q.uid # u
      BY <1>2 DEF AccountsInv, TypeOK
    <2>2. q.op # "create" => KeysOf(acct[u]) \cap KeysOf(acct[q.uid]) = {}
      <3>1. q.op # "create" => q.uid \in Uids /\ Stored(q.uid)
        BY <1>2, <2>1 DEF RequestSound, Request, Writing
      <3> QED
        BY <2>1, <3>1 DEF AccountsInv, NamesUnique, StoredUids
    <2>3. ASSUME NEW k, ~Taken(q.uid, k) PROVE k \notin KeysOf(acct[u])
      BY <2>1, <2>3 DEF Taken
    <2>4. q.pc \in {"claim_name", "commit"} => Image(q).email \notin KeysOf(acct[u])
      BY <2>3 DEF AccountsInv, ClaimsSound, At
    <2>5. q.pc = "commit" => Image(q).username \notin KeysOf(acct[u])
      BY <2>3 DEF AccountsInv, ClaimsSound, At
    <2> QED
      BY <2>2, <2>4, <2>5 DEF Held
  <1> QED
    BY <1>1, <1>2

\* Moving on changes neither the row nor the names a request is writing.
LEMMA SameImage ==
    ASSUME NEW q, NEW m, m.op = q.op, m.uid = q.uid, m.email = q.email,
           m.username = q.username, m.cols = q.cols
    PROVE  Image(m) = Image(q)
  BY DEF Image, NewRow, Written

\* An UPDATE gets its row: the old names are its own.
LEMMA LockRowStep ==
    ASSUME AccountsInv, NEW r \in Reqs, LockRow(r), walk' = walk
    PROVE  AccountsInv'
  <1> DEFINE q == req[r]
             pc == IF q.cols \cap {"email", "username"} = {} THEN "commit" ELSE "claim_email"
             m == [q EXCEPT !.pc = pc]
  <1>1. /\ q \in Request /\ RequestSound(q) /\ q.op \notin {"create", Nil}
        /\ q.uid \in Uids /\ Stored(q.uid)
    BY AddressedFacts DEF LockRow, At
  <1>2. pc \in {"commit", "claim_email"} /\ pc \in Places
    BY DEF Places
  <1>3. req' = [req EXCEPT ![r] = m] /\ acct' = acct /\ nextUid' = nextUid
    BY DEF LockRow, Goto
  <1>4. pc = "commit" => q.cols \cap {"email", "username"} = {}
    OBVIOUS
  <1> HIDE DEF pc
  <1>5. /\ m \in Request /\ m.pc = pc /\ m.op = q.op /\ m.caller = q.caller /\ m.uid = q.uid
        /\ m.email = q.email /\ m.username = q.username /\ m.cols = q.cols
    BY <1>1, <1>2, MovedFields
  <1> HIDE DEF m
  <1>6. RequestSound(m)
    BY <1>1, <1>2, <1>5 DEF RequestSound
  <1>7. pc = "commit" => /\ Image(m).email = acct[q.uid].email
                         /\ Image(m).username = acct[q.uid].username
    BY <1>1, <1>4, <1>5 DEF Image, Written
  <1>8. Held(m) \subseteq KeysOf(acct[q.uid])
    BY <1>2, <1>5, <1>7 DEF Held, KeysOf
  <1>9. ASSUME NEW p \in Reqs \ {r}, Writing(req[p]) PROVE req[p].uid # q.uid
    <2>1. RequestSound(req[p])
      BY DEF AccountsInv
    <2>2. CASE req[p].op = "create"
      BY <1>1, <1>9, <2>1, <2>2 DEF RequestSound
    <2>3. CASE req[p].op # "create"
      BY <1>9, <2>3 DEF LockRow, HoldsRow
    <2> QED
      BY <2>2, <2>3
  <1>10. \A p \in Reqs \ {r} : Held(m) \cap Held(req[p]) = {}
    BY <1>1, <1>8, <1>9, RowFree
  <1>11. ~Taken(q.uid, acct[q.uid].email) /\ ~Taken(q.uid, acct[q.uid].username)
    BY <1>1 DEF Taken, KeysOf, AccountsInv, NamesUnique, StoredUids
  <1>12. Fits(r, m)
    BY <1>2, <1>5, <1>7, <1>9, <1>10, <1>11 DEF Fits
  <1>13. m.pc # "check"
    BY <1>2, <1>5
  <1> QED
    BY <1>5, <1>3, <1>6, <1>12, <1>13, PlainStep

\* An index entry goes in, or the request is refused.
LEMMA ClaimStep ==
    ASSUME AccountsInv, NEW r \in Reqs, ClaimEmail(r) \/ ClaimName(r), walk' = walk
    PROVE  AccountsInv'
  <1> DEFINE q == req[r]
  <1>1. /\ q \in Request /\ RequestSound(q) /\ Writing(q)
        /\ acct' = acct /\ nextUid' = nextUid
    BY DEF AccountsInv, TypeOK, ClaimEmail, ClaimName, At, Writing
  <1> DEFINE pc == IF At(r, "claim_email") THEN "claim_name" ELSE "commit"
             k == IF At(r, "claim_email") THEN Image(q).email ELSE Image(q).username
  <1>2. /\ Claim(r, k, pc) /\ pc \in {"claim_name", "commit"} /\ pc \in Places
        /\ pc = "commit" => k = Image(q).username /\ q.pc = "claim_name"
        /\ pc = "claim_name" => k = Image(q).email /\ q.pc = "claim_email"
    BY DEF ClaimEmail, ClaimName, At, Places
  <1> HIDE DEF pc, k
  <1>3. CASE Taken(q.uid, k)
    <2>1. Raise(r, "IntegrityError") /\ "IntegrityError" \in DOMAIN AnswerTo
      BY <1>2, <1>3 DEF Claim, AnswerTo
    <2> QED
      BY <1>1, <2>1, RaiseStep
  <1>4. CASE ~Taken(q.uid, k)
    <2> DEFINE m == [q EXCEPT !.pc = pc]
    <2>1. /\ m \in Request /\ m.pc = pc /\ m.op = q.op /\ m.caller = q.caller /\ m.uid = q.uid
          /\ m.email = q.email /\ m.username = q.username /\ m.cols = q.cols
      BY <1>1, <1>2, MovedFields
    <2>2. req' = [req EXCEPT ![r] = m]
      BY <1>2, <1>4 DEF Claim, Goto
    <2> HIDE DEF m
    <2>3. Image(m) = Image(q)
      BY <2>1, SameImage
    <2>4. Held(m) = Held(q) \cup {k}
      BY <1>1, <1>2, <2>1, <2>3 DEF Held, Writing
    <2>5. RequestSound(m)
      BY <1>1, <1>2, <2>1 DEF RequestSound, Writing
    <2>6. pc = "commit" => ~Taken(q.uid, Image(q).email)
      BY <1>2 DEF AccountsInv, ClaimsSound, At
    <2>7. \A p \in Reqs \ {r} : /\ Held(q) \cap Held(req[p]) = {} /\ k \notin Held(req[p])
                                /\ Writing(req[p]) => q.uid # req[p].uid
      BY <1>1, <1>2 DEF AccountsInv, LocksSound, Claim, Busy
    <2>8. Fits(r, m)
      BY <1>2, <1>4, <2>1, <2>3, <2>4, <2>6, <2>7 DEF Fits
    <2>9. m.pc # "check"
      BY <1>2, <2>1
    <2> QED
      BY <1>1, <2>1, <2>2, <2>5, <2>8, <2>9, PlainStep
  <1> QED
    BY <1>3, <1>4

-----------------------------------------------------------------------------
(* Commits *)

\* What a transaction publishes: a new account, or a row of an account that
\* keeps its role and stays deleted if it was.
LEMMA CommitFacts ==
    ASSUME AccountsInv, NEW r \in Reqs, Commit(r)
    PROVE  /\ req[r].uid \in Uids
           /\ Image(req[r]) \in Account
           /\ acct' = [acct EXCEPT ![req[r].uid] = Image(req[r])]
           /\ req[r].op = "create" => ~Stored(req[r].uid)
           /\ req[r].op # "create" =>
                 /\ Stored(req[r].uid)
                 /\ Image(req[r]).role = acct[req[r].uid].role
                 /\ acct[req[r].uid].deleted => Image(req[r]).deleted
           /\ ~Taken(req[r].uid, Image(req[r]).email)
           /\ ~Taken(req[r].uid, Image(req[r]).username)
  <1> DEFINE q == req[r]
  <1>1. /\ q \in Request /\ RequestSound(q) /\ q.pc = "commit" /\ Writing(q)
        /\ acct \in [Uids -> Account \cup {Nil}]
    BY DEF AccountsInv, TypeOK, Commit, At, Writing
  <1>2. q.uid \in Uids /\ (q.op = "create" => ~Stored(q.uid)) /\ (q.op # "create" => Stored(q.uid))
    BY <1>1 DEF RequestSound, Request
  <1>3. CASE q.op = "create"
    <2>1. Image(q) = [email |-> q.email, username |-> q.username, role |-> "user", deleted |-> FALSE]
      BY <1>3 DEF Image, NewRow
    <2>2. q.email \in Emails /\ q.username \in Usernames
      BY <1>1, <1>3 DEF RequestSound, Request
    <2>3. Image(q) \in Account
      BY <2>1, <2>2 DEF Account, Roles
    <2> QED
      BY <1>1, <1>2, <1>3, <2>3 DEF AccountsInv, ClaimsSound, Commit, At
  <1>4. CASE q.op # "create"
    <2> DEFINE row == acct[q.uid]
    <2>1. row \in Account
      BY <1>1, <1>2, <1>4 DEF Stored
    <2>2. /\ Image(q) = Written(q, row)
          /\ "email" \in q.cols => q.email \in Emails
          /\ "username" \in q.cols => q.username \in Usernames
          /\ "deleted" \in q.cols => q.op = "delete"
      BY <1>1, <1>4 DEF Image, RequestSound, Request
    <2> HIDE DEF row
    <2>3. /\ Written(q, row) \in Account /\ Written(q, row).role = row.role
          /\ row.deleted => Written(q, row).deleted
      BY <2>1, <2>2 DEF Written, Account
    <2> QED
      BY <1>1, <1>2, <1>4, <2>2, <2>3 DEF AccountsInv, ClaimsSound, Commit, At, row
  <1> QED
    BY <1>3, <1>4

\* A commit takes names nobody has, and what others hold is not among them.
LEMMA CommitStep ==
    ASSUME AccountsInv, NEW r \in Reqs, Commit(r), walk' = walk
    PROVE  AccountsInv'
  <1> DEFINE u0 == req[r].uid
             row0 == Image(req[r])
  <1>1. PICK u \in Uids, row \in Account :
           /\ u = u0 /\ row = row0
           /\ acct' = [acct EXCEPT ![u] = row] /\ nextUid' = nextUid
           /\ ~Taken(u, row.email) /\ ~Taken(u, row.username)
           /\ req[r].op = "create" => ~Stored(u)
           /\ req[r].op # "create" => Stored(u) /\ row.role = acct[u].role
    BY CommitFacts DEF Commit
  <1>2. /\ req \in [Reqs -> Request] /\ acct \in [Uids -> Account \cup {Nil}]
        /\ nextUid \in Nat \ {0} /\ walk \in Walk /\ MaxUid \in Nat
        /\ RequestSound(req[r]) /\ req[r].pc = "commit" /\ Writing(req[r])
    BY UidAssumption DEF AccountsInv, TypeOK, Commit, At, Writing
  <1>3. PICK m \in Request : req' = [req EXCEPT ![r] = m] /\ m.op = Nil /\ m.pc = "idle" /\ m.cols = {}
    <2> DEFINE m == [Idle EXCEPT !.answer = "success"]
    <2>1. m \in Request /\ m.op = Nil /\ m.pc = "idle" /\ m.cols = {}
      BY AnsweredFields DEF Answers
    <2> QED
      BY <2>1 DEF Commit, Answer, Become
  <1>4. req'[r] = m /\ \A p \in Reqs \ {r} : req'[p] = req[p]
    BY <1>2, <1>3
  <1>5. /\ acct'[u] = row /\ row # Nil
        /\ \A v \in Uids \ {u} : acct'[v] = acct[v]
        /\ \A v \in Uids : Stored(v)' <=> Stored(v) \/ v = u
    BY <1>1, <1>2, RowAssumption DEF Stored
  <1>6. TypeOK'
    BY <1>1, <1>2, <1>3 DEF TypeOK
  <1>7. NamesUnique'
    <2> SUFFICES ASSUME NEW v \in Uids, NEW w \in Uids, v # w, Stored(v)', Stored(w)'
                 PROVE  KeysOf(acct'[v]) \cap KeysOf(acct'[w]) = {}
      BY DEF NamesUnique, StoredUids, KeysOf
    <2>1. ASSUME NEW x \in Uids \ {u}, Stored(x) PROVE KeysOf(row) \cap KeysOf(acct[x]) = {}
      BY <1>1, <2>1 DEF Taken, KeysOf
    <2>2. CASE v # u /\ w # u
      BY <2>2, <1>5 DEF AccountsInv, NamesUnique, StoredUids
    <2>3. CASE v = u
      BY <2>1, <2>3, <1>5
    <2>4. CASE w = u
      BY <2>1, <2>4, <1>5
    <2> QED
      BY <2>2, <2>3, <2>4
  <1>8. u < nextUid
    BY <1>1, <1>2 DEF AccountsInv, UidsLeft, StoredUids, RequestSound
  <1>9. UidsLeft'
    <2>1. Registering' = Registering
      BY <1>2, <1>3, <1>4 DEF Registering, At
    <2> QED
      BY <1>1, <1>5, <1>8, <2>1 DEF AccountsInv, UidsLeft, StoredUids
  <1>10. ASSUME NEW p \in Reqs \ {r}
         PROVE  /\ Writing(req[p]) => req[p].uid # u
                /\ Held(req[p])' = Held(req[p])
                /\ Writing(req[p]) => Image(req[p])' = Image(req[p])
                /\ Writing(req[p])' <=> Writing(req[p])
                /\ RequestSound(req[p])'
    <2>1. req'[p] = req[p] /\ req[p] \in Request /\ RequestSound(req[p])
      BY <1>2, <1>4 DEF AccountsInv
    <2>2. Writing(req[p]) => req[p].uid # u
      BY <1>1, <1>2 DEF AccountsInv, LocksSound
    <2>3. Writing(req[p])' <=> Writing(req[p])
      BY <2>1 DEF Writing
    <2>4. Writing(req[p]) /\ req[p].op # "create" => acct'[req[p].uid] = acct[req[p].uid]
      <3>1. Writing(req[p]) /\ req[p].op # "create" => req[p].uid \in Uids
        BY <2>1 DEF RequestSound, Request, Writing
      <3> QED
        BY <2>2, <3>1, <1>5
    <2>5. Writing(req[p]) => Image(req[p])' = Image(req[p])
      BY <2>1, <2>4 DEF Image, NewRow, Written
    <2>6. Held(req[p])' = Held(req[p])
      <3>1. CASE ~Writing(req[p])
        BY <3>1, <2>1 DEF Held, Writing
      <3>2. CASE Writing(req[p])
        BY <3>2, <2>1, <2>3, <2>4, <2>5 DEF Held
      <3> QED
        BY <3>1, <3>2
    <2>7. RequestSound(req[p])'
      <3>1. \A v \in Uids : Stored(v) => Stored(v)' /\ acct'[v].role = acct[v].role
        BY <1>1, <1>5
      <3>2. Writing(req[p]) /\ req[p].op = "create" => ~Stored(req[p].uid)'
        <4>1. Writing(req[p]) /\ req[p].op = "create" => req[p].uid \in Uids /\ ~Stored(req[p].uid)
          BY <2>1 DEF RequestSound, Request
        <4> QED
          BY <4>1, <2>1, <2>2, <1>5
      <3>3. req[p].op \notin {"create", Nil} =>
               /\ Stored(req[p].uid)' /\ Stored(req[p].caller)'
               /\ acct'[req[p].caller].role = acct[req[p].caller].role
        <4>1. req[p].op \notin {"create", Nil} =>
                 /\ req[p].uid \in Uids /\ Stored(req[p].uid)
                 /\ req[p].caller \in Uids /\ Stored(req[p].caller)
          BY <2>1 DEF RequestSound, Request
        <4> QED
          BY <4>1, <3>1, <2>1
      <3> QED
        BY <1>1, <2>1, <2>3, <3>2, <3>3 DEF RequestSound
    <2> QED
      BY <2>2, <2>3, <2>5, <2>6, <2>7
  <1>11. /\ ~Writing(req[r])' /\ Held(req[r])' = {} /\ RequestSound(req[r])'
    <2>1. req'[r] = m /\ ~Writing(m)
      BY <1>3, <1>4 DEF Writing
    <2> QED
      BY <1>3, <2>1, NothingHeld, AccountOpsAssumption DEF RequestSound, Writing, Held, AllAccountOps
  <1>12. LocksSound'
    <2> SUFFICES ASSUME NEW p1 \in Reqs, NEW p2 \in Reqs, p1 # p2
                 PROVE  /\ Held(req[p1])' \cap Held(req[p2])' = {}
                        /\ Writing(req[p1])' /\ Writing(req[p2])' => req'[p1].uid # req'[p2].uid
      BY DEF LocksSound
    <2>1. CASE p1 = r \/ p2 = r
      BY <2>1, <1>11
    <2>2. CASE p1 # r /\ p2 # r
      BY <2>2, <1>4, <1>10 DEF AccountsInv, LocksSound
    <2> QED
      BY <2>1, <2>2
  <1>13. ClaimsSound'
    <2> SUFFICES ASSUME NEW p \in Reqs
                 PROVE  /\ At(p, "claim_name")' \/ At(p, "commit")'
                              => ~Taken(req[p].uid, Image(req[p]).email)'
                        /\ At(p, "commit")' => ~Taken(req[p].uid, Image(req[p]).username)'
      BY DEF ClaimsSound
    <2>1. CASE p = r
      BY <2>1, <1>3, <1>4 DEF At
    <2>2. CASE p # r
      <3>1. {row.email, row.username} \subseteq Held(req[r])
        BY <1>1, <1>2 DEF Held
      <3>2. Held(req[r]) \cap Held(req[p]) = {}
        BY <2>2 DEF AccountsInv, LocksSound
      <3>3. ASSUME NEW k \in Held(req[p]), ~Taken(req[p].uid, k) PROVE ~Taken(req[p].uid, k)'
        <4>1. k \notin KeysOf(row)
          BY <3>1, <3>2, <3>3 DEF KeysOf
        <4> QED
          BY <3>3, <4>1, <2>2, <1>4, <1>5 DEF Taken, KeysOf
      <3>4. /\ At(p, "claim_name")' <=> At(p, "claim_name")
            /\ At(p, "commit")' <=> At(p, "commit")
        BY <2>2, <1>4 DEF At
      <3>5. At(p, "claim_name") \/ At(p, "commit") =>
               /\ Writing(req[p]) /\ Image(req[p]).email \in Held(req[p])
               /\ ~Taken(req[p].uid, Image(req[p]).email)
        BY DEF AccountsInv, ClaimsSound, Held, At, Writing
      <3>6. At(p, "commit") =>
               /\ Image(req[p]).username \in Held(req[p])
               /\ ~Taken(req[p].uid, Image(req[p]).username)
        BY DEF AccountsInv, ClaimsSound, Held, At
      <3> QED
        BY <2>2, <3>3, <3>4, <3>5, <3>6, <1>4, <1>10 DEF Taken
    <2> QED
      BY <2>1, <2>2
  <1> QED
    BY <1>6, <1>7, <1>9, <1>10, <1>11, <1>12, <1>13 DEF AccountsInv

-----------------------------------------------------------------------------
(* The listing *)

\* Nothing of the invariant but its type depends on the listing.
LEMMA SameRequests ==
    ASSUME AccountsInv, UNCHANGED accountVars, walk' \in Walk
    PROVE  AccountsInv'
  <1>1. acct' = acct /\ nextUid' = nextUid /\ req' = req
    BY DEF accountVars
  <1>2. TypeOK' /\ NamesUnique' /\ UidsLeft'
    BY <1>1 DEF AccountsInv, TypeOK, NamesUnique, UidsLeft, StoredUids, Stored, Registering, At
  <1>3. \A r \in Reqs : RequestSound(req[r])'
    BY <1>1 DEF AccountsInv, RequestSound, Stored, Writing
  <1>4. \A r \in Reqs : Image(req[r])' = Image(req[r])
    BY <1>1 DEF Image, NewRow, Written
  <1>5. \A r \in Reqs : Held(req[r])' = Held(req[r])
    BY <1>1, <1>4 DEF Held, Writing
  <1>6. LocksSound'
    BY <1>1, <1>5 DEF AccountsInv, LocksSound, Writing
  <1>7. ClaimsSound'
    BY <1>1, <1>4 DEF AccountsInv, ClaimsSound, Taken, Stored, At
  <1> QED
    BY <1>2, <1>3, <1>6, <1>7 DEF AccountsInv

\* Walking through the pages writes nothing.
LEMMA WalkKeeps ==
    ASSUME AccountsInv, WalkStep \/ WalkArrival
    PROVE  AccountsInv'
  <1>1. walk \in Walk /\ PageSize \in Nat
    BY PageAssumption DEF AccountsInv, TypeOK
  <1>2. LiveUids \in SUBSET Uids /\ StoredUids \in SUBSET Uids /\ Cardinality(LiveUids) \in Nat
    <2>1. IsFiniteSet(Uids)
      BY UidAssumption, FS_Interval DEF Uids
    <2> QED
      BY <2>1, FS_Subset, FS_CardinalityType DEF LiveUids, StoredUids
  <1>3. Shown \in SUBSET Uids
    BY <1>1, <1>2 DEF Shown, Items, Walk, LiveUids
  <1>4. NoWalk \in Walk
    BY DEF NoWalk, Walk
  <1>5. walk' \in Walk
    <2>1. CASE BeginWalk
      <3>1. StoredUids \ LiveUids \in SUBSET Uids
        BY <1>2
      <3> QED
        BY <1>2, <1>4, <2>1, <3>1 DEF BeginWalk, Walk
    <2>2. CASE Count
      BY <1>1, <1>2, <2>2 DEF Count, Walk
    <2>3. CASE Page
      <3> DEFINE w1 == [walk EXCEPT !.seen = Shown]
                 w2 == [w1 EXCEPT !.page = walk.page + 1]
      <3>1. w1 \in Walk /\ w1.page = walk.page
        BY <1>1, <1>3 DEF Walk
      <3> HIDE DEF w1
      <3>2. w2 \in Walk
        BY <1>1, <3>1 DEF Walk
      <3>3. walk' = NoWalk \/ walk' = [w2 EXCEPT !.pc = "count"]
        BY <2>3, <3>1 DEF Page, w1
      <3> HIDE DEF w2
      <3> QED
        BY <1>4, <3>2, <3>3 DEF Walk
    <2> QED
      BY <2>1, <2>2, <2>3 DEF WalkStep, WalkArrival
  <1> QED
    BY <1>5, SameRequests DEF WalkStep, WalkArrival

-----------------------------------------------------------------------------
(* The invariant *)

\* A client's call.
LEMMA ArrivalStep ==
    ASSUME AccountsInv, NEW r \in Reqs, Arrival(r), walk' = walk
    PROVE  AccountsInv'
  <1>1. ASSUME NEW e \in Emails, NEW n \in Usernames, Register(r, e, n) PROVE AccountsInv'
    BY <1>1, RegisterStep
  <1>2. ASSUME NEW c \in StoredUids, NEW u \in StoredUids,
               NEW e \in Emails \cup {Nil}, NEW n \in Usernames \cup {Nil}, Update(r, c, u, e, n)
        PROVE  AccountsInv'
    <2>1. /\ Authorize(r, "update", c, u, e, n, MayUpdate(c, u))
          /\ MayUpdate(c, u) \in BOOLEAN
          /\ MayUpdate(c, u) => acct[c].role = "superuser" \/ (c = u /\ "update" # "delete")
      BY <1>2 DEF Update, MayUpdate
    <2> QED
      BY <2>1, AuthorizeStep
  <1>3. ASSUME NEW u \in StoredUids, SetPassword(r, u) PROVE AccountsInv'
    <2>1. Authorize(r, "password", u, u, Nil, Nil, TRUE)
      BY <1>3 DEF SetPassword
    <2> QED
      BY <2>1, AuthorizeStep
  <1>4. ASSUME NEW c \in StoredUids, NEW u \in StoredUids, Delete(r, c, u) PROVE AccountsInv'
    <2>1. c \in Uids /\ acct[c] \in Account
      BY DEF StoredUids, Stored, AccountsInv, TypeOK
    <2>2. /\ Authorize(r, "delete", c, u, Nil, Nil, MayDelete(c))
          /\ MayDelete(c) \in BOOLEAN
          /\ MayDelete(c) => acct[c].role = "superuser"
      BY <1>4, <2>1, DeletersAreSuperusers DEF Delete, MayDelete, MeetsRole
    <2> QED
      BY <2>2, AuthorizeStep
  <1> QED
    BY <1>1, <1>2, <1>3, <1>4 DEF Arrival

\* Every step keeps the invariant.
LEMMA AccountsStep ==
    ASSUME AccountsInv, [Next]_accountsVars
    PROVE  AccountsInv'
  <1>1. CASE WalkStep \/ (MayArrive /\ WalkArrival)
    BY <1>1, WalkKeeps
  <1>2. ASSUME NEW r \in Reqs, RequestNext(r) PROVE AccountsInv'
    <2>1. walk' = walk
      BY <1>2 DEF RequestNext
    <2>2. CASE Arrival(r)
      BY <2>1, <2>2, ArrivalStep
    <2>3. CASE Step(r)
      BY <2>1, <2>3, CheckNamesStep, QuestionStep, RereadStep, CommitStep DEF Step
    <2>4. CASE Waiting(r)
      BY <2>1, <2>4, ClaimStep, LockRowStep DEF Waiting
    <2>5. CASE DbError(r)
      <3>1. Raise(r, "DBAPIError") /\ "DBAPIError" \in DOMAIN AnswerTo
            /\ acct' = acct /\ nextUid' = nextUid
        BY <2>5 DEF DbError, AnswerTo
      <3> QED
        BY <2>1, <3>1, RaiseStep
    <2> QED
      BY <1>2, <2>2, <2>3, <2>4, <2>5 DEF RequestNext
  <1>3. CASE UNCHANGED accountsVars
    <2>1. UNCHANGED accountVars /\ walk' \in Walk
      BY <1>3 DEF accountsVars, AccountsInv, TypeOK
    <2> QED
      BY <2>1, SameRequests
  <1> QED
    BY <1>1, <1>2, <1>3 DEF Next

\* The first account alone is in nobody's way.
LEMMA AccountsInitial == Init => AccountsInv
  <1> SUFFICES ASSUME Init PROVE AccountsInv
    OBVIOUS
  <1>1. PICK e \in Emails, n \in Usernames, role \in {"admin", "superuser"} :
           acct = [u \in Uids |->
                     IF u = 1 THEN [email |-> e, username |-> n, role |-> role, deleted |-> FALSE]
                     ELSE Nil]
    BY DEF Init
  <1>2. 1 \in Uids /\ MaxUid \in Nat \ {0} /\ Uids \subseteq Nat
    BY UidAssumption DEF Uids
  <1>3. StoredUids = {1} /\ acct \in [Uids -> Account \cup {Nil}]
    <2>1. [email |-> e, username |-> n, role |-> role, deleted |-> FALSE] \in Account
      BY DEF Account, Roles
    <2> QED
      BY <1>1, <1>2, <2>1, RowAssumption DEF StoredUids, Stored
  <1>4. /\ Idle \in Request /\ Idle.op = Nil /\ Idle.pc = "idle" /\ Idle.cols = {}
    BY DEF Idle, Begun, Request, Places, Answers
  <1>5. \A r \in Reqs : req[r] = Idle
    BY DEF Init
  <1>6. TypeOK
    <2>1. walk \in Walk
      BY DEF Init, NoWalk, Walk
    <2>2. req \in [Reqs -> Request]
      <3>1. req = [r \in Reqs |-> Idle]
        BY DEF Init
      <3> QED
        BY <1>4, <3>1
    <2>3. nextUid \in Nat \ {0}
      BY DEF Init
    <2> QED
      BY <1>3, <2>1, <2>2, <2>3 DEF TypeOK
  <1>7. NamesUnique
    BY <1>3 DEF NamesUnique
  <1>8. UidsLeft
    <2>1. Registering = {}
      BY <1>4, <1>5 DEF Registering, At
    <2> QED
      BY <1>2, <1>3, <2>1, FS_EmptySet DEF UidsLeft, Init
  <1>9. ~Writing(Idle) /\ Held(Idle) = {}
    <2>1. ~Writing(Idle)
      BY <1>4 DEF Writing
    <2> QED
      BY <2>1, NothingHeld
  <1>10. LocksSound /\ ClaimsSound
    BY <1>4, <1>5, <1>9 DEF LocksSound, ClaimsSound, At
  <1>11. RequestSound(Idle)
    BY <1>4, <1>9, AccountOpsAssumption DEF RequestSound, AllAccountOps
  <1> QED
    BY <1>5, <1>6, <1>7, <1>8, <1>10, <1>11 DEF AccountsInv

\* Between the question whether a name is free and the commit that claims it,
\* locks and index entries keep every other request out (service.py:62-78,
\* 106-122; models.py:31-33): names are unique.
THEOREM AccountsInvariant == Spec => []AccountsInv
  <1>1. AccountsInv /\ [Next]_accountsVars => AccountsInv'
    BY AccountsStep
  <1> QED
    BY AccountsInitial, <1>1, PTL DEF Spec

-----------------------------------------------------------------------------
(* Who changes an account, and how *)

\* Only a commit writes the table.
LEMMA OnlyCommits ==
    ASSUME [Next]_accountsVars, acct' # acct
    PROVE  \E r \in Reqs : Commit(r)
  <1>1. ASSUME NEW r \in Reqs, Arrival(r) PROVE acct' = acct
    BY <1>1 DEF Arrival, Register, Update, SetPassword, Delete, Authorize
  <1>2. ASSUME NEW r \in Reqs, Step(r) PROVE acct' = acct \/ Commit(r)
    BY <1>2 DEF Step, CheckNames, Find, CheckEmail, CheckName, Reread
  <1>3. ASSUME NEW r \in Reqs, Waiting(r) PROVE acct' = acct
    BY <1>3 DEF Waiting, ClaimEmail, ClaimName, LockRow
  <1> QED
    BY <1>1, <1>2, <1>3 DEF Next, RequestNext, DbError, WalkStep, WalkArrival, accountVars,
                            accountsVars

\* No interleaving of updates and password changes with a deletion brings a
\* deleted account back (repository.py:131-145, service.py:166-172).
THEOREM DeletionsAreFinal == Spec => DeletedForGood
  <1>1. AccountsInv /\ [Next]_accountsVars =>
           [\A u \in StoredUids : acct[u].deleted => acct'[u] # Nil /\ acct'[u].deleted]_accountsVars
    <2> SUFFICES ASSUME AccountsInv, [Next]_accountsVars, NEW u \in StoredUids, acct[u].deleted
                 PROVE  acct'[u] # Nil /\ acct'[u].deleted
      OBVIOUS
    <2>1. u \in Uids /\ Stored(u) /\ acct[u] # Nil /\ acct \in [Uids -> Account \cup {Nil}]
      BY DEF StoredUids, Stored, AccountsInv, TypeOK
    <2>2. CASE acct' = acct
      BY <2>1, <2>2
    <2>3. CASE acct' # acct
      <3>1. PICK r \in Reqs : Commit(r)
        BY <2>3, OnlyCommits
      <3>2. CASE u = req[r].uid
        <4>1. /\ acct' = [acct EXCEPT ![u] = Image(req[r])] /\ Image(req[r]) \in Account
              /\ Image(req[r]).deleted
          BY <2>1, <3>1, <3>2, CommitFacts
        <4> QED
          BY <2>1, <4>1, RowAssumption
      <3>3. CASE u # req[r].uid
        BY <2>1, <3>1, <3>3, CommitFacts
      <3> QED
        BY <3>2, <3>3
    <2> QED
      BY <2>2, <2>3
  <1> QED
    BY AccountsInvariant, <1>1, PTL DEF Spec, DeletedForGood

\* Every change of an account was asked for by its owner or by a superuser, and
\* carries over what others committed meanwhile (router.py:80, 94;
\* repository.py:131-145).
THEOREM OnlyAuthorizedChanges == Spec => ChangesAuthorized
  <1>1. AccountsInv /\ [Next]_accountsVars =>
           [\A u \in StoredUids : acct'[u] # acct[u] =>
              \E r \in Reqs :
                  /\ Changes(r, u)
                  /\ \/ acct[req[r].caller].role = "superuser"
                     \/ req[r].caller = u /\ acct'[u].deleted = acct[u].deleted
                  /\ acct'[u].email \in {acct[u].email, req[r].email}
                  /\ acct'[u].username \in {acct[u].username, req[r].username}]_accountsVars
    <2> SUFFICES ASSUME AccountsInv, [Next]_accountsVars, NEW u \in StoredUids, acct'[u] # acct[u]
                 PROVE  \E r \in Reqs :
                           /\ Changes(r, u)
                           /\ \/ acct[req[r].caller].role = "superuser"
                              \/ req[r].caller = u /\ acct'[u].deleted = acct[u].deleted
                           /\ acct'[u].email \in {acct[u].email, req[r].email}
                           /\ acct'[u].username \in {acct[u].username, req[r].username}
      OBVIOUS
    <2>1. u \in Uids /\ Stored(u) /\ acct \in [Uids -> Account \cup {Nil}]
      BY DEF StoredUids, AccountsInv, TypeOK
    <2>2. PICK r \in Reqs : Commit(r)
      BY OnlyCommits
    <2>3. acct' = [acct EXCEPT ![req[r].uid] = Image(req[r])] /\ req[r].uid \in Uids
      BY <2>2, CommitFacts
    <2>4. u = req[r].uid /\ acct'[u] = Image(req[r])
      BY <2>1, <2>3
    <2>5. /\ req[r].op # "create" /\ RequestSound(req[r]) /\ req[r].pc = "commit"
      BY <2>1, <2>2, <2>4, CommitFacts DEF AccountsInv, Commit, At
    <2>6. /\ acct[req[r].caller].role = "superuser"
             \/ (req[r].caller = u /\ req[r].op # "delete")
          /\ "deleted" \in req[r].cols => req[r].op = "delete"
      BY <2>4, <2>5 DEF RequestSound
    <2>7. acct'[u] = Written(req[r], acct[u])
      BY <2>4, <2>5 DEF Image
    <2>8. /\ acct'[u].email \in {acct[u].email, req[r].email}
          /\ acct'[u].username \in {acct[u].username, req[r].username}
          /\ "deleted" \notin req[r].cols => acct'[u].deleted = acct[u].deleted
      BY <2>7 DEF Written
    <2> QED
      BY <2>2, <2>4, <2>6, <2>8 DEF Changes, Commit
  <1> QED
    BY AccountsInvariant, <1>1, PTL DEF Spec, ChangesAuthorized

-----------------------------------------------------------------------------
(* Refinement *)

\* Under unique names, the owner of a name is the account that has it.
LEMMA OwnerFacts ==
    ASSUME NamesUnique, NEW k, NEW u \in StoredUids
    PROVE  /\ OwnerOf(k) = u <=> k \in KeysOf(acct[u])
           /\ OwnerOf(k) \in StoredUids \cup {Nil}
  <1>1. Nil \notin StoredUids
    BY NamesAssumption DEF StoredUids, Uids
  <1>2. CASE \E v \in StoredUids : k \in KeysOf(acct[v])
    <2>1. OwnerOf(k) \in StoredUids /\ k \in KeysOf(acct[OwnerOf(k)])
      BY <1>2 DEF OwnerOf
    <2> QED
      BY <2>1 DEF NamesUnique
  <1>3. CASE ~\E v \in StoredUids : k \in KeysOf(acct[v])
    BY <1>1, <1>3 DEF OwnerOf
  <1> QED
    BY <1>2, <1>3

\* The first account owns its two names, nobody the others.
LEMMA RegistryInitial == Init => Registry!RegistryInit
  <1> SUFFICES ASSUME Init PROVE Registry!RegistryInit
    OBVIOUS
  <1>1. PICK e \in Emails, n \in Usernames, role \in {"admin", "superuser"} :
           acct = [u \in Uids |->
                     IF u = 1 THEN [email |-> e, username |-> n, role |-> role, deleted |-> FALSE]
                     ELSE Nil]
    BY DEF Init
  <1>2. 1 \in Uids
    BY UidAssumption DEF Uids
  <1>5. [email |-> e, username |-> n, role |-> role, deleted |-> FALSE] \in Account
    BY DEF Account, Roles
  <1>3. StoredUids = {1} /\ KeysOf(acct[1]) = {e, n}
    BY <1>1, <1>2, <1>5, RowAssumption DEF StoredUids, Stored, KeysOf, Account, Roles
  <1>4. ASSUME NEW k PROVE OwnerOf(k) = IF k \in {e, n} THEN 1 ELSE Nil
    BY <1>3 DEF OwnerOf
  <1> QED
    BY <1>2, <1>4 DEF Registry!RegistryInit, Registry!Names

\* A step that leaves the table alone leaves every name with its owner.
LEMMA OwnersStay ==
    ASSUME acct' = acct
    PROVE  \A k : OwnerOf(k)' = OwnerOf(k)
  BY DEF OwnerOf, StoredUids, Stored, KeysOf

\* A commit is a claim of both names of the row it writes.
LEMMA CommitClaims ==
    ASSUME AccountsInv, AccountsInv', NEW r \in Reqs, Commit(r)
    PROVE  Registry!RegistryNext
  <1> DEFINE u == req[r].uid
             row == Image(req[r])
  <1>1. /\ u \in Uids /\ row \in Account /\ acct' = [acct EXCEPT ![u] = row]
        /\ ~Taken(u, row.email) /\ ~Taken(u, row.username)
    BY CommitFacts
  <1> HIDE DEF u, row
  <1>2. PICK a \in Uids, new \in Account :
           /\ acct' = [acct EXCEPT ![a] = new]
           /\ ~Taken(a, new.email) /\ ~Taken(a, new.username)
    BY <1>1
  <1>3. new.email \in Emails /\ new.username \in Usernames /\ KeysOf(new) = {new.email, new.username}
    BY DEF Account, KeysOf
  <1>4. acct \in [Uids -> Account \cup {Nil}] /\ NamesUnique /\ NamesUnique'
    BY DEF AccountsInv, TypeOK
  <1>5. /\ StoredUids' = StoredUids \cup {a} /\ acct'[a] = new
        /\ \A v \in Uids \ {a} : acct'[v] = acct[v]
    BY <1>2, <1>4, RowAssumption DEF StoredUids, Stored
  <1>6. \A v \in StoredUids : v \in Uids
    BY DEF StoredUids
  <1>7. Nil \notin StoredUids /\ Nil # a
    BY <1>6, NamesAssumption DEF Uids
  <1>8. ASSUME NEW k \in {new.email, new.username}
        PROVE  OwnerOf(k) \in {Nil, a} /\ OwnerOf(k)' = a
    <2>1. \A v \in StoredUids : v # a => k \notin KeysOf(acct[v])
      BY <1>2, <1>6 DEF Taken, StoredUids
    <2>2. OwnerOf(k) \in {Nil, a}
      BY <2>1 DEF OwnerOf
    <2>3. k \in KeysOf(acct'[a]) /\ a \in StoredUids'
      BY <1>3, <1>5
    <2>4. \A v \in StoredUids' : v # a => k \notin KeysOf(acct'[v])
      BY <1>5, <1>6, <2>1
    <2>5. OwnerOf(k)' = IF \E v \in StoredUids' : k \in KeysOf(acct'[v])
                       THEN CHOOSE v \in StoredUids' : k \in KeysOf(acct'[v]) ELSE Nil
      BY DEF OwnerOf, KeysOf
    <2> QED
      BY <2>2, <2>3, <2>4, <2>5
  <1>9. ASSUME NEW k, k \notin {new.email, new.username}
        PROVE  OwnerOf(k)' = IF OwnerOf(k) = a THEN Nil ELSE OwnerOf(k)
    <2>1. \A v \in Uids : v \in StoredUids' /\ k \in KeysOf(acct'[v])
                          <=> v # a /\ v \in StoredUids /\ k \in KeysOf(acct[v])
      BY <1>3, <1>5, <1>9
    <2>2. OwnerOf(k)' = IF \E v \in StoredUids' : k \in KeysOf(acct'[v])
                       THEN CHOOSE v \in StoredUids' : k \in KeysOf(acct'[v]) ELSE Nil
      BY DEF OwnerOf, KeysOf
    <2>3. CASE \E v \in StoredUids : v # a /\ k \in KeysOf(acct[v])
      <3>1. PICK v \in StoredUids : v # a /\ k \in KeysOf(acct[v])
        BY <2>3
      <3>2. \A w \in StoredUids : k \in KeysOf(acct[w]) => w = v
        BY <1>4, <3>1 DEF NamesUnique
      <3>3. OwnerOf(k) = v
        BY <3>1, <3>2 DEF OwnerOf
      <3>4. v \in StoredUids' /\ k \in KeysOf(acct'[v])
        BY <1>6, <2>1, <3>1
      <3>5. \A w \in StoredUids' : k \in KeysOf(acct'[w]) => w = v
        BY <1>5, <1>6, <2>1, <3>2
      <3> QED
        BY <2>2, <3>1, <3>3, <3>4, <3>5
    <2>4. CASE ~\E v \in StoredUids : v # a /\ k \in KeysOf(acct[v])
      <3>1. ~\E v \in StoredUids' : k \in KeysOf(acct'[v])
        BY <1>5, <1>6, <2>1, <2>4
      <3>2. OwnerOf(k) \in {Nil, a}
        BY <2>4 DEF OwnerOf
      <3> QED
        BY <1>7, <2>2, <3>1, <3>2
    <2> QED
      BY <2>3, <2>4
  <1>10. Registry!Claim(a, new.email, new.username)
    <2> DEFINE e == new.email
               n == new.username
    <2>1. e \in Registry!Names /\ n \in Registry!Names
      BY <1>3 DEF Registry!Names
    <2>2. \A k \in Registry!Names :
             OwnerOf(k)' = IF k \in {e, n} THEN a ELSE IF OwnerOf(k) = a THEN Nil ELSE OwnerOf(k)
      BY <1>8, <1>9
    <2> QED
      BY <1>8, <2>1, <2>2 DEF Registry!Claim, Registry!Names
  <1> QED
    BY <1>3, <1>10 DEF Registry!RegistryNext

\* The table promises what NameRegistry says: names are taken in pairs, by one
\* account each, and no account gives one up without taking another (the unique
\* indexes of models.py:31-33 under the writes of service.py:60-144).
THEOREM TableImplementsRegistry == Spec => ImplementsRegistry
  <1>1. AccountsInv /\ AccountsInv' /\ [Next]_accountsVars =>
           [Registry!RegistryNext]_([k \in Emails \cup Usernames |-> OwnerOf(k)])
    <2> SUFFICES ASSUME AccountsInv, AccountsInv', [Next]_accountsVars
                 PROVE  \/ Registry!RegistryNext
                        \/ [k \in Emails \cup Usernames |-> OwnerOf(k)]'
                             = [k \in Emails \cup Usernames |-> OwnerOf(k)]
      OBVIOUS
    <2>1. CASE acct' = acct
      BY <2>1, OwnersStay
    <2>2. CASE acct' # acct
      BY <2>2, OnlyCommits, CommitClaims
    <2> QED
      BY <2>1, <2>2
  <1> QED
    BY RegistryInitial, AccountsInvariant, <1>1, PTL
      DEF Spec, ImplementsRegistry, Registry!RegistrySpec

-----------------------------------------------------------------------------
(* What a walk through the pages can miss *)

\* The members of L that a page shows before u.
Above(L, u) == {v \in L : v > u}

\* The members of S whose place in L is among the first k.
Passing(L, S, k) == {u \in S \cap L : Cardinality(Above(L, u)) < k}

\* No two accounts have the same place.
LEMMA Ranks ==
    ASSUME NEW L \in SUBSET Uids
    PROVE  /\ IsFiniteSet(L) /\ Cardinality(L) \in Nat
           /\ \A u \in Uids : IsFiniteSet(Above(L, u)) /\ Cardinality(Above(L, u)) \in Nat
           /\ \A u \in L : Cardinality(Above(L, u)) < Cardinality(L)
           /\ \A u, v \in L : u # v => Cardinality(Above(L, u)) # Cardinality(Above(L, v))
  <1>1. IsFiniteSet(L) /\ Uids \subseteq Int /\ L \subseteq Int
    <2>1. 1 \in Int /\ MaxUid \in Int
      BY UidAssumption
    <2>2. IsFiniteSet(Uids)
      BY <2>1, FS_Interval DEF Uids
    <2>3. Uids \subseteq Int
      BY DEF Uids
    <2> QED
      BY <2>2, <2>3, FS_Subset
  <1>2. ASSUME NEW u \in Uids
        PROVE  IsFiniteSet(Above(L, u)) /\ Cardinality(Above(L, u)) \in Nat
    BY <1>1, FS_Subset, FS_CardinalityType DEF Above
  <1>3. ASSUME NEW u \in L PROVE Cardinality(Above(L, u)) < Cardinality(L)
    <2>1. Above(L, u) \in SUBSET L /\ u \notin Above(L, u)
      BY <1>1 DEF Above
    <2> QED
      BY <1>1, <2>1, FS_Subset, FS_CardinalityType
  <1>4. ASSUME NEW u \in L, NEW v \in L, u < v
        PROVE  Cardinality(Above(L, v)) < Cardinality(Above(L, u))
    <2>1. u \in Int /\ v \in Int /\ \A w \in L : w \in Int
      BY <1>1
    <2>2. \A w \in Above(L, v) : w \in Above(L, u)
      BY <1>4, <2>1 DEF Above
    <2>3. v \in Above(L, u) /\ v \notin Above(L, v)
      BY <1>4, <2>1 DEF Above
    <2> QED
      BY <1>2, <2>2, <2>3, FS_Subset
  <1>5. ASSUME NEW u \in L, NEW v \in L, u # v
        PROVE  Cardinality(Above(L, u)) # Cardinality(Above(L, v))
    BY <1>1, <1>2, <1>4, <1>5
  <1> QED
    BY <1>1, <1>2, <1>3, <1>5, FS_CardinalityType

\* From place k on there are the members of L but for k of them.
LEMMA Rest ==
    ASSUME NEW L \in SUBSET Uids, NEW k \in Nat
    PROVE  LET rest == {u \in L : Cardinality(Above(L, u)) >= k}
           IN  /\ IsFiniteSet(rest) /\ Cardinality(rest) \in Nat
               /\ rest = {} \/ Cardinality(rest) <= Cardinality(L) - k
  <1> DEFINE rest == {u \in L : Cardinality(Above(L, u)) >= k}
             place == [u \in rest |-> Cardinality(Above(L, u))]
             places == k .. Cardinality(L) - 1
  <1>1. /\ IsFiniteSet(rest) /\ Cardinality(rest) \in Nat
        /\ IsFiniteSet(L) /\ Cardinality(L) \in Nat
    BY Ranks, FS_Subset, FS_CardinalityType
  <1>2. place \in Injection(rest, places)
    <2>1. \A u \in rest : place[u] \in places
      BY <1>1, Ranks
    <2>2. \A u, v \in rest : place[u] = place[v] => u = v
      BY Ranks
    <2> QED
      BY <2>1, <2>2 DEF Injection, IsInjective
  <1>3. /\ IsFiniteSet(places)
        /\ Cardinality(places) = IF k > Cardinality(L) - 1 THEN 0 ELSE Cardinality(L) - k
    <2> DEFINE last == Cardinality(L) - 1
    <2>1. k \in Int /\ last \in Int
      BY <1>1
    <2> HIDE DEF last
    <2>2. /\ IsFiniteSet(k .. last)
          /\ Cardinality(k .. last) = IF k > last THEN 0 ELSE last - k + 1
      BY <2>1, FS_Interval
    <2> QED
      BY <1>1, <2>2 DEF last
  <1>4. Cardinality(rest) <= Cardinality(places)
    BY <1>2, <1>3, FS_Injection
  <1>5. rest # {} => k <= Cardinality(L) - 1
    BY <1>1, Ranks
  <1> QED
    BY <1>1, <1>3, <1>4, <1>5

\* Removing an account moves at most one other past a place.
LEMMA PassingRemoved ==
    ASSUME NEW L \in SUBSET Uids, NEW S, NEW k \in Nat, NEW v \in L
    PROVE  Cardinality(Passing(L \ {v}, S, k)) <= Cardinality(Passing(L, S, k)) + 1
  <1> DEFINE next == {u \in L : Cardinality(Above(L, u)) = k}
             old == Passing(L, S, k)
             new == Passing(L \ {v}, S, k)
  <1>1. /\ IsFiniteSet(old) /\ Cardinality(old) \in Nat
        /\ IsFiniteSet(new) /\ Cardinality(new) \in Nat
    BY Ranks, FS_Subset, FS_CardinalityType DEF Passing
  <1>2. new \subseteq old \cup next
    <2> SUFFICES ASSUME NEW u \in new PROVE u \in old \cup next
      OBVIOUS
    <2>1. u \in S \cap L /\ Cardinality(Above(L \ {v}, u)) < k /\ u \in Uids
      BY DEF Passing
    <2>2. Above(L \ {v}, u) = Above(L, u) \ {v}
      BY DEF Above
    <2>3. /\ IsFiniteSet(Above(L, u)) /\ Cardinality(Above(L, u)) \in Nat
      BY <2>1, Ranks
    <2>4. \/ Cardinality(Above(L, u) \ {v}) = Cardinality(Above(L, u)) - 1
          \/ Cardinality(Above(L, u) \ {v}) = Cardinality(Above(L, u))
      BY <2>3, FS_RemoveElement
    <2>5. Cardinality(Above(L, u)) < k \/ Cardinality(Above(L, u)) = k
      BY <2>1, <2>2, <2>3, <2>4
    <2> QED
      BY <2>1, <2>5 DEF Passing
  <1>3. \E g : next \subseteq {g}
    BY Ranks
  <1>4. PICK g : new \subseteq old \cup {g}
    BY <1>2, <1>3
  <1>5. IsFiniteSet(old \cup {g}) /\ Cardinality(old \cup {g}) <= Cardinality(old) + 1
    BY <1>1, FS_AddElement
  <1>6. Cardinality(new) <= Cardinality(old \cup {g})
    BY <1>4, <1>5, FS_Subset
  <1>7. Cardinality(old \cup {g}) \in Nat
    BY <1>5, FS_CardinalityType
  <1> QED
    BY <1>1, <1>5, <1>6, <1>7

\* Adding one moves others towards later pages.
LEMMA PassingAdded ==
    ASSUME NEW L \in SUBSET Uids, NEW S, NEW k \in Nat, NEW v \in Uids \ S
    PROVE  /\ IsFiniteSet(Passing(L, S, k)) /\ Cardinality(Passing(L, S, k)) \in Nat
           /\ Cardinality(Passing(L \cup {v}, S, k)) <= Cardinality(Passing(L, S, k))
  <1>1. IsFiniteSet(Passing(L, S, k)) /\ Cardinality(Passing(L, S, k)) \in Nat
    BY Ranks, FS_Subset, FS_CardinalityType DEF Passing
  <1>2. Passing(L \cup {v}, S, k) \subseteq Passing(L, S, k)
    <2> SUFFICES ASSUME NEW u \in Passing(L \cup {v}, S, k) PROVE u \in Passing(L, S, k)
      OBVIOUS
    <2>1. u \in S \cap L /\ Cardinality(Above(L \cup {v}, u)) < k /\ u \in Uids
      BY DEF Passing
    <2>2. Above(L, u) \in SUBSET Above(L \cup {v}, u)
      BY DEF Above
    <2>3. L \cup {v} \in SUBSET Uids
      OBVIOUS
    <2>4. /\ IsFiniteSet(Above(L \cup {v}, u)) /\ Cardinality(Above(L \cup {v}, u)) \in Nat
          /\ Cardinality(Above(L, u)) \in Nat
      BY <2>1, <2>3, Ranks
    <2>5. Cardinality(Above(L, u)) <= Cardinality(Above(L \cup {v}, u))
      BY <2>2, <2>4, FS_Subset
    <2> QED
      BY <2>1, <2>4, <2>5 DEF Passing
  <1> QED
    BY <1>1, <1>2, FS_Subset

\* What commits make of the set of accounts and of the live ones.
LEMMA AccountsCome ==
    ASSUME AccountsInv, [Next]_accountsVars
    PROVE  \/ StoredUids' = StoredUids /\ LiveUids' = LiveUids
           \/ \E v \in Uids \ StoredUids : /\ StoredUids' = StoredUids \cup {v}
                                           /\ LiveUids' = LiveUids \cup {v}
           \/ \E v \in LiveUids : StoredUids' = StoredUids /\ LiveUids' = LiveUids \ {v}
  <1>1. CASE acct' = acct
    BY <1>1 DEF StoredUids, LiveUids, Stored, Live
  <1>2. CASE acct' # acct
    <2>1. PICK r \in Reqs : Commit(r)
      BY <1>2, OnlyCommits
    <2> DEFINE v == req[r].uid
               row == Image(req[r])
    <2>2. /\ v \in Uids /\ row \in Account /\ acct' = [acct EXCEPT ![v] = row]
          /\ acct \in [Uids -> Account \cup {Nil}]
          /\ req[r].op = "create" => ~Stored(v) /\ ~row.deleted
          /\ req[r].op # "create" => Stored(v) /\ (acct[v].deleted => row.deleted)
      BY <2>1, CommitFacts DEF AccountsInv, TypeOK, Image, NewRow
    <2> HIDE DEF v, row
    <2>3. \A u \in Uids : acct'[u] = IF u = v THEN row ELSE acct[u]
      BY <2>2
    <2>4. row # Nil /\ (v \in StoredUids => acct[v] \in Account)
      BY <2>2, RowAssumption DEF StoredUids, Stored
    <2>5. /\ StoredUids' = StoredUids \cup {v}
          /\ LiveUids' = IF row.deleted THEN LiveUids \ {v} ELSE LiveUids \cup {v}
      BY <2>2, <2>3, <2>4 DEF StoredUids, LiveUids, Stored, Live
    <2>6. CASE req[r].op = "create"
      BY <2>2, <2>5, <2>6 DEF StoredUids
    <2>7. CASE req[r].op # "create"
      <3>1. StoredUids' = StoredUids
        BY <2>2, <2>5, <2>7 DEF StoredUids
      <3>2. CASE v \in LiveUids /\ row.deleted
        BY <2>5, <3>1, <3>2
      <3>3. CASE ~(v \in LiveUids /\ row.deleted)
        BY <2>2, <2>5, <2>7, <3>1, <3>3 DEF LiveUids, Live, Stored, Account
      <3> QED
        BY <3>2, <3>3
    <2> QED
      BY <2>6, <2>7
  <1> QED
    BY <1>1, <1>2

\* Accounts deleted since the walk began, and accounts that were there when it
\* began and have come to stand on pages already shown without being shown.
Deletions == (StoredUids \ LiveUids) \ walk.dead
Skipped == Passing(LiveUids, walk.start \ walk.seen, Offset(walk.page))

\* A page skips an account only for a deletion, and the total of the last count
\* covers the live accounts that were counted.
WalkInv ==
    /\ walk.start \subseteq StoredUids
    /\ walk.dead \subseteq StoredUids \ LiveUids
    /\ walk.pc # "idle" => walk.page >= 1 /\ Cardinality(Skipped) <= Cardinality(Deletions)
    /\ walk.pc = "page" => /\ walk.rows \subseteq StoredUids
                           /\ Cardinality(LiveUids \cap walk.rows) <= walk.total

\* Sizes of what is compared.
LEMMA WalkSizes ==
    ASSUME AccountsInv
    PROVE  /\ LiveUids \subseteq StoredUids /\ StoredUids \subseteq Uids
           /\ IsFiniteSet(StoredUids) /\ IsFiniteSet(LiveUids)
           /\ IsFiniteSet(Deletions) /\ Cardinality(Deletions) \in Nat
           /\ walk.page \in Nat /\ walk.total \in Nat /\ PageSize \in Nat
           /\ walk.page >= 1 => Offset(walk.page) \in Nat
           /\ Offset(walk.page + 1) = Offset(walk.page) + PageSize
           /\ Offset(walk.page) + PageSize = walk.page * PageSize
  <1>1. LiveUids \subseteq StoredUids /\ StoredUids \subseteq Uids
    BY DEF LiveUids, StoredUids, Live
  <1>2. IsFiniteSet(StoredUids)
    BY <1>1, Ranks
  <1>3. IsFiniteSet(LiveUids) /\ IsFiniteSet(Deletions)
    BY <1>1, <1>2, FS_Subset DEF Deletions
  <1>4. walk.page \in Nat /\ walk.total \in Nat /\ PageSize \in Nat
    BY PageAssumption DEF AccountsInv, TypeOK, Walk
  <1>5. ASSUME walk.page >= 1 PROVE Offset(walk.page) \in Nat
    BY <1>4, <1>5 DEF Offset
  <1>6. /\ Offset(walk.page + 1) = Offset(walk.page) + PageSize
        /\ Offset(walk.page) + PageSize = walk.page * PageSize
    BY <1>4 DEF Offset
  <1> QED
    BY <1>1, <1>2, <1>3, <1>4, <1>5, <1>6, FS_CardinalityType

\* No walk has begun.
LEMMA WalkInitial == Init => WalkInv
  BY DEF Init, WalkInv, NoWalk

\* The steps of the walk itself.
LEMMA WalkMoves ==
    ASSUME AccountsInv, WalkInv, WalkStep \/ WalkArrival
    PROVE  WalkInv'
  <1>1. /\ walk \in Walk /\ acct' = acct
        /\ StoredUids' = StoredUids /\ LiveUids' = LiveUids
        /\ \A S, k : Passing(LiveUids, S, k)' = Passing(LiveUids, S, k)
    BY DEF AccountsInv, TypeOK, WalkStep, WalkArrival, accountVars, StoredUids, LiveUids,
           Stored, Live, Passing, Above
  <1>2. CASE BeginWalk
    <2>1. /\ walk'.pc = "count" /\ walk'.page = 1 /\ walk'.start = LiveUids
          /\ walk'.dead = StoredUids \ LiveUids
      BY <1>2 DEF BeginWalk, NoWalk
    <2>2. Offset(1) = 0
      BY WalkSizes DEF Offset
    <2>3. Skipped' = {}
      <3>1. Skipped' = Passing(LiveUids, walk'.start \ walk'.seen, 0)
        BY <1>1, <2>1, <2>2 DEF Skipped, Passing, Above, Offset
      <3>2. \A u \in LiveUids : ~(Cardinality(Above(LiveUids, u)) < 0)
        BY WalkSizes, Ranks
      <3> QED
        BY <3>1, <3>2 DEF Passing
    <2>4. Deletions' = {}
      BY <1>1, <2>1 DEF Deletions
    <2> QED
      BY <1>1, <2>1, <2>3, <2>4, WalkSizes, FS_EmptySet DEF WalkInv
  <1>3. CASE Count
    <2>1. /\ walk.pc = "count" /\ walk'.pc = "page" /\ walk'.page = walk.page
          /\ walk'.start = walk.start /\ walk'.seen = walk.seen /\ walk'.dead = walk.dead
          /\ walk'.total = Cardinality(LiveUids) /\ walk'.rows = StoredUids
      BY <1>1, <1>3 DEF Count, Walk
    <2>2. Skipped' = Skipped /\ Deletions' = Deletions
      BY <1>1, <2>1 DEF Skipped, Deletions, Offset
    <2>3. LiveUids \cap StoredUids = LiveUids /\ Cardinality(LiveUids) \in Nat
      BY WalkSizes, FS_CardinalityType
    <2> QED
      BY <1>1, <2>1, <2>2, <2>3 DEF WalkInv
  <1>4. CASE Page /\ ~More
    BY <1>1, <1>4 DEF Page, NoWalk, WalkInv
  <1>5. CASE Page /\ More
    <2>1. /\ walk.pc = "page" /\ walk'.pc = "count" /\ walk'.page = walk.page + 1
          /\ walk'.start = walk.start /\ walk'.seen = Shown /\ walk'.dead = walk.dead
      BY <1>1, <1>5 DEF Page, Walk
    <2>2. Deletions' = Deletions
      BY <1>1, <2>1 DEF Deletions
    <2>3. Skipped' \subseteq Skipped
      <3> SUFFICES ASSUME NEW u \in Skipped' PROVE u \in Skipped
        OBVIOUS
      <3>1. u \in Passing(LiveUids, walk.start \ Shown, Offset(walk.page + 1))
        BY <1>1, <2>1 DEF Skipped, Offset
      <3>2. /\ u \in LiveUids /\ u \in walk.start /\ u \notin walk.seen
            /\ u \notin Items(walk.page)
            /\ Cardinality(Above(LiveUids, u)) < Offset(walk.page) + PageSize
        BY <3>1, WalkSizes DEF Passing, Shown
      <3>3. Newer(u) = Above(LiveUids, u)
        BY DEF Newer, Above
      <3>4. Cardinality(Above(LiveUids, u)) < Offset(walk.page)
        <4>1. Cardinality(Above(LiveUids, u)) \in Nat
          BY <3>2, WalkSizes, Ranks
        <4>2. Offset(walk.page) \in Int
          BY WalkSizes DEF Offset
        <4> QED
          BY <3>2, <3>3, <4>1, <4>2 DEF Items
      <3> QED
        BY <3>2, <3>4 DEF Passing, Skipped
    <2>4. IsFiniteSet(Skipped) /\ Cardinality(Skipped) \in Nat
      BY WalkSizes, FS_Subset, FS_CardinalityType DEF Skipped, Passing
    <2>5. Cardinality(Skipped') <= Cardinality(Skipped) /\ Cardinality(Skipped') \in Nat
      BY <2>3, <2>4, FS_Subset, FS_CardinalityType
    <2> QED
      BY <1>1, <2>1, <2>2, <2>4, <2>5, WalkSizes DEF WalkInv
  <1> QED
    BY <1>2, <1>3, <1>4, <1>5 DEF WalkStep, WalkArrival

\* Accounts coming and going while the client waits.
LEMMA WalkWaits ==
    ASSUME AccountsInv, WalkInv, [Next]_accountsVars, walk' = walk
    PROVE  WalkInv'
  <1> DEFINE L == LiveUids
             S == walk.start \ walk.seen
             k == Offset(walk.page)
  <1>1. /\ Skipped' = Passing(LiveUids', S, k) /\ Skipped = Passing(LiveUids, S, k)
        /\ Deletions' = (StoredUids' \ LiveUids') \ walk.dead
    BY DEF Skipped, Deletions, Passing, Above, Offset
  <1>2. /\ L \in SUBSET Uids /\ StoredUids \subseteq Uids
        /\ walk.pc # "idle" => k \in Nat
        /\ IsFiniteSet(Deletions) /\ Cardinality(Deletions) \in Nat
    BY WalkSizes DEF WalkInv
  <1>3. CASE StoredUids' = StoredUids /\ LiveUids' = LiveUids
    BY <1>1, <1>3 DEF WalkInv, Deletions
  <1>4. ASSUME NEW v \in Uids \ StoredUids,
               StoredUids' = StoredUids \cup {v}, LiveUids' = LiveUids \cup {v}
        PROVE  WalkInv'
    <2>1. walk.start \subseteq StoredUids' /\ v \notin walk.start
      BY <1>4 DEF WalkInv
    <2>2. ASSUME walk.pc # "idle" PROVE Cardinality(Skipped') <= Cardinality(Deletions')
      <3>1. v \in Uids \ S
        BY <2>1
      <3>2. k \in Nat
        BY <1>2, <2>2
      <3> HIDE DEF k, S, L
      <3>3. /\ Cardinality(Passing(L \cup {v}, S, k)) <= Cardinality(Passing(L, S, k))
        BY <1>2, <3>1, <3>2, PassingAdded
      <3>4. Deletions' = Deletions
        BY <1>1, <1>4, WalkSizes DEF Deletions
      <3>5. Passing(L \cup {v}, S, k) = Skipped' /\ Passing(L, S, k) = Skipped
        BY <1>1, <1>4 DEF L
      <3>6. Cardinality(Skipped') \in Nat /\ Cardinality(Skipped) \in Nat
        BY <1>2, <3>1, <3>2, <3>5, PassingAdded
      <3> QED
        BY <1>2, <2>2, <3>3, <3>4, <3>5, <3>6 DEF WalkInv
    <2>3. ASSUME walk.pc = "page"
          PROVE  /\ walk.rows \subseteq StoredUids'
                 /\ LiveUids' \cap walk.rows = LiveUids \cap walk.rows
      BY <1>4, <2>3 DEF WalkInv
    <2>4. walk.dead \subseteq StoredUids' \ LiveUids'
      BY <1>4, WalkSizes DEF WalkInv
    <2> QED
      BY <2>1, <2>2, <2>3, <2>4 DEF WalkInv
  <1>5. ASSUME NEW v \in LiveUids, StoredUids' = StoredUids, LiveUids' = LiveUids \ {v}
        PROVE  WalkInv'
    <2>1. v \in StoredUids /\ v \notin walk.dead
      BY <1>5, WalkSizes DEF WalkInv
    <2>2. ASSUME walk.pc # "idle" PROVE Cardinality(Skipped') <= Cardinality(Deletions')
      <3>1. k \in Nat /\ v \in L
        BY <1>2, <1>5, <2>2
      <3> HIDE DEF k, S, L
      <3>2. Cardinality(Passing(L \ {v}, S, k)) <= Cardinality(Passing(L, S, k)) + 1
        BY <1>2, <3>1, PassingRemoved
      <3>3. Deletions' = Deletions \cup {v} /\ v \notin Deletions
        BY <1>1, <1>5, <2>1 DEF Deletions
      <3>4. Cardinality(Deletions') = Cardinality(Deletions) + 1
        BY <1>2, <3>3, FS_AddElement
      <3>5. Passing(L \ {v}, S, k) = Skipped' /\ Passing(L, S, k) = Skipped
        BY <1>1, <1>5 DEF L
      <3>6. Cardinality(Passing(L \ {v}, S, k)) \in Nat /\ Cardinality(Passing(L, S, k)) \in Nat
        <4>1. L \ {v} \in SUBSET Uids
          BY <1>2
        <4>2. IsFiniteSet(Passing(L, S, k)) /\ IsFiniteSet(Passing(L \ {v}, S, k))
          BY <1>2, <4>1, Ranks, FS_Subset DEF Passing
        <4> QED
          BY <4>2, FS_CardinalityType
      <3> QED
        BY <1>2, <2>2, <3>2, <3>4, <3>5, <3>6 DEF WalkInv
    <2>3. ASSUME walk.pc = "page"
          PROVE  Cardinality(LiveUids' \cap walk.rows) <= walk.total
      <3>1. LiveUids' \cap walk.rows \in SUBSET (LiveUids \cap walk.rows)
        BY <1>5
      <3>2. IsFiniteSet(LiveUids \cap walk.rows)
        BY WalkSizes, FS_Subset
      <3>3. /\ Cardinality(LiveUids' \cap walk.rows) <= Cardinality(LiveUids \cap walk.rows)
            /\ IsFiniteSet(LiveUids' \cap walk.rows)
        BY <3>1, <3>2, FS_Subset
      <3>4. /\ Cardinality(LiveUids' \cap walk.rows) \in Nat
            /\ Cardinality(LiveUids \cap walk.rows) \in Nat
        BY <3>2, <3>3, FS_CardinalityType
      <3> QED
        BY <2>3, <3>3, <3>4, WalkSizes DEF WalkInv
    <2>4. walk.start \subseteq StoredUids' /\ walk.dead \subseteq StoredUids' \ LiveUids'
      BY <1>5 DEF WalkInv
    <2> QED
      BY <1>5, <2>2, <2>3, <2>4 DEF WalkInv
  <1> QED
    BY <1>3, <1>4, <1>5, AccountsCome

\* A walk that ends has missed the accounts skipped and those beyond the last
\* page, which the last count did not know of.
LEMMA LastPage ==
    ASSUME AccountsInv, WalkInv, walk.pc = "page", ~More
    PROVE  Cardinality((walk.start \cap LiveUids) \ Shown)
              <= Cardinality(Deletions) + Cardinality(StoredUids \ walk.rows)
  <1> DEFINE missed == (walk.start \cap LiveUids) \ Shown
             end == walk.page * PageSize
             beyond == {u \in LiveUids : Cardinality(Above(LiveUids, u)) >= end}
             fresh == StoredUids \ walk.rows
  <1>1. end \in Nat /\ walk.total <= end /\ walk.total \in Nat
    BY WalkSizes DEF More
  <1>2. LiveUids \in SUBSET Uids
    BY WalkSizes
  <1>3. /\ IsFiniteSet(beyond) /\ Cardinality(beyond) \in Nat
        /\ beyond = {} \/ Cardinality(beyond) <= Cardinality(LiveUids) - end
    <2> HIDE DEF end
    <2> QED
      BY <1>1, <1>2, Rest
  <1>4. missed \subseteq Skipped \cup beyond
    <2> SUFFICES ASSUME NEW u \in missed, u \notin beyond PROVE u \in Skipped
      OBVIOUS
    <2>1. /\ u \in LiveUids /\ u \in walk.start /\ u \notin walk.seen
          /\ u \notin Items(walk.page)
      BY DEF Shown
    <2>2. Newer(u) = Above(LiveUids, u)
      BY DEF Newer, Above
    <2>3. Cardinality(Above(LiveUids, u)) \in Nat /\ Offset(walk.page) \in Int
      BY <1>2, <2>1, Ranks, WalkSizes DEF Offset
    <2>4. Cardinality(Above(LiveUids, u)) < end
      BY <1>1, <2>1, <2>3
    <2>5. Offset(walk.page) + PageSize = end
      BY WalkSizes
    <2>6. Cardinality(Above(LiveUids, u)) < Offset(walk.page)
      BY <2>1, <2>2, <2>3, <2>4, <2>5, WalkSizes DEF Items
    <2> QED
      BY <2>1, <2>6 DEF Skipped, Passing
  <1>5. /\ IsFiniteSet(Skipped) /\ Cardinality(Skipped) \in Nat
        /\ Cardinality(Skipped) <= Cardinality(Deletions)
    BY WalkSizes, FS_Subset, FS_CardinalityType DEF Skipped, Passing, WalkInv
  <1>6. /\ IsFiniteSet(fresh) /\ Cardinality(fresh) \in Nat
        /\ Cardinality(LiveUids) <= walk.total + Cardinality(fresh) /\ Cardinality(LiveUids) \in Nat
    <2>1. IsFiniteSet(fresh) /\ IsFiniteSet(LiveUids \cap walk.rows)
      BY WalkSizes, FS_Subset
    <2>2. LiveUids \in SUBSET ((LiveUids \cap walk.rows) \cup fresh)
      BY WalkSizes
    <2>3. /\ IsFiniteSet((LiveUids \cap walk.rows) \cup fresh)
          /\ Cardinality((LiveUids \cap walk.rows) \cup fresh)
                <= Cardinality(LiveUids \cap walk.rows) + Cardinality(fresh)
      <3>1. (LiveUids \cap walk.rows) \cap fresh = {}
        OBVIOUS
      <3> DEFINE known == LiveUids \cap walk.rows
      <3> HIDE DEF fresh, known
      <3>2. known \cap fresh = {} /\ IsFiniteSet(known) /\ IsFiniteSet(fresh)
        BY <2>1, <3>1 DEF known
      <3>3. /\ IsFiniteSet(known \cup fresh)
            /\ Cardinality(known \cup fresh) =
                  Cardinality(known) + Cardinality(fresh) - Cardinality(known \cap fresh)
        BY <3>2, FS_Union
      <3>4. /\ Cardinality(known \cap fresh) = 0
            /\ Cardinality(known) \in Nat /\ Cardinality(fresh) \in Nat
        BY <3>2, FS_EmptySet, FS_CardinalityType
      <3> QED
        BY <3>3, <3>4 DEF known
    <2>4. Cardinality(LiveUids) <= Cardinality((LiveUids \cap walk.rows) \cup fresh)
      BY <2>2, <2>3, FS_Subset
    <2>5. /\ Cardinality(LiveUids) \in Nat /\ Cardinality(fresh) \in Nat
          /\ Cardinality(LiveUids \cap walk.rows) \in Nat
          /\ Cardinality((LiveUids \cap walk.rows) \cup fresh) \in Nat
      BY <2>1, <2>3, WalkSizes, FS_CardinalityType
    <2> QED
      BY <1>1, <2>1, <2>3, <2>4, <2>5 DEF WalkInv
  <1>7. /\ Cardinality(missed) <= Cardinality(Skipped) + Cardinality(beyond)
        /\ Cardinality(missed) \in Nat
    <2> HIDE DEF missed, beyond
    <2>1. /\ IsFiniteSet(Skipped \cup beyond)
          /\ Cardinality(Skipped \cup beyond) =
                Cardinality(Skipped) + Cardinality(beyond) - Cardinality(Skipped \cap beyond)
          /\ Cardinality(Skipped \cap beyond) \in Nat
      BY <1>3, <1>5, FS_Union, FS_Subset, FS_CardinalityType
    <2>2. Cardinality(Skipped \cup beyond) \in Nat /\ IsFiniteSet(missed)
      BY <1>4, <2>1, FS_Subset, FS_CardinalityType
    <2>3. Cardinality(missed) <= Cardinality(Skipped \cup beyond)
      BY <1>4, <2>1, FS_Subset
    <2> QED
      BY <1>3, <1>5, <2>1, <2>2, <2>3, FS_CardinalityType
  <1>8. Cardinality(beyond) <= Cardinality(fresh)
    <2> HIDE DEF end, fresh
    <2>1. CASE beyond = {}
      BY <1>6, <2>1, FS_EmptySet
    <2>2. CASE beyond # {}
      <3> HIDE DEF beyond
      <3> QED
        BY <1>1, <1>3, <1>6, <2>2
    <2> QED
      BY <2>1, <2>2
  <1> HIDE DEF missed, beyond, fresh
  <1>9. Cardinality(missed) <= Cardinality(Deletions) + Cardinality(fresh)
    BY <1>3, <1>5, <1>6, <1>7, <1>8, WalkSizes
  <1> QED
    BY <1>9 DEF missed, fresh

\* However accounts come and go between the statements of a walk, it misses no
\* more of those that stay than it must (list_users, repository.py:84-101;
\* PageParams.offset, pagination.py:14-17).
THEOREM WalksMissFew == Spec => FewMissed
  <1>1. AccountsInv /\ WalkInv /\ [Next]_accountsVars => WalkInv'
    <2> SUFFICES ASSUME AccountsInv, WalkInv, [Next]_accountsVars PROVE WalkInv'
      OBVIOUS
    <2>1. WalkStep \/ WalkArrival \/ walk' = walk
      BY DEF Next, RequestNext, accountsVars
    <2> QED
      BY <2>1, WalkMoves, WalkWaits
  <1>2. AccountsInv /\ WalkInv /\ [Next]_accountsVars =>
           [walk.pc = "page" /\ walk'.pc = "idle" =>
              Cardinality((walk.start \cap LiveUids) \ Shown)
                  <= Cardinality((StoredUids \ LiveUids) \ walk.dead)
                     + Cardinality(StoredUids \ walk.rows)]_accountsVars
    <2> SUFFICES ASSUME AccountsInv, WalkInv, [Next]_accountsVars,
                        walk.pc = "page", walk'.pc = "idle"
                 PROVE  ~More
      BY LastPage DEF Deletions
    <2>1. Page
      BY DEF Next, RequestNext, accountsVars, WalkStep, WalkArrival, BeginWalk, Count
    <2> QED
      BY <2>1 DEF Page, AccountsInv, TypeOK, Walk
  <1> QED
    BY AccountsInvariant, WalkInitial, <1>1, <1>2, PTL DEF Spec, FewMissed
=============================================================================
