------------------------ MODULE SessionLedgerProofs -------------------------
(***************************************************************************)
(* What follows from the promise of SessionLedger alone, for any set of    *)
(* users and of session ids.  Nil must not be confused with an entry.      *)
(***************************************************************************)
EXTENDS SessionLedger, TLAPS

\* The entries that stay or end keep what Lineage speaks about.
LEMMA EndsKeeps ==
    ASSUME NEW E, NEW N, NEW u, Nil \notin Entry, LedgerTypeOK, LedgerTypeOK',
           E \subseteq OwnedBy(u), Ends(E, N), NEW t \in Sids \ N
    PROVE  /\ ledger'[t] = Nil <=> ledger[t] = Nil
           /\ ledger[t] # Nil => /\ ledger'[t].user = ledger[t].user
                                 /\ ledger'[t].prev = ledger[t].prev
                                 /\ ledger'[t].expires = ledger[t].expires
                                 /\ ~ledger[t].live => ~ledger'[t].live
                                 /\ t \in E => ~ledger'[t].live
  <1>1. ledger[t] \in Entry \cup {Nil} /\ ledger'[t] \in Entry \cup {Nil}
    BY DEF LedgerTypeOK
  <1>2. CASE t \in E
    <2>1. ledger[t] \in Entry
      BY <1>1, <1>2 DEF OwnedBy
    <2>2. ledger'[t] = [ledger[t] EXCEPT !.live = FALSE]
      BY <1>2 DEF Ends
    <2>3. ledger'[t] \in Entry
      BY <2>1, <2>2 DEF Entry
    <2>4. QED
      BY <2>1, <2>2, <2>3 DEF Entry
  <1>3. CASE t \notin E
    BY <1>3 DEF Ends
  <1>4. QED
    BY <1>2, <1>3

\* A step of the ledger keeps Lineage: an opened session has no parent, a
\* replacing one has the parent it has just ended, the others keep theirs.
LEMMA LineageStep ==
    ASSUME Nil \notin Entry, Nil \notin Sids, LedgerTypeOK, Lineage, LedgerNext
    PROVE  Lineage'
  <1>1. LedgerTypeOK'
    BY DEF LedgerNext
  <1>2. ASSUME NEW u \in Users, End(u) PROVE Lineage'
    <2>1. PICK E \in SUBSET OwnedBy(u) : Ends(E, {})
      BY <1>2 DEF End
    <2>2. QED
      BY <1>1, <2>1, EndsKeeps DEF Lineage, LedgerTypeOK, Entry
  <1>3. ASSUME NEW u \in Users, NEW s \in Sids, Open(u, s) PROVE Lineage'
    <2>1. PICK E \in SUBSET OwnedBy(u) : Ends(E, {s})
      BY <1>3 DEF Open
    <2>2. QED
      BY <1>1, <1>3, <2>1, EndsKeeps DEF Lineage, LedgerTypeOK, Entry, Open, Appears
  <1>4. ASSUME NEW p \in Sids, NEW s \in Sids, Replace(p, s) PROVE Lineage'
    <2>1. {p} \subseteq OwnedBy(ledger[p].user) /\ Ends({p}, {s}) /\ p # s
      BY <1>4 DEF Replace, OwnedBy, Appears
    <2>2. QED
      BY <1>1, <1>4, <2>1, EndsKeeps DEF Lineage, LedgerTypeOK, Entry, Replace, Appears
  <1>5. QED
    BY <1>2, <1>3, <1>4 DEF LedgerNext

\* The lineage of sessions (service.py:204-237) is a consequence of the ledger's
\* three operations: whoever implements them needs no other argument for it.
THEOREM LineageInvariant ==
    ASSUME Nil \notin Entry, Nil \notin Sids
    PROVE  LedgerSpec => [](LedgerTypeOK /\ Lineage)
  <1>1. LedgerInit => LedgerTypeOK /\ Lineage
    BY DEF LedgerInit, LedgerTypeOK, Lineage
  <1>2. LedgerTypeOK /\ Lineage /\ [LedgerNext]_ledger => (LedgerTypeOK /\ Lineage)'
    <2>1. LedgerTypeOK /\ Lineage /\ LedgerNext => (LedgerTypeOK /\ Lineage)'
      BY LineageStep DEF LedgerNext
    <2>2. LedgerTypeOK /\ Lineage /\ UNCHANGED ledger => (LedgerTypeOK /\ Lineage)'
      BY DEF LedgerTypeOK, Lineage
    <2>3. QED
      BY <2>1, <2>2
  <1>3. QED
    BY <1>1, <1>2, PTL DEF LedgerSpec

\* No commit ever removes, revives or rewrites a session (repository.py:80-113
\* only sets revoked_at).
THEOREM EntriesPermanent ==
    ASSUME Nil \notin Entry, Nil \notin Sids
    PROVE  LedgerSpec => [][EntryPermanent]_ledger
  <1>1. LedgerTypeOK /\ LedgerNext => EntryPermanent
    <2>1. SUFFICES ASSUME LedgerTypeOK, LedgerNext, NEW t \in Sids, ledger[t] # Nil
                   PROVE  /\ ledger'[t] # Nil
                          /\ ledger'[t] = [ledger[t] EXCEPT !.live = ledger'[t].live]
                          /\ ledger'[t].live => ledger[t].live
      BY DEF EntryPermanent
    <2>2. \E u \in Users, N \in SUBSET Sids : \E E \in SUBSET OwnedBy(u) :
             Ends(E, N) /\ t \notin N
      <3>1. CASE \E u \in Users : End(u)
        BY <3>1 DEF End
      <3>2. CASE \E u \in Users, s \in Sids : Open(u, s)
        <4>1. PICK u \in Users, s \in Sids : Open(u, s)
          BY <3>2
        <4>2. {s} \in SUBSET Sids /\ t \notin {s}
          BY <2>1, <4>1 DEF Open, Appears
        <4>3. QED
          BY <4>1, <4>2 DEF Open
      <3>3. CASE \E p, s \in Sids : Replace(p, s)
        <4>1. PICK p \in Sids, s \in Sids : Replace(p, s)
          BY <3>3
        <4>2. {s} \in SUBSET Sids /\ t \notin {s}
          BY <2>1, <4>1 DEF Replace, Appears
        <4>3. ledger[p].user \in Users /\ {p} \in SUBSET OwnedBy(ledger[p].user)
          BY <2>1, <4>1 DEF Replace, OwnedBy, LedgerTypeOK, Entry
        <4>4. QED
          BY <4>1, <4>2, <4>3 DEF Replace
      <3>4. QED
        BY <2>1, <3>1, <3>2, <3>3 DEF LedgerNext
    <2>3. PICK u \in Users, N \in SUBSET Sids : \E E \in SUBSET OwnedBy(u) :
             Ends(E, N) /\ t \notin N
      BY <2>2
    <2> PICK E \in SUBSET OwnedBy(u) : Ends(E, N) /\ t \notin N
      BY <2>3
    <2>4. ledger'[t] = IF t \in E THEN [ledger[t] EXCEPT !.live = FALSE] ELSE ledger[t]
      BY <2>1 DEF Ends
    <2>5. ledger'[t] # Nil /\ ledger[t] \in Entry /\ ledger'[t] \in Entry
      BY <2>1, EndsKeeps DEF LedgerNext, LedgerTypeOK
    <2>6. QED
      BY <2>4, <2>5 DEF Entry
  <1>2. QED
    BY <1>1, LineageInvariant, PTL DEF LedgerSpec
=============================================================================
