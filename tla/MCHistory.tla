----------------------------- MODULE MCHistory ------------------------------
(* Small instances of AuthHistory. *)
EXTENDS AuthHistory, TLC

Descending == [s \in Sids |-> MaxSid - s]

Symmetry == Permutations(Reqs) \cup Permutations(Users)
=============================================================================
