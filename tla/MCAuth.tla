------------------------------- MODULE MCAuth -------------------------------
(* Small instances of AuthSystem. *)
EXTENDS AuthSystem, TLC

Descending == [s \in Sids |-> MaxSid - s]

Symmetry == Permutations(Reqs) \cup Permutations(Users)
=============================================================================
