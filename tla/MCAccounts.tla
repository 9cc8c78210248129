----------------------------- MODULE MCAccounts -----------------------------
(* Small instances of AccountsSystem. *)
EXTENDS AccountsSystem, TLC

Symmetry == Permutations(Reqs) \cup Permutations(Emails) \cup Permutations(Usernames)
=============================================================================
