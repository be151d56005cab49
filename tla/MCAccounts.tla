----------------------------- MODULE MCAccounts -----------------------------
(* Accounts for TLC.  Names, registrations and invites are interchangeable.  *)
EXTENDS Accounts, TLC

Symmetry == Permutations(Names) \cup Permutations(Tokens) \cup Permutations(Invites)
=============================================================================
