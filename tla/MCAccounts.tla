----------------------------- MODULE MCAccounts -----------------------------
(* Accounts for TLC.                                                       *)
EXTENDS Accounts, TLC

(* The same email, with and without capitals.                              *)
MCNormal == [email \in Emails |-> "a@x.io"]

Symmetry ==
    Permutations(Tokens) \cup Permutations(Sessions) \cup Permutations(Users)
=============================================================================
