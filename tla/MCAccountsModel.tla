----------------------------- MODULE MCAccountsModel -----------------------------
(* Instances of AccountsModel for TLC. *)
EXTENDS AccountsModel, TLC

CONSTANTS a1, a2, a3, h1, h2, h3

(* Accounts are alike, and so are addresses. *)
Alike == Permutations(Account) \cup Permutations(Address)
================================================================================
