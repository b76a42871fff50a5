--------------------------- MODULE MCAvailableAccounts ---------------------------
(* Instances of AvailableAccounts for TLC. *)
EXTENDS AvailableAccounts

CONSTANTS j1, j2, nextcloud, owncloud

(* Every job is for the one provider that allows a single account. *)
OneProvider == [j \in Job |-> nextcloud]

SamePlugin == [j \in Job |-> owncloud]
================================================================================
