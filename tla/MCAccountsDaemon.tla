----------------------------- MODULE MCAccountsDaemon -----------------------------
(* Instances of AccountsDaemon for TLC. *)
EXTENDS AccountsDaemon

CONSTANTS a1, a2, l1, l2, storage, mail

(* Two accounts on one server with one user name. *)
SharedLogin == [a \in Account |-> l1]

(* Each account has a login of its own. *)
OwnLogin == [a \in Account |-> IF a = a1 THEN l1 ELSE l2]
================================================================================
