----------------------------- MODULE MCDaemonHistory -----------------------------
(* Instances of DaemonHistory for TLC. *)
EXTENDS DaemonHistory

CONSTANTS a1, a2, l1, l2, storage, mail

(* Two accounts on one server with one user name. *)
SharedLogin == [a \in Account |-> l1]
================================================================================
