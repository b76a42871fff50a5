----------------------------- MODULE MCServicesModel -----------------------------
(* An instance of ServicesModel for TLC. *)
EXTENDS ServicesModel

CONSTANTS a1, a2, mail, storage

(* Two accounts with a service in common, in different rows. *)
Overlapping == [a \in Account |-> IF a = a1 THEN <<mail, storage>> ELSE <<storage>>]
================================================================================
