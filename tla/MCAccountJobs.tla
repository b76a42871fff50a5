------------------------------ MODULE MCAccountJobs ------------------------------
(* Instances of AccountJobs for TLC. *)
EXTENDS AccountJobs

CONSTANTS a1, a2, s1, s2, j1, j2, j3
================================================================================
