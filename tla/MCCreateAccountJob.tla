---------------------------- MODULE MCCreateAccountJob ----------------------------
(* Instances of CreateAccountJob for TLC. *)
EXTENDS CreateAccountJob

CONSTANTS j1, j2, j3, google, owncloud

(* Every path: a provider with a plugin, one with a plugin that does not load, one  *)
(* without a plugin.                                                               *)
EachPath == [j \in Job |-> CASE j = j1 -> google [] j = j2 -> NoPlugin [] OTHER -> owncloud]

(* Two jobs whose providers have the same plugin. *)
SamePlugin == [j \in Job |-> google]
================================================================================
