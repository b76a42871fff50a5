------------------------------ MODULE MountRegistry ------------------------------
(* What the accounts daemon and its WebDAV plugin together promise: the set of    *)
(* remote places follows the set of enabled storage services.  The environment    *)
(* changes what is wanted as it likes; the system adds only places that are       *)
(* wanted, takes away only places that are not, and gets to each of them if the   *)
(* environment does not change its mind first.                                    *)
CONSTANT Id

VARIABLES
    want,   \* the enabled storage services
    have    \* the remote places

registryVars == <<want, have>>

Init == want = {} /\ have = {}

ChangeMind ==
    /\ want' \in SUBSET Id
    /\ UNCHANGED have

Mount(id) ==
    /\ id \in want \ have
    /\ have' = have \cup {id}
    /\ UNCHANGED want

Unmount(id) ==
    /\ id \in have \ want
    /\ have' = have \ {id}
    /\ UNCHANGED want

Next == ChangeMind \/ \E id \in Id : Mount(id) \/ Unmount(id)

(* A place is added only while wanted and taken away only while not wanted.       *)
Safety == Init /\ [][Next]_registryVars

(* A place that stays wanted appears, one that stays unwanted goes away.          *)
Convergence ==
    \A id \in Id : WF_registryVars(Mount(id)) /\ WF_registryVars(Unmount(id))

Spec == Safety /\ Convergence
================================================================================
