------------------------------ MODULE DaemonHistory ------------------------------
(* AccountsDaemon with a history: which places something has happened to that the  *)
(* code does not make up for, since they were last as the database has them.  The  *)
(* history only observes; the system does what it does without it.                 *)
EXTENDS AccountsDaemon

VARIABLE disturbed

historyVars == <<vars, disturbed>>

(* A createNetAttach of id is under way, or a removeNetAttach.                     *)
MountOnTheWay(id) ==
    \/ ~Credentials!Idle(<<id, TRUE>>)
    \/ \E stage \in {"wallet", "realm"} : coros[<<id, stage>>] > 0

UnmountOnTheWay(id) == coros[<<id, "unmount">>] > 0

(* What a signal may have the plugin do with id. *)
TellsToMount(signal, id) ==
    /\ signal.account = id[1]
    /\ signal.kind = "created" \/ (signal.kind = "enabled" /\ signal.service = id[2])

TellsToUnmount(signal, id) ==
    /\ signal.account = id[1]
    /\ signal.kind = "removed" \/ (signal.kind = "disabled" /\ signal.service = id[2])

--------------------------------------------------------------------------------
(* What disturbs a place. *)

(* A slot looks whether id is mounted while the opposite is being done to it       *)
(* (kioservices.cpp:48, 63, 84, 98).                                               *)
Crossed(id) ==
    /\ Dispatch
    /\ \/ TellsToMount(Head(signals), id) /\ id \in enabled /\ UnmountOnTheWay(id)
       \/ TellsToUnmount(Head(signals), id) /\ MountOnTheWay(id)

(* A toggle of id is told to a daemon that has no handle of the account yet        *)
(* (kded_accounts.cpp:32, 71).                                                     *)
Unheard(id) ==
    /\ enabledChanged /\ monitors[id[1]] = 0
    /\ TellsToMount(Head(signals), id) \/ TellsToUnmount(Head(signals), id)

(* A mount of id is given up for want of credentials or of the wallet, or its      *)
(* unmount is; there is no second try (kioservices.cpp:137, 157, 252).             *)
GivenUp(id) ==
    \/ /\ accounts[id[1]] = "live"
       /\ \/ InEventLoop(CredentialsLookup(id)) /\ UNCHANGED sessions
          \/ InEventLoop(CredentialsError(id))
          \/ InEventLoop(WalletRefused(id))
    \/ id \in files /\ InEventLoop(UnmountWalletRefused(id))

Agrees(id) == id \in files <=> id \in enabled \cap DavId

(* kded starts and finds id as the database does not have it: nothing compares     *)
(* them (kded_accounts.cpp:57-63).                                                 *)
NotRepaired(id) == Restart /\ ~Agrees(id)

Disturbs(id) == Crossed(id) \/ Unheard(id) \/ GivenUp(id) \/ NotRepaired(id)

(* Everything about the account of id is handled, and id is as it should be.       *)
Settled(id) == Quiet(id[1]) /\ Agrees(id)

Observe == disturbed' = {id \in UniqueId : (id \in disturbed \/ Disturbs(id)) /\ ~Settled(id)'}

HistorySpec ==
    /\ Init /\ disturbed = {}
    /\ [][Next /\ Observe]_historyVars

FairHistorySpec == HistorySpec /\ Fairness

--------------------------------------------------------------------------------
(* Properties. *)

(* Whatever changes, fails, overlaps and restarts: once everything about an         *)
(* account is handled, its places are its enabled storage services, but for those   *)
(* that were disturbed in one of these four ways (kioservices.cpp:40-104, 126-290,  *)
(* kded_accounts.cpp:57-118).                                                       *)
UndisturbedPlacesAgree ==
    \A id \in UniqueId \ disturbed : Quiet(id[1]) => Agrees(id)
================================================================================
