------------------------------ MODULE AccountsDaemon ------------------------------
(* The kded module "kded_accounts" (src/src/kded/kded_accounts.cpp) with the       *)
(* WebDAV plugin (KIOServices) loaded, and the accounts database whose changes it  *)
(* listens for.  Other processes (System Settings, applications) change the        *)
(* database; libaccounts tells the daemon with D-Bus signals, which arrive later,  *)
(* in the order of the changes.                                                    *)
EXTENDS KIOServices, Sequences

CONSTANTS
    Overlap,       \* may an account change while its last change is being handled?
    Failures,      \* may credentials and wallet requests fail?
    MaxChanges,    \* bound: changes of the database
    MaxRestarts    \* bound: restarts of kded

ASSUME SwitchAssumption == Overlap \in BOOLEAN /\ Failures \in BOOLEAN
ASSUME BoundAssumption == MaxChanges \in Nat /\ MaxRestarts \in Nat

VARIABLES
    accounts,      \* the database: accounts that are not yet, that are, that were there
    enabled,       \* the database: the enabled services of live accounts
    signals,       \* D-Bus signals to the daemon, in flight
    daemon,        \* startDaemon still queued, has run, or the process has died
    monitors,      \* handles with enabledChanged connected, for each account
    changes, restarts

dbVars == <<accounts, enabled, changes>>
daemonVars == <<signals, daemon, monitors, restarts>>
vars == <<kioVars, dbVars, daemonVars>>

Signal ==
    [kind : {"created", "removed"}, account : Account]
        \cup [kind : {"enabled", "disabled"}, account : Account, service : Service]

TypeOK ==
    /\ KioTypeOK
    /\ accounts \in [Account -> {"absent", "live", "gone"}]
    /\ enabled \in SUBSET UniqueId
    /\ signals \in Seq(Signal)
    /\ daemon \in {"starting", "running", "crashed"}
    /\ monitors \in [Account -> Nat]
    /\ changes \in Nat /\ restarts \in Nat

Init ==
    /\ KioInit
    /\ accounts = [a \in Account |-> "absent"]
    /\ enabled = {}
    /\ signals = <<>>
    /\ daemon = "starting"
    /\ monitors = [a \in Account |-> 0]
    /\ changes = 0 /\ restarts = 0

(* A signal of this kind about account a is in flight. *)
InFlight(kind, a) ==
    \E i \in DOMAIN signals : signals[i].kind = kind /\ signals[i].account = a

(* Nothing about account a is still to be handled. *)
Quiet(a) ==
    /\ daemon = "running"
    /\ \A i \in DOMAIN signals : signals[i].account # a
    /\ NoCoroutine(a)

AllQuiet == \A a \in Account : Quiet(a)

--------------------------------------------------------------------------------
(* The accounts database and libaccounts' signals (external). *)

(* A committed change of account a is signalled to the daemon, if there is one.   *)
Change(a, signal) ==
    /\ Overlap \/ Quiet(a)
    /\ changes < MaxChanges
    /\ changes' = changes + 1
    /\ signals' = IF daemon = "crashed" THEN signals ELSE Append(signals, signal)
    /\ UNCHANGED <<kioVars, daemon, monitors, restarts>>

(* An account is stored with some services already enabled. *)
CreateAccount(a, S) ==
    /\ accounts[a] = "absent"
    /\ accounts' = [accounts EXCEPT ![a] = "live"]
    /\ enabled' = enabled \cup ({a} \X S)
    /\ Change(a, [kind |-> "created", account |-> a])

ToggleService(a, s) ==
    LET on == <<a, s>> \notin enabled IN
    /\ accounts[a] = "live"
    /\ enabled' = IF on THEN enabled \cup {<<a, s>>} ELSE enabled \ {<<a, s>>}
    /\ Change(a, [kind |-> IF on THEN "enabled" ELSE "disabled", account |-> a, service |-> s])
    /\ UNCHANGED accounts

(* Ids are never given out again. *)
RemoveAccount(a) ==
    /\ accounts[a] = "live"
    /\ accounts' = [accounts EXCEPT ![a] = "gone"]
    /\ enabled' = {id \in enabled : id[1] # a}
    /\ Change(a, [kind |-> "removed", account |-> a])

--------------------------------------------------------------------------------
(* The daemon.  Its constructor connects the signals and queues startDaemon, so   *)
(* signals may be dispatched before startDaemon runs.                             *)

(* The process ends: what lives in its memory is gone, files and wallet stay.     *)
ProcessEnds ==
    /\ signals' = <<>>
    /\ monitors' = [a \in Account |-> 0]
    /\ waiting' = [w \in Request \X Credentials!Tries |-> 0]
    /\ sessions' = [r \in Request |-> 0]
    /\ coros' = [await \in UniqueId \X Stage |-> 0]
    /\ UNCHANGED <<files, wallet, dbVars>>

(* Mutant of StartDaemon: relies on the accountCreated signals alone. *)
StartDaemonUnlisted ==
    /\ daemon = "starting"
    /\ daemon' = "running"
    /\ UNCHANGED <<kioVars, dbVars, signals, monitors, restarts>>

(* startDaemon monitors every account of the list; no plugin is called. *)
StartDaemon ==
    /\ daemon = "starting"
    /\ daemon' = "running"
    /\ monitors' = [a \in Account |-> monitors[a] + IF accounts[a] = "live" THEN 1 ELSE 0]
    /\ UNCHANGED <<kioVars, dbVars, signals, restarts>>

(* The daemon takes the next signal, which is of one of these kinds. *)
Receive(kinds) ==
    /\ daemon # "crashed"
    /\ signals # <<>>
    /\ Head(signals).kind \in kinds

Dispatched ==
    /\ signals' = Tail(signals)
    /\ UNCHANGED <<dbVars, daemon, restarts>>

(* monitorAccount takes a handle without asking whether it is null: the account   *)
(* may be gone by now, and kded dies.                                             *)
accountCreated ==
    LET a == Head(signals).account IN
    /\ Receive({"created"})
    /\ IF accounts[a] = "live"
       THEN /\ monitors' = [monitors EXCEPT ![a] = @ + 1]
            /\ onAccountCreated(a, {s \in Service : <<a, s>> \in enabled})
            /\ Dispatched
       ELSE /\ daemon' = "crashed"
            /\ ProcessEnds
            /\ UNCHANGED restarts

accountRemoved ==
    /\ Receive({"removed"})
    /\ onAccountRemoved(Head(signals).account)
    /\ Dispatched
    /\ UNCHANGED monitors

(* Called once for each connected handle of the account. *)
enabledChanged ==
    LET signal == Head(signals)
        id == <<signal.account, signal.service>> IN
    /\ Receive({"enabled", "disabled"})
    /\ IF signal.kind = "enabled"
       THEN onServiceEnabled(id, accounts[signal.account] = "live", monitors[signal.account])
       ELSE onServiceDisabled(id, monitors[signal.account])
    /\ Dispatched
    /\ UNCHANGED monitors

(* Logout and login, or kded started again after a crash. *)
Restart ==
    /\ Overlap \/ AllQuiet
    /\ restarts < MaxRestarts
    /\ restarts' = restarts + 1
    /\ daemon' = "starting"
    /\ ProcessEnds

--------------------------------------------------------------------------------
(* Coroutine steps of the plugin, in the event loop of a running kded. *)

(* A credentials job looks for the account.  What it finds may lack an identity.   *)
CredentialsLookup(id) ==
    \E hasHandle \in BOOLEAN, tries \in Credentials!Tries, complete \in {TRUE, ~Failures} :
       /\ Credentials!getCredentials(<<id, hasHandle>>, tries, accounts[id[1]] = "live", complete)
       /\ UNCHANGED <<coros, files, wallet>>

(* The credentials of an account that has gone meanwhile may not be found any more. *)
CredentialsError(id) ==
    /\ Failures \/ accounts[id[1]] # "live"
    /\ \E hasHandle \in BOOLEAN : CredentialsFailed(id, hasHandle)

CredentialsJob(id) == CredentialsLookup(id) \/ CredentialsError(id)

(* signond answers a job with the credentials.  A createNetAttach whose handle is  *)
(* null would now dereference it.                                                  *)
CredentialsResponse(id) ==
    \E hasHandle \in BOOLEAN :
       /\ daemon # "crashed" /\ sessions[<<id, hasHandle>>] > 0
       /\ IF hasHandle
          THEN CredentialsFinished(id) /\ UNCHANGED <<dbVars, daemonVars>>
          ELSE daemon' = "crashed" /\ ProcessEnds /\ UNCHANGED restarts

WalletAnswer(id) == WalletOpened(id) \/ (Failures /\ WalletRefused(id))

RealmAnswer(id) == \E hasRealm \in BOOLEAN : RealmFetched(id, hasRealm)

UnmountAnswer(id) == UnmountWalletOpened(id) \/ (Failures /\ UnmountWalletRefused(id))

InEventLoop(Step) == daemon # "crashed" /\ Step /\ UNCHANGED <<dbVars, daemonVars>>

Dispatch == accountCreated \/ accountRemoved \/ enabledChanged

Next ==
    \/ \E a \in Account :
          \/ \E S \in SUBSET Service : CreateAccount(a, S)
          \/ \E s \in Service : ToggleService(a, s)
          \/ RemoveAccount(a)
    \/ StartDaemon
    \/ Dispatch
    \/ Restart
    \/ \E id \in UniqueId :
          \/ InEventLoop(CredentialsJob(id))
          \/ CredentialsResponse(id)
          \/ InEventLoop(WalletAnswer(id))
          \/ InEventLoop(RealmAnswer(id))
          \/ InEventLoop(UnmountAnswer(id))

(* The event loop dispatches what is queued, and signond, the wallet and the      *)
(* server answer sooner or later; only storage services have coroutines to wait   *)
(* for them.  Nobody has to change an account or restart.                         *)
Fairness ==
    /\ WF_vars(StartDaemon)
    /\ WF_vars(Dispatch)
    /\ \A id \in DavId :
          /\ WF_vars(InEventLoop(CredentialsLookup(id)))
          /\ WF_vars(InEventLoop(CredentialsError(id)) \/ CredentialsResponse(id))
          /\ WF_vars(InEventLoop(WalletAnswer(id)))
          /\ WF_vars(InEventLoop(RealmAnswer(id)))
          /\ WF_vars(InEventLoop(UnmountAnswer(id)))

Spec == Init /\ [][Next]_vars
FairSpec == Spec /\ Fairness

--------------------------------------------------------------------------------
(* Properties. *)

(* No account slips between the list startDaemon reads and the signals            *)
(* connected before it: in a running daemon every live account is monitored or    *)
(* its accountCreated is still to come (kded_accounts.cpp:27-32, 57-63, 78-81).   *)
NoAccountUnmonitored ==
    daemon = "running" =>
        \A a \in Account : accounts[a] = "live" => (monitors[a] > 0 \/ InFlight("created", a))

(* A signal accountRemoved leaves the queue only by starting an unmount of every  *)
(* place of the account, unless kded is restarted (kded_accounts.cpp:91-97,       *)
(* kioservices.cpp:57-76).                                                        *)
RemovalReachesPlugins ==
    [][\A a \in Account :
          InFlight("removed", a) /\ ~InFlight("removed", a)' /\ restarts' = restarts =>
             /\ daemon' # "crashed"
             /\ \A id \in files : id[1] = a => coros'[<<id, "unmount">>] > 0]_vars

(* Whatever overlaps and fails, the signal of a removal is lost in one way only: an *)
(* accountCreated before it is for an account that has gone, and kded dies of its   *)
(* null handle (kded_accounts.cpp:65-69, 78-84, 91-97, kioservices.cpp:57-76).      *)
RemovalLostByCrashOnly ==
    [][\A a \in Account :
          InFlight("removed", a) /\ ~InFlight("removed", a)' /\ restarts' = restarts =>
             \/ \A id \in files : id[1] = a => coros'[<<id, "unmount">>] > 0
             \/ /\ daemon' = "crashed"
                /\ Head(signals).kind = "created"
                /\ accounts[Head(signals).account] = "gone"]_vars

(* A createNetAttach whose account was gone when it took its handle never gets     *)
(* credentials, which it would use with that null handle: no retry of its job      *)
(* finds the account (kioservices.cpp:128-144, getcredentialsjob.cpp:47-61).       *)
NullHandleNeverUsed == \A id \in UniqueId : sessions[<<id, FALSE>>] = 0

(* Disabling reaches the plugin's places: once everything about an account is     *)
(* handled, none of its disabled or removed services is mounted                   *)
(* (kioservices.cpp:92-104, 57-76).                                               *)
DisabledIsUnmounted ==
    \A id \in files : Quiet(id[1]) => id \in enabled

(* Enabling reaches them too: once everything about an account is handled, each   *)
(* of its enabled storage services is mounted (kioservices.cpp:40-55, 78-90).     *)
EnabledIsMounted ==
    \A id \in enabled \cap DavId : Quiet(id[1]) => id \in files

(* While an account changes only when its last change is handled, whatever is in  *)
(* flight still agrees with the database: signals, mounts and unmounts            *)
(* (kded_accounts.cpp:99-118, kioservices.cpp:126-168, 240-254).                  *)
NothingStaleInFlight ==
    /\ \A i \in DOMAIN signals : LET signal == signals[i] IN
          /\ signal.kind = "enabled" => <<signal.account, signal.service>> \in enabled
          /\ signal.kind = "disabled" => <<signal.account, signal.service>> \notin enabled
          /\ signal.kind = "removed" => \A s \in Service : <<signal.account, s>> \notin enabled
    /\ \A id \in UniqueId :
          /\ ~NoRequest(id) => id \in enabled \cap DavId
          /\ \A stage \in {"wallet", "realm"} :
                coros[<<id, stage>>] > 0 => id \in enabled \cap DavId
          /\ coros[<<id, "unmount">>] > 0 => id \notin enabled

(* After an unmount no password of that login is left when no place uses it       *)
(* (kioservices.cpp:275-289).                                                     *)
PasswordsGoWithMounts ==
    AllQuiet => \A e \in wallet : \E id \in files : LoginOf[id[1]] = e.login

(* Every createNetAttach is rid of its credentials job in the end, however the      *)
(* job's retries and its session race with the removal of the account              *)
(* (getcredentialsjob.cpp:45-99, kioservices.cpp:131-139).                          *)
CredentialsSettle == \A id \in UniqueId : ~NoRequest(id) ~> NoRequest(id)

(* What the daemon and the plugin implement together. *)
Registry == INSTANCE MountRegistry
    WITH Id <- UniqueId, want <- enabled \cap DavId, have <- files

(* Places are added only for enabled services and taken away only for others.     *)
MountsFollowDatabase == Registry!Safety

(* A service that stays enabled gets its place, one that stays disabled loses it. *)
MountsConverge == Registry!Convergence
================================================================================
