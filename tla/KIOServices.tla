------------------------------- MODULE KIOServices -------------------------------
(* The KIO WebDAV daemon plugin (src/src/plugins/kio-webdav/kioservices.cpp).     *)
(* For every enabled "dav-storage" service of an account it keeps a remote place, *)
(* the file remoteview/<account>_<service>.desktop, and the WebDAV password in    *)
(* the network wallet.  Its four slots run to completion in the event loop of     *)
(* kded, but mounting and unmounting are coroutines: between two co_awaits any    *)
(* other slot or coroutine may run.  This module has the slots and the coroutine  *)
(* steps; AccountsDaemon composes them with the daemon that calls the slots.      *)
EXTENDS Naturals, FiniteSets

CONSTANTS
    Account,      \* account ids
    Service,      \* service names
    DavService,   \* the services of type "dav-storage"
    Login,        \* "user@host" of a WebDAV server
    LoginOf       \* the login that an account's credentials and dav/host give

ASSUME DavAssumption == DavService \subseteq Service
ASSUME LoginAssumption == LoginOf \in [Account -> Login]

VARIABLES
    waiting,      \* GetCredentialsJobs that are to look for their account
    sessions,     \* GetCredentialsJobs with an auth session
    coros,        \* coros[<<id, stage>>]: coroutines for id suspended at that co_await
    files,        \* the ids whose .desktop file exists
    wallet        \* entries of the wallet's "Passwords" folder

credentialsVars == <<waiting, sessions>>
kioVars == <<credentialsVars, coros, files, wallet>>

(* "<account>_<service>": names the desktop file and the network attachment. *)
UniqueId == Account \X Service

DavId == Account \X DavService

(* A createNetAttach that awaits its GetCredentialsJob is known by the job: for    *)
(* which place it is, and whether it has a handle of the account or a null pointer. *)
Request == UniqueId \X BOOLEAN

Credentials == INSTANCE GetCredentialsJob

(* The other co_awaits: the wallet ("wallet") and the realm probe ("realm") of a   *)
(* createNetAttach, and the wallet of a removeNetAttach ("unmount").               *)
Stage == {"wallet", "realm", "unmount"}

(* A wallet entry "<scheme>-<login>:-1-<key>": the key is the HTTP realm of the   *)
(* server or the word "webdav".                                                   *)
Entry == [scheme : {"webdav", "webdavs"}, login : Login, key : {"realm", "webdav"}]

KioTypeOK ==
    /\ Credentials!TypeOK
    /\ coros \in [UniqueId \X Stage -> Nat]
    /\ files \in SUBSET UniqueId
    /\ wallet \in SUBSET Entry

KioInit ==
    /\ Credentials!Init
    /\ coros = [await \in UniqueId \X Stage |-> 0]
    /\ files = {}
    /\ wallet = {}

isEnabled(id) == id \in files

(* A coroutine of id goes from one co_await to the next. *)
Resume(id, from, to) ==
    /\ coros[<<id, from>>] > 0
    /\ coros' = [coros EXCEPT ![<<id, from>>] = @ - 1, ![<<id, to>>] = @ + 1]

(* Mutant of Return: one answer resumes a coroutine twice. *)
ReturnTwice(id, from) ==
    /\ coros[<<id, from>>] > 0
    /\ coros' = [coros EXCEPT ![<<id, from>>] = @ - 2]

(* A coroutine of id resumes and runs to its end. *)
Return(id, from) ==
    /\ coros[<<id, from>>] > 0
    /\ coros' = [coros EXCEPT ![<<id, from>>] = @ - 1]

--------------------------------------------------------------------------------
(* The slots.  n is the number of times the daemon calls the slot for one event   *)
(* (once per monitored handle); no call changes the files, so all n of them take  *)
(* the same branch.                                                               *)

(* createNetAttach up to its first co_await.  hasHandle: whether                  *)
(* Manager::account() still finds the account.                                    *)
enableService(Ids, hasHandle, n) ==
    /\ Credentials!start(Ids \X {hasHandle}, n)
    /\ UNCHANGED <<coros, files, wallet>>

(* removeNetAttach up to its co_await: nothing but the wallet is asked for yet. *)
disableService(Ids, n) ==
    /\ coros' = [await \in UniqueId \X Stage |->
                    coros[await] + IF await[1] \in Ids /\ await[2] = "unmount" THEN n ELSE 0]
    /\ UNCHANGED <<credentialsVars, files, wallet>>

(* Mutant of onAccountCreated: all services of the account, not the enabled ones. *)
onAccountCreatedAll(a, serviceList) ==
    enableService({id \in DavId : id[1] = a /\ ~isEnabled(id)}, TRUE, 1)

onAccountCreated(a, serviceList) ==
    enableService({id \in DavId : id[1] = a /\ id[2] \in serviceList /\ ~isEnabled(id)}, TRUE, 1)

(* Mutant of onAccountRemoved: skips the files that do start with the account id. *)
onAccountRemovedOthers(a) == disableService({id \in files : id[1] # a}, 1)

onAccountRemoved(a) == disableService({id \in files : id[1] = a}, 1)

(* Mutants of the next two slots: isEnabled is tested the wrong way round. *)
onServiceEnabledInverted(id, hasHandle, n) ==
    enableService({i \in DavId : i = id /\ isEnabled(i)}, hasHandle, n)

onServiceDisabledInverted(id, n) ==
    disableService({i \in DavId : i = id /\ ~isEnabled(i)}, n)

onServiceEnabled(id, hasHandle, n) ==
    enableService({i \in DavId : i = id /\ ~isEnabled(i)}, hasHandle, n)

onServiceDisabled(id, n) ==
    disableService({i \in DavId : i = id /\ isEnabled(i)}, n)

--------------------------------------------------------------------------------
(* The coroutines. *)

(* The job of a createNetAttach has ended with an error, and so does the coroutine.*)
CredentialsFailed(id, hasHandle) ==
    /\ Credentials!Answered(<<id, hasHandle>>)
    /\ UNCHANGED <<coros, files, wallet>>

(* The job has the credentials; with the handle it has, createNetAttach reads the  *)
(* account's settings and asks for the wallet.                                     *)
CredentialsFinished(id) ==
    /\ Credentials!Answered(<<id, TRUE>>)
    /\ coros' = [coros EXCEPT ![<<id, "wallet">>] = @ + 1]
    /\ UNCHANGED <<files, wallet>>

(* The wallet is open; getRealm starts its transfer job. *)
WalletOpened(id) ==
    /\ Resume(id, "wallet", "realm")
    /\ UNCHANGED <<credentialsVars, files, wallet>>

WalletRefused(id) ==
    /\ Return(id, "wallet")
    /\ UNCHANGED <<credentialsVars, files, wallet>>

(* The place and its passwords are written, one of them only when the server      *)
(* named a realm.  Neither the account nor its enabled services are read again.   *)
RealmFetched(id, hasRealm) ==
    /\ Return(id, "realm")
    /\ files' = files \cup {id}
    /\ wallet' = wallet \cup
          [scheme : {"webdavs"}, login : {LoginOf[id[1]]},
           key : {"webdav"} \cup IF hasRealm THEN {"realm"} ELSE {}]
    /\ UNCHANGED credentialsVars

(* Mutant of UnmountWalletOpened: returns where the file exists. *)
UnmountKeepsFile(id) ==
    /\ Return(id, "unmount")
    /\ UNCHANGED <<credentialsVars, files, wallet>>

(* Mutant of UnmountWalletOpened: looks for the scheme of the mounted URL, and so  *)
(* takes the password that another account's place on the same login still needs. *)
UnmountSameScheme(id) ==
    /\ Return(id, "unmount")
    /\ files' = files \ {id}
    /\ wallet' = IF id \in files
                 THEN {e \in wallet : e.login # LoginOf[id[1]]}
                 ELSE wallet
    /\ UNCHANGED credentialsVars

(* removeNetAttach with an open wallet.  When the file has gone meanwhile it      *)
(* returns; otherwise file and matching wallet entries are removed.               *)
UnmountWalletOpened(id) ==
    /\ Return(id, "unmount")
    /\ files' = files \ {id}
    /\ wallet' = IF id \in files
                 THEN {e \in wallet : ~(e.scheme = "webdav" /\ e.login = LoginOf[id[1]])}
                 ELSE wallet
    /\ UNCHANGED credentialsVars

UnmountWalletRefused(id) ==
    /\ Return(id, "unmount")
    /\ UNCHANGED <<credentialsVars, files, wallet>>

(* No createNetAttach of id awaits credentials. *)
NoRequest(id) == \A hasHandle \in BOOLEAN : Credentials!Idle(<<id, hasHandle>>)

(* No coroutine of an account is suspended. *)
NoCoroutine(a) ==
    \A s \in Service :
       NoRequest(<<a, s>>) /\ \A stage \in Stage : coros[<<<<a, s>>, stage>>] = 0

(* Every mounted place has its password under the scheme and login of its URL.    *)
(* Places of several accounts may share one login, and entries are removed by     *)
(* login, so an unmount can take the password of another place along              *)
(* (kioservices.cpp:194-211 and 275-289).                                         *)
MountHasPassword ==
    \A id \in files : [scheme |-> "webdavs", login |-> LoginOf[id[1]], key |-> "webdav"] \in wallet
================================================================================
