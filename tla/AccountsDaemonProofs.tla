--------------------------- MODULE AccountsDaemonProofs ---------------------------
(* Theorems about the accounts daemon and its WebDAV plugin, for any accounts,     *)
(* services, logins and bounds, with overlapping changes, failures and restarts.   *)
EXTENDS AccountsDaemon, TLAPS

--------------------------------------------------------------------------------
(* Type correctness. *)

(* The steps of the credentials jobs keep their types. *)
LEMMA CredentialsType ==
    ASSUME Credentials!TypeOK
    PROVE  /\ \A Rs, n : n \in Nat /\ Credentials!start(Rs, n) => Credentials!TypeOK'
           /\ \A r \in Request, tries \in Credentials!Tries : \A found, complete :
                 Credentials!getCredentials(r, tries, found, complete) => Credentials!TypeOK'
           /\ \A r \in Request : Credentials!Answered(r) => Credentials!TypeOK'
<1>1. ASSUME NEW Rs, NEW n \in Nat, Credentials!start(Rs, n) PROVE Credentials!TypeOK'
  BY <1>1 DEF Credentials!TypeOK, Credentials!start
<1>2. ASSUME NEW r \in Request, NEW tries \in Credentials!Tries, NEW found, NEW complete,
             Credentials!getCredentials(r, tries, found, complete)
      PROVE  Credentials!TypeOK'
  <2>1. waiting[<<r, tries>>] \in Nat \ {0} /\ sessions[r] \in Nat
    BY <1>2 DEF Credentials!TypeOK, Credentials!getCredentials
  <2>2. CASE /\ waiting' = [waiting EXCEPT ![<<r, tries>>] = @ - 1, ![<<r, tries + 1>>] = @ + 1]
             /\ tries < Credentials!MaxTries /\ UNCHANGED sessions
    <3>1. <<r, tries + 1>> \in Request \X Credentials!Tries
      BY <2>2 DEF Credentials!Tries, Credentials!MaxTries
    <3>a. <<r, tries>> # <<r, tries + 1>> /\ waiting[<<r, tries + 1>>] \in Nat
      BY <3>1 DEF Credentials!Tries, Credentials!TypeOK
    <3>2. waiting' \in [Request \X Credentials!Tries -> Nat]
      <4>1. waiting[<<r, tries>>] - 1 \in Nat /\ waiting[<<r, tries + 1>>] + 1 \in Nat
        BY <2>1, <3>a
      <4>2. waiting' = [w \in Request \X Credentials!Tries |->
                           IF w = <<r, tries>> THEN waiting[<<r, tries>>] - 1
                           ELSE IF w = <<r, tries + 1>> THEN waiting[<<r, tries + 1>>] + 1
                           ELSE waiting[w]]
        BY <2>2, <3>1, <3>a DEF Credentials!TypeOK
      <4>3. QED
        BY <4>1, <4>2 DEF Credentials!TypeOK
    <3>3. QED
      BY <2>2, <3>2 DEF Credentials!TypeOK
  <2>3. CASE /\ waiting' = [waiting EXCEPT ![<<r, tries>>] = @ - 1]
             /\ sessions' = sessions \/ sessions' = [sessions EXCEPT ![r] = @ + 1]
    BY <2>1, <2>3 DEF Credentials!TypeOK
  <2>4. QED
    BY <1>2, <2>2, <2>3 DEF Credentials!getCredentials
<1>3. ASSUME NEW r \in Request, Credentials!Answered(r) PROVE Credentials!TypeOK'
  BY <1>3 DEF Credentials!TypeOK, Credentials!Answered
<1>4. QED
  BY <1>1, <1>2, <1>3

(* The bookkeeping of suspended coroutines keeps its type. *)
LEMMA ResumeType ==
    ASSUME KioTypeOK, NEW id \in UniqueId, NEW from \in Stage, NEW to \in Stage, from # to,
           Resume(id, from, to)
    PROVE  coros' \in [UniqueId \X Stage -> Nat]
BY DEF KioTypeOK, Resume

LEMMA ReturnType ==
    ASSUME KioTypeOK, NEW id \in UniqueId, NEW from \in Stage, Return(id, from)
    PROVE  coros' \in [UniqueId \X Stage -> Nat]
BY DEF KioTypeOK, Return

(* The jobs' types need nothing but their own variables. *)
LEMMA CredentialsFrame ==
    ASSUME Credentials!TypeOK, UNCHANGED credentialsVars
    PROVE  Credentials!TypeOK'
BY DEF Credentials!TypeOK, credentialsVars

(* The slots of the plugin keep the plugin's types. *)
LEMMA SlotType ==
    ASSUME KioTypeOK, NEW Ids, NEW n \in Nat
    PROVE  /\ disableService(Ids, n) => KioTypeOK'
           /\ \A hasHandle \in BOOLEAN : enableService(Ids, hasHandle, n) => KioTypeOK'
<1>1. ASSUME disableService(Ids, n) PROVE KioTypeOK'
  <2>1. UNCHANGED <<files, wallet>> /\ Credentials!TypeOK'
    BY <1>1, CredentialsFrame DEF disableService, KioTypeOK
  <2>2. coros' \in [UniqueId \X Stage -> Nat]
    BY <1>1 DEF disableService, KioTypeOK
  <2>3. QED
    BY <2>1, <2>2 DEF KioTypeOK
<1>2. ASSUME NEW hasHandle \in BOOLEAN, enableService(Ids, hasHandle, n) PROVE KioTypeOK'
  <2>1. Credentials!start(Ids \X {hasHandle}, n) /\ UNCHANGED <<coros, files, wallet>>
    BY <1>2 DEF enableService
  <2>2. Credentials!TypeOK'
    BY <2>1, CredentialsType DEF KioTypeOK
  <2>3. QED
    BY <2>1, <2>2 DEF KioTypeOK
<1>3. QED
  BY <1>1, <1>2

(* The coroutine steps of the plugin keep the plugin's types. *)
LEMMA CoroutineType ==
    ASSUME KioTypeOK, NEW id \in UniqueId,
           \/ CredentialsLookup(id) \/ CredentialsError(id) \/ CredentialsFinished(id)
           \/ WalletAnswer(id) \/ RealmAnswer(id) \/ UnmountAnswer(id)
    PROVE  KioTypeOK'
<1>a. \A hasHandle \in BOOLEAN : <<id, hasHandle>> \in Request
  BY DEF Request
<1>1. CASE CredentialsLookup(id) \/ CredentialsError(id)
  <2>1. UNCHANGED <<coros, files, wallet>>
    BY <1>1 DEF CredentialsLookup, CredentialsError, CredentialsFailed
  <2>2. Credentials!TypeOK'
    <3>1. CASE CredentialsLookup(id)
      <4>1. PICK hasHandle \in BOOLEAN, tries \in Credentials!Tries, complete \in {TRUE, ~Failures} :
               Credentials!getCredentials(<<id, hasHandle>>, tries,
                                          accounts[id[1]] = "live", complete)
        BY <3>1 DEF CredentialsLookup
      <4>2. QED
        BY <1>a, <4>1, CredentialsType DEF KioTypeOK
    <3>2. CASE CredentialsError(id)
      BY <1>a, <3>2, CredentialsType DEF CredentialsError, CredentialsFailed, KioTypeOK
    <3>3. QED
      BY <1>1, <3>1, <3>2
  <2>3. QED
    BY <2>1, <2>2 DEF KioTypeOK
<1>6. CASE CredentialsFinished(id)
  <2>1. Credentials!TypeOK'
    BY <1>a, <1>6, CredentialsType DEF CredentialsFinished, KioTypeOK
  <2>2. coros' \in [UniqueId \X Stage -> Nat]
    BY <1>6 DEF CredentialsFinished, KioTypeOK, Stage
  <2>3. QED
    BY <1>6, <2>1, <2>2 DEF CredentialsFinished, KioTypeOK
<1>2. CASE WalletAnswer(id)
  <2>1. UNCHANGED <<credentialsVars, files, wallet>>
    BY <1>2 DEF WalletAnswer, WalletOpened, WalletRefused
  <2>2. coros' \in [UniqueId \X Stage -> Nat]
    BY <1>2, ResumeType, ReturnType DEF WalletAnswer, WalletOpened, WalletRefused, Stage
  <2>3. QED
    BY <2>1, <2>2, CredentialsFrame DEF KioTypeOK
<1>3. CASE RealmAnswer(id)
  <2>1. PICK hasRealm \in BOOLEAN : RealmFetched(id, hasRealm)
    BY <1>3 DEF RealmAnswer
  <2>2. coros' \in [UniqueId \X Stage -> Nat]
    BY <2>1, ReturnType DEF RealmFetched, Stage
  <2>3. id[1] \in Account
    BY DEF UniqueId
  <2>4. LoginOf[id[1]] \in Login
    BY <2>3, LoginAssumption
  <2>5. wallet' \in SUBSET Entry
    BY <2>1, <2>4 DEF RealmFetched, KioTypeOK, Entry
  <2>6. files' \in SUBSET UniqueId
    BY <2>1 DEF RealmFetched, KioTypeOK
  <2>7. Credentials!TypeOK'
    BY <2>1, CredentialsFrame DEF RealmFetched, KioTypeOK
  <2>8. QED
    BY <2>2, <2>5, <2>6, <2>7 DEF KioTypeOK
<1>4. CASE UnmountAnswer(id)
  <2>1. coros' \in [UniqueId \X Stage -> Nat]
    BY <1>4, ReturnType DEF UnmountAnswer, UnmountWalletOpened, UnmountWalletRefused, Stage
  <2>2. files' \in SUBSET UniqueId /\ wallet' \in SUBSET Entry
    BY <1>4 DEF UnmountAnswer, UnmountWalletOpened, UnmountWalletRefused, KioTypeOK
  <2>3. Credentials!TypeOK'
    BY <1>4, CredentialsFrame
       DEF UnmountAnswer, UnmountWalletOpened, UnmountWalletRefused, KioTypeOK
  <2>4. QED
    BY <2>1, <2>2, <2>3 DEF KioTypeOK
<1>5. QED
  BY <1>1, <1>2, <1>3, <1>4, <1>6

(* Appending a well-formed signal, and taking the first one. *)
LEMMA SignalsType ==
    ASSUME TypeOK, signals # <<>>
    PROVE  Head(signals) \in Signal /\ Tail(signals) \in Seq(Signal)
BY DEF TypeOK

(* A change of the database keeps every type. *)
LEMMA ChangeType ==
    ASSUME TypeOK, NEW a \in Account, NEW signal \in Signal, Change(a, signal),
           accounts' \in [Account -> {"absent", "live", "gone"}],
           enabled' \in SUBSET UniqueId
    PROVE  TypeOK'
<1>1. signals' \in Seq(Signal) /\ changes' \in Nat
  BY DEF TypeOK, Change
<1>2. KioTypeOK'
  BY CredentialsFrame DEF TypeOK, Change, KioTypeOK, kioVars
<1>3. QED
  BY <1>1, <1>2 DEF TypeOK, Change

(* The end of the process keeps every type. *)
LEMMA ProcessEndsType ==
    ASSUME TypeOK, ProcessEnds, daemon' \in {"starting", "crashed"}, restarts' \in Nat
    PROVE  TypeOK'
<1>1. KioTypeOK'
  BY DEF TypeOK, ProcessEnds, KioTypeOK, Credentials!TypeOK
<1>2. QED
  BY <1>1 DEF TypeOK, ProcessEnds, dbVars

(* A response resumes the coroutine, or finds its handle null. *)
LEMMA ResponseCases ==
    ASSUME NEW id \in UniqueId, CredentialsResponse(id)
    PROVE  \/ InEventLoop(CredentialsFinished(id))
           \/ daemon' = "crashed" /\ ProcessEnds /\ UNCHANGED restarts
BY DEF CredentialsResponse, InEventLoop

(* A step of a credentials job looks for the account or reports an error. *)
LEMMA CredentialsJobCases ==
    ASSUME NEW id \in UniqueId, InEventLoop(CredentialsJob(id))
    PROVE  InEventLoop(CredentialsLookup(id)) \/ InEventLoop(CredentialsError(id))
BY DEF CredentialsJob, InEventLoop

(* Every step of the specification keeps every type. *)
LEMMA TypeStep == TypeOK /\ [Next]_vars => TypeOK'
<1> SUFFICES ASSUME TypeOK, [Next]_vars PROVE TypeOK'
  OBVIOUS
<1>1. ASSUME NEW a \in Account, NEW S \in SUBSET Service, CreateAccount(a, S) PROVE TypeOK'
  <2> DEFINE signal == [kind |-> "created", account |-> a]
  <2>1. signal \in Signal
    BY DEF Signal
  <2>2. accounts' \in [Account -> {"absent", "live", "gone"}] /\ enabled' \in SUBSET UniqueId
    BY <1>1 DEF CreateAccount, TypeOK, UniqueId
  <2>3. QED
    BY <1>1, <2>1, <2>2, ChangeType DEF CreateAccount
<1>2. ASSUME NEW a \in Account, NEW s \in Service, ToggleService(a, s) PROVE TypeOK'
  <2> DEFINE signal == [kind |-> IF <<a, s>> \notin enabled THEN "enabled" ELSE "disabled",
                        account |-> a, service |-> s]
  <2>1. signal \in Signal
    BY DEF Signal
  <2>2. accounts' \in [Account -> {"absent", "live", "gone"}] /\ enabled' \in SUBSET UniqueId
    BY <1>2 DEF ToggleService, TypeOK, UniqueId
  <2>3. QED
    BY <1>2, <2>1, <2>2, ChangeType DEF ToggleService
<1>3. ASSUME NEW a \in Account, RemoveAccount(a) PROVE TypeOK'
  <2> DEFINE signal == [kind |-> "removed", account |-> a]
  <2>1. signal \in Signal
    BY DEF Signal
  <2>2. accounts' \in [Account -> {"absent", "live", "gone"}] /\ enabled' \in SUBSET UniqueId
    BY <1>3 DEF RemoveAccount, TypeOK
  <2>3. QED
    BY <1>3, <2>1, <2>2, ChangeType DEF RemoveAccount
<1>4. CASE StartDaemon
  <2>1. monitors' \in [Account -> Nat]
    BY <1>4 DEF StartDaemon, TypeOK
  <2>2. QED
    BY <1>4, <2>1, CredentialsFrame DEF StartDaemon, TypeOK, KioTypeOK, kioVars, dbVars
<1>5. CASE accountCreated
  <2> DEFINE a == Head(signals).account
             S == {s \in Service : <<a, s>> \in enabled}
  <2>1. signals # <<>> /\ Head(signals).kind = "created"
    BY <1>5 DEF accountCreated, Receive
  <2>2. a \in Account /\ Tail(signals) \in Seq(Signal)
    BY <2>1, SignalsType DEF Signal
  <2>3. CASE accounts[a] = "live"
    <3>1. onAccountCreated(a, S) /\ Dispatched /\ monitors' = [monitors EXCEPT ![a] = @ + 1]
      BY <1>5, <2>3 DEF accountCreated
    <3>2. KioTypeOK'
      BY <3>1, SlotType DEF onAccountCreated, TypeOK
    <3>3. monitors' \in [Account -> Nat]
      BY <3>1, <2>2 DEF TypeOK
    <3>4. QED
      BY <3>1, <3>2, <3>3, <2>2 DEF Dispatched, TypeOK, dbVars
  <2>4. CASE accounts[a] # "live"
    BY <1>5, <2>4, ProcessEndsType DEF accountCreated, TypeOK
  <2>5. QED
    BY <2>3, <2>4
<1>6. CASE accountRemoved
  <2>1. Tail(signals) \in Seq(Signal)
    BY <1>6, SignalsType DEF accountRemoved, Receive
  <2>2. KioTypeOK'
    BY <1>6, SlotType DEF accountRemoved, onAccountRemoved, TypeOK
  <2>3. QED
    BY <1>6, <2>1, <2>2 DEF accountRemoved, Dispatched, TypeOK, dbVars
<1>7. CASE enabledChanged
  <2> DEFINE a == Head(signals).account
             id == <<a, Head(signals).service>>
  <2>1. signals # <<>> /\ Head(signals).kind \in {"enabled", "disabled"}
    BY <1>7 DEF enabledChanged, Receive
  <2>2. a \in Account /\ Tail(signals) \in Seq(Signal)
    BY <2>1, SignalsType DEF Signal
  <2>3. monitors[a] \in Nat
    BY <2>2 DEF TypeOK
  <2>4. \/ onServiceEnabled(id, accounts[a] = "live", monitors[a])
        \/ onServiceDisabled(id, monitors[a])
    BY <1>7 DEF enabledChanged
  <2>5. (accounts[a] = "live") \in BOOLEAN
    OBVIOUS
  <2>6. KioTypeOK'
    BY <2>3, <2>4, <2>5, SlotType DEF onServiceEnabled, onServiceDisabled, TypeOK
  <2>7. QED
    BY <1>7, <2>2, <2>6 DEF enabledChanged, Dispatched, TypeOK, dbVars
<1>8. CASE Restart
  BY <1>8, ProcessEndsType DEF Restart, TypeOK
<1>9. ASSUME NEW id \in UniqueId,
             \/ InEventLoop(CredentialsLookup(id))
             \/ InEventLoop(CredentialsError(id))
             \/ CredentialsResponse(id)
             \/ InEventLoop(WalletAnswer(id))
             \/ InEventLoop(RealmAnswer(id))
             \/ InEventLoop(UnmountAnswer(id))
      PROVE  TypeOK'
  <2>1. CASE daemon' = "crashed" /\ ProcessEnds /\ UNCHANGED restarts
    BY <2>1, ProcessEndsType DEF TypeOK
  <2>2. CASE \/ InEventLoop(CredentialsLookup(id)) \/ InEventLoop(CredentialsError(id))
             \/ InEventLoop(CredentialsFinished(id)) \/ InEventLoop(WalletAnswer(id))
             \/ InEventLoop(RealmAnswer(id)) \/ InEventLoop(UnmountAnswer(id))
    <3>1. UNCHANGED <<dbVars, daemonVars>>
      BY <2>2 DEF InEventLoop
    <3>2. KioTypeOK'
      BY <2>2, CoroutineType DEF InEventLoop, TypeOK
    <3>3. QED
      BY <3>1, <3>2 DEF TypeOK, dbVars, daemonVars
  <2>3. QED
    BY <1>9, <2>1, <2>2, ResponseCases
<1>10. CASE UNCHANGED vars
  BY <1>10, CredentialsFrame DEF vars, kioVars, dbVars, daemonVars, TypeOK, KioTypeOK
<1>11. QED
  BY <1>1, <1>2, <1>3, <1>4, <1>5, <1>6, <1>7, <1>8, <1>9, <1>10, CredentialsJobCases
    DEF Next, Dispatch

(* Every reachable state of the daemon and the plugin is well typed. *)
THEOREM TypeCorrect == Spec => []TypeOK
<1>1. Init => TypeOK
  BY DEF Init, TypeOK, KioInit, KioTypeOK, Credentials!Init, Credentials!TypeOK
<1>2. QED
  BY <1>1, TypeStep, PTL DEF Spec

--------------------------------------------------------------------------------
(* Passwords of mounted places. *)

(* Only two coroutine steps touch files or wallet, and they leave the database. *)
LEMMA WalletFrame ==
    ASSUME [Next]_vars
    PROVE  \/ UNCHANGED <<files, wallet>>
           \/ /\ UNCHANGED enabled
              /\ \E id \in UniqueId : \/ \E hasRealm \in BOOLEAN : RealmFetched(id, hasRealm)
                                      \/ UnmountWalletOpened(id)
<1>1. CASE \E a \in Account : \/ \E S \in SUBSET Service : CreateAccount(a, S)
                              \/ \E s \in Service : ToggleService(a, s)
                              \/ RemoveAccount(a)
  BY <1>1 DEF CreateAccount, ToggleService, RemoveAccount, Change, kioVars
<1>2. CASE StartDaemon \/ Restart
  BY <1>2 DEF StartDaemon, Restart, ProcessEnds, kioVars
<1>3. CASE Dispatch
  BY <1>3 DEF Dispatch, accountCreated, accountRemoved, enabledChanged, onAccountCreated,
       onAccountRemoved, onServiceEnabled, onServiceDisabled, enableService, disableService,
       ProcessEnds
<1>4. ASSUME NEW id \in UniqueId,
             \/ InEventLoop(CredentialsLookup(id))
             \/ InEventLoop(CredentialsError(id))
             \/ CredentialsResponse(id)
             \/ InEventLoop(WalletAnswer(id))
             \/ InEventLoop(RealmAnswer(id))
             \/ InEventLoop(UnmountAnswer(id))
      PROVE  \/ UNCHANGED <<files, wallet>>
             \/ /\ UNCHANGED enabled
                /\ \/ \E hasRealm \in BOOLEAN : RealmFetched(id, hasRealm)
                   \/ UnmountWalletOpened(id)
  BY <1>4, ResponseCases DEF InEventLoop, dbVars, CredentialsLookup, CredentialsError,
     WalletAnswer, RealmAnswer, UnmountAnswer, CredentialsFailed, CredentialsFinished,
     WalletOpened, WalletRefused, UnmountWalletRefused, ProcessEnds
<1>5. CASE UNCHANGED vars
  BY <1>5 DEF vars, kioVars
<1>6. QED
  BY <1>1, <1>2, <1>3, <1>4, <1>5, CredentialsJobCases DEF Next

(* Whatever overlaps, fails or restarts, and however many accounts share a login, *)
(* every mounted place keeps a password in the wallet (kioservices.cpp:194-211,   *)
(* 275-289): an unmount looks for entries of another scheme than a mount writes.  *)
THEOREM MountsKeepPasswords == Spec => []MountHasPassword
<1>1. Init => MountHasPassword
  BY DEF Init, KioInit, MountHasPassword
<1>2. MountHasPassword /\ [Next]_vars => MountHasPassword'
  <2> SUFFICES ASSUME MountHasPassword, [Next]_vars PROVE MountHasPassword'
    OBVIOUS
  <2>1. CASE UNCHANGED <<files, wallet>>
    BY <2>1 DEF MountHasPassword
  <2>2. ASSUME NEW id \in UniqueId, NEW hasRealm \in BOOLEAN, RealmFetched(id, hasRealm)
        PROVE  MountHasPassword'
    BY <2>2 DEF MountHasPassword, RealmFetched
  <2>3. ASSUME NEW id \in UniqueId, UnmountWalletOpened(id)
        PROVE  MountHasPassword'
    BY <2>3 DEF MountHasPassword, UnmountWalletOpened
  <2>4. QED
    BY <2>1, <2>2, <2>3, WalletFrame
<1>3. QED
  BY <1>1, <1>2, PTL DEF Spec

--------------------------------------------------------------------------------
(* Monitoring. *)

(* A signal in flight survives an append, and a dispatch unless it is the first.  *)
LEMMA InFlightAppend ==
    ASSUME TypeOK, NEW signal \in Signal, signals' = Append(signals, signal),
           NEW kind, NEW a \in Account
    PROVE  /\ InFlight(kind, a) => InFlight(kind, a)'
           /\ signal.kind = kind /\ signal.account = a => InFlight(kind, a)'
BY DEF TypeOK, InFlight

LEMMA InFlightTail ==
    ASSUME TypeOK, signals # <<>>, signals' = Tail(signals), NEW kind, NEW a \in Account,
           InFlight(kind, a), ~(Head(signals).kind = kind /\ Head(signals).account = a)
    PROVE  InFlight(kind, a)'
<1>1. PICK i \in DOMAIN signals : signals[i].kind = kind /\ signals[i].account = a
  BY DEF InFlight
<1>2. i # 1 /\ i \in 1..Len(signals) /\ Len(signals) \in Nat
  BY <1>1 DEF TypeOK
<1>3. i - 1 \in DOMAIN Tail(signals) /\ Tail(signals)[i - 1] = signals[i]
  BY <1>2 DEF TypeOK
<1>4. QED
  BY <1>1, <1>3 DEF InFlight

(* A committed change keeps what is in flight while the daemon runs. *)
LEMMA ChangeInFlight ==
    ASSUME TypeOK, NEW b \in Account, NEW signal \in Signal, Change(b, signal),
           daemon = "running", NEW kind, NEW a \in Account
    PROVE  /\ InFlight(kind, a) => InFlight(kind, a)'
           /\ signal.kind = kind /\ signal.account = a => InFlight(kind, a)'
           /\ UNCHANGED <<daemon, monitors>>
BY InFlightAppend DEF Change

(* No live account is missed by a running daemon, however the creation of         *)
(* accounts, the queued startDaemon and the signals interleave                    *)
(* (kded_accounts.cpp:27-32, 57-63, 78-81).                                       *)
THEOREM LiveAccountsMonitored == Spec => []NoAccountUnmonitored
<1>1. Init => NoAccountUnmonitored
  BY DEF Init, NoAccountUnmonitored
<1>2. TypeOK /\ NoAccountUnmonitored /\ [Next]_vars => NoAccountUnmonitored'
  <2> SUFFICES ASSUME TypeOK, NoAccountUnmonitored, [Next]_vars,
                      daemon' = "running", NEW a \in Account, accounts'[a] = "live"
               PROVE  monitors'[a] > 0 \/ InFlight("created", a)'
    BY DEF NoAccountUnmonitored
  <2> DEFINE Reached == monitors[a] > 0 \/ InFlight("created", a)
  <2>1. ASSUME NEW b \in Account, NEW S \in SUBSET Service, CreateAccount(b, S)
        PROVE  monitors'[a] > 0 \/ InFlight("created", a)'
    <3> DEFINE signal == [kind |-> "created", account |-> b]
    <3>1. signal \in Signal /\ Change(b, signal) /\ daemon = "running"
      BY <2>1 DEF CreateAccount, Change, Signal
    <3>2. CASE a = b
      BY <3>1, <3>2, ChangeInFlight
    <3>3. CASE a # b
      <4>1. accounts[a] = "live"
        BY <2>1, <3>3 DEF CreateAccount, TypeOK
      <4>2. Reached
        BY <4>1, <3>1 DEF NoAccountUnmonitored
      <4>3. QED
        BY <4>2, <3>1, ChangeInFlight
    <3>4. QED
      BY <3>2, <3>3
  <2>2. ASSUME NEW b \in Account, NEW s \in Service, ToggleService(b, s)
        PROVE  monitors'[a] > 0 \/ InFlight("created", a)'
    <3> DEFINE signal == [kind |-> IF <<b, s>> \notin enabled THEN "enabled" ELSE "disabled",
                          account |-> b, service |-> s]
    <3>1. signal \in Signal /\ Change(b, signal) /\ daemon = "running"
      BY <2>2 DEF ToggleService, Change, Signal
    <3>2. Reached
      BY <2>2, <3>1 DEF ToggleService, NoAccountUnmonitored
    <3>3. QED
      BY <3>1, <3>2, ChangeInFlight
  <2>3. ASSUME NEW b \in Account, RemoveAccount(b)
        PROVE  monitors'[a] > 0 \/ InFlight("created", a)'
    <3> DEFINE signal == [kind |-> "removed", account |-> b]
    <3>1. signal \in Signal /\ Change(b, signal) /\ daemon = "running"
      BY <2>3 DEF RemoveAccount, Change, Signal
    <3>2. accounts[a] = "live"
      BY <2>3 DEF RemoveAccount, TypeOK
    <3>3. Reached
      BY <3>1, <3>2 DEF NoAccountUnmonitored
    <3>4. QED
      BY <3>1, <3>3, ChangeInFlight
  <2>4. CASE StartDaemon
    BY <2>4 DEF StartDaemon, TypeOK, dbVars
  <2>5. CASE accountCreated
    <3> DEFINE b == Head(signals).account
    <3>1. /\ signals # <<>> /\ Head(signals).kind = "created" /\ b \in Account
          /\ accounts[b] = "live" /\ monitors' = [monitors EXCEPT ![b] = @ + 1] /\ Dispatched
      BY <2>5, SignalsType DEF accountCreated, Receive, Signal
    <3>2. CASE a = b
      BY <3>1, <3>2 DEF TypeOK
    <3>3. CASE a # b
      <4>1. Reached
        BY <3>1 DEF Dispatched, dbVars, NoAccountUnmonitored
      <4>2. InFlight("created", a) => InFlight("created", a)'
        BY <3>1, <3>3, InFlightTail DEF Dispatched
      <4>3. QED
        BY <4>1, <4>2, <3>1, <3>3 DEF TypeOK
    <3>4. QED
      BY <3>2, <3>3
  <2>6. CASE accountRemoved \/ enabledChanged
    <3>1. /\ signals # <<>> /\ Head(signals).kind # "created"
          /\ Dispatched /\ UNCHANGED monitors
      BY <2>6 DEF accountRemoved, enabledChanged, Receive
    <3>2. Reached
      BY <3>1 DEF Dispatched, dbVars, NoAccountUnmonitored
    <3>3. InFlight("created", a) => InFlight("created", a)'
      BY <3>1, InFlightTail DEF Dispatched
    <3>4. QED
      BY <3>1, <3>2, <3>3
  <2>7. CASE Restart
    BY <2>7 DEF Restart
  <2>8. CASE UNCHANGED <<dbVars, daemonVars>>
    BY <2>8 DEF NoAccountUnmonitored, InFlight, dbVars, daemonVars
  <2>9. ASSUME NEW id \in UniqueId, CredentialsResponse(id)
        PROVE  daemon' = "crashed" \/ UNCHANGED <<dbVars, daemonVars>>
    BY <2>9, ResponseCases DEF InEventLoop
  <2>10. QED
    BY <2>1, <2>2, <2>3, <2>4, <2>5, <2>6, <2>7, <2>8, <2>9
       DEF Next, Dispatch, InEventLoop, vars
<1>3. QED
  BY <1>1, <1>2, TypeCorrect, PTL DEF Spec

--------------------------------------------------------------------------------
(* Without overlapping changes the daemon implements the mount registry. *)

(* The counts after more unmounts have started. *)
LEMMA UnmountValue ==
    ASSUME KioTypeOK, NEW Ids, NEW n \in Nat, disableService(Ids, n),
           NEW id \in UniqueId, NEW st \in Stage
    PROVE  coros'[<<id, st>>] > 0 => coros[<<id, st>>] > 0 \/ (id \in Ids /\ st = "unmount")
<1>1. coros'[<<id, st>>] = coros[<<id, st>>] + IF id \in Ids /\ st = "unmount" THEN n ELSE 0
  BY DEF disableService
<1>2. coros[<<id, st>>] \in Nat
  BY DEF KioTypeOK
<1>3. QED
  BY <1>1, <1>2

(* start() gives jobs only to those it is called for. *)
LEMMA StartIdle ==
    ASSUME Credentials!TypeOK, NEW Rs, NEW n \in Nat, Credentials!start(Rs, n),
           NEW r \in Request, r \notin Rs, Credentials!Idle(r)
    PROVE  Credentials!Idle(r)'
BY DEF Credentials!TypeOK, Credentials!start, Credentials!Idle, Credentials!Tries

(* The other steps of a job start none. *)
LEMMA JobSteps ==
    ASSUME Credentials!TypeOK, NEW r \in Request,
           \/ Credentials!Answered(r)
           \/ \E tries \in Credentials!Tries, found, complete \in BOOLEAN :
                 Credentials!getCredentials(r, tries, found, complete),
           NEW x \in Request, Credentials!Idle(x)
    PROVE  Credentials!Idle(x)'
<1>1. CASE Credentials!Answered(r)
  BY <1>1 DEF Credentials!TypeOK, Credentials!Answered, Credentials!Idle
<1>2. ASSUME NEW tries \in Credentials!Tries, NEW found \in BOOLEAN, NEW complete \in BOOLEAN,
             Credentials!getCredentials(r, tries, found, complete)
      PROVE  Credentials!Idle(x)'
  <2>1. x # r
    BY <1>2 DEF Credentials!getCredentials, Credentials!Idle
  <2>2. sessions'[x] = sessions[x]
    BY <1>2, <2>1 DEF Credentials!getCredentials, Credentials!TypeOK
  <2>3. \A t \in Credentials!Tries : waiting'[<<x, t>>] = waiting[<<x, t>>]
    BY <1>2, <2>1 DEF Credentials!getCredentials, Credentials!TypeOK
  <2>4. QED
    BY <2>2, <2>3 DEF Credentials!Idle
<1>3. QED
  BY <1>1, <1>2

(* A step of a createNetAttach that awaits credentials starts no other. *)
LEMMA RequestsShrink ==
    ASSUME TypeOK, NEW id \in UniqueId,
           CredentialsLookup(id) \/ CredentialsError(id) \/ CredentialsFinished(id),
           NEW i \in UniqueId, NoRequest(i)
    PROVE  NoRequest(i)'
<1>1. Credentials!TypeOK /\ \A h \in BOOLEAN : <<id, h>> \in Request /\ <<i, h>> \in Request
  BY DEF TypeOK, KioTypeOK, Request
<1>2. PICK h \in BOOLEAN :
         \/ Credentials!Answered(<<id, h>>)
         \/ \E tries \in Credentials!Tries, found, complete \in BOOLEAN :
               Credentials!getCredentials(<<id, h>>, tries, found, complete)
  <2>1. CASE CredentialsLookup(id)
    <3>1. PICK h \in BOOLEAN, tries \in Credentials!Tries, complete \in {TRUE, ~Failures} :
             Credentials!getCredentials(<<id, h>>, tries, accounts[id[1]] = "live", complete)
      BY <2>1 DEF CredentialsLookup
    <3>2. (accounts[id[1]] = "live") \in BOOLEAN /\ complete \in BOOLEAN
      BY SwitchAssumption
    <3>3. QED
      BY <3>1, <3>2
  <2>2. CASE CredentialsError(id) \/ CredentialsFinished(id)
    BY <2>2 DEF CredentialsError, CredentialsFailed, CredentialsFinished
  <2>3. QED
    BY <2>1, <2>2
<1>3. QED
  BY <1>1, <1>2, JobSteps DEF NoRequest

(* An answer to a suspended coroutine only moves it on, from a stage of the same  *)
(* direction: no coroutine starts for an id that had none.                        *)
LEMMA CoroutineMoves ==
    ASSUME TypeOK, NEW id \in UniqueId,
           \/ CredentialsLookup(id) \/ CredentialsError(id) \/ CredentialsFinished(id)
           \/ WalletAnswer(id) \/ RealmAnswer(id) \/ UnmountAnswer(id)
    PROVE  \A i \in UniqueId :
              /\ NoRequest(i) => NoRequest(i)'
              /\ \A stage \in {"wallet", "realm"} :
                    coros'[<<i, stage>>] > 0 =>
                       ~NoRequest(i) \/ \E s \in {"wallet", "realm"} : coros[<<i, s>>] > 0
              /\ coros'[<<i, "unmount">>] > 0 => coros[<<i, "unmount">>] > 0
<1> SUFFICES ASSUME NEW i \in UniqueId
             PROVE  /\ NoRequest(i) => NoRequest(i)'
                    /\ \A stage \in {"wallet", "realm"} :
                          coros'[<<i, stage>>] > 0 =>
                             ~NoRequest(i) \/ \E s \in {"wallet", "realm"} : coros[<<i, s>>] > 0
                    /\ coros'[<<i, "unmount">>] > 0 => coros[<<i, "unmount">>] > 0
  OBVIOUS
<1>a. coros \in [UniqueId \X Stage -> Nat] /\ \A stage \in Stage : <<i, stage>> \in UniqueId \X Stage
  BY DEF TypeOK, KioTypeOK
<1>1. CASE CredentialsLookup(id) \/ CredentialsError(id)
  <2>1. UNCHANGED coros
    BY <1>1 DEF CredentialsLookup, CredentialsError, CredentialsFailed
  <2>2. QED
    BY <1>1, <2>1, RequestsShrink
<1>2. CASE CredentialsFinished(id)
  <2>1. coros' = [coros EXCEPT ![<<id, "wallet">>] = @ + 1] /\ ~NoRequest(id)
    <3>1. sessions[<<id, TRUE>>] # 0
      BY <1>2 DEF CredentialsFinished, Credentials!Answered
    <3>2. ~NoRequest(id)
      BY <3>1 DEF NoRequest, Credentials!Idle
    <3>3. QED
      BY <1>2, <3>2 DEF CredentialsFinished
  <2>2. \A stage \in Stage : i # id \/ stage # "wallet" => coros'[<<i, stage>>] = coros[<<i, stage>>]
    BY <1>a, <2>1
  <2>3. QED
    BY <1>2, <2>1, <2>2, RequestsShrink DEF Stage
<1>3. CASE WalletOpened(id)
  <2>1. /\ coros' = [coros EXCEPT ![<<id, "wallet">>] = @ - 1, ![<<id, "realm">>] = @ + 1]
        /\ coros[<<id, "wallet">>] > 0
    BY <1>3 DEF WalletOpened, Resume
  <2>2. \A stage \in Stage : i # id \/ stage = "unmount" => coros'[<<i, stage>>] = coros[<<i, stage>>]
    BY <1>a, <2>1 DEF Stage
  <2>3. NoRequest(i) => NoRequest(i)'
    BY <1>3 DEF WalletOpened, NoRequest, Credentials!Idle, credentialsVars
  <2>4. QED
    BY <2>1, <2>2, <2>3 DEF Stage
<1>4. CASE \E from \in Stage : Return(id, from) /\ UNCHANGED credentialsVars
  <2>1. \A stage \in Stage : coros'[<<i, stage>>] > 0 => coros[<<i, stage>>] > 0
    BY <1>a, <1>4 DEF Return
  <2>2. NoRequest(i) => NoRequest(i)'
    BY <1>4 DEF NoRequest, Credentials!Idle, credentialsVars
  <2>3. QED
    BY <2>1, <2>2 DEF Stage
<1>5. QED
  BY <1>1, <1>2, <1>3, <1>4 DEF WalletAnswer, RealmAnswer, UnmountAnswer,
     WalletRefused, RealmFetched, UnmountWalletOpened, UnmountWalletRefused, Stage

(* What is in flight stays accurate when changes of an account wait for it. *)
LEMMA AccurateStep ==
    ASSUME ~Overlap, TypeOK, NothingStaleInFlight, [Next]_vars
    PROVE  NothingStaleInFlight'
<1> DEFINE Mounting == {"wallet", "realm"}
           Accurate(signal) ==
              /\ signal.kind = "enabled" => <<signal.account, signal.service>> \in enabled
              /\ signal.kind = "disabled" => <<signal.account, signal.service>> \notin enabled
              /\ signal.kind = "removed" => \A s \in Service : <<signal.account, s>> \notin enabled
           Aimed(id) ==
              /\ ~NoRequest(id) => id \in enabled \cap DavId
              /\ \A stage \in Mounting : coros[<<id, stage>>] > 0 => id \in enabled \cap DavId
              /\ coros[<<id, "unmount">>] > 0 => id \notin enabled
<1>a. (\A i \in DOMAIN signals : Accurate(signals[i])) /\ \A id \in UniqueId : Aimed(id)
  BY DEF NothingStaleInFlight
<1>b. SUFFICES (\A i \in DOMAIN signals' : Accurate(signals[i])') /\ \A id \in UniqueId : Aimed(id)'
  BY DEF NothingStaleInFlight
<1>c. ASSUME NEW a \in Account, NEW signal \in Signal, Change(a, signal), signal.account = a,
             \A id \in UniqueId : id[1] # a => (id \in enabled' <=> id \in enabled),
             Accurate(signal)'
      PROVE  (\A i \in DOMAIN signals' : Accurate(signals[i])') /\ \A id \in UniqueId : Aimed(id)'
  <2>1. /\ Quiet(a) /\ signals' = Append(signals, signal) /\ UNCHANGED coros
        /\ \A id \in UniqueId : NoRequest(id)' <=> NoRequest(id)
    BY <1>c DEF Change, Quiet, kioVars, credentialsVars, NoRequest, Credentials!Idle
  <2>2. ASSUME NEW i \in DOMAIN signals' PROVE Accurate(signals[i])'
    <3>1. CASE i = Len(signals) + 1
      <4>1. signals'[i] = signal
        BY <2>1, <3>1 DEF TypeOK
      <4>2. QED
        BY <1>c, <4>1
    <3>2. CASE i # Len(signals) + 1
      <4>1. i \in DOMAIN signals /\ signals'[i] = signals[i] /\ signals[i] \in Signal
        BY <2>1, <2>2, <3>2 DEF TypeOK
      <4>2. signals[i].account # a /\ signals[i].account \in Account
        BY <2>1, <4>1 DEF Quiet, Signal
      <4>3. \A s \in Service : <<signals[i].account, s>> \in enabled'
                                  <=> <<signals[i].account, s>> \in enabled
        BY <1>c, <4>2 DEF UniqueId
      <4>4. signals[i].kind \in {"enabled", "disabled"} => signals[i].service \in Service
        BY <4>1 DEF Signal
      <4>5. QED
        BY <1>a, <4>1, <4>3, <4>4
    <3>3. QED
      BY <3>1, <3>2
  <2>3. ASSUME NEW id \in UniqueId PROVE Aimed(id)'
    <3>1. CASE id[1] = a
      <4>1. PICK s \in Service : id = <<a, s>>
        BY <3>1 DEF UniqueId
      <4>2. NoRequest(id) /\ \A stage \in Stage : coros[<<id, stage>>] = 0
        BY <2>1, <4>1 DEF Quiet, NoCoroutine
      <4>3. QED
        BY <2>1, <4>2 DEF Stage
    <3>2. CASE id[1] # a
      BY <1>a, <1>c, <2>1, <3>2
    <3>3. QED
      BY <3>1, <3>2
  <2>4. QED
    BY <2>2, <2>3
<1>d. ASSUME signals # <<>>, Dispatched, \A id \in UniqueId : Aimed(id)'
      PROVE  (\A i \in DOMAIN signals' : Accurate(signals[i])') /\ \A id \in UniqueId : Aimed(id)'
  <2>1. ASSUME NEW i \in DOMAIN signals'
        PROVE  i + 1 \in DOMAIN signals /\ signals'[i] = signals[i + 1]
    BY <1>d, <2>1 DEF Dispatched, TypeOK
  <2>2. UNCHANGED enabled
    BY <1>d DEF Dispatched, dbVars
  <2>3. QED
    BY <1>a, <1>d, <2>1, <2>2
<1>e. ASSUME NEW Ids, NEW n \in Nat, disableService(Ids, n), UNCHANGED enabled,
             \A id \in UniqueId : id \in Ids => id \notin enabled
      PROVE  \A id \in UniqueId : Aimed(id)'
  <2> SUFFICES ASSUME NEW id \in UniqueId PROVE Aimed(id)'
    OBVIOUS
  <2>1. NoRequest(id)' <=> NoRequest(id)
    BY <1>e DEF disableService, credentialsVars, NoRequest, Credentials!Idle
  <2>2. \A stage \in Stage :
           coros'[<<id, stage>>] > 0 => coros[<<id, stage>>] > 0 \/ (id \in Ids /\ stage = "unmount")
    BY <1>e, UnmountValue DEF TypeOK
  <2>3. QED
    BY <1>a, <1>e, <2>1, <2>2 DEF Stage
<1>f. ASSUME NEW Ids, NEW n \in Nat, NEW hasHandle \in BOOLEAN,
             enableService(Ids, hasHandle, n), UNCHANGED enabled,
             \A id \in UniqueId : id \in Ids => id \in enabled \cap DavId
      PROVE  \A id \in UniqueId : Aimed(id)'
  <2> SUFFICES ASSUME NEW id \in UniqueId PROVE Aimed(id)'
    OBVIOUS
  <2>1. NoRequest(id) /\ id \notin Ids => NoRequest(id)'
    <3>1. SUFFICES ASSUME NoRequest(id), id \notin Ids, NEW h \in BOOLEAN
                   PROVE  Credentials!Idle(<<id, h>>)'
      BY DEF NoRequest
    <3>2. <<id, h>> \in Request /\ <<id, h>> \notin Ids \X {hasHandle} /\ Credentials!Idle(<<id, h>>)
      BY <3>1 DEF Request, NoRequest
    <3>3. QED
      BY <1>f, <3>2, StartIdle DEF enableService, TypeOK, KioTypeOK
  <2>2. UNCHANGED coros
    BY <1>f DEF enableService
  <2>3. QED
    BY <1>a, <1>f, <2>1, <2>2
<1>g. ASSUME ProcessEnds
      PROVE  (\A i \in DOMAIN signals' : Accurate(signals[i])') /\ \A id \in UniqueId : Aimed(id)'
  <2>1. \A id \in UniqueId : NoRequest(id)' /\ \A stage \in Stage : coros'[<<id, stage>>] = 0
    BY <1>g DEF ProcessEnds, NoRequest, Credentials!Idle, Request
  <2>2. QED
    BY <1>g, <2>1 DEF ProcessEnds, Stage
<1>1. ASSUME NEW a \in Account, NEW S \in SUBSET Service, CreateAccount(a, S)
      PROVE  (\A i \in DOMAIN signals' : Accurate(signals[i])') /\ \A id \in UniqueId : Aimed(id)'
  <2> DEFINE signal == [kind |-> "created", account |-> a]
  <2>1. signal \in Signal /\ Change(a, signal) /\ Accurate(signal)'
    BY <1>1 DEF CreateAccount, Signal
  <2>2. \A id \in UniqueId : id[1] # a => (id \in enabled' <=> id \in enabled)
    BY <1>1 DEF CreateAccount, UniqueId
  <2>3. QED
    BY <1>c, <2>1, <2>2
<1>2. ASSUME NEW a \in Account, NEW s \in Service, ToggleService(a, s)
      PROVE  (\A i \in DOMAIN signals' : Accurate(signals[i])') /\ \A id \in UniqueId : Aimed(id)'
  <2>1. PICK signal \in Signal :
           /\ Change(a, signal) /\ signal.account = a /\ signal.service = s
           /\ signal.kind = IF <<a, s>> \notin enabled THEN "enabled" ELSE "disabled"
    <3> DEFINE sig == [kind |-> IF <<a, s>> \notin enabled THEN "enabled" ELSE "disabled",
                       account |-> a, service |-> s]
    <3>1. sig \in Signal /\ Change(a, sig)
      BY <1>2 DEF ToggleService, Signal
    <3>2. QED
      BY <3>1
  <2>a. Accurate(signal)'
    <3>1. CASE <<a, s>> \in enabled
      <4>1. enabled' = enabled \ {<<a, s>>} /\ signal.kind = "disabled"
        BY <1>2, <2>1, <3>1 DEF ToggleService
      <4>2. QED
        BY <2>1, <4>1
    <3>2. CASE <<a, s>> \notin enabled
      <4>1. enabled' = enabled \cup {<<a, s>>} /\ signal.kind = "enabled"
        BY <1>2, <2>1, <3>2 DEF ToggleService
      <4>2. QED
        BY <2>1, <4>1
    <3>3. QED
      BY <3>1, <3>2
  <2>2. \A id \in UniqueId : id[1] # a => (id \in enabled' <=> id \in enabled)
    BY <1>2 DEF ToggleService, UniqueId
  <2>3. QED
    BY <1>c, <2>1, <2>a, <2>2
<1>3. ASSUME NEW a \in Account, RemoveAccount(a)
      PROVE  (\A i \in DOMAIN signals' : Accurate(signals[i])') /\ \A id \in UniqueId : Aimed(id)'
  <2> DEFINE signal == [kind |-> "removed", account |-> a]
  <2>1. signal \in Signal /\ Change(a, signal) /\ Accurate(signal)'
    BY <1>3 DEF RemoveAccount, Signal
  <2>2. \A id \in UniqueId : id[1] # a => (id \in enabled' <=> id \in enabled)
    BY <1>3 DEF RemoveAccount, UniqueId
  <2>3. QED
    BY <1>c, <2>1, <2>2
<1>4. CASE StartDaemon
  BY <1>4, <1>a DEF StartDaemon, kioVars, dbVars, credentialsVars, NoRequest, Credentials!Idle
<1>5. CASE accountCreated
  <2> DEFINE a == Head(signals).account
             Ids == {id \in DavId : id[1] = a /\ id[2] \in {s \in Service : <<a, s>> \in enabled}
                                     /\ ~isEnabled(id)}
  <2>1. CASE accounts[a] = "live"
    <3>1. enableService(Ids, TRUE, 1) /\ Dispatched /\ signals # <<>>
      BY <1>5, <2>1 DEF accountCreated, onAccountCreated, Receive
    <3>2. \A id \in UniqueId : id \in Ids => id \in enabled \cap DavId
      BY DEF UniqueId
    <3>3. \A id \in UniqueId : Aimed(id)'
      BY <1>f, <3>1, <3>2 DEF Dispatched, dbVars
    <3>4. QED
      BY <1>d, <3>1, <3>3
  <2>2. CASE accounts[a] # "live"
    BY <1>5, <1>g, <2>2 DEF accountCreated
  <2>3. QED
    BY <2>1, <2>2
<1>6. CASE accountRemoved
  <2> DEFINE Ids == {id \in files : id[1] = Head(signals).account}
  <2>1. disableService(Ids, 1) /\ Dispatched /\ signals # <<>> /\ Head(signals).kind = "removed"
    BY <1>6 DEF accountRemoved, onAccountRemoved, Receive
  <2>2. \A s \in Service : <<Head(signals).account, s>> \notin enabled
    <3>1. Head(signals) = signals[1] /\ 1 \in DOMAIN signals
      BY <2>1 DEF TypeOK
    <3>2. QED
      BY <1>a, <2>1, <3>1
  <2>3. \A id \in UniqueId : id \in Ids => id \notin enabled
    BY <2>2 DEF UniqueId
  <2>4. \A id \in UniqueId : Aimed(id)'
    BY <1>e, <2>1, <2>3 DEF Dispatched, dbVars
  <2>5. QED
    BY <1>d, <2>1, <2>4
<1>7. CASE enabledChanged
  <2> DEFINE a == Head(signals).account
             id == <<a, Head(signals).service>>
  <2>1. signals # <<>> /\ Head(signals).kind \in {"enabled", "disabled"} /\ Dispatched
    BY <1>7 DEF enabledChanged, Receive
  <2>2. Head(signals) = signals[1] /\ 1 \in DOMAIN signals /\ monitors[a] \in Nat
    BY <2>1, SignalsType DEF TypeOK, Signal
  <2>3. \A i \in UniqueId : Aimed(i)'
    <3>1. CASE Head(signals).kind = "enabled"
      <4> DEFINE Ids == {i \in DavId : i = id /\ ~isEnabled(i)}
      <4>1. enableService(Ids, accounts[a] = "live", monitors[a])
        BY <1>7, <2>1, <3>1 DEF enabledChanged, onServiceEnabled
      <4>2. id \in enabled /\ (accounts[a] = "live") \in BOOLEAN
        BY <1>a, <2>2, <3>1
      <4>3. UNCHANGED enabled
        BY <2>1 DEF Dispatched, dbVars
      <4>4. QED
        <5>1. \A i \in UniqueId : i \in Ids => i \in enabled \cap DavId
          BY <4>2
        <5> HIDE DEF Ids
        <5>2. QED
          BY <1>f, <2>2, <4>1, <4>2, <4>3, <5>1
    <3>2. CASE Head(signals).kind = "disabled"
      <4> DEFINE Ids == {i \in DavId : i = id /\ isEnabled(i)}
      <4>1. disableService(Ids, monitors[a])
        BY <1>7, <2>1, <3>2 DEF enabledChanged, onServiceDisabled
      <4>2. id \notin enabled
        BY <1>a, <2>2, <3>2
      <4>3. UNCHANGED enabled
        BY <2>1 DEF Dispatched, dbVars
      <4>4. QED
        <5>1. \A i \in UniqueId : i \in Ids => i \notin enabled
          BY <4>2
        <5> HIDE DEF Ids
        <5>2. QED
          BY <1>e, <2>2, <4>1, <4>3, <5>1
    <3>3. QED
      BY <2>1, <3>1, <3>2
  <2>4. QED
    BY <1>d, <2>1, <2>3
<1>8. CASE Restart
  BY <1>8, <1>g DEF Restart
<1>9. ASSUME NEW id \in UniqueId,
             \/ InEventLoop(CredentialsLookup(id))
             \/ InEventLoop(CredentialsError(id))
             \/ CredentialsResponse(id)
             \/ InEventLoop(WalletAnswer(id))
             \/ InEventLoop(RealmAnswer(id))
             \/ InEventLoop(UnmountAnswer(id))
      PROVE  (\A i \in DOMAIN signals' : Accurate(signals[i])') /\ \A i \in UniqueId : Aimed(i)'
  <2>1. CASE daemon' = "crashed" /\ ProcessEnds /\ UNCHANGED restarts
    BY <1>g, <2>1
  <2>2. CASE \/ InEventLoop(CredentialsLookup(id)) \/ InEventLoop(CredentialsError(id))
             \/ InEventLoop(CredentialsFinished(id)) \/ InEventLoop(WalletAnswer(id))
             \/ InEventLoop(RealmAnswer(id)) \/ InEventLoop(UnmountAnswer(id))
    <3>1. UNCHANGED <<enabled, signals>>
      BY <2>2 DEF InEventLoop, dbVars, daemonVars
    <3>2. \A i \in UniqueId :
             /\ NoRequest(i) => NoRequest(i)'
             /\ \A stage \in Mounting :
                   coros'[<<i, stage>>] > 0 =>
                      ~NoRequest(i) \/ \E s \in Mounting : coros[<<i, s>>] > 0
             /\ coros'[<<i, "unmount">>] > 0 => coros[<<i, "unmount">>] > 0
      BY <2>2, CoroutineMoves DEF InEventLoop
    <3>3. QED
      BY <1>a, <3>1, <3>2
  <2>3. QED
    BY <1>9, <2>1, <2>2, ResponseCases
<1>10. CASE UNCHANGED vars
  BY <1>10, <1>a DEF vars, kioVars, dbVars, daemonVars, credentialsVars, NoRequest, Credentials!Idle
<1>11. QED
  BY <1>1, <1>2, <1>3, <1>4, <1>5, <1>6, <1>7, <1>8, <1>9, <1>10, CredentialsJobCases
    DEF Next, Dispatch

(* The agreement of signals and coroutines with the database holds throughout     *)
(* (kded_accounts.cpp:99-118, kioservices.cpp:126-168, 240-254).                  *)
THEOREM NothingStale ==
    ASSUME ~Overlap
    PROVE  Spec => []NothingStaleInFlight
<1>1. Init => NothingStaleInFlight
  BY DEF Init, KioInit, NothingStaleInFlight, Stage, NoRequest, Request, Credentials!Init,
     Credentials!Idle
<1>2. TypeOK /\ NothingStaleInFlight /\ [Next]_vars => NothingStaleInFlight'
  BY AccurateStep
<1>3. QED
  BY <1>1, <1>2, TypeCorrect, PTL DEF Spec

(* Every step that changes a place finds the database agreeing with it. *)
LEMMA RegistryStep ==
    ASSUME TypeOK, TypeOK', NothingStaleInFlight, [Next]_vars
    PROVE  [Registry!Next]_(Registry!registryVars)
<1>1. CASE UNCHANGED files
  <2>1. (enabled \cap DavId)' \in SUBSET UniqueId
    BY DEF TypeOK
  <2>2. QED
    BY <1>1, <2>1 DEF Registry!Next, Registry!ChangeMind
<1>2. ASSUME NEW id \in UniqueId, NEW hasRealm \in BOOLEAN, RealmFetched(id, hasRealm),
             UNCHANGED enabled, ~UNCHANGED files
      PROVE  Registry!Next
  <2>1. coros[<<id, "realm">>] > 0 /\ files' = files \cup {id}
    BY <1>2 DEF RealmFetched, Return
  <2>2. id \in (enabled \cap DavId) \ files
    BY <1>2, <2>1 DEF NothingStaleInFlight
  <2>3. Registry!Mount(id)
    BY <1>2, <2>1, <2>2 DEF Registry!Mount
  <2>4. QED
    BY <2>3 DEF Registry!Next
<1>3. ASSUME NEW id \in UniqueId, UnmountWalletOpened(id),
             UNCHANGED enabled, ~UNCHANGED files
      PROVE  Registry!Next
  <2>1. coros[<<id, "unmount">>] > 0 /\ files' = files \ {id}
    BY <1>3 DEF UnmountWalletOpened, Return
  <2>2. id \in files \ (enabled \cap DavId)
    BY <1>3, <2>1 DEF NothingStaleInFlight
  <2>3. Registry!Unmount(id)
    BY <1>3, <2>1, <2>2 DEF Registry!Unmount
  <2>4. QED
    BY <2>3 DEF Registry!Next
<1>4. QED
  BY <1>1, <1>2, <1>3, WalletFrame

(* While an account changes only after its last change has been handled, daemon   *)
(* and plugin implement the mount registry, failures and restarts included: a     *)
(* place is written only for an enabled storage service and removed only for one  *)
(* that is not (kded_accounts.cpp:57-118, kioservices.cpp:40-290).                *)
THEOREM MountRegistryImplemented ==
    ASSUME ~Overlap
    PROVE  Spec => MountsFollowDatabase
<1>1. Init => Registry!Init
  BY DEF Init, KioInit, Registry!Init
<1>2. TypeOK /\ TypeOK' /\ NothingStaleInFlight /\ [Next]_vars
         => [Registry!Next]_(Registry!registryVars)
  BY RegistryStep
<1>3. QED
  BY <1>1, <1>2, TypeCorrect, NothingStale, PTL DEF Spec, MountsFollowDatabase, Registry!Safety

--------------------------------------------------------------------------------
(* Null handles. *)

(* Why a null handle is never used: only an account that is gone gives one, since  *)
(* whatever is signalled was once created; and what is gone is never found again.  *)
NullInv ==
    /\ \A i \in DOMAIN signals : accounts[signals[i].account] # "absent"
    /\ \A id \in UniqueId : ~Credentials!Idle(<<id, FALSE>>) => accounts[id[1]] = "gone"
    /\ NullHandleNeverUsed

(* Every step keeps it. *)
LEMMA NullStep == TypeOK /\ NullInv /\ [Next]_vars => NullInv'
<1> SUFFICES ASSUME TypeOK, NullInv, [Next]_vars PROVE NullInv'
  OBVIOUS
<1> DEFINE Requests == /\ \A id \in UniqueId :
                             ~Credentials!Idle(<<id, FALSE>>) => accounts[id[1]] = "gone"
                       /\ NullHandleNeverUsed
<1>t. /\ Credentials!TypeOK /\ \A id \in UniqueId : <<id, FALSE>> \in Request
      /\ \A id \in UniqueId : id[1] \in Account
  BY DEF TypeOK, KioTypeOK, Request, UniqueId
<1>a. ASSUME UNCHANGED <<credentialsVars, accounts>> PROVE Requests'
  BY <1>a DEF NullInv, NullHandleNeverUsed, credentialsVars, Credentials!Idle
<1>b. ASSUME ProcessEnds PROVE NullInv'
  <2>1. \A id \in UniqueId : Credentials!Idle(<<id, FALSE>>)' /\ sessions'[<<id, FALSE>>] = 0
    BY <1>b, <1>t DEF ProcessEnds, Credentials!Idle
  <2>2. \A i \in DOMAIN signals' : FALSE
    BY <1>b DEF ProcessEnds
  <2>3. QED
    BY <2>1, <2>2 DEF NullInv, NullHandleNeverUsed
<1>c. ASSUME NEW a \in Account, NEW signal \in Signal, Change(a, signal), signal.account = a,
             NEW v \in {"live", "gone"}, accounts' = [accounts EXCEPT ![a] = v],
             accounts[a] # "gone"
      PROVE  NullInv'
  <2>1. ASSUME NEW i \in DOMAIN signals' PROVE accounts'[signals'[i].account] # "absent"
    <3>1. CASE signals' = Append(signals, signal) /\ i = Len(signals) + 1
      BY <1>c, <3>1 DEF TypeOK
    <3>2. CASE i \in DOMAIN signals /\ signals'[i] = signals[i]
      <4>1. signals[i].account \in Account /\ accounts[signals[i].account] # "absent"
        BY <3>2 DEF TypeOK, Signal, NullInv
      <4>2. QED
        BY <1>c, <3>2, <4>1 DEF TypeOK
    <3>3. signals' = signals \/ signals' = Append(signals, signal)
      BY <1>c DEF Change
    <3>4. QED
      BY <2>1, <3>1, <3>2, <3>3 DEF TypeOK
  <2>2. UNCHANGED credentialsVars
    BY <1>c DEF Change, kioVars
  <2>3. ASSUME NEW id \in UniqueId, ~Credentials!Idle(<<id, FALSE>>)' PROVE accounts'[id[1]] = "gone"
    <3>1. ~Credentials!Idle(<<id, FALSE>>)
      BY <2>2, <2>3 DEF credentialsVars, Credentials!Idle
    <3>2. accounts[id[1]] = "gone"
      BY <3>1 DEF NullInv
    <3>3. QED
      BY <1>c, <1>t, <3>2 DEF TypeOK
  <2>4. NullHandleNeverUsed'
    BY <2>2 DEF NullInv, NullHandleNeverUsed, credentialsVars
  <2>5. QED
    BY <2>1, <2>3, <2>4 DEF NullInv
<1>d. ASSUME signals # <<>>, Dispatched, Requests' PROVE NullInv'
  <2>1. ASSUME NEW i \in DOMAIN signals' PROVE i + 1 \in DOMAIN signals /\ signals'[i] = signals[i + 1]
    BY <1>d, <2>1 DEF Dispatched, TypeOK
  <2>2. QED
    BY <1>d, <2>1 DEF NullInv, Dispatched, dbVars
<1>e. ASSUME NEW Ids, NEW hasHandle \in BOOLEAN, NEW n \in Nat, enableService(Ids, hasHandle, n),
             UNCHANGED accounts,
             \A id \in Ids : ~hasHandle => accounts[id[1]] = "gone"
      PROVE  Requests'
  <2>1. Credentials!start(Ids \X {hasHandle}, n)
    BY <1>e DEF enableService
  <2>2. ASSUME NEW id \in UniqueId, ~Credentials!Idle(<<id, FALSE>>)' PROVE accounts'[id[1]] = "gone"
    <3>1. CASE <<id, FALSE>> \in Ids \X {hasHandle}
      BY <1>e, <3>1
    <3>2. CASE <<id, FALSE>> \notin Ids \X {hasHandle}
      <4>1. ~Credentials!Idle(<<id, FALSE>>)
        BY <1>t, <2>1, <2>2, <3>2, StartIdle
      <4>2. QED
        BY <1>e, <4>1 DEF NullInv
    <3>3. QED
      BY <3>1, <3>2
  <2>3. NullHandleNeverUsed'
    BY <2>1 DEF NullInv, NullHandleNeverUsed, Credentials!start
  <2>4. QED
    BY <2>2, <2>3
<1>1. ASSUME NEW a \in Account, NEW S \in SUBSET Service, CreateAccount(a, S) PROVE NullInv'
  <2> DEFINE signal == [kind |-> "created", account |-> a]
  <2>1. signal \in Signal /\ signal.account = a
    BY DEF Signal
  <2>2. QED
    BY <1>1, <1>c, <2>1 DEF CreateAccount
<1>2. ASSUME NEW a \in Account, NEW s \in Service, ToggleService(a, s) PROVE NullInv'
  <2> DEFINE signal == [kind |-> IF <<a, s>> \notin enabled THEN "enabled" ELSE "disabled",
                        account |-> a, service |-> s]
  <2>1. signal \in Signal /\ signal.account = a
    BY DEF Signal
  <2>2. accounts' = [accounts EXCEPT ![a] = "live"] /\ accounts[a] # "gone"
    BY <1>2 DEF ToggleService, TypeOK
  <2>3. Change(a, signal)
    BY <1>2 DEF ToggleService
  <2> HIDE DEF signal
  <2>4. QED
    BY <1>c, <2>1, <2>2, <2>3
<1>3. ASSUME NEW a \in Account, RemoveAccount(a) PROVE NullInv'
  <2> DEFINE signal == [kind |-> "removed", account |-> a]
  <2>1. signal \in Signal /\ signal.account = a
    BY DEF Signal
  <2>2. QED
    BY <1>3, <1>c, <2>1 DEF RemoveAccount
<1>4. CASE StartDaemon
  <2>1. Requests'
    BY <1>4, <1>a DEF StartDaemon, kioVars, dbVars
  <2>2. QED
    BY <1>4, <2>1 DEF StartDaemon, NullInv, dbVars
<1>5. CASE accountCreated
  <2> DEFINE a == Head(signals).account
             Ids == {id \in DavId : id[1] = a /\ id[2] \in {s \in Service : <<a, s>> \in enabled}
                                     /\ ~isEnabled(id)}
  <2>1. CASE accounts[a] = "live"
    <3>1. enableService(Ids, TRUE, 1) /\ Dispatched /\ signals # <<>> /\ UNCHANGED accounts
      BY <1>5, <2>1 DEF accountCreated, onAccountCreated, Receive, Dispatched, dbVars
    <3> HIDE DEF Ids
    <3>2. Requests'
      BY <1>e, <3>1
    <3>3. QED
      BY <1>d, <3>1, <3>2
  <2>2. CASE accounts[a] # "live"
    BY <1>5, <1>b, <2>2 DEF accountCreated
  <2>3. QED
    BY <2>1, <2>2
<1>6. CASE accountRemoved
  BY <1>6, <1>a, <1>d DEF accountRemoved, onAccountRemoved, disableService, Receive, Dispatched, dbVars
<1>7. CASE enabledChanged
  <2> DEFINE a == Head(signals).account
             id == <<a, Head(signals).service>>
  <2>1. signals # <<>> /\ Dispatched /\ UNCHANGED accounts
    BY <1>7 DEF enabledChanged, Receive, Dispatched, dbVars
  <2>2. Head(signals) = signals[1] /\ 1 \in DOMAIN signals /\ a \in Account /\ monitors[a] \in Nat
    BY <2>1, SignalsType DEF TypeOK, Signal
  <2>3. accounts[a] # "live" => accounts[a] = "gone"
    BY <2>2 DEF NullInv, TypeOK
  <2>4. CASE Head(signals).kind = "enabled"
    <3> DEFINE Ids == {i \in DavId : i = id /\ ~isEnabled(i)}
    <3>1. enableService(Ids, accounts[a] = "live", monitors[a])
      BY <1>7, <2>4 DEF enabledChanged, onServiceEnabled
    <3>2. \A i \in Ids : ~(accounts[a] = "live") => accounts[i[1]] = "gone"
      BY <2>3
    <3> HIDE DEF Ids
    <3>3. Requests'
      BY <1>e, <2>1, <2>2, <3>1, <3>2
    <3>4. QED
      BY <1>d, <2>1, <3>3
  <2>5. CASE Head(signals).kind # "enabled"
    BY <1>7, <1>a, <1>d, <2>1, <2>5 DEF enabledChanged, onServiceDisabled, disableService
  <2>6. QED
    BY <2>4, <2>5
<1>8. CASE Restart
  BY <1>8, <1>b DEF Restart
<1>9. ASSUME NEW id \in UniqueId, InEventLoop(CredentialsLookup(id)) PROVE NullInv'
  <2>1. UNCHANGED <<accounts, signals>>
    BY <1>9 DEF InEventLoop, dbVars, daemonVars
  <2>2. PICK h \in BOOLEAN, tries \in Credentials!Tries, complete \in {TRUE, ~Failures} :
           Credentials!getCredentials(<<id, h>>, tries, accounts[id[1]] = "live", complete)
    BY <1>9 DEF InEventLoop, CredentialsLookup
  <2>3. (accounts[id[1]] = "live") \in BOOLEAN /\ complete \in BOOLEAN /\ <<id, h>> \in Request
    BY SwitchAssumption DEF Request
  <2>4. ASSUME NEW x \in UniqueId, ~Credentials!Idle(<<x, FALSE>>)' PROVE accounts'[x[1]] = "gone"
    <3>1. ~Credentials!Idle(<<x, FALSE>>)
      BY <1>t, <2>2, <2>3, <2>4, JobSteps
    <3>2. QED
      BY <2>1, <3>1 DEF NullInv
  <2>5. NullHandleNeverUsed'
    <3>1. CASE h
      <4>1. \A x \in UniqueId : <<x, FALSE>> # <<id, h>>
        BY <3>1
      <4>2. \A x \in UniqueId : sessions'[<<x, FALSE>>] = sessions[<<x, FALSE>>]
        BY <1>t, <2>2, <4>1 DEF Credentials!getCredentials, Credentials!TypeOK
      <4>3. QED
        BY <4>2 DEF NullInv, NullHandleNeverUsed
    <3>2. CASE ~h
      <4>1. waiting[<<<<id, h>>, tries>>] # 0
        BY <2>2 DEF Credentials!getCredentials
      <4>a. h = FALSE
        BY <3>2
      <4>2. ~Credentials!Idle(<<id, FALSE>>)
        BY <4>1, <4>a DEF Credentials!Idle
      <4>3. accounts[id[1]] = "gone"
        BY <4>2 DEF NullInv
      <4>4. UNCHANGED sessions
        BY <2>2, <4>3 DEF Credentials!getCredentials
      <4>5. QED
        BY <4>4 DEF NullInv, NullHandleNeverUsed
    <3>3. QED
      BY <3>1, <3>2
  <2>6. QED
    BY <2>1, <2>4, <2>5 DEF NullInv
<1>10. ASSUME NEW id \in UniqueId,
              InEventLoop(CredentialsError(id)) \/ InEventLoop(CredentialsFinished(id))
       PROVE  NullInv'
  <2>1. UNCHANGED <<accounts, signals>>
    BY <1>10 DEF InEventLoop, dbVars, daemonVars
  <2>2. PICK h \in BOOLEAN : Credentials!Answered(<<id, h>>)
    BY <1>10 DEF InEventLoop, CredentialsError, CredentialsFailed, CredentialsFinished
  <2>3. <<id, h>> \in Request
    BY DEF Request
  <2>4. ASSUME NEW x \in UniqueId, ~Credentials!Idle(<<x, FALSE>>)' PROVE accounts'[x[1]] = "gone"
    <3>1. ~Credentials!Idle(<<x, FALSE>>)
      BY <1>t, <2>2, <2>3, <2>4, JobSteps
    <3>2. QED
      BY <2>1, <3>1 DEF NullInv
  <2>5. ASSUME NEW x \in UniqueId PROVE sessions'[<<x, FALSE>>] = 0
    <3>1. sessions[<<x, FALSE>>] = 0
      BY DEF NullInv, NullHandleNeverUsed
    <3>a. sessions[<<id, h>>] # 0
      BY <2>2 DEF Credentials!Answered
    <3>2. <<x, FALSE>> # <<id, h>>
      BY <3>1, <3>a
    <3>3. QED
      BY <1>t, <2>2, <3>1, <3>2 DEF Credentials!Answered, Credentials!TypeOK
  <2>6. QED
    BY <2>1, <2>4, <2>5 DEF NullInv, NullHandleNeverUsed
<1>11. ASSUME NEW id \in UniqueId,
              \/ InEventLoop(WalletAnswer(id)) \/ InEventLoop(RealmAnswer(id))
              \/ InEventLoop(UnmountAnswer(id)) \/ UNCHANGED vars
       PROVE  NullInv'
  <2>1. UNCHANGED <<credentialsVars, accounts, signals>>
    BY <1>11 DEF InEventLoop, dbVars, daemonVars, WalletAnswer, RealmAnswer, UnmountAnswer,
       WalletOpened, WalletRefused, RealmFetched, UnmountWalletOpened, UnmountWalletRefused,
       vars, kioVars
  <2>2. QED
    BY <1>a, <2>1 DEF NullInv
<1>12. CASE UNCHANGED vars
  <2>1. UNCHANGED <<credentialsVars, accounts, signals>>
    BY <1>12 DEF vars, kioVars, dbVars, daemonVars
  <2>2. QED
    BY <1>a, <2>1 DEF NullInv
<1>13. QED
  BY <1>1, <1>2, <1>3, <1>4, <1>5, <1>6, <1>7, <1>8, <1>9, <1>10, <1>11, <1>12, <1>b,
     ResponseCases, CredentialsJobCases DEF Next, Dispatch

LEMMA NullInductive == Spec => []NullInv
<1>1. Init => NullInv
  <2>1. SUFFICES ASSUME Init PROVE NullInv
    OBVIOUS
  <2>2. \A id \in UniqueId : <<id, FALSE>> \in Request
    BY DEF Request
  <2>3. \A id \in UniqueId : Credentials!Idle(<<id, FALSE>>) /\ sessions[<<id, FALSE>>] = 0
    BY <2>1, <2>2 DEF Init, KioInit, Credentials!Init, Credentials!Idle
  <2>4. \A i \in DOMAIN signals : FALSE
    BY <2>1 DEF Init
  <2>5. QED
    BY <2>3, <2>4 DEF NullInv, NullHandleNeverUsed
<1>2. TypeOK /\ NullInv /\ [Next]_vars => NullInv'
  BY NullStep
<1>3. QED
  BY <1>1, <1>2, TypeCorrect, PTL DEF Spec

(* A mount whose account was gone when it took its handle never gets credentials,  *)
(* so the null handle is not dereferenced, whatever overlaps, fails or restarts    *)
(* (kioservices.cpp:128-144, getcredentialsjob.cpp:47-61).                         *)
THEOREM NullHandlesSafe == Spec => []NullHandleNeverUsed
<1>1. NullInv => NullHandleNeverUsed
  BY DEF NullInv
<1>2. QED
  BY <1>1, NullInductive, PTL
================================================================================
