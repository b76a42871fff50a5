---------------------------- MODULE MountsSettleProofs ----------------------------
(* Theorems about what is left when everything about an account is handled: the     *)
(* mounted places are the enabled storage services.  For any accounts, services,    *)
(* logins and bounds, with restarts, when an account changes only after its last    *)
(* change was handled.                                                              *)
EXTENDS AccountsDaemonProofs

--------------------------------------------------------------------------------
(* The inductive invariant. *)

(* kded never dies, hears of changes only while it runs, of one at a time for each  *)
(* account, and finds the account as the signal says.                               *)
SignalsOrderly ==
    /\ daemon # "crashed"
    /\ daemon = "starting" => signals = <<>>
    /\ \A i, j \in DOMAIN signals : signals[i].account = signals[j].account => i = j
    /\ \A i \in DOMAIN signals :
          accounts[signals[i].account] = IF signals[i].kind = "removed" THEN "gone" ELSE "live"
    /\ \A id \in enabled : accounts[id[1]] = "live"

(* A signal in flight tells of this service. *)
Tells(kind, id) ==
    \E i \in DOMAIN signals :
       signals[i].kind = kind /\ signals[i].account = id[1] /\ signals[i].service = id[2]

(* A place is of a service that is enabled, or its unmount is on the way. *)
WantedOrLeaving(id) ==
    \/ id \in enabled
    \/ InFlight("removed", id[1])
    \/ Tells("disabled", id)
    \/ coros[<<id, "unmount">>] > 0

(* A service has its place, or the mount is on the way. *)
MountedOrComing(id) ==
    \/ id \in files
    \/ InFlight("created", id[1])
    \/ Tells("enabled", id)
    \/ ~Credentials!Idle(<<id, TRUE>>)
    \/ coros[<<id, "wallet">>] > 0
    \/ coros[<<id, "realm">>] > 0

PlacesSettle == \A id \in files : id \in DavId /\ WantedOrLeaving(id)

ServicesSettle == \A id \in enabled \cap DavId : MountedOrComing(id)

(* What AccountsDaemonProofs has shown of every state. *)
Known ==
    /\ TypeOK
    /\ NothingStaleInFlight
    /\ NoAccountUnmonitored
    /\ NullHandleNeverUsed

--------------------------------------------------------------------------------
(* Signals. *)

LEMMA TailHas ==
    ASSUME TypeOK, signals # <<>>, signals' = Tail(signals)
    PROVE  /\ 1 \in DOMAIN signals /\ Head(signals) = signals[1] /\ signals[1] \in Signal
           /\ \A i \in DOMAIN signals :
                 i # 1 => i - 1 \in DOMAIN signals' /\ signals'[i - 1] = signals[i]
           /\ \A i \in DOMAIN signals' : i + 1 \in DOMAIN signals /\ signals'[i] = signals[i + 1]
  BY DEF TypeOK

LEMMA AppendHas ==
    ASSUME TypeOK, NEW signal \in Signal, signals' = Append(signals, signal)
    PROVE  /\ \A i \in DOMAIN signals : i \in DOMAIN signals' /\ signals'[i] = signals[i]
           /\ \A i \in DOMAIN signals' :
                 \/ i \in DOMAIN signals /\ signals'[i] = signals[i]
                 \/ i = Len(signals) + 1 /\ signals'[i] = signal
           /\ Len(signals) + 1 \in DOMAIN signals' /\ signals'[Len(signals) + 1] = signal
           /\ Len(signals) + 1 \notin DOMAIN signals
  BY DEF TypeOK

(* What a signal tells is lost only when it is the next. *)
LEMMA TailKeeps ==
    ASSUME TypeOK, signals # <<>>, signals' = Tail(signals), NEW kind, NEW id \in UniqueId
    PROVE  /\ InFlight(kind, id[1]) =>
                 \/ InFlight(kind, id[1])'
                 \/ signals[1].kind = kind /\ signals[1].account = id[1]
           /\ Tells(kind, id) =>
                 \/ Tells(kind, id)'
                 \/ /\ signals[1].kind = kind
                    /\ signals[1].account = id[1] /\ signals[1].service = id[2]
<1>1. ASSUME InFlight(kind, id[1])
      PROVE  \/ InFlight(kind, id[1])'
             \/ signals[1].kind = kind /\ signals[1].account = id[1]
  BY <1>1, TailHas DEF InFlight
<1>2. ASSUME Tells(kind, id)
      PROVE  \/ Tells(kind, id)'
             \/ /\ signals[1].kind = kind
                /\ signals[1].account = id[1] /\ signals[1].service = id[2]
  BY <1>2, TailHas DEF Tells
<1>3. QED
  BY <1>1, <1>2

LEMMA AppendKeeps ==
    ASSUME TypeOK, NEW signal \in Signal, signals' = Append(signals, signal),
           NEW kind, NEW id \in UniqueId
    PROVE  /\ InFlight(kind, id[1]) => InFlight(kind, id[1])'
           /\ Tells(kind, id) => Tells(kind, id)'
           /\ signal.kind = kind /\ signal.account = id[1] =>
                 /\ InFlight(kind, id[1])'
                 /\ signal.service = id[2] => Tells(kind, id)'
<1>1. InFlight(kind, id[1]) => InFlight(kind, id[1])'
  BY AppendHas DEF InFlight
<1>2. Tells(kind, id) => Tells(kind, id)'
  BY AppendHas DEF Tells
<1>3. ASSUME signal.kind = kind, signal.account = id[1]
      PROVE  InFlight(kind, id[1])' /\ (signal.service = id[2] => Tells(kind, id)')
  BY <1>3, AppendHas DEF InFlight, Tells
<1>4. QED
  BY <1>1, <1>2, <1>3

--------------------------------------------------------------------------------
(* Signals stay orderly. *)

LEMMA InitOrderly == Init => SignalsOrderly
  BY DEF Init, SignalsOrderly

(* An account changes when no signal of it is in flight. *)
LEMMA ChangeOrderly ==
    ASSUME ~Overlap, TypeOK, SignalsOrderly, NEW a \in Account, NEW signal \in Signal,
           signal.account = a, Change(a, signal),
           accounts' = [accounts EXCEPT ![a] = IF signal.kind = "removed" THEN "gone" ELSE "live"],
           \A id \in enabled' : id \in enabled \/ id[1] = a,
           signal.kind = "removed" => \A id \in enabled' : id[1] # a
    PROVE  SignalsOrderly'
<1>1. /\ Quiet(a) /\ signals' = Append(signals, signal) /\ daemon' = daemon
      /\ daemon = "running"
  BY DEF Change, SignalsOrderly, Quiet
<1>2. \A i \in DOMAIN signals : signals[i].account # a /\ signals[i].account \in Account
  BY <1>1 DEF Quiet, TypeOK, Signal
<1>3. \A b \in Account : b # a => accounts'[b] = accounts[b]
  BY DEF TypeOK
<1>4. accounts'[a] = IF signal.kind = "removed" THEN "gone" ELSE "live"
  BY DEF TypeOK
<1>5. ASSUME NEW i \in DOMAIN signals', NEW j \in DOMAIN signals',
             signals'[i].account = signals'[j].account
      PROVE  i = j
  BY <1>1, <1>2, <1>5, AppendHas DEF SignalsOrderly
<1>6. ASSUME NEW i \in DOMAIN signals'
      PROVE  accounts'[signals'[i].account]
                = IF signals'[i].kind = "removed" THEN "gone" ELSE "live"
  <2>1. CASE i \in DOMAIN signals /\ signals'[i] = signals[i]
    BY <2>1, <1>2, <1>3 DEF SignalsOrderly
  <2>2. CASE signals'[i] = signal
    BY <2>2, <1>4
  <2>3. QED
    BY <2>1, <2>2, <1>1, AppendHas
<1>7. ASSUME NEW id \in enabled' PROVE accounts'[id[1]] = "live"
  <2>1. CASE id[1] = a
    BY <2>1, <1>4, <1>7
  <2>2. CASE id[1] # a
    <3>1. id \in enabled /\ id[1] \in Account
      BY <2>2, <1>7 DEF TypeOK, UniqueId
    <3>2. QED
      BY <3>1, <2>2, <1>3 DEF SignalsOrderly
  <2>3. QED
    BY <2>1, <2>2
<1>8. QED
  BY <1>1, <1>5, <1>6, <1>7 DEF SignalsOrderly

LEMMA CreateAccountChange ==
    ASSUME TypeOK, NEW a \in Account, NEW S \in SUBSET Service, CreateAccount(a, S)
    PROVE  LET signal == [kind |-> "created", account |-> a] IN
           /\ signal \in Signal /\ Change(a, signal)
           /\ accounts' = [accounts EXCEPT ![a] = "live"]
           /\ enabled' = enabled \cup ({a} \X S)
  BY DEF CreateAccount, Signal

LEMMA RemoveAccountChange ==
    ASSUME TypeOK, NEW a \in Account, RemoveAccount(a)
    PROVE  LET signal == [kind |-> "removed", account |-> a] IN
           /\ signal \in Signal /\ Change(a, signal)
           /\ accounts' = [accounts EXCEPT ![a] = "gone"]
           /\ enabled' = {id \in enabled : id[1] # a}
  BY DEF RemoveAccount, Signal

LEMMA ToggleServiceChange ==
    ASSUME TypeOK, NEW a \in Account, NEW s \in Service, ToggleService(a, s)
    PROVE  \E signal \in Signal :
              /\ signal.account = a /\ signal.service = s /\ Change(a, signal)
              /\ accounts' = [accounts EXCEPT ![a] = "live"]
              /\ \/ signal.kind = "enabled" /\ enabled' = enabled \cup {<<a, s>>}
                 \/ signal.kind = "disabled" /\ enabled' = enabled \ {<<a, s>>}
<1> DEFINE sig(k) == [kind |-> k, account |-> a, service |-> s]
<1>1. sig("enabled") \in Signal /\ sig("disabled") \in Signal
  BY DEF Signal
<1>2. accounts' = [accounts EXCEPT ![a] = "live"]
  BY DEF ToggleService, TypeOK
<1>3. CASE <<a, s>> \in enabled
  <2>1. Change(a, sig("disabled")) /\ enabled' = enabled \ {<<a, s>>}
    BY <1>3 DEF ToggleService
  <2>2. QED
    BY <1>1, <1>2, <2>1
<1>4. CASE <<a, s>> \notin enabled
  <2>1. Change(a, sig("enabled")) /\ enabled' = enabled \cup {<<a, s>>}
    BY <1>4 DEF ToggleService
  <2>2. QED
    BY <1>1, <1>2, <2>1
<1>5. QED
  BY <1>3, <1>4

(* The daemon takes a signal and survives it. *)
LEMMA DispatchedOrderly ==
    ASSUME TypeOK, SignalsOrderly, signals # <<>>, Dispatched
    PROVE  SignalsOrderly'
<1>1. /\ signals' = Tail(signals) /\ UNCHANGED <<accounts, enabled, daemon>>
  BY DEF Dispatched, dbVars
<1>2. daemon = "running"
  BY DEF SignalsOrderly, TypeOK
<1>3. ASSUME NEW i \in DOMAIN signals', NEW j \in DOMAIN signals',
             signals'[i].account = signals'[j].account
      PROVE  i = j
  <2>1. /\ i + 1 \in DOMAIN signals /\ signals'[i] = signals[i + 1]
        /\ j + 1 \in DOMAIN signals /\ signals'[j] = signals[j + 1]
    BY <1>1, TailHas
  <2>2. i + 1 = j + 1 /\ i \in Nat /\ j \in Nat
    BY <1>1, <1>3, <2>1 DEF SignalsOrderly, TypeOK
  <2>3. QED
    BY <2>2
<1>4. ASSUME NEW i \in DOMAIN signals'
      PROVE  accounts[signals'[i].account]
                = IF signals'[i].kind = "removed" THEN "gone" ELSE "live"
  BY <1>1, TailHas DEF SignalsOrderly
<1>5. QED
  BY <1>1, <1>2, <1>3, <1>4 DEF SignalsOrderly

(* The account of a signal accountCreated is there, and kded goes on. *)
LEMMA CreatedFindsAccount ==
    ASSUME TypeOK, SignalsOrderly, accountCreated
    PROVE  LET a == Head(signals).account IN
           /\ signals # <<>> /\ Head(signals).kind = "created" /\ accounts[a] = "live"
           /\ a \in Account
           /\ onAccountCreated(a, {s \in Service : <<a, s>> \in enabled})
           /\ Dispatched
<1>1. signals # <<>> /\ Head(signals).kind = "created"
  BY DEF accountCreated, Receive
<1>2. Head(signals) = signals[1] /\ 1 \in DOMAIN signals /\ signals[1] \in Signal
  BY <1>1 DEF TypeOK
<1>3. Head(signals).account \in Account
  BY <1>2 DEF Signal
<1>4. accounts[Head(signals).account] = "live"
  BY <1>1, <1>2 DEF SignalsOrderly
<1>5. QED
  BY <1>1, <1>3, <1>4 DEF accountCreated

(* Nobody uses a null handle. *)
LEMMA ResponseFinishes ==
    ASSUME NullHandleNeverUsed, NEW id \in UniqueId, CredentialsResponse(id)
    PROVE  InEventLoop(CredentialsFinished(id))
<1>1. CASE sessions[<<id, FALSE>>] > 0
  <2>1. sessions[<<id, FALSE>>] = 0
    BY DEF NullHandleNeverUsed
  <2>2. QED
    BY <1>1, <2>1
<1>2. CASE ~(sessions[<<id, FALSE>>] > 0)
  BY <1>2 DEF CredentialsResponse, InEventLoop
<1>3. QED
  BY <1>1, <1>2

LEMMA OrderlyStep ==
    ASSUME ~Overlap, TypeOK, NullHandleNeverUsed, SignalsOrderly, [Next]_vars
    PROVE  SignalsOrderly'
<1>1. ASSUME NEW a \in Account, NEW S \in SUBSET Service, CreateAccount(a, S)
      PROVE  SignalsOrderly'
  <2> DEFINE signal == [kind |-> "created", account |-> a]
  <2>1. /\ signal \in Signal /\ Change(a, signal) /\ signal.account = a /\ signal.kind = "created"
        /\ accounts' = [accounts EXCEPT ![a] = "live"]
        /\ enabled' = enabled \cup ({a} \X S)
    BY <1>1, CreateAccountChange
  <2> HIDE DEF signal
  <2>2. \A id \in enabled' : id \in enabled \/ id[1] = a
    BY <2>1
  <2>3. QED
    BY <2>1, <2>2, ChangeOrderly
<1>2. ASSUME NEW a \in Account, NEW s \in Service, ToggleService(a, s)
      PROVE  SignalsOrderly'
  <2>1. PICK signal \in Signal :
           /\ signal.account = a /\ signal.service = s /\ Change(a, signal)
           /\ accounts' = [accounts EXCEPT ![a] = "live"]
           /\ \/ signal.kind = "enabled" /\ enabled' = enabled \cup {<<a, s>>}
              \/ signal.kind = "disabled" /\ enabled' = enabled \ {<<a, s>>}
    BY <1>2, ToggleServiceChange
  <2>2. signal.kind # "removed" /\ \A id \in enabled' : id \in enabled \/ id[1] = a
    BY <2>1
  <2>3. QED
    BY <2>1, <2>2, ChangeOrderly
<1>3. ASSUME NEW a \in Account, RemoveAccount(a)
      PROVE  SignalsOrderly'
  <2> DEFINE signal == [kind |-> "removed", account |-> a]
  <2>1. /\ signal \in Signal /\ Change(a, signal) /\ signal.account = a /\ signal.kind = "removed"
        /\ accounts' = [accounts EXCEPT ![a] = "gone"]
        /\ enabled' = {id \in enabled : id[1] # a}
    BY <1>3, RemoveAccountChange
  <2> HIDE DEF signal
  <2>2. QED
    BY <2>1, ChangeOrderly
<1>4. CASE StartDaemon
  BY <1>4 DEF StartDaemon, SignalsOrderly, dbVars
<1>5. CASE accountCreated
  BY <1>5, CreatedFindsAccount, DispatchedOrderly
<1>6. CASE accountRemoved \/ enabledChanged
  BY <1>6, DispatchedOrderly DEF accountRemoved, enabledChanged, Receive
<1>7. CASE Restart
  BY <1>7 DEF Restart, ProcessEnds, SignalsOrderly, dbVars
<1>8. CASE UNCHANGED <<dbVars, daemonVars>>
  BY <1>8 DEF SignalsOrderly, dbVars, daemonVars
<1>9. ASSUME NEW id \in UniqueId, CredentialsResponse(id)
      PROVE  UNCHANGED <<dbVars, daemonVars>>
  BY <1>9, ResponseFinishes DEF InEventLoop
<1>10. CASE UNCHANGED vars
  BY <1>10, <1>8 DEF vars
<1>11. QED
  BY <1>1, <1>2, <1>3, <1>4, <1>5, <1>6, <1>7, <1>8, <1>9, <1>10, CredentialsJobCases
    DEF Next, Dispatch, InEventLoop

(* A quiet account waits for nothing. *)
LEMMA QuietWaits ==
    ASSUME NEW id \in UniqueId, Quiet(id[1])
    PROVE  /\ WantedOrLeaving(id) => id \in enabled
           /\ MountedOrComing(id) => id \in files
<1>1. id[1] \in Account /\ id[2] \in Service /\ id = <<id[1], id[2]>>
  BY DEF UniqueId
<1>2. \A kind : ~InFlight(kind, id[1]) /\ ~Tells(kind, id)
  BY DEF Quiet, InFlight, Tells
<1>3. Credentials!Idle(<<id, TRUE>>) /\ \A stage \in Stage : coros[<<id, stage>>] = 0
  BY <1>1 DEF Quiet, NoCoroutine, NoRequest
<1>4. QED
  BY <1>2, <1>3 DEF WantedOrLeaving, MountedOrComing, Stage

--------------------------------------------------------------------------------
(* Places settle. *)

(* The daemon has a handle of the account whose service was changed. *)
LEMMA EnabledChangedReaches ==
    ASSUME Known, SignalsOrderly, enabledChanged
    PROVE  LET signal == signals[1]
               id == <<signal.account, signal.service>> IN
           /\ 1 \in DOMAIN signals /\ signals # <<>> /\ Dispatched
           /\ id \in UniqueId /\ signal.kind \in {"enabled", "disabled"}
           /\ monitors[signal.account] \in Nat /\ monitors[signal.account] > 0
           /\ signal.kind = "enabled" => onServiceEnabled(id, TRUE, monitors[signal.account])
           /\ signal.kind = "disabled" => onServiceDisabled(id, monitors[signal.account])
<1> DEFINE signal == Head(signals)
           id == <<signal.account, signal.service>>
<1>1. /\ signals # <<>> /\ Dispatched /\ signal.kind \in {"enabled", "disabled"}
      /\ daemon # "crashed"
      /\ IF signal.kind = "enabled"
         THEN onServiceEnabled(id, accounts[signal.account] = "live", monitors[signal.account])
         ELSE onServiceDisabled(id, monitors[signal.account])
  BY DEF enabledChanged, Receive
<1>2. signal = signals[1] /\ 1 \in DOMAIN signals /\ signal \in Signal
  BY <1>1 DEF Known, TypeOK
<1>3. signal.account \in Account /\ signal.service \in Service
  BY <1>1, <1>2 DEF Signal
<1>4. accounts[signal.account] = "live" /\ daemon = "running"
  BY <1>1, <1>2 DEF SignalsOrderly, Known, TypeOK
<1>5. ~InFlight("created", signal.account)
  BY <1>1, <1>2 DEF InFlight, SignalsOrderly
<1>6. monitors[signal.account] > 0 /\ monitors[signal.account] \in Nat
  BY <1>3, <1>4, <1>5 DEF Known, NoAccountUnmonitored, TypeOK
<1>7. (accounts[signal.account] = "live") = TRUE
  BY <1>4
<1> HIDE DEF signal
<1>8. QED
  BY <1>1, <1>2, <1>3, <1>6, <1>7 DEF UniqueId

(* Starting unmounts. *)
LEMMA UnmountsStart ==
    ASSUME TypeOK, NEW Ids, NEW n \in Nat, disableService(Ids, n), NEW id \in UniqueId
    PROVE  /\ coros'[<<id, "unmount">>] >= coros[<<id, "unmount">>]
           /\ id \in Ids /\ n > 0 => coros'[<<id, "unmount">>] > 0
           /\ \A stage \in {"wallet", "realm"} : coros'[<<id, stage>>] = coros[<<id, stage>>]
           /\ UNCHANGED <<credentialsVars, files>>
<1>1. \A stage \in Stage :
         /\ coros[<<id, stage>>] \in Nat
         /\ coros'[<<id, stage>>] = coros[<<id, stage>>]
               + IF id \in Ids /\ stage = "unmount" THEN n ELSE 0
  BY DEF disableService, TypeOK, KioTypeOK
<1>2. QED
  BY <1>1 DEF disableService, Stage

LEMMA PlacesTyped == ASSUME TypeOK PROVE files \subseteq UniqueId /\ enabled \subseteq UniqueId
  BY DEF TypeOK, KioTypeOK

(* A place still is wanted or leaving when nothing was taken from what says so. *)
LEMMA PlaceKept ==
    ASSUME NEW id, WantedOrLeaving(id),
           id \in enabled => id \in enabled',
           InFlight("removed", id[1]) => WantedOrLeaving(id)',
           Tells("disabled", id) => WantedOrLeaving(id)',
           coros[<<id, "unmount">>] > 0 => coros'[<<id, "unmount">>] > 0
    PROVE  WantedOrLeaving(id)'
  BY DEF WantedOrLeaving

LEMMA ChangePlaces ==
    ASSUME TypeOK, SignalsOrderly, PlacesSettle,
           NEW a \in Account, NEW signal \in Signal, signal.account = a, Change(a, signal),
           \A id \in enabled \ enabled' :
              \/ signal.kind = "removed" /\ id[1] = a
              \/ signal.kind = "disabled" /\ id = <<a, signal.service>>
    PROVE  PlacesSettle'
<1>1. signals' = Append(signals, signal) /\ UNCHANGED <<files, coros>>
  BY DEF Change, SignalsOrderly, kioVars
<1>2. ASSUME NEW id \in files PROVE WantedOrLeaving(id)'
  <2>1. id \in UniqueId /\ WantedOrLeaving(id)
    BY <1>2, PlacesTyped DEF PlacesSettle
  <2>2. /\ InFlight("removed", id[1]) => InFlight("removed", id[1])'
        /\ Tells("disabled", id) => Tells("disabled", id)'
    BY <1>1, <2>1, AppendKeeps
  <2>3. CASE id \in enabled \ enabled'
    <3>1. CASE signal.kind = "removed" /\ id[1] = a
      BY <3>1, <1>1, <2>1, AppendKeeps DEF WantedOrLeaving
    <3>2. CASE signal.kind = "disabled" /\ id = <<a, signal.service>>
      <4>1. id[1] = a /\ id[2] = signal.service
        BY <3>2
      <4>2. Tells("disabled", id)'
        BY <3>2, <4>1, <1>1, <2>1, AppendKeeps
      <4>3. QED
        BY <4>2 DEF WantedOrLeaving
    <3>3. QED
      BY <2>3, <3>1, <3>2
  <2>4. CASE id \notin enabled \ enabled'
    BY <2>1, <2>2, <2>4, <1>1 DEF WantedOrLeaving
  <2>5. QED
    BY <2>3, <2>4
<1>3. QED
  BY <1>1, <1>2 DEF PlacesSettle

(* A signal that no unmount waits for is taken. *)
LEMMA DispatchedPlaces ==
    ASSUME TypeOK, PlacesSettle, signals # <<>>, Dispatched, UNCHANGED files,
           \A id \in files : 
              /\ coros[<<id, "unmount">>] > 0 => coros'[<<id, "unmount">>] > 0
              /\ \/ signals[1].kind = "removed" /\ signals[1].account = id[1]
                 \/ /\ signals[1].kind = "disabled"
                    /\ signals[1].account = id[1] /\ signals[1].service = id[2]
                 => coros'[<<id, "unmount">>] > 0
    PROVE  PlacesSettle'
<1>1. signals' = Tail(signals) /\ UNCHANGED enabled
  BY DEF Dispatched, dbVars
<1>2. ASSUME NEW id \in files PROVE WantedOrLeaving(id)'
  <2>1. id \in UniqueId /\ WantedOrLeaving(id)
    BY <1>2, PlacesTyped DEF PlacesSettle
  <2>2. coros'[<<id, "unmount">>] > 0 => WantedOrLeaving(id)'
    BY DEF WantedOrLeaving
  <2>3. InFlight("removed", id[1]) => WantedOrLeaving(id)'
    <3>1. InFlight("removed", id[1]) =>
             InFlight("removed", id[1])' \/ coros'[<<id, "unmount">>] > 0
      BY <1>1, <1>2, <2>1, TailKeeps
    <3>2. QED
      BY <3>1 DEF WantedOrLeaving
  <2>4. Tells("disabled", id) => WantedOrLeaving(id)'
    <3>1. Tells("disabled", id) => Tells("disabled", id)' \/ coros'[<<id, "unmount">>] > 0
      BY <1>1, <1>2, <2>1, TailKeeps
    <3>2. QED
      BY <3>1 DEF WantedOrLeaving
  <2>5. QED
    BY <1>1, <1>2, <2>1, <2>3, <2>4, PlaceKept
<1>3. QED
  BY <1>2 DEF PlacesSettle

(* Steps of coroutines: a place is written for an enabled service, and goes with    *)
(* its unmount.                                                                     *)
LEMMA CoroutinePlaces ==
    ASSUME ~Failures, Known, PlacesSettle, NEW i \in UniqueId,
           \/ CredentialsLookup(i) \/ CredentialsError(i) \/ CredentialsFinished(i)
           \/ WalletAnswer(i) \/ RealmAnswer(i) \/ UnmountAnswer(i),
           UNCHANGED <<dbVars, daemonVars>>
    PROVE  PlacesSettle'
<1>0. /\ coros \in [UniqueId \X Stage -> Nat] /\ files \subseteq UniqueId
      /\ UNCHANGED <<enabled, signals>>
  BY DEF Known, TypeOK, KioTypeOK, dbVars, daemonVars
<1>1. CASE UnmountWalletOpened(i)
  <2>1. files' = files \ {i} /\ coros' = [coros EXCEPT ![<<i, "unmount">>] = @ - 1]
    BY <1>1 DEF UnmountWalletOpened, Return
  <2>2. \A id \in files' : coros'[<<id, "unmount">>] = coros[<<id, "unmount">>]
    BY <1>0, <2>1 DEF Stage
  <2>3. QED
    BY <1>0, <2>1, <2>2 DEF PlacesSettle, WantedOrLeaving, InFlight, Tells
<1>2. CASE RealmAnswer(i)
  <2>1. /\ files' = files \cup {i} /\ coros[<<i, "realm">>] > 0
        /\ coros' = [coros EXCEPT ![<<i, "realm">>] = @ - 1]
    BY <1>2 DEF RealmAnswer, RealmFetched, Return
  <2>2. i \in enabled \cap DavId
    BY <2>1 DEF Known, NothingStaleInFlight
  <2>3. \A id \in files : coros'[<<id, "unmount">>] = coros[<<id, "unmount">>]
    BY <1>0, <2>1 DEF Stage
  <2>4. QED
    BY <1>0, <2>1, <2>2, <2>3 DEF PlacesSettle, WantedOrLeaving, InFlight, Tells
<1>3. CASE \/ CredentialsLookup(i) \/ CredentialsError(i) \/ CredentialsFinished(i)
           \/ WalletAnswer(i)
  <2>1. /\ UNCHANGED files
        /\ \/ UNCHANGED coros
           \/ coros' = [coros EXCEPT ![<<i, "wallet">>] = @ + 1]
           \/ coros' = [coros EXCEPT ![<<i, "wallet">>] = @ - 1, ![<<i, "realm">>] = @ + 1]
    BY <1>3 DEF CredentialsLookup, CredentialsError, CredentialsFailed, CredentialsFinished,
                WalletAnswer, WalletOpened, Resume
  <2>2. \A id \in files : coros'[<<id, "unmount">>] = coros[<<id, "unmount">>]
    BY <1>0, <2>1 DEF Stage
  <2>3. QED
    BY <1>0, <2>1, <2>2 DEF PlacesSettle, WantedOrLeaving, InFlight, Tells
<1>4. QED
  BY <1>1, <1>2, <1>3 DEF UnmountAnswer

LEMMA PlacesStep ==
    ASSUME ~Overlap, ~Failures, Known, SignalsOrderly, PlacesSettle, [Next]_vars
    PROVE  PlacesSettle'
<1>0. TypeOK
  BY DEF Known
<1>1. ASSUME NEW a \in Account, NEW S \in SUBSET Service, CreateAccount(a, S)
      PROVE  PlacesSettle'
  <2> DEFINE signal == [kind |-> "created", account |-> a]
  <2>1. /\ signal \in Signal /\ Change(a, signal) /\ signal.account = a
        /\ enabled' = enabled \cup ({a} \X S)
    BY <1>0, <1>1, CreateAccountChange
  <2> HIDE DEF signal
  <2>2. enabled \ enabled' = {}
    BY <2>1
  <2>3. QED
    BY <1>0, <2>1, <2>2, ChangePlaces
<1>2. ASSUME NEW a \in Account, NEW s \in Service, ToggleService(a, s)
      PROVE  PlacesSettle'
  <2>1. PICK signal \in Signal :
           /\ signal.account = a /\ signal.service = s /\ Change(a, signal)
           /\ \/ signal.kind = "enabled" /\ enabled' = enabled \cup {<<a, s>>}
              \/ signal.kind = "disabled" /\ enabled' = enabled \ {<<a, s>>}
    BY <1>0, <1>2, ToggleServiceChange
  <2>2. \A id \in enabled \ enabled' : signal.kind = "disabled" /\ id = <<a, signal.service>>
    BY <2>1
  <2>3. QED
    BY <1>0, <2>1, <2>2, ChangePlaces
<1>3. ASSUME NEW a \in Account, RemoveAccount(a)
      PROVE  PlacesSettle'
  <2> DEFINE signal == [kind |-> "removed", account |-> a]
  <2>1. /\ signal \in Signal /\ Change(a, signal) /\ signal.account = a /\ signal.kind = "removed"
        /\ enabled' = {id \in enabled : id[1] # a}
    BY <1>0, <1>3, RemoveAccountChange
  <2> HIDE DEF signal
  <2>2. \A id \in enabled \ enabled' : id[1] = a
    BY <2>1
  <2>3. QED
    BY <1>0, <2>1, <2>2, ChangePlaces
<1>4. CASE UNCHANGED <<files, coros, enabled, signals>>
  BY <1>4 DEF PlacesSettle, WantedOrLeaving, InFlight, Tells
<1>5. CASE accountCreated
  <2> DEFINE Ids == {id \in DavId : /\ id[1] = Head(signals).account
                                    /\ id[2] \in {s \in Service : <<Head(signals).account, s>> \in enabled}
                                    /\ ~isEnabled(id)}
  <2>1. /\ signals # <<>> /\ Head(signals).kind = "created" /\ Dispatched
        /\ enableService(Ids, TRUE, 1)
    BY <1>0, <1>5, CreatedFindsAccount DEF onAccountCreated
  <2>2. UNCHANGED <<files, coros>> /\ signals[1].kind = "created"
    BY <1>0, <2>1 DEF enableService, TypeOK
  <2>3. QED
    BY <1>0, <2>1, <2>2, DispatchedPlaces
<1>6. CASE accountRemoved
  <2> DEFINE Ids == {id \in files : id[1] = Head(signals).account}
  <2>1. /\ signals # <<>> /\ Head(signals).kind = "removed" /\ Dispatched
        /\ disableService(Ids, 1)
    BY <1>6 DEF accountRemoved, onAccountRemoved, Receive
  <2>2. Head(signals) = signals[1]
    BY <1>0, <2>1 DEF TypeOK
  <2>3. ASSUME NEW id \in files
        PROVE  /\ coros[<<id, "unmount">>] > 0 => coros'[<<id, "unmount">>] > 0
               /\ signals[1].account = id[1] => coros'[<<id, "unmount">>] > 0
    <3>1. id \in UniqueId /\ coros[<<id, "unmount">>] \in Nat
      BY <1>0, <2>3 DEF TypeOK, KioTypeOK, Stage
    <3>2. /\ coros'[<<id, "unmount">>] >= coros[<<id, "unmount">>]
          /\ id \in Ids /\ 1 > 0 => coros'[<<id, "unmount">>] > 0
          /\ coros'[<<id, "unmount">>] \in Nat
      <4>1. coros'[<<id, "unmount">>] \in Nat
        BY <1>0, <2>1, <3>1, SlotType DEF TypeOK, KioTypeOK, Stage
      <4>2. QED
        BY <1>0, <2>1, <3>1, <4>1, UnmountsStart
    <3>3. QED
      BY <2>2, <3>1, <3>2
  <2>4. UNCHANGED files
    BY <2>1 DEF disableService
  <2>5. QED
    BY <1>0, <2>1, <2>2, <2>3, <2>4, DispatchedPlaces
<1>7. CASE enabledChanged
  <2> DEFINE signal == signals[1]
             id0 == <<signal.account, signal.service>>
             n == monitors[signal.account]
  <2>1. /\ 1 \in DOMAIN signals /\ signals # <<>> /\ Dispatched
        /\ id0 \in UniqueId /\ signal.kind \in {"enabled", "disabled"}
        /\ n \in Nat /\ n > 0
        /\ signal.kind = "enabled" => onServiceEnabled(id0, TRUE, n)
        /\ signal.kind = "disabled" => onServiceDisabled(id0, n)
    BY <1>7, EnabledChangedReaches
  <2>2. CASE signal.kind = "enabled"
    <3>1. UNCHANGED <<files, coros>>
      BY <2>1, <2>2 DEF onServiceEnabled, enableService
    <3>2. QED
      BY <1>0, <2>1, <2>2, <3>1, DispatchedPlaces
  <2>3. CASE signal.kind = "disabled"
    <3> DEFINE Ids == {id \in DavId : id = id0 /\ isEnabled(id)}
    <3>1. disableService(Ids, n)
      BY <2>1, <2>3 DEF onServiceDisabled
    <3>2. ASSUME NEW id \in files
          PROVE  /\ coros[<<id, "unmount">>] > 0 => coros'[<<id, "unmount">>] > 0
                 /\ signal.account = id[1] /\ signal.service = id[2] => coros'[<<id, "unmount">>] > 0
      <4>1. id \in UniqueId /\ coros[<<id, "unmount">>] \in Nat /\ id \in DavId
        BY <1>0, <3>2 DEF TypeOK, KioTypeOK, Stage, PlacesSettle
      <4>2. coros'[<<id, "unmount">>] \in Nat
        BY <1>0, <2>1, <3>1, <4>1, SlotType DEF TypeOK, KioTypeOK, Stage
      <4>3. /\ coros'[<<id, "unmount">>] >= coros[<<id, "unmount">>]
            /\ id \in Ids /\ n > 0 => coros'[<<id, "unmount">>] > 0
        BY <1>0, <2>1, <3>1, <4>1, UnmountsStart
      <4>4. signal.account = id[1] /\ signal.service = id[2] => id \in Ids
        BY <3>2, <4>1 DEF isEnabled, UniqueId
      <4>5. QED
        BY <2>1, <4>1, <4>2, <4>3, <4>4
    <3>3. UNCHANGED files
      BY <3>1 DEF disableService
    <3>4. QED
      BY <1>0, <2>1, <2>3, <3>2, <3>3, DispatchedPlaces
  <2>4. QED
    BY <2>1, <2>2, <2>3
<1>8. CASE Restart
  <2>1. AllQuiet /\ UNCHANGED <<files, enabled>>
    BY <1>8 DEF Restart, ProcessEnds, dbVars
  <2>2. ASSUME NEW id \in files PROVE id \in DavId /\ id \in enabled
    <3>1. id \in UniqueId /\ id[1] \in Account
      BY <1>0, <2>2 DEF TypeOK, KioTypeOK, UniqueId
    <3>2. Quiet(id[1])
      BY <2>1, <3>1 DEF AllQuiet
    <3>3. id \in DavId /\ WantedOrLeaving(id)
      BY <2>2 DEF PlacesSettle
    <3>4. QED
      BY <3>1, <3>2, <3>3, QuietWaits
  <2>3. QED
    BY <2>1, <2>2 DEF PlacesSettle, WantedOrLeaving
<1>9. ASSUME NEW id \in UniqueId,
             \/ InEventLoop(CredentialsLookup(id))
             \/ InEventLoop(CredentialsError(id))
             \/ CredentialsResponse(id)
             \/ InEventLoop(WalletAnswer(id))
             \/ InEventLoop(RealmAnswer(id))
             \/ InEventLoop(UnmountAnswer(id))
      PROVE  PlacesSettle'
  <2>1. CredentialsResponse(id) => InEventLoop(CredentialsFinished(id))
    BY ResponseFinishes DEF Known
  <2>2. QED
    BY <1>9, <2>1, CoroutinePlaces DEF InEventLoop
<1>10. CASE StartDaemon \/ UNCHANGED vars
  BY <1>10, <1>4 DEF StartDaemon, vars, kioVars, dbVars, daemonVars
<1>11. QED
  BY <1>1, <1>2, <1>3, <1>5, <1>6, <1>7, <1>8, <1>9, <1>10, CredentialsJobCases
    DEF Next, Dispatch

--------------------------------------------------------------------------------
(* Services settle. *)

LEMMA RequestKnown ==
    ASSUME Known, NEW id \in UniqueId, NEW hasHandle \in BOOLEAN
    PROVE  /\ <<id, hasHandle>> \in Request /\ Credentials!TypeOK
           /\ sessions[<<id, hasHandle>>] \in Nat
           /\ \A tries \in Credentials!Tries :
                 waiting[<<<<id, hasHandle>>, tries>>] \in Nat
  BY DEF Known, TypeOK, KioTypeOK, Credentials!TypeOK, Request

(* start() takes no job away, and starts those it is called for. *)
LEMMA StartKeeps ==
    ASSUME Credentials!TypeOK, NEW Rs, NEW n \in Nat, Credentials!start(Rs, n),
           NEW r \in Request, ~Credentials!Idle(r) \/ (r \in Rs /\ n > 0)
    PROVE  ~Credentials!Idle(r)'
<1>1. /\ sessions' = sessions /\ sessions[r] \in Nat
      /\ \A tries \in Credentials!Tries :
            /\ waiting[<<r, tries>>] \in Nat
            /\ waiting'[<<r, tries>>]
                  = waiting[<<r, tries>>] + IF r \in Rs /\ tries = 0 THEN n ELSE 0
  BY DEF Credentials!TypeOK, Credentials!start
<1>2. CASE r \in Rs /\ n > 0
  <2>1. 0 \in Credentials!Tries
    BY DEF Credentials!Tries, Credentials!MaxTries
  <2>2. waiting'[<<r, 0>>] # 0
    BY <1>1, <1>2, <2>1
  <2>3. QED
    BY <2>1, <2>2 DEF Credentials!Idle
<1>3. CASE sessions[r] # 0
  BY <1>1, <1>3 DEF Credentials!Idle
<1>4. ASSUME NEW tries \in Credentials!Tries, waiting[<<r, tries>>] # 0
      PROVE  ~Credentials!Idle(r)'
  <2>1. waiting'[<<r, tries>>] # 0
    BY <1>1, <1>4
  <2>2. QED
    BY <2>1 DEF Credentials!Idle
<1>5. QED
  BY <1>2, <1>3, <1>4 DEF Credentials!Idle

(* A lookup that finds the account complete keeps the job, and the others too. *)
LEMMA LookupKeeps ==
    ASSUME Credentials!TypeOK, NEW r \in Request, NEW tries \in Credentials!Tries, NEW found,
           Credentials!getCredentials(r, tries, found, TRUE),
           NEW x \in Request, ~Credentials!Idle(x), x # r \/ found = TRUE
    PROVE  ~Credentials!Idle(x)'
<1>1. CASE x = r
  <2>1. sessions' = [sessions EXCEPT ![r] = @ + 1] /\ sessions[r] \in Nat
    BY <1>1 DEF Credentials!getCredentials, Credentials!TypeOK
  <2>2. sessions'[r] # 0
    BY <2>1 DEF Credentials!TypeOK
  <2>3. QED
    BY <1>1, <2>2 DEF Credentials!Idle
<1>2. CASE x # r
  <2>1. sessions'[x] = sessions[x]
    BY <1>2 DEF Credentials!getCredentials, Credentials!TypeOK
  <2>2. \A t \in Credentials!Tries : waiting'[<<x, t>>] = waiting[<<x, t>>]
    BY <1>2 DEF Credentials!getCredentials, Credentials!TypeOK
  <2>3. QED
    BY <2>1, <2>2 DEF Credentials!Idle
<1>3. QED
  BY <1>1, <1>2

LEMMA AnsweredKeeps ==
    ASSUME Credentials!TypeOK, NEW r \in Request, Credentials!Answered(r),
           NEW x \in Request, ~Credentials!Idle(x), x # r
    PROVE  ~Credentials!Idle(x)'
  BY DEF Credentials!TypeOK, Credentials!Answered, Credentials!Idle

(* A change adds a signal for each service that it enables. *)
LEMMA ChangeServices ==
    ASSUME TypeOK, SignalsOrderly, ServicesSettle,
           NEW a \in Account, NEW signal \in Signal, signal.account = a, Change(a, signal),
           \A id \in enabled' \ enabled :
              \/ signal.kind = "created" /\ id[1] = a
              \/ signal.kind = "enabled" /\ id = <<a, signal.service>>
    PROVE  ServicesSettle'
<1>1. signals' = Append(signals, signal) /\ UNCHANGED <<files, coros, credentialsVars>>
  BY DEF Change, SignalsOrderly, kioVars
<1>2. ASSUME NEW id \in enabled' \cap DavId PROVE MountedOrComing(id)'
  <2>1. id \in UniqueId
    BY <1>2, DavAssumption DEF DavId, UniqueId
  <2>2. /\ InFlight("created", id[1]) => InFlight("created", id[1])'
        /\ Tells("enabled", id) => Tells("enabled", id)'
    BY <1>1, <2>1, AppendKeeps
  <2>3. CASE id \in enabled
    <3>1. MountedOrComing(id)
      BY <1>2, <2>3 DEF ServicesSettle
    <3>2. ~Credentials!Idle(<<id, TRUE>>) => ~Credentials!Idle(<<id, TRUE>>)'
      BY <1>1 DEF credentialsVars, Credentials!Idle
    <3>3. QED
      BY <1>1, <2>2, <3>1, <3>2 DEF MountedOrComing
  <2>4. CASE id \notin enabled
    <3>1. CASE signal.kind = "created" /\ id[1] = a
      BY <3>1, <1>1, <2>1, AppendKeeps DEF MountedOrComing
    <3>2. CASE signal.kind = "enabled" /\ id = <<a, signal.service>>
      <4>1. id[1] = a /\ id[2] = signal.service
        BY <3>2
      <4>2. Tells("enabled", id)'
        BY <3>2, <4>1, <1>1, <2>1, AppendKeeps
      <4>3. QED
        BY <4>2 DEF MountedOrComing
    <3>3. QED
      BY <1>2, <2>4, <3>1, <3>2
  <2>5. QED
    BY <2>3, <2>4
<1>3. QED
  BY <1>2 DEF ServicesSettle

(* A signal that no mount waits for is taken. *)
LEMMA DispatchedServices ==
    ASSUME TypeOK, ServicesSettle, signals # <<>>, Dispatched, UNCHANGED files,
           \A id \in (enabled \cap DavId) \ files :
              /\ ~Credentials!Idle(<<id, TRUE>>) => ~Credentials!Idle(<<id, TRUE>>)'
              /\ \A stage \in {"wallet", "realm"} : coros'[<<id, stage>>] = coros[<<id, stage>>]
              /\ \/ signals[1].kind = "created" /\ signals[1].account = id[1]
                 \/ /\ signals[1].kind = "enabled"
                    /\ signals[1].account = id[1] /\ signals[1].service = id[2]
                 => ~Credentials!Idle(<<id, TRUE>>)'
    PROVE  ServicesSettle'
<1>1. signals' = Tail(signals) /\ UNCHANGED enabled
  BY DEF Dispatched, dbVars
<1>2. ASSUME NEW id \in (enabled \cap DavId) \ files PROVE MountedOrComing(id)'
  <2>1. id \in UniqueId /\ MountedOrComing(id)
    BY <1>2, PlacesTyped DEF ServicesSettle
  <2>2. InFlight("created", id[1]) => MountedOrComing(id)'
    <3>1. InFlight("created", id[1]) =>
             InFlight("created", id[1])' \/ ~Credentials!Idle(<<id, TRUE>>)'
      BY <1>1, <1>2, <2>1, TailKeeps
    <3>2. QED
      BY <3>1 DEF MountedOrComing
  <2>3. Tells("enabled", id) => MountedOrComing(id)'
    <3>1. Tells("enabled", id) => Tells("enabled", id)' \/ ~Credentials!Idle(<<id, TRUE>>)'
      BY <1>1, <1>2, <2>1, TailKeeps
    <3>2. QED
      BY <3>1 DEF MountedOrComing
  <2>4. QED
    BY <1>2, <2>1, <2>2, <2>3 DEF MountedOrComing
<1>3. QED
  BY <1>1, <1>2 DEF ServicesSettle, MountedOrComing

(* Steps of coroutines of an enabled service only bring its mount on. *)
LEMMA CoroutineServices ==
    ASSUME ~Failures, Known, SignalsOrderly, ServicesSettle, NEW i \in UniqueId,
           \/ CredentialsLookup(i) \/ CredentialsError(i) \/ CredentialsFinished(i)
           \/ WalletAnswer(i) \/ RealmAnswer(i) \/ UnmountAnswer(i),
           UNCHANGED <<dbVars, daemonVars>>
    PROVE  ServicesSettle'
<1> SUFFICES ASSUME NEW id \in enabled \cap DavId PROVE MountedOrComing(id)'
  BY DEF ServicesSettle, dbVars
<1>0. /\ coros \in [UniqueId \X Stage -> Nat] /\ files \subseteq UniqueId
      /\ UNCHANGED <<enabled, signals>> /\ id \in UniqueId /\ MountedOrComing(id)
      /\ <<id, TRUE>> \in Request /\ Credentials!TypeOK
      /\ accounts[id[1]] = "live"
  BY RequestKnown, PlacesTyped
     DEF Known, TypeOK, KioTypeOK, dbVars, daemonVars, ServicesSettle, SignalsOrderly
<1>a. ASSUME id \in files => id \in files',
             ~Credentials!Idle(<<id, TRUE>>) => ~Credentials!Idle(<<id, TRUE>>)',
             \A stage \in {"wallet", "realm"} : coros[<<id, stage>>] > 0 => coros'[<<id, stage>>] > 0
      PROVE  MountedOrComing(id)'
  BY <1>a, <1>0 DEF MountedOrComing, InFlight, Tells
<1>b. UNCHANGED credentialsVars
         => (~Credentials!Idle(<<id, TRUE>>) => ~Credentials!Idle(<<id, TRUE>>)')
  BY DEF credentialsVars, Credentials!Idle
<1>1. CASE CredentialsLookup(i)
  <2>1. UNCHANGED <<coros, files>>
    BY <1>1 DEF CredentialsLookup
  <2>2. PICK hasHandle \in BOOLEAN, tries \in Credentials!Tries, complete \in {TRUE, ~Failures} :
           Credentials!getCredentials(<<i, hasHandle>>, tries, accounts[i[1]] = "live", complete)
    BY <1>1 DEF CredentialsLookup
  <2>3. complete = TRUE
    BY SwitchAssumption
  <2>4. <<i, hasHandle>> \in Request
    BY RequestKnown
  <2>5. <<id, TRUE>> # <<i, hasHandle>> \/ (accounts[i[1]] = "live") = TRUE
    BY <1>0
  <2>6. ~Credentials!Idle(<<id, TRUE>>) => ~Credentials!Idle(<<id, TRUE>>)'
    BY <1>0, <2>2, <2>3, <2>4, <2>5, LookupKeeps
  <2>7. QED
    BY <1>a, <2>1, <2>6
<1>2. CASE CredentialsError(i)
  <2>1. UNCHANGED <<coros, files>> /\ i # id
    BY <1>2, <1>0 DEF CredentialsError, CredentialsFailed
  <2>2. PICK hasHandle \in BOOLEAN : Credentials!Answered(<<i, hasHandle>>)
    BY <1>2 DEF CredentialsError, CredentialsFailed
  <2>3. <<i, hasHandle>> \in Request /\ <<i, hasHandle>> # <<id, TRUE>>
    BY <2>1, RequestKnown
  <2>4. ~Credentials!Idle(<<id, TRUE>>) => ~Credentials!Idle(<<id, TRUE>>)'
    BY <1>0, <2>2, <2>3, AnsweredKeeps
  <2>5. QED
    BY <1>a, <2>1, <2>4
<1>3. CASE CredentialsFinished(i)
  <2>1. /\ coros' = [coros EXCEPT ![<<i, "wallet">>] = @ + 1] /\ UNCHANGED files
        /\ Credentials!Answered(<<i, TRUE>>)
    BY <1>3 DEF CredentialsFinished
  <2>2. CASE i = id
    <3>1. coros'[<<id, "wallet">>] > 0
      BY <1>0, <2>1, <2>2 DEF Stage
    <3>2. QED
      BY <3>1 DEF MountedOrComing
  <2>3. CASE i # id
    <3>1. <<i, TRUE>> \in Request /\ <<i, TRUE>> # <<id, TRUE>>
      BY <2>3, RequestKnown
    <3>2. ~Credentials!Idle(<<id, TRUE>>) => ~Credentials!Idle(<<id, TRUE>>)'
      BY <1>0, <2>1, <3>1, AnsweredKeeps
    <3>3. \A stage \in {"wallet", "realm"} : coros'[<<id, stage>>] = coros[<<id, stage>>]
      BY <1>0, <2>1, <2>3 DEF Stage
    <3>4. QED
      BY <1>a, <2>1, <3>2, <3>3
  <2>4. QED
    BY <2>2, <2>3
<1>4. CASE WalletAnswer(i)
  <2>1. /\ coros' = [coros EXCEPT ![<<i, "wallet">>] = @ - 1, ![<<i, "realm">>] = @ + 1]
        /\ UNCHANGED <<files, credentialsVars>>
    BY <1>4 DEF WalletAnswer, WalletOpened, Resume
  <2>2. CASE i = id
    <3>1. coros'[<<id, "realm">>] = coros[<<id, "realm">>] + 1 /\ coros[<<id, "realm">>] \in Nat
      BY <1>0, <2>1, <2>2 DEF Stage
    <3>2. QED
      BY <3>1 DEF MountedOrComing
  <2>3. CASE i # id
    <3>1. \A stage \in {"wallet", "realm"} : coros'[<<id, stage>>] = coros[<<id, stage>>]
      BY <1>0, <2>1, <2>3 DEF Stage
    <3>2. QED
      BY <1>a, <1>b, <2>1, <3>1
  <2>4. QED
    BY <2>2, <2>3
<1>5. CASE RealmAnswer(i)
  <2>1. /\ files' = files \cup {i} /\ UNCHANGED credentialsVars
        /\ coros' = [coros EXCEPT ![<<i, "realm">>] = @ - 1]
    BY <1>5 DEF RealmAnswer, RealmFetched, Return
  <2>2. CASE i = id
    BY <2>1, <2>2 DEF MountedOrComing
  <2>3. CASE i # id
    <3>1. \A stage \in {"wallet", "realm"} : coros'[<<id, stage>>] = coros[<<id, stage>>]
      BY <1>0, <2>1, <2>3 DEF Stage
    <3>2. QED
      BY <1>a, <1>b, <2>1, <3>1
  <2>4. QED
    BY <2>2, <2>3
<1>6. CASE UnmountWalletOpened(i)
  <2>1. /\ files' = files \ {i} /\ UNCHANGED credentialsVars
        /\ coros[<<i, "unmount">>] > 0
        /\ coros' = [coros EXCEPT ![<<i, "unmount">>] = @ - 1]
    BY <1>6 DEF UnmountWalletOpened, Return
  <2>2. i # id
    BY <2>1 DEF Known, NothingStaleInFlight
  <2>3. \A stage \in {"wallet", "realm"} : coros'[<<id, stage>>] = coros[<<id, stage>>]
    BY <1>0, <2>1, <2>2 DEF Stage
  <2>4. QED
    BY <1>a, <1>b, <2>1, <2>2, <2>3
<1>7. QED
  BY <1>1, <1>2, <1>3, <1>4, <1>5, <1>6 DEF UnmountAnswer

LEMMA ServicesStep ==
    ASSUME ~Overlap, ~Failures, Known, SignalsOrderly, ServicesSettle, [Next]_vars
    PROVE  ServicesSettle'
<1>0. TypeOK /\ Credentials!TypeOK
  BY DEF Known, TypeOK, KioTypeOK
<1>a. UNCHANGED credentialsVars
         => \A id : ~Credentials!Idle(<<id, TRUE>>) => ~Credentials!Idle(<<id, TRUE>>)'
  BY DEF credentialsVars, Credentials!Idle
<1>1. ASSUME NEW a \in Account, NEW S \in SUBSET Service, CreateAccount(a, S)
      PROVE  ServicesSettle'
  <2> DEFINE signal == [kind |-> "created", account |-> a]
  <2>1. /\ signal \in Signal /\ Change(a, signal) /\ signal.account = a /\ signal.kind = "created"
        /\ enabled' = enabled \cup ({a} \X S)
    BY <1>0, <1>1, CreateAccountChange
  <2> HIDE DEF signal
  <2>2. \A id \in enabled' \ enabled : id[1] = a
    BY <2>1
  <2>3. QED
    BY <1>0, <2>1, <2>2, ChangeServices
<1>2. ASSUME NEW a \in Account, NEW s \in Service, ToggleService(a, s)
      PROVE  ServicesSettle'
  <2>1. PICK signal \in Signal :
           /\ signal.account = a /\ signal.service = s /\ Change(a, signal)
           /\ \/ signal.kind = "enabled" /\ enabled' = enabled \cup {<<a, s>>}
              \/ signal.kind = "disabled" /\ enabled' = enabled \ {<<a, s>>}
    BY <1>0, <1>2, ToggleServiceChange
  <2>2. \A id \in enabled' \ enabled : signal.kind = "enabled" /\ id = <<a, signal.service>>
    BY <2>1
  <2>3. QED
    BY <1>0, <2>1, <2>2, ChangeServices
<1>3. ASSUME NEW a \in Account, RemoveAccount(a)
      PROVE  ServicesSettle'
  <2> DEFINE signal == [kind |-> "removed", account |-> a]
  <2>1. /\ signal \in Signal /\ Change(a, signal) /\ signal.account = a
        /\ enabled' = {id \in enabled : id[1] # a}
    BY <1>0, <1>3, RemoveAccountChange
  <2> HIDE DEF signal
  <2>2. enabled' \ enabled = {}
    BY <2>1
  <2>3. QED
    BY <1>0, <2>1, <2>2, ChangeServices
<1>4. CASE UNCHANGED <<credentialsVars, coros, files, enabled, signals>>
  BY <1>4, <1>a DEF ServicesSettle, MountedOrComing, InFlight, Tells
<1>5. CASE accountCreated
  <2> DEFINE a == Head(signals).account
             Ids == {id \in DavId : /\ id[1] = a
                                     /\ id[2] \in {s \in Service : <<a, s>> \in enabled}
                                     /\ ~isEnabled(id)}
  <2>1. /\ signals # <<>> /\ Head(signals).kind = "created" /\ Dispatched
        /\ enableService(Ids, TRUE, 1)
    BY <1>0, <1>5, CreatedFindsAccount DEF onAccountCreated
  <2>2. /\ UNCHANGED <<files, coros>> /\ Head(signals) = signals[1]
        /\ Credentials!start(Ids \X {TRUE}, 1)
    BY <1>0, <2>1 DEF enableService, TypeOK
  <2>3. ASSUME NEW id \in (enabled \cap DavId) \ files
        PROVE  /\ ~Credentials!Idle(<<id, TRUE>>) => ~Credentials!Idle(<<id, TRUE>>)'
               /\ signals[1].account = id[1] => ~Credentials!Idle(<<id, TRUE>>)'
    <3>1. id \in UniqueId /\ <<id, TRUE>> \in Request
      BY <1>0, <2>3, PlacesTyped DEF Request
    <3>2. id = <<id[1], id[2]>> /\ id[2] \in Service
      BY <3>1 DEF UniqueId
    <3>3. signals[1].account = id[1] => id \in Ids
      BY <2>2, <2>3, <3>2 DEF isEnabled
    <3> HIDE DEF Ids
    <3>4. signals[1].account = id[1] => <<id, TRUE>> \in Ids \X {TRUE}
      BY <3>3
    <3>5. QED
      BY <1>0, <2>2, <3>1, <3>4, 1 > 0, StartKeeps
  <2>4. QED
    BY <1>0, <2>1, <2>2, <2>3, DispatchedServices
<1>6. CASE accountRemoved
  <2>1. /\ signals # <<>> /\ Head(signals).kind = "removed" /\ Dispatched
        /\ disableService({id \in files : id[1] = Head(signals).account}, 1)
    BY <1>6 DEF accountRemoved, onAccountRemoved, Receive
  <2>2. signals[1].kind = "removed" /\ UNCHANGED <<files, credentialsVars>>
    BY <1>0, <2>1 DEF TypeOK, disableService
  <2>3. \A id \in UniqueId : \A stage \in {"wallet", "realm"} :
           coros'[<<id, stage>>] = coros[<<id, stage>>]
    BY <1>0, <2>1, UnmountsStart
  <2>4. QED
    BY <1>0, <1>a, <2>1, <2>2, <2>3, PlacesTyped, DispatchedServices
<1>7. CASE enabledChanged
  <2> DEFINE signal == signals[1]
             id0 == <<signal.account, signal.service>>
             n == monitors[signal.account]
  <2>1. /\ 1 \in DOMAIN signals /\ signals # <<>> /\ Dispatched
        /\ id0 \in UniqueId /\ signal.kind \in {"enabled", "disabled"}
        /\ n \in Nat /\ n > 0
        /\ signal.kind = "enabled" => onServiceEnabled(id0, TRUE, n)
        /\ signal.kind = "disabled" => onServiceDisabled(id0, n)
    BY <1>7, EnabledChangedReaches
  <2>2. CASE signal.kind = "disabled"
    <3>1. disableService({i \in DavId : i = id0 /\ isEnabled(i)}, n)
      BY <2>1, <2>2 DEF onServiceDisabled
    <3>2. UNCHANGED <<files, credentialsVars>>
      BY <3>1 DEF disableService
    <3>3. \A id \in UniqueId : \A stage \in {"wallet", "realm"} :
             coros'[<<id, stage>>] = coros[<<id, stage>>]
      BY <1>0, <2>1, <3>1, UnmountsStart
    <3>4. QED
      BY <1>0, <1>a, <2>1, <2>2, <3>2, <3>3, PlacesTyped, DispatchedServices
  <2>3. CASE signal.kind = "enabled"
    <3> DEFINE Ids == {i \in DavId : i = id0 /\ ~isEnabled(i)}
    <3>1. enableService(Ids, TRUE, n)
      BY <2>1, <2>3 DEF onServiceEnabled
    <3>2. UNCHANGED <<files, coros>> /\ Credentials!start(Ids \X {TRUE}, n)
      BY <3>1 DEF enableService
    <3>3. ASSUME NEW id \in (enabled \cap DavId) \ files
          PROVE  /\ ~Credentials!Idle(<<id, TRUE>>) => ~Credentials!Idle(<<id, TRUE>>)'
                 /\ signal.account = id[1] /\ signal.service = id[2]
                       => ~Credentials!Idle(<<id, TRUE>>)'
      <4>1. id \in UniqueId /\ <<id, TRUE>> \in Request
        BY <1>0, <3>3, PlacesTyped DEF Request
      <4>2. id = <<id[1], id[2]>>
        BY <4>1 DEF UniqueId
      <4>3. signal.account = id[1] /\ signal.service = id[2] => id \in Ids
        BY <3>3, <4>2 DEF isEnabled
      <4> HIDE DEF Ids
      <4>4. signal.account = id[1] /\ signal.service = id[2] => <<id, TRUE>> \in Ids \X {TRUE}
        BY <4>3
      <4>5. QED
        BY <1>0, <2>1, <3>2, <4>1, <4>4, StartKeeps
    <3>4. QED
      BY <1>0, <2>1, <2>3, <3>2, <3>3, DispatchedServices
  <2>4. QED
    BY <2>1, <2>2, <2>3
<1>8. CASE Restart
  <2>1. AllQuiet /\ UNCHANGED <<files, enabled>>
    BY <1>8 DEF Restart, ProcessEnds, dbVars
  <2>2. ASSUME NEW id \in enabled \cap DavId PROVE id \in files
    <3>1. id \in UniqueId /\ id[1] \in Account
      BY <1>0, <2>2 DEF TypeOK, UniqueId
    <3>2. Quiet(id[1])
      BY <2>1, <3>1 DEF AllQuiet
    <3>3. MountedOrComing(id)
      BY <2>2 DEF ServicesSettle
    <3>4. QED
      BY <3>1, <3>2, <3>3, QuietWaits
  <2>3. QED
    BY <2>1, <2>2 DEF ServicesSettle, MountedOrComing
<1>9. ASSUME NEW id \in UniqueId,
             \/ InEventLoop(CredentialsLookup(id))
             \/ InEventLoop(CredentialsError(id))
             \/ CredentialsResponse(id)
             \/ InEventLoop(WalletAnswer(id))
             \/ InEventLoop(RealmAnswer(id))
             \/ InEventLoop(UnmountAnswer(id))
      PROVE  ServicesSettle'
  <2>1. CredentialsResponse(id) => InEventLoop(CredentialsFinished(id))
    BY ResponseFinishes DEF Known
  <2>2. QED
    BY <1>9, <2>1, CoroutineServices DEF InEventLoop
<1>10. CASE StartDaemon \/ UNCHANGED vars
  BY <1>10, <1>4 DEF StartDaemon, vars, kioVars, dbVars, daemonVars
<1>11. QED
  BY <1>1, <1>2, <1>3, <1>5, <1>6, <1>7, <1>8, <1>9, <1>10, CredentialsJobCases
    DEF Next, Dispatch

--------------------------------------------------------------------------------
(* The theorems. *)

LEMMA KnownAlways ==
    ASSUME ~Overlap
    PROVE  Spec => []Known
<1>1. TypeOK /\ NothingStaleInFlight /\ NoAccountUnmonitored /\ NullHandleNeverUsed => Known
  BY DEF Known
<1>2. QED
  BY <1>1, TypeCorrect, NothingStale, LiveAccountsMonitored, NullHandlesSafe, PTL

LEMMA AlwaysOrderly ==
    ASSUME ~Overlap
    PROVE  Spec => []SignalsOrderly
<1>1. Known /\ SignalsOrderly /\ [Next]_vars => SignalsOrderly'
  BY OrderlyStep DEF Known
<1>2. QED
  BY <1>1, InitOrderly, KnownAlways, PTL DEF Spec

(* Nothing stays mounted: once everything about an account is handled, each of its *)
(* places is of an enabled service, whatever was created, toggled and removed      *)
(* before and however often kded was restarted (kioservices.cpp:57-76, 92-104,     *)
(* 240-290).                                                                       *)
THEOREM DisabledUnmounted ==
    ASSUME ~Overlap, ~Failures
    PROVE  Spec => []DisabledIsUnmounted
<1>1. Init => PlacesSettle
  BY DEF Init, KioInit, PlacesSettle
<1>2. Known /\ SignalsOrderly /\ PlacesSettle /\ [Next]_vars => PlacesSettle'
  BY PlacesStep
<1>3. Known /\ PlacesSettle => DisabledIsUnmounted
  BY QuietWaits, PlacesTyped DEF Known, PlacesSettle, DisabledIsUnmounted
<1>4. QED
  BY <1>1, <1>2, <1>3, KnownAlways, AlwaysOrderly, PTL DEF Spec

(* Nothing is forgotten: once everything about an account is handled, each of its  *)
(* enabled storage services is mounted, also when it was enabled before kded was   *)
(* restarted (kioservices.cpp:40-55, 78-90, 126-238).                              *)
THEOREM EnabledMounted ==
    ASSUME ~Overlap, ~Failures
    PROVE  Spec => []EnabledIsMounted
<1>1. Init => ServicesSettle
  BY DEF Init, ServicesSettle
<1>2. Known /\ SignalsOrderly /\ ServicesSettle /\ [Next]_vars => ServicesSettle'
  BY ServicesStep
<1>3. Known /\ ServicesSettle => EnabledIsMounted
  BY QuietWaits, PlacesTyped DEF Known, ServicesSettle, EnabledIsMounted
<1>4. QED
  BY <1>1, <1>2, <1>3, KnownAlways, AlwaysOrderly, PTL DEF Spec

(* What takes the signal of a removal from the queue. *)
LEMMA RemovalStep ==
    ASSUME ~Overlap, Known, SignalsOrderly, SignalsOrderly', [Next]_vars, restarts' = restarts,
           NEW a \in Account, InFlight("removed", a), ~InFlight("removed", a)',
           NEW id \in files, id[1] = a
    PROVE  coros'[<<id, "unmount">>] > 0
<1>0. TypeOK /\ TypeOK' /\ id \in UniqueId
  <2>1. TypeOK /\ TypeOK'
    BY TypeStep DEF Known
  <2>2. QED
    BY <2>1, PlacesTyped
<1>1. CASE accountRemoved /\ Head(signals).account = a
  <2> DEFINE Ids == {i \in files : i[1] = Head(signals).account}
  <2>1. disableService(Ids, 1)
    BY <1>1 DEF accountRemoved, onAccountRemoved
  <2>2. id \in Ids /\ 1 > 0
    BY <1>1
  <2> HIDE DEF Ids
  <2>3. QED
    BY <1>0, <2>1, <2>2, UnmountsStart
<1>2. ASSUME NEW signal \in Signal, signals' = Append(signals, signal) PROVE FALSE
  BY <1>0, <1>2, AppendKeeps
<1>3. ASSUME UNCHANGED signals PROVE FALSE
  BY <1>3 DEF InFlight
<1>4. ASSUME signals # <<>>, signals' = Tail(signals),
             ~(signals[1].kind = "removed" /\ signals[1].account = a)
      PROVE  FALSE
  BY <1>0, <1>4, TailKeeps
<1>5. ASSUME NEW b \in Account, NEW signal \in Signal, Change(b, signal) PROVE FALSE
  BY <1>2, <1>5 DEF Change, SignalsOrderly
<1>6. ASSUME signals # <<>> PROVE Head(signals) = signals[1]
  BY <1>0, <1>6 DEF TypeOK
<1>7. ASSUME NEW b \in Account,
             \/ \E S \in SUBSET Service : CreateAccount(b, S)
             \/ \E s \in Service : ToggleService(b, s)
             \/ RemoveAccount(b)
      PROVE  FALSE
  <2>1. ASSUME NEW S \in SUBSET Service, CreateAccount(b, S) PROVE FALSE
    BY <1>0, <1>5, <2>1, CreateAccountChange
  <2>2. ASSUME NEW s \in Service, ToggleService(b, s) PROVE FALSE
    BY <1>0, <1>5, <2>2, ToggleServiceChange
  <2>3. ASSUME RemoveAccount(b) PROVE FALSE
    BY <1>0, <1>5, <2>3, RemoveAccountChange
  <2>4. QED
    BY <1>7, <2>1, <2>2, <2>3
<1>8. ASSUME accountCreated \/ enabledChanged PROVE FALSE
  BY <1>0, <1>4, <1>6, <1>8, CreatedFindsAccount DEF enabledChanged, Receive, Dispatched
<1>9. ASSUME Restart \/ StartDaemon \/ UNCHANGED vars PROVE FALSE
  BY <1>0, <1>3, <1>9 DEF Restart, StartDaemon, vars, daemonVars, TypeOK
<1>10. ASSUME NEW i \in UniqueId, CredentialsResponse(i) PROVE FALSE
  BY <1>3, <1>10, ResponseFinishes DEF Known, InEventLoop, daemonVars
<1>11. ASSUME UNCHANGED daemonVars PROVE FALSE
  BY <1>3, <1>11 DEF daemonVars
<1>12. Next
  BY <1>9
<1>13. ASSUME NEW i \in UniqueId,
              \/ InEventLoop(CredentialsLookup(i)) \/ InEventLoop(CredentialsError(i))
              \/ InEventLoop(WalletAnswer(i)) \/ InEventLoop(RealmAnswer(i))
              \/ InEventLoop(UnmountAnswer(i))
       PROVE  FALSE
  BY <1>11, <1>13 DEF InEventLoop
<1>14. accountRemoved
  BY <1>7, <1>8, <1>9, <1>10, <1>12, <1>13, CredentialsJobCases DEF Next, Dispatch
<1>15. QED
  BY <1>1, <1>4, <1>6, <1>14 DEF accountRemoved, Receive, Dispatched

(* The signal of a removal is never lost while kded runs: it is taken only by      *)
(* starting the unmount of every place of the account, failing wallets included,   *)
(* and kded does not die of it (kded_accounts.cpp:91-97, kioservices.cpp:57-76).   *)
THEOREM RemovalReaches ==
    ASSUME ~Overlap
    PROVE  Spec => RemovalReachesPlugins
<1>1. Known /\ SignalsOrderly /\ SignalsOrderly' /\ [Next]_vars
         => [\A a \in Account :
               InFlight("removed", a) /\ ~InFlight("removed", a)' /\ restarts' = restarts =>
                  /\ daemon' # "crashed"
                  /\ \A id \in files : id[1] = a => coros'[<<id, "unmount">>] > 0]_vars
  BY RemovalStep DEF SignalsOrderly
<1>2. QED
  BY <1>1, KnownAlways, AlwaysOrderly, PTL DEF Spec, RemovalReachesPlugins
================================================================================
