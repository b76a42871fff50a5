---------------------------- MODULE DaemonHistoryProofs ----------------------------
(* Theorems about what is lost when changes overlap, requests fail and kded starts  *)
(* anew, for any accounts, services, logins and bounds: a place differs from the    *)
(* database only when one of the four things that DaemonHistory names has happened  *)
(* to it since it last agreed, and a removal is missed only when kded dies of a     *)
(* null handle.                                                                     *)
EXTENDS MountsSettleProofs, DaemonHistory

--------------------------------------------------------------------------------
(* The inductive invariant. *)

(* What is under way for a place that is not wanted is followed by a signal that    *)
(* takes it back, and the place itself leaves.                                      *)
DisabledLeaves(id) ==
    /\ MountOnTheWay(id) => \E i \in DOMAIN signals : TellsToUnmount(signals[i], id)
    /\ id \in files =>
          UnmountOnTheWay(id) \/ \E i \in DOMAIN signals : TellsToUnmount(signals[i], id)
    /\ \A i \in DOMAIN signals :
          TellsToMount(signals[i], id) /\ signals[i].kind = "enabled" =>
             \E j \in DOMAIN signals : j > i /\ TellsToUnmount(signals[j], id)

(* A place that is wanted is there or comes, and each signal that takes it away is  *)
(* followed by one that brings it back.                                             *)
EnabledComes(id) ==
    /\ id \in DavId =>
          \/ \E i \in DOMAIN signals : TellsToMount(signals[i], id)
          \/ ~UnmountOnTheWay(id) /\ (MountOnTheWay(id) \/ id \in files)
    /\ \A i \in DOMAIN signals :
          TellsToUnmount(signals[i], id) =>
             \E j \in DOMAIN signals : j > i /\ TellsToMount(signals[j], id)

OnTheWay(id) ==
    /\ id \in enabled => EnabledComes(id)
    /\ id \notin enabled => DisabledLeaves(id)

EnabledIsLive == \A id \in enabled : accounts[id[1]] = "live"

OnlyStorage == \A id \in UniqueId : MountOnTheWay(id) \/ id \in files => id \in DavId

HistoryInv ==
    /\ EnabledIsLive
    /\ OnlyStorage
    /\ daemon # "crashed" => \A id \in UniqueId \ disturbed : OnTheWay(id)

--------------------------------------------------------------------------------
(* A place that agrees. *)

(* When everything is handled the invariant is the property. *)
LEMMA QuietAgrees ==
    ASSUME NEW id \in UniqueId, Quiet(id[1]), OnTheWay(id), OnlyStorage
    PROVE  Agrees(id)
<1>1. id[1] \in Account /\ id[2] \in Service /\ id = <<id[1], id[2]>>
  BY DEF UniqueId
<1>2. \A i \in DOMAIN signals : ~TellsToMount(signals[i], id) /\ ~TellsToUnmount(signals[i], id)
  BY DEF Quiet, TellsToMount, TellsToUnmount
<1>3. \A stage \in Stage : coros[<<id, stage>>] = 0
  BY <1>1 DEF Quiet, NoCoroutine
<1>4. Credentials!Idle(<<id, TRUE>>)
  BY <1>1 DEF Quiet, NoCoroutine, NoRequest
<1>5. ~MountOnTheWay(id) /\ ~UnmountOnTheWay(id)
  BY <1>3, <1>4 DEF MountOnTheWay, UnmountOnTheWay, Stage
<1>6. QED
  BY <1>2, <1>5 DEF OnTheWay, EnabledComes, DisabledLeaves, OnlyStorage, Agrees

(* Where nothing is under way, a place that agrees needs nothing. *)
LEMMA AgreedIsOnTheWay ==
    ASSUME NEW id \in UniqueId, Agrees(id)',
           \A i \in DOMAIN signals' :
              ~TellsToMount(signals'[i], id) /\ ~TellsToUnmount(signals'[i], id),
           ~MountOnTheWay(id)', ~UnmountOnTheWay(id)'
    PROVE  OnTheWay(id)'
  BY DEF OnTheWay, EnabledComes, DisabledLeaves, Agrees, TellsToMount, TellsToUnmount

LEMMA SettledIsOnTheWay ==
    ASSUME NEW id \in UniqueId, Settled(id)'
    PROVE  OnTheWay(id)'
<1>1. id[1] \in Account /\ id[2] \in Service /\ id = <<id[1], id[2]>>
  BY DEF UniqueId
<1>2. Agrees(id)' /\ Quiet(id[1])'
  BY DEF Settled
<1>3. \A i \in DOMAIN signals' :
         ~TellsToMount(signals'[i], id) /\ ~TellsToUnmount(signals'[i], id)
  BY <1>2 DEF Quiet, TellsToMount, TellsToUnmount
<1>4. \A stage \in Stage : coros'[<<id, stage>>] = 0
  BY <1>1, <1>2 DEF Quiet, NoCoroutine
<1>5. Credentials!Idle(<<id, TRUE>>)'
  BY <1>1, <1>2 DEF Quiet, NoCoroutine, NoRequest
<1>6. ~MountOnTheWay(id)' /\ ~UnmountOnTheWay(id)'
  BY <1>4, <1>5 DEF MountOnTheWay, UnmountOnTheWay, Stage
<1>7. QED
  BY <1>2, <1>3, <1>6, AgreedIsOnTheWay
--------------------------------------------------------------------------------
(* Changes. *)

(* A change adds a signal that tells what it does, and none that tells otherwise. *)
LEMMA ChangeKeeps ==
    ASSUME TypeOK, daemon # "crashed", NEW id \in UniqueId, OnTheWay(id),
           NEW a \in Account, NEW signal \in Signal, Change(a, signal),
           id \in enabled' \ enabled => TellsToMount(signal, id),
           id \in enabled \ enabled' => TellsToUnmount(signal, id),
           id \in enabled' => ~TellsToUnmount(signal, id),
           id \notin enabled' => signal.kind # "enabled" \/ ~TellsToMount(signal, id)
    PROVE  OnTheWay(id)'
<1> DEFINE last == Len(signals) + 1
<1>1. signals' = Append(signals, signal) /\ UNCHANGED <<files, coros, waiting, sessions>>
  BY DEF Change, kioVars, credentialsVars
<1>2. MountOnTheWay(id)' <=> MountOnTheWay(id)
  BY <1>1 DEF MountOnTheWay, Credentials!Idle
<1>3. UnmountOnTheWay(id)' <=> UnmountOnTheWay(id)
  BY <1>1 DEF UnmountOnTheWay
<1>4. \A i \in DOMAIN signals : i \in DOMAIN signals' /\ signals'[i] = signals[i] /\ last > i
  BY <1>1, AppendHas DEF TypeOK
<1>5. \A i \in DOMAIN signals' :
         \/ i \in DOMAIN signals /\ signals'[i] = signals[i]
         \/ i = last /\ signals'[i] = signal
  BY <1>1, AppendHas
<1>6. last \in DOMAIN signals' /\ signals'[last] = signal
  BY <1>1, AppendHas
<1> HIDE DEF last
<1>7. CASE id \in enabled'
  <2>1. ASSUME id \notin enabled PROVE EnabledComes(id)'
    <3>1. TellsToMount(signals'[last], id)
      BY <1>6, <1>7, <2>1
    <3>2. QED
      BY <1>4, <1>5, <1>6, <1>7, <3>1 DEF EnabledComes, TellsToMount, TellsToUnmount
  <2>2. ASSUME id \in enabled PROVE EnabledComes(id)'
    <3>1. EnabledComes(id)
      BY <2>2 DEF OnTheWay
    <3>2. QED
      BY <1>1, <1>2, <1>3, <1>4, <1>5, <1>7, <3>1
         DEF EnabledComes, TellsToMount, TellsToUnmount
  <2>3. QED
    BY <1>7, <2>1, <2>2 DEF OnTheWay
<1>8. CASE id \notin enabled'
  <2>1. ASSUME id \in enabled PROVE DisabledLeaves(id)'
    <3>1. TellsToUnmount(signals'[last], id)
      BY <1>6, <1>8, <2>1
    <3>2. QED
      BY <1>4, <1>5, <1>6, <1>8, <3>1 DEF DisabledLeaves, TellsToMount, TellsToUnmount
  <2>2. ASSUME id \notin enabled PROVE DisabledLeaves(id)'
    <3>1. DisabledLeaves(id)
      BY <2>2 DEF OnTheWay
    <3>2. QED
      BY <1>1, <1>2, <1>3, <1>4, <1>5, <1>8, <3>1
         DEF DisabledLeaves, TellsToMount, TellsToUnmount
  <2>3. QED
    BY <1>8, <2>1, <2>2 DEF OnTheWay
<1>9. QED
  BY <1>7, <1>8

--------------------------------------------------------------------------------
(* Signals. *)

(* What taking a signal must do, and find, for a place that is not disturbed. *)
LEMMA DispatchKeeps ==
    ASSUME TypeOK, signals # <<>>, Dispatched, UNCHANGED files,
           NEW id \in UniqueId, OnTheWay(id),
           MountOnTheWay(id) => MountOnTheWay(id)',
           MountOnTheWay(id)' => 
              \/ MountOnTheWay(id)
              \/ /\ TellsToMount(signals[1], id)
                 /\ id \in enabled \/ signals[1].kind = "enabled",
           TellsToMount(signals[1], id) /\ id \in enabled \cap DavId =>
              MountOnTheWay(id)' \/ id \in files,
           UnmountOnTheWay(id) => UnmountOnTheWay(id)',
           UnmountOnTheWay(id)' => UnmountOnTheWay(id) \/ TellsToUnmount(signals[1], id),
           TellsToUnmount(signals[1], id) /\ id \in files => UnmountOnTheWay(id)',
           TellsToMount(signals[1], id) /\ id \in enabled => ~UnmountOnTheWay(id),
           TellsToUnmount(signals[1], id) => ~MountOnTheWay(id)
    PROVE  OnTheWay(id)'
<1>1. signals' = Tail(signals) /\ UNCHANGED enabled
  BY DEF Dispatched, dbVars
<1>2. /\ 1 \in DOMAIN signals
      /\ \A i \in DOMAIN signals :
            i # 1 => i - 1 \in DOMAIN signals' /\ signals'[i - 1] = signals[i]
      /\ \A i \in DOMAIN signals' : i + 1 \in DOMAIN signals /\ signals'[i] = signals[i + 1]
  BY <1>1, TailHas
<1>3. DOMAIN signals \subseteq Nat \ {0} /\ DOMAIN signals' \subseteq Nat \ {0}
  BY <1>1 DEF TypeOK
<1>4. \A i \in DOMAIN signals, j \in DOMAIN signals : j > i => j # 1
  BY <1>3
<1>5. CASE id \in enabled
  <2>1. EnabledComes(id)
    BY <1>5 DEF OnTheWay
  <2>2. ASSUME NEW i \in DOMAIN signals', TellsToUnmount(signals'[i], id)
        PROVE  \E j \in DOMAIN signals' : j > i /\ TellsToMount(signals'[j], id)
    <3>1. i + 1 \in DOMAIN signals /\ TellsToUnmount(signals[i + 1], id)
      BY <1>2, <2>2
    <3>2. PICK j \in DOMAIN signals : j > i + 1 /\ TellsToMount(signals[j], id)
      BY <2>1, <3>1 DEF EnabledComes
    <3>3. j # 1 /\ j - 1 > i
      BY <1>3, <3>2
    <3>4. QED
      BY <1>2, <3>2, <3>3
  <2>3. ASSUME id \in DavId
        PROVE  \/ \E i \in DOMAIN signals' : TellsToMount(signals'[i], id)
               \/ ~UnmountOnTheWay(id)' /\ (MountOnTheWay(id)' \/ id \in files)
    <3>1. ASSUME TellsToUnmount(signals[1], id)
          PROVE  \E i \in DOMAIN signals' : TellsToMount(signals'[i], id)
      <4>1. PICK j \in DOMAIN signals : j > 1 /\ TellsToMount(signals[j], id)
        BY <1>2, <2>1, <3>1 DEF EnabledComes
      <4>2. QED
        BY <1>2, <1>3, <4>1
    <3>2. CASE TellsToMount(signals[1], id)
      <4>1. ~TellsToUnmount(signals[1], id)
        BY <3>2 DEF TellsToMount, TellsToUnmount
      <4>2. QED
        BY <1>5, <2>3, <3>2, <4>1
    <3>3. CASE \E i \in DOMAIN signals : i # 1 /\ TellsToMount(signals[i], id)
      BY <1>2, <3>3
    <3>4. QED
      BY <2>1, <2>3, <3>1, <3>2, <3>3 DEF EnabledComes
  <2>4. EnabledComes(id)'
    BY <2>2, <2>3 DEF EnabledComes, TellsToMount, TellsToUnmount
  <2>5. QED
    BY <1>1, <1>5, <2>4 DEF OnTheWay
<1>6. CASE id \notin enabled
  <2>1. DisabledLeaves(id)
    BY <1>6 DEF OnTheWay
  <2>2. ASSUME NEW i \in DOMAIN signals, TellsToUnmount(signals[i], id)
        PROVE  \/ i = 1
               \/ \E j \in DOMAIN signals' : TellsToUnmount(signals'[j], id)
    BY <1>2, <2>2
  <2>3. ASSUME NEW i \in DOMAIN signals', TellsToMount(signals'[i], id),
               signals'[i].kind = "enabled"
        PROVE  \E j \in DOMAIN signals' : j > i /\ TellsToUnmount(signals'[j], id)
    <3>1. /\ i + 1 \in DOMAIN signals /\ TellsToMount(signals[i + 1], id)
          /\ signals[i + 1].kind = "enabled"
      BY <1>2, <2>3
    <3>2. PICK j \in DOMAIN signals : j > i + 1 /\ TellsToUnmount(signals[j], id)
      BY <2>1, <3>1 DEF DisabledLeaves
    <3>3. j # 1 /\ j - 1 > i
      BY <1>3, <3>2
    <3>4. QED
      BY <1>2, <3>2, <3>3
  <2>4. ASSUME MountOnTheWay(id)'
        PROVE  \E j \in DOMAIN signals' : TellsToUnmount(signals'[j], id)
    <3>1. CASE MountOnTheWay(id)
      BY <2>1, <2>2, <3>1 DEF DisabledLeaves
    <3>2. CASE TellsToMount(signals[1], id) /\ signals[1].kind = "enabled"
      <4>1. PICK j \in DOMAIN signals : j > 1 /\ TellsToUnmount(signals[j], id)
        BY <1>2, <2>1, <3>2 DEF DisabledLeaves
      <4>2. QED
        BY <1>2, <1>3, <4>1
    <3>3. QED
      BY <1>6, <2>4, <3>1, <3>2
  <2>5. ASSUME id \in files
        PROVE  \/ UnmountOnTheWay(id)'
               \/ \E j \in DOMAIN signals' : TellsToUnmount(signals'[j], id)
    BY <2>1, <2>2, <2>5 DEF DisabledLeaves
  <2>6. DisabledLeaves(id)'
    BY <2>3, <2>4, <2>5 DEF DisabledLeaves, TellsToMount, TellsToUnmount
  <2>7. QED
    BY <1>1, <1>6, <2>6 DEF OnTheWay
<1>7. QED
  BY <1>5, <1>6

(* What starting mounts does to what is under way. *)
LEMMA MountsStart ==
    ASSUME TypeOK, NEW Ids, NEW hasHandle \in BOOLEAN, NEW n \in Nat,
           enableService(Ids, hasHandle, n), NEW id \in UniqueId
    PROVE  /\ MountOnTheWay(id) => MountOnTheWay(id)'
           /\ MountOnTheWay(id)' => MountOnTheWay(id) \/ id \in Ids
           /\ id \in Ids /\ hasHandle = TRUE /\ n > 0 => MountOnTheWay(id)'
           /\ UnmountOnTheWay(id)' <=> UnmountOnTheWay(id)
           /\ UNCHANGED files
<1>1. /\ Credentials!start(Ids \X {hasHandle}, n) /\ UNCHANGED <<coros, files>>
      /\ Credentials!TypeOK /\ <<id, TRUE>> \in Request
  BY DEF enableService, TypeOK, KioTypeOK, Request
<1>2. ASSUME ~Credentials!Idle(<<id, TRUE>>) \/ (id \in Ids /\ hasHandle = TRUE /\ n > 0)
      PROVE  ~Credentials!Idle(<<id, TRUE>>)'
  <2>1. id \in Ids /\ hasHandle = TRUE => <<id, TRUE>> \in Ids \X {hasHandle}
    OBVIOUS
  <2>2. QED
    BY <1>1, <1>2, <2>1, StartKeeps
<1>3. ASSUME Credentials!Idle(<<id, TRUE>>), id \notin Ids
      PROVE  Credentials!Idle(<<id, TRUE>>)'
  <2>1. <<id, TRUE>> \notin Ids \X {hasHandle}
    BY <1>3
  <2>2. QED
    BY <1>1, <1>3, <2>1, StartIdle
<1>4. QED
  BY <1>1, <1>2, <1>3 DEF MountOnTheWay, UnmountOnTheWay

(* What starting unmounts does to what is under way. *)
LEMMA UnmountsBegin ==
    ASSUME TypeOK, NEW Ids, NEW n \in Nat, disableService(Ids, n), NEW id \in UniqueId
    PROVE  /\ MountOnTheWay(id)' <=> MountOnTheWay(id)
           /\ UnmountOnTheWay(id) => UnmountOnTheWay(id)'
           /\ UnmountOnTheWay(id)' => UnmountOnTheWay(id) \/ id \in Ids
           /\ id \in Ids /\ n > 0 => UnmountOnTheWay(id)'
           /\ UNCHANGED files
<1>1. /\ \A stage \in {"wallet", "realm"} : coros'[<<id, stage>>] = coros[<<id, stage>>]
      /\ UNCHANGED <<credentialsVars, files>>
      /\ coros'[<<id, "unmount">>] >= coros[<<id, "unmount">>]
      /\ id \in Ids /\ n > 0 => coros'[<<id, "unmount">>] > 0
  BY UnmountsStart
<1>2. coros'[<<id, "unmount">>] > 0 => coros[<<id, "unmount">>] > 0 \/ id \in Ids
  BY UnmountValue DEF TypeOK, Stage
<1>3. coros[<<id, "unmount">>] \in Nat /\ coros'[<<id, "unmount">>] \in Nat
  BY SlotType DEF TypeOK, KioTypeOK, Stage
<1>4. UnmountOnTheWay(id) => UnmountOnTheWay(id)'
  BY <1>1, <1>3 DEF UnmountOnTheWay
<1>5. MountOnTheWay(id)' <=> MountOnTheWay(id)
  BY <1>1 DEF MountOnTheWay, credentialsVars, Credentials!Idle
<1>6. QED
  BY <1>1, <1>2, <1>4, <1>5 DEF UnmountOnTheWay

(* A new account's enabled services are mounted, unless an unmount is under way. *)
LEMMA CreatedKeeps ==
    ASSUME TypeOK, accountCreated, daemon' # "crashed",
           NEW id \in UniqueId, OnTheWay(id), ~Crossed(id)
    PROVE  OnTheWay(id)'
<1> DEFINE a == Head(signals).account
           Ids == {i \in DavId : /\ i[1] = a
                                 /\ i[2] \in {s \in Service : <<a, s>> \in enabled}
                                 /\ ~isEnabled(i)}
<1>1. /\ signals # <<>> /\ Head(signals).kind = "created" /\ Dispatched
      /\ enableService(Ids, TRUE, 1)
  BY DEF accountCreated, Receive, onAccountCreated
<1>2. Head(signals) = signals[1]
  BY <1>1 DEF TypeOK
<1>3. id = <<id[1], id[2]>> /\ id[2] \in Service
  BY DEF UniqueId
<1>4. id \in Ids => TellsToMount(signals[1], id) /\ id \in enabled
  BY <1>1, <1>2, <1>3 DEF TellsToMount
<1>5. TellsToMount(signals[1], id) /\ id \in enabled \cap DavId => id \in Ids \/ id \in files
  BY <1>1, <1>2, <1>3 DEF TellsToMount, isEnabled
<1>6. TellsToMount(signals[1], id) /\ id \in enabled => ~UnmountOnTheWay(id)
  BY <1>2 DEF Crossed, Dispatch
<1>7. ~TellsToUnmount(signals[1], id)
  BY <1>1, <1>2 DEF TellsToUnmount
<1> HIDE DEF Ids
<1>8. /\ MountOnTheWay(id) => MountOnTheWay(id)'
      /\ MountOnTheWay(id)' => MountOnTheWay(id) \/ id \in Ids
      /\ id \in Ids => MountOnTheWay(id)'
      /\ UnmountOnTheWay(id)' <=> UnmountOnTheWay(id)
      /\ UNCHANGED files
  BY <1>1, MountsStart, 1 > 0
<1>9. QED
  BY <1>1, <1>4, <1>5, <1>6, <1>7, <1>8, DispatchKeeps

(* A removed account's places are unmounted, unless a mount is under way. *)
LEMMA RemovedKeeps ==
    ASSUME TypeOK, accountRemoved, NEW id \in UniqueId, OnTheWay(id), ~Crossed(id)
    PROVE  OnTheWay(id)'
<1> DEFINE Ids == {i \in files : i[1] = Head(signals).account}
<1>1. /\ signals # <<>> /\ Head(signals).kind = "removed" /\ Dispatched
      /\ disableService(Ids, 1)
  BY DEF accountRemoved, Receive, onAccountRemoved
<1>2. Head(signals) = signals[1]
  BY <1>1 DEF TypeOK
<1>3. /\ ~TellsToMount(signals[1], id)
      /\ TellsToUnmount(signals[1], id) /\ id \in files <=> id \in Ids
  BY <1>1, <1>2 DEF TellsToMount, TellsToUnmount
<1>4. TellsToUnmount(signals[1], id) => ~MountOnTheWay(id)
  BY <1>2 DEF Crossed, Dispatch
<1> HIDE DEF Ids
<1>5. /\ MountOnTheWay(id)' <=> MountOnTheWay(id)
      /\ UnmountOnTheWay(id) => UnmountOnTheWay(id)'
      /\ UnmountOnTheWay(id)' => UnmountOnTheWay(id) \/ id \in Ids
      /\ id \in Ids => UnmountOnTheWay(id)'
      /\ UNCHANGED files
  BY <1>1, UnmountsBegin, 1 > 0
<1>6. QED
  BY <1>1, <1>3, <1>4, <1>5, DispatchKeeps

(* A toggled service is mounted or unmounted, unless nobody hears of it. *)
LEMMA ToggledKeeps ==
    ASSUME TypeOK, EnabledIsLive, OnlyStorage, enabledChanged,
           NEW id \in UniqueId, OnTheWay(id), ~Crossed(id), ~Unheard(id)
    PROVE  OnTheWay(id)'
<1> DEFINE signal == signals[1]
           told == <<signal.account, signal.service>>
           n == monitors[signal.account]
           found == accounts[signal.account] = "live"
<1>1. /\ signals # <<>> /\ Dispatched /\ Head(signals) = signals[1] /\ signals[1] \in Signal
      /\ signal.kind \in {"enabled", "disabled"}
  BY TailHas DEF enabledChanged, Receive, Dispatched
<1>2. /\ signal.kind = "enabled" => onServiceEnabled(told, found, n)
      /\ signal.kind = "disabled" => onServiceDisabled(told, n)
  BY <1>1 DEF enabledChanged
<1>3. told \in UniqueId /\ n \in Nat /\ found \in BOOLEAN
  BY <1>1 DEF Signal, UniqueId, TypeOK
<1>4. id = told <=> signal.account = id[1] /\ signal.service = id[2]
  BY DEF UniqueId
<1>5. id = told => n > 0
  BY <1>1, <1>3, <1>4 DEF Unheard, TellsToMount, TellsToUnmount
<1>6. /\ TellsToMount(signal, id) <=> signal.kind = "enabled" /\ id = told
      /\ TellsToUnmount(signal, id) <=> signal.kind = "disabled" /\ id = told
  BY <1>1, <1>4 DEF TellsToMount, TellsToUnmount
<1>7. /\ TellsToMount(signal, id) /\ id \in enabled => ~UnmountOnTheWay(id)
      /\ TellsToUnmount(signal, id) => ~MountOnTheWay(id)
  BY <1>1 DEF Crossed, Dispatch
<1>8. id \in enabled /\ id = told => found = TRUE
  BY <1>4 DEF EnabledIsLive
<1> HIDE DEF signal, told, n, found
<1>9. CASE signal.kind = "enabled"
  <2> DEFINE Ids == {i \in DavId : i = told /\ ~isEnabled(i)}
  <2>1. enableService(Ids, found, n)
    BY <1>2, <1>9 DEF onServiceEnabled
  <2>2. /\ id \in Ids => id = told
        /\ id = told /\ id \in DavId => id \in Ids \/ id \in files
    BY DEF isEnabled
  <2> HIDE DEF Ids
  <2>3. /\ MountOnTheWay(id) => MountOnTheWay(id)'
        /\ MountOnTheWay(id)' => MountOnTheWay(id) \/ id \in Ids
        /\ id \in Ids /\ found = TRUE /\ n > 0 => MountOnTheWay(id)'
        /\ UnmountOnTheWay(id)' <=> UnmountOnTheWay(id)
        /\ UNCHANGED files
    BY <1>3, <2>1, MountsStart
  <2>4. TellsToMount(signal, id) /\ id \in enabled \cap DavId => MountOnTheWay(id)' \/ id \in files
    BY <1>5, <1>6, <1>8, <2>2, <2>3
  <2>5. MountOnTheWay(id)' =>
           \/ MountOnTheWay(id)
           \/ TellsToMount(signal, id) /\ signal.kind = "enabled"
    BY <1>6, <1>9, <2>2, <2>3
  <2>6. ~TellsToUnmount(signal, id)
    BY <1>6, <1>9
  <2>7. QED
    BY <1>1, <1>7, <2>3, <2>4, <2>5, <2>6, DispatchKeeps DEF signal
<1>10. CASE signal.kind = "disabled"
  <2> DEFINE Ids == {i \in DavId : i = told /\ isEnabled(i)}
  <2>1. disableService(Ids, n)
    BY <1>2, <1>10 DEF onServiceDisabled
  <2>2. /\ id \in Ids => id = told
        /\ id = told /\ id \in files => id \in Ids
    BY DEF isEnabled, OnlyStorage
  <2> HIDE DEF Ids
  <2>3. /\ MountOnTheWay(id)' <=> MountOnTheWay(id)
        /\ UnmountOnTheWay(id) => UnmountOnTheWay(id)'
        /\ UnmountOnTheWay(id)' => UnmountOnTheWay(id) \/ id \in Ids
        /\ id \in Ids /\ n > 0 => UnmountOnTheWay(id)'
        /\ UNCHANGED files
    BY <1>3, <2>1, UnmountsBegin
  <2>4. /\ ~TellsToMount(signal, id)
        /\ TellsToUnmount(signal, id) /\ id \in files => UnmountOnTheWay(id)'
        /\ UnmountOnTheWay(id)' => UnmountOnTheWay(id) \/ TellsToUnmount(signal, id)
    BY <1>5, <1>6, <1>10, <2>2, <2>3
  <2>5. QED
    BY <1>1, <1>7, <2>3, <2>4, DispatchKeeps DEF signal
<1>11. QED
  BY <1>1, <1>9, <1>10

--------------------------------------------------------------------------------
(* Coroutines. *)

(* What a coroutine step must do for a place that is not disturbed. *)
LEMMA ProgressKeeps ==
    ASSUME UNCHANGED <<enabled, signals>>, NEW id \in UniqueId, OnTheWay(id),
           MountOnTheWay(id)' => MountOnTheWay(id),
           UnmountOnTheWay(id)' => UnmountOnTheWay(id),
           id \in files' => id \in files \/ MountOnTheWay(id),
           id \in files' /\ UnmountOnTheWay(id) => UnmountOnTheWay(id)',
           id \in enabled /\ ~UnmountOnTheWay(id) /\ (MountOnTheWay(id) \/ id \in files)
              => MountOnTheWay(id)' \/ id \in files'
    PROVE  OnTheWay(id)'
<1>1. ASSUME id \in enabled PROVE EnabledComes(id)'
  BY <1>1 DEF OnTheWay, EnabledComes, TellsToMount, TellsToUnmount
<1>2. ASSUME id \notin enabled PROVE DisabledLeaves(id)'
  BY <1>2 DEF OnTheWay, DisabledLeaves, TellsToMount, TellsToUnmount
<1>3. QED
  BY <1>1, <1>2 DEF OnTheWay

(* The steps of the jobs of one request leave those of another alone. *)
LEMMA OtherJobs ==
    ASSUME Credentials!TypeOK, NEW r \in Request, NEW x \in Request, r # x
    PROVE  /\ Credentials!Answered(r) => (Credentials!Idle(x)' <=> Credentials!Idle(x))
           /\ \A tries \in Credentials!Tries : \A found, complete :
                 Credentials!getCredentials(r, tries, found, complete)
                    => (Credentials!Idle(x)' <=> Credentials!Idle(x))
<1>1. ASSUME sessions'[x] = sessions[x],
             \A t \in Credentials!Tries : waiting'[<<x, t>>] = waiting[<<x, t>>]
      PROVE  Credentials!Idle(x)' <=> Credentials!Idle(x)
  BY <1>1 DEF Credentials!Idle
<1>2. ASSUME Credentials!Answered(r) PROVE Credentials!Idle(x)' <=> Credentials!Idle(x)
  BY <1>1, <1>2 DEF Credentials!Answered, Credentials!TypeOK
<1>3. ASSUME NEW tries \in Credentials!Tries, NEW found, NEW complete,
             Credentials!getCredentials(r, tries, found, complete)
      PROVE  Credentials!Idle(x)' <=> Credentials!Idle(x)
  <2>1. sessions'[x] = sessions[x]
    BY <1>3 DEF Credentials!getCredentials, Credentials!TypeOK
  <2>2. \A t \in Credentials!Tries : waiting'[<<x, t>>] = waiting[<<x, t>>]
    BY <1>3 DEF Credentials!getCredentials, Credentials!TypeOK
  <2>3. QED
    BY <1>1, <2>1, <2>2
<1>4. QED
  BY <1>2, <1>3

(* The steps of the other places leave this one alone. *)
LEMMA OthersProgress ==
    ASSUME TypeOK, NEW i \in UniqueId, NEW id \in UniqueId, i # id,
           \/ CredentialsLookup(i) \/ CredentialsError(i) \/ CredentialsFinished(i)
           \/ WalletAnswer(i) \/ RealmAnswer(i) \/ UnmountAnswer(i)
    PROVE  /\ MountOnTheWay(id)' <=> MountOnTheWay(id)
           /\ UnmountOnTheWay(id)' <=> UnmountOnTheWay(id)
           /\ id \in files' <=> id \in files
<1>1. coros \in [UniqueId \X Stage -> Nat] /\ Credentials!TypeOK
  BY DEF TypeOK, KioTypeOK
<1>2. /\ \A stage \in Stage : coros'[<<id, stage>>] = coros[<<id, stage>>]
      /\ id \in files' <=> id \in files
  BY <1>1 DEF CredentialsLookup, CredentialsError, CredentialsFailed, CredentialsFinished,
        WalletAnswer, WalletOpened, WalletRefused, RealmAnswer, RealmFetched, UnmountAnswer,
        UnmountWalletOpened, UnmountWalletRefused, Resume, Return, Stage
<1>3. Credentials!Idle(<<id, TRUE>>)' <=> Credentials!Idle(<<id, TRUE>>)
  <2>1. CASE CredentialsLookup(i)
    <3>1. PICK h \in BOOLEAN, tries \in Credentials!Tries, complete \in {TRUE, ~Failures} :
             Credentials!getCredentials(<<i, h>>, tries, accounts[i[1]] = "live", complete)
      BY <2>1 DEF CredentialsLookup
    <3>2. <<i, h>> \in Request /\ <<id, TRUE>> \in Request /\ <<i, h>> # <<id, TRUE>>
      BY DEF Request
    <3>3. QED
      BY <1>1, <3>1, <3>2, OtherJobs
  <2>2. CASE CredentialsError(i) \/ CredentialsFinished(i)
    <3>1. PICK h \in BOOLEAN : Credentials!Answered(<<i, h>>)
      BY <2>2 DEF CredentialsError, CredentialsFailed, CredentialsFinished
    <3>2. <<i, h>> \in Request /\ <<id, TRUE>> \in Request /\ <<i, h>> # <<id, TRUE>>
      BY DEF Request
    <3>3. QED
      BY <1>1, <3>1, <3>2, OtherJobs
  <2>3. CASE WalletAnswer(i) \/ RealmAnswer(i) \/ UnmountAnswer(i)
    BY <2>3 DEF WalletAnswer, WalletOpened, WalletRefused, RealmAnswer, RealmFetched,
          UnmountAnswer, UnmountWalletOpened, UnmountWalletRefused, credentialsVars,
          Credentials!Idle
  <2>4. QED
    BY <2>1, <2>2, <2>3
<1>4. QED
  BY <1>2, <1>3 DEF MountOnTheWay, UnmountOnTheWay, Stage

(* The steps of a place bring it on, unless they give it up. *)
LEMMA OwnProgress ==
    ASSUME TypeOK, EnabledIsLive, NEW id \in UniqueId, OnTheWay(id), ~GivenUp(id),
           daemon # "crashed", UNCHANGED <<dbVars, daemonVars>>,
           \/ CredentialsLookup(id) \/ CredentialsError(id) \/ CredentialsFinished(id)
           \/ WalletAnswer(id) \/ RealmAnswer(id) \/ UnmountAnswer(id)
    PROVE  OnTheWay(id)'
<1>1. /\ coros \in [UniqueId \X Stage -> Nat] /\ Credentials!TypeOK
      /\ UNCHANGED <<enabled, signals>> /\ <<id, TRUE>> \in Request
      /\ \A h \in BOOLEAN : <<id, h>> \in Request
  BY DEF TypeOK, KioTypeOK, dbVars, daemonVars, Request
<1>2. id \in enabled => accounts[id[1]] = "live"
  BY DEF EnabledIsLive
<1>3. CASE CredentialsLookup(id)
  <2>1. PICK h \in BOOLEAN, tries \in Credentials!Tries, complete \in {TRUE, ~Failures} :
           Credentials!getCredentials(<<id, h>>, tries, accounts[id[1]] = "live", complete)
    BY <1>3 DEF CredentialsLookup
  <2>2. UNCHANGED <<coros, files>>
    BY <1>3 DEF CredentialsLookup
  <2>3. complete \in BOOLEAN /\ (accounts[id[1]] = "live") \in BOOLEAN
    BY SwitchAssumption
  <2>4. ~Credentials!Idle(<<id, TRUE>>)' => ~Credentials!Idle(<<id, TRUE>>)
    BY <1>1, <2>1, <2>3, JobSteps
  <2>5. id \in enabled => ~UNCHANGED sessions
    BY <1>2, <1>3 DEF GivenUp, InEventLoop
  <2>6. id \in enabled => complete = TRUE /\ (accounts[id[1]] = "live") = TRUE
    BY <1>2, <2>1, <2>3, <2>5 DEF Credentials!getCredentials
  <2>7. id \in enabled /\ ~Credentials!Idle(<<id, TRUE>>) => ~Credentials!Idle(<<id, TRUE>>)'
    BY <1>1, <2>1, <2>6, LookupKeeps
  <2>8. QED
    BY <1>1, <2>2, <2>4, <2>7, ProgressKeeps DEF MountOnTheWay, UnmountOnTheWay
<1>4. CASE CredentialsError(id)
  <2>1. id \notin enabled
    BY <1>2, <1>4 DEF GivenUp, InEventLoop
  <2>2. UNCHANGED <<coros, files>>
    BY <1>4 DEF CredentialsError, CredentialsFailed
  <2>3. PICK h \in BOOLEAN : Credentials!Answered(<<id, h>>)
    BY <1>4 DEF CredentialsError, CredentialsFailed
  <2>4. ~Credentials!Idle(<<id, TRUE>>)' => ~Credentials!Idle(<<id, TRUE>>)
    BY <1>1, <2>3, JobSteps
  <2>5. QED
    BY <1>1, <2>1, <2>2, <2>4, ProgressKeeps DEF MountOnTheWay, UnmountOnTheWay
<1>5. CASE CredentialsFinished(id)
  <2>1. /\ coros' = [coros EXCEPT ![<<id, "wallet">>] = @ + 1] /\ UNCHANGED files
        /\ Credentials!Answered(<<id, TRUE>>)
    BY <1>5 DEF CredentialsFinished
  <2>2. ~Credentials!Idle(<<id, TRUE>>)
    <3>1. sessions[<<id, TRUE>>] > 0 /\ sessions[<<id, TRUE>>] \in Nat
      BY <1>1, <2>1 DEF Credentials!Answered, Credentials!TypeOK
    <3>2. sessions[<<id, TRUE>>] # 0
      BY <3>1
    <3>3. QED
      BY <3>2 DEF Credentials!Idle
  <2>3. coros'[<<id, "wallet">>] > 0 /\ coros'[<<id, "unmount">>] = coros[<<id, "unmount">>]
    BY <1>1, <2>1 DEF Stage
  <2>4. QED
    BY <1>1, <2>1, <2>2, <2>3, ProgressKeeps DEF MountOnTheWay, UnmountOnTheWay
<1>6. CASE WalletOpened(id)
  <2>1. /\ coros' = [coros EXCEPT ![<<id, "wallet">>] = @ - 1, ![<<id, "realm">>] = @ + 1]
        /\ coros[<<id, "wallet">>] > 0 /\ UNCHANGED files
    BY <1>6 DEF WalletOpened, Resume
  <2>2. coros'[<<id, "realm">>] > 0 /\ coros'[<<id, "unmount">>] = coros[<<id, "unmount">>]
    BY <1>1, <2>1 DEF Stage
  <2>3. QED
    BY <1>1, <2>1, <2>2, ProgressKeeps DEF MountOnTheWay, UnmountOnTheWay
<1>7. CASE WalletRefused(id)
  <2>1. id \notin enabled
    BY <1>2, <1>7 DEF GivenUp, InEventLoop
  <2>2. /\ coros' = [coros EXCEPT ![<<id, "wallet">>] = @ - 1]
        /\ coros[<<id, "wallet">>] > 0 /\ UNCHANGED files
    BY <1>7 DEF WalletRefused, Return
  <2>3. coros'[<<id, "unmount">>] = coros[<<id, "unmount">>] /\ MountOnTheWay(id)
    BY <1>1, <2>2 DEF Stage, MountOnTheWay
  <2>4. QED
    BY <1>1, <2>1, <2>2, <2>3, ProgressKeeps DEF UnmountOnTheWay
<1>8. CASE RealmAnswer(id)
  <2>1. /\ coros' = [coros EXCEPT ![<<id, "realm">>] = @ - 1]
        /\ coros[<<id, "realm">>] > 0 /\ files' = files \cup {id}
    BY <1>8 DEF RealmAnswer, RealmFetched, Return
  <2>2. coros'[<<id, "unmount">>] = coros[<<id, "unmount">>] /\ MountOnTheWay(id)
    BY <1>1, <2>1 DEF Stage, MountOnTheWay
  <2>3. QED
    BY <1>1, <2>1, <2>2, ProgressKeeps DEF UnmountOnTheWay
<1>9. CASE UnmountWalletOpened(id)
  <2>1. /\ coros' = [coros EXCEPT ![<<id, "unmount">>] = @ - 1]
        /\ coros[<<id, "unmount">>] > 0 /\ files' = files \ {id} /\ UNCHANGED credentialsVars
    BY <1>9 DEF UnmountWalletOpened, Return
  <2>2. \A stage \in {"wallet", "realm"} : coros'[<<id, stage>>] = coros[<<id, stage>>]
    BY <1>1, <2>1 DEF Stage
  <2>3. MountOnTheWay(id)' <=> MountOnTheWay(id)
    BY <2>1, <2>2 DEF MountOnTheWay, credentialsVars, Credentials!Idle
  <2>4. UnmountOnTheWay(id)
    BY <2>1 DEF UnmountOnTheWay
  <2>5. QED
    BY <1>1, <2>1, <2>3, <2>4, ProgressKeeps
<1>10. CASE UnmountWalletRefused(id)
  <2>1. id \notin files
    BY <1>10 DEF GivenUp, InEventLoop
  <2>2. /\ coros' = [coros EXCEPT ![<<id, "unmount">>] = @ - 1]
        /\ coros[<<id, "unmount">>] > 0 /\ UNCHANGED <<files, credentialsVars>>
    BY <1>10 DEF UnmountWalletRefused, Return
  <2>3. \A stage \in {"wallet", "realm"} : coros'[<<id, stage>>] = coros[<<id, stage>>]
    BY <1>1, <2>2 DEF Stage
  <2>4. MountOnTheWay(id)' <=> MountOnTheWay(id)
    BY <2>2, <2>3 DEF MountOnTheWay, credentialsVars, Credentials!Idle
  <2>5. UnmountOnTheWay(id)
    BY <2>2 DEF UnmountOnTheWay
  <2>6. QED
    BY <1>1, <2>1, <2>2, <2>4, <2>5, ProgressKeeps
<1>11. QED
  BY <1>3, <1>4, <1>5, <1>6, <1>7, <1>8, <1>9, <1>10 DEF WalletAnswer, UnmountAnswer

LEMMA CoroutineKeeps ==
    ASSUME TypeOK, EnabledIsLive, NullHandleNeverUsed,
           NEW id \in UniqueId, OnTheWay(id), ~GivenUp(id), NEW i \in UniqueId,
           \/ InEventLoop(CredentialsLookup(i)) \/ InEventLoop(CredentialsError(i))
           \/ CredentialsResponse(i) \/ InEventLoop(WalletAnswer(i))
           \/ InEventLoop(RealmAnswer(i)) \/ InEventLoop(UnmountAnswer(i))
    PROVE  OnTheWay(id)'
<1>1. /\ daemon # "crashed" /\ UNCHANGED <<dbVars, daemonVars>>
      /\ \/ CredentialsLookup(i) \/ CredentialsError(i) \/ CredentialsFinished(i)
         \/ WalletAnswer(i) \/ RealmAnswer(i) \/ UnmountAnswer(i)
  BY ResponseFinishes DEF InEventLoop
<1>2. CASE i = id
  BY <1>1, <1>2, OwnProgress
<1>3. CASE i # id
  <2>1. UNCHANGED <<enabled, signals>>
    BY <1>1 DEF dbVars, daemonVars
  <2>2. /\ MountOnTheWay(id)' <=> MountOnTheWay(id)
        /\ UnmountOnTheWay(id)' <=> UnmountOnTheWay(id)
        /\ id \in files' <=> id \in files
    BY <1>1, <1>3, OthersProgress
  <2>3. QED
    BY <2>1, <2>2, ProgressKeeps
<1>4. QED
  BY <1>2, <1>3

--------------------------------------------------------------------------------
(* The whole. *)

(* What a start of kded finds in place is what the database has, or it is noted. *)
LEMMA RestartKeeps ==
    ASSUME Restart, NEW id \in UniqueId, ~NotRepaired(id)
    PROVE  OnTheWay(id)'
<1>1. Agrees(id)' /\ signals' = <<>>
  BY DEF NotRepaired, Agrees, Restart, ProcessEnds, dbVars
<1>2. ~MountOnTheWay(id)' /\ ~UnmountOnTheWay(id)'
  <2>1. \A stage \in Stage : coros'[<<id, stage>>] = 0
    BY DEF Restart, ProcessEnds
  <2>2. Credentials!Idle(<<id, TRUE>>)'
    BY DEF Restart, ProcessEnds, Credentials!Idle, Request
  <2>3. QED
    BY <2>1, <2>2 DEF MountOnTheWay, UnmountOnTheWay, Stage
<1>3. QED
  BY <1>1, <1>2, AgreedIsOnTheWay

(* Nothing happens to a place when nothing of the plugin and the signals changes. *)
LEMMA UnchangedKeeps ==
    ASSUME UNCHANGED <<kioVars, enabled, signals>>, NEW id \in UniqueId, OnTheWay(id)
    PROVE  OnTheWay(id)'
<1>1. Credentials!Idle(<<id, TRUE>>)' <=> Credentials!Idle(<<id, TRUE>>)
  BY DEF kioVars, credentialsVars, Credentials!Idle
<1>2. /\ MountOnTheWay(id)' <=> MountOnTheWay(id)
      /\ UnmountOnTheWay(id)' <=> UnmountOnTheWay(id)
      /\ UNCHANGED <<files, enabled, signals>>
  BY <1>1 DEF kioVars, MountOnTheWay, UnmountOnTheWay
<1>3. QED
  BY <1>2, ProgressKeeps

(* A place that nothing disturbs stays on its way, whatever the step. *)
LEMMA UndisturbedStep ==
    ASSUME TypeOK, EnabledIsLive, OnlyStorage, NullHandleNeverUsed, [Next]_vars,
           NEW id \in UniqueId, ~Disturbs(id),
           daemon # "crashed" => OnTheWay(id), daemon' # "crashed"
    PROVE  OnTheWay(id)'
<1>1. CASE Restart
  BY <1>1, RestartKeeps DEF Disturbs
<1>2. ASSUME ~Restart PROVE daemon # "crashed"
  <2>1. ASSUME NEW a \in Account, NEW signal, Change(a, signal) PROVE daemon # "crashed"
    BY <2>1 DEF Change
  <2>2. QED
    BY <1>2, <2>1, ResponseCases
       DEF Next, CreateAccount, ToggleService, RemoveAccount, StartDaemon, Dispatch,
           accountCreated, accountRemoved, enabledChanged, Receive, InEventLoop, vars,
           daemonVars
<1>3. ~Restart => OnTheWay(id)
  BY <1>2
<1>4. ASSUME NEW a \in Account, NEW S \in SUBSET Service, CreateAccount(a, S), ~Restart
      PROVE  OnTheWay(id)'
  <2> DEFINE signal == [kind |-> "created", account |-> a]
  <2>1. /\ signal \in Signal /\ Change(a, signal) /\ signal.account = a
        /\ signal.kind = "created" /\ enabled' = enabled \cup ({a} \X S)
    BY <1>4, CreateAccountChange
  <2> HIDE DEF signal
  <2>2. /\ id \in enabled' \ enabled => TellsToMount(signal, id)
        /\ ~TellsToUnmount(signal, id)
    BY <2>1 DEF TellsToMount, TellsToUnmount
  <2>3. QED
    BY <1>2, <1>3, <1>4, <2>1, <2>2, ChangeKeeps
<1>5. ASSUME NEW a \in Account, NEW s \in Service, ToggleService(a, s), ~Restart
      PROVE  OnTheWay(id)'
  <2>1. PICK signal \in Signal :
           /\ signal.account = a /\ signal.service = s /\ Change(a, signal)
           /\ \/ signal.kind = "enabled" /\ enabled' = enabled \cup {<<a, s>>}
              \/ signal.kind = "disabled" /\ enabled' = enabled \ {<<a, s>>}
    BY <1>5, ToggleServiceChange
  <2>2. signal.account = id[1] /\ signal.service = id[2] <=> id = <<a, s>>
    BY <2>1 DEF UniqueId
  <2>3. CASE signal.kind = "enabled" /\ enabled' = enabled \cup {<<a, s>>}
    <3>1. /\ TellsToMount(signal, id) <=> id = <<a, s>>
          /\ ~TellsToUnmount(signal, id)
      BY <2>2, <2>3 DEF TellsToMount, TellsToUnmount
    <3>2. QED
      BY <1>2, <1>3, <1>5, <2>1, <2>3, <3>1, ChangeKeeps
  <2>4. CASE signal.kind = "disabled" /\ enabled' = enabled \ {<<a, s>>}
    <3>1. /\ TellsToUnmount(signal, id) <=> id = <<a, s>>
          /\ ~TellsToMount(signal, id)
      BY <2>2, <2>4 DEF TellsToMount, TellsToUnmount
    <3>2. QED
      BY <1>2, <1>3, <1>5, <2>1, <2>4, <3>1, ChangeKeeps
  <2>5. QED
    BY <2>1, <2>3, <2>4
<1>6. ASSUME NEW a \in Account, RemoveAccount(a), ~Restart
      PROVE  OnTheWay(id)'
  <2> DEFINE signal == [kind |-> "removed", account |-> a]
  <2>1. /\ signal \in Signal /\ Change(a, signal) /\ signal.account = a
        /\ signal.kind = "removed" /\ enabled' = {i \in enabled : i[1] # a}
    BY <1>6, RemoveAccountChange
  <2> HIDE DEF signal
  <2>2. /\ TellsToUnmount(signal, id) <=> id[1] = a
        /\ ~TellsToMount(signal, id)
    BY <2>1 DEF TellsToMount, TellsToUnmount
  <2>3. QED
    BY <1>2, <1>3, <1>6, <2>1, <2>2, ChangeKeeps
<1>7. CASE UNCHANGED <<kioVars, enabled, signals>> /\ ~Restart
  BY <1>3, <1>7, UnchangedKeeps
<1>8. CASE Dispatch /\ ~Restart
  BY <1>3, <1>8, CreatedKeeps, RemovedKeeps, ToggledKeeps DEF Dispatch, Disturbs
<1>9. ASSUME NEW i \in UniqueId, ~Restart,
             \/ InEventLoop(CredentialsLookup(i)) \/ InEventLoop(CredentialsError(i))
             \/ CredentialsResponse(i) \/ InEventLoop(WalletAnswer(i))
             \/ InEventLoop(RealmAnswer(i)) \/ InEventLoop(UnmountAnswer(i))
      PROVE  OnTheWay(id)'
  BY <1>3, <1>9, CoroutineKeeps DEF Disturbs
<1>10. CASE (StartDaemon \/ UNCHANGED vars) /\ ~Restart
  BY <1>7, <1>10 DEF StartDaemon, vars, dbVars, daemonVars
<1>11. QED
  BY <1>1, <1>4, <1>5, <1>6, <1>8, <1>9, <1>10, CredentialsJobCases DEF Next

(* An enabled service has a live account, whatever happens. *)
LEMMA LiveStep ==
    ASSUME TypeOK, EnabledIsLive, [Next]_vars
    PROVE  EnabledIsLive'
<1>1. ASSUME NEW a \in Account, NEW S \in SUBSET Service, CreateAccount(a, S)
      PROVE  EnabledIsLive'
  <2>1. accounts' = [accounts EXCEPT ![a] = "live"] /\ enabled' = enabled \cup ({a} \X S)
    BY <1>1 DEF CreateAccount
  <2>2. \A id \in enabled' : id \in enabled \/ id[1] = a
    BY <2>1
  <2>3. QED
    BY <2>1, <2>2, PlacesTyped DEF EnabledIsLive, TypeOK, UniqueId
<1>2. ASSUME NEW a \in Account, NEW s \in Service, ToggleService(a, s)
      PROVE  EnabledIsLive'
  <2>1. /\ accounts[a] = "live" /\ accounts' = accounts
        /\ \A id \in enabled' : id \in enabled \/ id = <<a, s>>
    BY <1>2 DEF ToggleService
  <2>2. QED
    BY <2>1 DEF EnabledIsLive
<1>3. ASSUME NEW a \in Account, RemoveAccount(a)
      PROVE  EnabledIsLive'
  <2>1. /\ accounts' = [accounts EXCEPT ![a] = "gone"]
        /\ enabled' = {id \in enabled : id[1] # a}
    BY <1>3 DEF RemoveAccount
  <2>2. QED
    BY <2>1, PlacesTyped DEF EnabledIsLive, TypeOK, UniqueId
<1>4. CASE UNCHANGED <<accounts, enabled>>
  BY <1>4 DEF EnabledIsLive
<1>5. CASE StartDaemon \/ Dispatch \/ Restart \/ UNCHANGED vars
  BY <1>4, <1>5
     DEF StartDaemon, Dispatch, accountCreated, accountRemoved, enabledChanged, Dispatched,
         Restart, ProcessEnds, dbVars, vars
<1>6. ASSUME NEW i \in UniqueId,
             \/ InEventLoop(CredentialsLookup(i)) \/ InEventLoop(CredentialsError(i))
             \/ CredentialsResponse(i) \/ InEventLoop(WalletAnswer(i))
             \/ InEventLoop(RealmAnswer(i)) \/ InEventLoop(UnmountAnswer(i))
      PROVE  EnabledIsLive'
  BY <1>4, <1>6, ResponseCases DEF InEventLoop, ProcessEnds, dbVars
<1>7. QED
  BY <1>1, <1>2, <1>3, <1>5, <1>6, CredentialsJobCases DEF Next

(* Only storage services are mounted, whatever happens. *)
LEMMA StorageStep ==
    ASSUME TypeOK, NullHandleNeverUsed, OnlyStorage, [Next]_vars
    PROVE  OnlyStorage'
<1> SUFFICES ASSUME NEW id \in UniqueId, MountOnTheWay(id)' \/ id \in files', id \notin DavId
             PROVE  FALSE
  BY DEF OnlyStorage
<1>0. ~MountOnTheWay(id) /\ id \notin files
  BY DEF OnlyStorage
<1>1. ASSUME UNCHANGED <<credentialsVars, coros, files>> PROVE FALSE
  BY <1>0, <1>1 DEF credentialsVars, MountOnTheWay, Credentials!Idle
<1>2. ASSUME NEW Ids, NEW n \in Nat, disableService(Ids, n) PROVE FALSE
  BY <1>0, <1>2, UnmountsBegin
<1>3. ASSUME NEW Ids \in SUBSET DavId, NEW hasHandle \in BOOLEAN, NEW n \in Nat,
             enableService(Ids, hasHandle, n)
      PROVE  FALSE
  BY <1>0, <1>3, MountsStart
<1>4. ASSUME ProcessEnds PROVE FALSE
  <2>1. \A stage \in Stage : coros'[<<id, stage>>] = 0
    BY <1>4 DEF ProcessEnds
  <2>2. Credentials!Idle(<<id, TRUE>>)'
    BY <1>4 DEF ProcessEnds, Credentials!Idle, Request
  <2>3. QED
    BY <1>0, <1>4, <2>1, <2>2 DEF MountOnTheWay, Stage, ProcessEnds
<1>5. ASSUME \/ \E a \in Account : \/ \E S \in SUBSET Service : CreateAccount(a, S)
                                   \/ \E s \in Service : ToggleService(a, s)
                                   \/ RemoveAccount(a)
             \/ StartDaemon \/ UNCHANGED vars
      PROVE  FALSE
  BY <1>1, <1>5
     DEF CreateAccount, ToggleService, RemoveAccount, Change, StartDaemon, vars, kioVars
<1>6. ASSUME accountCreated PROVE FALSE
  <2>1. ASSUME onAccountCreated(Head(signals).account,
                                {s \in Service : <<Head(signals).account, s>> \in enabled})
        PROVE  FALSE
    BY <1>3, <2>1 DEF onAccountCreated
  <2>2. QED
    BY <1>4, <1>6, <2>1 DEF accountCreated
<1>7. ASSUME accountRemoved PROVE FALSE
  BY <1>2, <1>7 DEF accountRemoved, onAccountRemoved
<1>8. ASSUME enabledChanged PROVE FALSE
  <2> DEFINE signal == Head(signals)
             told == <<signal.account, signal.service>>
             n == monitors[signal.account]
             found == accounts[signal.account] = "live"
  <2>1. signals # <<>> /\ signal \in Signal
    BY <1>8, SignalsType DEF enabledChanged, Receive
  <2>2. n \in Nat /\ found \in BOOLEAN
    BY <2>1 DEF Signal, TypeOK
  <2>3. onServiceEnabled(told, found, n) \/ onServiceDisabled(told, n)
    BY <1>8 DEF enabledChanged
  <2> HIDE DEF told, found, n
  <2>4. QED
    BY <1>2, <1>3, <2>2, <2>3 DEF onServiceEnabled, onServiceDisabled
<1>9. ASSUME NEW i \in UniqueId,
             \/ InEventLoop(CredentialsLookup(i)) \/ InEventLoop(CredentialsError(i))
             \/ CredentialsResponse(i) \/ InEventLoop(WalletAnswer(i))
             \/ InEventLoop(RealmAnswer(i)) \/ InEventLoop(UnmountAnswer(i))
      PROVE  FALSE
  <2>1. \/ CredentialsLookup(i) \/ CredentialsError(i) \/ CredentialsFinished(i)
        \/ WalletAnswer(i) \/ RealmAnswer(i) \/ UnmountAnswer(i)
    BY <1>9, ResponseFinishes DEF InEventLoop
  <2>2. i = id
    BY <1>0, <2>1, OthersProgress
  <2>3. /\ coros \in [UniqueId \X Stage -> Nat] /\ Credentials!TypeOK
        /\ <<id, TRUE>> \in Request /\ \A h \in BOOLEAN : <<id, h>> \in Request
    BY DEF TypeOK, KioTypeOK, Request
  <2>4. Credentials!Idle(<<id, TRUE>>) /\ \A stage \in {"wallet", "realm"} : coros[<<id, stage>>] = 0
    BY <1>0, <2>3 DEF MountOnTheWay, Stage
  <2>5. Credentials!Idle(<<id, TRUE>>)'
    <3>1. CASE CredentialsLookup(id)
      <4>1. PICK h \in BOOLEAN, tries \in Credentials!Tries, complete \in {TRUE, ~Failures} :
               Credentials!getCredentials(<<id, h>>, tries, accounts[id[1]] = "live", complete)
        BY <3>1 DEF CredentialsLookup
      <4>2. complete \in BOOLEAN /\ (accounts[id[1]] = "live") \in BOOLEAN
        BY SwitchAssumption
      <4>3. QED
        BY <2>3, <2>4, <4>1, <4>2, JobSteps
    <3>2. CASE CredentialsError(id) \/ CredentialsFinished(id)
      <4>1. PICK h \in BOOLEAN : Credentials!Answered(<<id, h>>)
        BY <3>2 DEF CredentialsError, CredentialsFailed, CredentialsFinished
      <4>2. QED
        BY <2>3, <2>4, <4>1, JobSteps
    <3>3. CASE WalletAnswer(id) \/ RealmAnswer(id) \/ UnmountAnswer(id)
      BY <2>4, <3>3
         DEF WalletAnswer, WalletOpened, WalletRefused, RealmAnswer, RealmFetched, UnmountAnswer,
             UnmountWalletOpened, UnmountWalletRefused, credentialsVars, Credentials!Idle
    <3>4. QED
      BY <2>1, <2>2, <3>1, <3>2, <3>3
  <2>6. ~CredentialsFinished(id)
    <3>1. sessions[<<id, TRUE>>] = 0
      BY <2>4 DEF Credentials!Idle
    <3>2. QED
      BY <3>1 DEF CredentialsFinished, Credentials!Answered
  <2>7. ~WalletAnswer(id) /\ ~RealmAnswer(id)
    BY <2>4 DEF WalletAnswer, WalletOpened, WalletRefused, RealmAnswer, RealmFetched, Resume, Return
  <2>8. id \notin files' /\ \A stage \in {"wallet", "realm"} : coros'[<<id, stage>>] = 0
    BY <1>0, <2>1, <2>2, <2>3, <2>4, <2>6, <2>7
       DEF CredentialsLookup, CredentialsError, CredentialsFailed, UnmountAnswer,
           UnmountWalletOpened, UnmountWalletRefused, Return, Stage
  <2>9. QED
    BY <2>5, <2>8 DEF MountOnTheWay
<1>10. QED
  BY <1>4, <1>5, <1>6, <1>7, <1>8, <1>9, CredentialsJobCases
    DEF Next, Dispatch, Restart

LEMMA InitHistory == Init /\ disturbed = {} => HistoryInv
<1> SUFFICES ASSUME Init PROVE HistoryInv
  OBVIOUS
<1>1. ASSUME NEW id \in UniqueId PROVE ~MountOnTheWay(id)
  <2>1. \A stage \in Stage : coros[<<id, stage>>] = 0
    BY DEF Init, KioInit
  <2>2. Credentials!Idle(<<id, TRUE>>)
    BY DEF Init, KioInit, Credentials!Init, Credentials!Idle, Request
  <2>3. QED
    BY <2>1, <2>2 DEF MountOnTheWay, Stage
<1>2. enabled = {} /\ files = {} /\ signals = <<>>
  BY DEF Init, KioInit
<1>3. QED
  BY <1>1, <1>2 DEF HistoryInv, EnabledIsLive, OnlyStorage, OnTheWay, DisabledLeaves

LEMMA HistoryStep ==
    ASSUME TypeOK, NullHandleNeverUsed, HistoryInv, [Next /\ Observe]_historyVars
    PROVE  HistoryInv'
<1>1. [Next]_vars
  BY DEF historyVars
<1>2. EnabledIsLive' /\ OnlyStorage'
  BY <1>1, LiveStep, StorageStep DEF HistoryInv
<1>3. ASSUME daemon' # "crashed", NEW id \in UniqueId, id \notin disturbed'
      PROVE  OnTheWay(id)'
  <2>1. CASE Next /\ Observe
    <3>1. Settled(id)' \/ (id \notin disturbed /\ ~Disturbs(id))
      BY <1>3, <2>1 DEF Observe
    <3>2. CASE Settled(id)'
      BY <3>2, SettledIsOnTheWay
    <3>3. CASE id \notin disturbed /\ ~Disturbs(id)
      BY <1>1, <1>3, <3>3, UndisturbedStep DEF HistoryInv
    <3>4. QED
      BY <3>1, <3>2, <3>3
  <2>2. CASE UNCHANGED historyVars
    <3>1. id \notin disturbed /\ daemon' = daemon /\ UNCHANGED vars
      BY <1>3, <2>2 DEF historyVars, vars, daemonVars
    <3>2. OnTheWay(id)
      BY <1>3, <3>1 DEF HistoryInv
    <3>3. QED
      BY <3>1, <3>2, UnchangedKeeps DEF vars, dbVars, daemonVars
  <2>3. QED
    BY <2>1, <2>2
<1>4. QED
  BY <1>2, <1>3 DEF HistoryInv

(* The history observes only: what AccountsDaemonProofs shows of every behaviour    *)
(* holds of these too.                                                              *)
LEMMA HistoryOfSpec == HistorySpec => Spec
<1>1. [Next /\ Observe]_historyVars => [Next]_vars
  BY DEF historyVars
<1>2. QED
  BY <1>1, PTL DEF HistorySpec, Spec

(* The only ways in which a place comes to differ from the database: whatever was   *)
(* created, toggled and removed, however it overlapped, failed and was cut short    *)
(* by restarts, once everything about an account is handled, each of its places     *)
(* that nothing has disturbed is there exactly if its service is an enabled storage *)
(* service (kioservices.cpp:40-104, 126-290, kded_accounts.cpp:57-118).             *)
THEOREM UndisturbedAgree == HistorySpec => []UndisturbedPlacesAgree
<1>1. Init /\ disturbed = {} => HistoryInv
  BY InitHistory
<1>2. TypeOK /\ NullHandleNeverUsed /\ HistoryInv /\ [Next /\ Observe]_historyVars => HistoryInv'
  BY HistoryStep
<1>3. HistoryInv => UndisturbedPlacesAgree
  <2>1. \A a : Quiet(a) => daemon # "crashed"
    BY DEF Quiet
  <2>2. QED
    BY <2>1, QuietAgrees DEF HistoryInv, UndisturbedPlacesAgree
<1>4. HistorySpec => [](TypeOK /\ NullHandleNeverUsed)
  BY HistoryOfSpec, TypeCorrect, NullHandlesSafe, PTL
<1>5. QED
  BY <1>1, <1>2, <1>3, <1>4, PTL DEF HistorySpec

--------------------------------------------------------------------------------
(* Removals. *)

(* What takes the signal of a removal from the queue. *)
LEMMA RemovalLostStep ==
    ASSUME TypeOK, NullInv, [Next]_vars, restarts' = restarts,
           NEW a \in Account, InFlight("removed", a), ~InFlight("removed", a)'
    PROVE  \/ \A id \in files : id[1] = a => coros'[<<id, "unmount">>] > 0
           \/ /\ daemon' = "crashed"
              /\ Head(signals).kind = "created" /\ accounts[Head(signals).account] = "gone"
<1>1. NullHandleNeverUsed /\ \A i \in DOMAIN signals : accounts[signals[i].account] # "absent"
  BY DEF NullInv
<1>2. CASE accountRemoved /\ Head(signals).account = a
  <2> DEFINE Ids == {i \in files : i[1] = Head(signals).account}
  <2>1. disableService(Ids, 1)
    BY <1>2 DEF accountRemoved, onAccountRemoved
  <2>2. \A id \in files : id \in UniqueId /\ (id[1] = a => id \in Ids)
    BY <1>2, PlacesTyped
  <2> HIDE DEF Ids
  <2>3. ASSUME NEW id \in files, id[1] = a PROVE coros'[<<id, "unmount">>] > 0
    BY <2>1, <2>2, <2>3, UnmountsStart, 1 > 0
  <2>4. QED
    BY <2>3
<1>3. CASE accountCreated /\ ~Dispatched
  <2>1. signals # <<>> /\ Head(signals).kind = "created" /\ daemon' = "crashed"
    BY <1>3 DEF accountCreated, Receive
  <2>2. Head(signals) = signals[1] /\ 1 \in DOMAIN signals /\ signals[1] \in Signal
    BY <2>1 DEF TypeOK
  <2>3. accounts[Head(signals).account] # "live"
    BY <1>3 DEF accountCreated
  <2>4. signals[1].account \in Account
    BY <2>2 DEF Signal
  <2>5. QED
    BY <1>1, <2>1, <2>2, <2>3, <2>4 DEF TypeOK
<1>4. ASSUME UNCHANGED signals PROVE FALSE
  BY <1>4 DEF InFlight
<1>5. ASSUME signals # <<>>, Dispatched, ~(Head(signals).kind = "removed" /\ Head(signals).account = a)
      PROVE  FALSE
  BY <1>5, InFlightTail DEF Dispatched
<1>6. ASSUME NEW b \in Account, NEW signal \in Signal, Change(b, signal) PROVE FALSE
  <2>1. CASE UNCHANGED signals
    BY <1>4, <2>1
  <2>2. CASE signals' = Append(signals, signal)
    BY <2>2, InFlightAppend
  <2>3. QED
    BY <1>6, <2>1, <2>2 DEF Change
<1>7. ASSUME NEW b \in Account,
             \/ \E S \in SUBSET Service : CreateAccount(b, S)
             \/ \E s \in Service : ToggleService(b, s)
             \/ RemoveAccount(b)
      PROVE  FALSE
  <2>1. ASSUME NEW S \in SUBSET Service, CreateAccount(b, S) PROVE FALSE
    BY <1>6, <2>1, CreateAccountChange
  <2>2. ASSUME NEW s \in Service, ToggleService(b, s) PROVE FALSE
    BY <1>6, <2>2, ToggleServiceChange
  <2>3. ASSUME RemoveAccount(b) PROVE FALSE
    BY <1>6, <2>3, RemoveAccountChange
  <2>4. QED
    BY <1>7, <2>1, <2>2, <2>3
<1>8. ASSUME Restart \/ StartDaemon \/ UNCHANGED vars PROVE FALSE
  BY <1>4, <1>8 DEF Restart, StartDaemon, vars, daemonVars, TypeOK
<1>9. ASSUME NEW i \in UniqueId,
             \/ InEventLoop(CredentialsLookup(i)) \/ InEventLoop(CredentialsError(i))
             \/ CredentialsResponse(i) \/ InEventLoop(WalletAnswer(i))
             \/ InEventLoop(RealmAnswer(i)) \/ InEventLoop(UnmountAnswer(i))
      PROVE  FALSE
  BY <1>1, <1>4, <1>9, ResponseFinishes DEF InEventLoop, daemonVars
<1>10. Dispatch
  BY <1>7, <1>8, <1>9, CredentialsJobCases DEF Next
<1>11. CASE Dispatched
  BY <1>2, <1>5, <1>10, <1>11
     DEF Dispatch, accountCreated, accountRemoved, enabledChanged, Receive
<1>12. QED
  BY <1>3, <1>10, <1>11 DEF Dispatch, accountRemoved, enabledChanged

(* The one way to lose a removal: whatever overlaps, fails and restarts, as long as *)
(* kded is not restarted its signal is taken only by starting the unmount of every  *)
(* place of the account, or with kded itself, which dies of an accountCreated whose *)
(* account has gone (kded_accounts.cpp:65-69, 78-84, 91-97, kioservices.cpp:57-76). *)
THEOREM RemovalsLostByCrashOnly == Spec => RemovalLostByCrashOnly
<1>1. TypeOK /\ NullInv /\ [Next]_vars
         => [\A a \in Account :
               InFlight("removed", a) /\ ~InFlight("removed", a)' /\ restarts' = restarts =>
                  \/ \A id \in files : id[1] = a => coros'[<<id, "unmount">>] > 0
                  \/ /\ daemon' = "crashed"
                     /\ Head(signals).kind = "created"
                     /\ accounts[Head(signals).account] = "gone"]_vars
  BY RemovalLostStep
<1>2. QED
  BY <1>1, TypeCorrect, NullInductive, PTL DEF Spec, RemovalLostByCrashOnly
================================================================================
