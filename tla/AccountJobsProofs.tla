---------------------------- MODULE AccountJobsProofs ----------------------------
(* Theorems about the jobs that change accounts, for any accounts, services and   *)
(* number of jobs at the same time.                                               *)
EXTENDS AccountJobs, TLAPS

--------------------------------------------------------------------------------
(* The inductive invariant. *)

(* What a toggle is to write of its account follows from what it found. *)
TogglesCount ==
    \A j \in Job : IsRunning(j) /\ jobs[j].write.kind = "toggle" =>
       LET write == jobs[j].write IN
       write.on <=> write.enable \/ write.found \ {write.service} # {}

IInv == TypeOK /\ TogglesCount

LEMMA JobStates ==
    ASSUME TypeOK, NEW j \in Job
    PROVE  \/ jobs[j] = New /\ ~IsRunning(j)
           \/ jobs[j] = Finished /\ ~IsRunning(j)
           \/ jobs[j] \in Running /\ IsRunning(j) /\ jobs[j].write \in Write
  BY DEF TypeOK, Running, New, Finished, IsRunning

LEMMA WriteTypes ==
    ASSUME NEW write \in Write
    PROVE  /\ write.account \in Account
           /\ write.kind \in {"toggle", "rename", "remove"}
           /\ write.kind = "toggle" => /\ write.service \in Service
                                       /\ write.enable \in BOOLEAN /\ write.on \in BOOLEAN
                                       /\ write.found \subseteq Service
  BY DEF Write

LEMMA NewIsNotRunning == New.state # "running" /\ Finished.state # "running"
  BY DEF New, Finished

LEMMA InitIInv == Init => IInv
<1> SUFFICES ASSUME Init PROVE IInv
  OBVIOUS
<1>1. jobs = [j \in Job |-> New]
  BY DEF Init
<1>2. TypeOK
  BY <1>1 DEF Init, TypeOK
<1>3. \A j \in Job : ~IsRunning(j)
  BY <1>1, NewIsNotRunning DEF IsRunning
<1>4. QED
  BY <1>2, <1>3 DEF IInv, TogglesCount

--------------------------------------------------------------------------------
(* Each step preserves the invariant. *)

(* Job k has nothing to do with the step. *)
Same(k) == jobs'[k] = jobs[k]

(* Jobs that finish or stay what they are. *)
LEMMA FinishKeeps ==
    ASSUME IInv, NEW J \in SUBSET Job, Finish(J)
    PROVE  /\ jobs' \in [Job -> {New, Finished} \cup Running]
           /\ TogglesCount'
<1>1. jobs' = [j \in Job |-> IF j \in J THEN Finished ELSE jobs[j]]
  BY DEF Finish
<1>2. jobs' \in [Job -> {New, Finished} \cup Running]
  BY <1>1 DEF IInv, TypeOK
<1>3. ASSUME NEW k \in Job
      PROVE  jobs'[k] = Finished \/ jobs'[k] = jobs[k]
  BY <1>1
<1>4. \A k \in Job : IsRunning(k)' => jobs'[k] = jobs[k]
  BY <1>3, NewIsNotRunning DEF IsRunning
<1>5. QED
  BY <1>2, <1>4 DEF IInv, TogglesCount, IsRunning

(* A job starts and waits for the database. *)
LEMMA SyncKeeps ==
    ASSUME IInv, NEW j \in Job, NEW write \in Write, Sync(j, write),
           write.kind = "toggle" =>
              (write.on <=> write.enable \/ write.found \ {write.service} # {})
    PROVE  /\ jobs' \in [Job -> {New, Finished} \cup Running]
           /\ TogglesCount'
<1> DEFINE run == [state |-> "running", write |-> write]
<1>1. jobs' = [jobs EXCEPT ![j] = run] /\ jobs \in [Job -> {New, Finished} \cup Running]
  BY DEF Sync, IInv, TypeOK
<1>2. run \in Running /\ run.write = write
  BY DEF Running
<1> HIDE DEF run
<1>3. jobs' \in [Job -> {New, Finished} \cup Running]
  BY <1>1, <1>2
<1>4. ASSUME NEW k \in Job, IsRunning(k)', jobs'[k].write.kind = "toggle"
      PROVE  jobs'[k].write.on <=>
                jobs'[k].write.enable \/ jobs'[k].write.found \ {jobs'[k].write.service} # {}
  <2>1. CASE k = j
    <3>1. jobs'[k].write = write
      BY <2>1, <1>1, <1>2
    <3>2. QED
      BY <3>1, <1>4, Zenon
  <2>2. CASE k # j
    <3>1. jobs'[k] = jobs[k]
      BY <2>2, <1>1
    <3>2. QED
      BY <3>1, <1>4, Zenon DEF IInv, TogglesCount, IsRunning
  <2>3. QED
    BY <2>1, <2>2
<1>5. TogglesCount'
  BY <1>4, Zenon DEF TogglesCount
<1>6. QED
  BY <1>3, <1>5

(* The variables of the database and signond, for a step that leaves them alone. *)
LEMMA StaysTyped ==
    ASSUME TypeOK, UNCHANGED dbVars, UNCHANGED <<identities, refused>>,
           forgetting' \subseteq Job \X Account,
           jobs' \in [Job -> {New, Finished} \cup Running]
    PROVE  TypeOK'
  BY DEF TypeOK, dbVars

LEMMA NothingToDoStep == ASSUME IInv, NEW j \in Job, NothingToDo(j) PROVE IInv'
<1>1. Finish({j}) /\ UNCHANGED <<dbVars, signonVars>>
  BY DEF NothingToDo
<1>2. jobs' \in [Job -> {New, Finished} \cup Running] /\ TogglesCount'
  BY <1>1, FinishKeeps
<1>3. QED
  BY <1>1, <1>2, StaysTyped DEF IInv, TypeOK, signonVars

LEMMA ToggleServiceStep ==
    ASSUME IInv, NEW j \in Job, NEW a \in Account, NEW s \in Service \cup {NoService},
           NEW enable \in BOOLEAN, ToggleService(j, a, s, enable)
    PROVE  IInv'
<1>1. CASE a \in accounts /\ s # NoService
  <2> DEFINE others == EnabledServices(a) \ {s} # {}
             write == [kind |-> "toggle", account |-> a, service |-> s, enable |-> enable,
                       on |-> enable \/ others, found |-> EnabledServices(a)]
  <2>1. Sync(j, write) /\ UNCHANGED <<dbVars, signonVars>>
    BY <1>1 DEF ToggleService
  <2>2. s \in Service /\ EnabledServices(a) \in SUBSET Service
    BY <1>1 DEF EnabledServices
  <2>3. (enable \/ others) \in BOOLEAN
    OBVIOUS
  <2>4. write \in Write
    <3> HIDE DEF others
    <3>1. QED
      BY <2>2, <2>3 DEF Write
  <2>5. write.on <=> write.enable \/ write.found \ {write.service} # {}
    OBVIOUS
  <2> HIDE DEF write
  <2>6. jobs' \in [Job -> {New, Finished} \cup Running] /\ TogglesCount'
    BY <2>1, <2>4, <2>5, SyncKeeps
  <2>7. QED
    BY <2>1, <2>6, StaysTyped DEF IInv, TypeOK, signonVars
<1>2. CASE ~(a \in accounts /\ s # NoService)
  BY <1>2, NothingToDoStep DEF ToggleService
<1>3. QED
  BY <1>1, <1>2

LEMMA PlainWrite ==
    ASSUME NEW a \in Account, NEW kind \in {"rename", "remove"}
    PROVE  LET write == [kind |-> kind, account |-> a]
           IN  write \in Write /\ write.kind # "toggle"
  BY DEF Write

LEMMA ChangeDisplayNameStep ==
    ASSUME IInv, NEW j \in Job, NEW a \in Account, NEW isEmpty \in BOOLEAN,
           ChangeDisplayName(j, a, isEmpty)
    PROVE  IInv'
<1>1. CASE a \in accounts /\ ~isEmpty
  <2>1. Sync(j, [kind |-> "rename", account |-> a]) /\ UNCHANGED <<dbVars, signonVars>>
    BY <1>1 DEF ChangeDisplayName
  <2>2. jobs' \in [Job -> {New, Finished} \cup Running] /\ TogglesCount'
    BY <2>1, PlainWrite, SyncKeeps
  <2>3. QED
    BY <2>1, <2>2, StaysTyped DEF IInv, TypeOK, signonVars
<1>2. CASE ~(a \in accounts /\ ~isEmpty)
  BY <1>2, NothingToDoStep DEF ChangeDisplayName
<1>3. QED
  BY <1>1, <1>2

LEMMA RemoveAccountStep ==
    ASSUME IInv, NEW j \in Job, NEW a \in Account, RemoveAccount(j, a)
    PROVE  IInv'
<1>1. CASE a \in accounts
  <2>1. /\ Sync(j, [kind |-> "remove", account |-> a])
        /\ forgetting' = forgetting \cup {j} \X (identities \cap {a})
        /\ UNCHANGED dbVars /\ UNCHANGED <<identities, refused>>
    BY <1>1 DEF RemoveAccount
  <2>2. jobs' \in [Job -> {New, Finished} \cup Running] /\ TogglesCount'
    BY <2>1, PlainWrite, SyncKeeps
  <2>3. forgetting' \subseteq Job \X Account
    BY <2>1 DEF IInv, TypeOK
  <2>4. QED
    BY <2>1, <2>2, <2>3, StaysTyped DEF IInv
<1>2. CASE a \notin accounts
  BY <1>2, NothingToDoStep DEF RemoveAccount
<1>3. QED
  BY <1>1, <1>2

LEMMA SyncedStep ==
    ASSUME IInv, NEW j \in Job, Synced(j)
    PROVE  IInv'
<1> DEFINE write == jobs[j].write
           id == <<write.account, write.service>>
<1>1. /\ IsRunning(j) /\ write.account \in accounts
      /\ IF write.kind = "toggle"
         THEN /\ on' = IF write.on THEN on \cup {write.account} ELSE on \ {write.account}
              /\ enabled' = IF write.enable THEN enabled \cup {id} ELSE enabled \ {id}
         ELSE UNCHANGED <<on, enabled>>
      /\ Finish({j}) /\ UNCHANGED <<accounts, identities, forgetting, refused>>
  BY DEF Synced, signonVars
<1>2. jobs' \in [Job -> {New, Finished} \cup Running] /\ TogglesCount'
  BY <1>1, FinishKeeps
<1>3. write.kind = "toggle" => write.service \in Service
  BY <1>1, JobStates, WriteTypes DEF IInv
<1> HIDE DEF write
<1>4. on' \subseteq accounts /\ enabled' \subseteq accounts \X Service
  BY <1>1, <1>3 DEF IInv, TypeOK
<1>5. QED
  BY <1>1, <1>2, <1>4 DEF IInv, TypeOK

LEMMA AccountGoneStep ==
    ASSUME IInv, NEW a \in Account, AccountGone(a)
    PROVE  IInv'
<1>1. /\ accounts' = accounts \ {a} /\ on' = on \ {a}
      /\ enabled' = {id \in enabled : id[1] # a}
      /\ Finish(Waiting("remove", a)) /\ UNCHANGED <<identities, forgetting, refused>>
  BY DEF AccountGone, signonVars
<1>2. Waiting("remove", a) \in SUBSET Job
  BY DEF Waiting
<1>3. jobs' \in [Job -> {New, Finished} \cup Running] /\ TogglesCount'
  BY <1>1, <1>2, FinishKeeps
<1>4. enabled' \subseteq accounts' \X Service
  BY <1>1 DEF IInv, TypeOK
<1>5. QED
  BY <1>1, <1>3, <1>4 DEF IInv, TypeOK

LEMMA IdentityAnsweredStep ==
    ASSUME IInv, NEW j \in Job, NEW a \in Account, IdentityAnswered(j, a)
    PROVE  IInv'
<1>1. /\ forgetting' = forgetting \ {<<j, a>>}
      /\ identities' \subseteq identities /\ refused' \subseteq refused \cup {a}
      /\ UNCHANGED <<accounts, on, enabled, jobs>>
  BY DEF IdentityAnswered, IdentityRemoved, IdentityStays, dbVars
<1>2. QED
  BY <1>1 DEF IInv, TypeOK, TogglesCount, IsRunning

LEMMA NextStep == ASSUME IInv, Next PROVE IInv'
<1>1. CASE \E j \in Job, a \in Account, s \in Service \cup {NoService}, enable \in BOOLEAN :
              ToggleService(j, a, s, enable)
  BY <1>1, ToggleServiceStep
<1>2. CASE \E j \in Job, a \in Account, isEmpty \in BOOLEAN : ChangeDisplayName(j, a, isEmpty)
  BY <1>2, ChangeDisplayNameStep
<1>3. CASE \E j \in Job, a \in Account : RemoveAccount(j, a)
  BY <1>3, RemoveAccountStep
<1>4. CASE \E j \in Job : Synced(j)
  BY <1>4, SyncedStep
<1>5. CASE \E a \in Account : AccountGone(a)
  BY <1>5, AccountGoneStep
<1>6. CASE \E j \in Job, a \in Account : IdentityAnswered(j, a)
  BY <1>6, IdentityAnsweredStep
<1>7. QED
  BY <1>1, <1>2, <1>3, <1>4, <1>5, <1>6 DEF Next, Removed, RemovedElsewhere

(* The invariant is inductive. *)
LEMMA Inductive == Spec => []IInv
<1>1. IInv /\ UNCHANGED vars => IInv'
  BY DEF IInv, TypeOK, TogglesCount, IsRunning, vars, dbVars, signonVars
<1>2. IInv /\ [Next]_vars => IInv'
  BY <1>1, NextStep
<1>3. QED
  BY InitIInv, <1>2, PTL DEF Spec

--------------------------------------------------------------------------------
(* The theorems. *)

(* The database and the jobs keep their types (accountservicetogglejob.cpp:14-30). *)
THEOREM TypeCorrect == Spec => []TypeOK
<1>1. IInv => TypeOK
  BY DEF IInv
<1>2. QED
  BY Inductive, <1>1, PTL

(* The action of ToggleSettles, for job j. *)
Settles(j) ==
    LET write == jobs[j].write IN
    IsRunning(j) /\ jobs'[j] = Finished /\ write.kind = "toggle" /\ NotOvertaken(write) =>
       (write.account \in on' <=> \E s \in Service : <<write.account, s>> \in enabled')

(* The write of a toggle leaves its account enabled when it enables a service of it *)
(* or has found another one.                                                      *)
LEMMA SyncedSettles ==
    ASSUME IInv, NEW j \in Job, Synced(j)
    PROVE  Settles(j)
<1> DEFINE write == jobs[j].write
           a == write.account
           s == write.service
<1> SUFFICES ASSUME write.kind = "toggle", NotOvertaken(write)
             PROVE  a \in on' <=> \E t \in Service : <<a, t>> \in enabled'
  BY DEF Settles
<1>1. /\ IsRunning(j)
      /\ on' = IF write.on THEN on \cup {a} ELSE on \ {a}
      /\ enabled' = IF write.enable THEN enabled \cup {<<a, s>>} ELSE enabled \ {<<a, s>>}
  BY DEF Synced
<1>2. s \in Service /\ write.enable \in BOOLEAN /\ write.on \in BOOLEAN
  BY <1>1, JobStates, WriteTypes DEF IInv
<1>3. write.on <=> write.enable \/ write.found \ {s} # {}
  BY <1>1 DEF IInv, TogglesCount
<1>4. ~write.enable => write.found \ {s} = {t \in Service : <<a, t>> \in enabled} \ {s}
  BY DEF EnabledServices, NotOvertaken
<1> HIDE DEF write, s
<1>5. a \in on' <=> write.on
  BY <1>1, <1>2
<1>6. CASE write.enable
  <2>1. <<a, s>> \in enabled'
    BY <1>1, <1>6
  <2>2. QED
    BY <2>1, <1>2, <1>3, <1>5, <1>6
<1>7. CASE ~write.enable
  <2>1. \A t \in Service : <<a, t>> \in enabled' <=> t \in write.found \ {s}
    BY <1>1, <1>4, <1>7
  <2>2. write.found \ {s} # {} <=> \E t \in Service : <<a, t>> \in enabled'
    BY <2>1, <1>4, <1>7
  <2>3. QED
    BY <2>2, <1>3, <1>5, <1>7
<1>8. QED
  BY <1>6, <1>7

(* No other step ends a toggle. *)
LEMMA FinishedBySynced ==
    ASSUME IInv, Next, NEW j \in Job, IsRunning(j), jobs'[j] = Finished,
           jobs[j].write.kind = "toggle"
    PROVE  Synced(j)
<1>1. jobs[j] # Finished /\ jobs[j] # New
  BY NewIsNotRunning DEF IsRunning
<1>2. \A k \in Job : \A write : Sync(k, write) => jobs[k] # New
  <2>1. SUFFICES ASSUME NEW k \in Job, NEW write, Sync(k, write), jobs[k] = New
                 PROVE  FALSE
    OBVIOUS
  <2>2. jobs'[j] = jobs[j]
    BY <2>1, <1>1 DEF Sync, IInv, TypeOK
  <2>3. QED
    BY <2>2, <1>1
<1>3. ASSUME NEW J \in SUBSET Job, Finish(J) PROVE j \in J
  BY <1>3, <1>1 DEF Finish
<1>4. ASSUME NEW k \in Job, NothingToDo(k), jobs[k] = New PROVE FALSE
  BY <1>4, <1>1, <1>3 DEF NothingToDo
<1>5. ASSUME NEW a \in Account, AccountGone(a) PROVE FALSE
  <2>1. j \in Waiting("remove", a)
    BY <1>5, <1>3 DEF AccountGone, Waiting
  <2>2. QED
    BY <2>1 DEF Waiting
<1>6. ASSUME NEW k \in Job, NEW a \in Account, IdentityAnswered(k, a) PROVE FALSE
  BY <1>6, <1>1 DEF IdentityAnswered, IdentityRemoved, IdentityStays
<1>7. ASSUME NEW k \in Job, Synced(k) PROVE k = j
  BY <1>7, <1>3 DEF Synced
<1>8. ASSUME NEW k \in Job, NEW a \in Account,
             \/ \E s \in Service \cup {NoService}, enable \in BOOLEAN :
                   ToggleService(k, a, s, enable)
             \/ \E isEmpty \in BOOLEAN : ChangeDisplayName(k, a, isEmpty)
             \/ RemoveAccount(k, a)
      PROVE  FALSE
  BY <1>8, <1>2, <1>4 DEF ToggleService, ChangeDisplayName, RemoveAccount
<1>9. QED
  BY <1>5, <1>6, <1>7, <1>8 DEF Next, Removed, RemovedElsewhere

(* A toggle leaves its account enabled exactly when one of its services is, unless *)
(* it disables a service and another one of the account has changed meanwhile,      *)
(* whatever other jobs run (accountservicetogglejob.cpp:92-123).                    *)
THEOREM TogglesSettle == Spec => ToggleSettles
<1>1. ASSUME IInv, [Next]_vars, NEW j \in Job PROVE Settles(j)
  <2>1. SUFFICES ASSUME IsRunning(j), jobs'[j] = Finished, jobs[j].write.kind = "toggle"
                 PROVE  Settles(j)
    BY DEF Settles
  <2>2. CASE Next
    BY <2>1, <2>2, FinishedBySynced, SyncedSettles, <1>1
  <2>3. CASE UNCHANGED vars
    BY <2>1, <2>3, NewIsNotRunning DEF vars, IsRunning
  <2>4. QED
    BY <2>2, <2>3, <1>1
<1>2. IInv /\ [Next]_vars => [\A j \in Job : Settles(j)]_vars
  BY <1>1
<1>3. QED
  BY Inductive, <1>2, PTL DEF Spec, ToggleSettles, Settles

(* The action of FinishedRemovalIsGone, for job j. *)
GoneWhenFinished(j) ==
    IsRunning(j) /\ jobs[j].write.kind = "remove" /\ jobs'[j] = Finished =>
       jobs[j].write.account \notin accounts'

(* Only a job that waits for the removal of this very account is ended by it. *)
LEMMA RemovalEnds ==
    ASSUME IInv, Next, NEW j \in Job
    PROVE  GoneWhenFinished(j)
<1> SUFFICES ASSUME IsRunning(j), jobs[j].write.kind = "remove", jobs'[j] = Finished
             PROVE  jobs[j].write.account \notin accounts'
  BY DEF GoneWhenFinished
<1>1. jobs[j] # Finished /\ jobs[j] # New
  BY NewIsNotRunning DEF IsRunning
<1>2. ASSUME NEW J \in SUBSET Job, Finish(J) PROVE j \in J
  BY <1>2, <1>1 DEF Finish
<1>3. ASSUME NEW k \in Job, NEW write, Sync(k, write), jobs[k] = New PROVE FALSE
  <2>1. jobs'[j] = jobs[j]
    BY <1>3, <1>1 DEF Sync, IInv, TypeOK
  <2>2. QED
    BY <2>1, <1>1
<1>4. ASSUME NEW k \in Job, NothingToDo(k), jobs[k] = New PROVE FALSE
  BY <1>4, <1>1, <1>2 DEF NothingToDo
<1>5. ASSUME NEW k \in Job, NEW a \in Account,
             \/ \E s \in Service \cup {NoService}, enable \in BOOLEAN :
                   ToggleService(k, a, s, enable)
             \/ \E isEmpty \in BOOLEAN : ChangeDisplayName(k, a, isEmpty)
             \/ RemoveAccount(k, a)
      PROVE  FALSE
  BY <1>5, <1>3, <1>4 DEF ToggleService, ChangeDisplayName, RemoveAccount
<1>6. ASSUME NEW k \in Job, Synced(k) PROVE FALSE
  BY <1>6, <1>2 DEF Synced
<1>7. ASSUME NEW k \in Job, NEW a \in Account, IdentityAnswered(k, a) PROVE FALSE
  BY <1>7, <1>1 DEF IdentityAnswered, IdentityRemoved, IdentityStays
<1>8. ASSUME NEW a \in Account, AccountGone(a) PROVE jobs[j].write.account \notin accounts'
  <2>1. j \in Waiting("remove", a) /\ accounts' = accounts \ {a}
    BY <1>8, <1>2 DEF AccountGone, Waiting
  <2>2. QED
    BY <2>1 DEF Waiting
<1>9. QED
  BY <1>5, <1>6, <1>7, <1>8 DEF Next, Removed, RemovedElsewhere

(* A job that removes an account finishes only when that account has gone, however *)
(* many accounts go at the same time (removeaccountjob.cpp:58-62).                *)
THEOREM RemovalsEnd == Spec => FinishedRemovalIsGone
<1>1. ASSUME IInv, [Next]_vars, NEW j \in Job PROVE GoneWhenFinished(j)
  <2>1. CASE Next
    BY <2>1, <1>1, RemovalEnds
  <2>2. CASE UNCHANGED vars
    BY <2>2, NewIsNotRunning DEF vars, IsRunning, GoneWhenFinished
  <2>3. QED
    BY <2>1, <2>2, <1>1
<1>2. IInv /\ [Next]_vars => [\A j \in Job : GoneWhenFinished(j)]_vars
  BY <1>1
<1>3. QED
  BY Inductive, <1>2, PTL DEF Spec, FinishedRemovalIsGone, GoneWhenFinished

--------------------------------------------------------------------------------
(* Removals go on. *)

RInv == IInv /\ RemovalGoesOn

(* The part of RemovalGoesOn that is about job j. *)
GoesOn(j) ==
    IsRunning(j) /\ jobs[j].write.kind = "remove" =>
       LET a == jobs[j].write.account IN
       a \in accounts /\ (a \in identities => <<j, a>> \in forgetting \/ a \in refused)

(* A step that takes away no account and no request, and starts no removal. *)
LEMMA GoesOnKept ==
    ASSUME NEW k \in Job, GoesOn(k), accounts' = accounts, identities' = identities,
           forgetting \subseteq forgetting', refused' = refused,
           jobs'[k] = jobs[k] \/ jobs'[k] = Finished
    PROVE  GoesOn(k)'
BY NewIsNotRunning DEF GoesOn, IsRunning

(* A job that starts goes on if its write is no removal, or one that is under way. *)
LEMMA StartGoesOn ==
    ASSUME RInv, NEW j \in Job, NEW write, Sync(j, write), accounts' = accounts,
           identities' = identities, forgetting \subseteq forgetting', refused' = refused,
           write.kind = "remove" =>
              /\ write.account \in accounts
              /\ write.account \in identities => <<j, write.account>> \in forgetting'
    PROVE  RemovalGoesOn'
<1>1. SUFFICES ASSUME NEW k \in Job PROVE GoesOn(k)'
  BY DEF RemovalGoesOn, GoesOn
<1>2. jobs' = [jobs EXCEPT ![j] = [state |-> "running", write |-> write]]
  BY DEF Sync
<1>3. CASE k = j
  <2>1. jobs'[k].write = write
    BY <1>2, <1>3 DEF RInv, IInv, TypeOK
  <2>2. QED
    BY <1>3, <2>1 DEF GoesOn
<1>4. CASE k # j
  <2>1. jobs'[k] = jobs[k] /\ GoesOn(k)
    BY <1>2, <1>4 DEF RInv, IInv, TypeOK, RemovalGoesOn, GoesOn
  <2>2. QED
    BY <2>1, GoesOnKept
<1>5. QED
  BY <1>3, <1>4

(* Jobs that finish wait for nothing. *)
LEMMA FinishGoesOn ==
    ASSUME RInv, NEW J, Finish(J), accounts' = accounts, UNCHANGED signonVars
    PROVE  RemovalGoesOn'
<1>1. \A k \in Job : jobs'[k] = jobs[k] \/ jobs'[k] = Finished
  BY DEF Finish
<1>2. \A k \in Job : GoesOn(k)
  BY DEF RInv, RemovalGoesOn, GoesOn
<1>3. \A k \in Job : GoesOn(k)'
  BY <1>1, <1>2, GoesOnKept DEF signonVars
<1>4. QED
  BY <1>3 DEF RemovalGoesOn, GoesOn

LEMMA NothingGoesOn == ASSUME RInv, NEW j \in Job, NothingToDo(j) PROVE RemovalGoesOn'
BY FinishGoesOn DEF NothingToDo, dbVars

LEMMA ToggleGoesOn ==
    ASSUME RInv, NEW j \in Job, NEW a \in Account, NEW s, NEW enable,
           ToggleService(j, a, s, enable)
    PROVE  RemovalGoesOn'
<1>1. CASE a \in accounts /\ s # NoService
  <2>1. PICK write : Sync(j, write) /\ write.kind = "toggle"
    BY <1>1 DEF ToggleService
  <2>2. UNCHANGED <<accounts, identities, forgetting, refused>>
    BY <1>1 DEF ToggleService, dbVars, signonVars
  <2>3. QED
    BY <2>1, <2>2, StartGoesOn
<1>2. CASE ~(a \in accounts /\ s # NoService)
  BY <1>2, NothingGoesOn DEF ToggleService
<1>3. QED
  BY <1>1, <1>2

LEMMA RenameGoesOn ==
    ASSUME RInv, NEW j \in Job, NEW a \in Account, NEW isEmpty, ChangeDisplayName(j, a, isEmpty)
    PROVE  RemovalGoesOn'
<1>1. CASE a \in accounts /\ ~isEmpty
  <2>1. PICK write : Sync(j, write) /\ write.kind = "rename"
    BY <1>1 DEF ChangeDisplayName
  <2>2. UNCHANGED <<accounts, identities, forgetting, refused>>
    BY <1>1 DEF ChangeDisplayName, dbVars, signonVars
  <2>3. QED
    BY <2>1, <2>2, StartGoesOn
<1>2. CASE ~(a \in accounts /\ ~isEmpty)
  BY <1>2, NothingGoesOn DEF ChangeDisplayName
<1>3. QED
  BY <1>1, <1>2

(* The credentials are asked to go before the account is. *)
LEMMA RemoveGoesOn ==
    ASSUME RInv, NEW j \in Job, NEW a \in Account, RemoveAccount(j, a)
    PROVE  RemovalGoesOn'
<1>1. CASE a \in accounts
  <2>1. PICK write : Sync(j, write) /\ write.account = a
    BY <1>1 DEF RemoveAccount
  <2>2. /\ forgetting' = forgetting \cup {j} \X (identities \cap {a})
        /\ UNCHANGED <<accounts, identities, refused>>
    BY <1>1 DEF RemoveAccount, dbVars
  <2>3. QED
    BY <1>1, <2>1, <2>2, StartGoesOn
<1>2. CASE a \notin accounts
  BY <1>2, NothingGoesOn DEF RemoveAccount
<1>3. QED
  BY <1>1, <1>2

(* When an account goes every job that waits for that is told. *)
LEMMA AccountGoneGoesOn ==
    ASSUME RInv, NEW a \in Account, AccountGone(a) PROVE RemovalGoesOn'
<1>1. accounts' = accounts \ {a} /\ Finish(Waiting("remove", a)) /\ UNCHANGED signonVars
  BY DEF AccountGone
<1>2. SUFFICES ASSUME NEW k \in Job, IsRunning(k)', jobs'[k].write.kind = "remove"
               PROVE  /\ jobs'[k].write.account \in accounts'
                      /\ jobs'[k].write.account \in identities =>
                            \/ <<k, jobs'[k].write.account>> \in forgetting
                            \/ jobs'[k].write.account \in refused
  BY <1>1 DEF RemovalGoesOn, signonVars
<1>3. jobs'[k] = jobs[k] /\ k \notin Waiting("remove", a)
  BY <1>1, <1>2, NewIsNotRunning DEF Finish, IsRunning
<1>4. QED
  BY <1>1, <1>2, <1>3 DEF RInv, RemovalGoesOn, IsRunning, Waiting

LEMMA NextGoesOn == RInv /\ [Next]_vars => RemovalGoesOn'
<1> SUFFICES ASSUME RInv, [Next]_vars PROVE RemovalGoesOn'
  OBVIOUS
<1>1. ASSUME NEW j \in Job, Synced(j) PROVE RemovalGoesOn'
  BY <1>1, FinishGoesOn DEF Synced
<1>2. ASSUME NEW j \in Job, NEW a \in Account, IdentityAnswered(j, a) PROVE RemovalGoesOn'
  BY <1>2 DEF IdentityAnswered, IdentityRemoved, IdentityStays, dbVars, RInv, RemovalGoesOn,
              IsRunning
<1>3. CASE UNCHANGED vars
  BY <1>3 DEF vars, dbVars, signonVars, RInv, RemovalGoesOn, IsRunning
<1>4. QED
  BY <1>1, <1>2, <1>3, ToggleGoesOn, RenameGoesOn, RemoveGoesOn, AccountGoneGoesOn
     DEF Next, Removed, RemovedElsewhere

(* However many jobs and processes remove one account, a job that waits for its   *)
(* removal can still be told: the account is there, and its own request to signond *)
(* is under way unless one was refused (removeaccountjob.cpp:58-69).              *)
THEOREM RemovalsGoOn == Spec => []RemovalGoesOn
<1>1. Init => RInv
  BY InitIInv, NewIsNotRunning DEF Init, RInv, RemovalGoesOn, IsRunning
<1>2. RInv /\ [Next]_vars => RInv'
  <2>1. IInv /\ UNCHANGED vars => IInv'
    BY DEF IInv, TypeOK, TogglesCount, IsRunning, vars, dbVars, signonVars
  <2>2. QED
    BY <2>1, NextStep, NextGoesOn DEF RInv
<1>3. RInv => RemovalGoesOn
  BY DEF RInv
<1>4. QED
  BY <1>1, <1>2, <1>3, PTL DEF Spec
================================================================================
