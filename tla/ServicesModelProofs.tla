--------------------------- MODULE ServicesModelProofs ---------------------------
(* Theorems about the list model of an account's services, for any accounts,        *)
(* services and number of changes.                                                  *)
EXTENDS ServicesModel, SequenceTheorems, TLAPS

--------------------------------------------------------------------------------
(* The inductive invariant. *)

(* A row, and a signal in flight that tells the model to announce it. *)
Announced(i) ==
    \E n \in DOMAIN signals : signals[n].account = account /\ signals[n].service = services[i]

(* A row of an account that exists is as the database has it, or about to be        *)
(* announced.                                                                       *)
RowsCurrent ==
    account \in live =>
       \A i \in DOMAIN services : view[i] = Flag(account, services[i]) \/ Announced(i)

(* Handles are deleted after their accounts; the model is set to a handle, or empty.*)
SetToHandle ==
    /\ live \subseteq handles
    /\ account \in handles \cup {None}
    /\ account = None => services = <<>>

IInv ==
    /\ TypeOK
    /\ SetToHandle
    /\ RowsCurrent

--------------------------------------------------------------------------------
(* Sequences. *)

LEMMA FlagsAreSeq ==
    ASSUME NEW f, NEW n \in Nat, DOMAIN f = 1..n, f \in [1..n -> BOOLEAN]
    PROVE  f \in Seq(BOOLEAN)
  BY SeqDef, Zenon

LEMMA AppendHas ==
    ASSUME NEW S, NEW s \in Seq(S), NEW e \in S
    PROVE  /\ Append(s, e) \in Seq(S)
           /\ \A n \in DOMAIN s : n \in DOMAIN Append(s, e) /\ Append(s, e)[n] = s[n]
           /\ \E n \in DOMAIN Append(s, e) : Append(s, e)[n] = e
  OBVIOUS

(* Whatever is in a sequence is its head or is in its tail. *)
LEMMA HeadOrTail ==
    ASSUME NEW S, NEW s \in Seq(S), s # <<>>
    PROVE  /\ Head(s) \in S /\ Tail(s) \in Seq(S)
           /\ \A n \in DOMAIN s :
                 s[n] = Head(s) \/ \E m \in DOMAIN Tail(s) : Tail(s)[m] = s[n]
<1>1. /\ Head(s) \in S /\ Tail(s) \in Seq(S)
      /\ Len(Tail(s)) = Len(s) - 1
      /\ \A i \in 1..Len(Tail(s)) : Tail(s)[i] = s[i + 1]
      /\ Head(s) = s[1] /\ Len(s) \in Nat
      /\ DOMAIN s = 1..Len(s) /\ DOMAIN Tail(s) = 1..Len(Tail(s))
  BY HeadTailProperties, LenProperties
<1>2. ASSUME NEW n \in DOMAIN s, n # 1
      PROVE  \E m \in DOMAIN Tail(s) : Tail(s)[m] = s[n]
  <2>1. n - 1 \in 1..Len(Tail(s)) /\ (n - 1) + 1 = n
    BY <1>1, <1>2
  <2>2. QED
    BY <2>1, <1>1
<1>3. QED
  BY <1>1, <1>2

LEMMA FlagIsBoolean == \A a, s : Flag(a, s) \in BOOLEAN
  BY DEF Flag

(* The view reads rows again. *)
LEMMA ViewIsFlags ==
    ASSUME NEW rows \in Seq(Service), NEW f,
           f \in [DOMAIN rows -> BOOLEAN]
    PROVE  f \in Seq(BOOLEAN) /\ DOMAIN f = DOMAIN rows
<1>1. Len(rows) \in Nat /\ DOMAIN rows = 1..Len(rows)
  OBVIOUS
<1>2. DOMAIN f = DOMAIN rows
  BY Zenon
<1>3. QED
  BY <1>1, <1>2, FlagsAreSeq

--------------------------------------------------------------------------------
(* Each step preserves the invariant. *)

LEMMA InitIInv == Init => IInv
<1> SUFFICES ASSUME Init PROVE IInv
  OBVIOUS
<1>1. <<>> \in Seq(Signal) /\ <<>> \in Seq(Service) /\ <<>> \in Seq(BOOLEAN)
  OBVIOUS
<1>2. enabled \subseteq live \X Service
  <2>1. enabled \subseteq Account \X Service /\ live = Account
    BY DEF Init
  <2>2. QED
    BY <2>1
<1>3. TypeOK
  BY <1>1, <1>2 DEF Init, TypeOK
<1>4. SetToHandle /\ RowsCurrent
  BY DEF Init, SetToHandle, RowsCurrent
<1>5. QED
  BY <1>3, <1>4 DEF IInv

(* A change of a flag is announced. *)
LEMMA ChangeStep ==
    ASSUME IInv, NEW a \in Account, NEW s \in Service \cup {NoService}, Change(a, s),
           enabled' \subseteq live \X Service,
           \A b \in Account, t \in Service : 
              <<b, t>> # <<a, s>> => (<<b, t>> \in enabled' <=> <<b, t>> \in enabled)
    PROVE  IInv'
<1> DEFINE signal == [account |-> a, service |-> s]
<1>1. /\ changes' = changes + 1
      /\ signals' = Append(signals, signal)
      /\ UNCHANGED <<live, handles, account, services, view>>
  BY DEF Change
<1>2. signal \in Signal /\ signals \in Seq(Signal) /\ TypeOK
  BY DEF IInv, TypeOK, Signal
<1>3. /\ signals' \in Seq(Signal)
      /\ \A n \in DOMAIN signals : n \in DOMAIN signals' /\ signals'[n] = signals[n]
      /\ \E n \in DOMAIN signals' : signals'[n] = signal
  BY <1>1, <1>2, AppendHas
<1>4. TypeOK'
  BY <1>1, <1>2, <1>3 DEF TypeOK
<1>5. SetToHandle'
  BY <1>1 DEF IInv, SetToHandle
<1>6. ASSUME account \in live, NEW i \in DOMAIN services
      PROVE  (view[i] = Flag(account, services[i]))' \/ Announced(i)'
  <2>1. services[i] \in Service /\ account \in Account
    BY <1>2, <1>6 DEF TypeOK
  <2>2. CASE Announced(i) \/ <<account, services[i]>> = <<a, s>>
    BY <2>2, <1>1, <1>3 DEF Announced
  <2>3. CASE ~Announced(i) /\ <<account, services[i]>> # <<a, s>>
    <3>1. view[i] = Flag(account, services[i])
      BY <2>3, <1>6 DEF IInv, RowsCurrent
    <3>2. <<account, services[i]>> \in enabled' <=> <<account, services[i]>> \in enabled
      BY <2>1, <2>3
    <3>3. QED
      BY <3>1, <3>2, <1>1 DEF Flag
  <2>4. QED
    BY <2>2, <2>3
<1>7. RowsCurrent'
  BY <1>1, <1>6 DEF RowsCurrent
<1>8. QED
  BY <1>4, <1>5, <1>7 DEF IInv

LEMMA ToggleServiceStep ==
    ASSUME IInv, NEW a \in Account, NEW s \in Service, ToggleService(a, s)
    PROVE  IInv'
<1>1. /\ enabled' = IF <<a, s>> \in enabled THEN enabled \ {<<a, s>>} ELSE enabled \cup {<<a, s>>}
      /\ Change(a, s) /\ a \in live
  BY DEF ToggleService, Change
<1>2. enabled' \subseteq live \X Service
  BY <1>1 DEF IInv, TypeOK
<1>3. \A b \in Account, t \in Service :
         <<b, t>> # <<a, s>> => (<<b, t>> \in enabled' <=> <<b, t>> \in enabled)
  BY <1>1
<1>4. QED
  BY <1>1, <1>2, <1>3, ChangeStep

LEMMA ToggleAccountStep ==
    ASSUME IInv, NEW a \in Account, ToggleAccount(a)
    PROVE  IInv'
<1>1. Change(a, NoService) /\ enabled' = enabled
  BY DEF ToggleAccount
<1>2. enabled' \subseteq live \X Service
  BY <1>1 DEF IInv, TypeOK
<1>3. QED
  BY <1>1, <1>2, ChangeStep

LEMMA RemoveAccountStep ==
    ASSUME IInv, NEW a \in Account, RemoveAccount(a)
    PROVE  IInv'
<1>1. /\ live' = live \ {a}
      /\ enabled' = {id \in enabled : id[1] # a}
      /\ UNCHANGED <<changes, handles, signals, account, services, view>>
  BY DEF RemoveAccount
<1>2. enabled' \subseteq live' \X Service
  BY <1>1 DEF IInv, TypeOK
<1>3. TypeOK'
  BY <1>1, <1>2 DEF IInv, TypeOK
<1>4. SetToHandle'
  BY <1>1 DEF IInv, SetToHandle
<1>5. RowsCurrent'
  <2>1. SUFFICES ASSUME account \in live, account # a, NEW i \in DOMAIN services
                 PROVE  (view[i] = Flag(account, services[i]))' \/ Announced(i)'
    BY <1>1 DEF RowsCurrent
  <2>2. <<account, services[i]>> \in enabled' <=> <<account, services[i]>> \in enabled
    BY <2>1, <1>1
  <2>3. view[i] = Flag(account, services[i]) \/ Announced(i)
    BY <2>1 DEF IInv, RowsCurrent
  <2>4. QED
    BY <2>2, <2>3, <1>1 DEF Flag, Announced
<1>6. QED
  BY <1>3, <1>4, <1>5 DEF IInv

LEMMA DestroyedStep ==
    ASSUME IInv, NEW a \in Account, Destroyed(a)
    PROVE  IInv'
<1>1. /\ a \in handles \ live /\ handles' = handles \ {a}
      /\ UNCHANGED <<live, enabled, changes, signals>>
      /\ IF account = a THEN account' = None /\ services' = <<>> /\ view' = <<>>
                        ELSE UNCHANGED <<account, services, view>>
  BY DEF Destroyed, dbVars
<1>2. CASE account = a
  <2>1. <<>> \in Seq(Service) /\ <<>> \in Seq(BOOLEAN)
    OBVIOUS
  <2>2. TypeOK'
    BY <1>1, <1>2, <2>1 DEF IInv, TypeOK
  <2>3. SetToHandle' /\ RowsCurrent'
    BY <1>1, <1>2 DEF IInv, SetToHandle, RowsCurrent
  <2>4. QED
    BY <2>2, <2>3 DEF IInv
<1>3. CASE account # a
  <2>1. TypeOK'
    BY <1>1, <1>3 DEF IInv, TypeOK
  <2>2. SetToHandle'
    BY <1>1, <1>3 DEF IInv, SetToHandle
  <2>3. RowsCurrent'
    BY <1>1, <1>3 DEF IInv, RowsCurrent, Flag, Announced
  <2>4. QED
    BY <2>1, <2>2, <2>3 DEF IInv
<1>4. QED
  BY <1>2, <1>3

LEMMA setAccountStep ==
    ASSUME IInv, NEW a \in Account \cup {None}, setAccount(a)
    PROVE  IInv'
<1>1. /\ a \in handles \cup {None} /\ account' = a
      /\ services' = IF a = None THEN <<>> ELSE ServicesOf[a]
      /\ view' = [i \in DOMAIN services' |-> Flag(a, services'[i])]
      /\ UNCHANGED <<live, enabled, changes, handles, signals>>
  BY DEF setAccount, dbVars
<1>2. services' \in Seq(Service)
  BY <1>1, ServiceAssumption
<1>3. view' \in [DOMAIN services' -> BOOLEAN]
  <2>1. \A i \in DOMAIN services' : Flag(a, services'[i]) \in BOOLEAN
    BY FlagIsBoolean
  <2>2. QED
    BY <1>1, <2>1, Zenon
<1>4. view' \in Seq(BOOLEAN) /\ DOMAIN view' = DOMAIN services'
  BY <1>2, <1>3, ViewIsFlags
<1>5. TypeOK'
  BY <1>1, <1>2, <1>4 DEF IInv, TypeOK
<1>6. SetToHandle'
  BY <1>1 DEF IInv, SetToHandle
<1>7. \A i \in DOMAIN services' : (view[i] = Flag(account, services[i]))'
  BY <1>1, Zenon DEF Flag
<1>8. RowsCurrent'
  BY <1>7 DEF RowsCurrent
<1>9. QED
  BY <1>5, <1>6, <1>8 DEF IInv

LEMMA enabledChangedStep == ASSUME IInv, enabledChanged PROVE IInv'
<1> DEFINE signal == Head(signals)
           Hit(i) == signal.account = account /\ services[i] = signal.service
<1>1. /\ signals # <<>> /\ signals' = Tail(signals)
      /\ view' = [i \in DOMAIN view |-> IF Hit(i) THEN Flag(account, services[i]) ELSE view[i]]
      /\ UNCHANGED <<live, enabled, changes, handles, account, services>>
  BY DEF enabledChanged, dbVars
<1>2. /\ TypeOK /\ services \in Seq(Service) /\ signals \in Seq(Signal)
      /\ view \in Seq(BOOLEAN) /\ DOMAIN view = DOMAIN services
  BY DEF IInv, TypeOK
<1>3. /\ signals' \in Seq(Signal)
      /\ \A n \in DOMAIN signals :
            signals[n] = signal \/ \E m \in DOMAIN signals' : signals'[m] = signals[n]
  BY <1>1, <1>2, HeadOrTail
<1> HIDE DEF signal
<1>4. \A i \in DOMAIN services :
         /\ Hit(i) => view'[i] = Flag(account, services[i])
         /\ ~Hit(i) => view'[i] = view[i]
  BY <1>1, <1>2, Zenon
<1>5. view' \in [DOMAIN services -> BOOLEAN]
  <2>1. \A i \in DOMAIN services : view[i] \in BOOLEAN
    BY <1>2, ElementOfSeq
  <2>2. \A i \in DOMAIN services : view'[i] \in BOOLEAN
    <3>1. ASSUME NEW i \in DOMAIN services PROVE view'[i] \in BOOLEAN
      <4>1. CASE Hit(i)
        BY <4>1, <1>4, FlagIsBoolean, Zenon
      <4>2. CASE ~Hit(i)
        BY <4>2, <1>4, <2>1, Zenon
      <4>3. QED
        BY <4>1, <4>2
    <3>2. QED
      BY <3>1
  <2>3. view' = [i \in DOMAIN services |-> view'[i]]
    BY <1>1, <1>2, Zenon
  <2>4. QED
    BY <2>2, <2>3, Zenon
<1>6. view' \in Seq(BOOLEAN) /\ DOMAIN view' = DOMAIN services'
  BY <1>1, <1>2, <1>5, ViewIsFlags
<1>7. TypeOK'
  BY <1>1, <1>2, <1>3, <1>6 DEF TypeOK
<1>8. SetToHandle'
  BY <1>1 DEF IInv, SetToHandle
<1>9. ASSUME account \in live, NEW i \in DOMAIN services
      PROVE  view'[i] = Flag(account, services[i]) \/ Announced(i)'
  <2>1. CASE Hit(i)
    BY <2>1, <1>4
  <2>2. CASE ~Hit(i) /\ Announced(i)
    <3>1. PICK n \in DOMAIN signals :
             signals[n].account = account /\ signals[n].service = services[i]
      BY <2>2 DEF Announced
    <3>2. signals[n] # signal
      BY <2>2, <3>1
    <3>3. QED
      BY <3>1, <3>2, <1>1, <1>3 DEF Announced
  <2>3. CASE ~Hit(i) /\ ~Announced(i)
    <3>1. view[i] = Flag(account, services[i])
      BY <2>3, <1>9 DEF IInv, RowsCurrent
    <3>2. view'[i] = view[i]
      BY <2>3, <1>4
    <3>3. QED
      BY <3>1, <3>2, Zenon
  <2>4. QED
    BY <2>1, <2>2, <2>3
<1>10. RowsCurrent'
  BY <1>1, <1>9 DEF RowsCurrent, Flag
<1>11. QED
  BY <1>7, <1>8, <1>10 DEF IInv

LEMMA NextStep == ASSUME IInv, Next PROVE IInv'
<1>1. CASE \E a \in Account, s \in Service : ToggleService(a, s)
  BY <1>1, ToggleServiceStep
<1>2. CASE \E a \in Account : ToggleAccount(a)
  BY <1>2, ToggleAccountStep
<1>3. CASE \E a \in Account : RemoveAccount(a)
  BY <1>3, RemoveAccountStep
<1>4. CASE \E a \in Account : Destroyed(a)
  BY <1>4, DestroyedStep
<1>5. CASE \E a \in Account \cup {None} : setAccount(a)
  BY <1>5, setAccountStep
<1>6. CASE enabledChanged
  BY <1>6, enabledChangedStep
<1>7. QED
  BY <1>1, <1>2, <1>3, <1>4, <1>5, <1>6 DEF Next

(* The invariant is inductive. *)
LEMMA Inductive == Spec => []IInv
<1>1. IInv /\ UNCHANGED vars => IInv'
  BY DEF IInv, TypeOK, SetToHandle, RowsCurrent, Announced, Flag, vars, dbVars
<1>2. IInv /\ [Next]_vars => IInv'
  BY <1>1, NextStep
<1>3. QED
  BY InitIInv, <1>2, PTL DEF Spec

--------------------------------------------------------------------------------
(* The theorems. *)

(* The model's variables keep their types, and the view has as many rows as the     *)
(* model (servicesmodel.cpp:28-45).                                                 *)
THEOREM TypeCorrect == Spec => []TypeOK
<1>1. IInv => TypeOK
  BY DEF IInv
<1>2. QED
  BY Inductive, <1>1, PTL

(* The model has rows only while it is set to a handle that exists                  *)
(* (servicesmodel.cpp:106, 114-146).                                                *)
THEOREM RowsBelongToHandle == Spec => []RowsHaveAccount
<1>1. IInv => RowsHaveAccount
  BY DEF IInv, SetToHandle, RowsHaveAccount
<1>2. QED
  BY Inductive, <1>1, PTL

(* Once an account's signals are handled, the view shows the flags of the database  *)
(* for it, however often the model was set to another account                       *)
(* (servicesmodel.cpp:114-146).                                                     *)
THEOREM ViewCorrect == Spec => []ViewShowsDatabase
<1>1. IInv => ViewShowsDatabase
  <2>1. SUFFICES ASSUME IInv, account \in live,
                        \A n \in DOMAIN signals : signals[n].account # account
                 PROVE  view = [i \in DOMAIN services |-> Flag(account, services[i])]
    BY DEF ViewShowsDatabase
  <2>2. \A i \in DOMAIN services : view[i] = Flag(account, services[i])
    BY <2>1 DEF IInv, RowsCurrent, Announced
  <2>3. view = [i \in DOMAIN services |-> view[i]]
    <3>1. view \in Seq(BOOLEAN) /\ DOMAIN view = DOMAIN services
      BY <2>1 DEF IInv, TypeOK
    <3>2. view \in [1..Len(view) -> BOOLEAN]
      BY <3>1, LenProperties
    <3>3. view = [i \in DOMAIN view |-> view[i]]
      BY <3>2, Zenon
    <3>4. QED
      BY <3>1, <3>3
  <2>4. QED
    BY <2>2, <2>3, Zenon
<1>2. QED
  BY Inductive, <1>1, PTL
================================================================================
