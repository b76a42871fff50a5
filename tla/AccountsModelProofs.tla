--------------------------- MODULE AccountsModelProofs ---------------------------
(* Theorems about the list model of accounts, for any accounts and addresses. *)
EXTENDS AccountsModel, SequenceTheorems, WellFoundedInduction, TLAPS

--------------------------------------------------------------------------------
(* Sequences. *)

LEMMA MinIsLeast ==
    ASSUME NEW S \in SUBSET Nat, S # {}
    PROVE  Min(S) \in S /\ \A y \in S : Min(S) =< y
<1> DEFINE Less == {ss \in Nat \X Nat : ss[1] < ss[2]}
<1>1. IsWellFoundedOn(Less, Nat)
  BY NatLessThanWellFounded DEF OpToRel
<1>2. PICK x \in S : \A y \in S : <<y, x>> \notin Less
  <2> HIDE DEF Less
  <2> QED
    BY <1>1, WFMin
<1>3. \A y \in S : ~ (y < x)
  BY <1>2
<1>4. \A y \in S : x =< y
  BY <1>3
<1>5. QED
  BY <1>4 DEF Min

(* indexOf() *)
RowIn(rows, a) == SelectInSeq(rows, LAMBDA id : id = a)

LEMMA RowInIs ==
    ASSUME NEW S, NEW s \in Seq(S), NEW a
    PROVE  /\ a \in ToSet(s) => RowIn(s, a) \in 1..Len(s) /\ s[RowIn(s, a)] = a
                                /\ RemoveFirst(s, a) = RemoveAt(s, RowIn(s, a))
           /\ a \notin ToSet(s) => RowIn(s, a) = 0 /\ RemoveFirst(s, a) = s
<1> DEFINE I == {i \in 1..Len(s) : s[i] = a}
<1>1. /\ Len(s) \in Nat
      /\ DOMAIN s = 1..Len(s)
  OBVIOUS
<1>2. RowIn(s, a) = IF I # {} THEN Min(I) ELSE 0
  BY DEF RowIn, SelectInSeq
<1>3. RemoveFirst(s, a) = IF \E i \in 1..Len(s) : s[i] = a THEN RemoveAt(s, RowIn(s, a)) ELSE s
  BY DEF RemoveFirst, RowIn, SelectInSeq
<1>4. a \in ToSet(s) <=> I # {}
  BY <1>1 DEF ToSet
<1>5. I \in SUBSET Nat
  BY <1>1
<1>6. I # {} => Min(I) \in I
  BY <1>5, MinIsLeast
<1>7. QED
  BY <1>2, <1>3, <1>4, <1>6

LEMMA RemoveAtIs ==
    ASSUME NEW S, NEW s \in Seq(S), NEW i \in 1..Len(s)
    PROVE  /\ RemoveAt(s, i) \in Seq(S)
           /\ Len(RemoveAt(s, i)) = Len(s) - 1
           /\ \A k \in 1..(Len(s) - 1) : RemoveAt(s, i)[k] = IF k <= i - 1 THEN s[k] ELSE s[k + 1]
           /\ ToSet(s) \ {s[i]} \subseteq ToSet(RemoveAt(s, i))
<1> DEFINE front == SubSeq(s, 1, i - 1)
           back == SubSeq(s, i + 1, Len(s))
<1>1. /\ Len(s) \in Nat /\ DOMAIN s = 1..Len(s)
      /\ \A k \in 1..Len(s) : s[k] \in S
      /\ i \in Nat /\ i - 1 \in Int /\ i + 1 \in Int /\ Len(s) \in Int
  BY LenProperties
<1>2. /\ front \in Seq(S) /\ Len(front) = i - 1
      /\ \A k \in 1..(i - 1) : front[k] = s[k]
  <2>1. /\ front \in Seq(S)
        /\ Len(front) = IF 1 <= i - 1 THEN (i - 1) - 1 + 1 ELSE 0
        /\ \A k \in 1..((i - 1) - 1 + 1) : front[k] = s[1 + k - 1]
    BY <1>1, SubSeqProperties
  <2>2. QED
    BY <2>1, <1>1
<1>3. /\ back \in Seq(S) /\ Len(back) = Len(s) - i
      /\ \A k \in 1..(Len(s) - i) : back[k] = s[i + k]
  <2>1. /\ back \in Seq(S)
        /\ Len(back) = IF i + 1 <= Len(s) THEN Len(s) - (i + 1) + 1 ELSE 0
        /\ \A k \in 1..(Len(s) - (i + 1) + 1) : back[k] = s[i + 1 + k - 1]
    BY <1>1, SubSeqProperties
  <2>2. QED
    BY <2>1, <1>1
<1> HIDE DEF front, back
<1>4. /\ front \o back \in Seq(S)
      /\ Len(front \o back) = Len(s) - 1
      /\ \A k \in 1..(Len(s) - 1) : (front \o back)[k] = IF k <= i - 1 THEN s[k] ELSE s[k + 1]
  <2>1. /\ front \o back \in Seq(S)
        /\ Len(front \o back) = Len(front) + Len(back)
        /\ \A k \in 1..(Len(front) + Len(back)) :
              (front \o back)[k] = IF k <= Len(front) THEN front[k] ELSE back[k - Len(front)]
    BY <1>2, <1>3, ConcatProperties
  <2>2. Len(front) + Len(back) = Len(s) - 1
    BY <1>1, <1>2, <1>3
  <2>3. ASSUME NEW k \in 1..(Len(s) - 1)
        PROVE  (front \o back)[k] = IF k <= i - 1 THEN s[k] ELSE s[k + 1]
    <3>1. CASE k <= i - 1
      <4>1. k \in 1..(i - 1)
        BY <3>1, <1>1
      <4>2. QED
        BY <4>1, <3>1, <2>1, <2>2, <1>2
    <3>2. CASE ~(k <= i - 1)
      <4>1. k - (i - 1) \in 1..(Len(s) - i) /\ i + (k - (i - 1)) = k + 1
        BY <3>2, <1>1
      <4>2. back[k - (i - 1)] = s[i + (k - (i - 1))]
        BY <4>1, <1>3
      <4>3. (front \o back)[k] = back[k - (i - 1)]
        BY <3>2, <2>1, <2>2, <1>2
      <4>4. QED
        BY <4>1, <4>2, <4>3, <3>2
    <3>3. QED
      BY <3>1, <3>2
  <2>4. QED
    BY <2>1, <2>2, <2>3
<1>5. RemoveAt(s, i) = front \o back
  BY DEF RemoveAt, front, back
<1>6. ASSUME NEW k \in 1..Len(s), k # i
      PROVE  \E m \in 1..(Len(s) - 1) : (front \o back)[m] = s[k]
  <2>1. CASE k < i
    <3>1. k \in 1..(Len(s) - 1) /\ k <= i - 1
      BY <2>1, <1>1
    <3>2. (front \o back)[k] = s[k]
      BY <3>1, <1>4
    <3>3. QED
      BY <3>1, <3>2
  <2>2. CASE k > i
    <3>1. k - 1 \in 1..(Len(s) - 1) /\ ~(k - 1 <= i - 1) /\ (k - 1) + 1 = k
      BY <2>2, <1>1
    <3>2. (front \o back)[k - 1] = s[k]
      BY <3>1, <1>4
    <3>3. QED
      BY <3>1, <3>2
  <2>3. k < i \/ k > i
    <3>1. k \in Int /\ i \in Int /\ k # i
      BY <1>6, <1>1
    <3>2. QED
      BY <3>1
  <2>4. QED
    BY <2>1, <2>2, <2>3
<1>7. DOMAIN (front \o back) = 1..(Len(s) - 1)
  BY <1>4, LenProperties
<1>8. \A e \in ToSet(s) \ {s[i]} : e \in ToSet(front \o back)
  <2>1. \A e \in ToSet(s) \ {s[i]} : \E k \in 1..Len(s) : k # i /\ s[k] = e
    BY <1>1 DEF ToSet
  <2>2. \A m \in 1..(Len(s) - 1) : (front \o back)[m] \in ToSet(front \o back)
    BY <1>7 DEF ToSet
  <2>3. QED
    BY <2>1, <2>2, <1>6
<1>9. QED
  BY <1>4, <1>5, <1>8

LEMMA RemoveFirstKeeps ==
    ASSUME NEW S, NEW s \in Seq(S), NEW a
    PROVE  /\ RemoveFirst(s, a) \in Seq(S)
           /\ ToSet(s) \ {a} \subseteq ToSet(RemoveFirst(s, a))
<1>1. CASE a \in ToSet(s)
  <2>1. /\ RowIn(s, a) \in 1..Len(s) /\ s[RowIn(s, a)] = a
        /\ RemoveFirst(s, a) = RemoveAt(s, RowIn(s, a))
    BY <1>1, RowInIs
  <2>2. QED
    BY <2>1, RemoveAtIs
<1>2. CASE a \notin ToSet(s)
  BY <1>2, RowInIs
<1>3. QED
  BY <1>1, <1>2

LEMMA AppendIs ==
    ASSUME NEW S, NEW s \in Seq(S), NEW e \in S
    PROVE  /\ Append(s, e) \in Seq(S)
           /\ Len(Append(s, e)) = Len(s) + 1
           /\ \A i \in 1..Len(s) : Append(s, e)[i] = s[i]
           /\ Append(s, e)[Len(s) + 1] = e
           /\ ToSet(Append(s, e)) = ToSet(s) \cup {e}
<1>1. /\ Append(s, e) \in Seq(S)
      /\ Len(Append(s, e)) = Len(s) + 1
      /\ \A i \in 1..Len(s) : Append(s, e)[i] = s[i]
      /\ Append(s, e)[Len(s) + 1] = e
      /\ Len(s) \in Nat
      /\ DOMAIN s = 1..Len(s) /\ DOMAIN Append(s, e) = 1..(Len(s) + 1)
  OBVIOUS
<1>2. QED
  BY <1>1 DEF ToSet

--------------------------------------------------------------------------------
(* The inductive invariant. *)

(* What handling a signal does to a list of accounts; it is what the change the    *)
(* signal tells of did to the database.                                            *)
Handled(rows, signal) ==
    IF signal.kind = "created" THEN Append(rows, signal.account)
                               ELSE RemoveFirst(rows, signal.account)

(* f lists the rows that there will be as the signals in flight are handled, up to *)
(* those of the database.                                                          *)
Replays(f) ==
    /\ f[0] = accountIDs
    /\ f[Len(signals)] = db
    /\ \A i \in 1..Len(signals) : f[i] = Handled(f[i - 1], signals[i])

(* The signals in flight are all that the rows lack. *)
RowsCatchUp ==
    open /\ raced = {} => \E f \in [0..Len(signals) -> Seq(Account)] : Replays(f)

(* A view has the rows of the model, or has been told to remove a row that there   *)
(* was not.                                                                        *)
ViewIsRows == view \in {Broken, accountIDs}

ClosedIsEmpty ==
    ~open => /\ accountIDs = <<>> /\ view = <<>>
             /\ \A a \in Account : accounts[a] = None

(* At an address that no deleted handle had, a services model is of the handle's   *)
(* account.                                                                        *)
FreshIsOwn ==
    \A h \in Address : h \notin freed => servicesModels[h] \in {None, heap[h]}

IInv ==
    /\ TypeOK
    /\ HandlesAreValid
    /\ ClosedIsEmpty
    /\ FreshIsOwn
    /\ ViewIsRows
    /\ RowsCatchUp

LEMMA InitIInv == Init => IInv
<1> SUFFICES ASSUME Init PROVE IInv
  OBVIOUS
<1>1. /\ <<>> \in Seq(Account) /\ <<>> \in Seq(Account \cup {None}) /\ <<>> \in Seq(Signal)
  OBVIOUS
<1>2. TypeOK
  BY <1>1 DEF Init, TypeOK
<1>3. HandlesAreValid /\ ClosedIsEmpty /\ FreshIsOwn /\ ViewIsRows
  BY DEF Init, HandlesAreValid, ClosedIsEmpty, FreshIsOwn, ViewIsRows
<1>4. RowsCatchUp
  BY DEF Init, RowsCatchUp
<1>5. QED
  BY <1>2, <1>3, <1>4 DEF IInv

--------------------------------------------------------------------------------
(* The rows and the signals in flight. *)

LEMMA RowsAreNotBroken ==
    ASSUME NEW rows \in Seq(Account)
    PROVE  rows # Broken
<1>1. ASSUME rows = <<None>> PROVE FALSE
  <2>1. Len(rows) = 1 /\ rows[1] = None
    BY <1>1
  <2>2. rows[1] \in Account
    BY <2>1, LenProperties
  <2>3. QED
    BY <2>1, <2>2, NoneAssumption
<1>2. QED
  BY <1>1 DEF Broken

LEMMA HandledIs ==
    ASSUME NEW rows \in Seq(Account), NEW signal \in Signal
    PROVE  Handled(rows, signal) \in Seq(Account)
<1>1. signal.account \in Account
  BY DEF Signal
<1>2. QED
  BY <1>1, AppendIs, RemoveFirstKeeps DEF Handled

(* A change of the database and its signal go together. *)
LEMMA ReplayEmit ==
    ASSUME TypeOK, NEW f \in [0..Len(signals) -> Seq(Account)], Replays(f),
           NEW signal \in Signal,
           signals' = Append(signals, signal), db' = Handled(db, signal),
           UNCHANGED accountIDs
    PROVE  \E g \in [0..Len(signals') -> Seq(Account)] : Replays(g)'
<1> DEFINE n == Len(signals)
           g == [i \in 0..(n + 1) |-> IF i = n + 1 THEN db' ELSE f[i]]
<1>1. /\ n \in Nat /\ Len(signals') = n + 1
      /\ signals'[n + 1] = signal
      /\ \A i \in 1..n : signals'[i] = signals[i]
  <2>1. signals \in Seq(Signal)
    BY DEF TypeOK
  <2>2. QED
    BY <2>1, AppendIs
<1>2. db' \in Seq(Account)
  BY HandledIs DEF TypeOK
<1>3. g \in [0..Len(signals') -> Seq(Account)]
  BY <1>1, <1>2
<1>4. g[0] = accountIDs' /\ g[Len(signals')] = db'
  BY <1>1 DEF Replays
<1>5. ASSUME NEW i \in 1..Len(signals')
      PROVE  g[i] = Handled(g[i - 1], signals'[i])
  <2>1. CASE i = n + 1
    <3>1. g[i] = db' /\ g[i - 1] = f[n] /\ f[n] = db /\ signals'[i] = signal
      BY <2>1, <1>1 DEF Replays
    <3>2. QED
      BY <3>1
  <2>2. CASE i # n + 1
    <3>1. i \in 1..n /\ g[i] = f[i] /\ g[i - 1] = f[i - 1] /\ signals'[i] = signals[i]
      BY <2>2, <1>1
    <3>2. QED
      BY <3>1 DEF Replays
  <2>3. QED
    BY <2>1, <2>2
<1> HIDE DEF g
<1>6. QED
  BY <1>3, <1>4, <1>5 DEF Replays, Handled

(* The model handles a signal. *)
LEMMA ReplayHandle ==
    ASSUME TypeOK, NEW f \in [0..Len(signals) -> Seq(Account)], Replays(f),
           signals # <<>>, signals' = Tail(signals),
           accountIDs' = Handled(accountIDs, Head(signals)), UNCHANGED db
    PROVE  \E g \in [0..Len(signals') -> Seq(Account)] : Replays(g)'
<1> DEFINE n == Len(signals)
           g == [i \in 0..(n - 1) |-> f[i + 1]]
<1>1. /\ n \in Nat \ {0} /\ Len(signals') = n - 1
      /\ Head(signals) = signals[1]
      /\ \A i \in 1..(n - 1) : signals'[i] = signals[i + 1]
  <2>1. signals \in Seq(Signal)
    BY DEF TypeOK
  <2>2. QED
    BY <2>1, HeadTailProperties
<1>2. g \in [0..Len(signals') -> Seq(Account)]
  BY <1>1
<1>3. g[0] = accountIDs' /\ g[Len(signals')] = db'
  <2>1. g[0] = f[1] /\ g[n - 1] = f[n]
    BY <1>1
  <2>2. f[1] = Handled(f[0], signals[1]) /\ f[0] = accountIDs /\ f[n] = db
    BY <1>1 DEF Replays
  <2>3. QED
    BY <2>1, <2>2, <1>1
<1>4. ASSUME NEW i \in 1..Len(signals')
      PROVE  g[i] = Handled(g[i - 1], signals'[i])
  <2>1. /\ i + 1 \in 1..n /\ (i + 1) - 1 = i
        /\ g[i] = f[i + 1] /\ g[i - 1] = f[i] /\ signals'[i] = signals[i + 1]
    BY <1>1
  <2>2. QED
    BY <2>1 DEF Replays
<1> HIDE DEF g
<1>5. QED
  BY <1>2, <1>3, <1>4 DEF Replays, Handled

--------------------------------------------------------------------------------
(* Each step preserves the invariant. *)

(* What neither the model's handles nor its rows notice. *)
LEMMA OutsideKeeps ==
    ASSUME IInv, UNCHANGED modelVars,
           db' \in Seq(Account), removed' \subseteq Account, signals' \in Seq(Signal),
           RowsCatchUp'
    PROVE  IInv'
<1>1. TypeOK'
  BY DEF IInv, TypeOK, modelVars
<1>2. /\ HandlesAreValid' /\ ClosedIsEmpty' /\ FreshIsOwn'
      /\ ViewIsRows'
  BY DEF IInv, modelVars, HandlesAreValid, ClosedIsEmpty, FreshIsOwn, ViewIsRows
<1>3. QED
  BY <1>1, <1>2 DEF IInv

LEMMA EmitStep ==
    ASSUME IInv, NEW a \in Account, CreateAccount(a) \/ RemoveAccount(a)
    PROVE  IInv'
<1>1. PICK signal \in Signal :
         /\ signals' = Append(signals, signal)
         /\ db' = Handled(db, signal)
         /\ UNCHANGED modelVars
  <2>1. CASE CreateAccount(a)
    <3> DEFINE signal == [kind |-> "created", account |-> a]
    <3>1. /\ signals' = Append(signals, signal)
          /\ db' = Append(db, a)
          /\ UNCHANGED modelVars
      BY <2>1 DEF CreateAccount, Emit
    <3>2. signal \in Signal /\ db' = Handled(db, signal)
      BY <3>1 DEF Signal, Handled
    <3>3. QED
      BY <3>1, <3>2
  <2>2. CASE RemoveAccount(a)
    <3> DEFINE signal == [kind |-> "removed", account |-> a]
    <3>1. /\ signals' = Append(signals, signal)
          /\ db' = RemoveFirst(db, a)
          /\ UNCHANGED modelVars
      BY <2>2 DEF RemoveAccount, Emit
    <3>2. signal \in Signal /\ db' = Handled(db, signal)
      BY <3>1 DEF Signal, Handled
    <3>3. QED
      BY <3>1, <3>2
  <2>3. QED
    BY <2>1, <2>2
<1>2. /\ db \in Seq(Account) /\ signals \in Seq(Signal) /\ TypeOK
      /\ removed \subseteq Account
  BY DEF IInv, TypeOK
<1>3. db' \in Seq(Account) /\ signals' \in Seq(Signal)
  BY <1>1, <1>2, HandledIs, AppendIs
<1>4. removed' \subseteq Account
  BY <1>2 DEF CreateAccount, RemoveAccount
<1>5. RowsCatchUp'
  <2>1. SUFFICES ASSUME open', raced' = {}
                 PROVE  \E g \in [0..Len(signals') -> Seq(Account)] : Replays(g)'
    BY DEF RowsCatchUp, Replays, Handled
  <2>2. PICK f \in [0..Len(signals) -> Seq(Account)] : Replays(f)
    BY <2>1, <1>1 DEF IInv, RowsCatchUp, modelVars
  <2>3. QED
    BY <2>2, <1>1, <1>2, ReplayEmit DEF modelVars
<1>6. QED
  BY <1>1, <1>3, <1>4, <1>5, OutsideKeeps

LEMMA UnheardStep == ASSUME IInv, Unheard PROVE IInv'
<1>1. /\ ~open /\ signals # <<>> /\ signals' = Tail(signals)
      /\ UNCHANGED <<db, removed>> /\ UNCHANGED modelVars
  BY DEF Unheard, dbVars
<1>2. signals' \in Seq(Signal)
  BY <1>1, HeadTailProperties DEF IInv, TypeOK
<1>3. RowsCatchUp'
  BY <1>1 DEF RowsCatchUp, modelVars
<1>4. db' \in Seq(Account) /\ removed' \subseteq Account
  BY <1>1 DEF IInv, TypeOK
<1>5. QED
  BY <1>1, <1>2, <1>3, <1>4, OutsideKeeps

LEMMA ConstructStep == ASSUME IInv, Construct PROVE IInv'
<1>1. /\ ~open /\ open' = TRUE /\ raced' = ToSet(signals)
      /\ accountIDs' = db /\ view' = db
      /\ UNCHANGED <<db, removed, signals, accounts, servicesModels, heap, freed>>
  BY DEF Construct, dbVars
<1>2. TypeOK'
  <2>1. db \in Seq(Account \cup {None}) /\ db \in Seq(Account)
    BY DEF IInv, TypeOK
  <2>2. raced' \subseteq Signal
    BY <1>1 DEF IInv, TypeOK, ToSet
  <2>3. QED
    BY <1>1, <2>1, <2>2 DEF IInv, TypeOK
<1>3. HandlesAreValid' /\ ClosedIsEmpty'
  BY <1>1 DEF IInv, ClosedIsEmpty, HandlesAreValid
<1>4. FreshIsOwn' /\ ViewIsRows'
  BY <1>1 DEF IInv, FreshIsOwn, ViewIsRows
<1>5. RowsCatchUp'
  <2>1. SUFFICES ASSUME signals = <<>>
                 PROVE  \E f \in [0..Len(signals') -> Seq(Account)] : Replays(f)'
    <3>1. ToSet(signals) = {} => signals = <<>>
      <4>1. signals \in Seq(Signal)
        BY DEF IInv, TypeOK
      <4>2. Len(signals) \in Nat /\ DOMAIN signals = 1..Len(signals)
        BY <4>1
      <4>3. signals # <<>> => 1 \in DOMAIN signals
        BY <4>1, <4>2, EmptySeq
      <4>4. QED
        BY <4>3 DEF ToSet
    <3>2. QED
      BY <1>1, <3>1 DEF RowsCatchUp, Replays, Handled
  <2>2. Len(signals') = 0
    BY <1>1, <2>1
  <2> DEFINE g == [i \in 0..0 |-> db]
  <2>3. g \in [0..Len(signals') -> Seq(Account)]
    BY <2>2 DEF IInv, TypeOK
  <2>4. g[0] = accountIDs' /\ g[Len(signals')] = db' /\ 1..Len(signals') = {}
    BY <1>1, <2>2
  <2> HIDE DEF g
  <2>5. QED
    BY <2>3, <2>4 DEF Replays, Handled
<1>6. QED
  BY <1>2, <1>3, <1>4, <1>5 DEF IInv

LEMMA DestructStep == ASSUME IInv, Destruct PROVE IInv'
<1> DEFINE Gone == {accounts[a] : a \in Account} \ {None}
<1>1. /\ open' = FALSE /\ accountIDs' = <<>> /\ view' = <<>>
      /\ accounts' = [a \in Account |-> None]
      /\ servicesModels' = [h \in Address |-> None]
      /\ heap' = [h \in Address |-> IF h \in Gone THEN None ELSE heap[h]]
      /\ freed' = freed \cup Gone
      /\ UNCHANGED <<db, removed, signals, raced>>
  BY DEF Destruct, Delete, dbVars
<1>2. Gone \subseteq Address
  BY DEF IInv, TypeOK
<1> HIDE DEF Gone
<1>3. TypeOK'
  <2>1. <<>> \in Seq(Account) /\ <<>> \in Seq(Account \cup {None})
    OBVIOUS
  <2>2. QED
    BY <1>1, <1>2, <2>1 DEF IInv, TypeOK
<1>4. /\ HandlesAreValid' /\ ClosedIsEmpty' /\ ViewIsRows'
      /\ RowsCatchUp'
  BY <1>1 DEF HandlesAreValid, ClosedIsEmpty, ViewIsRows, RowsCatchUp
<1>5. FreshIsOwn'
  BY <1>1 DEF FreshIsOwn
<1>6. QED
  BY <1>3, <1>4, <1>5 DEF IInv

LEMMA CreatedStep == ASSUME IInv, accountCreated PROVE IInv'
<1> DEFINE a == Head(signals).account
<1>1. /\ open /\ signals # <<>> /\ Head(signals).kind = "created"
      /\ signals' = Tail(signals)
      /\ accountIDs' = Append(accountIDs, a)
      /\ view' = IF view = Broken THEN Broken ELSE Append(view, a)
      /\ UNCHANGED <<db, removed, open, accounts, servicesModels, heap, freed, raced>>
  BY DEF accountCreated, dbVars
<1>2. /\ Head(signals) \in Signal /\ a \in Account /\ signals' \in Seq(Signal)
      /\ signals \in Seq(Signal) /\ accountIDs \in Seq(Account) /\ TypeOK
  <2>1. signals \in Seq(Signal) /\ accountIDs \in Seq(Account) /\ TypeOK
    BY DEF IInv, TypeOK
  <2>2. Head(signals) \in Signal /\ signals' \in Seq(Signal)
    BY <2>1, <1>1, HeadTailProperties
  <2>3. QED
    BY <2>1, <2>2 DEF Signal
<1> HIDE DEF a
<1>3. accountIDs' \in Seq(Account) /\ ToSet(accountIDs) \subseteq ToSet(accountIDs')
  BY <1>1, <1>2, AppendIs
<1>4. view' \in {Broken, accountIDs'}
  BY <1>1, <1>2, RowsAreNotBroken DEF IInv, ViewIsRows
<1>5. TypeOK'
  <2>1. Broken \in Seq(Account \cup {None})
    BY DEF Broken
  <2>2. view' \in Seq(Account \cup {None})
    BY <1>3, <1>4, <2>1
  <2>3. QED
    BY <1>1, <1>2, <1>3, <2>2 DEF IInv, TypeOK
<1>6. HandlesAreValid'
  BY <1>1, <1>3 DEF IInv, HandlesAreValid
<1>7. ClosedIsEmpty' /\ FreshIsOwn' /\ ViewIsRows'
  BY <1>1, <1>4 DEF IInv, ClosedIsEmpty, FreshIsOwn, ViewIsRows
<1>8. RowsCatchUp'
  <2>1. SUFFICES ASSUME raced' = {}
                 PROVE  \E g \in [0..Len(signals') -> Seq(Account)] : Replays(g)'
    BY DEF RowsCatchUp, Replays, Handled
  <2>2. PICK f \in [0..Len(signals) -> Seq(Account)] : Replays(f)
    BY <2>1, <1>1 DEF IInv, RowsCatchUp
  <2>3. accountIDs' = Handled(accountIDs, Head(signals))
    BY <1>1 DEF Handled, a
  <2>4. QED
    BY <2>2, <2>3, <1>1, <1>2, ReplayHandle
<1>9. QED
  BY <1>5, <1>6, <1>7, <1>8 DEF IInv

LEMMA RemovedStep == ASSUME IInv, accountRemoved PROVE IInv'
<1> DEFINE a == Head(signals).account
           h == accounts[a]
<1>1. /\ open /\ signals # <<>> /\ Head(signals).kind = "removed"
      /\ signals' = Tail(signals)
      /\ accountIDs' = RemoveFirst(accountIDs, a)
      /\ view' = ViewWithout(a)
      /\ accounts' = [accounts EXCEPT ![a] = None]
      /\ heap' = [k \in Address |-> IF k \in {h} \ {None} THEN None ELSE heap[k]]
      /\ freed' = freed \cup ({h} \ {None})
      /\ servicesModels' = [k \in Address |->
            IF k = h /\ servicesModels[k] # None THEN Cleared ELSE servicesModels[k]]
      /\ UNCHANGED <<db, removed, open, raced>>
  BY DEF accountRemoved, dbVars, Delete
<1>2. /\ Head(signals) \in Signal /\ a \in Account /\ signals' \in Seq(Signal)
      /\ signals \in Seq(Signal) /\ accountIDs \in Seq(Account) /\ TypeOK
  <2>1. signals \in Seq(Signal) /\ accountIDs \in Seq(Account) /\ TypeOK
    BY DEF IInv, TypeOK
  <2>2. Head(signals) \in Signal /\ signals' \in Seq(Signal)
    BY <2>1, <1>1, HeadTailProperties
  <2>3. QED
    BY <2>1, <2>2 DEF Signal
<1>3. h \in Address \cup {None}
  BY <1>2 DEF TypeOK
<1> HIDE DEF a, h
<1>4. accountIDs' \in Seq(Account) /\ ToSet(accountIDs) \ {a} \subseteq ToSet(accountIDs')
  BY <1>1, <1>2, RemoveFirstKeeps
<1>5. view' \in {Broken, accountIDs'}
  <2>1. view' = IF view = Broken \/ RowIn(accountIDs, a) = 0 THEN Broken
                ELSE RemoveAt(view, RowIn(accountIDs, a))
    BY <1>1 DEF ViewWithout, RowIn, SelectInSeq
  <2>2. view # accountIDs => view = Broken
    BY DEF IInv, ViewIsRows
  <2>3. accountIDs # Broken
    BY <1>2, RowsAreNotBroken
  <2>4. CASE a \in ToSet(accountIDs)
    <3>1. /\ RowIn(accountIDs, a) \in 1..Len(accountIDs) /\ Len(accountIDs) \in Nat
          /\ RemoveFirst(accountIDs, a) = RemoveAt(accountIDs, RowIn(accountIDs, a))
      BY <2>4, <1>2, RowInIs
    <3>2. RowIn(accountIDs, a) # 0
      BY <3>1
    <3>3. QED
      BY <3>1, <3>2, <2>1, <2>2, <2>3, <1>1
  <2>5. CASE a \notin ToSet(accountIDs)
    BY <2>5, <2>1, <1>2, RowInIs
  <2>6. QED
    BY <2>4, <2>5
<1>6. TypeOK'
  <2>1. Broken \in Seq(Account \cup {None})
    BY DEF Broken
  <2>2. view' \in Seq(Account \cup {None})
    BY <1>4, <1>5, <2>1
  <2>3. /\ accounts' \in [Account -> Address \cup {None}]
        /\ heap' \in [Address -> Account \cup {None}]
        /\ servicesModels' \in [Address -> Account \cup {None, Cleared}]
        /\ freed' \subseteq Address
    BY <1>1, <1>2, <1>3 DEF TypeOK
  <2>4. QED
    BY <1>1, <1>2, <1>4, <2>2, <2>3 DEF TypeOK
<1>7. HandlesAreValid'
  <2>1. ASSUME NEW b \in Account, accounts'[b] # None
        PROVE  heap'[accounts'[b]] = b /\ b \in ToSet(accountIDs')
    <3>1. b # a /\ accounts'[b] = accounts[b]
      BY <2>1, <1>1, <1>2 DEF TypeOK
    <3>2. heap[accounts[b]] = b /\ b \in ToSet(accountIDs) /\ accounts[b] \in Address
      BY <2>1, <3>1, <1>2 DEF IInv, HandlesAreValid, TypeOK
    <3>3. h = None \/ heap[h] = a
      BY <1>2 DEF IInv, HandlesAreValid, h
    <3>4. heap'[accounts[b]] = heap[accounts[b]]
      BY <3>1, <3>2, <3>3, <1>1
    <3>5. QED
      BY <3>1, <3>2, <3>4, <1>4
  <2>2. QED
    BY <2>1 DEF HandlesAreValid
<1>8. FreshIsOwn'
  <2>1. ASSUME NEW k \in Address, k \notin freed'
        PROVE  servicesModels'[k] = servicesModels[k] /\ heap'[k] = heap[k] /\ k \notin freed
    BY <2>1, <1>1, NoneAssumption
  <2>2. QED
    BY <2>1 DEF IInv, FreshIsOwn
<1>9. PICK f : raced = {} => f \in [0..Len(signals) -> Seq(Account)] /\ Replays(f)
  BY <1>1 DEF IInv, RowsCatchUp
<1>10. ClosedIsEmpty' /\ ViewIsRows'
  BY <1>1, <1>5 DEF IInv, ClosedIsEmpty, ViewIsRows
<1>11. RowsCatchUp'
  <2>1. accountIDs' = Handled(accountIDs, Head(signals))
    BY <1>1 DEF Handled, a
  <2>2. raced' = {} => \E g \in [0..Len(signals') -> Seq(Account)] : Replays(g)'
    BY <2>1, <1>1, <1>2, <1>9, ReplayHandle
  <2>3. QED
    BY <2>2 DEF RowsCatchUp, Replays, Handled
<1>12. QED
  BY <1>6, <1>7, <1>8, <1>10, <1>11 DEF IInv

LEMMA ReadStep ==
    ASSUME IInv, NEW row \in DOMAIN accountIDs, ReadRow(row) \/ ReadServices(row)
    PROVE  IInv'
<1> DEFINE a == accountIDs[row]
<1>1. PICK h \in Address :
         /\ HandleOf(a, h)
         /\ \/ servicesModels' = servicesModels
            \/ servicesModels' = [servicesModels EXCEPT ![h] = a] /\ servicesModels[h] = None
         /\ open
         /\ UNCHANGED <<db, removed, signals, open, accountIDs, view, freed, raced>>
  <2>1. CASE ReadRow(row)
    BY <2>1 DEF ReadRow, dbVars
  <2>2. CASE ReadServices(row)
    BY <2>2 DEF ReadServices, dbVars
  <2>3. QED
    BY <2>1, <2>2
<1>2. a \in Account /\ a \in ToSet(accountIDs) /\ TypeOK
  BY DEF IInv, TypeOK, ToSet
<1> HIDE DEF a
<1>3. \/ accounts[a] = h /\ h # None /\ accounts' = accounts /\ heap' = heap
      \/ /\ heap[h] = None /\ accounts[a] = None
         /\ accounts' = [accounts EXCEPT ![a] = h] /\ heap' = [heap EXCEPT ![h] = a]
  BY <1>1 DEF HandleOf
<1>4. heap'[h] = a /\ \A k \in Address : k # h => heap'[k] = heap[k]
  BY <1>3, <1>2 DEF IInv, HandlesAreValid, TypeOK
<1>5. TypeOK'
  <2>1. /\ accounts' \in [Account -> Address \cup {None}]
        /\ heap' \in [Address -> Account \cup {None}]
    BY <1>2, <1>3 DEF TypeOK
  <2>2. servicesModels' \in [Address -> Account \cup {None, Cleared}]
    BY <1>1, <1>2 DEF TypeOK
  <2>3. QED
    BY <1>1, <1>2, <2>1, <2>2 DEF TypeOK
<1>6. HandlesAreValid'
  <2>1. ASSUME NEW b \in Account, accounts'[b] # None
        PROVE  heap'[accounts'[b]] = b /\ b \in ToSet(accountIDs')
    <3>1. CASE b = a
      BY <3>1, <1>1, <1>2, <1>3, <1>4 DEF TypeOK
    <3>2. CASE b # a
      <4>1. accounts'[b] = accounts[b]
        BY <3>2, <1>2, <1>3 DEF TypeOK
      <4>2. heap[accounts[b]] = b /\ b \in ToSet(accountIDs) /\ accounts[b] \in Address
        BY <2>1, <4>1, <1>2 DEF IInv, HandlesAreValid, TypeOK
      <4>3. accounts[b] # h
        <5>1. heap[h] \in {a, None}
          BY <1>2, <1>3 DEF IInv, HandlesAreValid
        <5>2. QED
          BY <5>1, <4>2, <3>2, NoneAssumption
      <4>4. QED
        BY <4>1, <4>2, <4>3, <1>1, <1>4
    <3>3. QED
      BY <3>1, <3>2
  <2>2. QED
    BY <2>1 DEF HandlesAreValid
<1>7. FreshIsOwn'
  <2>1. ASSUME NEW k \in Address, k \notin freed'
        PROVE  servicesModels'[k] \in {None, heap'[k]}
    <3>1. servicesModels[k] \in {None, heap[k]}
      BY <2>1, <1>1 DEF IInv, FreshIsOwn
    <3>2. CASE k = h
      <4>1. heap[h] \in {a, None}
        BY <1>2, <1>3 DEF IInv, HandlesAreValid
      <4>2. servicesModels'[k] \in {servicesModels[k], a}
        BY <3>2, <1>1, <1>2 DEF TypeOK
      <4>3. QED
        BY <3>1, <3>2, <4>1, <4>2, <1>4
    <3>3. CASE k # h
      BY <3>1, <3>3, <1>1, <1>2, <1>4 DEF TypeOK
    <3>4. QED
      BY <3>2, <3>3
  <2>2. QED
    BY <2>1 DEF FreshIsOwn
<1>8. ClosedIsEmpty' /\ ViewIsRows'
  BY <1>1 DEF IInv, ClosedIsEmpty, ViewIsRows
<1>9. RowsCatchUp'
  BY <1>1 DEF IInv, RowsCatchUp, Replays, Handled
<1>10. QED
  BY <1>5, <1>6, <1>7, <1>8, <1>9 DEF IInv

LEMMA NextStep == ASSUME IInv, Next PROVE IInv'
<1>1. CASE \E a \in Account : CreateAccount(a) \/ RemoveAccount(a)
  BY <1>1, EmitStep
<1>2. CASE Unheard
  BY <1>2, UnheardStep
<1>3. CASE Construct
  BY <1>3, ConstructStep
<1>4. CASE Destruct
  BY <1>4, DestructStep
<1>5. CASE accountCreated
  BY <1>5, CreatedStep
<1>6. CASE accountRemoved
  BY <1>6, RemovedStep
<1>7. CASE \E row \in DOMAIN accountIDs : ReadRow(row) \/ ReadServices(row)
  BY <1>7, ReadStep
<1>8. QED
  BY <1>1, <1>2, <1>3, <1>4, <1>5, <1>6, <1>7 DEF Next

LEMMA StutterStep == ASSUME IInv, UNCHANGED vars PROVE IInv'
<1>1. UNCHANGED modelVars /\ UNCHANGED <<db, removed, signals>>
  BY DEF vars, dbVars
<1>2. RowsCatchUp'
  BY <1>1 DEF IInv, RowsCatchUp, Replays, Handled, modelVars
<1>3. QED
  BY <1>1, <1>2, OutsideKeeps DEF IInv, TypeOK

(* The invariant is inductive. *)
LEMMA Inductive == Spec => []IInv
<1>1. IInv /\ [Next]_vars => IInv'
  BY NextStep, StutterStep
<1>2. QED
  BY InitIInv, <1>1, PTL DEF Spec

--------------------------------------------------------------------------------
(* More about sequences. *)

LEMMA TailIs ==
    ASSUME NEW S, NEW s \in Seq(S), s # <<>>
    PROVE  /\ Len(s) \in Nat \ {0} /\ DOMAIN s = 1..Len(s)
           /\ Tail(s) \in Seq(S) /\ DOMAIN Tail(s) = 1..(Len(s) - 1)
           /\ Head(s) = s[1] /\ \A i \in 1..(Len(s) - 1) : Tail(s)[i] = s[i + 1]
           /\ ToSet(s) = ToSet(Tail(s)) \cup {Head(s)}
<1>1. /\ Len(s) \in Nat \ {0} /\ DOMAIN s = 1..Len(s)
      /\ Tail(s) \in Seq(S) /\ Len(Tail(s)) = Len(s) - 1 /\ DOMAIN Tail(s) = 1..(Len(s) - 1)
      /\ Head(s) = s[1] /\ \A i \in 1..(Len(s) - 1) : Tail(s)[i] = s[i + 1]
  BY HeadTailProperties, EmptySeq, LenProperties
<1>2. ASSUME NEW i \in 1..Len(s) PROVE i = 1 \/ (i - 1 \in 1..(Len(s) - 1) /\ s[i] = Tail(s)[i - 1])
  BY <1>1, <1>2
<1>3. ASSUME NEW i \in 1..(Len(s) - 1) PROVE i + 1 \in 1..Len(s) /\ Tail(s)[i] = s[i + 1]
  BY <1>1, <1>3
<1>4. 1 \in 1..Len(s)
  BY <1>1
<1>5. \A e : e \in ToSet(s) <=> \E i \in 1..Len(s) : s[i] = e
  BY <1>1 DEF ToSet
<1>6. \A e : e \in ToSet(Tail(s)) <=> \E i \in 1..(Len(s) - 1) : Tail(s)[i] = e
  BY <1>1 DEF ToSet
<1>7. \A e : e \in ToSet(s) <=> e \in ToSet(Tail(s)) \/ e = s[1]
  BY <1>2, <1>3, <1>4, <1>5, <1>6
<1>8. ToSet(s) = ToSet(Tail(s)) \cup {Head(s)}
  BY <1>1, <1>7
<1>9. QED
  BY <1>1, <1>8

(* a is at one place of s at most. *)
Once(s, a) == \A i, k \in DOMAIN s : s[i] = a /\ s[k] = a => i = k

LEMMA OnceAppended ==
    ASSUME NEW S, NEW s \in Seq(S), NEW e \in S, NEW a, Once(s, a), a = e => a \notin ToSet(s)
    PROVE  Once(Append(s, e), a)
<1>1. /\ Len(s) \in Nat /\ DOMAIN s = 1..Len(s) /\ DOMAIN Append(s, e) = 1..(Len(s) + 1)
      /\ \A i \in 1..Len(s) : Append(s, e)[i] = s[i]
      /\ Append(s, e)[Len(s) + 1] = e
  BY LenProperties, AppendIs
<1>2. \A i \in 1..Len(s) : s[i] \in ToSet(s)
  BY <1>1 DEF ToSet
<1>3. \A i \in 1..(Len(s) + 1) : i \in 1..Len(s) \/ i = Len(s) + 1
  BY <1>1
<1>4. QED
  BY <1>1, <1>2, <1>3 DEF Once

(* Each entry that is left was there, at a place of its own. *)
LEMMA RemovedWasThere ==
    ASSUME NEW S, NEW s \in Seq(S), NEW a, NEW b
    PROVE  /\ ToSet(RemoveFirst(s, a)) \subseteq ToSet(s)
           /\ Once(s, b) => Once(RemoveFirst(s, a), b)
           /\ Once(s, a) => a \notin ToSet(RemoveFirst(s, a))
<1>1. CASE a \notin ToSet(s)
  BY <1>1, RowInIs
<1>2. CASE a \in ToSet(s)
  <2> DEFINE r == RowIn(s, a)
             t == RemoveAt(s, r)
             From(k) == IF k <= r - 1 THEN k ELSE k + 1
  <2>1. r \in 1..Len(s) /\ s[r] = a /\ RemoveFirst(s, a) = t
    BY <1>2, RowInIs
  <2>2. Len(s) \in Nat /\ DOMAIN s = 1..Len(s)
    BY LenProperties
  <2> HIDE DEF r
  <2>3. /\ t \in Seq(S) /\ Len(t) = Len(s) - 1
        /\ \A k \in 1..(Len(s) - 1) : t[k] = s[From(k)]
    BY <2>1, <2>2, RemoveAtIs
  <2>4. DOMAIN t = 1..(Len(s) - 1)
    BY <2>3, LenProperties
  <2> HIDE DEF t
  <2>5. ASSUME NEW k \in 1..(Len(s) - 1), NEW m \in 1..(Len(s) - 1)
        PROVE  From(k) \in 1..Len(s) /\ From(k) # r /\ (From(k) = From(m) => k = m)
    BY <2>1, <2>2
  <2> HIDE DEF From
  <2>6. ToSet(t) \subseteq ToSet(s)
    BY <2>2, <2>3, <2>4, <2>5 DEF ToSet
  <2>7. Once(s, b) => Once(t, b)
    BY <2>2, <2>3, <2>4, <2>5 DEF Once
  <2>8. Once(s, a) => a \notin ToSet(t)
    BY <2>1, <2>2, <2>3, <2>4, <2>5 DEF Once, ToSet
  <2>9. QED
    BY <2>1, <2>6, <2>7, <2>8
<1>3. QED
  BY <1>1, <1>2

--------------------------------------------------------------------------------
(* What the database, the signals in flight and the rows say of one account. *)

(* An account has each signal once, the one of its creation first. *)
SignalsInOrder ==
    \A i, k \in DOMAIN signals : signals[i].account = signals[k].account /\ i # k =>
       /\ signals[i].kind # signals[k].kind
       /\ signals[i].kind = "created" => i < k

(* The signals of a tell of what has happened to it. *)
Told(a) ==
    /\ Once(db, a)
    /\ ~(a \in ToSet(db) /\ a \in removed)
    /\ InFlight("created", a) \/ Raced("created", a) => a \in ToSet(db) \cup removed
    /\ InFlight("removed", a) \/ Raced("removed", a) => a \in removed
    /\ InFlight("created", a) /\ a \in removed => InFlight("removed", a)

(* Account a has a row, or there will be one; it will have none when it has gone,  *)
(* and no second one; but for the accounts that the construction has raced with.   *)
Rows(a) ==
    /\ a \in ToSet(db) => a \in ToSet(accountIDs) \/ InFlight("created", a)
    /\ InFlight("removed", a) => a \in ToSet(accountIDs) \/ InFlight("created", a) \/ Missing(a)
    /\ a \in ToSet(accountIDs) => a \in ToSet(db) \/ InFlight("removed", a) \/ Doubled(a)
    /\ a \in ToSet(accountIDs) /\ InFlight("created", a) => Doubled(a)
    /\ Doubled(a) \/ Once(accountIDs, a)

Ledger ==
    /\ SignalsInOrder
    /\ \A a \in Account : Told(a) /\ (open => Rows(a))

LInv == IInv /\ Ledger /\ ViewFollowsModel

LEMMA InitLedger == Init => Ledger /\ ViewFollowsModel
<1> SUFFICES ASSUME Init PROVE Ledger /\ ViewFollowsModel
  OBVIOUS
<1>1. DOMAIN <<>> = {} /\ ToSet(<<>>) = {}
  BY DEF ToSet
<1>2. QED
  BY <1>1 DEF Init, Ledger, SignalsInOrder, Told, Once, InFlight, Raced, ViewFollowsModel

Kind == {"created", "removed"}

(* A change is told once, after what was told of the account before. *)
LEMMA SignalSent ==
    ASSUME TypeOK, SignalsInOrder, NEW kind \in Kind, NEW a \in Account,
           signals' = Append(signals, [kind |-> kind, account |-> a]),
           ~InFlight("removed", a), kind = "created" => ~InFlight("created", a)
    PROVE  /\ SignalsInOrder'
           /\ InFlight(kind, a)'
           /\ \A k \in Kind, b \in Account :
                 k # kind \/ b # a => (InFlight(k, b)' <=> InFlight(k, b))
<1> DEFINE n == Len(signals)
           signal == [kind |-> kind, account |-> a]
<1>1. signals \in Seq(Signal) /\ signal \in Signal
  BY DEF TypeOK, Signal, Kind
<1>2. /\ n \in Nat /\ DOMAIN signals = 1..n /\ DOMAIN signals' = 1..(n + 1)
      /\ \A i \in 1..n : signals'[i] = signals[i]
      /\ signals'[n + 1] = signal
      /\ ToSet(signals') = ToSet(signals) \cup {signal}
  BY <1>1, AppendIs, LenProperties
<1>3. \A k \in Kind, b \in Account :
         (k # kind \/ b # a) => [kind |-> k, account |-> b] # signal
  OBVIOUS
<1>4. ASSUME NEW i \in 1..n, signals[i].account = a
      PROVE  signals[i].kind = "created" /\ kind = "removed"
  <2>1. signals[i] \in Signal /\ signals[i] \in ToSet(signals)
    BY <1>1, <1>2 DEF ToSet
  <2>2. signals[i] = [kind |-> signals[i].kind, account |-> a] /\ signals[i].kind \in Kind
    BY <2>1, <1>4 DEF Signal, Kind
  <2>3. signals[i].kind # "removed"
    BY <2>1, <2>2 DEF InFlight
  <2>4. signals[i].kind = "created" => InFlight("created", a)
    BY <2>1, <2>2 DEF InFlight
  <2>5. QED
    BY <2>2, <2>3, <2>4 DEF Kind
<1>5. SignalsInOrder'
  <2>1. SUFFICES ASSUME NEW i \in 1..(n + 1), NEW k \in 1..(n + 1),
                        signals'[i].account = signals'[k].account, i # k
                 PROVE  /\ signals'[i].kind # signals'[k].kind
                        /\ signals'[i].kind = "created" => i < k
    BY <1>2 DEF SignalsInOrder
  <2>2. CASE i \in 1..n /\ k \in 1..n
    BY <2>1, <2>2, <1>2 DEF SignalsInOrder
  <2>3. CASE i \in 1..n /\ k = n + 1
    BY <2>1, <2>3, <1>2, <1>4
  <2>4. CASE i = n + 1 /\ k \in 1..n
    BY <2>1, <2>4, <1>2, <1>4
  <2>5. QED
    BY <2>1, <2>2, <2>3, <2>4, <1>2
<1>6. QED
  BY <1>2, <1>3, <1>5 DEF InFlight

(* A signal is taken in its turn. *)
LEMMA SignalTaken ==
    ASSUME TypeOK, SignalsInOrder, signals # <<>>, signals' = Tail(signals),
           NEW kind, NEW a, Head(signals) = [kind |-> kind, account |-> a]
    PROVE  /\ kind \in Kind /\ a \in Account
           /\ SignalsInOrder'
           /\ InFlight(kind, a) /\ ~InFlight(kind, a)'
           /\ \A k \in Kind, b \in Account :
                 k # kind \/ b # a => (InFlight(k, b)' <=> InFlight(k, b))
           /\ kind = "removed" => ~InFlight("created", a)
<1> DEFINE n == Len(signals)
<1>1. signals \in Seq(Signal)
  BY DEF TypeOK
<1>2. /\ n \in Nat \ {0} /\ DOMAIN signals = 1..n /\ DOMAIN signals' = 1..(n - 1)
      /\ Head(signals) = signals[1] /\ \A i \in 1..(n - 1) : signals'[i] = signals[i + 1]
      /\ ToSet(signals) = ToSet(signals') \cup {Head(signals)}
  BY <1>1, TailIs
<1>3. Head(signals) \in Signal
  BY <1>1, <1>2
<1>4. /\ kind \in Kind /\ a \in Account
      /\ Head(signals) = [kind |-> kind, account |-> a]
  BY <1>3 DEF Signal, Kind
<1>5. SignalsInOrder'
  <2>1. SUFFICES ASSUME NEW i \in 1..(n - 1), NEW k \in 1..(n - 1),
                        signals'[i].account = signals'[k].account, i # k
                 PROVE  /\ signals'[i].kind # signals'[k].kind
                        /\ signals'[i].kind = "created" => i < k
    BY <1>2 DEF SignalsInOrder
  <2>2. /\ i + 1 \in DOMAIN signals /\ k + 1 \in DOMAIN signals /\ i + 1 # k + 1
        /\ signals'[i] = signals[i + 1] /\ signals'[k] = signals[k + 1]
    BY <2>1, <1>2
  <2>3. /\ signals[i + 1].kind # signals[k + 1].kind
        /\ signals[i + 1].kind = "created" => i + 1 < k + 1
    BY <2>1, <2>2 DEF SignalsInOrder
  <2>4. QED
    BY <2>2, <2>3, <1>2
<1>6. ASSUME NEW i \in 1..n, i # 1, signals[i].account = a
      PROVE  signals[i].kind # kind /\ ~(kind = "removed" /\ signals[i].kind = "created")
  <2>1. 1 \in DOMAIN signals /\ i \in DOMAIN signals /\ ~(i < 1)
    BY <1>2, <1>6
  <2>2. QED
    BY <2>1, <1>2, <1>6 DEF SignalsInOrder
<1>7. \A i \in 1..(n - 1) : i + 1 \in 1..n /\ i + 1 # 1 /\ signals'[i] = signals[i + 1]
  BY <1>2
<1>8. Head(signals) \notin ToSet(signals')
  BY <1>2, <1>6, <1>7 DEF ToSet
<1>9. kind = "removed" => [kind |-> "created", account |-> a] \notin ToSet(signals')
  BY <1>2, <1>6, <1>7 DEF ToSet
<1>10. \A k \in Kind, b \in Account :
          (k # kind \/ b # a) => [kind |-> k, account |-> b] # Head(signals)
  BY <1>4
<1>11. InFlight(kind, a) /\ ~InFlight(kind, a)'
  BY <1>2, <1>4, <1>8 DEF InFlight
<1>12. \A k \in Kind, b \in Account : k # kind \/ b # a => (InFlight(k, b)' <=> InFlight(k, b))
  BY <1>2, <1>10 DEF InFlight
<1>13. kind = "removed" => ~InFlight("created", a)
  BY <1>2, <1>4, <1>9 DEF InFlight
<1>14. QED
  BY <1>4, <1>5, <1>11, <1>12, <1>13

--------------------------------------------------------------------------------
(* Each step keeps the ledger. *)

(* What is said of an account's rows is kept if the model and the database are as  *)
(* they were.                                                                      *)
LEMMA LedgerOther ==
    ASSUME LInv, UNCHANGED <<db, removed, signals, open, accountIDs, view, raced>>
    PROVE  Ledger' /\ ViewFollowsModel'
BY DEF LInv, Ledger, SignalsInOrder, Told, Rows, Once, InFlight, Raced, Doubled, Missing,
       ViewFollowsModel

LEMMA LedgerCreateAccount ==
    ASSUME LInv, NEW a \in Account, CreateAccount(a)
    PROVE  Ledger' /\ ViewFollowsModel'
<1>1. /\ a \notin ToSet(db) \cup removed
      /\ db' = Append(db, a)
      /\ signals' = Append(signals, [kind |-> "created", account |-> a])
      /\ UNCHANGED <<removed, open, accountIDs, view, raced>>
  BY DEF CreateAccount, Emit, modelVars
<1>2. TypeOK /\ SignalsInOrder /\ db \in Seq(Account)
  BY DEF LInv, IInv, Ledger, TypeOK
<1>3. \A k \in Kind : ~InFlight(k, a) /\ ~Raced(k, a)
  <2>1. Told(a)
    BY DEF LInv, Ledger
  <2>2. QED
    BY <2>1, <1>1 DEF Told, Kind
<1>4. /\ SignalsInOrder' /\ InFlight("created", a)'
      /\ \A k \in Kind, b \in Account :
            k # "created" \/ b # a => (InFlight(k, b)' <=> InFlight(k, b))
  BY <1>1, <1>2, <1>3, SignalSent DEF Kind
<1>5. ToSet(db') = ToSet(db) \cup {a}
  BY <1>1, <1>2, AppendIs
<1>6. ASSUME NEW b \in Account
      PROVE  Told(b)' /\ (open' => Rows(b)')
  <2>1. Told(b) /\ (open => Rows(b))
    BY DEF LInv, Ledger
  <2>2. Once(db', b)
    BY <2>1, <1>1, <1>2, OnceAppended DEF Told
  <2>3. /\ InFlight("removed", b)' <=> InFlight("removed", b)
        /\ b # a => (InFlight("created", b)' <=> InFlight("created", b))
        /\ \A k \in Kind : Raced(k, b)' <=> Raced(k, b)
        /\ Doubled(b)' <=> Doubled(b)
        /\ Missing(b)' <=> Missing(b)
        /\ Once(accountIDs, b)' <=> Once(accountIDs, b)
    BY <1>1, <1>4 DEF Kind, Raced, Doubled, Missing, Once
  <2>4. Told(b)'
    <3>1. CASE b = a
      BY <3>1, <2>2, <2>3, <1>1, <1>3, <1>4, <1>5 DEF Told, Kind
    <3>2. CASE b # a
      BY <3>2, <2>1, <2>2, <2>3, <1>1, <1>5 DEF Told, Kind
    <3>3. QED
      BY <3>1, <3>2
  <2>5. ASSUME open PROVE Rows(b)'
    <3>1. CASE b = a
      BY <3>1, <2>1, <2>3, <2>5, <1>1, <1>3, <1>4 DEF Rows, Kind, Doubled
    <3>2. CASE b # a
      BY <3>2, <2>1, <2>3, <2>5, <1>1, <1>5 DEF Rows
    <3>3. QED
      BY <3>1, <3>2
  <2>6. QED
    BY <2>4, <2>5, <1>1
<1>7. ViewFollowsModel'
  BY <1>1, <1>4 DEF LInv, ViewFollowsModel, Missing, Raced, Kind
<1>8. QED
  BY <1>4, <1>6, <1>7 DEF Ledger

LEMMA LedgerRemoveAccount ==
    ASSUME LInv, NEW a \in Account, RemoveAccount(a)
    PROVE  Ledger' /\ ViewFollowsModel'
<1>1. /\ a \in ToSet(db)
      /\ db' = RemoveFirst(db, a)
      /\ removed' = removed \cup {a}
      /\ signals' = Append(signals, [kind |-> "removed", account |-> a])
      /\ UNCHANGED <<open, accountIDs, view, raced>>
  BY DEF RemoveAccount, Emit, modelVars
<1>2. TypeOK /\ SignalsInOrder /\ db \in Seq(Account) /\ Told(a)
  BY DEF LInv, IInv, Ledger, TypeOK
<1>3. ~InFlight("removed", a) /\ ~Raced("removed", a) /\ Once(db, a)
  BY <1>1, <1>2 DEF Told
<1>4. /\ SignalsInOrder' /\ InFlight("removed", a)'
      /\ \A k \in Kind, b \in Account :
            k # "removed" \/ b # a => (InFlight(k, b)' <=> InFlight(k, b))
  BY <1>1, <1>2, <1>3, SignalSent DEF Kind
<1>5. ToSet(db') = ToSet(db) \ {a}
  <2>1. ToSet(db) \ {a} \subseteq ToSet(db')
    BY <1>1, <1>2, RemoveFirstKeeps
  <2>2. ToSet(db') \subseteq ToSet(db) /\ a \notin ToSet(db')
    BY <1>1, <1>2, <1>3, RemovedWasThere
  <2>3. QED
    BY <2>1, <2>2
<1>6. ASSUME NEW b \in Account
      PROVE  Told(b)' /\ (open' => Rows(b)')
  <2>1. Told(b) /\ (open => Rows(b))
    BY DEF LInv, Ledger
  <2>2. Once(db', b)
    BY <2>1, <1>1, <1>2, RemovedWasThere DEF Told
  <2>3. /\ InFlight("created", b)' <=> InFlight("created", b)
        /\ b # a => (InFlight("removed", b)' <=> InFlight("removed", b))
        /\ \A k \in Kind : Raced(k, b)' <=> Raced(k, b)
        /\ Doubled(b)' <=> Doubled(b)
        /\ Missing(b)' <=> Missing(b)
        /\ Once(accountIDs, b)' <=> Once(accountIDs, b)
    BY <1>1, <1>4 DEF Kind, Raced, Doubled, Missing, Once
  <2>4. Told(b)'
    <3>1. CASE b = a
      BY <3>1, <2>2, <2>3, <1>1, <1>4, <1>5 DEF Told, Kind
    <3>2. CASE b # a
      BY <3>2, <2>1, <2>2, <2>3, <1>1, <1>5 DEF Told, Kind
    <3>3. QED
      BY <3>1, <3>2
  <2>5. ASSUME open PROVE Rows(b)'
    <3>1. CASE b = a
      BY <3>1, <2>1, <2>3, <2>5, <1>1, <1>4, <1>5 DEF Rows
    <3>2. CASE b # a
      BY <3>2, <2>1, <2>3, <2>5, <1>1, <1>5 DEF Rows
    <3>3. QED
      BY <3>1, <3>2
  <2>6. QED
    BY <2>4, <2>5, <1>1
<1>7. ViewFollowsModel'
  BY <1>1, <1>3, <1>4 DEF LInv, ViewFollowsModel, Missing, Raced, Kind
<1>8. QED
  BY <1>4, <1>6, <1>7 DEF Ledger

(* A signal that is taken was of something that has happened. *)
LEMMA ToldStep ==
    ASSUME LInv, signals # <<>>, signals' = Tail(signals), UNCHANGED <<db, removed, raced>>,
           NEW b \in Account
    PROVE  Told(b)'
<1>1. TypeOK /\ SignalsInOrder /\ Told(b)
  BY DEF LInv, IInv, Ledger
<1>2. PICK kind \in Kind, a \in Account : Head(signals) = [kind |-> kind, account |-> a]
  <2>1. Head(signals) \in Signal
    BY <1>1, HeadTailProperties DEF TypeOK
  <2>2. QED
    BY <2>1 DEF Signal, Kind
<1>3. /\ InFlight(kind, a) /\ ~InFlight(kind, a)'
      /\ \A k \in Kind : k # kind \/ b # a => (InFlight(k, b)' <=> InFlight(k, b))
      /\ kind = "removed" => ~InFlight("created", a)
  BY <1>1, <1>2, SignalTaken
<1>4. /\ \A k \in Kind : Raced(k, b)' <=> Raced(k, b)
      /\ Once(db, b)' <=> Once(db, b)
      /\ db' = db /\ removed' = removed
  BY DEF Raced, Once
<1>5. CASE b = a
  <2>1. CASE kind = "created"
    BY <2>1, <1>1, <1>3, <1>4, <1>5 DEF Told, Kind
  <2>2. CASE kind = "removed"
    BY <2>2, <1>1, <1>3, <1>4, <1>5 DEF Told, Kind
  <2>3. QED
    BY <2>1, <2>2, <1>2 DEF Kind
<1>6. CASE b # a
  BY <1>1, <1>3, <1>4, <1>6 DEF Told, Kind
<1>7. QED
  BY <1>5, <1>6

LEMMA LedgerUnheard == ASSUME LInv, Unheard PROVE Ledger' /\ ViewFollowsModel'
<1>1. /\ ~open /\ signals # <<>> /\ signals' = Tail(signals)
      /\ UNCHANGED <<db, removed, open, accountIDs, view, raced>>
  BY DEF Unheard, dbVars, modelVars
<1>2. SignalsInOrder'
  <2>1. TypeOK /\ SignalsInOrder
    BY DEF LInv, IInv, Ledger
  <2>2. PICK kind, a : Head(signals) = [kind |-> kind, account |-> a]
    <3>1. Head(signals) \in Signal
      BY <1>1, <2>1, HeadTailProperties DEF TypeOK
    <3>2. QED
      BY <3>1 DEF Signal
  <2>3. QED
    BY <1>1, <2>1, <2>2, SignalTaken
<1>3. \A b \in Account : Told(b)'
  BY <1>1, ToldStep
<1>4. view' = accountIDs'
  BY <1>1 DEF LInv, IInv, ClosedIsEmpty
<1>5. QED
  BY <1>1, <1>2, <1>3, <1>4 DEF Ledger, ViewFollowsModel

(* The signals in flight at the construction are those that the rows race with. *)
LEMMA LedgerConstruct == ASSUME LInv, Construct PROVE Ledger' /\ ViewFollowsModel'
<1>1. /\ raced' = ToSet(signals) /\ accountIDs' = db /\ view' = db
      /\ UNCHANGED <<db, removed, signals>>
  BY DEF Construct, dbVars
<1>2. \A k \in Kind, b \in Account :
         (Raced(k, b)' <=> InFlight(k, b)) /\ (InFlight(k, b)' <=> InFlight(k, b))
  BY <1>1 DEF Raced, InFlight
<1>3. ASSUME NEW b \in Account
      PROVE  Told(b)' /\ Rows(b)'
  <2>1. Told(b)
    BY DEF LInv, Ledger
  <2>2. /\ Once(db, b)' <=> Once(db, b)
        /\ Once(accountIDs, b)' <=> Once(db, b)
        /\ Doubled(b)' <=> InFlight("created", b) /\ ~InFlight("removed", b)
        /\ Missing(b)' <=> InFlight("removed", b) /\ ~InFlight("created", b)
    BY <1>1, <1>2 DEF Once, Doubled, Missing, Kind
  <2>3. Told(b)'
    BY <2>1, <2>2, <1>1, <1>2 DEF Told, Kind
  <2>4. Rows(b)'
    BY <2>1, <2>2, <1>1, <1>2 DEF Rows, Told, Kind
  <2>5. QED
    BY <2>3, <2>4
<1>4. SignalsInOrder' /\ ViewFollowsModel'
  BY <1>1 DEF LInv, Ledger, SignalsInOrder, ViewFollowsModel
<1>5. QED
  BY <1>3, <1>4 DEF Ledger

LEMMA LedgerDestruct == ASSUME LInv, Destruct PROVE Ledger' /\ ViewFollowsModel'
<1>1. /\ open' = FALSE /\ accountIDs' = <<>> /\ view' = <<>>
      /\ UNCHANGED <<db, removed, signals, raced>>
  BY DEF Destruct, dbVars
<1>2. QED
  BY <1>1 DEF LInv, Ledger, SignalsInOrder, Told, Once, InFlight, Raced, ViewFollowsModel

LEMMA LedgerCreated == ASSUME LInv, accountCreated PROVE Ledger' /\ ViewFollowsModel'
<1>1. PICK a \in Account :
         /\ open /\ signals # <<>> /\ signals' = Tail(signals)
         /\ Head(signals) = [kind |-> "created", account |-> a]
         /\ accountIDs' = Append(accountIDs, a)
         /\ view' = IF view = Broken THEN Broken ELSE Append(view, a)
         /\ UNCHANGED <<db, removed, open, raced>>
  <2>1. Head(signals) \in Signal /\ Head(signals).kind = "created"
    BY HeadTailProperties DEF accountCreated, LInv, IInv, TypeOK
  <2>2. PICK a \in Account : Head(signals) = [kind |-> "created", account |-> a]
    BY <2>1 DEF Signal
  <2>3. QED
    BY <2>2 DEF accountCreated, dbVars
<1>2. TypeOK /\ SignalsInOrder /\ accountIDs \in Seq(Account)
  BY DEF LInv, IInv, Ledger, TypeOK
<1>3. /\ SignalsInOrder' /\ InFlight("created", a) /\ ~InFlight("created", a)'
      /\ \A k \in Kind, b \in Account :
            k # "created" \/ b # a => (InFlight(k, b)' <=> InFlight(k, b))
  BY <1>1, <1>2, SignalTaken
<1>4. ToSet(accountIDs') = ToSet(accountIDs) \cup {a}
  BY <1>1, <1>2, AppendIs
<1>5. ASSUME NEW b \in Account
      PROVE  Rows(b)'
  <2>1. Told(b) /\ Rows(b)
    BY <1>1 DEF LInv, Ledger
  <2>2. /\ InFlight("removed", b)' <=> InFlight("removed", b)
        /\ b # a => (InFlight("created", b)' <=> InFlight("created", b))
        /\ Doubled(b)' <=> Doubled(b)
        /\ Missing(b)' <=> Missing(b)
        /\ db' = db
    BY <1>1, <1>3 DEF Kind, Raced, Doubled, Missing
  <2>3. Doubled(b) \/ Once(accountIDs', b)
    <3>1. ~Doubled(b) => Once(accountIDs, b) /\ (b = a => a \notin ToSet(accountIDs))
      BY <2>1, <1>3 DEF Rows
    <3>2. QED
      BY <3>1, <1>1, <1>2, OnceAppended
  <2>4. Once(accountIDs, b)' <=> Once(accountIDs', b)
    BY DEF Once
  <2>5. CASE b = a
    BY <2>1, <2>2, <2>3, <2>4, <2>5, <1>3, <1>4 DEF Rows, Told
  <2>6. CASE b # a
    BY <2>1, <2>2, <2>3, <2>4, <2>6, <1>4 DEF Rows
  <2>7. QED
    BY <2>5, <2>6
<1>6. ViewFollowsModel'
  <2>1. view = accountIDs => view' = accountIDs'
    BY <1>1, <1>2, RowsAreNotBroken
  <2>2. \A b \in Account : Missing(b) /\ ~InFlight("removed", b) =>
           (Missing(b) /\ ~InFlight("removed", b))'
    BY <1>1, <1>3 DEF Missing, Raced, Kind
  <2>3. QED
    BY <2>1, <2>2 DEF LInv, ViewFollowsModel
<1>7. \A b \in Account : Told(b)'
  BY <1>1, ToldStep
<1>8. QED
  BY <1>3, <1>5, <1>6, <1>7 DEF Ledger

LEMMA LedgerRemoved == ASSUME LInv, accountRemoved PROVE Ledger' /\ ViewFollowsModel'
<1>1. PICK a \in Account :
         /\ open /\ signals # <<>> /\ signals' = Tail(signals)
         /\ Head(signals) = [kind |-> "removed", account |-> a]
         /\ accountIDs' = RemoveFirst(accountIDs, a)
         /\ view' = ViewWithout(a)
         /\ UNCHANGED <<db, removed, open, raced>>
  <2>1. Head(signals) \in Signal /\ Head(signals).kind = "removed"
    BY HeadTailProperties DEF accountRemoved, LInv, IInv, TypeOK
  <2>2. PICK a \in Account : Head(signals) = [kind |-> "removed", account |-> a]
    BY <2>1 DEF Signal
  <2>3. QED
    BY <2>2 DEF accountRemoved, dbVars
<1>2. TypeOK /\ SignalsInOrder /\ accountIDs \in Seq(Account)
  BY DEF LInv, IInv, Ledger, TypeOK
<1>3. /\ SignalsInOrder' /\ InFlight("removed", a) /\ ~InFlight("removed", a)'
      /\ ~InFlight("created", a)
      /\ \A k \in Kind, b \in Account :
            k # "removed" \/ b # a => (InFlight(k, b)' <=> InFlight(k, b))
  BY <1>1, <1>2, SignalTaken
<1>4. /\ ToSet(accountIDs) \ {a} \subseteq ToSet(accountIDs')
      /\ ToSet(accountIDs') \subseteq ToSet(accountIDs)
      /\ Once(accountIDs, a) => a \notin ToSet(accountIDs')
  BY <1>1, <1>2, RemoveFirstKeeps, RemovedWasThere
<1>5. ASSUME NEW b \in Account
      PROVE  Rows(b)'
  <2>1. Told(b) /\ Rows(b)
    BY <1>1 DEF LInv, Ledger
  <2>2. /\ InFlight("created", b)' <=> InFlight("created", b)
        /\ b # a => (InFlight("removed", b)' <=> InFlight("removed", b))
        /\ Doubled(b)' <=> Doubled(b)
        /\ Missing(b)' <=> Missing(b)
        /\ db' = db
    BY <1>1, <1>3 DEF Kind, Raced, Doubled, Missing
  <2>3. Once(accountIDs, b) => Once(accountIDs, b)'
    <3>1. Once(accountIDs, b) => Once(accountIDs', b)
      BY <1>1, <1>2, RemovedWasThere
    <3>2. QED
      BY <3>1 DEF Once
  <2>4. CASE b = a
    BY <2>1, <2>2, <2>3, <2>4, <1>3, <1>4 DEF Rows, Told
  <2>5. CASE b # a
    BY <2>1, <2>2, <2>3, <2>5, <1>4 DEF Rows
  <2>6. QED
    BY <2>4, <2>5
<1>6. ViewFollowsModel'
  <2>1. view = accountIDs /\ a \in ToSet(accountIDs) => view' = accountIDs'
    <3>1. view' = IF view = Broken \/ RowIn(accountIDs, a) = 0 THEN Broken
                  ELSE RemoveAt(view, RowIn(accountIDs, a))
      BY <1>1 DEF ViewWithout, RowIn, SelectInSeq
    <3>2. a \in ToSet(accountIDs) =>
             /\ RowIn(accountIDs, a) \in 1..Len(accountIDs)
             /\ RemoveFirst(accountIDs, a) = RemoveAt(accountIDs, RowIn(accountIDs, a))
      BY <1>2, RowInIs
    <3>3. a \in ToSet(accountIDs) => RowIn(accountIDs, a) # 0
      BY <3>2
    <3>4. accountIDs # Broken
      BY <1>2, RowsAreNotBroken
    <3>5. QED
      BY <3>1, <3>2, <3>3, <3>4, <1>1
  <2>2. a \in ToSet(accountIDs) \/ Missing(a)
    BY <1>1, <1>3 DEF LInv, Ledger, Rows
  <2>3. \A b \in Account : (Missing(b)' <=> Missing(b))
                           /\ (InFlight("removed", b)' => InFlight("removed", b))
    BY <1>1, <1>3 DEF Missing, Raced, Kind
  <2>4. QED
    BY <2>1, <2>2, <2>3, <1>3 DEF LInv, ViewFollowsModel
<1>7. \A b \in Account : Told(b)'
  BY <1>1, ToldStep
<1>8. QED
  BY <1>3, <1>5, <1>6, <1>7 DEF Ledger

LEMMA LedgerStep == ASSUME LInv, [Next]_vars PROVE LInv'
<1>1. IInv'
  BY NextStep, StutterStep DEF LInv
<1>2. Ledger' /\ ViewFollowsModel'
  <2>1. CASE \E a \in Account : CreateAccount(a) \/ RemoveAccount(a)
    BY <2>1, LedgerCreateAccount, LedgerRemoveAccount
  <2>2. CASE Unheard
    BY <2>2, LedgerUnheard
  <2>3. CASE Construct
    BY <2>3, LedgerConstruct
  <2>4. CASE Destruct
    BY <2>4, LedgerDestruct
  <2>5. CASE accountCreated
    BY <2>5, LedgerCreated
  <2>6. CASE accountRemoved
    BY <2>6, LedgerRemoved
  <2>7. CASE \E row \in DOMAIN accountIDs : ReadRow(row) \/ ReadServices(row)
    BY <2>7, LedgerOther DEF ReadRow, ReadServices, dbVars
  <2>8. CASE UNCHANGED vars
    BY <2>8, LedgerOther DEF vars, dbVars, modelVars
  <2>9. QED
    BY <2>1, <2>2, <2>3, <2>4, <2>5, <2>6, <2>7, <2>8 DEF Next
<1>3. QED
  BY <1>1, <1>2 DEF LInv

LEMMA LedgerInductive == Spec => []LInv
<1>1. Init => LInv
  BY InitIInv, InitLedger DEF LInv
<1>2. LInv /\ [Next]_vars => LInv'
  BY LedgerStep
<1>3. QED
  BY <1>1, <1>2, PTL DEF Spec

--------------------------------------------------------------------------------
(* The theorems. *)

(* The model's variables keep their types (accountsmodel.cpp:53-57). *)
THEOREM TypeCorrect == Spec => []TypeOK
<1>1. IInv => TypeOK
  BY DEF IInv
<1>2. QED
  BY Inductive, <1>1, PTL

(* When no signal is in flight, the rows are the accounts of the database in order, *)
(* for any number of accounts, if none was in flight when the model read the list;  *)
(* if some were, every account still has a row, and every row of an account that    *)
(* the list and a signal have not both brought is its only one                      *)
(* (accountsmodel.cpp:34-46, 89).                                                   *)
THEOREM RowsCorrect == Spec => []RowsAreAccounts
<1>1. LInv => RowsAreAccounts
  <2>1. SUFFICES ASSUME LInv, open, signals = <<>>
                 PROVE  /\ raced = {} => accountIDs = db
                        /\ ToSet(db) \subseteq ToSet(accountIDs)
                        /\ \A i \in DOMAIN accountIDs : ~Doubled(accountIDs[i]) =>
                              /\ accountIDs[i] \in ToSet(db)
                              /\ \A k \in DOMAIN accountIDs :
                                    accountIDs[k] = accountIDs[i] => k = i
    BY DEF RowsAreAccounts
  <2>2. raced = {} => accountIDs = db
    <3>1. SUFFICES ASSUME raced = {} PROVE accountIDs = db
      OBVIOUS
    <3>2. PICK f : Replays(f)
      BY <2>1, <3>1 DEF LInv, IInv, RowsCatchUp
    <3>3. QED
      BY <2>1, <3>2 DEF Replays
  <2>3. \A k \in Kind, a \in Account : ~InFlight(k, a)
    BY <2>1 DEF InFlight, ToSet
  <2>4. \A a \in Account : Rows(a)
    BY <2>1 DEF LInv, Ledger
  <2>5. db \in Seq(Account) /\ accountIDs \in Seq(Account)
    BY <2>1 DEF LInv, IInv, TypeOK
  <2>6. ToSet(db) \subseteq ToSet(accountIDs)
    <3>1. ToSet(db) \subseteq Account
      BY <2>5 DEF ToSet
    <3>2. QED
      BY <3>1, <2>3, <2>4 DEF Rows, Kind
  <2>7. ASSUME NEW i \in DOMAIN accountIDs, ~Doubled(accountIDs[i])
        PROVE  /\ accountIDs[i] \in ToSet(db)
               /\ \A k \in DOMAIN accountIDs : accountIDs[k] = accountIDs[i] => k = i
    <3>1. accountIDs[i] \in Account /\ accountIDs[i] \in ToSet(accountIDs)
      BY <2>5 DEF ToSet
    <3>2. accountIDs[i] \in ToSet(db) /\ Once(accountIDs, accountIDs[i])
      BY <3>1, <2>3, <2>4, <2>7 DEF Rows, Kind
    <3>3. QED
      BY <3>2 DEF Once
  <2>8. QED
    BY <2>2, <2>6, <2>7
<1>2. QED
  BY LedgerInductive, <1>1, PTL

(* A view that only knows the model's notifications has its rows, until it is told  *)
(* of the removal of an account that had gone from the list before its              *)
(* accountRemoved came (accountsmodel.cpp:36-46).                                   *)
THEOREM ViewFollows == Spec => []ViewFollowsModel
<1>1. LInv => ViewFollowsModel
  BY DEF LInv
<1>2. QED
  BY LedgerInductive, <1>1, PTL

(* A cached handle is one that lives, of its own account, which has a row           *)
(* (accountsmodel.cpp:65-91).                                                       *)
THEOREM HandlesValid == Spec => []HandlesAreValid
<1>1. IInv => HandlesAreValid
  BY DEF IInv
<1>2. QED
  BY Inductive, <1>1, PTL

(* The services model of a handle at an address that was never freed is the         *)
(* account's own (accountsmodel.cpp:140-152).                                       *)
THEOREM FreshServicesOwn == Spec => []ServicesOfFreshHandles
<1>1. IInv => ServicesOfFreshHandles
  <2>1. SUFFICES ASSUME IInv, NEW a \in Account, accounts[a] \notin freed \cup {None}
                 PROVE  HasOwnServices(a)
    BY DEF ServicesOfFreshHandles
  <2>2. accounts[a] \in Address /\ heap[accounts[a]] = a
    BY <2>1 DEF IInv, TypeOK, HandlesAreValid
  <2>3. QED
    BY <2>1, <2>2 DEF IInv, FreshIsOwn, HasOwnServices
<1>2. QED
  BY Inductive, <1>1, PTL
================================================================================
