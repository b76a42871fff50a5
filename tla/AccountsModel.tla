------------------------------ MODULE AccountsModel ------------------------------
(* The list model of accounts (src/src/lib/accountsmodel.cpp), the account handles  *)
(* it caches and the ServicesModel it makes for each of them (servicesmodel.cpp).   *)
(* Other processes change the accounts database; the manager's accountCreated and   *)
(* accountRemoved arrive later, in order.  Handles live at addresses of the heap,   *)
(* and the service models are kept in a hash keyed by the address.  Of the data of  *)
(* a row, only the handle and the services model are modelled.                      *)
EXTENDS Integers, SequencesExt

CONSTANTS
    Account,
    Address,       \* heap addresses for handles
    None,
    Cleared        \* a ServicesModel whose account has been destroyed

ASSUME NoneAssumption ==
    /\ None # Cleared
    /\ None \notin Account \cup Address /\ Cleared \notin Account

VARIABLES
    db,            \* the database: the accounts in order of their creation
    removed,       \* accounts that were in the database: ids are never given out again
    signals,       \* signals of the manager, in flight
    open,          \* does the model exist?
    accountIDs,    \* the rows
    view,          \* the rows as a view knows them from the model's notifications
    accounts,      \* the cached handle of each account
    servicesModels,\* what the services model at a handle's address was made for
    heap,          \* the account that the handle at an address is for
    freed,         \* history: addresses that were in use once
    raced          \* history: the signals in flight when the model was constructed

dbVars == <<db, removed>>
modelVars == <<open, accountIDs, view, accounts, servicesModels, heap, freed, raced>>
vars == <<dbVars, signals, modelVars>>

Signal == [kind : {"created", "removed"}, account : Account]

InFlight(kind, a) == [kind |-> kind, account |-> a] \in ToSet(signals)

(* Was the signal in flight when the model was constructed? *)
Raced(kind, a) == [kind |-> kind, account |-> a] \in raced

(* A view told to remove a row that there is not. *)
Broken == <<None>>

TypeOK ==
    /\ db \in Seq(Account) /\ removed \subseteq Account
    /\ signals \in Seq(Signal)
    /\ open \in BOOLEAN
    /\ accountIDs \in Seq(Account)
    /\ view \in Seq(Account \cup {None})
    /\ accounts \in [Account -> Address \cup {None}]
    /\ servicesModels \in [Address -> Account \cup {None, Cleared}]
    /\ heap \in [Address -> Account \cup {None}]
    /\ freed \subseteq Address
    /\ raced \subseteq Signal

Init ==
    /\ db = <<>> /\ removed = {} /\ signals = <<>>
    /\ open = FALSE /\ accountIDs = <<>> /\ view = <<>>
    /\ accounts = [a \in Account |-> None]
    /\ servicesModels = [h \in Address |-> None]
    /\ heap = [h \in Address |-> None]
    /\ freed = {}
    /\ raced = {}

--------------------------------------------------------------------------------
(* The database and its manager (external).  Without a model nobody listens.      *)

Emit(kind, a) ==
    /\ signals' = Append(signals, [kind |-> kind, account |-> a])
    /\ UNCHANGED modelVars

CreateAccount(a) ==
    /\ a \notin ToSet(db) \cup removed
    /\ db' = Append(db, a)
    /\ Emit("created", a)
    /\ UNCHANGED removed

RemoveAccount(a) ==
    /\ a \in ToSet(db)
    /\ db' = RemoveFirst(db, a)
    /\ removed' = removed \cup {a}
    /\ Emit("removed", a)

Unheard ==
    /\ ~open /\ signals # <<>>
    /\ signals' = Tail(signals)
    /\ UNCHANGED <<dbVars, modelVars>>

--------------------------------------------------------------------------------
(* The model. *)

(* Handles are deleted. *)
Delete(Handles) ==
    /\ heap' = [h \in Address |-> IF h \in Handles THEN None ELSE heap[h]]
    /\ freed' = freed \cup Handles

(* The constructor reads the list before it connects to the signals. *)
Construct ==
    /\ ~open
    /\ open' = TRUE
    /\ raced' = ToSet(signals)
    /\ accountIDs' = db
    /\ view' = db
    /\ UNCHANGED <<dbVars, signals, accounts, servicesModels, heap, freed>>

(* The destructor deletes the cached handles; the hash of services models goes.   *)
Destruct ==
    /\ open
    /\ open' = FALSE
    /\ accountIDs' = <<>> /\ view' = <<>>
    /\ accounts' = [a \in Account |-> None]
    /\ servicesModels' = [h \in Address |-> None]
    /\ Delete({accounts[a] : a \in Account} \ {None})
    /\ UNCHANGED <<dbVars, signals, raced>>

(* A bug: the new row is announced at the end and put in front. *)
accountCreatedInFront ==
    LET a == Head(signals).account IN
    /\ open /\ signals # <<>> /\ Head(signals).kind = "created"
    /\ signals' = Tail(signals)
    /\ accountIDs' = <<a>> \o accountIDs
    /\ view' = IF view = Broken THEN Broken ELSE Append(view, a)
    /\ UNCHANGED <<dbVars, open, accounts, servicesModels, heap, freed, raced>>

accountCreated ==
    LET a == Head(signals).account IN
    /\ open /\ signals # <<>> /\ Head(signals).kind = "created"
    /\ signals' = Tail(signals)
    /\ accountIDs' = Append(accountIDs, a)
    /\ view' = IF view = Broken THEN Broken ELSE Append(view, a)
    /\ UNCHANGED <<dbVars, open, accounts, servicesModels, heap, freed, raced>>

(* The view is told that the row indexOf(id) goes: the first such row, or none.    *)
ViewWithout(a) ==
    LET row == SelectInSeq(accountIDs, LAMBDA id : id = a) IN
    IF view = Broken \/ row = 0 THEN Broken ELSE RemoveAt(view, row)

(* A bug: removeAccount deletes the handle and forgets the row. *)
accountRemovedRowStays ==
    LET a == Head(signals).account
        h == accounts[a] IN
    /\ open /\ signals # <<>> /\ Head(signals).kind = "removed"
    /\ signals' = Tail(signals)
    /\ accountIDs' = accountIDs
    /\ view' = ViewWithout(a)
    /\ accounts' = [accounts EXCEPT ![a] = None]
    /\ Delete({h} \ {None})
    /\ servicesModels' = [k \in Address |->
          IF k = h /\ servicesModels[k] # None THEN Cleared ELSE servicesModels[k]]
    /\ UNCHANGED <<dbVars, open, raced>>

(* A bug: the handle is deleted and stays in the cache (value for take). *)
accountRemovedHandleStays ==
    LET a == Head(signals).account
        h == accounts[a] IN
    /\ open /\ signals # <<>> /\ Head(signals).kind = "removed"
    /\ signals' = Tail(signals)
    /\ accountIDs' = RemoveFirst(accountIDs, a)
    /\ view' = ViewWithout(a)
    /\ accounts' = accounts
    /\ Delete({h} \ {None})
    /\ servicesModels' = [k \in Address |->
          IF k = h /\ servicesModels[k] # None THEN Cleared ELSE servicesModels[k]]
    /\ UNCHANGED <<dbVars, open, raced>>

(* A bug: the row is blanked and not taken out. *)
accountRemovedBlank ==
    LET a == Head(signals).account
        h == accounts[a] IN
    /\ open /\ signals # <<>> /\ Head(signals).kind = "removed"
    /\ signals' = Tail(signals)
    /\ accountIDs' = [i \in DOMAIN accountIDs |-> IF accountIDs[i] = a THEN None ELSE accountIDs[i]]
    /\ view' = ViewWithout(a)
    /\ accounts' = [accounts EXCEPT ![a] = None]
    /\ Delete({h} \ {None})
    /\ servicesModels' = [k \in Address |->
          IF k = h /\ servicesModels[k] # None THEN Cleared ELSE servicesModels[k]]
    /\ UNCHANGED <<dbVars, open, raced>>

(* removeOne takes the first row of the account out, if there is one.  The cached  *)
(* handle is deleted, the hash entry of its services model stays.                 *)
accountRemoved ==
    LET a == Head(signals).account
        h == accounts[a] IN
    /\ open /\ signals # <<>> /\ Head(signals).kind = "removed"
    /\ signals' = Tail(signals)
    /\ accountIDs' = RemoveFirst(accountIDs, a)
    /\ view' = ViewWithout(a)
    /\ accounts' = [accounts EXCEPT ![a] = None]
    /\ Delete({h} \ {None})
    /\ servicesModels' = [k \in Address |->
          IF k = h /\ servicesModels[k] # None THEN Cleared ELSE servicesModels[k]]
    /\ UNCHANGED <<dbVars, open, raced>>

(* accountById finds or makes the handle h of account a. *)
HandleOf(a, h) ==
    IF accounts[a] # None
    THEN h = accounts[a] /\ UNCHANGED <<accounts, heap>>
    ELSE /\ a \in ToSet(db)
         /\ heap[h] = None
         /\ accounts' = [accounts EXCEPT ![a] = h]
         /\ heap' = [heap EXCEPT ![h] = a]

(* data() of a row, for a role that is read from the account. *)
ReadRow(row) ==
    /\ open
    /\ \E h \in Address : HandleOf(accountIDs[row], h)
    /\ UNCHANGED <<dbVars, signals, open, accountIDs, view, servicesModels, freed, raced>>

(* A bug: the services model is made for the first row. *)
ReadServicesOfFirst(row) ==
    /\ open
    /\ \E h \in Address :
          /\ HandleOf(accountIDs[row], h)
          /\ servicesModels' = IF servicesModels[h] = None
                               THEN [servicesModels EXCEPT ![h] = accountIDs[1]] ELSE servicesModels
    /\ UNCHANGED <<dbVars, signals, open, accountIDs, view, freed, raced>>

(* data() of a row for ServicesRole: the services model at the handle's address,  *)
(* made for this account if there is none yet.                                    *)
ReadServices(row) ==
    LET a == accountIDs[row] IN
    /\ open
    /\ \E h \in Address :
          /\ HandleOf(a, h)
          /\ servicesModels' = IF servicesModels[h] = None
                               THEN [servicesModels EXCEPT ![h] = a] ELSE servicesModels
    /\ UNCHANGED <<dbVars, signals, open, accountIDs, view, freed, raced>>

Next ==
    \/ \E a \in Account : CreateAccount(a) \/ RemoveAccount(a)
    \/ Unheard \/ Construct \/ Destruct
    \/ accountCreated \/ accountRemoved
    \/ \E row \in DOMAIN accountIDs : ReadRow(row) \/ ReadServices(row)

Spec == Init /\ [][Next]_vars

--------------------------------------------------------------------------------
(* Properties. *)

(* The list that the model read at its construction has a already, and accountCreated *)
(* is still to come: there will be two rows, and one that outlives the account.       *)
Doubled(a) == Raced("created", a) /\ ~Raced("removed", a)

(* The list has a no more, and accountRemoved is still to come: it will find no row. *)
Missing(a) == Raced("removed", a) /\ ~Raced("created", a)

(* Once every signal is handled, the rows are the accounts of the database, each   *)
(* once and in order.  If signals were in flight when the model read the list, each *)
(* account still has a row, and only the accounts that the list and a signal have   *)
(* both brought have a second one or one too long (accountsmodel.cpp:34-46, 89).    *)
RowsAreAccounts ==
    open /\ signals = <<>> =>
       /\ raced = {} => accountIDs = db
       /\ ToSet(db) \subseteq ToSet(accountIDs)
       /\ \A i \in DOMAIN accountIDs : ~Doubled(accountIDs[i]) =>
             /\ accountIDs[i] \in ToSet(db)
             /\ \A k \in DOMAIN accountIDs : accountIDs[k] = accountIDs[i] => k = i

(* A view that follows the notifications has the rows of the model, second rows     *)
(* included, until it is told of the removal of an account that had gone from the   *)
(* list before its accountRemoved came: that one takes out row -1                   *)
(* (accountsmodel.cpp:36-46).                                                       *)
ViewFollowsModel ==
    view # accountIDs => \E a \in Account : Missing(a) /\ ~InFlight("removed", a)

(* The model holds no deleted handle and no handle of another account, and it     *)
(* caches handles only for its rows, so that displayNameChanged finds a row       *)
(* (accountsmodel.cpp:65-91).                                                     *)
HandlesAreValid ==
    \A a \in Account : accounts[a] # None =>
       heap[accounts[a]] = a /\ a \in ToSet(accountIDs)

(* A row's services model was made for the row's account and still shows it       *)
(* (accountsmodel.cpp:90, 140-152; servicesmodel.cpp:135-141).                    *)
HasOwnServices(a) == servicesModels[accounts[a]] \in {a, None}

ServicesOfOwnAccount == \A a \in Account : accounts[a] # None => HasOwnServices(a)

(* That holds for every handle whose address no deleted handle had before         *)
(* (accountsmodel.cpp:140-152).                                                   *)
ServicesOfFreshHandles ==
    \A a \in Account : accounts[a] \notin freed \cup {None} => HasOwnServices(a)
================================================================================
