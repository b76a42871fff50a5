------------------------------ MODULE ServicesModel ------------------------------
(* The list model of an account's services (src/src/lib/servicesmodel.cpp), the    *)
(* account handles it can be set to, and a view that shows which services are       *)
(* enabled.  The model keeps no flags: it reads the database for each request, and   *)
(* tells the view which row to read again.  AccountsModel keeps one handle for an    *)
(* account, and deletes it some time after the account has been removed.  Of a row,  *)
(* only the enabled flag is modelled.                                                *)
EXTENDS Naturals, Sequences

CONSTANTS
    Account,
    Service,
    NoService,     \* the empty name: a change of the account's own enabled flag
    ServicesOf,    \* the services of each account, in order
    None,
    MaxChanges     \* bound: changes of enabled flags

ASSUME NoneAssumption == None \notin Account
ASSUME ServiceAssumption ==
    /\ NoService \notin Service
    /\ ServicesOf \in [Account -> Seq(Service)]
ASSUME BoundAssumption == MaxChanges \in Nat

VARIABLES
    live,          \* the database: accounts that exist
    enabled,       \* the database: enabled services of accounts
    changes,
    handles,       \* accounts that have a handle in this process
    signals,       \* enabledChanged signals of handles, in flight
    account,       \* the handle the model is set to
    services,      \* its rows
    view           \* the enabled flag of each row as the view has read it last

dbVars == <<live, enabled, changes>>
vars == <<dbVars, handles, signals, account, services, view>>

Signal == [account : Account, service : Service \cup {NoService}]

TypeOK ==
    /\ live \subseteq Account /\ handles \subseteq Account
    /\ enabled \subseteq live \X Service
    /\ changes \in Nat
    /\ signals \in Seq(Signal)
    /\ account \in Account \cup {None}
    /\ services \in Seq(Service)
    /\ view \in Seq(BOOLEAN) /\ DOMAIN view = DOMAIN services

Init ==
    /\ live = Account /\ handles = Account
    /\ enabled \in SUBSET {id \in Account \X Service : \E i \in DOMAIN ServicesOf[id[1]] :
                              ServicesOf[id[1]][i] = id[2]}
    /\ changes = 0
    /\ signals = <<>>
    /\ account = None /\ services = <<>> /\ view = <<>>

--------------------------------------------------------------------------------
(* The database and libaccounts' signals (external). *)

Change(a, s) ==
    /\ a \in live
    /\ changes < MaxChanges
    /\ changes' = changes + 1
    /\ signals' = Append(signals, [account |-> a, service |-> s])
    /\ UNCHANGED <<live, handles, account, services, view>>

ToggleService(a, s) ==
    /\ \E i \in DOMAIN ServicesOf[a] : ServicesOf[a][i] = s
    /\ enabled' = IF <<a, s>> \in enabled THEN enabled \ {<<a, s>>} ELSE enabled \cup {<<a, s>>}
    /\ Change(a, s)

ToggleAccount(a) == Change(a, NoService) /\ UNCHANGED enabled

RemoveAccount(a) ==
    /\ a \in live
    /\ live' = live \ {a}
    /\ enabled' = {id \in enabled : id[1] # a}
    /\ UNCHANGED <<changes, handles, signals, account, services, view>>

--------------------------------------------------------------------------------
(* The model. *)

(* EnabledRole of a row of account a.  Without an account, a row is a null pointer *)
(* dereferenced.                                                                   *)
Flag(a, s) == <<a, s>> \in enabled

(* A bug: the rows of the old account are left when there is no new one. *)
setAccountRowsStay(a) ==
    /\ a \in handles \cup {None} /\ a # account
    /\ account' = a
    /\ services' = IF a = None THEN services ELSE ServicesOf[a]
    /\ view' = IF a = None THEN view ELSE [i \in DOMAIN services' |-> Flag(a, services'[i])]
    /\ UNCHANGED <<dbVars, handles, signals>>

(* The model is reset: the view reads every row. *)
setAccount(a) ==
    /\ a \in handles \cup {None} /\ a # account
    /\ account' = a
    /\ services' = IF a = None THEN <<>> ELSE ServicesOf[a]
    /\ view' = [i \in DOMAIN services' |-> Flag(a, services'[i])]
    /\ UNCHANGED <<dbVars, handles, signals>>

(* A bug: the row after the service's is announced. *)
enabledChangedNextRow ==
    LET signal == Head(signals) IN
    /\ signals # <<>>
    /\ signals' = Tail(signals)
    /\ view' = [i \in DOMAIN view |->
                   IF signal.account = account /\ i > 1 /\ services[i - 1] = signal.service
                   THEN Flag(account, services[i]) ELSE view[i]]
    /\ UNCHANGED <<dbVars, handles, account, services>>

(* A handle tells of a change of its account.  If the model is set to it, the view *)
(* reads the row of that service again; there may be none, then index() is invalid *)
(* and the view reads nothing.                                                     *)
enabledChanged ==
    LET signal == Head(signals) IN
    /\ signals # <<>>
    /\ signals' = Tail(signals)
    /\ view' = [i \in DOMAIN view |->
                   IF signal.account = account /\ services[i] = signal.service
                   THEN Flag(account, services[i]) ELSE view[i]]
    /\ UNCHANGED <<dbVars, handles, account, services>>

(* A bug: the rows go without the model being reset. *)
DestroyedUnannounced(a) ==
    /\ a \in handles \ live
    /\ handles' = handles \ {a}
    /\ IF account = a
       THEN account' = None /\ services' = <<>>
       ELSE UNCHANGED <<account, services>>
    /\ UNCHANGED <<dbVars, signals, view>>

(* AccountsModel deletes the handle of a removed account; a model that is set to it *)
(* forgets it and has no rows.  No model is set to it again, so that its signals    *)
(* reach nobody.                                                                    *)
Destroyed(a) ==
    /\ a \in handles \ live
    /\ handles' = handles \ {a}
    /\ IF account = a
       THEN account' = None /\ services' = <<>> /\ view' = <<>>
       ELSE UNCHANGED <<account, services, view>>
    /\ UNCHANGED <<dbVars, signals>>

Next ==
    \/ \E a \in Account :
          \/ \E s \in Service : ToggleService(a, s)
          \/ ToggleAccount(a) \/ RemoveAccount(a) \/ Destroyed(a)
    \/ \E a \in Account \cup {None} : setAccount(a)
    \/ enabledChanged

Spec == Init /\ [][Next]_vars

--------------------------------------------------------------------------------
(* Properties. *)

(* The model has rows only while it is set to a handle that exists: no row is read *)
(* through a null or dangling pointer (servicesmodel.cpp:106, 114-146).            *)
RowsHaveAccount == services # <<>> => account \in handles

(* Once the account's signals are handled, the view shows the flags the database   *)
(* has, whatever account the model was set to before (servicesmodel.cpp:114-146).  *)
ViewShowsDatabase ==
    account \in live /\ (\A i \in DOMAIN signals : signals[i].account # account) =>
       view = [i \in DOMAIN services |-> Flag(account, services[i])]
================================================================================
