------------------------------- MODULE AccountJobs -------------------------------
(* The jobs that change existing accounts: AccountServiceToggleJob,               *)
(* ChangeAccountDisplayNameJob and RemoveAccountJob (src/src/lib).  Each takes a  *)
(* handle of its own, reads what the accounts database has, and writes its changes *)
(* with sync(), which the database carries out later.  The account's display name *)
(* is left out.                                                                   *)

CONSTANTS
    Account,
    Service,
    NoService,    \* a service id that is neither a service's name nor its label
    Job

ASSUME ServiceAssumption == NoService \notin Service

VARIABLES
    accounts,     \* the database: accounts that exist
    on,           \* the database: accounts that are enabled as a whole
    enabled,      \* the database: enabled services of accounts
    identities,   \* accounts whose credentials signond still has
    jobs,         \* the jobs: not started, waiting for the database, finished
    forgetting,   \* requests to remove the credentials of an account, under way
    refused       \* history: accounts of which such a request was refused or lost

dbVars == <<accounts, on, enabled>>
signonVars == <<identities, forgetting, refused>>
vars == <<dbVars, signonVars, jobs>>

(* What a job waiting for the database is to write.  A toggle also has, for the   *)
(* properties, the enabled services it found when it started.                     *)
Write ==
    [kind : {"toggle"}, account : Account, service : Service, enable : BOOLEAN, on : BOOLEAN,
     found : SUBSET Service]
        \cup [kind : {"rename", "remove"}, account : Account]

Running == [state : {"running"}, write : Write]
New == [state |-> "new"]
Finished == [state |-> "finished"]

TypeOK ==
    /\ accounts \subseteq Account
    /\ on \subseteq accounts
    /\ enabled \subseteq accounts \X Service
    /\ identities \subseteq Account
    /\ forgetting \subseteq Job \X Account
    /\ refused \subseteq Account
    /\ jobs \in [Job -> {New, Finished} \cup Running]

(* A new account is enabled as a whole, whichever of its services the user has    *)
(* unchecked (createaccountjob.cpp:243-250).  One whose creation failed has no    *)
(* credentials.                                                                   *)
Init ==
    /\ accounts = Account
    /\ on = Account
    /\ enabled \in SUBSET (Account \X Service)
    /\ identities \in SUBSET Account
    /\ forgetting = {} /\ refused = {}
    /\ jobs = [j \in Job |-> New]

IsRunning(j) == jobs[j].state = "running"

(* The jobs that wait for the database to do something of this kind to a. *)
Waiting(kind, a) ==
    {j \in Job : IsRunning(j) /\ jobs[j].write.kind = kind /\ jobs[j].write.account = a}

EnabledServices(a) == {s \in Service : <<a, s>> \in enabled}

Sync(j, write) == jobs' = [jobs EXCEPT ![j] = [state |-> "running", write |-> write]]

Finish(J) == jobs' = [j \in Job |-> IF j \in J THEN Finished ELSE jobs[j]]

(* Without an account or a service there is nothing to write: the job finishes,   *)
(* and sets no error.                                                             *)
NothingToDo(j) ==
    /\ Finish({j})
    /\ UNCHANGED <<dbVars, signonVars>>

--------------------------------------------------------------------------------
(* Mutant of ToggleService: counts the service that is being disabled. *)
ToggleCountingItself(j, a, s, enable) ==
    /\ jobs[j] = New
    /\ IF a \in accounts /\ s # NoService
       THEN /\ Sync(j, [kind |-> "toggle", account |-> a, service |-> s, enable |-> enable,
                        on |-> enable \/ EnabledServices(a) # {},
                        found |-> EnabledServices(a)])
            /\ UNCHANGED <<dbVars, signonVars>>
       ELSE NothingToDo(j)

(* AccountServiceToggleJob::start().  Enabling a service enables its account;     *)
(* disabling one leaves the account enabled only if the database has another      *)
(* service of it enabled.                                                         *)
ToggleService(j, a, s, enable) ==
    /\ jobs[j] = New
    /\ IF a \in accounts /\ s # NoService
       THEN /\ Sync(j, [kind |-> "toggle", account |-> a, service |-> s, enable |-> enable,
                        on |-> enable \/ EnabledServices(a) \ {s} # {},
                        found |-> EnabledServices(a)])
            /\ UNCHANGED <<dbVars, signonVars>>
       ELSE NothingToDo(j)

(* ChangeAccountDisplayNameJob::start().  An empty name is refused. *)
ChangeDisplayName(j, a, isEmpty) ==
    /\ jobs[j] = New
    /\ IF a \in accounts /\ ~isEmpty
       THEN /\ Sync(j, [kind |-> "rename", account |-> a])
            /\ UNCHANGED <<dbVars, signonVars>>
       ELSE NothingToDo(j)

(* Mutant of RemoveAccount: the credentials are left to signond. *)
RemoveAccountOnly(j, a) ==
    /\ jobs[j] = New
    /\ IF a \in accounts
       THEN /\ Sync(j, [kind |-> "remove", account |-> a])
            /\ UNCHANGED <<dbVars, signonVars>>
       ELSE NothingToDo(j)

(* RemoveAccountJob::start().  The removal of the credentials is asked for before *)
(* the removal of the account; the job waits for the manager's accountRemoved, and *)
(* does not look at what becomes of the credentials.                              *)
RemoveAccount(j, a) ==
    /\ jobs[j] = New
    /\ IF a \in accounts
       THEN /\ Sync(j, [kind |-> "remove", account |-> a])
            /\ forgetting' = forgetting \cup {j} \X (identities \cap {a})
            /\ UNCHANGED <<dbVars, identities, refused>>
       ELSE NothingToDo(j)

--------------------------------------------------------------------------------
(* The accounts database and signond (external). *)

(* Mutant of Synced: only a toggle is connected to it. *)
SyncedUnheard(j) ==
    /\ IsRunning(j)
    /\ jobs[j].write.kind = "toggle" /\ jobs[j].write.account \in accounts
    /\ Finish({j})
    /\ UNCHANGED <<dbVars, signonVars>>

(* The write of a toggle or a rename is carried out and `synced` ends the job.    *)
(* Writing to an account that is gone fails, and then `synced` never comes.       *)
Synced(j) ==
    /\ IsRunning(j)
    /\ LET write == jobs[j].write
           id == <<write.account, write.service>> IN
       /\ write.kind # "remove"
       /\ write.account \in accounts
       /\ IF write.kind = "toggle"
          THEN /\ on' = IF write.on THEN on \cup {write.account} ELSE on \ {write.account}
               /\ enabled' = IF write.enable THEN enabled \cup {id} ELSE enabled \ {id}
          ELSE UNCHANGED <<on, enabled>>
    /\ Finish({j})
    /\ UNCHANGED <<accounts, signonVars>>

(* Mutant of AccountGone: the settings of a removed account stay. *)
AccountGoneSettingsStay(a) ==
    /\ a \in accounts
    /\ accounts' = accounts \ {a}
    /\ Finish(Waiting("remove", a))
    /\ UNCHANGED <<on, enabled, signonVars>>

(* Mutant of AccountGone: only one of the jobs is told. *)
AccountGoneTellsOne(a) ==
    /\ a \in accounts
    /\ accounts' = accounts \ {a}
    /\ on' = on \ {a}
    /\ enabled' = {id \in enabled : id[1] # a}
    /\ \E j \in Job : Finish(Waiting("remove", a) \cap {j})
    /\ UNCHANGED signonVars

(* Mutant of AccountGone: the id that accountRemoved carries is not compared. *)
AccountGoneTellsAll(a) ==
    /\ a \in accounts
    /\ accounts' = accounts \ {a}
    /\ on' = on \ {a}
    /\ enabled' = {id \in enabled : id[1] # a}
    /\ Finish({j \in Job : IsRunning(j) /\ jobs[j].write.kind = "remove"})
    /\ UNCHANGED signonVars

(* Account a goes: accountRemoved ends every job that waits for its removal.      *)
AccountGone(a) ==
    /\ a \in accounts
    /\ accounts' = accounts \ {a}
    /\ on' = on \ {a}
    /\ enabled' = {id \in enabled : id[1] # a}
    /\ Finish(Waiting("remove", a))
    /\ UNCHANGED signonVars

(* The write of a removal is carried out. *)
Removed(a) == Waiting("remove", a) # {} /\ AccountGone(a)

(* Another process removes the account. *)
RemovedElsewhere(a) == AccountGone(a)

(* signond has removed the credentials of a. *)
IdentityRemoved(j, a) ==
    /\ <<j, a>> \in forgetting
    /\ forgetting' = forgetting \ {<<j, a>>}
    /\ identities' = identities \ {a}
    /\ UNCHANGED <<dbVars, jobs, refused>>

(* The credentials of a stay: signond refuses, or the Identity that carries the    *)
(* request is deleted (deleteLater) before signond has it.                         *)
IdentityStays(j, a) ==
    /\ <<j, a>> \in forgetting
    /\ forgetting' = forgetting \ {<<j, a>>}
    /\ refused' = refused \cup {a}
    /\ UNCHANGED <<dbVars, jobs, identities>>

IdentityAnswered(j, a) == IdentityRemoved(j, a) \/ IdentityStays(j, a)

Next ==
    \/ \E j \in Job, a \in Account :
          \/ \E s \in Service \cup {NoService}, enable \in BOOLEAN : ToggleService(j, a, s, enable)
          \/ \E isEmpty \in BOOLEAN : ChangeDisplayName(j, a, isEmpty)
          \/ RemoveAccount(j, a)
          \/ IdentityAnswered(j, a)
    \/ \E j \in Job : Synced(j)
    \/ \E a \in Account : Removed(a) \/ RemovedElsewhere(a)

(* The database carries out what it is asked, and a request to signond is granted, *)
(* refused or lost some time; nobody has to start a job, to remove an account      *)
(* elsewhere, or to remove credentials.                                            *)
Fairness ==
    /\ \A j \in Job : WF_vars(Synced(j))
    /\ \A a \in Account : WF_vars(Removed(a))
    /\ \A j \in Job, a \in Account : WF_vars(IdentityAnswered(j, a))

Spec == Init /\ [][Next]_vars
FairSpec == Spec /\ Fairness

--------------------------------------------------------------------------------
(* Properties. *)

(* A toggle leaves the account enabled exactly when one of its services is: one     *)
(* that enables a service does so whatever has overtaken it, and one that disables  *)
(* a service unless another service of the account has changed since it started     *)
(* (accountservicetogglejob.cpp:92-123).                                            *)
NotOvertaken(write) ==
    \/ write.enable
    \/ EnabledServices(write.account) \ {write.service} = write.found \ {write.service}

ToggleSettles ==
    [][\A j \in Job :
          LET write == jobs[j].write IN
          IsRunning(j) /\ jobs'[j] = Finished /\ write.kind = "toggle" /\ NotOvertaken(write) =>
             (write.account \in on' <=> \E s \in Service : <<write.account, s>> \in enabled')]_vars

(* The removal of another account does not end a job: when a job that removes an  *)
(* account finishes, the account has gone, and the page that shows it closes for  *)
(* good reason (removeaccountjob.cpp:58-62).                                      *)
FinishedRemovalIsGone ==
    [][\A j \in Job :
          IsRunning(j) /\ jobs[j].write.kind = "remove" /\ jobs'[j] = Finished =>
             jobs[j].write.account \notin accounts']_vars

(* A job that waits for a removal has both halves of it to come: its account is   *)
(* still there, also when others remove it too, so that the job will be told; and *)
(* its own request to signond is under way as long as there are credentials, but   *)
(* for a refusal (removeaccountjob.cpp:58-69).                                    *)
RemovalGoesOn ==
    \A j \in Job : IsRunning(j) /\ jobs[j].write.kind = "remove" =>
       LET a == jobs[j].write.account IN
       a \in accounts /\ (a \in identities => <<j, a>> \in forgetting \/ a \in refused)

(* A job that removes an account finishes, also when another job or process is    *)
(* first to remove it (removeaccountjob.cpp:56-62).                               *)
RemovalFinishes ==
    \A j \in Job : IsRunning(j) /\ jobs[j].write.kind = "remove" ~> jobs[j] = Finished

(* A job that writes to an account finishes, unless the account is removed first  *)
(* (accountservicetogglejob.cpp:120-123, changeaccountdisplaynamejob.cpp:70-73).  *)
WritesFinish ==
    \A j \in Job :
       IsRunning(j) ~> ~IsRunning(j) \/ jobs[j].write.account \notin accounts

(* Account and credentials go in two services, and the job looks at the first only: *)
(* a job's removal of an account leaves credentials of it behind in one way only,  *)
(* that signond refused a request or never had it (removeaccountjob.cpp:58-69).    *)
RemovalForgetsCredentials ==
    \A a \in Account : Waiting("remove", a) # {} ~>
       a \notin accounts /\ (a \in identities => a \in refused)
================================================================================
