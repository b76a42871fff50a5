----------------------------- MODULE CreateAccountJob -----------------------------
(* Creating accounts (src/src/lib/createaccountjob.cpp) in one process: jobs, the *)
(* UI plugins they show dialogs with, and signond, which stores the credentials   *)
(* and runs auth sessions.  A UI plugin is loaded once and shared (uipluginsmanager*)
(* .cpp:103-110), so its signals reach every job that is connected to it.         *)
(* Settings of the account other than its credentials and its enabled flag, and   *)
(* which of its services are enabled, are left out.                               *)
EXTENDS Sequences, FiniteSets

CONSTANTS
    Job,          \* the calls of CreateAccountJob::start()
    Plugin,       \* UI plugins
    NoPlugin,     \* what a provider without a UI plugin has
    PluginOf,     \* the plugin of each job's provider
    Missing,      \* plugins that are named by a provider but cannot be loaded
    Failures,     \* may signond fail to store credentials?
    None

ASSUME PluginAssumption ==
    /\ NoPlugin \notin Plugin /\ None \notin Plugin
    /\ PluginOf \in [Job -> Plugin \cup {NoPlugin}]
    /\ Missing \subseteq Plugin
ASSUME FailuresAssumption == Failures \in BOOLEAN

VARIABLES
    jobs,         \* which jobs are new, alive, or deleted after their result
    dialogs,      \* jobs whose dialog is open
    done,         \* m_done
    error,        \* KJob::error(): set or not
    result,       \* what emitResult() announced, if it was called
    identity,     \* m_identity
    storing,      \* a job's identities whose storeCredentials is under way
    stored,       \* a job's identities that signond has stored
    queried,      \* a job's identities with an unanswered queryInfo
    sessions,     \* a job's identities with a running auth session
    syncs,        \* a job's account->sync() calls under way: the credentials they write
    db,           \* the job's account in the accounts database
    authed        \* the dialogs whose user has authenticated, with the job they opened for

signonVars == <<storing, stored, queried, sessions>>
jobVars == <<jobs, done, error, result, identity>>
vars == <<dialogs, jobVars, signonVars, syncs, db, authed>>

(* An identity a job creates is named by the job whose dialog its data comes from *)
(* (itself when its provider has no plugin) and by how the user authenticates:    *)
(* in the plugin, with success(), or in an auth session.                          *)
Identity == Job \X {"plugin", "session"}

ASSUME IdentityAssumption == None \notin Identity

(* What the accounts database has of the job's account. *)
Row == [state : {"absent", "disabled", "enabled"}, credentials : Identity \cup {None}]

NoRow == [state |-> "absent", credentials |-> None]

TypeOK ==
    /\ jobs \in [Job -> {"new", "alive", "deleted"}]
    /\ dialogs \subseteq Job
    /\ done \in [Job -> BOOLEAN]
    /\ error \in [Job -> BOOLEAN]
    /\ result \in [Job -> {"none", "success", "error"}]
    /\ identity \in [Job -> Identity \cup {None}]
    /\ storing \in [Job -> SUBSET Identity]
    /\ stored \in [Job -> SUBSET Identity]
    /\ queried \in [Job -> SUBSET Identity]
    /\ sessions \in [Job -> SUBSET Identity]
    /\ syncs \in [Job -> Seq(Identity)]
    /\ db \in [Job -> Row]
    /\ authed \in [Job -> SUBSET Identity]

Init ==
    /\ jobs = [j \in Job |-> "new"]
    /\ dialogs = {}
    /\ done = [j \in Job |-> FALSE]
    /\ error = [j \in Job |-> FALSE]
    /\ result = [j \in Job |-> "none"]
    /\ identity = [j \in Job |-> None]
    /\ storing = [j \in Job |-> {}]
    /\ stored = [j \in Job |-> {}]
    /\ queried = [j \in Job |-> {}]
    /\ sessions = [j \in Job |-> {}]
    /\ syncs = [j \in Job |-> <<>>]
    /\ db = [j \in Job |-> NoRow]
    /\ authed = [j \in Job |-> {}]

Alive(j) == jobs[j] = "alive"

(* The one instance of a plugin, if it has been loaded. *)
pluginForName(plugin) == IF plugin \in Missing THEN None ELSE plugin

(* Mutant of Listeners: every job hears every plugin. *)
ListenersOfAll(d) == {j \in Job : Alive(j)}

(* The jobs connected to the signals of the plugin that shows the dialog of job d.*)
(* A job stays connected from loadPluginAndShowDialog until it is deleted.        *)
Listeners(d) == {j \in Job : Alive(j) /\ PluginOf[j] = PluginOf[d]}

(* KJob::emitResult() for each of J: only a job's first call announces a result.  *)
EmitResult(J, isError) ==
    result' = [j \in Job |->
                  IF j \in J /\ result[j] = "none"
                  THEN IF isError[j] THEN "error" ELSE "success"
                  ELSE result[j]]

(* i is put into the sets of each job of J. *)
Added(sets, J, i) == [j \in Job |-> IF j \in J THEN sets[j] \cup {i} ELSE sets[j]]

(* Mutant of StoreCredentials: m_identity is not assigned. *)
StoreUnassigned(J, i) ==
    /\ UNCHANGED identity
    /\ storing' = Added(storing, J, i)

(* The jobs J create identity i and have its credentials stored. *)
StoreCredentials(J, i) ==
    /\ identity' = [j \in Job |-> IF j \in J THEN i ELSE identity[j]]
    /\ storing' = Added(storing, J, i)

--------------------------------------------------------------------------------
(* The job. *)

(* start() calls processSession directly.  Without a plugin the job stores an     *)
(* identity and processes an auth session; with one it opens the plugin's dialog. *)
processSession(j) ==
    /\ jobs[j] = "new"
    /\ jobs' = [jobs EXCEPT ![j] = "alive"]
    /\ \/ /\ PluginOf[j] = NoPlugin
          /\ StoreCredentials({j}, <<j, "session">>)
          /\ sessions' = Added(sessions, {j}, <<j, "session">>)
          /\ UNCHANGED <<dialogs, error, result>>
       \/ /\ PluginOf[j] # NoPlugin /\ pluginForName(PluginOf[j]) = None
          /\ error' = [error EXCEPT ![j] = TRUE]
          /\ EmitResult({j}, error')
          /\ UNCHANGED <<dialogs, identity, storing, sessions>>
       \/ /\ PluginOf[j] # NoPlugin /\ pluginForName(PluginOf[j]) # None
          /\ dialogs' = dialogs \cup {j}
          /\ UNCHANGED <<error, result, identity, storing, sessions>>
    /\ UNCHANGED <<done, stored, queried, syncs, db, authed>>

(* The plugin announces success for the dialog of job d. *)
pluginFinished(d) ==
    LET J == Listeners(d)
        i == <<d, "plugin">> IN
    /\ d \in dialogs
    /\ dialogs' = dialogs \ {d}
    /\ StoreCredentials(J, i)
    /\ done' = [j \in Job |-> done[j] \/ j \in J]
    /\ authed' = Added(authed, J, i)
    /\ UNCHANGED <<jobs, error, result, stored, queried, sessions, syncs, db>>

(* The plugin reports an error, or that the user cancelled the dialog of job d.   *)
pluginError(d) ==
    LET J == Listeners(d) IN
    /\ d \in dialogs
    /\ dialogs' = dialogs \ {d}
    /\ error' = [j \in Job |-> error[j] \/ j \in J]
    /\ EmitResult(J, error')
    /\ UNCHANGED <<jobs, done, identity, signonVars, syncs, db, authed>>

(* The plugin asks for an auth session with the data of the dialog of job d.  The *)
(* account is written to the database now, before anybody has authenticated.      *)
startAuthSession(d) ==
    LET J == Listeners(d)
        i == <<d, "session">> IN
    /\ d \in dialogs
    /\ dialogs' = dialogs \ {d}
    /\ StoreCredentials(J, i)
    /\ sessions' = Added(sessions, J, i)
    /\ db' = [j \in Job |->
                 IF j \in J /\ db[j].state = "absent"
                 THEN [NoRow EXCEPT !.state = "disabled"] ELSE db[j]]
    /\ UNCHANGED <<jobs, done, error, result, stored, queried, syncs, authed>>

(* The auth session on i has its response; m_identity is queried, which is the    *)
(* identity the job created last.                                                 *)
sessionResponse(j, i) ==
    /\ Alive(j) /\ i \in sessions[j] /\ i \notin storing[j]
    /\ sessions' = [sessions EXCEPT ![j] = @ \ {i}]
    /\ done' = [done EXCEPT ![j] = TRUE]
    /\ queried' = [queried EXCEPT ![j] = @ \cup {identity[j]}]
    /\ authed' = [authed EXCEPT ![j] = @ \cup {i}]
    /\ UNCHANGED <<dialogs, jobs, error, result, identity, storing, stored, syncs, db>>

sessionError(j, i) ==
    /\ Alive(j) /\ i \in sessions[j]
    /\ sessions' = [sessions EXCEPT ![j] = @ \ {i}]
    /\ IF error[j]
       THEN UNCHANGED <<error, result>>
       ELSE /\ error' = [error EXCEPT ![j] = TRUE]
            /\ EmitResult({j}, error')
    /\ UNCHANGED <<dialogs, jobs, done, identity, storing, stored, queried, syncs, db, authed>>

(* Mutant of info: does not ask whether the job is done. *)
infoUnguarded(j, i) ==
    /\ Alive(j) /\ i \in queried[j] /\ i \in stored[j]
    /\ queried' = [queried EXCEPT ![j] = @ \ {i}]
    /\ syncs' = [syncs EXCEPT ![j] = Append(@, i)]
    /\ UNCHANGED <<dialogs, jobVars, storing, stored, sessions, db, authed>>

(* Mutant of info: announces the result without waiting for synced. *)
infoEmits(j, i) ==
    /\ Alive(j) /\ i \in queried[j] /\ i \in stored[j]
    /\ queried' = [queried EXCEPT ![j] = @ \ {i}]
    /\ syncs' = IF done[j] THEN [syncs EXCEPT ![j] = Append(@, i)] ELSE syncs
    /\ EmitResult(IF done[j] THEN {j} ELSE {}, error)
    /\ UNCHANGED <<dialogs, jobs, done, error, identity, storing, stored, sessions, db, authed>>

(* signond answers queryInfo.  Before the job is done the answer is ignored;      *)
(* afterwards the account takes the credentials, is enabled and written.          *)
info(j, i) ==
    /\ Alive(j) /\ i \in queried[j] /\ i \in stored[j]
    /\ queried' = [queried EXCEPT ![j] = @ \ {i}]
    /\ syncs' = IF done[j] THEN [syncs EXCEPT ![j] = Append(@, i)] ELSE syncs
    /\ UNCHANGED <<dialogs, jobVars, storing, stored, sessions, db, authed>>

(* Mutant of synced: nothing is connected to the end of the write. *)
syncedUnheard(j) ==
    /\ syncs[j] # <<>>
    /\ db' = [db EXCEPT ![j] = [state |-> "enabled", credentials |-> Head(syncs[j])]]
    /\ syncs' = [syncs EXCEPT ![j] = Tail(@)]
    /\ UNCHANGED <<dialogs, jobVars, signonVars, authed>>

(* The oldest sync() is done: the account is in the database, enabled.  A write   *)
(* under way may outlive the job, which then announces nothing.                   *)
synced(j) ==
    /\ syncs[j] # <<>>
    /\ db' = [db EXCEPT ![j] = [state |-> "enabled", credentials |-> Head(syncs[j])]]
    /\ syncs' = [syncs EXCEPT ![j] = Tail(@)]
    /\ EmitResult({k \in {j} : Alive(k)}, error)
    /\ UNCHANGED <<dialogs, jobs, done, error, identity, signonVars, authed>>

(* KJob deletes itself in a later turn of the event loop: signals that are        *)
(* already posted still reach a job that has announced its result.                *)
Deleted(j) ==
    /\ Alive(j) /\ result[j] # "none"
    /\ jobs' = [jobs EXCEPT ![j] = "deleted"]
    /\ UNCHANGED <<dialogs, done, error, result, identity, signonVars, syncs, db, authed>>

--------------------------------------------------------------------------------
(* signond (external). *)

(* Mutant of CredentialsStored: credentialsStored is not connected to queryInfo. *)
CredentialsStoredUnheard(j, i) ==
    /\ Alive(j) /\ i \in storing[j]
    /\ storing' = [storing EXCEPT ![j] = @ \ {i}]
    /\ stored' = [stored EXCEPT ![j] = @ \cup {i}]
    /\ UNCHANGED <<dialogs, jobVars, queried, sessions, syncs, db, authed>>

(* Credentials are stored: credentialsStored has the plugin path query the info.  *)
(* signond may tell clients of the new data on its own, which reads as an info.   *)
CredentialsStored(j, i) ==
    /\ Alive(j) /\ i \in storing[j]
    /\ storing' = [storing EXCEPT ![j] = @ \ {i}]
    /\ stored' = [stored EXCEPT ![j] = @ \cup {i}]
    /\ \E asked \in {TRUE, i[2] = "plugin"} :
          queried' = IF asked THEN [queried EXCEPT ![j] = @ \cup {i}] ELSE queried
    /\ UNCHANGED <<dialogs, jobVars, sessions, syncs, db, authed>>

(* Storing fails.  No slot does anything about it. *)
StoreFailed(j, i) ==
    /\ Failures
    /\ Alive(j) /\ i \in storing[j]
    /\ storing' = [storing EXCEPT ![j] = @ \ {i}]
    /\ UNCHANGED <<dialogs, jobVars, stored, queried, sessions, syncs, db, authed>>

--------------------------------------------------------------------------------
DialogEnds(d) == pluginFinished(d) \/ pluginError(d) \/ startAuthSession(d)

SignondAnswers(j, i) ==
    \/ CredentialsStored(j, i) \/ StoreFailed(j, i)
    \/ sessionResponse(j, i) \/ sessionError(j, i)
    \/ info(j, i)

Next ==
    \E j \in Job :
       \/ processSession(j)
       \/ DialogEnds(j)
       \/ synced(j)
       \/ Deleted(j)
       \/ \E i \in Identity : SignondAnswers(j, i)

(* signond and the database answer every request; the user need not end a dialog. *)
Fairness ==
    \A j \in Job :
       /\ WF_vars(synced(j))
       /\ \A i \in Identity :
             /\ WF_vars(CredentialsStored(j, i) \/ StoreFailed(j, i))
             /\ WF_vars(sessionResponse(j, i) \/ sessionError(j, i))
             /\ WF_vars(info(j, i))

Spec == Init /\ [][Next]_vars
FairSpec == Spec /\ Fairness

--------------------------------------------------------------------------------
(* Properties. *)

Enabled(j) == db[j].state = "enabled"

(* An enabled account refers to credentials that signond has stored, and that a   *)
(* user has proved in a dialog or an auth session: no info that arrives early     *)
(* enables an account (createaccountjob.cpp:167-170, 197-211, 224).               *)
EnabledIsAuthenticated ==
    \A j \in Job : Enabled(j) => db[j].credentials \in stored[j] \cap authed[j]

(* Even when jobs share a plugin and signond fails, an enabled account refers to  *)
(* credentials that signond has stored for its job, after some user has           *)
(* authenticated to it (createaccountjob.cpp:167-170, 197-211).                   *)
EnabledIsBacked ==
    \A j \in Job : Enabled(j) => db[j].credentials \in stored[j] /\ authed[j] # {}

(* What a job announces is what the database has: after success the account is    *)
(* enabled, after an error it is not (createaccountjob.cpp:173-191, 249-265).     *)
ResultMatchesDatabase ==
    \A j \in Job :
       /\ result[j] = "success" => Enabled(j)
       /\ result[j] = "error" => ~Enabled(j)

(* An account gets the credentials of its own job's dialog or session             *)
(* (createaccountjob.cpp:97-103, 142-171).                                        *)
OwnCredentials ==
    \A j \in Job : Enabled(j) => db[j].credentials[1] = j

(* How far job j has come, as whoever has started it sees it. *)
Stage(j) ==
    IF result[j] = "error" THEN "failed"
    ELSE IF Enabled(j) THEN "created"
    ELSE IF authed[j] # {} THEN "authenticated"
    ELSE IF jobs[j] # "new" THEN "started" ELSE "new"

Creation == INSTANCE AccountCreation
            WITH stage <- [j \in Job |-> Stage(j)],
                 row <- [j \in Job |-> db[j].state],
                 answer <- result

(* Jobs that share no plugin keep the promise of AccountCreation: a job fails only *)
(* before the user has authenticated, and the account is enabled in the step that *)
(* announces success (createaccountjob.cpp:167-170, 173-199, 249-265).            *)
CreatesAccounts == Creation!Spec

(* signond has failed to store the identity of job j. *)
Lost(j) == identity[j] # None /\ identity[j] \notin storing[j] \cup stored[j]

(* A job is never stuck: while it has no result its dialog is open, or something it *)
(* hears of is still to come, a session, a store, an info or a write, unless      *)
(* signond has failed to store its credentials (createaccountjob.cpp:142-265).    *)
NeverStuck ==
    \A j \in Job : Alive(j) /\ result[j] = "none" =>
       \/ j \in dialogs
       \/ storing[j] # {} \/ sessions[j] # {} \/ syncs[j] # <<>>
       \/ queried[j] \cap stored[j] # {}
       \/ Lost(j)

(* A job that has been started, and whose dialog the user has ended, announces a  *)
(* result, unless signond fails to store its credentials, to which no slot is     *)
(* connected (createaccountjob.cpp:142-199, 251-265).                             *)
JobsAnswered ==
    \A j \in Job : Alive(j) /\ j \notin dialogs ~> result[j] # "none" \/ Lost(j)
====================================================================================
