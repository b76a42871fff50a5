---------------------------- MODULE AvailableAccounts ----------------------------
(* The settings page that adds accounts (src/src/kcm/ui/AvailableAccounts.qml) over *)
(* the list of providers (src/src/lib/providersmodel.cpp).  A click on a provider   *)
(* starts a job, which belongs to the page: it is deleted with it.  A provider that *)
(* allows one account is offered while it has none; whether it has one is read when *)
(* its delegate is created and is never announced to change.                        *)
(* Accounts are not removed here (module AccountsModel is about that).              *)
EXTENDS CreateAccountJob, Naturals

CONSTANTS
    Provider,
    ProviderOf,      \* the provider each job is started for
    SingleAccount,   \* providers that do not support multiple accounts
    MaxPages         \* bound: how often the page is opened

ASSUME ProviderAssumption ==
    /\ ProviderOf \in [Job -> Provider]
    /\ SingleAccount \subseteq Provider
    /\ \A j, k \in Job : ProviderOf[j] = ProviderOf[k] => PluginOf[j] = PluginOf[k]
ASSUME JobAssumption == IsFiniteSet(Job)
ASSUME PagesAssumption == MaxPages \in Nat

VARIABLES
    page,       \* "popped": taken off the stack, but not deleted yet
    offered,    \* providers whose delegate was enabled when it was created
    pages,      \* how often the page has been opened
    raced       \* history: plugins of jobs that have overlapped, or that wrote during a read

pageVars == <<page, offered, pages, raced>>

PageTypeOK ==
    /\ page \in {"closed", "open", "popped"}
    /\ offered \subseteq Provider
    /\ pages \in 0 .. MaxPages
    /\ raced \subseteq Plugin \cup {NoPlugin}
    /\ page = "closed" => offered = {} /\ ~ \E j \in Job : Alive(j)

PageInit ==
    /\ Init
    /\ page = "closed"
    /\ offered = {}
    /\ pages = 0
    /\ raced = {}

JobsOf(p) == {j \in Job : ProviderOf[j] = p}

(* Mutant of accountsCount: looks for enabled accounts of other providers. *)
accountsCountOfOthers(p) == Cardinality({j \in Job \ JobsOf(p) : db[j].state # "absent"})

(* The accounts of provider p in the database, enabled or not. *)
accountsCount(p) == Cardinality({j \in JobsOf(p) : db[j].state # "absent"})

Writing(J) == \E j \in J : syncs[j] # <<>>

(* Other jobs with the plugin of job j that run, whose dialog is open, or that write. *)
Overlapping(j) ==
    {k \in Job \ {j} : /\ PluginOf[k] = PluginOf[j]
                       /\ Alive(k) \/ k \in dialogs \/ syncs[k] # <<>>}

--------------------------------------------------------------------------------
(* main.qml's button "Add Account...". *)
OpenPage ==
    /\ page = "closed" /\ pages < MaxPages
    /\ page' = "open"
    /\ pages' = pages + 1
    /\ UNCHANGED <<offered, raced, vars>>

(* The list creates a delegate for provider p: when the page opens, or when p is    *)
(* scrolled back into view.                                                         *)
ReadDelegate(p) ==
    /\ page = "open"
    /\ offered' = IF p \notin SingleAccount \/ accountsCount(p) = 0
                  THEN offered \cup {p} ELSE offered \ {p}
    /\ raced' = IF Writing(JobsOf(p))
                THEN raced \cup {PluginOf[j] : j \in JobsOf(p)} ELSE raced
    /\ UNCHANGED <<page, pages, vars>>

(* The user clicks the provider of job j. *)
Click(j) ==
    /\ page = "open" /\ ProviderOf[j] \in offered
    /\ processSession(j)
    /\ raced' = IF Overlapping(j) # {} THEN raced \cup {PluginOf[j]} ELSE raced
    /\ UNCHANGED <<page, offered, pages>>

(* Mutant of onFinished: the page stays open. *)
onFinishedStays == UNCHANGED page

(* A job of the page that announces success pops the page. *)
onFinished ==
    page' = IF page = "open" /\ \E j \in Job : result[j] = "none" /\ result'[j] = "success"
            THEN "popped" ELSE page

(* A step of a job, of its dialog or of signond. *)
JobStep ==
    /\ \E j \in Job :
          \/ DialogEnds(j)
          \/ synced(j)
          \/ Deleted(j)
          \/ \E i \in Identity : SignondAnswers(j, i)
    /\ onFinished
    /\ UNCHANGED <<offered, pages, raced>>

(* The user goes back. *)
Leave ==
    /\ page = "open"
    /\ page' = "popped"
    /\ UNCHANGED <<offered, pages, raced, vars>>

(* Mutant of PageDeleted: jobs are not created as children of the page. *)
PageDeletedAlone ==
    /\ page = "popped"
    /\ page' = "closed"
    /\ offered' = {}
    /\ UNCHANGED <<pages, raced, vars>>

(* The page that was popped is deleted, and its jobs with it.  Open dialogs belong  *)
(* to the UI plugins and stay.                                                      *)
PageDeleted ==
    /\ page = "popped"
    /\ page' = "closed"
    /\ offered' = {}
    /\ jobs' = [j \in Job |-> IF Alive(j) THEN "deleted" ELSE jobs[j]]
    /\ UNCHANGED <<pages, raced, dialogs, done, error, result, identity, signonVars,
                   syncs, db, authed>>

PageNext ==
    \/ OpenPage
    \/ \E p \in Provider : ReadDelegate(p)
    \/ \E j \in Job : Click(j)
    \/ JobStep
    \/ Leave
    \/ PageDeleted

PageSpec == PageInit /\ [][PageNext]_<<vars, pageVars>>

--------------------------------------------------------------------------------
(* Properties. *)

(* A provider that does not support multiple accounts gets at most one enabled      *)
(* account, unless its jobs have overlapped or one wrote while the list read the    *)
(* database: the count is read once and never announced to change, so all depends   *)
(* on the page that read it being gone when an account is there                     *)
(* (AvailableAccounts.qml:45, 69-70; providersmodel.cpp:91-101).                    *)
SingleAccountKept ==
    \A p \in SingleAccount : \A j, k \in JobsOf(p) :
       Enabled(j) /\ Enabled(k) /\ j # k => PluginOf[j] \in raced

(* Overlap is what mixes jobs up, and nothing else: a job whose plugin no other job *)
(* has used at the same time enables its account only with credentials that are     *)
(* stored, that its own user has proved, and announces what the database has, also  *)
(* when the page takes it away while it works (createaccountjob.cpp:97-103, 142-171,*)
(* 173-199, 249-265; AvailableAccounts.qml:57, 70).                                 *)
CalmJobsCorrect ==
    \A j \in Job : PluginOf[j] \notin raced =>
       /\ Enabled(j) => /\ db[j].credentials \in stored[j] \cap authed[j]
                        /\ db[j].credentials[1] = j
       /\ result[j] = "success" => Enabled(j)
       /\ result[j] = "error" => ~Enabled(j)
================================================================================
