------------------------- MODULE AvailableAccountsProofs -------------------------
(* Theorems about the page that adds accounts, for any jobs, providers, sharing of *)
(* UI plugins, and however often the page is opened, whether or not signond fails. *)
EXTENDS AvailableAccounts, CreateAccountJobProofs, FiniteSetTheorems

--------------------------------------------------------------------------------
(* The inductive invariant. *)

(* A job that has overlapped with no other on its plugin. *)
Calm(j) == PluginOf[j] \notin raced

Busy(j) == Alive(j) \/ j \in dialogs \/ syncs[j] # <<>>

(* A calm job is separate, and alone on its plugin while it is busy. *)
CalmSeparate == \A j \in Job : Calm(j) => Separate(j)

CalmAlone ==
    \A j, k \in Job :
       Calm(j) /\ PluginOf[j] = PluginOf[k] /\ Busy(j) /\ Busy(k) => j = k

(* While it is busy, no other job has an enabled account of a provider that allows *)
(* one only.                                                                      *)
CalmOnly ==
    \A p \in SingleAccount : \A j, k \in JobsOf(p) :
       Calm(j) /\ Busy(j) /\ j # k => ~Enabled(k)

(* What an open page offers has no enabled account, and none comes from a job that *)
(* is gone.                                                                       *)
OfferedIsFree ==
    page = "open" => \A p \in SingleAccount \cap offered : \A j \in JobsOf(p) :
                        Calm(j) => ~Enabled(j) /\ (syncs[j] # <<>> => Alive(j))

PInv ==
    /\ IInv
    /\ PageTypeOK
    /\ CalmSeparate
    /\ CalmAlone
    /\ CalmOnly
    /\ OfferedIsFree
    /\ SingleAccountKept

--------------------------------------------------------------------------------
(* Steps of jobs, dialogs and signond. *)

(* Such a step makes no job busy or alive; it enables an account by the end of a  *)
(* write, starts writes of jobs that are alive, and deletes jobs that have a result.*)
JobStepEffect(k) ==
    /\ Busy(k)' => Busy(k)
    /\ Alive(k)' => Alive(k)
    /\ Enabled(k)' => Enabled(k) \/ synced(k)
    /\ syncs'[k] # <<>> => syncs[k] # <<>> \/ Alive(k)'
    /\ Alive(k) /\ ~Alive(k)' => result[k] # "none" /\ syncs'[k] = syncs[k]

LEMMA DialogEndsEffect ==
    ASSUME TypeOK, NEW d \in Job, DialogEnds(d), NEW k \in Job
    PROVE  JobStepEffect(k)
<1>1. /\ dialogs' \subseteq dialogs
      /\ UNCHANGED <<jobs, syncs>>
  BY DEF DialogEnds, pluginFinished, pluginError, startAuthSession
<1>2. Enabled(k)' => Enabled(k)
  <2>1. CASE pluginFinished(d) \/ pluginError(d)
    BY <2>1 DEF pluginFinished, pluginError, Enabled
  <2>2. CASE startAuthSession(d)
    <3>1. db'[k] = db[k] \/ db'[k] = [NoRow EXCEPT !.state = "disabled"]
      BY <2>2 DEF startAuthSession
    <3>2. QED
      BY <3>1 DEF Enabled, NoRow
  <2>3. QED
    BY <2>1, <2>2 DEF DialogEnds
<1>3. QED
  BY <1>1, <1>2 DEF JobStepEffect, Busy, Alive

LEMMA SignondAnswersEffect ==
    ASSUME TypeOK, NEW j \in Job, NEW i \in Identity, SignondAnswers(j, i), NEW k \in Job
    PROVE  JobStepEffect(k)
<1>1. UNCHANGED <<dialogs, jobs, db>>
  BY DEF SignondAnswers, CredentialsStored, StoreFailed, sessionResponse, sessionError,
         info, jobVars
<1>2. syncs'[k] = syncs[k] \/ Alive(k)
  BY DEF SignondAnswers, CredentialsStored, StoreFailed, sessionResponse, sessionError,
         info, TypeOK
<1>3. QED
  BY <1>1, <1>2 DEF JobStepEffect, Busy, Alive, Enabled

LEMMA SyncedEffect ==
    ASSUME TypeOK, NEW j \in Job, synced(j), NEW k \in Job
    PROVE  JobStepEffect(k)
<1>1. /\ syncs[j] # <<>>
      /\ db' = [db EXCEPT ![j] = [state |-> "enabled", credentials |-> Head(syncs[j])]]
      /\ syncs' = [syncs EXCEPT ![j] = Tail(@)]
      /\ UNCHANGED <<dialogs, jobs>>
  BY DEF synced
<1>2. k # j => db'[k] = db[k] /\ syncs'[k] = syncs[k]
  BY <1>1 DEF TypeOK
<1>3. QED
  BY <1>1, <1>2 DEF JobStepEffect, Busy, Alive, Enabled

LEMMA DeletedEffect ==
    ASSUME TypeOK, NEW j \in Job, Deleted(j), NEW k \in Job
    PROVE  JobStepEffect(k)
<1>1. /\ result[j] # "none"
      /\ jobs' = [jobs EXCEPT ![j] = "deleted"]
      /\ UNCHANGED <<dialogs, syncs, db>>
  BY DEF Deleted
<1>2. QED
  BY <1>1 DEF JobStepEffect, Busy, Alive, Enabled, TypeOK

LEMMA JobStepEffects ==
    ASSUME TypeOK, JobStep, NEW k \in Job
    PROVE  JobStepEffect(k)
BY DialogEndsEffect, SignondAnswersEffect, SyncedEffect, DeletedEffect DEF JobStep

(* A calm job that becomes enabled while the page stays open is not one of a      *)
(* provider on offer: its success would have popped the page.                     *)
LEMMA SuccessPops ==
    ASSUME PInv, JobStep, page' = "open", NEW j \in Job, Separate(j), ~Enabled(j), Alive(j)
    PROVE  ~synced(j)
<1> SUFFICES ASSUME synced(j) PROVE FALSE
  OBVIOUS
<1>1. syncs[j] # <<>> /\ EmitResult({n \in {j} : Alive(n)}, error)
  BY DEF synced
<1>2. ~error[j]
  BY <1>1 DEF Separate
<1>3. result[j] = "none"
  BY <1>2 DEF Separate, PInv, IInv, TypeOK
<1>4. result'[j] = "success"
  BY <1>1, <1>2, <1>3 DEF EmitResult
<1>5. page' = "popped" \/ page # "open"
  BY <1>3, <1>4 DEF JobStep, onFinished
<1>6. page' = page \/ page' = "popped"
  BY DEF JobStep, onFinished
<1>7. QED
  BY <1>5, <1>6

LEMMA JobStepInv == PInv /\ JobStep => PInv'
<1> SUFFICES ASSUME PInv, JobStep PROVE PInv'
  OBVIOUS
<1>1. /\ UNCHANGED <<offered, pages, raced>>
      /\ page' = page \/ (page = "open" /\ page' = "popped")
  BY DEF JobStep, onFinished
<1>2. IInv /\ TypeOK
  BY DEF PInv, IInv
<1>3. Next /\ \A k \in Job : JobStepEffect(k)
  <2>1. Next
    BY DEF JobStep, Next
  <2>2. QED
    BY <1>2, <2>1, JobStepEffects
<1>4. IInv'
  <2>1. [Next]_vars
    BY <1>3
  <2>2. QED
    BY <1>2, <2>1, NextInv
<1>5. PageTypeOK'
  BY <1>1, <1>3 DEF PInv, PageTypeOK, JobStepEffect
<1>6. CalmSeparate'
  <2>1. SUFFICES ASSUME NEW k \in Job, Calm(k) PROVE Separate(k)'
    BY <1>1 DEF CalmSeparate, Calm
  <2>2. OwnDialog(k)
    <3>1. ASSUME NEW d \in Job, d \in dialogs, k \in Listeners(d) PROVE d = k
      <4>1. Busy(k) /\ Busy(d) /\ PluginOf[k] = PluginOf[d]
        BY <3>1 DEF Busy, Listeners
      <4>2. QED
        BY <2>1, <4>1 DEF PInv, CalmAlone
    <3>2. QED
      BY <3>1 DEF OwnDialog
  <2>3. Separate(k)
    BY <2>1 DEF PInv, CalmSeparate
  <2>4. QED
    BY <1>2, <1>3, <2>2, <2>3, StepSeparate
<1>7. CalmAlone'
  BY <1>1, <1>3 DEF PInv, CalmAlone, Calm, JobStepEffect
<1>8. ASSUME NEW p \in SingleAccount, NEW j \in JobsOf(p), NEW k \in JobsOf(p),
             Calm(j), Busy(j), j # k
      PROVE  ~Enabled(k)'
  <2>1. j \in Job /\ k \in Job /\ PluginOf[j] = PluginOf[k]
    BY ProviderAssumption DEF JobsOf
  <2>2. ~Busy(k)
    BY <1>8, <2>1 DEF PInv, CalmAlone
  <2>3. ~Enabled(k)
    BY <1>8 DEF PInv, CalmOnly
  <2>4. ~synced(k)
    BY <2>2 DEF Busy, synced
  <2>5. QED
    BY <1>3, <2>1, <2>3, <2>4 DEF JobStepEffect
<1>9. CalmOnly'
  BY <1>1, <1>3, <1>8 DEF CalmOnly, Calm, JobsOf, JobStepEffect
<1>10. OfferedIsFree'
  <2>1. SUFFICES ASSUME page' = "open", NEW p \in SingleAccount \cap offered,
                        NEW j \in JobsOf(p), Calm(j)
                 PROVE  ~Enabled(j)' /\ (syncs'[j] # <<>> => Alive(j)')
    BY <1>1 DEF OfferedIsFree, Calm, JobsOf
  <2>2. j \in Job /\ Separate(j)
    BY <2>1 DEF JobsOf, PInv, CalmSeparate
  <2>3. ~Enabled(j) /\ (syncs[j] # <<>> => Alive(j))
    BY <1>1, <2>1 DEF PInv, OfferedIsFree
  <2>4. ~synced(j)
    <3>1. CASE Alive(j)
      BY <2>1, <2>2, <2>3, <3>1, SuccessPops
    <3>2. CASE ~Alive(j)
      BY <2>3, <3>2 DEF synced
    <3>3. QED
      BY <3>1, <3>2
  <2>5. result[j] # "none" => syncs[j] = <<>>
    BY <2>2, <2>3 DEF Separate, PInv, IInv, TypeOK
  <2>6. QED
    BY <1>3, <2>2, <2>3, <2>4, <2>5 DEF JobStepEffect
<1>11. SingleAccountKept'
  <2>1. SUFFICES ASSUME NEW p \in SingleAccount, NEW j \in JobsOf(p), NEW k \in JobsOf(p),
                        Enabled(j)', Enabled(k)', j # k, Calm(j)
                 PROVE  FALSE
    BY <1>1 DEF SingleAccountKept, Calm, JobsOf
  <2>2. j \in Job /\ k \in Job /\ Calm(k)
    BY <2>1, ProviderAssumption DEF JobsOf, Calm
  <2>3. ~Busy(j) /\ ~Busy(k)
    BY <1>8, <2>1, <2>2
  <2>4. ~synced(j) /\ ~synced(k)
    BY <2>3 DEF Busy, synced
  <2>5. Enabled(j) /\ Enabled(k)
    BY <1>3, <2>1, <2>2, <2>4 DEF JobStepEffect
  <2>6. QED
    BY <2>1, <2>5 DEF PInv, SingleAccountKept, Calm
<1>12. QED
  BY <1>4, <1>5, <1>6, <1>7, <1>9, <1>10, <1>11 DEF PInv

--------------------------------------------------------------------------------
(* Steps of the page. *)

(* A step that leaves jobs, dialogs and the database alone, and calms no job.     *)
LEMMA PageOnlyInv ==
    ASSUME PInv, UNCHANGED vars, raced \subseteq raced', PageTypeOK', OfferedIsFree'
    PROVE  PInv'
<1>1. UNCHANGED <<dialogs, jobs, done, error, result, identity, storing, stored, queried,
                  sessions, syncs, db, authed>>
  BY DEF vars, jobVars, signonVars
<1>2. IInv'
  <2>1. [Next]_vars
    OBVIOUS
  <2>2. QED
    BY <2>1, NextInv DEF PInv
<1>3. \A k \in Job : Separate(k)' <=> Separate(k)
  BY <1>1 DEF Separate, Enabled
<1>4. \A k \in Job : /\ Calm(k)' => Calm(k)
                     /\ Busy(k)' <=> Busy(k)
                     /\ Enabled(k)' <=> Enabled(k)
  BY <1>1 DEF Calm, Busy, Alive, Enabled
<1>5. CalmSeparate' /\ CalmAlone'
  BY <1>3, <1>4 DEF PInv, CalmSeparate, CalmAlone
<1>6. CalmOnly'
  BY <1>4 DEF PInv, CalmOnly, JobsOf
<1>7. SingleAccountKept'
  BY <1>4 DEF PInv, SingleAccountKept, JobsOf, Calm
<1>8. QED
  BY <1>2, <1>5, <1>6, <1>7 DEF PInv

LEMMA OpenPageInv == PInv /\ OpenPage => PInv'
<1> SUFFICES ASSUME PInv, OpenPage PROVE PInv'
  OBVIOUS
<1>1. /\ page = "closed" /\ page' = "open" /\ pages < MaxPages /\ pages' = pages + 1
      /\ UNCHANGED <<offered, raced, vars>>
  BY DEF OpenPage
<1>2. offered' = {}
  BY <1>1 DEF PInv, PageTypeOK
<1>3. OfferedIsFree'
  BY <1>2 DEF OfferedIsFree
<1>4. PageTypeOK'
  BY <1>1, PagesAssumption DEF PInv, PageTypeOK
<1>5. QED
  BY <1>1, <1>3, <1>4, PageOnlyInv

LEMMA LeaveInv == PInv /\ Leave => PInv'
<1> SUFFICES ASSUME PInv, Leave PROVE PInv'
  OBVIOUS
<1>1. page' = "popped" /\ UNCHANGED <<offered, pages, raced, vars>>
  BY DEF Leave
<1>2. OfferedIsFree' /\ PageTypeOK'
  BY <1>1 DEF PInv, PageTypeOK, OfferedIsFree
<1>3. QED
  BY <1>1, <1>2, PageOnlyInv

(* A provider whose accounts number zero has none in the database. *)
LEMMA NoneCounted ==
    ASSUME NEW p \in Provider, accountsCount(p) = 0, NEW j \in JobsOf(p)
    PROVE  ~Enabled(j)
<1>1. {k \in JobsOf(p) : db[k].state # "absent"} \subseteq Job
  BY DEF JobsOf
<1>2. IsFiniteSet({k \in JobsOf(p) : db[k].state # "absent"})
  BY <1>1, JobAssumption, FS_Subset
<1>3. {k \in JobsOf(p) : db[k].state # "absent"} = {}
  BY <1>2, FS_EmptySet DEF accountsCount
<1>4. QED
  BY <1>3 DEF Enabled

LEMMA ReadDelegateInv ==
    ASSUME PInv, NEW p \in Provider, ReadDelegate(p) PROVE PInv'
<1>1. /\ page = "open"
      /\ offered' = IF p \notin SingleAccount \/ accountsCount(p) = 0
                    THEN offered \cup {p} ELSE offered \ {p}
      /\ raced' = IF Writing(JobsOf(p))
                  THEN raced \cup {PluginOf[j] : j \in JobsOf(p)} ELSE raced
      /\ UNCHANGED <<page, pages, vars>>
  BY DEF ReadDelegate
<1>2. raced \subseteq raced' /\ UNCHANGED <<jobs, syncs, db>>
  BY <1>1 DEF vars, jobVars
<1>3. PageTypeOK'
  <2>1. {PluginOf[j] : j \in JobsOf(p)} \subseteq Plugin \cup {NoPlugin}
    BY PluginAssumption DEF JobsOf
  <2>2. offered' \subseteq Provider /\ raced' \subseteq Plugin \cup {NoPlugin}
    BY <1>1, <2>1 DEF PInv, PageTypeOK
  <2>3. QED
    BY <1>1, <2>2 DEF PInv, PageTypeOK
<1>4. OfferedIsFree'
  <2>1. SUFFICES ASSUME NEW q \in SingleAccount, q \in offered', NEW j \in JobsOf(q), Calm(j)'
                 PROVE  ~Enabled(j) /\ (syncs[j] # <<>> => Alive(j))
    BY <1>2 DEF OfferedIsFree, JobsOf, Enabled, Alive
  <2>2. Calm(j)
    BY <1>2, <2>1 DEF Calm
  <2>3. CASE q # p
    <3>1. q \in offered
      BY <1>1, <2>1, <2>3
    <3>2. QED
      BY <1>1, <2>1, <2>2, <3>1 DEF PInv, OfferedIsFree
  <2>4. CASE q = p
    <3>1. accountsCount(p) = 0
      BY <1>1, <2>1, <2>4
    <3>2. ~Enabled(j)
      BY <2>1, <2>4, <3>1, NoneCounted
    <3>3. syncs[j] = <<>>
      <4>1. SUFFICES ASSUME syncs[j] # <<>> PROVE FALSE
        OBVIOUS
      <4>2. Writing(JobsOf(p))
        BY <2>1, <2>4, <4>1 DEF Writing
      <4>3. PluginOf[j] \in raced'
        BY <1>1, <2>1, <2>4, <4>2
      <4>4. QED
        BY <2>1, <4>3 DEF Calm
    <3>4. QED
      BY <3>2, <3>3
  <2>5. QED
    BY <2>3, <2>4
<1>5. QED
  BY <1>1, <1>2, <1>3, <1>4, PageOnlyInv

LEMMA PageDeletedBacked == IInv /\ PageDeleted => IInv'
<1> SUFFICES ASSUME IInv, PageDeleted PROVE IInv'
  OBVIOUS
<1>1. /\ jobs' = [j \in Job |-> IF Alive(j) THEN "deleted" ELSE jobs[j]]
      /\ UNCHANGED <<dialogs, done, error, result, identity, storing, stored, queried,
                     sessions, syncs, db, authed>>
  BY DEF PageDeleted, signonVars
<1>2. jobs' \in [Job -> {"new", "alive", "deleted"}]
  BY <1>1 DEF IInv, TypeOK
<1>3. TypeOK'
  BY <1>1, <1>2 DEF IInv, TypeOK
<1>4. Backed'
  BY <1>1 DEF IInv, Backed, SessionsHaveIdentity, DoneIsAuthenticated, SyncsAreBacked,
              EnabledIsBacked, Enabled
<1>5. QED
  BY <1>3, <1>4 DEF IInv

LEMMA PageDeletedInv == PInv /\ PageDeleted => PInv'
<1> SUFFICES ASSUME PInv, PageDeleted PROVE PInv'
  OBVIOUS
<1>1. /\ page' = "closed" /\ offered' = {}
      /\ jobs' = [j \in Job |-> IF Alive(j) THEN "deleted" ELSE jobs[j]]
      /\ UNCHANGED <<pages, raced, dialogs, done, error, result, identity, storing, stored,
                     queried, sessions, syncs, db, authed>>
  BY DEF PageDeleted, signonVars
<1>2. IInv'
  BY PageDeletedBacked DEF PInv
<1>3. ASSUME NEW k \in Job PROVE ~Alive(k)' /\ (jobs'[k] = "new" => jobs[k] = "new")
  BY <1>1 DEF Alive
<1>4. \A k \in Job : /\ Calm(k)' <=> Calm(k)
                     /\ Busy(k)' => Busy(k)
                     /\ Enabled(k)' <=> Enabled(k)
  BY <1>1, <1>3 DEF Calm, Busy, Enabled
<1>5. \A k \in Job : Separate(k) => Separate(k)'
  BY <1>1, <1>3 DEF Separate, Enabled
<1>6. PageTypeOK' /\ OfferedIsFree'
  BY <1>1, <1>3 DEF PInv, PageTypeOK, OfferedIsFree
<1>7. CalmSeparate' /\ CalmAlone'
  BY <1>4, <1>5 DEF PInv, CalmSeparate, CalmAlone
<1>8. CalmOnly'
  BY <1>4 DEF PInv, CalmOnly, JobsOf
<1>9. SingleAccountKept'
  BY <1>1, <1>4 DEF PInv, SingleAccountKept, JobsOf
<1>10. QED
  BY <1>2, <1>6, <1>7, <1>8, <1>9 DEF PInv

LEMMA ClickInv ==
    ASSUME PInv, NEW j \in Job, Click(j) PROVE PInv'
<1>1. /\ page = "open" /\ ProviderOf[j] \in offered
      /\ processSession(j)
      /\ raced' = IF Overlapping(j) # {} THEN raced \cup {PluginOf[j]} ELSE raced
      /\ UNCHANGED <<page, offered, pages>>
  BY DEF Click
<1>2. /\ jobs[j] = "new"
      /\ jobs' = [jobs EXCEPT ![j] = "alive"]
      /\ dialogs' = dialogs \/ dialogs' = dialogs \cup {j}
      /\ UNCHANGED <<syncs, db>>
  BY <1>1 DEF processSession
<1>3. IInv'
  BY <1>1, ProcessSessionInv DEF PInv
<1>4. \A k \in Job : /\ Calm(k)' => Calm(k)
                     /\ Enabled(k)' <=> Enabled(k)
                     /\ k # j => (Busy(k)' <=> Busy(k)) /\ (Alive(k)' <=> Alive(k))
  BY <1>1, <1>2 DEF Calm, Enabled, Busy, Alive, PInv, IInv, TypeOK
<1>5. PageTypeOK'
  <2>1. raced' \subseteq Plugin \cup {NoPlugin}
    BY <1>1, PluginAssumption DEF PInv, PageTypeOK
  <2>2. QED
    BY <1>1, <2>1 DEF PInv, PageTypeOK
<1>6. CalmSeparate'
  BY <1>1, <1>4, ProcessSessionSeparate DEF PInv, CalmSeparate
(* If j stays calm, no other job on its plugin is busy. *)
<1>7. ASSUME Calm(j)', NEW k \in Job, k # j, PluginOf[k] = PluginOf[j]
      PROVE  ~Busy(k)
  <2>1. Overlapping(j) = {}
    BY <1>1, <1>7 DEF Calm
  <2>2. QED
    BY <1>7, <2>1 DEF Overlapping, Busy
<1>8. CalmAlone'
  <2>1. SUFFICES ASSUME NEW k \in Job, NEW m \in Job, Calm(k)', PluginOf[k] = PluginOf[m],
                        Busy(k)', Busy(m)', k # m
                 PROVE  FALSE
    BY DEF CalmAlone
  <2>2. Calm(m)'
    BY <2>1 DEF Calm
  <2>3. k # j /\ m # j
    BY <1>4, <1>7, <2>1, <2>2
  <2>4. QED
    BY <1>4, <2>1, <2>3 DEF PInv, CalmAlone
<1>9. CalmOnly'
  <2>1. SUFFICES ASSUME NEW p \in SingleAccount, NEW k \in JobsOf(p), NEW m \in JobsOf(p),
                        Calm(k)', Busy(k)', k # m
                 PROVE  ~Enabled(m)
    BY <1>4 DEF CalmOnly, JobsOf
  <2>2. /\ k \in Job /\ m \in Job /\ ProviderOf[k] = p
        /\ Calm(k) /\ PluginOf[m] = PluginOf[k]
    BY <1>4, <2>1, ProviderAssumption DEF JobsOf
  <2>3. CASE k = j
    BY <1>1, <2>1, <2>2, <2>3 DEF PInv, OfferedIsFree, Calm
  <2>4. CASE k # j
    BY <1>4, <2>1, <2>2, <2>4 DEF PInv, CalmOnly
  <2>5. QED
    BY <2>3, <2>4
<1>10. OfferedIsFree'
  <2>1. SUFFICES ASSUME NEW p \in SingleAccount \cap offered, NEW k \in JobsOf(p), Calm(k)'
                 PROVE  ~Enabled(k) /\ (syncs[k] # <<>> => Alive(k)')
    BY <1>1, <1>2, <1>4 DEF OfferedIsFree, JobsOf
  <2>2. k \in Job /\ Calm(k)
    BY <1>4, <2>1 DEF JobsOf
  <2>3. ~Enabled(k) /\ (syncs[k] # <<>> => Alive(k))
    BY <1>1, <2>1, <2>2 DEF PInv, OfferedIsFree
  <2>4. Alive(k) => Alive(k)'
    BY <1>2, <1>4, <2>2 DEF Alive
  <2>5. QED
    BY <2>3, <2>4
<1>11. SingleAccountKept'
  BY <1>1, <1>4 DEF PInv, SingleAccountKept, JobsOf
<1>12. QED
  BY <1>3, <1>5, <1>6, <1>8, <1>9, <1>10, <1>11 DEF PInv

--------------------------------------------------------------------------------
LEMMA PageInitInv == PageInit => PInv
<1> SUFFICES ASSUME PageInit PROVE PInv
  OBVIOUS
<1>1. IInv /\ SeparateJobs
  BY InitInv, InitSeparate DEF PageInit
<1>2. \A k \in Job : ~Busy(k) /\ ~Alive(k) /\ ~Enabled(k)
  BY DEF PageInit, Init, Busy, Alive, Enabled, NoRow
<1>3. PageTypeOK
  BY <1>2, PagesAssumption DEF PageInit, PageTypeOK
<1>4. CalmSeparate /\ CalmAlone
  BY <1>1, <1>2 DEF SeparateJobs, CalmSeparate, CalmAlone
<1>5. CalmOnly /\ SingleAccountKept /\ OfferedIsFree
  BY <1>2 DEF CalmOnly, SingleAccountKept, OfferedIsFree, JobsOf, PageInit
<1>6. QED
  BY <1>1, <1>3, <1>4, <1>5 DEF PInv

LEMMA PageNextInv == PInv /\ [PageNext]_<<vars, pageVars>> => PInv'
<1> SUFFICES ASSUME PInv, [PageNext]_<<vars, pageVars>> PROVE PInv'
  OBVIOUS
<1>1. CASE PageNext
  BY <1>1, OpenPageInv, ReadDelegateInv, ClickInv, JobStepInv, LeaveInv, PageDeletedInv
     DEF PageNext
<1>2. CASE UNCHANGED <<vars, pageVars>>
  <2>1. UNCHANGED <<page, offered, pages, raced>> /\ UNCHANGED jobs /\ UNCHANGED syncs
        /\ UNCHANGED db
    BY <1>2 DEF pageVars, vars, jobVars
  <2>2. PageTypeOK' /\ OfferedIsFree'
    BY <2>1 DEF PInv, PageTypeOK, OfferedIsFree, Alive, Enabled, JobsOf, Calm
  <2>3. QED
    BY <1>2, <2>1, <2>2, PageOnlyInv
<1>3. QED
  BY <1>1, <1>2

LEMMA PageInductive == PageSpec => []PInv
BY PageInitInv, PageNextInv, PTL DEF PageSpec

(* The page keeps its type: when it is gone, so are its offers and its jobs       *)
(* (AvailableAccounts.qml:57, 70).                                                *)
THEOREM PageTypeCorrect == PageSpec => []PageTypeOK
<1>1. PInv => PageTypeOK
  BY DEF PInv
<1>2. QED
  BY <1>1, PageInductive, PTL

(* Jobs that a page starts and takes with it enable no account without credentials *)
(* that are stored, either (createaccountjob.cpp:167-170, 197-211;                *)
(* AvailableAccounts.qml:57, 70).                                                 *)
THEOREM PageEnabledBacked == PageSpec => []EnabledIsBacked
<1>1. PInv => EnabledIsBacked
  BY DEF PInv, IInv, Backed
<1>2. QED
  BY <1>1, PageInductive, PTL

(* A provider that allows one account keeps to one, unless its jobs have overlapped *)
(* or one wrote while the list read the database (AvailableAccounts.qml:45, 69-70; *)
(* providersmodel.cpp:91-101).                                                    *)
THEOREM OneAccountOnly == PageSpec => []SingleAccountKept
<1>1. PInv => SingleAccountKept
  BY DEF PInv
<1>2. QED
  BY <1>1, PageInductive, PTL

(* A job whose plugin no other job has used at the same time is correct, also when *)
(* the page takes it away while it works: overlap is all that mixes jobs up       *)
(* (createaccountjob.cpp:97-103, 142-171, 173-199, 249-265;                       *)
(* AvailableAccounts.qml:57, 70).                                                 *)
THEOREM CalmCorrect == PageSpec => []CalmJobsCorrect
<1>1. PInv => CalmJobsCorrect
  BY SeparateCorrect DEF PInv, CalmSeparate, Calm, CalmJobsCorrect
<1>2. QED
  BY <1>1, PageInductive, PTL

(* To jobs, a step of the page is one of theirs, or takes them away.              *)
LEMMA PageMoves == NInv /\ [PageNext]_<<vars, pageVars>> => NInv'
<1> SUFFICES ASSUME NInv, [PageNext]_<<vars, pageVars>> PROVE NInv'
  OBVIOUS
<1>1. CASE [Next]_vars
  BY <1>1, NextMoves
<1>2. CASE PageDeleted
  <2>1. /\ jobs' = [k \in Job |-> IF Alive(k) THEN "deleted" ELSE jobs[k]]
        /\ UNCHANGED <<dialogs, done, error, result, identity, storing, stored, queried,
                       sessions, syncs>>
    BY <1>2 DEF PageDeleted, signonVars
  <2>2. \A k \in Job : jobs'[k] = jobs[k] \/ jobs'[k] = "deleted"
    BY <2>1
  <2>3. DialogsFresh'
    BY <2>1, <2>2, FreshKept DEF NInv
  <2>4. \A k \in Job : Moving(k)'
    BY <2>1, <2>2, MovingKept DEF NInv
  <2>5. QED
    BY <1>2, <2>3, <2>4, PageDeletedBacked DEF NInv
<1>3. [Next]_vars \/ PageDeleted
  BY DEF PageNext, OpenPage, ReadDelegate, Click, JobStep, Leave, Next, pageVars
<1>4. QED
  BY <1>1, <1>2, <1>3

(* Nor does the page leave a job of its own stuck: as long as it is there, a job  *)
(* without a result has something to wait for, unless signond has failed it       *)
(* (createaccountjob.cpp:142-265; AvailableAccounts.qml:57, 70).                  *)
THEOREM PageNeverStuck == PageSpec => []NeverStuck
<1>1. PageInit => NInv
  BY InitMoves DEF PageInit
<1>2. QED
  BY <1>1, PageMoves, MovingImplies, PTL DEF PageSpec
================================================================================
