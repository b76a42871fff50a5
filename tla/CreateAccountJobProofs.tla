-------------------------- MODULE CreateAccountJobProofs --------------------------
(* Theorems about the creation of accounts, for any jobs and any sharing of UI    *)
(* plugins between them, whether or not signond fails.                            *)
EXTENDS CreateAccountJob, Integers, TLAPS

--------------------------------------------------------------------------------
(* The inductive invariant. *)

(* A session runs on the identity the job has created. *)
SessionsHaveIdentity == \A j \in Job : sessions[j] # {} => identity[j] # None

(* Only the end of a dialog or session makes a job done. *)
DoneIsAuthenticated == \A j \in Job : done[j] => authed[j] # {}

(* What a write under way will store is backed as EnabledIsBacked asks. *)
SyncsAreBacked ==
    \A j \in Job :
       /\ \A k \in 1 .. Len(syncs[j]) : syncs[j][k] \in stored[j]
       /\ syncs[j] # <<>> => authed[j] # {}

Backed == SessionsHaveIdentity /\ DoneIsAuthenticated /\ SyncsAreBacked /\ EnabledIsBacked

IInv == TypeOK /\ Backed

--------------------------------------------------------------------------------
(* Lemmas about the operators the actions share. *)

(* Putting an identity into the sets of some jobs keeps their type and only adds. *)
LEMMA AddedType ==
    ASSUME NEW sets \in [Job -> SUBSET Identity], NEW J, NEW i \in Identity
    PROVE  /\ Added(sets, J, i) \in [Job -> SUBSET Identity]
           /\ \A j \in Job : sets[j] \subseteq Added(sets, J, i)[j]
           /\ \A j \in Job : j \in J => Added(sets, J, i)[j] # {}
           /\ \A j \in Job : j \notin J => Added(sets, J, i)[j] = sets[j]
BY DEF Added

(* Announcing results keeps their type. *)
LEMMA EmitResultType ==
    ASSUME result \in [Job -> {"none", "success", "error"}], NEW J, NEW isError,
           EmitResult(J, isError)
    PROVE  result' \in [Job -> {"none", "success", "error"}]
BY DEF EmitResult

(* A job that stores credentials has an identity from then on. *)
LEMMA StoreCredentialsType ==
    ASSUME TypeOK, NEW J, NEW i \in Identity, StoreCredentials(J, i)
    PROVE  /\ identity' \in [Job -> Identity \cup {None}]
           /\ storing' \in [Job -> SUBSET Identity]
           /\ \A j \in Job : identity[j] # None => identity'[j] # None
           /\ \A j \in Job : j \in J => identity'[j] # None
<1>1. i # None
  BY IdentityAssumption
<1>2. identity' = [j \in Job |-> IF j \in J THEN i ELSE identity[j]]
  BY DEF StoreCredentials
<1>3. storing' \in [Job -> SUBSET Identity]
  BY AddedType DEF StoreCredentials, TypeOK
<1>4. QED
  BY <1>1, <1>2, <1>3 DEF TypeOK

(* Nothing that a step leaves alone, or only adds to, disturbs what backs a write. *)
LEMMA BackedKept ==
    ASSUME TypeOK, Backed, UNCHANGED syncs,
           \A j \in Job : db'[j] # db[j] => db'[j].state # "enabled",
           \A j \in Job : stored[j] \subseteq stored'[j],
           \A j \in Job : authed[j] \subseteq authed'[j]
    PROVE  SyncsAreBacked' /\ EnabledIsBacked'
<1>1. SyncsAreBacked'
  BY DEF Backed, SyncsAreBacked
<1>2. ASSUME NEW j \in Job, db'[j].state = "enabled"
      PROVE  db'[j].credentials \in stored'[j] /\ authed'[j] # {}
  <2>1. db'[j] = db[j]
    BY <1>2
  <2>2. QED
    BY <1>2, <2>1 DEF Backed, EnabledIsBacked, Enabled
<1>3. QED
  BY <1>1, <1>2 DEF EnabledIsBacked, Enabled

(* Nor does a step that leaves sessions, identities and done alone disturb them. *)
LEMMA BookkeepingKept ==
    ASSUME Backed, UNCHANGED <<identity, done>>,
           \A j \in Job : sessions'[j] \subseteq sessions[j],
           \A j \in Job : authed[j] \subseteq authed'[j]
    PROVE  SessionsHaveIdentity' /\ DoneIsAuthenticated'
BY DEF Backed, SessionsHaveIdentity, DoneIsAuthenticated

--------------------------------------------------------------------------------
(* One lemma per step of a job, or of signond. *)

LEMMA InitInv == Init => IInv
<1> SUFFICES ASSUME Init PROVE IInv
  OBVIOUS
<1>1. NoRow \in Row
  BY DEF NoRow, Row
<1>2. TypeOK
  BY <1>1 DEF Init, TypeOK
<1>3. Backed
  BY DEF Init, Backed, SessionsHaveIdentity, DoneIsAuthenticated, SyncsAreBacked,
         EnabledIsBacked, Enabled, NoRow
<1>4. QED
  BY <1>2, <1>3 DEF IInv

LEMMA ProcessSessionInv ==
    ASSUME IInv, NEW j \in Job, processSession(j) PROVE IInv'
<1> USE DEF IInv
<1> DEFINE i == <<j, "session">>
<1>1. i \in Identity
  BY DEF Identity
<1>2. /\ jobs' \in [Job -> {"new", "alive", "deleted"}]
      /\ UNCHANGED <<done, stored, queried, syncs, db, authed>>
  BY DEF processSession, TypeOK
<1>3. CASE /\ StoreCredentials({j}, i)
           /\ sessions' = Added(sessions, {j}, i)
           /\ UNCHANGED <<dialogs, error, result>>
  <2>1. /\ sessions' \in [Job -> SUBSET Identity]
        /\ \A k \in Job : k \notin {j} => sessions'[k] = sessions[k]
    <3>1. sessions \in [Job -> SUBSET Identity]
      BY DEF TypeOK
    <3>2. /\ Added(sessions, {j}, i) \in [Job -> SUBSET Identity]
          /\ \A k \in Job : k \notin {j} => Added(sessions, {j}, i)[k] = sessions[k]
      BY <1>1, <3>1, AddedType
    <3>3. QED
      BY <1>3, <3>2
  <2>2. /\ identity' \in [Job -> Identity \cup {None}]
        /\ storing' \in [Job -> SUBSET Identity]
        /\ \A k \in Job : identity[k] # None => identity'[k] # None
        /\ identity'[j] # None
    BY <1>1, <1>3, StoreCredentialsType
  <2>3. TypeOK'
    BY <1>2, <1>3, <2>1, <2>2 DEF TypeOK
  <2>4. SessionsHaveIdentity' /\ DoneIsAuthenticated'
    BY <1>2, <2>1, <2>2 DEF Backed, SessionsHaveIdentity, DoneIsAuthenticated
  <2>5. SyncsAreBacked' /\ EnabledIsBacked'
    BY <1>2, BackedKept
  <2>6. QED
    BY <2>3, <2>4, <2>5 DEF Backed
<1>4. CASE /\ error' = [error EXCEPT ![j] = TRUE]
           /\ EmitResult({j}, error')
           /\ UNCHANGED <<dialogs, identity, storing, sessions>>
  <2>1. result' \in [Job -> {"none", "success", "error"}]
    BY <1>4, EmitResultType DEF TypeOK
  <2>2. TypeOK'
    BY <1>2, <1>4, <2>1 DEF TypeOK
  <2>3. SessionsHaveIdentity' /\ DoneIsAuthenticated'
    BY <1>2, <1>4, BookkeepingKept
  <2>4. SyncsAreBacked' /\ EnabledIsBacked'
    BY <1>2, BackedKept
  <2>5. QED
    BY <2>2, <2>3, <2>4 DEF Backed
<1>5. CASE /\ dialogs' = dialogs \cup {j}
           /\ UNCHANGED <<error, result, identity, storing, sessions>>
  <2>1. TypeOK'
    BY <1>2, <1>5 DEF TypeOK
  <2>2. SessionsHaveIdentity' /\ DoneIsAuthenticated'
    BY <1>2, <1>5, BookkeepingKept
  <2>3. SyncsAreBacked' /\ EnabledIsBacked'
    BY <1>2, BackedKept
  <2>4. QED
    BY <2>1, <2>2, <2>3 DEF Backed
<1>6. QED
  BY <1>3, <1>4, <1>5 DEF processSession

LEMMA PluginFinishedInv ==
    ASSUME IInv, NEW d \in Job, pluginFinished(d) PROVE IInv'
<1> USE DEF IInv
<1> DEFINE J == Listeners(d)
           i == <<d, "plugin">>
<1>1. i \in Identity
  BY DEF Identity
<1>2. /\ dialogs' = dialogs \ {d}
      /\ StoreCredentials(J, i)
      /\ done' = [j \in Job |-> done[j] \/ j \in J]
      /\ authed' = Added(authed, J, i)
      /\ UNCHANGED <<jobs, error, result, stored, queried, sessions, syncs, db>>
  BY DEF pluginFinished
<1>3. /\ authed' \in [Job -> SUBSET Identity]
      /\ \A j \in Job : authed[j] \subseteq authed'[j]
      /\ \A j \in Job : j \in J => authed'[j] # {}
  <2>1. authed \in [Job -> SUBSET Identity]
    BY DEF TypeOK
  <2>2. /\ Added(authed, J, i) \in [Job -> SUBSET Identity]
        /\ \A j \in Job : authed[j] \subseteq Added(authed, J, i)[j]
        /\ \A j \in Job : j \in J => Added(authed, J, i)[j] # {}
    BY <1>1, <2>1, AddedType
  <2>3. QED
    BY <1>2, <2>2
<1>4. /\ identity' \in [Job -> Identity \cup {None}]
      /\ storing' \in [Job -> SUBSET Identity]
      /\ \A j \in Job : identity[j] # None => identity'[j] # None
  BY <1>1, <1>2, StoreCredentialsType
<1>5. TypeOK'
  <2>1. done' \in [Job -> BOOLEAN]
    BY <1>2, Zenon DEF TypeOK
  <2>2. QED
    BY <1>2, <1>3, <1>4, <2>1 DEF TypeOK
<1>6. SessionsHaveIdentity'
  BY <1>2, <1>4 DEF Backed, SessionsHaveIdentity
<1>7. DoneIsAuthenticated'
  <2>1. SUFFICES ASSUME NEW j \in Job, done'[j] PROVE authed'[j] # {}
    BY DEF DoneIsAuthenticated
  <2>2. done[j] \/ j \in J
    BY <1>2, <2>1
  <2>3. QED
    BY <1>3, <2>2 DEF Backed, DoneIsAuthenticated
<1>8. SyncsAreBacked' /\ EnabledIsBacked'
  BY <1>2, <1>3, BackedKept
<1>9. QED
  BY <1>5, <1>6, <1>7, <1>8 DEF Backed

LEMMA PluginErrorInv ==
    ASSUME IInv, NEW d \in Job, pluginError(d) PROVE IInv'
<1> USE DEF IInv
<1>1. /\ dialogs' = dialogs \ {d}
      /\ error' = [j \in Job |-> error[j] \/ j \in Listeners(d)]
      /\ EmitResult(Listeners(d), error')
      /\ UNCHANGED <<jobs, done, identity, signonVars, syncs, db, authed>>
  BY DEF pluginError
<1>2. result' \in [Job -> {"none", "success", "error"}]
  BY <1>1, EmitResultType DEF TypeOK
<1>3. error' \in [Job -> BOOLEAN]
  BY <1>1, Zenon DEF TypeOK
<1>4. TypeOK'
  BY <1>1, <1>2, <1>3 DEF TypeOK, signonVars
<1>5. SessionsHaveIdentity' /\ DoneIsAuthenticated'
  BY <1>1, BookkeepingKept DEF signonVars
<1>6. SyncsAreBacked' /\ EnabledIsBacked'
  BY <1>1, BackedKept DEF signonVars
<1>7. QED
  BY <1>4, <1>5, <1>6 DEF Backed

LEMMA StartAuthSessionInv ==
    ASSUME IInv, NEW d \in Job, startAuthSession(d) PROVE IInv'
<1> USE DEF IInv
<1> DEFINE J == Listeners(d)
           i == <<d, "session">>
<1>1. i \in Identity
  BY DEF Identity
<1>2. /\ dialogs' = dialogs \ {d}
      /\ StoreCredentials(J, i)
      /\ sessions' = Added(sessions, J, i)
      /\ db' = [j \in Job |->
                   IF j \in J /\ db[j].state = "absent"
                   THEN [NoRow EXCEPT !.state = "disabled"] ELSE db[j]]
      /\ UNCHANGED <<jobs, done, error, result, stored, queried, syncs, authed>>
  BY DEF startAuthSession
<1>3. /\ sessions' \in [Job -> SUBSET Identity]
      /\ \A j \in Job : j \notin J => sessions'[j] = sessions[j]
  <2>1. sessions \in [Job -> SUBSET Identity]
    BY DEF TypeOK
  <2>2. /\ Added(sessions, J, i) \in [Job -> SUBSET Identity]
        /\ \A j \in Job : j \notin J => Added(sessions, J, i)[j] = sessions[j]
    BY <1>1, <2>1, AddedType
  <2>3. QED
    BY <1>2, <2>2
<1>4. /\ identity' \in [Job -> Identity \cup {None}]
      /\ storing' \in [Job -> SUBSET Identity]
      /\ \A j \in Job : identity[j] # None => identity'[j] # None
      /\ \A j \in Job : j \in J => identity'[j] # None
  BY <1>1, <1>2, StoreCredentialsType
<1>5. /\ [NoRow EXCEPT !.state = "disabled"] \in Row
      /\ [NoRow EXCEPT !.state = "disabled"].state = "disabled"
  BY DEF NoRow, Row
<1>6. TypeOK'
  <2>1. db' \in [Job -> Row]
    BY <1>2, <1>5 DEF TypeOK
  <2>2. QED
    BY <1>2, <1>3, <1>4, <2>1 DEF TypeOK
<1>7. SessionsHaveIdentity' /\ DoneIsAuthenticated'
  BY <1>2, <1>3, <1>4 DEF Backed, SessionsHaveIdentity, DoneIsAuthenticated
<1>8. SyncsAreBacked' /\ EnabledIsBacked'
  <2>1. \A j \in Job : db'[j] # db[j] => db'[j].state # "enabled"
    BY <1>2, <1>5
  <2>2. QED
    BY <1>2, <2>1, BackedKept
<1>9. QED
  BY <1>6, <1>7, <1>8 DEF Backed

LEMMA SessionResponseInv ==
    ASSUME IInv, NEW j \in Job, NEW i \in Identity, sessionResponse(j, i) PROVE IInv'
<1> USE DEF IInv
<1>1. /\ i \in sessions[j]
      /\ sessions' = [sessions EXCEPT ![j] = @ \ {i}]
      /\ done' = [done EXCEPT ![j] = TRUE]
      /\ queried' = [queried EXCEPT ![j] = @ \cup {identity[j]}]
      /\ authed' = [authed EXCEPT ![j] = @ \cup {i}]
      /\ UNCHANGED <<dialogs, jobs, error, result, identity, storing, stored, syncs, db>>
  BY DEF sessionResponse
<1>2. identity[j] \in Identity
  BY <1>1 DEF Backed, SessionsHaveIdentity, TypeOK
<1>3. /\ authed' \in [Job -> SUBSET Identity]
      /\ \A k \in Job : authed[k] \subseteq authed'[k]
      /\ authed'[j] # {}
  BY <1>1 DEF TypeOK
<1>4. TypeOK'
  BY <1>1, <1>2, <1>3 DEF TypeOK
<1>5. SessionsHaveIdentity'
  BY <1>1 DEF Backed, SessionsHaveIdentity, TypeOK
<1>6. DoneIsAuthenticated'
  BY <1>1, <1>3 DEF Backed, DoneIsAuthenticated, TypeOK
<1>7. SyncsAreBacked' /\ EnabledIsBacked'
  BY <1>1, <1>3, BackedKept
<1>8. QED
  BY <1>4, <1>5, <1>6, <1>7 DEF Backed

LEMMA SessionErrorInv ==
    ASSUME IInv, NEW j \in Job, NEW i \in Identity, sessionError(j, i) PROVE IInv'
<1> USE DEF IInv
<1>1. /\ sessions' = [sessions EXCEPT ![j] = @ \ {i}]
      /\ UNCHANGED <<dialogs, jobs, done, identity, storing, stored, queried, syncs, db, authed>>
  BY DEF sessionError
<1>2. error' \in [Job -> BOOLEAN] /\ result' \in [Job -> {"none", "success", "error"}]
  <2>1. CASE error[j]
    BY <2>1 DEF sessionError, TypeOK
  <2>2. CASE ~error[j]
    <3>1. error' = [error EXCEPT ![j] = TRUE] /\ EmitResult({j}, error')
      BY <2>2 DEF sessionError
    <3>2. QED
      BY <3>1, EmitResultType DEF TypeOK
  <2>3. QED
    BY <2>1, <2>2
<1>3. TypeOK'
  BY <1>1, <1>2 DEF TypeOK
<1>4. SessionsHaveIdentity' /\ DoneIsAuthenticated'
  <2>1. \A k \in Job : sessions'[k] \subseteq sessions[k]
    BY <1>1 DEF TypeOK
  <2>2. QED
    BY <1>1, <2>1, BookkeepingKept
<1>5. SyncsAreBacked' /\ EnabledIsBacked'
  BY <1>1, BackedKept
<1>6. QED
  BY <1>3, <1>4, <1>5 DEF Backed

(* An info that is not ignored starts a write of what it is about. *)
LEMMA InfoInv ==
    ASSUME IInv, NEW j \in Job, NEW i \in Identity, info(j, i) PROVE IInv'
<1> USE DEF IInv
<1>1. /\ i \in stored[j]
      /\ queried' = [queried EXCEPT ![j] = @ \ {i}]
      /\ syncs' = IF done[j] THEN [syncs EXCEPT ![j] = Append(@, i)] ELSE syncs
      /\ UNCHANGED <<dialogs, jobs, done, error, result, identity, storing, stored,
                     sessions, db, authed>>
  BY DEF info, jobVars
<1>2. syncs[j] \in Seq(Identity)
  BY DEF TypeOK
<1>3. TypeOK'
  <2>1. syncs' \in [Job -> Seq(Identity)]
    <3>1. Append(syncs[j], i) \in Seq(Identity)
      BY <1>2
    <3>2. QED
      BY <1>1, <3>1 DEF TypeOK
  <2>2. QED
    BY <1>1, <2>1 DEF TypeOK
<1>4. SessionsHaveIdentity' /\ DoneIsAuthenticated'
  BY <1>1, BookkeepingKept
<1>5. EnabledIsBacked'
  BY <1>1 DEF Backed, EnabledIsBacked, Enabled
<1>6. SyncsAreBacked'
  <2>1. CASE ~done[j]
    BY <1>1, <2>1 DEF Backed, SyncsAreBacked
  <2>2. CASE done[j]
    <3>1. SUFFICES ASSUME NEW k \in Job
                   PROVE  /\ \A n \in 1 .. Len(syncs'[k]) : syncs'[k][n] \in stored[k]
                          /\ syncs'[k] # <<>> => authed[k] # {}
      BY <1>1 DEF SyncsAreBacked
    <3>2. CASE k # j
      <4>1. syncs'[k] = syncs[k]
        BY <1>1, <2>2, <3>2 DEF TypeOK
      <4>2. QED
        BY <4>1 DEF Backed, SyncsAreBacked
    <3>3. CASE k = j
      <4>1. syncs'[j] = Append(syncs[j], i)
        BY <1>1, <2>2 DEF TypeOK
      <4>2. authed[j] # {}
        BY <2>2 DEF Backed, DoneIsAuthenticated
      <4>3. \A n \in 1 .. Len(syncs[j]) : syncs[j][n] \in stored[j]
        BY DEF Backed, SyncsAreBacked
      <4>4. \A n \in 1 .. Len(Append(syncs[j], i)) : Append(syncs[j], i)[n] \in stored[j]
        BY <1>1, <1>2, <4>3
      <4>5. QED
        BY <3>3, <4>1, <4>2, <4>4
    <3>4. QED
      BY <3>2, <3>3
  <2>3. QED
    BY <2>1, <2>2
<1>7. QED
  BY <1>3, <1>4, <1>5, <1>6 DEF Backed

(* The write that ends was backed when it began, and still is. *)
LEMMA SyncedInv ==
    ASSUME IInv, NEW j \in Job, synced(j) PROVE IInv'
<1> USE DEF IInv
<1>1. /\ syncs[j] # <<>>
      /\ db' = [db EXCEPT ![j] = [state |-> "enabled", credentials |-> Head(syncs[j])]]
      /\ syncs' = [syncs EXCEPT ![j] = Tail(@)]
      /\ EmitResult({k \in {j} : Alive(k)}, error)
      /\ UNCHANGED <<dialogs, jobs, done, error, identity, storing, stored, queried,
                     sessions, authed>>
  BY DEF synced, signonVars
<1>2. syncs[j] \in Seq(Identity)
  BY DEF TypeOK
<1>3. /\ Head(syncs[j]) = syncs[j][1]
      /\ Len(syncs[j]) \in Nat /\ Len(syncs[j]) > 0
      /\ Head(syncs[j]) \in Identity
      /\ Tail(syncs[j]) \in Seq(Identity)
      /\ Len(Tail(syncs[j])) = Len(syncs[j]) - 1
      /\ \A n \in 1 .. Len(Tail(syncs[j])) : Tail(syncs[j])[n] = syncs[j][n + 1]
  BY <1>1, <1>2
<1>4. /\ \A n \in 1 .. Len(syncs[j]) : syncs[j][n] \in stored[j]
      /\ authed[j] # {}
  BY <1>1 DEF Backed, SyncsAreBacked
<1>5. TypeOK'
  <2>1. result' \in [Job -> {"none", "success", "error"}]
    BY <1>1, EmitResultType DEF TypeOK
  <2>2. [state |-> "enabled", credentials |-> Head(syncs[j])] \in Row
    BY <1>3 DEF Row
  <2>3. db' \in [Job -> Row] /\ syncs' \in [Job -> Seq(Identity)]
    BY <1>1, <1>3, <2>2 DEF TypeOK
  <2>4. QED
    BY <1>1, <2>1, <2>3 DEF TypeOK
<1>6. SessionsHaveIdentity' /\ DoneIsAuthenticated'
  BY <1>1, BookkeepingKept
<1>7. SyncsAreBacked'
  <2>1. SUFFICES ASSUME NEW k \in Job
                 PROVE  /\ \A n \in 1 .. Len(syncs'[k]) : syncs'[k][n] \in stored[k]
                        /\ syncs'[k] # <<>> => authed[k] # {}
    BY <1>1 DEF SyncsAreBacked
  <2>2. CASE k # j
    <3>1. syncs'[k] = syncs[k]
      BY <1>1, <2>2 DEF TypeOK
    <3>2. QED
      BY <3>1 DEF Backed, SyncsAreBacked
  <2>3. CASE k = j
    <3>1. syncs'[j] = Tail(syncs[j])
      BY <1>1 DEF TypeOK
    <3>2. \A n \in 1 .. Len(Tail(syncs[j])) : n + 1 \in 1 .. Len(syncs[j])
      BY <1>3
    <3>3. \A n \in 1 .. Len(Tail(syncs[j])) : Tail(syncs[j])[n] \in stored[j]
      BY <1>3, <1>4, <3>2
    <3>4. QED
      BY <1>4, <2>3, <3>1, <3>3
  <2>4. QED
    BY <2>2, <2>3
<1>8. EnabledIsBacked'
  <2>1. Head(syncs[j]) \in stored[j]
    BY <1>3, <1>4
  <2>2. SUFFICES ASSUME NEW k \in Job, db'[k].state = "enabled"
                 PROVE  db'[k].credentials \in stored[k] /\ authed[k] # {}
    BY <1>1 DEF EnabledIsBacked, Enabled
  <2>3. CASE k = j
    <3>1. db'[j] = [state |-> "enabled", credentials |-> Head(syncs[j])]
      BY <1>1 DEF TypeOK
    <3>2. QED
      BY <1>4, <2>1, <2>3, <3>1
  <2>4. CASE k # j
    <3>1. db'[k] = db[k]
      BY <1>1, <2>4 DEF TypeOK
    <3>2. QED
      BY <2>2, <3>1 DEF Backed, EnabledIsBacked, Enabled
  <2>5. QED
    BY <2>3, <2>4
<1>9. QED
  BY <1>5, <1>6, <1>7, <1>8 DEF Backed

LEMMA DeletedInv ==
    ASSUME IInv, NEW j \in Job, Deleted(j) PROVE IInv'
<1> USE DEF IInv
<1>1. /\ jobs' = [jobs EXCEPT ![j] = "deleted"]
      /\ UNCHANGED <<dialogs, done, error, result, identity, storing, stored, queried,
                     sessions, syncs, db, authed>>
  BY DEF Deleted, signonVars
<1>2. TypeOK'
  BY <1>1 DEF TypeOK
<1>3. SessionsHaveIdentity' /\ DoneIsAuthenticated'
  BY <1>1, BookkeepingKept
<1>4. SyncsAreBacked' /\ EnabledIsBacked'
  BY <1>1, BackedKept
<1>5. QED
  BY <1>2, <1>3, <1>4 DEF Backed

LEMMA CredentialsStoredInv ==
    ASSUME IInv, NEW j \in Job, NEW i \in Identity, CredentialsStored(j, i) PROVE IInv'
<1> USE DEF IInv
<1>1. /\ storing' = [storing EXCEPT ![j] = @ \ {i}]
      /\ stored' = [stored EXCEPT ![j] = @ \cup {i}]
      /\ \/ queried' = [queried EXCEPT ![j] = @ \cup {i}]
         \/ queried' = queried
      /\ UNCHANGED <<dialogs, jobs, done, error, result, identity, sessions, syncs, db, authed>>
  BY DEF CredentialsStored, jobVars
<1>2. TypeOK'
  <2>1. /\ storing' \in [Job -> SUBSET Identity]
        /\ stored' \in [Job -> SUBSET Identity]
    BY <1>1 DEF TypeOK
  <2>2. queried' \in [Job -> SUBSET Identity]
    <3>1. CASE queried' = [queried EXCEPT ![j] = @ \cup {i}]
      BY <3>1 DEF TypeOK
    <3>2. CASE queried' = queried
      BY <3>2 DEF TypeOK
    <3>3. QED
      BY <1>1, <3>1, <3>2
  <2>3. QED
    BY <1>1, <2>1, <2>2 DEF TypeOK
<1>3. SessionsHaveIdentity' /\ DoneIsAuthenticated'
  BY <1>1, BookkeepingKept
<1>4. SyncsAreBacked' /\ EnabledIsBacked'
  <2>1. \A k \in Job : stored[k] \subseteq stored'[k]
    BY <1>1 DEF TypeOK
  <2>2. QED
    BY <1>1, <2>1, BackedKept
<1>5. QED
  BY <1>2, <1>3, <1>4 DEF Backed

LEMMA StoreFailedInv ==
    ASSUME IInv, NEW j \in Job, NEW i \in Identity, StoreFailed(j, i) PROVE IInv'
<1> USE DEF IInv
<1>1. /\ storing' = [storing EXCEPT ![j] = @ \ {i}]
      /\ UNCHANGED <<dialogs, jobs, done, error, result, identity, stored, queried,
                     sessions, syncs, db, authed>>
  BY DEF StoreFailed, jobVars
<1>2. TypeOK'
  BY <1>1 DEF TypeOK
<1>3. SessionsHaveIdentity' /\ DoneIsAuthenticated'
  BY <1>1, BookkeepingKept
<1>4. SyncsAreBacked' /\ EnabledIsBacked'
  BY <1>1, BackedKept
<1>5. QED
  BY <1>2, <1>3, <1>4 DEF Backed

(* Every step keeps the inductive invariant. *)
LEMMA NextInv == IInv /\ [Next]_vars => IInv'
<1> SUFFICES ASSUME IInv, [Next]_vars PROVE IInv'
  OBVIOUS
<1>1. CASE Next
  <2>1. ASSUME NEW j \in Job, DialogEnds(j) PROVE IInv'
    BY <2>1, PluginFinishedInv, PluginErrorInv, StartAuthSessionInv DEF DialogEnds
  <2>2. ASSUME NEW j \in Job, NEW i \in Identity, SignondAnswers(j, i) PROVE IInv'
    BY <2>2, CredentialsStoredInv, StoreFailedInv, SessionResponseInv, SessionErrorInv,
       InfoInv DEF SignondAnswers
  <2>3. QED
    BY <1>1, <2>1, <2>2, ProcessSessionInv, SyncedInv, DeletedInv DEF Next
<1>2. CASE UNCHANGED vars
  BY <1>2 DEF vars, jobVars, signonVars, IInv, TypeOK, Backed, SessionsHaveIdentity,
              DoneIsAuthenticated, SyncsAreBacked, EnabledIsBacked, Enabled
<1>3. QED
  BY <1>1, <1>2

LEMMA Inductive == Spec => []IInv
BY InitInv, NextInv, PTL DEF Spec

(* The jobs, signond's answers and the database rows keep their types, however    *)
(* jobs share plugins (createaccountjob.cpp).                                     *)
THEOREM TypeCorrect == Spec => []TypeOK
<1>1. IInv => TypeOK
  BY DEF IInv
<1>2. QED
  BY <1>1, Inductive, PTL

(* Whatever plugins are shared and whatever fails, an account is only enabled with *)
(* credentials signond has stored for its job, after some user has authenticated  *)
(* to that job (createaccountjob.cpp:167-170, 197-211).                           *)
THEOREM EnabledBacked == Spec => []EnabledIsBacked
<1>1. IInv => EnabledIsBacked
  BY DEF IInv, Backed
<1>2. QED
  BY <1>1, Inductive, PTL

--------------------------------------------------------------------------------
(* Jobs that do not share a plugin. *)

(* No two jobs have providers with the same plugin. *)
NoSharing == \A j, k \in Job : PluginOf[j] = PluginOf[k] /\ PluginOf[j] # NoPlugin => j = k

(* A job that has its plugin to itself creates at most one identity, its own; it is *)
(* done once that identity has been proved; and it either fails or is done.       *)
Separate(j) ==
    /\ jobs[j] = "new" => identity[j] = None /\ ~done[j] /\ ~error[j] /\ j \notin dialogs
    /\ j \in dialogs => identity[j] = None /\ PluginOf[j] # NoPlugin /\ ~done[j] /\ ~error[j]
    /\ identity[j] # None => identity[j][1] = j
    /\ storing[j] \cup stored[j] \cup queried[j] \cup sessions[j] \subseteq {identity[j]}
    /\ error[j] => ~done[j] /\ sessions[j] = {}
    /\ done[j] => identity[j] \in authed[j] /\ sessions[j] = {}
    /\ syncs[j] # <<>> \/ Enabled(j) => done[j]
    /\ \A n \in 1 .. Len(syncs[j]) : syncs[j][n] = identity[j]
    /\ Enabled(j) => db[j].credentials = identity[j]
    /\ result[j] = "error" => error[j]
    /\ result[j] = "success" => Enabled(j)

SeparateJobs == \A j \in Job : Separate(j)

SInv == IInv /\ SeparateJobs

(* A job whose state a step leaves alone stays separate. *)
LEMMA SeparateKept ==
    ASSUME NEW k \in Job, Separate(k), k \in dialogs' => k \in dialogs,
           jobs'[k] = jobs[k], done'[k] = done[k], error'[k] = error[k],
           result'[k] = result[k], identity'[k] = identity[k], storing'[k] = storing[k],
           stored'[k] = stored[k], queried'[k] = queried[k], sessions'[k] = sessions[k],
           syncs'[k] = syncs[k], db'[k] = db[k], authed'[k] = authed[k]
    PROVE  Separate(k)'
BY DEF Separate, Enabled

(* The only open dialog that job k listens to is its own. *)
OwnDialog(k) == \A d \in Job : d \in dialogs /\ k \in Listeners(d) => d = k

(* A job without an identity has nothing under way. *)
LEMMA NothingUnderWay ==
    ASSUME TypeOK, NEW j \in Job, Separate(j), identity[j] = None
    PROVE  storing[j] = {} /\ stored[j] = {} /\ queried[j] = {} /\ sessions[j] = {}
<1>1. storing[j] \cup stored[j] \cup queried[j] \cup sessions[j] \subseteq {None}
  BY DEF Separate
<1>2. storing[j] \cup stored[j] \cup queried[j] \cup sessions[j] \subseteq Identity
  BY DEF TypeOK
<1>3. QED
  BY <1>1, <1>2, IdentityAssumption

(* A job that is not done writes nothing, and has written nothing. *)
LEMMA NothingWritten ==
    ASSUME NEW j \in Job, Separate(j), ~done[j]
    PROVE  /\ syncs[j] = <<>> /\ 1 .. Len(syncs[j]) = {}
           /\ ~Enabled(j) /\ result[j] # "success"
BY DEF Separate

LEMMA InitSeparate == Init => SeparateJobs
BY DEF Init, SeparateJobs, Separate, Enabled, NoRow

LEMMA ProcessSessionSeparate ==
    ASSUME IInv, NEW k \in Job, Separate(k), NEW j \in Job, processSession(j)
    PROVE  Separate(k)'
<1> DEFINE i == <<j, "session">>
<1>1. /\ jobs[j] = "new"
      /\ jobs' = [jobs EXCEPT ![j] = "alive"]
      /\ UNCHANGED <<done, stored, queried, syncs, db, authed>>
  BY DEF processSession
<1>2. k = j => identity[j] = None /\ ~done[j] /\ ~error[j] /\ j \notin dialogs
  BY <1>1 DEF Separate
<1>3. k = j => storing[j] = {} /\ stored[j] = {} /\ queried[j] = {} /\ sessions[j] = {}
  BY <1>2, NothingUnderWay DEF IInv
<1>4. jobs'[j] = "alive"
  BY <1>1 DEF IInv, TypeOK
<1>5. CASE /\ PluginOf[j] = NoPlugin
           /\ StoreCredentials({j}, i)
           /\ sessions' = Added(sessions, {j}, i)
           /\ UNCHANGED <<dialogs, error, result>>
  <2>1. CASE k # j
    BY <1>1, <1>5, <2>1, SeparateKept
       DEF IInv, TypeOK, StoreCredentials, Added
  <2>2. CASE k = j
    <3>1. identity'[j] = i /\ storing'[j] = {i} /\ sessions'[j] = {i}
      BY <1>3, <1>5, <2>2 DEF StoreCredentials, Added
    <3>2. i[1] = j
      OBVIOUS
    <3>3. syncs[j] = <<>> /\ 1 .. Len(syncs[j]) = {} /\ ~Enabled(j) /\ result[j] # "success"
      BY <1>2, <2>2, NothingWritten
    <3>4. QED
      BY <1>1, <1>2, <1>3, <1>4, <1>5, <2>2, <3>1, <3>2, <3>3 DEF Separate, Enabled
  <2>3. QED
    BY <2>1, <2>2
<1>6. CASE /\ error' = [error EXCEPT ![j] = TRUE]
           /\ EmitResult({j}, error')
           /\ UNCHANGED <<dialogs, identity, storing, sessions>>
  <2>1. CASE k # j
    BY <1>1, <1>6, <2>1, SeparateKept
       DEF IInv, TypeOK, EmitResult
  <2>2. CASE k = j
    <3>1. error'[j] /\ (result'[j] = "success" => result[j] = "success")
      BY <1>6 DEF EmitResult, IInv, TypeOK
    <3>2. QED
      BY <1>1, <1>2, <1>3, <1>4, <1>6, <2>2, <3>1 DEF Separate, Enabled
  <2>3. QED
    BY <2>1, <2>2
<1>7. CASE /\ PluginOf[j] # NoPlugin
           /\ dialogs' = dialogs \cup {j}
           /\ UNCHANGED <<error, result, identity, storing, sessions>>
  <2>1. CASE k # j
    BY <1>1, <1>7, <2>1, SeparateKept DEF IInv, TypeOK
  <2>2. CASE k = j
    BY <1>1, <1>2, <1>3, <1>4, <1>7, <2>2 DEF Separate, Enabled
  <2>3. QED
    BY <2>1, <2>2
<1>8. QED
  BY <1>5, <1>6, <1>7 DEF processSession

(* What the end of a dialog finds: a job that has done nothing yet. *)
LEMMA DialogOpen ==
    ASSUME IInv, NEW d \in Job, Separate(d), d \in dialogs
    PROVE  /\ identity[d] = None /\ PluginOf[d] # NoPlugin /\ ~done[d] /\ ~error[d]
           /\ storing[d] = {} /\ stored[d] = {} /\ queried[d] = {} /\ sessions[d] = {}
           /\ syncs[d] = <<>> /\ 1 .. Len(syncs[d]) = {} /\ ~Enabled(d)
           /\ result[d] # "success"
<1>1. identity[d] = None /\ PluginOf[d] # NoPlugin /\ ~done[d] /\ ~error[d]
  BY DEF Separate
<1>2. QED
  BY <1>1, NothingUnderWay, NothingWritten DEF IInv

LEMMA PluginFinishedSeparate ==
    ASSUME IInv, NEW k \in Job, Separate(k), OwnDialog(k), NEW d \in Job, pluginFinished(d)
    PROVE  Separate(k)'
<1> DEFINE J == Listeners(d)
           i == <<d, "plugin">>
<1>1. /\ d \in dialogs
      /\ dialogs' = dialogs \ {d}
      /\ StoreCredentials(J, i)
      /\ done' = [j \in Job |-> done[j] \/ j \in J]
      /\ authed' = Added(authed, J, i)
      /\ UNCHANGED <<jobs, error, result, stored, queried, sessions, syncs, db>>
  BY DEF pluginFinished
<1>2. k \in J => k = d
  BY <1>1 DEF OwnDialog
<1>3. done[k] \in BOOLEAN
  BY DEF IInv, TypeOK
<1>4. CASE k \notin J
  <2>1. done'[k] = done[k]
    BY <1>1, <1>3, <1>4, Zenon
  <2>2. identity'[k] = identity[k] /\ storing'[k] = storing[k] /\ authed'[k] = authed[k]
    BY <1>1, <1>4 DEF StoreCredentials, Added, IInv, TypeOK
  <2>3. QED
    BY <1>1, <1>3, <2>1, <2>2, SeparateKept
<1>5. CASE k \in J
  <2>1. k = d
    BY <1>2, <1>5
  <2>2. done'[d] /\ identity'[d] = i /\ storing'[d] = {i} \cup storing[d] /\ i \in authed'[d]
    BY <1>1, <1>5, <2>1 DEF StoreCredentials, Added
  <2>3. jobs'[d] # "new"
    BY <1>1, <1>5, <2>1 DEF Listeners, Alive
  <2>4. i[1] = d /\ d \notin dialogs'
    BY <1>1
  <2>5. /\ ~error[d] /\ storing[d] = {} /\ stored[d] = {} /\ queried[d] = {} /\ sessions[d] = {}
        /\ syncs[d] = <<>> /\ 1 .. Len(syncs[d]) = {} /\ ~Enabled(d)
    BY <1>1, <2>1, DialogOpen
  <2>6. QED
    BY <1>1, <1>3, <2>1, <2>2, <2>3, <2>4, <2>5 DEF Separate, Enabled
<1>6. QED
  BY <1>4, <1>5

LEMMA PluginErrorSeparate ==
    ASSUME IInv, NEW k \in Job, Separate(k), OwnDialog(k), NEW d \in Job, pluginError(d)
    PROVE  Separate(k)'
<1> DEFINE J == Listeners(d)
<1>1. /\ d \in dialogs
      /\ dialogs' = dialogs \ {d}
      /\ error' = [j \in Job |-> error[j] \/ j \in J]
      /\ EmitResult(J, error')
      /\ UNCHANGED <<jobs, done, identity, storing, stored, queried, sessions,
                     syncs, db, authed>>
  BY DEF pluginError, signonVars
<1>2. k \in J => k = d
  BY <1>1 DEF OwnDialog
<1>3. error[k] \in BOOLEAN
  BY DEF IInv, TypeOK
<1>4. CASE k \notin J
  <2>1. error'[k] = error[k]
    BY <1>1, <1>3, <1>4, Zenon
  <2>2. result'[k] = result[k]
    BY <1>1, <1>4 DEF EmitResult
  <2>3. QED
    BY <1>1, <1>3, <2>1, <2>2, SeparateKept
<1>5. CASE k \in J
  <2>1. k = d
    BY <1>2, <1>5
  <2>2. error'[d] /\ (result'[d] = "success" => result[d] = "success")
    BY <1>1, <1>5, <2>1 DEF EmitResult
  <2>3. jobs'[d] # "new" /\ d \notin dialogs'
    BY <1>1, <1>5, <2>1 DEF Listeners, Alive
  <2>4. ~done[d] /\ sessions[d] = {} /\ result[d] # "success"
    BY <1>1, <2>1, DialogOpen
  <2>5. QED
    BY <1>1, <1>3, <2>1, <2>2, <2>3, <2>4 DEF Separate, Enabled
<1>6. QED
  BY <1>4, <1>5

LEMMA StartAuthSessionSeparate ==
    ASSUME IInv, NEW k \in Job, Separate(k), OwnDialog(k), NEW d \in Job, startAuthSession(d)
    PROVE  Separate(k)'
<1> DEFINE J == Listeners(d)
           i == <<d, "session">>
<1>1. /\ d \in dialogs
      /\ dialogs' = dialogs \ {d}
      /\ StoreCredentials(J, i)
      /\ sessions' = Added(sessions, J, i)
      /\ db' = [j \in Job |->
                   IF j \in J /\ db[j].state = "absent"
                   THEN [NoRow EXCEPT !.state = "disabled"] ELSE db[j]]
      /\ UNCHANGED <<jobs, done, error, result, stored, queried, syncs, authed>>
  BY DEF startAuthSession
<1>2. k \in J => k = d
  BY <1>1 DEF OwnDialog
<1>3. CASE k \notin J
  <2>1. /\ identity'[k] = identity[k] /\ storing'[k] = storing[k]
        /\ sessions'[k] = sessions[k] /\ db'[k] = db[k]
    BY <1>1, <1>3 DEF StoreCredentials, Added, IInv, TypeOK
  <2>2. QED
    BY <1>1, <2>1, SeparateKept
<1>4. CASE k \in J
  <2>1. k = d
    BY <1>2, <1>4
  <2>2. /\ ~done[d] /\ ~error[d] /\ storing[d] = {} /\ stored[d] = {} /\ queried[d] = {}
        /\ sessions[d] = {} /\ syncs[d] = <<>> /\ 1 .. Len(syncs[d]) = {} /\ ~Enabled(d)
        /\ result[d] # "success"
    BY <1>1, <2>1, DialogOpen
  <2>3. identity'[d] = i /\ storing'[d] = {i} /\ sessions'[d] = {i}
    BY <1>1, <1>4, <2>1, <2>2 DEF StoreCredentials, Added
  <2>4. ~Enabled(d)'
    BY <1>1, <2>2 DEF Enabled, NoRow
  <2>5. jobs'[d] # "new"
    BY <1>1, <1>4, <2>1 DEF Listeners, Alive
  <2>6. i[1] = d /\ d \notin dialogs'
    BY <1>1
  <2>7. QED
    BY <1>1, <2>1, <2>2, <2>3, <2>4, <2>5, <2>6 DEF Separate
<1>5. QED
  BY <1>3, <1>4

(* What the end of an auth session finds: the job's only identity, not yet proved. *)
LEMMA SessionOpen ==
    ASSUME IInv, NEW j \in Job, Separate(j), NEW i \in sessions[j]
    PROVE  /\ i = identity[j] /\ sessions[j] = {i} /\ identity[j] # None
           /\ jobs[j] # "new" /\ j \notin dialogs /\ ~done[j] /\ ~error[j]
           /\ syncs[j] = <<>> /\ 1 .. Len(syncs[j]) = {} /\ ~Enabled(j)
           /\ result[j] # "success"
<1>1. i = identity[j] /\ sessions[j] = {i} /\ ~done[j] /\ ~error[j] /\ identity[j] # None
  BY DEF IInv, Backed, SessionsHaveIdentity, Separate
<1>2. jobs[j] # "new" /\ j \notin dialogs
  BY <1>1 DEF Separate
<1>3. QED
  BY <1>1, <1>2, NothingWritten

LEMMA SessionResponseSeparate ==
    ASSUME IInv, NEW k \in Job, Separate(k), NEW j \in Job, NEW i \in Identity,
           sessionResponse(j, i)
    PROVE  Separate(k)'
<1>1. /\ i \in sessions[j]
      /\ sessions' = [sessions EXCEPT ![j] = @ \ {i}]
      /\ done' = [done EXCEPT ![j] = TRUE]
      /\ queried' = [queried EXCEPT ![j] = @ \cup {identity[j]}]
      /\ authed' = [authed EXCEPT ![j] = @ \cup {i}]
      /\ UNCHANGED <<dialogs, jobs, error, result, identity, storing, stored, syncs, db>>
  BY DEF sessionResponse
<1>2. CASE k # j
  <2>1. /\ sessions'[k] = sessions[k] /\ done'[k] = done[k] /\ queried'[k] = queried[k]
        /\ authed'[k] = authed[k]
    BY <1>1, <1>2 DEF IInv, TypeOK
  <2>2. QED
    BY <1>1, <2>1, SeparateKept
<1>3. CASE k = j
  <2>1. /\ i = identity[j] /\ sessions[j] = {i}
        /\ jobs[j] # "new" /\ j \notin dialogs /\ ~error[j]
        /\ syncs[j] = <<>> /\ 1 .. Len(syncs[j]) = {} /\ ~Enabled(j)
    BY <1>1, <1>3, SessionOpen
  <2>2. /\ sessions'[j] = {} /\ done'[j] /\ i \in authed'[j]
        /\ queried'[j] = queried[j] \cup {i}
    BY <1>1, <2>1 DEF IInv, TypeOK
  <2>3. QED
    BY <1>1, <1>3, <2>1, <2>2 DEF Separate, Enabled
<1>4. QED
  BY <1>2, <1>3

LEMMA SessionErrorSeparate ==
    ASSUME IInv, NEW k \in Job, Separate(k), NEW j \in Job, NEW i \in Identity,
           sessionError(j, i)
    PROVE  Separate(k)'
<1>1. /\ i \in sessions[j]
      /\ sessions' = [sessions EXCEPT ![j] = @ \ {i}]
      /\ UNCHANGED <<dialogs, jobs, done, identity, storing, stored, queried, syncs, db, authed>>
  BY DEF sessionError
<1>2. k = j => /\ sessions[j] = {i} /\ jobs[j] # "new" /\ j \notin dialogs /\ ~done[j]
               /\ ~error[j] /\ result[j] # "success"
  BY <1>1, SessionOpen
<1>3. \/ error[j] /\ UNCHANGED <<error, result>>
      \/ error' = [error EXCEPT ![j] = TRUE] /\ EmitResult({j}, error')
  BY DEF sessionError
<1>4. CASE k # j
  <2>1. sessions'[k] = sessions[k] /\ error'[k] = error[k] /\ result'[k] = result[k]
    BY <1>1, <1>3, <1>4 DEF IInv, TypeOK, EmitResult
  <2>2. QED
    BY <1>1, <2>1, SeparateKept
<1>5. CASE k = j
  <2>1. sessions'[j] = {} /\ error'[j] /\ result'[j] # "success"
    BY <1>1, <1>2, <1>3, <1>5 DEF IInv, TypeOK, EmitResult
  <2>2. QED
    BY <1>1, <1>2, <1>5, <2>1 DEF Separate, Enabled
<1>6. QED
  BY <1>4, <1>5

LEMMA InfoSeparate ==
    ASSUME IInv, NEW k \in Job, Separate(k), NEW j \in Job, NEW i \in Identity,
           info(j, i)
    PROVE  Separate(k)'
<1>1. /\ i \in queried[j]
      /\ queried' = [queried EXCEPT ![j] = @ \ {i}]
      /\ syncs' = IF done[j] THEN [syncs EXCEPT ![j] = Append(@, i)] ELSE syncs
      /\ UNCHANGED <<dialogs, jobs, done, error, result, identity, storing, stored,
                     sessions, db, authed>>
  BY DEF info, jobVars
<1>2. CASE k # j
  <2>1. queried'[k] = queried[k] /\ syncs'[k] = syncs[k]
    BY <1>1, <1>2 DEF IInv, TypeOK
  <2>2. QED
    BY <1>1, <2>1, SeparateKept
<1>3. CASE k = j
  <2>1. queried'[j] \subseteq queried[j]
    BY <1>1 DEF IInv, TypeOK
  <2>2. i = identity[j]
    BY <1>1, <1>3 DEF Separate
  <2>3. CASE done[j]
    <3>1. syncs'[j] = Append(syncs[j], i) /\ syncs[j] \in Seq(Identity)
      BY <1>1, <2>3 DEF IInv, TypeOK
    <3>2. \A n \in 1 .. Len(syncs[j]) : syncs[j][n] = i
      BY <1>3, <2>2 DEF Separate
    <3>3. \A n \in 1 .. Len(Append(syncs[j], i)) : Append(syncs[j], i)[n] = i
      BY <3>1, <3>2
    <3>4. QED
      BY <1>1, <1>3, <2>1, <2>2, <2>3, <3>1, <3>3 DEF Separate, Enabled
  <2>4. CASE ~done[j]
    BY <1>1, <1>3, <2>1, <2>4 DEF Separate, Enabled
  <2>5. QED
    BY <2>3, <2>4
<1>4. QED
  BY <1>2, <1>3

LEMMA SyncedSeparate ==
    ASSUME IInv, NEW k \in Job, Separate(k), NEW j \in Job, synced(j)
    PROVE  Separate(k)'
<1>1. /\ syncs[j] # <<>>
      /\ db' = [db EXCEPT ![j] = [state |-> "enabled", credentials |-> Head(syncs[j])]]
      /\ syncs' = [syncs EXCEPT ![j] = Tail(@)]
      /\ EmitResult({n \in {j} : Alive(n)}, error)
      /\ UNCHANGED <<dialogs, jobs, done, error, identity, storing, stored, queried,
                     sessions, authed>>
  BY DEF synced, signonVars
<1>2. CASE k # j
  <2>1. db'[k] = db[k] /\ syncs'[k] = syncs[k] /\ result'[k] = result[k]
    BY <1>1, <1>2 DEF IInv, TypeOK, EmitResult
  <2>2. QED
    BY <1>1, <2>1, SeparateKept
<1>3. CASE k = j
  <2>1. done[j] /\ ~error[j]
    BY <1>1, <1>3 DEF Separate
  <2>2. syncs[j] \in Seq(Identity)
    BY DEF IInv, TypeOK
  <2>3. \A n \in 1 .. Len(syncs[j]) : syncs[j][n] = identity[j]
    BY <1>3 DEF Separate
  <2>4. /\ Head(syncs[j]) = identity[j]
        /\ \A n \in 1 .. Len(Tail(syncs[j])) : Tail(syncs[j])[n] = identity[j]
    BY <1>1, <2>2, <2>3
  <2>5. /\ db'[j] = [state |-> "enabled", credentials |-> identity[j]]
        /\ syncs'[j] = Tail(syncs[j])
    BY <1>1, <2>4 DEF IInv, TypeOK
  <2>6. Enabled(j)' /\ db'[j].credentials = identity[j]
    BY <2>5 DEF Enabled
  <2>7. result'[j] = "error" => result[j] = "error"
    BY <1>1, <2>1 DEF EmitResult
  <2>8. QED
    BY <1>1, <1>3, <2>1, <2>4, <2>5, <2>6, <2>7 DEF Separate
<1>4. QED
  BY <1>2, <1>3

LEMMA DeletedSeparate ==
    ASSUME IInv, NEW k \in Job, Separate(k), NEW j \in Job, Deleted(j)
    PROVE  Separate(k)'
<1>1. /\ jobs' = [jobs EXCEPT ![j] = "deleted"]
      /\ UNCHANGED <<dialogs, done, error, result, identity, storing, stored, queried,
                     sessions, syncs, db, authed>>
  BY DEF Deleted, signonVars
<1>2. jobs'[k] = "new" => jobs[k] = "new"
  BY <1>1 DEF IInv, TypeOK
<1>3. QED
  BY <1>1, <1>2 DEF Separate, Enabled

(* signond's answers to a request to store. *)
LEMMA StoreAnswerSeparate ==
    ASSUME IInv, NEW k \in Job, Separate(k), NEW j \in Job, NEW i \in Identity,
           CredentialsStored(j, i) \/ StoreFailed(j, i)
    PROVE  Separate(k)'
<1>1. /\ i \in storing[j]
      /\ UNCHANGED <<dialogs, jobs, done, error, result, identity, sessions, syncs, db, authed>>
  BY DEF CredentialsStored, StoreFailed, jobVars
<1>2. k = j => i = identity[j]
  BY <1>1 DEF Separate
<1>3. CASE CredentialsStored(j, i)
  <2>1. /\ storing' = [storing EXCEPT ![j] = @ \ {i}]
        /\ stored' = [stored EXCEPT ![j] = @ \cup {i}]
        /\ \/ queried' = [queried EXCEPT ![j] = @ \cup {i}]
           \/ queried' = queried
    BY <1>3 DEF CredentialsStored
  <2>2. queried'[k] = queried[k] \/ (k = j /\ queried'[k] = queried[k] \cup {i})
    <3>1. CASE queried' = [queried EXCEPT ![j] = @ \cup {i}]
      BY <3>1 DEF IInv, TypeOK
    <3>2. CASE queried' = queried
      BY <3>2
    <3>3. QED
      BY <2>1, <3>1, <3>2
  <2>3. CASE k # j
    <3>1. storing'[k] = storing[k] /\ stored'[k] = stored[k] /\ queried'[k] = queried[k]
      BY <2>1, <2>2, <2>3 DEF IInv, TypeOK
    <3>2. QED
      BY <1>1, <3>1, SeparateKept
  <2>4. CASE k = j
    <3>1. storing'[j] = storing[j] \ {i} /\ stored'[j] = stored[j] \cup {i}
      BY <2>1 DEF IInv, TypeOK
    <3>2. QED
      BY <1>1, <1>2, <2>2, <2>4, <3>1 DEF Separate, Enabled
  <2>5. QED
    BY <2>3, <2>4
<1>4. CASE StoreFailed(j, i)
  <2>1. storing' = [storing EXCEPT ![j] = @ \ {i}] /\ UNCHANGED <<stored, queried>>
    BY <1>4 DEF StoreFailed
  <2>2. storing'[k] \subseteq storing[k]
    BY <2>1 DEF IInv, TypeOK
  <2>3. QED
    BY <1>1, <2>1, <2>2 DEF Separate, Enabled
<1>5. QED
  BY <1>3, <1>4

(* A step keeps a job separate that listens to no dialog but its own. *)
LEMMA StepSeparate ==
    ASSUME IInv, NEW k \in Job, Separate(k), OwnDialog(k), Next
    PROVE  Separate(k)'
<1>1. ASSUME NEW j \in Job, DialogEnds(j) PROVE Separate(k)'
  BY <1>1, PluginFinishedSeparate, PluginErrorSeparate, StartAuthSessionSeparate
     DEF DialogEnds
<1>2. ASSUME NEW j \in Job, NEW i \in Identity, SignondAnswers(j, i) PROVE Separate(k)'
  BY <1>2, StoreAnswerSeparate, SessionResponseSeparate, SessionErrorSeparate,
     InfoSeparate DEF SignondAnswers
<1>3. QED
  BY <1>1, <1>2, ProcessSessionSeparate, SyncedSeparate, DeletedSeparate DEF Next

LEMMA NextSeparate == NoSharing /\ SInv /\ [Next]_vars => SInv'
<1> SUFFICES ASSUME NoSharing, SInv, [Next]_vars, NEW k \in Job PROVE Separate(k)'
  BY NextInv DEF SInv, SeparateJobs
<1>1. Separate(k) /\ IInv
  BY DEF SInv, SeparateJobs
<1>2. OwnDialog(k)
  BY DEF SInv, SeparateJobs, Separate, NoSharing, OwnDialog, Listeners
<1>3. CASE Next
  BY <1>1, <1>2, <1>3, StepSeparate
<1>4. CASE UNCHANGED vars
  BY <1>1, <1>4 DEF vars, jobVars, signonVars, Separate, Enabled
<1>5. QED
  BY <1>3, <1>4

(* What a job that is separate has enabled and announced. *)
LEMMA SeparateCorrect ==
    ASSUME IInv, NEW j \in Job, Separate(j)
    PROVE  /\ Enabled(j) => /\ db[j].credentials \in stored[j] \cap authed[j]
                            /\ db[j].credentials[1] = j
           /\ result[j] = "success" => Enabled(j)
           /\ result[j] = "error" => ~Enabled(j)
<1>1. ASSUME Enabled(j)
      PROVE  /\ db[j].credentials \in stored[j] /\ db[j].credentials = identity[j]
             /\ identity[j] \in authed[j] /\ identity[j][1] = j /\ ~error[j]
  <2>1. db[j].credentials \in stored[j]
    BY <1>1 DEF IInv, Backed, EnabledIsBacked
  <2>2. db[j].credentials = identity[j] /\ identity[j] \in authed[j] /\ ~error[j]
    BY <1>1 DEF Separate
  <2>3. identity[j] # None
    BY <2>1, <2>2, IdentityAssumption DEF IInv, TypeOK
  <2>4. QED
    BY <2>1, <2>2, <2>3 DEF Separate
<1>2. QED
  BY <1>1 DEF Separate

(* What the invariant of jobs that share no plugin says of results and rows. *)
LEMMA SeparateImplies ==
    SInv => EnabledIsAuthenticated /\ ResultMatchesDatabase /\ OwnCredentials
BY SeparateCorrect
   DEF SInv, SeparateJobs, EnabledIsAuthenticated, ResultMatchesDatabase, OwnCredentials

LEMMA SeparateInductive ==
    ASSUME NoSharing
    PROVE  Spec => []SInv
<1>1. Init => SInv
  BY InitInv, InitSeparate DEF SInv
<1>2. SInv /\ [Next]_vars => SInv'
  BY NextSeparate
<1>3. QED
  BY <1>1, <1>2, PTL DEF Spec

(* As long as no two jobs share a UI plugin, an account is only enabled with      *)
(* credentials that are stored and that the user has proved                       *)
(* (createaccountjob.cpp:167-170, 197-211).                                       *)
THEOREM AuthenticatedWithoutSharing ==
    ASSUME NoSharing
    PROVE  Spec => []EnabledIsAuthenticated
BY SeparateInductive, SeparateImplies, PTL

(* As long as no two jobs share a UI plugin, what a job announces is what the     *)
(* database has (createaccountjob.cpp:173-191, 249-265).                          *)
THEOREM ResultsWithoutSharing ==
    ASSUME NoSharing
    PROVE  Spec => []ResultMatchesDatabase
BY SeparateInductive, SeparateImplies, PTL

(* As long as no two jobs share a UI plugin, no account gets the credentials of   *)
(* another job's dialog (createaccountjob.cpp:97-103, 142-171): sharing is the only *)
(* cause of the mix-up.                                                           *)
THEOREM OwnWithoutSharing ==
    ASSUME NoSharing
    PROVE  Spec => []OwnCredentials
BY SeparateInductive, SeparateImplies, PTL


--------------------------------------------------------------------------------
(* CreateAccountJob implements AccountCreation, for any number of jobs of which no *)
(* two share a UI plugin, whether or not signond fails.                           *)

(* The inductive invariant: what the refinement needs beside SInv. *)

(* A job is done as soon as its user has authenticated, a job is deleted after it *)
(* has announced a result, and an enabled account has been announced.             *)
Announced(k) ==
    /\ authed[k] # {} => done[k]
    /\ jobs[k] = "deleted" => result[k] # "none"
    /\ Enabled(k) => result[k] = "success"

CInv == SInv /\ \A k \in Job : Announced(k)

(* What a step shows of job k to whoever has started it. *)
Unseen(k) == Stage(k)' = Stage(k) /\ db'[k].state = db[k].state /\ result'[k] = result[k]

(* A job whose outcome a step leaves alone shows nothing and stays announced. *)
LEMMA OutcomeKept ==
    ASSUME NEW k \in Job, Announced(k), result'[k] = result[k], db'[k] = db[k],
           authed'[k] = authed[k], jobs'[k] = jobs[k], done[k] => done'[k]
    PROVE  Unseen(k) /\ Announced(k)'
BY DEF Unseen, Announced, Stage, Enabled

(* A step that shows nothing of any job is a stutter of AccountCreation. *)
LEMMA Stutters ==
    ASSUME TypeOK, TypeOK', \A k \in Job : Unseen(k)
    PROVE  UNCHANGED Creation!vars
<1>1. [j \in Job |-> Stage(j)]' = [j \in Job |-> Stage(j)]
  BY DEF Unseen
<1>2. [j \in Job |-> db[j].state]' = [j \in Job |-> db[j].state]
  BY DEF Unseen
<1>3. result' = result
  BY DEF Unseen, TypeOK
<1>4. QED
  BY <1>1, <1>2, <1>3 DEF Creation!vars

(* A step that takes job j from one stage to another, and shows nothing of others. *)
LEMMA Moves ==
    ASSUME TypeOK, TypeOK', NEW j \in Job, \A k \in Job \ {j} : Unseen(k), NEW t, Stage(j)' = t
    PROVE  /\ [k \in Job |-> Stage(k)]' = [[k \in Job |-> Stage(k)] EXCEPT ![j] = t]
           /\ [k \in Job |-> db[k].state]' =
                [[k \in Job |-> db[k].state] EXCEPT ![j] = db'[j].state]
           /\ result' = [result EXCEPT ![j] = result'[j]]
           /\ db'[j].state = db[j].state =>
                [k \in Job |-> db[k].state]' = [k \in Job |-> db[k].state]
           /\ result'[j] = result[j] => result' = result
<1>1. [k \in Job |-> Stage(k)]' = [[k \in Job |-> Stage(k)] EXCEPT ![j] = t]
  BY DEF Unseen
<1>2. [k \in Job |-> db[k].state]' =
        [[k \in Job |-> db[k].state] EXCEPT ![j] = db'[j].state]
  BY DEF Unseen
<1>3. result' = [result EXCEPT ![j] = result'[j]]
  BY DEF Unseen, TypeOK
<1>4. db'[j].state = db[j].state =>
        [k \in Job |-> db[k].state]' = [k \in Job |-> db[k].state]
  BY DEF Unseen
<1>5. result'[j] = result[j] => result' = result
  BY DEF Unseen, TypeOK
<1>6. QED
  BY <1>1, <1>2, <1>3, <1>4, <1>5

--------------------------------------------------------------------------------
(* One lemma for each step of a job, or of signond. *)

Implements == [Creation!Next]_(Creation!vars) /\ \A k \in Job : Announced(k)'

LEMMA ProcessSessionImplements ==
    ASSUME CInv, TypeOK', NEW j \in Job, processSession(j) PROVE Implements
<1> USE DEF CInv
<1>1. TypeOK /\ SInv /\ Separate(j) /\ Announced(j)
  BY DEF SInv, IInv, SeparateJobs
<1>2. /\ jobs[j] = "new"
      /\ jobs' = [jobs EXCEPT ![j] = "alive"]
      /\ UNCHANGED <<done, stored, queried, syncs, db, authed>>
  BY DEF processSession
<1>3. ~done[j] /\ ~error[j] /\ ~Enabled(j) /\ authed[j] = {} /\ result[j] = "none"
  <2>1. ~done[j] /\ ~error[j]
    BY <1>1, <1>2 DEF Separate
  <2>2. QED
    BY <1>1, <2>1, NothingWritten DEF Separate, Announced, TypeOK
<1>4. Stage(j) = "new"
  BY <1>2, <1>3 DEF Stage
<1>5. jobs'[j] = "alive" /\ ~Enabled(j)'
  BY <1>1, <1>2, <1>3 DEF TypeOK, Enabled
<1>6. CASE UNCHANGED <<error, result>>
  <2>1. ASSUME NEW k \in Job, k # j PROVE Unseen(k) /\ Announced(k)'
    BY <1>1, <1>2, <1>6, <2>1, OutcomeKept DEF TypeOK
  <2>2. Stage(j)' = "started"
    BY <1>2, <1>3, <1>5, <1>6 DEF Stage
  <2>3. Creation!Start(j)
    BY <1>1, <1>2, <1>4, <1>6, <2>1, <2>2, Moves DEF Creation!Start, Creation!Goes
  <2>4. Announced(j)'
    BY <1>2, <1>3, <1>5, <1>6 DEF Announced
  <2>5. QED
    BY <2>1, <2>3, <2>4 DEF Implements, Creation!Next
<1>7. CASE error' = [error EXCEPT ![j] = TRUE] /\ EmitResult({j}, error')
  <2>1. ASSUME NEW k \in Job, k # j PROVE Unseen(k) /\ Announced(k)'
    BY <1>1, <1>2, <1>7, <2>1, OutcomeKept DEF TypeOK, EmitResult
  <2>2. result'[j] = "error" /\ Stage(j)' = "failed"
    BY <1>1, <1>3, <1>7 DEF Stage, EmitResult, TypeOK
  <2>3. Creation!Refuse(j)
    BY <1>1, <1>2, <1>4, <2>1, <2>2, Moves DEF Creation!Refuse, Creation!Goes
  <2>4. Announced(j)'
    BY <1>2, <1>3, <1>5, <2>2 DEF Announced
  <2>5. QED
    BY <2>1, <2>3, <2>4 DEF Implements, Creation!Next
<1>8. QED
  BY <1>6, <1>7 DEF processSession

(* The steps that end a dialog change the job that opened it, or no job. *)
LEMMA PluginFinishedImplements ==
    ASSUME NoSharing, CInv, TypeOK', NEW d \in Job, pluginFinished(d) PROVE Implements
<1> USE DEF CInv
<1> DEFINE J == Listeners(d)
           i == <<d, "plugin">>
<1>1. TypeOK /\ Separate(d) /\ Announced(d) /\ IInv
  BY DEF SInv, IInv, SeparateJobs
<1>2. /\ d \in dialogs
      /\ done' = [j \in Job |-> done[j] \/ j \in J]
      /\ authed' = Added(authed, J, i)
      /\ UNCHANGED <<jobs, error, result, db>>
  BY DEF pluginFinished
<1>3. J \subseteq {d}
  BY <1>2 DEF SInv, SeparateJobs, Separate, NoSharing, Listeners
<1>4. ASSUME NEW k \in Job, k \notin J PROVE Unseen(k) /\ Announced(k)'
  <2>1. authed'[k] = authed[k]
    BY <1>1, <1>2, <1>4 DEF Added, TypeOK
  <2>2. done[k] => done'[k]
    BY <1>2, Zenon
  <2>3. QED
    BY <1>2, <2>1, <2>2, OutcomeKept
<1>5. CASE d \notin J
  <2>1. \A k \in Job : Unseen(k) /\ Announced(k)'
    BY <1>3, <1>4, <1>5
  <2>2. QED
    BY <1>1, <2>1, Stutters DEF Implements
<1>6. CASE d \in J
  <2>1. ~done[d] /\ ~error[d] /\ ~Enabled(d) /\ result[d] # "success"
    BY <1>1, <1>2, DialogOpen
  <2>2. authed[d] = {} /\ result[d] # "error" /\ jobs[d] = "alive"
    BY <1>1, <1>6, <2>1 DEF Announced, Separate, Listeners, Alive
  <2>3. Stage(d) = "started"
    BY <2>1, <2>2 DEF Stage
  <2>4. done'[d] /\ authed'[d] # {}
    BY <1>1, <1>2, <1>6 DEF Added
  <2>5. Stage(d)' = "authenticated" /\ Announced(d)'
    BY <1>2, <2>1, <2>2, <2>4 DEF Stage, Announced, Enabled
  <2>6. \A k \in Job \ {d} : Unseen(k) /\ Announced(k)'
    BY <1>3, <1>4
  <2>7. Creation!Authenticate(d)
    BY <1>1, <1>2, <2>3, <2>5, <2>6, Moves DEF Creation!Authenticate, Creation!Goes
  <2>8. QED
    BY <2>5, <2>6, <2>7 DEF Implements, Creation!Next
<1>7. QED
  BY <1>5, <1>6

LEMMA PluginErrorImplements ==
    ASSUME NoSharing, CInv, TypeOK', NEW d \in Job, pluginError(d) PROVE Implements
<1> USE DEF CInv
<1> DEFINE J == Listeners(d)
<1>1. TypeOK /\ Separate(d) /\ Announced(d) /\ IInv
  BY DEF SInv, IInv, SeparateJobs
<1>2. /\ d \in dialogs
      /\ EmitResult(J, error')
      /\ error' = [j \in Job |-> error[j] \/ j \in J]
      /\ UNCHANGED <<jobs, done, db, authed>>
  BY DEF pluginError
<1>3. J \subseteq {d}
  BY <1>2 DEF SInv, SeparateJobs, Separate, NoSharing, Listeners
<1>4. ASSUME NEW k \in Job, k \notin J PROVE Unseen(k) /\ Announced(k)'
  <2>1. result'[k] = result[k]
    BY <1>2, <1>4 DEF EmitResult
  <2>2. QED
    BY <1>2, <2>1, OutcomeKept
<1>5. CASE d \notin J
  <2>1. \A k \in Job : Unseen(k) /\ Announced(k)'
    BY <1>3, <1>4, <1>5
  <2>2. QED
    BY <1>1, <2>1, Stutters DEF Implements
<1>6. CASE d \in J
  <2>1. ~done[d] /\ ~error[d] /\ ~Enabled(d) /\ result[d] # "success"
    BY <1>1, <1>2, DialogOpen
  <2>2. authed[d] = {} /\ result[d] = "none" /\ jobs[d] = "alive"
    BY <1>1, <1>6, <2>1 DEF Announced, Separate, Listeners, Alive, TypeOK
  <2>3. Stage(d) = "started"
    BY <2>1, <2>2 DEF Stage
  <2>4. result'[d] = "error"
    BY <1>2, <1>6, <2>2 DEF EmitResult
  <2>5. Stage(d)' = "failed" /\ Announced(d)'
    BY <1>2, <2>1, <2>2, <2>4 DEF Stage, Announced, Enabled
  <2>6. \A k \in Job \ {d} : Unseen(k) /\ Announced(k)'
    BY <1>3, <1>4
  <2>7. Creation!Fail(d)
    BY <1>1, <1>2, <2>3, <2>4, <2>5, <2>6, Moves DEF Creation!Fail, Creation!Goes
  <2>8. QED
    BY <2>5, <2>6, <2>7 DEF Implements, Creation!Next
<1>7. QED
  BY <1>5, <1>6

LEMMA StartAuthSessionImplements ==
    ASSUME NoSharing, CInv, TypeOK', NEW d \in Job, startAuthSession(d) PROVE Implements
<1> USE DEF CInv
<1> DEFINE J == Listeners(d)
<1>1. TypeOK /\ Separate(d) /\ Announced(d) /\ IInv
  BY DEF SInv, IInv, SeparateJobs
<1>2. /\ d \in dialogs
      /\ db' = [j \in Job |->
                   IF j \in J /\ db[j].state = "absent"
                   THEN [NoRow EXCEPT !.state = "disabled"] ELSE db[j]]
      /\ UNCHANGED <<jobs, done, result, authed>>
  BY DEF startAuthSession
<1>3. J \subseteq {d}
  BY <1>2 DEF SInv, SeparateJobs, Separate, NoSharing, Listeners
<1>4. ASSUME NEW k \in Job, db'[k] = db[k] PROVE Unseen(k) /\ Announced(k)'
  BY <1>2, <1>4, OutcomeKept
<1>5. \A k \in Job : (k \in J /\ db[k].state = "absent") \/ db'[k] = db[k]
  BY <1>2
<1>6. CASE d \notin J \/ db[d].state # "absent"
  <2>1. \A k \in Job : Unseen(k) /\ Announced(k)'
    BY <1>3, <1>4, <1>5, <1>6
  <2>2. QED
    BY <1>1, <2>1, Stutters DEF Implements
<1>7. CASE d \in J /\ db[d].state = "absent"
  <2>1. ~done[d] /\ ~error[d] /\ ~Enabled(d) /\ result[d] # "success"
    BY <1>1, <1>2, DialogOpen
  <2>2. authed[d] = {} /\ result[d] = "none" /\ jobs[d] = "alive"
    BY <1>1, <1>7, <2>1 DEF Announced, Separate, Listeners, Alive, TypeOK
  <2>3. db'[d].state = "disabled"
    BY <1>2, <1>7 DEF NoRow
  <2>4. Stage(d) = "started" /\ Stage(d)' = "started" /\ Announced(d)'
    BY <1>2, <2>1, <2>2, <2>3 DEF Stage, Announced, Enabled
  <2>5. \A k \in Job \ {d} : Unseen(k) /\ Announced(k)'
    BY <1>3, <1>4, <1>5
  <2>6. [k \in Job |-> Stage(k)]' = [k \in Job |-> Stage(k)]
    BY <2>4, <2>5 DEF Unseen
  <2>7. Creation!Register(d)
    BY <1>1, <1>2, <1>7, <2>3, <2>4, <2>5, <2>6, Moves DEF Creation!Register
  <2>8. QED
    BY <2>4, <2>5, <2>7 DEF Implements, Creation!Next
<1>8. QED
  BY <1>6, <1>7

LEMMA SessionResponseImplements ==
    ASSUME CInv, TypeOK', NEW j \in Job, NEW i \in Identity, sessionResponse(j, i)
    PROVE  Implements
<1> USE DEF CInv
<1>1. TypeOK /\ Separate(j) /\ Announced(j) /\ IInv
  BY DEF SInv, IInv, SeparateJobs
<1>2. /\ i \in sessions[j] /\ Alive(j)
      /\ done' = [done EXCEPT ![j] = TRUE]
      /\ authed' = [authed EXCEPT ![j] = @ \cup {i}]
      /\ UNCHANGED <<jobs, result, db>>
  BY DEF sessionResponse
<1>3. /\ ~done[j] /\ ~error[j] /\ ~Enabled(j)
      /\ authed[j] = {} /\ result[j] # "error" /\ jobs[j] = "alive"
  BY <1>1, <1>2, SessionOpen DEF Announced, Separate, Alive
<1>4. ASSUME NEW k \in Job, k # j PROVE Unseen(k) /\ Announced(k)'
  BY <1>1, <1>2, <1>4, OutcomeKept DEF TypeOK
<1>5. done'[j] /\ authed'[j] # {}
  BY <1>1, <1>2 DEF TypeOK
<1>6. Stage(j) = "started"
  BY <1>3 DEF Stage
<1>7. Stage(j)' = "authenticated" /\ Announced(j)'
  BY <1>2, <1>3, <1>5 DEF Stage, Announced, Enabled
<1>8. Creation!Authenticate(j)
  BY <1>1, <1>2, <1>4, <1>6, <1>7, Moves DEF Creation!Authenticate, Creation!Goes
<1>9. QED
  BY <1>4, <1>7, <1>8 DEF Implements, Creation!Next

LEMMA SessionErrorImplements ==
    ASSUME CInv, TypeOK', NEW j \in Job, NEW i \in Identity, sessionError(j, i)
    PROVE  Implements
<1> USE DEF CInv
<1>1. TypeOK /\ Separate(j) /\ Announced(j) /\ IInv
  BY DEF SInv, IInv, SeparateJobs
<1>2. i \in sessions[j] /\ Alive(j) /\ UNCHANGED <<jobs, done, db, authed>>
  BY DEF sessionError
<1>3. /\ ~done[j] /\ ~error[j] /\ ~Enabled(j)
      /\ authed[j] = {} /\ result[j] = "none" /\ jobs[j] = "alive"
  BY <1>1, <1>2, SessionOpen DEF Announced, Separate, Alive, TypeOK
<1>4. error' = [error EXCEPT ![j] = TRUE] /\ EmitResult({j}, error')
  BY <1>3 DEF sessionError
<1>5. ASSUME NEW k \in Job, k # j PROVE Unseen(k) /\ Announced(k)'
  <2>1. result'[k] = result[k]
    BY <1>4, <1>5 DEF EmitResult
  <2>2. QED
    BY <1>2, <2>1, OutcomeKept
<1>6. result'[j] = "error"
  BY <1>1, <1>3, <1>4 DEF EmitResult, TypeOK
<1>7. Stage(j) = "started"
  BY <1>3 DEF Stage
<1>8. Stage(j)' = "failed" /\ Announced(j)'
  BY <1>2, <1>3, <1>6 DEF Stage, Announced, Enabled
<1>9. Creation!Fail(j)
  BY <1>1, <1>2, <1>5, <1>6, <1>7, <1>8, Moves DEF Creation!Fail, Creation!Goes
<1>10. QED
  BY <1>5, <1>8, <1>9 DEF Implements, Creation!Next

(* The account takes its credentials: success, or the same credentials once more. *)
LEMMA SyncedImplements ==
    ASSUME CInv, TypeOK', NEW j \in Job, synced(j) PROVE Implements
<1> USE DEF CInv
<1>1. TypeOK /\ Separate(j) /\ Announced(j) /\ IInv
  BY DEF SInv, IInv, SeparateJobs
<1>2. /\ syncs[j] # <<>>
      /\ db' = [db EXCEPT ![j] = [state |-> "enabled", credentials |-> Head(syncs[j])]]
      /\ EmitResult({n \in {j} : Alive(n)}, error)
      /\ UNCHANGED <<jobs, done, error, authed>>
  BY DEF synced
<1>3. /\ done[j] /\ ~error[j] /\ result[j] # "error"
      /\ authed[j] # {}
  BY <1>1, <1>2 DEF Separate
<1>4. ASSUME NEW k \in Job, k # j PROVE Unseen(k) /\ Announced(k)'
  <2>1. db'[k] = db[k] /\ result'[k] = result[k]
    BY <1>1, <1>2, <1>4 DEF EmitResult, TypeOK
  <2>2. QED
    BY <1>2, <2>1, OutcomeKept
<1>5. db'[j].state = "enabled"
  BY <1>1, <1>2 DEF TypeOK
<1>6. CASE Enabled(j)
  <2>1. result[j] = "success"
    BY <1>1, <1>6 DEF Announced
  <2>2. result'[j] = "success"
    BY <1>2, <2>1 DEF EmitResult
  <2>3. Unseen(j) /\ Announced(j)'
    BY <1>1, <1>2, <1>3, <1>5, <1>6, <2>1, <2>2 DEF Unseen, Announced, Stage, Enabled
  <2>4. \A k \in Job : Unseen(k) /\ Announced(k)'
    BY <1>4, <2>3
  <2>5. QED
    BY <1>1, <2>4, Stutters DEF Implements
<1>7. CASE ~Enabled(j)
  <2>1. result[j] = "none"
    BY <1>1, <1>3, <1>7 DEF Separate, TypeOK
  <2>2. Alive(j)
    <3>1. jobs[j] # "new"
      BY <1>1, <1>3 DEF Separate
    <3>2. jobs[j] # "deleted"
      BY <1>1, <2>1 DEF Announced
    <3>3. QED
      BY <1>1, <3>1, <3>2 DEF Alive, TypeOK
  <2>3. result'[j] = "success"
    BY <1>2, <1>3, <2>1, <2>2 DEF EmitResult
  <2>4. Stage(j) = "authenticated"
    BY <1>3, <1>7, <2>1 DEF Stage
  <2>5. Stage(j)' = "created" /\ Announced(j)'
    BY <1>2, <1>3, <1>5, <2>3 DEF Stage, Announced, Enabled
  <2>6. Creation!Create(j)
    BY <1>1, <1>4, <1>5, <2>3, <2>4, <2>5, Moves DEF Creation!Create, Creation!Goes
  <2>7. QED
    BY <1>4, <2>5, <2>6 DEF Implements, Creation!Next
<1>8. QED
  BY <1>6, <1>7

(* The other steps show nothing. *)
LEMMA QuietImplements ==
    ASSUME CInv, TypeOK', UNCHANGED <<done, result, db, authed>>,
           \A k \in Job : jobs'[k] = jobs[k] \/
               (jobs[k] = "alive" /\ jobs'[k] = "deleted" /\ result[k] # "none")
    PROVE  Implements
<1>1. \A k \in Job : Unseen(k) /\ Announced(k)'
  BY DEF CInv, Unseen, Announced, Stage, Enabled
<1>2. QED
  BY <1>1, Stutters DEF CInv, SInv, IInv, Implements

LEMMA NextImplements == NoSharing /\ CInv /\ TypeOK' /\ [Next]_vars => Implements
<1> SUFFICES ASSUME NoSharing, CInv, TypeOK', [Next]_vars PROVE Implements
  OBVIOUS
<1>1. ASSUME NEW j \in Job, DialogEnds(j) PROVE Implements
  BY <1>1, PluginFinishedImplements, PluginErrorImplements, StartAuthSessionImplements
     DEF DialogEnds
<1>2. ASSUME NEW j \in Job, NEW i \in Identity, SignondAnswers(j, i) PROVE Implements
  <2>1. CASE sessionResponse(j, i) \/ sessionError(j, i)
    BY <2>1, SessionResponseImplements, SessionErrorImplements
  <2>2. CASE CredentialsStored(j, i) \/ StoreFailed(j, i) \/ info(j, i)
    <3>1. UNCHANGED <<jobs, done, result, db, authed>>
      BY <2>2 DEF CredentialsStored, StoreFailed, info, jobVars
    <3>2. QED
      BY <3>1, QuietImplements
  <2>3. QED
    BY <1>2, <2>1, <2>2 DEF SignondAnswers
<1>3. ASSUME NEW j \in Job, Deleted(j) PROVE Implements
  <2>1. /\ UNCHANGED <<done, result, db, authed>>
        /\ jobs[j] = "alive" /\ result[j] # "none"
        /\ jobs' = [jobs EXCEPT ![j] = "deleted"]
    BY <1>3 DEF Deleted, Alive
  <2>2. \A k \in Job : jobs'[k] = jobs[k] \/
            (jobs[k] = "alive" /\ jobs'[k] = "deleted" /\ result[k] # "none")
    BY <2>1 DEF CInv, SInv, IInv, TypeOK
  <2>3. QED
    BY <2>1, <2>2, QuietImplements
<1>4. CASE UNCHANGED vars
  <2>1. UNCHANGED <<jobs, done, result, db, authed>>
    BY <1>4 DEF vars, jobVars
  <2>2. QED
    BY <2>1, QuietImplements
<1>5. QED
  BY <1>1, <1>2, <1>3, <1>4, ProcessSessionImplements, SyncedImplements DEF Next

LEMMA InitImplements == Init => CInv /\ Creation!Init
<1> SUFFICES ASSUME Init PROVE CInv /\ Creation!Init
  OBVIOUS
<1>1. \A k \in Job : Stage(k) = "new" /\ db[k].state = "absent" /\ Announced(k)
  BY DEF Init, Stage, Announced, Enabled, NoRow
<1>2. Creation!Init
  BY <1>1 DEF Init, Creation!Init
<1>3. QED
  BY <1>1, <1>2, InitInv, InitSeparate DEF CInv, SInv

(* As long as no two jobs share a UI plugin, a job fails only before its user has *)
(* authenticated, for good, and enables the account exactly when it announces     *)
(* success (createaccountjob.cpp:167-170, 173-199, 249-265).                      *)
THEOREM AccountCreationImplemented ==
    ASSUME NoSharing
    PROVE  Spec => CreatesAccounts
<1>1. Init => CInv /\ Creation!Init
  BY InitImplements
<1>2. CInv /\ [Next]_vars => CInv' /\ [Creation!Next]_(Creation!vars)
  <2>1. SUFFICES ASSUME CInv, [Next]_vars PROVE CInv' /\ [Creation!Next]_(Creation!vars)
    OBVIOUS
  <2>2. SInv'
    BY <2>1, NextSeparate DEF CInv
  <2>3. TypeOK'
    BY <2>2 DEF SInv, IInv
  <2>4. Implements
    BY <2>1, <2>3, NextImplements
  <2>5. QED
    BY <2>2, <2>4 DEF CInv, Implements
<1>3. QED
  BY <1>1, <1>2, PTL DEF Spec, CreatesAccounts, Creation!Spec

--------------------------------------------------------------------------------
(* No job is ever stuck, whatever plugins are shared. *)

(* The identities of a dialog are still to be made while it is open or to come. *)
Fresh(d) ==
    \A j \in Job : \A kind \in {"plugin", "session"} : <<d, kind>> \notin storing[j] \cup stored[j]

DialogsFresh ==
    \A d \in Job : /\ jobs[d] = "new" => d \notin dialogs
                   /\ d \in dialogs \/ jobs[d] = "new" => Fresh(d)

(* What job j waits for, in terms of the identity it has created last. *)
Comes(j) ==
    \/ j \in dialogs
    \/ identity[j] \in storing[j] \cup sessions[j]
    \/ done[j] /\ identity[j] \in queried[j] \cap stored[j]
    \/ syncs[j] # <<>>
    \/ Lost(j)

(* When that identity is stored, its info will count, or a session is to follow.  *)
Leads(j) ==
    identity[j] \in storing[j] =>
       IF identity[j][2] = "plugin" THEN done[j] ELSE identity[j] \in sessions[j]

Moving(j) ==
    /\ jobs[j] = "new" => storing[j] = {}
    /\ error[j] => result[j] # "none"
    /\ storing[j] \cap stored[j] = {}
    /\ Alive(j) /\ result[j] = "none" => Comes(j) /\ Leads(j)

NInv == IInv /\ DialogsFresh /\ \A j \in Job : Moving(j)

LEMMA MovingImplies == NInv => NeverStuck
<1> SUFFICES ASSUME NInv, NEW j \in Job, Alive(j), result[j] = "none"
             PROVE  \/ j \in dialogs
                    \/ storing[j] # {} \/ sessions[j] # {} \/ syncs[j] # <<>>
                    \/ queried[j] \cap stored[j] # {}
                    \/ Lost(j)
  BY DEF NeverStuck
<1>1. Comes(j)
  BY DEF NInv, Moving
<1>2. QED
  BY <1>1 DEF Comes

(* A job whose state a step leaves alone keeps waiting for the same. *)
LEMMA MovingKept ==
    ASSUME NEW k \in Job, Moving(k), k \in dialogs => k \in dialogs',
           jobs'[k] = jobs[k] \/ jobs'[k] = "deleted",
           done'[k] = done[k], error'[k] = error[k], result'[k] = result[k],
           identity'[k] = identity[k], storing'[k] = storing[k], stored'[k] = stored[k],
           queried'[k] = queried[k], sessions'[k] = sessions[k], syncs'[k] = syncs[k]
    PROVE  Moving(k)'
BY DEF Moving, Comes, Leads, Lost, Alive

(* So does one that has announced its result, or that is gone. *)
LEMMA AnsweredMoves ==
    ASSUME NEW k \in Job, Moving(k), jobs'[k] # "new", ~Alive(k)' \/ result'[k] # "none",
           error'[k] => error[k] \/ result'[k] # "none",
           result[k] # "none" => result'[k] # "none",
           storing'[k] \cap stored'[k] \subseteq storing[k] \cap stored[k]
    PROVE  Moving(k)'
BY DEF Moving

(* The only dialog a step may open is that of job d, and only of d it may store.  *)
LEMMA FreshStep ==
    ASSUME DialogsFresh, NEW d \in Job, jobs'[d] # "new", d \in dialogs' => Fresh(d)',
           \A k \in Job \ {d} : /\ k \in dialogs' => k \in dialogs
                                /\ jobs'[k] = "new" => jobs[k] = "new",
           \A j \in Job : \A i \in Identity :
              i[1] # d /\ i \in storing'[j] \cup stored'[j] => i \in storing[j] \cup stored[j]
    PROVE  DialogsFresh'
<1>1. ASSUME NEW k \in Job, k # d, Fresh(k) PROVE Fresh(k)'
  <2>1. SUFFICES ASSUME NEW j \in Job, NEW kind \in {"plugin", "session"}
                 PROVE  <<k, kind>> \notin storing'[j] \cup stored'[j]
    BY DEF Fresh
  <2>2. <<k, kind>> \in Identity /\ <<k, kind>>[1] # d
    BY <1>1 DEF Identity
  <2>3. <<k, kind>> \notin storing[j] \cup stored[j]
    BY <1>1 DEF Fresh
  <2>4. QED
    BY <2>2, <2>3
<1>2. QED
  BY <1>1 DEF DialogsFresh

(* A step that opens no dialog and stores nothing new. *)
LEMMA FreshKept ==
    ASSUME DialogsFresh, dialogs' \subseteq dialogs,
           \A k \in Job : jobs'[k] = "new" => jobs[k] = "new",
           \A k \in Job : storing'[k] \cup stored'[k] \subseteq storing[k] \cup stored[k]
    PROVE  DialogsFresh'
BY DEF DialogsFresh, Fresh

(* A job that creates an identity waits for its being stored. *)
LEMMA StoringMoves ==
    ASSUME NEW k \in Job, Moving(k), jobs'[k] # "new", NEW i \in Identity, i \notin stored[k],
           identity'[k] = i, storing'[k] = storing[k] \cup {i}, stored'[k] = stored[k],
           error'[k] = error[k], result'[k] = result[k],
           IF i[2] = "plugin" THEN done'[k] ELSE i \in sessions'[k]
    PROVE  Moving(k)'
BY DEF Moving, Comes, Leads

--------------------------------------------------------------------------------
(* One lemma for each step of a job, or of signond. *)

KeepMoving == DialogsFresh' /\ \A k \in Job : Moving(k)'

LEMMA ProcessSessionMoves ==
    ASSUME NInv, NEW j \in Job, processSession(j) PROVE KeepMoving
<1> DEFINE i == <<j, "session">>
<1>1. /\ jobs[j] = "new"
      /\ jobs' = [jobs EXCEPT ![j] = "alive"]
      /\ UNCHANGED <<done, stored, queried, syncs>>
  BY DEF processSession
<1>2. TypeOK /\ DialogsFresh /\ i \in Identity
  BY DEF NInv, IInv, Identity
<1>3. jobs'[j] # "new" /\ \A k \in Job \ {j} : jobs'[k] = jobs[k]
  BY <1>1, <1>2 DEF TypeOK
<1>4. Fresh(j) /\ j \notin dialogs
  BY <1>1, <1>2 DEF DialogsFresh
<1>5. CASE /\ StoreCredentials({j}, i)
           /\ sessions' = Added(sessions, {j}, i)
           /\ UNCHANGED <<dialogs, error, result>>
  <2>1. /\ identity'[j] = i /\ storing'[j] = storing[j] \cup {i}
        /\ i \in sessions'[j]
        /\ \A k \in Job \ {j} : /\ identity'[k] = identity[k]
                                /\ storing'[k] = storing[k] /\ sessions'[k] = sessions[k]
    BY <1>2, <1>5 DEF StoreCredentials, Added, TypeOK
  <2>2. DialogsFresh'
    <3>1. \A k \in Job : \A n \in Identity :
             n[1] # j /\ n \in storing'[k] \cup stored'[k] => n \in storing[k] \cup stored[k]
      BY <1>1, <2>1
    <3>2. QED
      BY <1>2, <1>3, <1>4, <1>5, <3>1, FreshStep
  <2>3. i \notin stored[j]
    BY <1>4 DEF Fresh
  <2>4. Moving(j)'
    BY <1>1, <1>2, <1>3, <1>5, <2>1, <2>3, StoringMoves DEF NInv
  <2>5. \A k \in Job \ {j} : Moving(k)'
    BY <1>1, <1>3, <1>5, <2>1, MovingKept DEF NInv
  <2>6. QED
    BY <2>2, <2>4, <2>5 DEF KeepMoving
<1>6. CASE /\ error' = [error EXCEPT ![j] = TRUE]
           /\ EmitResult({j}, error')
           /\ UNCHANGED <<dialogs, identity, storing, sessions>>
  <2>1. DialogsFresh'
    BY <1>1, <1>2, <1>3, <1>6, FreshKept
  <2>2. /\ result'[j] # "none"
        /\ \A k \in Job \ {j} : error'[k] = error[k] /\ result'[k] = result[k]
    BY <1>2, <1>6 DEF EmitResult, TypeOK
  <2>3. Moving(j)'
    BY <1>1, <1>3, <1>6, <2>2, AnsweredMoves DEF NInv
  <2>4. \A k \in Job \ {j} : Moving(k)'
    BY <1>1, <1>3, <1>6, <2>2, MovingKept DEF NInv
  <2>5. QED
    BY <2>1, <2>3, <2>4 DEF KeepMoving
<1>7. CASE /\ dialogs' = dialogs \cup {j}
           /\ UNCHANGED <<error, result, identity, storing, sessions>>
  <2>1. DialogsFresh'
    <3>1. Fresh(j)'
      BY <1>1, <1>4, <1>7 DEF Fresh
    <3>2. QED
      BY <1>1, <1>2, <1>3, <1>7, <3>1, FreshStep
  <2>2. Moving(j)'
    <3>1. Leads(j)'
      BY <1>1, <1>7 DEF Leads, NInv, Moving
    <3>2. QED
      BY <1>1, <1>3, <1>7, <3>1 DEF NInv, Moving, Comes
  <2>3. \A k \in Job \ {j} : Moving(k)'
    BY <1>1, <1>3, <1>7, MovingKept DEF NInv
  <2>4. QED
    BY <2>1, <2>2, <2>3 DEF KeepMoving
<1>8. QED
  BY <1>5, <1>6, <1>7 DEF processSession

(* The dialog of job d closes, and the jobs J store what the user has entered.    *)
LEMMA ClosingFresh ==
    ASSUME NInv, NEW d \in dialogs, NEW J, NEW kind \in {"plugin", "session"},
           StoreCredentials(J, <<d, kind>>), dialogs' = dialogs \ {d}, UNCHANGED <<jobs, stored>>
    PROVE  /\ DialogsFresh'
           /\ \A k \in Job : <<d, kind>> \notin stored[k]
<1>1. TypeOK /\ DialogsFresh /\ d \in Job
  BY DEF NInv, IInv, TypeOK
<1>2. jobs'[d] # "new" /\ d \notin dialogs' /\ Fresh(d)
  BY <1>1 DEF DialogsFresh
<1>3. \A k \in Job : \A n \in Identity :
         n[1] # d /\ n \in storing'[k] \cup stored'[k] => n \in storing[k] \cup stored[k]
  BY <1>1 DEF StoreCredentials, Added, TypeOK
<1>4. DialogsFresh'
  BY <1>1, <1>2, <1>3, FreshStep
<1>5. QED
  BY <1>2, <1>4 DEF Fresh

LEMMA PluginFinishedMoves ==
    ASSUME NInv, NEW d \in Job, pluginFinished(d) PROVE KeepMoving
<1> DEFINE J == Listeners(d)
           i == <<d, "plugin">>
<1>1. /\ d \in dialogs /\ dialogs' = dialogs \ {d}
      /\ StoreCredentials(J, i)
      /\ done' = [j \in Job |-> done[j] \/ j \in J]
      /\ UNCHANGED <<jobs, error, result, stored, queried, sessions, syncs>>
  BY DEF pluginFinished
<1>2. TypeOK /\ i \in Identity
  BY DEF NInv, IInv, Identity
<1>3. DialogsFresh' /\ \A k \in Job : i \notin stored[k]
  BY <1>1, ClosingFresh
<1>4. ASSUME NEW k \in J PROVE Moving(k)'
  <2>1. k \in Job /\ jobs'[k] # "new"
    BY <1>1 DEF Listeners, Alive
  <2>2. identity'[k] = i /\ storing'[k] = storing[k] \cup {i} /\ done'[k]
    BY <1>1, <1>2, <2>1 DEF StoreCredentials, Added, TypeOK
  <2>3. i[2] = "plugin"
    OBVIOUS
  <2>4. QED
    BY <1>1, <1>2, <1>3, <2>1, <2>2, <2>3, StoringMoves DEF NInv
<1>5. ASSUME NEW k \in Job, k \notin J PROVE Moving(k)'
  <2>1. done'[k] = done[k]
    BY <1>1, <1>2, <1>5, Zenon DEF TypeOK
  <2>2. identity'[k] = identity[k] /\ storing'[k] = storing[k]
    BY <1>1, <1>2, <1>5 DEF StoreCredentials, Added, TypeOK
  <2>3. CASE k # d
    BY <1>1, <2>1, <2>2, <2>3, MovingKept DEF NInv
  <2>4. CASE k = d
    <3>1. ~Alive(d)' /\ jobs'[d] # "new"
      BY <1>1, <1>5, <2>4 DEF Listeners, Alive, NInv, DialogsFresh
    <3>2. QED
      BY <1>1, <2>2, <2>4, <3>1, AnsweredMoves DEF NInv
  <2>5. QED
    BY <2>3, <2>4
<1>6. QED
  BY <1>3, <1>4, <1>5 DEF KeepMoving

LEMMA StartAuthSessionMoves ==
    ASSUME NInv, NEW d \in Job, startAuthSession(d) PROVE KeepMoving
<1> DEFINE J == Listeners(d)
           i == <<d, "session">>
<1>1. /\ d \in dialogs /\ dialogs' = dialogs \ {d}
      /\ StoreCredentials(J, i)
      /\ sessions' = Added(sessions, J, i)
      /\ UNCHANGED <<jobs, done, error, result, stored, queried, syncs>>
  BY DEF startAuthSession
<1>2. TypeOK /\ i \in Identity
  BY DEF NInv, IInv, Identity
<1>3. DialogsFresh' /\ \A k \in Job : i \notin stored[k]
  BY <1>1, ClosingFresh
<1>4. ASSUME NEW k \in J PROVE Moving(k)'
  <2>1. k \in Job /\ jobs'[k] # "new"
    BY <1>1 DEF Listeners, Alive
  <2>2. identity'[k] = i /\ storing'[k] = storing[k] \cup {i} /\ i \in sessions'[k]
    BY <1>1, <1>2, <2>1 DEF StoreCredentials, Added, TypeOK
  <2>3. i[2] # "plugin"
    OBVIOUS
  <2>4. QED
    BY <1>1, <1>2, <1>3, <2>1, <2>2, <2>3, StoringMoves DEF NInv
<1>5. ASSUME NEW k \in Job, k \notin J PROVE Moving(k)'
  <2>1. identity'[k] = identity[k] /\ storing'[k] = storing[k] /\ sessions'[k] = sessions[k]
    BY <1>1, <1>2, <1>5 DEF StoreCredentials, Added, TypeOK
  <2>2. CASE k # d
    BY <1>1, <2>1, <2>2, MovingKept DEF NInv
  <2>3. CASE k = d
    <3>1. ~Alive(d)' /\ jobs'[d] # "new"
      BY <1>1, <1>5, <2>3 DEF Listeners, Alive, NInv, DialogsFresh
    <3>2. QED
      BY <1>1, <2>1, <2>3, <3>1, AnsweredMoves DEF NInv
  <2>4. QED
    BY <2>2, <2>3
<1>6. QED
  BY <1>3, <1>4, <1>5 DEF KeepMoving

LEMMA PluginErrorMoves ==
    ASSUME NInv, NEW d \in Job, pluginError(d) PROVE KeepMoving
<1> DEFINE J == Listeners(d)
<1>1. /\ d \in dialogs /\ dialogs' = dialogs \ {d}
      /\ error' = [j \in Job |-> error[j] \/ j \in J]
      /\ EmitResult(J, error')
      /\ UNCHANGED <<jobs, done, identity, storing, stored, queried, sessions, syncs>>
  BY DEF pluginError, signonVars
<1>2. TypeOK /\ DialogsFresh
  BY DEF NInv, IInv
<1>3. DialogsFresh'
  BY <1>1, <1>2, FreshKept
<1>4. ASSUME NEW k \in J PROVE Moving(k)'
  <2>1. k \in Job /\ jobs'[k] # "new"
    BY <1>1 DEF Listeners, Alive
  <2>2. result'[k] # "none"
    BY <1>1, <1>2, <2>1 DEF EmitResult, TypeOK
  <2>3. QED
    BY <1>1, <2>1, <2>2, AnsweredMoves DEF NInv
<1>5. ASSUME NEW k \in Job, k \notin J PROVE Moving(k)'
  <2>1. error'[k] = error[k]
    BY <1>1, <1>2, <1>5, Zenon DEF TypeOK
  <2>2. result'[k] = result[k]
    BY <1>1, <1>2, <1>5 DEF EmitResult, TypeOK
  <2>3. CASE k # d
    BY <1>1, <2>1, <2>2, <2>3, MovingKept DEF NInv
  <2>4. CASE k = d
    <3>1. ~Alive(d)' /\ jobs'[d] # "new"
      BY <1>1, <1>5, <2>4 DEF Listeners, Alive, NInv, DialogsFresh
    <3>2. QED
      BY <1>1, <2>1, <2>2, <2>4, <3>1, AnsweredMoves DEF NInv
  <2>5. QED
    BY <2>3, <2>4
<1>6. QED
  BY <1>3, <1>4, <1>5 DEF KeepMoving

(* An answered session has the identity queried, if it is stored. *)
LEMMA SessionResponseMoves ==
    ASSUME NInv, NEW j \in Job, NEW i \in Identity, sessionResponse(j, i) PROVE KeepMoving
<1>1. /\ i \in sessions[j] /\ i \notin storing[j]
      /\ sessions' = [sessions EXCEPT ![j] = @ \ {i}]
      /\ done' = [done EXCEPT ![j] = TRUE]
      /\ queried' = [queried EXCEPT ![j] = @ \cup {identity[j]}]
      /\ UNCHANGED <<dialogs, jobs, error, result, identity, storing, stored, syncs>>
  BY DEF sessionResponse
<1>2. TypeOK /\ DialogsFresh /\ Moving(j)
  BY DEF NInv, IInv
<1>3. identity[j] # None
  BY <1>1 DEF NInv, IInv, Backed, SessionsHaveIdentity
<1>4. DialogsFresh'
  BY <1>1, <1>2, FreshKept
<1>5. done'[j] /\ identity[j] \in queried'[j] /\ sessions'[j] = sessions[j] \ {i}
  BY <1>1, <1>2 DEF TypeOK
<1>6. Comes(j)'
  BY <1>1, <1>3, <1>5 DEF Comes, Lost
<1>7. Alive(j) /\ result[j] = "none" => Leads(j)'
  BY <1>1, <1>2, <1>5 DEF Moving, Leads
<1>8. Moving(j)'
  BY <1>1, <1>2, <1>6, <1>7 DEF Moving, Alive
<1>9. ASSUME NEW k \in Job, k # j PROVE Moving(k)'
  BY <1>1, <1>2, <1>9, MovingKept DEF NInv, TypeOK
<1>10. QED
  BY <1>4, <1>8, <1>9 DEF KeepMoving

(* The first error of a session is announced; so was the one that hides it.       *)
LEMMA SessionErrorMoves ==
    ASSUME NInv, NEW j \in Job, NEW i \in Identity, sessionError(j, i) PROVE KeepMoving
<1>1. /\ Alive(j)
      /\ sessions' = [sessions EXCEPT ![j] = @ \ {i}]
      /\ IF error[j] THEN UNCHANGED <<error, result>>
         ELSE /\ error' = [error EXCEPT ![j] = TRUE]
              /\ EmitResult({j}, error')
      /\ UNCHANGED <<dialogs, jobs, done, identity, storing, stored, queried, syncs>>
  BY DEF sessionError
<1>2. TypeOK /\ DialogsFresh /\ Moving(j)
  BY DEF NInv, IInv
<1>3. DialogsFresh'
  BY <1>1, <1>2, FreshKept
<1>4. result'[j] # "none"
  <2>1. CASE error[j]
    BY <1>1, <1>2, <2>1 DEF Moving
  <2>2. CASE ~error[j]
    BY <1>1, <1>2, <2>2 DEF EmitResult, TypeOK
  <2>3. QED
    BY <2>1, <2>2
<1>5. Moving(j)'
  BY <1>1, <1>2, <1>4, AnsweredMoves DEF Alive
<1>6. ASSUME NEW k \in Job, k # j PROVE Moving(k)'
  <2>1. error'[k] = error[k] /\ result'[k] = result[k]
    BY <1>1, <1>2, <1>6 DEF EmitResult, TypeOK
  <2>2. QED
    BY <1>1, <1>2, <1>6, <2>1, MovingKept DEF NInv, TypeOK
<1>7. QED
  BY <1>3, <1>5, <1>6 DEF KeepMoving

(* An info that counts starts a write; one that does not was not waited for.      *)
LEMMA InfoMoves ==
    ASSUME NInv, NEW j \in Job, NEW i \in Identity, info(j, i) PROVE KeepMoving
<1>1. /\ queried' = [queried EXCEPT ![j] = @ \ {i}]
      /\ syncs' = IF done[j] THEN [syncs EXCEPT ![j] = Append(@, i)] ELSE syncs
      /\ UNCHANGED <<dialogs, jobs, done, error, result, identity, storing, stored, sessions>>
  BY DEF info, jobVars
<1>2. TypeOK /\ DialogsFresh /\ Moving(j)
  BY DEF NInv, IInv
<1>3. DialogsFresh'
  BY <1>1, <1>2, FreshKept
<1>4. ASSUME done[j] PROVE Moving(j)'
  <2>1. syncs'[j] = Append(syncs[j], i) /\ syncs[j] \in Seq(Identity)
    BY <1>1, <1>2, <1>4 DEF TypeOK
  <2>2. syncs'[j] # <<>>
    BY <2>1
  <2>3. QED
    BY <1>1, <1>2, <2>2 DEF Moving, Comes, Leads, Alive
<1>5. ASSUME ~done[j] PROVE Moving(j)'
  BY <1>1, <1>2, <1>5 DEF Moving, Comes, Leads, Lost, Alive
<1>6. ASSUME NEW k \in Job, k # j PROVE Moving(k)'
  <2>1. syncs'[k] = syncs[k] /\ queried'[k] = queried[k]
    BY <1>1, <1>2, <1>6 DEF TypeOK
  <2>2. QED
    BY <1>1, <1>6, <2>1, MovingKept DEF NInv
<1>7. Moving(j)'
  BY <1>4, <1>5
<1>8. QED
  BY <1>3, <1>6, <1>7 DEF KeepMoving

LEMMA SyncedMoves ==
    ASSUME NInv, NEW j \in Job, synced(j) PROVE KeepMoving
<1>1. /\ syncs' = [syncs EXCEPT ![j] = Tail(@)]
      /\ EmitResult({k \in {j} : Alive(k)}, error)
      /\ UNCHANGED <<dialogs, jobs, done, error, identity, storing, stored, queried, sessions>>
  BY DEF synced, signonVars
<1>2. TypeOK /\ DialogsFresh /\ Moving(j)
  BY DEF NInv, IInv
<1>3. DialogsFresh'
  BY <1>1, <1>2, FreshKept
<1>4. Alive(j) => result'[j] # "none"
  BY <1>1, <1>2 DEF EmitResult, TypeOK
<1>5. result[j] # "none" => result'[j] # "none"
  BY <1>1, <1>2 DEF EmitResult
<1>6. Moving(j)'
  BY <1>1, <1>2, <1>4, <1>5 DEF Moving, Alive
<1>7. ASSUME NEW k \in Job, k # j PROVE Moving(k)'
  <2>1. syncs'[k] = syncs[k] /\ result'[k] = result[k]
    BY <1>1, <1>2, <1>7 DEF EmitResult, TypeOK
  <2>2. QED
    BY <1>1, <1>7, <2>1, MovingKept DEF NInv
<1>8. QED
  BY <1>3, <1>6, <1>7 DEF KeepMoving

LEMMA DeletedMoves ==
    ASSUME NInv, NEW j \in Job, Deleted(j) PROVE KeepMoving
<1>1. /\ jobs' = [jobs EXCEPT ![j] = "deleted"]
      /\ UNCHANGED <<dialogs, done, error, result, identity, storing, stored, queried,
                     sessions, syncs>>
  BY DEF Deleted, signonVars
<1>2. \A k \in Job : jobs'[k] = jobs[k] \/ jobs'[k] = "deleted"
  BY <1>1 DEF NInv, IInv, TypeOK
<1>3. DialogsFresh'
  BY <1>1, <1>2, FreshKept DEF NInv
<1>4. QED
  BY <1>1, <1>2, <1>3, MovingKept DEF KeepMoving, NInv

(* What is stored has its info queried in the plugin path; in the other a session *)
(* is still to answer.                                                            *)
LEMMA CredentialsStoredMoves ==
    ASSUME NInv, NEW j \in Job, NEW i \in Identity, CredentialsStored(j, i) PROVE KeepMoving
<1>1. /\ i \in storing[j]
      /\ storing' = [storing EXCEPT ![j] = @ \ {i}]
      /\ stored' = [stored EXCEPT ![j] = @ \cup {i}]
      /\ UNCHANGED <<dialogs, jobs, done, error, result, identity, sessions, syncs>>
  BY DEF CredentialsStored, jobVars
<1>2. PICK asked \in {TRUE, i[2] = "plugin"} :
         queried' = IF asked THEN [queried EXCEPT ![j] = @ \cup {i}] ELSE queried
  BY DEF CredentialsStored
<1>3. TypeOK /\ DialogsFresh /\ Moving(j)
  BY DEF NInv, IInv
<1>4. /\ storing'[j] = storing[j] \ {i} /\ stored'[j] = stored[j] \cup {i}
      /\ queried[j] \subseteq queried'[j]
      /\ i[2] = "plugin" => i \in queried'[j]
      /\ \A k \in Job \ {j} : /\ storing'[k] = storing[k] /\ stored'[k] = stored[k]
                              /\ queried'[k] = queried[k]
  BY <1>1, <1>2, <1>3 DEF TypeOK
<1>5. DialogsFresh'
  <2>1. \A k \in Job : storing'[k] \cup stored'[k] \subseteq storing[k] \cup stored[k]
    BY <1>1, <1>4
  <2>2. QED
    BY <1>1, <1>3, <2>1, FreshKept
<1>6. ASSUME Alive(j), result[j] = "none" PROVE Comes(j)'
  <2>1. Comes(j) /\ Leads(j)
    BY <1>3, <1>6 DEF Moving
  <2>2. CASE identity[j] = i
    BY <1>1, <1>4, <2>1, <2>2 DEF Comes, Leads
  <2>3. CASE identity[j] # i
    BY <1>1, <1>4, <2>1, <2>3 DEF Comes, Lost
  <2>4. QED
    BY <2>2, <2>3
<1>7. Alive(j) /\ result[j] = "none" => Leads(j)'
  BY <1>1, <1>3, <1>4 DEF Moving, Leads
<1>8. Moving(j)'
  BY <1>1, <1>3, <1>4, <1>6, <1>7 DEF Moving, Alive
<1>9. ASSUME NEW k \in Job, k # j PROVE Moving(k)'
  BY <1>1, <1>4, <1>9, MovingKept DEF NInv
<1>10. QED
  BY <1>5, <1>8, <1>9 DEF KeepMoving

(* What fails to be stored is lost, unless it is not the identity created last.   *)
LEMMA StoreFailedMoves ==
    ASSUME NInv, NEW j \in Job, NEW i \in Identity, StoreFailed(j, i) PROVE KeepMoving
<1>1. /\ i \in storing[j]
      /\ storing' = [storing EXCEPT ![j] = @ \ {i}]
      /\ UNCHANGED <<dialogs, jobs, done, error, result, identity, stored, queried,
                     sessions, syncs>>
  BY DEF StoreFailed, jobVars
<1>2. TypeOK /\ DialogsFresh /\ Moving(j)
  BY DEF NInv, IInv
<1>3. /\ storing'[j] = storing[j] \ {i}
      /\ \A k \in Job \ {j} : storing'[k] = storing[k]
  BY <1>1, <1>2 DEF TypeOK
<1>4. DialogsFresh'
  <2>1. \A k \in Job : storing'[k] \cup stored'[k] \subseteq storing[k] \cup stored[k]
    BY <1>1, <1>3
  <2>2. QED
    BY <1>1, <1>2, <2>1, FreshKept
<1>5. ASSUME Alive(j), result[j] = "none" PROVE Comes(j)'
  <2>1. Comes(j)
    BY <1>2, <1>5 DEF Moving
  <2>2. CASE identity[j] = i
    <3>1. i # None /\ i \notin storing'[j] \cup stored'[j]
      BY <1>1, <1>2, <1>3, IdentityAssumption DEF Moving
    <3>2. QED
      BY <1>1, <2>2, <3>1 DEF Comes, Lost
  <2>3. CASE identity[j] # i
    BY <1>1, <1>3, <2>1, <2>3 DEF Comes, Lost
  <2>4. QED
    BY <2>2, <2>3
<1>6. Alive(j) /\ result[j] = "none" => Leads(j)'
  BY <1>1, <1>2, <1>3 DEF Moving, Leads
<1>7. Moving(j)'
  BY <1>1, <1>2, <1>3, <1>5, <1>6 DEF Moving, Alive
<1>8. ASSUME NEW k \in Job, k # j PROVE Moving(k)'
  BY <1>1, <1>3, <1>8, MovingKept DEF NInv
<1>9. QED
  BY <1>4, <1>7, <1>8 DEF KeepMoving

LEMMA NextMoves == NInv /\ [Next]_vars => NInv'
<1> SUFFICES ASSUME NInv, [Next]_vars PROVE NInv'
  OBVIOUS
<1>1. IInv'
  BY NextInv DEF NInv
<1>2. ASSUME NEW j \in Job, DialogEnds(j) PROVE KeepMoving
  BY <1>2, PluginFinishedMoves, PluginErrorMoves, StartAuthSessionMoves DEF DialogEnds
<1>3. ASSUME NEW j \in Job, NEW i \in Identity, SignondAnswers(j, i) PROVE KeepMoving
  BY <1>3, CredentialsStoredMoves, StoreFailedMoves, SessionResponseMoves,
     SessionErrorMoves, InfoMoves DEF SignondAnswers
<1>4. ASSUME UNCHANGED vars PROVE KeepMoving
  <2>1. UNCHANGED <<dialogs, jobs, done, error, result, identity, storing, stored, queried,
                    sessions, syncs>>
    BY <1>4 DEF vars, jobVars, signonVars
  <2>2. DialogsFresh'
    BY <2>1, FreshKept DEF NInv
  <2>3. QED
    BY <2>1, <2>2, MovingKept DEF KeepMoving, NInv
<1>5. KeepMoving
  BY <1>2, <1>3, <1>4, ProcessSessionMoves, SyncedMoves, DeletedMoves DEF Next
<1>6. QED
  BY <1>1, <1>5 DEF NInv, KeepMoving

LEMMA InitMoves == Init => NInv
<1> SUFFICES ASSUME Init PROVE NInv
  OBVIOUS
<1>1. DialogsFresh /\ \A j \in Job : Moving(j)
  BY DEF Init, DialogsFresh, Fresh, Moving, Alive
<1>2. QED
  BY <1>1, InitInv DEF NInv

(* Whatever plugins jobs share, none is ever stuck: while a job has no result its *)
(* dialog is open or something it hears of is still to come, unless signond has   *)
(* failed to store its credentials (createaccountjob.cpp:142-265).                *)
THEOREM JobsNeverStuck == Spec => []NeverStuck
BY InitMoves, NextMoves, MovingImplies, PTL DEF Spec
====================================================================================
