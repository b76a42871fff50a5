----------------------------- MODULE AccountCreation -----------------------------
(* What CreateAccountJob promises to whoever starts it, whatever happens between    *)
(* the job, the dialog, signond and the database: until the user has authenticated  *)
(* the job may fail, which is final; from then on it can only succeed; the account  *)
(* is enabled in the step that announces success and not before; and a failed job   *)
(* leaves at most a row that is not enabled.                                        *)

CONSTANT Job

VARIABLES
    stage,      \* how far each job has come
    row,        \* what the accounts database has of the job's account
    answer      \* what the job has announced

vars == <<stage, row, answer>>

Init ==
    /\ stage = [j \in Job |-> "new"]
    /\ row = [j \in Job |-> "absent"]
    /\ answer = [j \in Job |-> "none"]

(* Job j goes from stage s to stage t. *)
Goes(j, s, t) == stage[j] = s /\ stage' = [stage EXCEPT ![j] = t]

Start(j) ==
    /\ Goes(j, "new", "started")
    /\ UNCHANGED <<row, answer>>

(* There is no plugin to show a dialog with. *)
Refuse(j) ==
    /\ Goes(j, "new", "failed")
    /\ answer' = [answer EXCEPT ![j] = "error"]
    /\ UNCHANGED row

(* The account is entered into the database, for the auth session to use. *)
Register(j) ==
    /\ stage[j] = "started" /\ row[j] = "absent"
    /\ row' = [row EXCEPT ![j] = "disabled"]
    /\ UNCHANGED <<stage, answer>>

Authenticate(j) ==
    /\ Goes(j, "started", "authenticated")
    /\ UNCHANGED <<row, answer>>

Fail(j) ==
    /\ Goes(j, "started", "failed")
    /\ answer' = [answer EXCEPT ![j] = "error"]
    /\ UNCHANGED row

Create(j) ==
    /\ Goes(j, "authenticated", "created")
    /\ row' = [row EXCEPT ![j] = "enabled"]
    /\ answer' = [answer EXCEPT ![j] = "success"]

Next ==
    \E j \in Job :
       Start(j) \/ Refuse(j) \/ Register(j) \/ Authenticate(j) \/ Fail(j) \/ Create(j)

Spec == Init /\ [][Next]_vars
================================================================================
