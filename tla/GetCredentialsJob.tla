---------------------------- MODULE GetCredentialsJob ----------------------------
(* Fetching the credentials of an account (src/src/lib/getcredentialsjob.cpp).     *)
(* A job looks for the account in a later turn of the event loop, tries again       *)
(* three times when it does not find it, and then processes an auth session.  The   *)
(* method, the mechanism and the data of the session are left out.  Any number of   *)
(* jobs runs at a time; jobs with the same request are told apart by nothing.       *)
EXTENDS Naturals

CONSTANT Request   \* whom a job is for

VARIABLES
    waiting,       \* waiting[<<r, tries>>]: jobs of r that are to look for the account
    sessions       \* sessions[r]: jobs of r whose auth session is being processed

vars == <<waiting, sessions>>

(* The values of repeatedTries. *)
MaxTries == 3
Tries == 0..MaxTries

TypeOK ==
    /\ waiting \in [Request \X Tries -> Nat]
    /\ sessions \in [Request -> Nat]

Init ==
    /\ waiting = [w \in Request \X Tries |-> 0]
    /\ sessions = [r \in Request |-> 0]

(* No job of r is still to be answered. *)
Idle(r) == sessions[r] = 0 /\ \A tries \in Tries : waiting[<<r, tries>>] = 0

(* n jobs for each of Rs: start() only queues getCredentials. *)
start(Rs, n) ==
    /\ waiting' = [w \in Request \X Tries |->
                      waiting[w] + IF w[1] \in Rs /\ w[2] = 0 THEN n ELSE 0]
    /\ UNCHANGED sessions

(* Mutant of getCredentials: does not ask whether the account was found. *)
getCredentialsUnasked(r, tries, found, complete) ==
    /\ waiting[<<r, tries>>] > 0
    /\ waiting' = [waiting EXCEPT ![<<r, tries>>] = @ - 1]
    /\ sessions' = IF complete THEN [sessions EXCEPT ![r] = @ + 1] ELSE sessions

(* Mutant of getCredentials: repeatedTries is not counted. *)
getCredentialsUncounted(r, tries, found, complete) ==
    /\ waiting[<<r, tries>>] > 0
    /\ \/ /\ ~found
          /\ UNCHANGED vars
       \/ /\ found /\ complete
          /\ waiting' = [waiting EXCEPT ![<<r, tries>>] = @ - 1]
          /\ sessions' = [sessions EXCEPT ![r] = @ + 1]

(* getCredentials with repeatedTries = tries.  found: Manager::account() has the    *)
(* account; complete: it has an identity, and the identity makes a session.         *)
getCredentials(r, tries, found, complete) ==
    /\ waiting[<<r, tries>>] > 0
    /\ \/ /\ ~found /\ tries < MaxTries    \* again in two seconds
          /\ waiting' = [waiting EXCEPT ![<<r, tries>>] = @ - 1, ![<<r, tries + 1>>] = @ + 1]
          /\ UNCHANGED sessions
       \/ /\ IF found THEN ~complete ELSE tries = MaxTries    \* the job ends with an error
          /\ waiting' = [waiting EXCEPT ![<<r, tries>>] = @ - 1]
          /\ UNCHANGED sessions
       \/ /\ found /\ complete
          /\ waiting' = [waiting EXCEPT ![<<r, tries>>] = @ - 1]
          /\ sessions' = [sessions EXCEPT ![r] = @ + 1]

(* The session ends, with the credentials or with an error; so does the job.        *)
Answered(r) ==
    /\ sessions[r] > 0
    /\ sessions' = [sessions EXCEPT ![r] = @ - 1]
    /\ UNCHANGED waiting
================================================================================
