------------------------------ MODULE Erasure ------------------------------
(***************************************************************************)
(* Account erasure (backend/internal/erasure) and the consent log             *)
(* (backend/internal/consent).                                               *)
(*                                                                         *)
(* A request inserts an erasure_jobs row; workers of any instance claim rows   *)
(* and run the ordered steps, each in its own store, recording a step after   *)
(* it has run.  A step may fail (the job is retried later) and a worker may   *)
(* stop at any point.  What a step deletes is kept as the set of kinds of      *)
(* data that existed when the job was requested and still do: rows written     *)
(* later are no part of the promise.  Sessions are those of SignIn.           *)
(***************************************************************************)
EXTENDS SignIn, Sequences

CONSTANTS
    Jobs,           \* erasure_jobs.id, numbered in the order of requested_at
    Workers,        \* goroutines of the worker pools; each revokes for itself
    MaxFailures,    \* bound on steps that return an error
    MaxCrashes      \* bound on workers that stop for good within a job

ASSUME ErasureAssumption ==
    /\ Jobs \subseteq Nat
    /\ Workers \subseteq Revokers
    /\ MaxFailures \in Nat /\ MaxCrashes \in Nat

VARIABLES
    job,            \* rows of erasure_jobs
    remains,        \* per job: kinds of data older than the request (history)
    oldSessions,    \* per job: sessions older than the request (history)
    worker,         \* the claimed job of each worker, its copy of CompletedSteps
    failures, crashes,
    consent,        \* the newest consent_events row of each user
    stopped,        \* location_tracking_disabled:{user}
    answered,       \* users whose withdrawal was answered 200 (history)
    withdrawing     \* users between the two writes of a withdrawal

jobVars == <<job, remains, oldSessions, worker, failures, crashes>>
consentVars == <<consent, stopped, answered, withdrawing>>
erasureVars == <<jobVars, consentVars>>

(* The two steps for the GPS stores of an earlier product do nothing.         *)
OrderedSteps == <<"postgres_cascade", "redis_cleanup", "object_storage",
                  "anonymize_user", "payments", "analytics_deletion_event">>
Kinds == {"postgres_cascade", "redis_cleanup", "object_storage", "anonymize_user",
          "payments"}
JobStatuses == {"none", "pending", "running", "partial_failure", "completed"}

ErasureTypeOK ==
    /\ job \in [Jobs -> [user : Users \cup {None}, status : JobStatuses,
                         steps : SUBSET (Kinds \cup {"analytics_deletion_event"})]]
    /\ remains \in [Jobs -> SUBSET Kinds]
    /\ oldSessions \in [Jobs -> SUBSET Calls]
    /\ worker \in [Workers -> [job : Jobs, at : {"run", "revoke", "mark"},
                       steps : SUBSET (Kinds \cup {"analytics_deletion_event"})]
                              \cup {None}]
    /\ failures \in 0..MaxFailures /\ crashes \in 0..MaxCrashes
    /\ consent \in [Users -> {"none", "granted", "withdrawn"}]
    /\ stopped \in [Users -> BOOLEAN]
    /\ answered \subseteq Users /\ withdrawing \subseteq Users

ErasureInit ==
    /\ job = [j \in Jobs |-> [user |-> None, status |-> "none", steps |-> {}]]
    /\ remains = [j \in Jobs |-> {}]
    /\ oldSessions = [j \in Jobs |-> {}]
    /\ worker = [w \in Workers |-> None]
    /\ failures = 0 /\ crashes = 0
    /\ consent = [u \in Users |-> "none"]
    /\ stopped = [u \in Users |-> FALSE]
    /\ answered = {} /\ withdrawing = {}

-----------------------------------------------------------------------------
(* POST /v1/account/erasure-request: nothing stops a second job.              *)
Request(j, u) ==
    /\ RequireSession(u)
    /\ job[j].status = "none"
    /\ \A k \in Jobs : k < j => job[k].status # "none"
    /\ job' = [job EXCEPT ![j].user = u, ![j].status = "pending"]
    /\ remains' = [remains EXCEPT ![j] = Kinds]
    /\ oldSessions' = [oldSessions EXCEPT ![j] =
           {c \in Calls : session[c] # None /\ session[c].user = u}]
    /\ UNCHANGED <<worker, failures, crashes, consentVars, signInVars>>

Claimable(j) == job[j].status \in {"pending", "partial_failure"}

ClaimNext(w) ==
    /\ worker[w] = None
    /\ \E j \in Jobs :
         /\ Claimable(j)
         /\ \A k \in Jobs : k < j => ~Claimable(k)
         /\ job' = [job EXCEPT ![j].status = "running"]
         /\ worker' = [worker EXCEPT ![w] =
                [job |-> j, at |-> "run", steps |-> job[j].steps]]
    /\ UNCHANGED <<remains, oldSessions, failures, crashes, consentVars, signInVars>>

NextStep(w) ==
    OrderedSteps[CHOOSE n \in DOMAIN OrderedSteps :
        /\ OrderedSteps[n] \notin worker[w].steps
        /\ \A k \in 1..(n-1) : OrderedSteps[k] \in worker[w].steps]

Unfinished(w) == \E n \in DOMAIN OrderedSteps : OrderedSteps[n] \notin worker[w].steps

Running(w, step) == worker[w] # None /\ worker[w].at = "run" /\ Unfinished(w)
                                     /\ NextStep(w) = step

(* What a step removes is gone for every job of the user requested so far.    *)
Remove(u, kind) ==
    remains' = [j \in Jobs |-> IF job[j].user = u THEN remains[j] \ {kind} ELSE remains[j]]

WorkerGoes(w, at) == worker' = [worker EXCEPT ![w].at = at]
WorkerUser(w) == job[worker[w].job].user

(* DELETE FROM every table of the user's rows, in one transaction;             *)
(* social_identities is one of them.                                         *)
DeletePostgresCascade(w) ==
    /\ Running(w, "postgres_cascade")
    /\ Remove(WorkerUser(w), "postgres_cascade")
    /\ link' = [i \in Identities |-> IF link[i] = WorkerUser(w) THEN None ELSE link[i]]
    /\ WorkerGoes(w, "mark")
    /\ UNCHANGED <<job, oldSessions, failures, crashes, consentVars,
                   user, firstPhone, mergedBy, otpVars, sessionVars, mergeToken, call>>

(* cleanupRedis deletes the user's keys, stops location tracking and revokes   *)
(* the sessions, in two steps; the boards and the presence follow.            *)
StartRedisCleanup(w) ==
    /\ Running(w, "redis_cleanup")
    /\ ListTokens(w, WorkerUser(w))
    /\ stopped' = [stopped EXCEPT ![WorkerUser(w)] = TRUE]
    /\ WorkerGoes(w, "revoke")
    /\ UNCHANGED <<job, remains, oldSessions, failures, crashes, consent, answered,
                   withdrawing, accountVars, otpVars, mergeToken, call>>

FinishRedisCleanup(w) ==
    /\ worker[w] # None /\ worker[w].at = "revoke"
    /\ DeleteTokens(w)
    /\ Remove(WorkerUser(w), "redis_cleanup")
    /\ WorkerGoes(w, "mark")
    /\ UNCHANGED <<job, oldSessions, failures, crashes, consentVars, accountVars,
                   otpVars, mergeToken, call>>

(* users.phone, email and avatar_url become NULL, and the status 'erased'.     *)
AnonymizeUser(w) ==
    /\ Running(w, "anonymize_user")
    /\ Remove(WorkerUser(w), "anonymize_user")
    /\ user' = [user EXCEPT ![WorkerUser(w)] =
                   [status |-> "erased", phone |-> None, email |-> None]]
    /\ WorkerGoes(w, "mark")
    /\ UNCHANGED <<job, oldSessions, failures, crashes, consentVars, firstPhone, link,
                   mergedBy, otpVars, sessionVars, mergeToken, call>>

(* The avatar's blob, the payment intents, and the event for the warehouse.   *)
RunOtherStep(w) ==
    /\ \E step \in {"object_storage", "payments", "analytics_deletion_event"} :
           Running(w, step) /\ Remove(WorkerUser(w), step)
    /\ WorkerGoes(w, "mark")
    /\ UNCHANGED <<job, oldSessions, failures, crashes, consentVars, signInVars>>

(* Mutant: a step is marked before it has run, so a failed one is skipped.    *)
FailStep_Marked(w) ==
    /\ worker[w] # None /\ Unfinished(w)
    /\ failures < MaxFailures
    /\ failures' = failures + 1
    /\ job' = [job EXCEPT ![worker[w].job].status = "partial_failure",
                          ![worker[w].job].steps = @ \cup {NextStep(w)}]
    /\ worker' = [worker EXCEPT ![w] = None]
    /\ revoking' = [revoking EXCEPT ![w] = None]
    /\ UNCHANGED <<remains, oldSessions, crashes, consentVars, accountVars, otpVars,
                   session, mergeToken, call>>

(* A step that returns an error, or cannot be marked, leaves the job for a     *)
(* later claim.                                                               *)
FailStep(w) ==
    /\ worker[w] # None /\ Unfinished(w)
    /\ failures < MaxFailures
    /\ failures' = failures + 1
    /\ job' = [job EXCEPT ![worker[w].job].status = "partial_failure"]
    /\ worker' = [worker EXCEPT ![w] = None]
    /\ revoking' = [revoking EXCEPT ![w] = None]
    /\ UNCHANGED <<remains, oldSessions, crashes, consentVars, accountVars, otpVars,
                   session, mergeToken, call>>

MarkStepDone(w) ==
    /\ worker[w] # None /\ worker[w].at = "mark"
    /\ job' = [job EXCEPT ![worker[w].job].steps = @ \cup {NextStep(w)}]
    /\ worker' = [worker EXCEPT ![w].steps = @ \cup {NextStep(w)}, ![w].at = "run"]
    /\ UNCHANGED <<remains, oldSessions, failures, crashes, consentVars, signInVars>>

MarkCompleted(w) ==
    /\ worker[w] # None /\ worker[w].at = "run" /\ ~Unfinished(w)
    /\ job' = [job EXCEPT ![worker[w].job].status = "completed"]
    /\ worker' = [worker EXCEPT ![w] = None]
    /\ UNCHANGED <<remains, oldSessions, failures, crashes, consentVars, signInVars>>

(* The process stops, or the last UPDATE fails: the row stays 'running', which *)
(* ClaimNext never takes.                                                     *)
Crash(w) ==
    /\ worker[w] # None
    /\ crashes < MaxCrashes
    /\ crashes' = crashes + 1
    /\ worker' = [worker EXCEPT ![w] = None]
    /\ revoking' = [revoking EXCEPT ![w] = None]
    /\ UNCHANGED <<job, remains, oldSessions, failures, consentVars, accountVars,
                   otpVars, session, mergeToken, call>>

-----------------------------------------------------------------------------
(* consent_events is append only; a grant may also carry granted = false.     *)
GrantConsent(u) ==
    /\ RequireSession(u)
    /\ consent' = [consent EXCEPT ![u] = "granted"]
    /\ UNCHANGED <<stopped, answered, withdrawing, jobVars, signInVars>>

Withdraw(u) ==
    /\ RequireSession(u)
    /\ u \notin withdrawing
    /\ consent' = [consent EXCEPT ![u] = "withdrawn"]
    /\ withdrawing' = withdrawing \cup {u}
    /\ UNCHANGED <<stopped, answered, jobVars, signInVars>>

(* The stop flag is set before the answer, or the answer is an error.         *)
StopTracking(u) ==
    /\ u \in withdrawing
    /\ withdrawing' = withdrawing \ {u}
    /\ \/ stopped' = [stopped EXCEPT ![u] = TRUE] /\ answered' = answered \cup {u}
       \/ UNCHANGED <<stopped, answered>>
    /\ UNCHANGED <<consent, jobVars, signInVars>>

WorkerNext ==
    \E w \in Workers :
        \/ ClaimNext(w) \/ DeletePostgresCascade(w) \/ StartRedisCleanup(w)
        \/ FinishRedisCleanup(w) \/ AnonymizeUser(w) \/ RunOtherStep(w)
        \/ FailStep(w) \/ MarkStepDone(w) \/ MarkCompleted(w) \/ Crash(w)

ErasureNext == WorkerNext \/ \E j \in Jobs, u \in Users : Request(j, u)

ConsentNext == \E u \in Users : GrantConsent(u) \/ Withdraw(u) \/ StopTracking(u)

-----------------------------------------------------------------------------
(* When a job is completed nothing that existed at its request is left in any *)
(* store, however often it failed, was retried or raced another job; only a    *)
(* session that an overlapping revocation dropped from the index survives     *)
(* (prompts/implementation-roadmap-and-prompts.md:98-104).                    *)
ErasureLeavesNothing ==
    \A j \in Jobs : job[j].status = "completed" =>
        /\ remains[j] = {}
        /\ \A c \in oldSessions[j] : session[c] # None => session[c].raced
=============================================================================
