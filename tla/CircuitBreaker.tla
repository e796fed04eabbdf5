--------------------------- MODULE CircuitBreaker ---------------------------
(***************************************************************************)
(* The write-path circuit breaker (backend/internal/db/circuitbreaker.go)    *)
(* and the way its callers use it: support spends, credit grants, derby     *)
(* administration and purchases all share one breaker (cmd/api/main.go).    *)
(*                                                                         *)
(* A write asks Allow, runs, and reports RecordSuccess or RecordFailure -    *)
(* or nothing at all, when it ended in a business error such as insufficient *)
(* credits.  Each method holds the breaker's mutex, so each is one action;   *)
(* reports of different writes arrive in any order.                         *)
(***************************************************************************)
EXTENDS Naturals

CONSTANTS
    Writes,     \* write requests
    Threshold,  \* DB_CIRCUIT_FAILURE_THRESHOLD
    Cooldown,   \* DB_CIRCUIT_COOLDOWN
    MaxTime     \* bound on the clock

ASSUME BreakerAssumption ==
    /\ Threshold \in Nat \ {0}
    /\ Cooldown \in Nat \ {0}
    /\ MaxTime \in Nat

VARIABLES
    state,          \* closed, open or half_open
    failures,       \* consecutive failures counted
    openedAt,       \* when it last opened
    halfOpenTrial,  \* a half-open trial is thought to be in flight
    clock,
    running,        \* the writes Allow let through that have not ended
    trial,          \* of those, the ones let through as half-open trials
    failedSince     \* failures reported since the last reported success, at
                    \* most Threshold (a history variable)

breakerVars == <<state, failures, openedAt, halfOpenTrial>>
vars == <<breakerVars, clock, running, trial, failedSince>>

TypeOK ==
    /\ state \in {"closed", "open", "half_open"}
    /\ failures \in Nat
    /\ openedAt \in 0..MaxTime
    /\ halfOpenTrial \in BOOLEAN
    /\ clock \in 0..MaxTime
    /\ running \subseteq Writes
    /\ trial \subseteq running
    /\ failedSince \in 0..Threshold

Init ==
    /\ state = "closed"
    /\ failures = 0
    /\ openedAt = 0
    /\ halfOpenTrial = FALSE
    /\ clock = 0
    /\ running = {}
    /\ trial = {}
    /\ failedSince = 0

-----------------------------------------------------------------------------
CooledDown == clock - openedAt >= Cooldown

(* Mutant: a half-open breaker does not look for a trial in flight.          *)
Refuses_NoTrialFlag == state = "open" /\ ~CooledDown

(* Allow returns ErrWritePathDegraded.                                       *)
Refuses ==
    \/ state = "open" /\ ~CooledDown
    \/ state = "half_open" /\ halfOpenTrial

(* Allow returns nil: the first one after the cooldown is the trial.         *)
Admit(w) ==
    /\ w \notin running
    /\ ~Refuses
    /\ running' = running \cup {w}
    /\ IF state = "closed"
       THEN UNCHANGED <<state, halfOpenTrial, trial>>
       ELSE /\ state' = "half_open"
            /\ halfOpenTrial' = TRUE
            /\ trial' = trial \cup {w}
    /\ UNCHANGED <<failures, openedAt, clock, failedSince>>

(* The caller answers 503 write_path_degraded.                               *)
Reject(w) == w \notin running /\ Refuses /\ UNCHANGED vars

(* Mutant: a trial that ended still counts as running.                      *)
Leave_KeepsTrial(w) ==
    /\ w \in running
    /\ running' = running \ {w}
    /\ UNCHANGED <<trial, clock>>

Leave(w) ==
    /\ w \in running
    /\ running' = running \ {w}
    /\ trial' = trial \ {w}
    /\ UNCHANGED clock

(* Mutant: a success does not clear the count.                               *)
RecordSuccess_KeepsCount ==
    /\ halfOpenTrial' = FALSE
    /\ state' = "closed"
    /\ failedSince' = 0
    /\ UNCHANGED <<failures, openedAt>>

(* A success closes the breaker, whatever its state.                         *)
RecordSuccess ==
    /\ failures' = 0
    /\ halfOpenTrial' = FALSE
    /\ state' = "closed"
    /\ failedSince' = 0
    /\ UNCHANGED openedAt

(* A half-open breaker opens again at once, a closed one at the threshold;   *)
(* an open one counts on and restarts its cooldown.                          *)
RecordFailure ==
    LET count == IF state = "half_open" THEN Threshold ELSE failures + 1
        opens == count >= Threshold
    IN
    /\ failures' = count
    /\ halfOpenTrial' = FALSE
    /\ state' = IF opens THEN "open" ELSE state
    /\ openedAt' = IF opens THEN clock ELSE openedAt
    /\ failedSince' = IF failedSince < Threshold THEN failedSince + 1 ELSE Threshold

Succeed(w) == Leave(w) /\ RecordSuccess

Fail(w) == Leave(w) /\ RecordFailure

(* The write ends in an error that is not the database's fault               *)
(* (isSupportBusinessErr, isIAPBusinessErr, ...): no report.                 *)
EndInBusinessError(w) == Leave(w) /\ UNCHANGED <<breakerVars, failedSince>>

Tick ==
    /\ clock < MaxTime
    /\ clock' = clock + 1
    /\ UNCHANGED <<breakerVars, running, trial, failedSince>>

Next ==
    \/ Tick
    \/ \E w \in Writes : Admit(w)
    \/ \E w \in Writes : Reject(w)
    \/ \E w \in Writes : Succeed(w)
    \/ \E w \in Writes : Fail(w)
    \/ \E w \in Writes : EndInBusinessError(w)

Spec == Init /\ [][Next]_vars

-----------------------------------------------------------------------------
(* Writes are refused only after Threshold failures with no success reported  *)
(* in between, whatever order the reports of concurrent writes arrive in      *)
(* ("trips after consecutive write failures").                               *)
RefusesOnlyAfterFailures == Refuses => failedSince = Threshold

(* While the breaker is half open no second write is let through: letting one *)
(* in means the breaker was closed or its cooldown had just run out ("then    *)
(* allows a single half-open trial").                                        *)
SingleTrial == [][state = "half_open" => running' \subseteq running]_vars

(* In the half-open state a write is refused only because a trial is in      *)
(* flight (circuitbreaker.go:87: "or when a half-open trial is already in     *)
(* flight").                                                                 *)
HalfOpenHasItsTrial == state = "half_open" => trial # {}
=============================================================================
