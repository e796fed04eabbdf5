------------------------ MODULE CircuitBreakerProofs ------------------------
(***************************************************************************)
(* Theorems about CircuitBreaker, for any number of writes, threshold and    *)
(* cooldown.                                                                *)
(***************************************************************************)
EXTENDS CircuitBreaker, TLAPS

(* The counter is exact while the breaker is closed and has reached the       *)
(* threshold otherwise; half open always means that a trial was let through. *)
Counting ==
    /\ state = "closed" => failures = failedSince /\ failures < Threshold
    /\ state # "closed" => failures >= Threshold /\ failedSince = Threshold
    /\ state = "half_open" => halfOpenTrial

IInv == TypeOK /\ Counting

(* TypeOK without the Boolean.                                               *)
Numbers ==
    /\ state \in {"closed", "open", "half_open"}
    /\ failures \in Nat
    /\ openedAt \in 0..MaxTime
    /\ clock \in 0..MaxTime
    /\ running \subseteq Writes
    /\ trial \subseteq running
    /\ failedSince \in 0..Threshold

(* The type invariant, split into its numbers and its one Boolean.          *)
LEMMA TypeParts == TypeOK <=> Numbers /\ halfOpenTrial \in BOOLEAN
  BY DEF TypeOK, Numbers

(* A new breaker satisfies the invariant.                                   *)
LEMMA InvInit == Init => IInv
  <1> SUFFICES ASSUME Init PROVE IInv
    OBVIOUS
  <1>1. Numbers
    BY BreakerAssumption DEF Init, Numbers
  <1>2. halfOpenTrial \in BOOLEAN
    BY DEF Init
  <1>3. Counting
    BY BreakerAssumption DEF Init, Counting
  <1> QED BY <1>1, <1>2, <1>3, TypeParts DEF IInv

(* Every method call and every tick of the clock preserves the invariant.   *)
LEMMA InvStep == IInv /\ [Next]_vars => IInv'
  <1> SUFFICES ASSUME IInv, [Next]_vars PROVE IInv'
    OBVIOUS
  <1> USE BreakerAssumption DEF IInv, TypeOK, Counting
  <1>1. CASE Tick
    BY <1>1 DEF Tick, breakerVars
  <1>2. ASSUME NEW w \in Writes, Admit(w) PROVE IInv'
    BY <1>2 DEF Admit, Refuses
  <1>3. ASSUME NEW w \in Writes, Succeed(w) PROVE IInv'
    <2>1. Numbers'
      BY <1>3 DEF Succeed, Leave, RecordSuccess, Numbers
    <2>2. (halfOpenTrial \in BOOLEAN)'
      BY <1>3 DEF Succeed, RecordSuccess
    <2>3. Counting'
      BY <1>3 DEF Succeed, Leave, RecordSuccess
    <2> QED BY <2>1, <2>2, <2>3 DEF Numbers
  <1>4. ASSUME NEW w \in Writes, Fail(w) PROVE IInv'
    <2>1. Numbers'
      BY <1>4 DEF Fail, Leave, RecordFailure, Numbers
    <2>2. (halfOpenTrial \in BOOLEAN)'
      BY <1>4 DEF Fail, RecordFailure
    <2>3. Counting'
      BY <1>4 DEF Fail, Leave, RecordFailure
    <2> QED BY <2>1, <2>2, <2>3 DEF Numbers
  <1>5. ASSUME NEW w \in Writes, EndInBusinessError(w) PROVE IInv'
    BY <1>5 DEF EndInBusinessError, Leave, breakerVars
  <1>6. CASE UNCHANGED vars
    BY <1>6 DEF vars, breakerVars
  <1> QED BY <1>1, <1>2, <1>3, <1>4, <1>5, <1>6 DEF Next, Reject

(* The inductive invariant holds of every reachable breaker.                *)
THEOREM InvHolds == Spec => []IInv
  BY InvInit, InvStep, PTL DEF Spec

(* The breaker's fields keep their types, the count included, though an open   *)
(* breaker counts on for as long as late failures arrive (circuitbreaker.go,    *)
(* RecordFailure).                                                            *)
THEOREM BreakerTypes == Spec => []TypeOK
  <1>1. IInv => TypeOK
    BY DEF IInv
  <1> QED BY <1>1, InvHolds, PTL

(* A refusal follows Threshold reported failures in a row.                   *)
THEOREM RefusalsCorrect == Spec => []RefusesOnlyAfterFailures
  <1>1. IInv => RefusesOnlyAfterFailures
    BY DEF IInv, Counting, RefusesOnlyAfterFailures, Refuses
  <1> QED BY <1>1, InvHolds, PTL

(* A half-open breaker lets no second write through.                         *)
THEOREM SingleTrialCorrect == Spec => SingleTrial
  <1>1. IInv /\ [Next]_vars => [state = "half_open" => running' \subseteq running]_vars
    <2> SUFFICES ASSUME IInv, Next, state = "half_open"
                 PROVE  running' \subseteq running
      BY DEF vars
    <2>1. Refuses
      BY DEF IInv, Counting, Refuses
    <2> QED BY <2>1 DEF Next, Tick, Admit, Reject, Succeed, Fail, EndInBusinessError,
               Leave, vars
  <1> QED BY <1>1, InvHolds, PTL DEF Spec, SingleTrial
=============================================================================
