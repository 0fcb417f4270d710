------------------------- MODULE CircuitBreakerProofs -------------------------
(***************************************************************************)
(* The breaker's invariants for every set of nodes, threshold, timeout and *)
(* every order of calls.  The lemmas about single methods are stated for   *)
(* one step, so that NodeRouterProofs can cite them for its own steps.     *)
(***************************************************************************)
EXTENDS CircuitBreaker, TLAPS

\* The three parts of the inductive invariant.
BreakerInv ==
  /\ BreakerTypeOK
  /\ ClosedIffBelowThreshold
  /\ TrippedCircuitIsVisible

(* Counting stays within the counter's range, and counting from below the
   threshold is the only way to reach it. *)
LEMMA OneMoreRange ==
  ASSUME NEW k \in 0..FailureCap
  PROVE  /\ OneMore(k) \in 0..FailureCap
         /\ k >= Threshold => OneMore(k) >= Threshold
  BY BreakerAssumption DEF OneMore

(* A fresh breaker satisfies the invariant. *)
LEMMA BreakerInitInv == BreakerInit => BreakerInv
  BY BreakerAssumption
  DEF BreakerInit, BreakerInv, BreakerTypeOK, ClosedIffBelowThreshold,
      TrippedCircuitIsVisible, LongAgo, CircuitStates, Closed, Open, HalfOpen,
      Absent

(* Allow keeps the invariant: a circuit it turns half-open was open, so it is
   at its threshold already. *)
LEMMA AllowInv ==
  ASSUME NEW n \in Nodes, BreakerInv, Allow(n)
  PROVE  BreakerInv'
  <1> USE DEF BreakerInv, BreakerTypeOK, CircuitStates
  <1>1. CASE ResetDue(n)
    <2>1. /\ state[n] = Open
          /\ state' = [state EXCEPT ![n] = HalfOpen]
          /\ circuitGauge' = [circuitGauge EXCEPT ![n] = HalfOpen]
          /\ healthGauge' = [healthGauge EXCEPT ![n] = "unhealthy"]
          /\ UNCHANGED <<failures, sinceFailure>>
      BY <1>1 DEF Allow, ResetDue, NotifyStateChange
    <2>2. BreakerTypeOK'
      BY <2>1
    <2>3. ClosedIffBelowThreshold'
      BY <2>1 DEF ClosedIffBelowThreshold, Closed, Open, HalfOpen
    <2>4. TrippedCircuitIsVisible'
      BY <2>1 DEF TrippedCircuitIsVisible, Closed, Open, HalfOpen
    <2>5. QED  BY <2>2, <2>3, <2>4
  <1>2. CASE ~ ResetDue(n)
    BY <1>2 DEF Allow, ClosedIffBelowThreshold, TrippedCircuitIsVisible
  <1>3. QED  BY <1>1, <1>2

(* RecordSuccess keeps the invariant: count and state are reset together. *)
LEMMA RecordSuccessInv ==
  ASSUME NEW n \in Nodes, BreakerInv, RecordSuccess(n)
  PROVE  BreakerInv'
  <1> USE BreakerAssumption DEF BreakerInv, BreakerTypeOK, CircuitStates
  <1>1. /\ failures' = [failures EXCEPT ![n] = 0]
        /\ state' = [state EXCEPT ![n] = Closed]
        /\ circuitGauge' = [circuitGauge EXCEPT ![n] = Closed]
        /\ healthGauge' = [healthGauge EXCEPT ![n] = "healthy"]
        /\ UNCHANGED sinceFailure
    BY DEF RecordSuccess, NotifyStateChange
  <1>2. BreakerTypeOK'
    BY <1>1
  <1>3. ClosedIffBelowThreshold'
    BY <1>1 DEF ClosedIffBelowThreshold
  <1>4. TrippedCircuitIsVisible'
    BY <1>1 DEF TrippedCircuitIsVisible
  <1>5. QED  BY <1>2, <1>3, <1>4

(* RecordFailure keeps the invariant: the comparison that opens the circuit
   is the one the invariant is about. *)
LEMMA RecordFailureInv ==
  ASSUME NEW n \in Nodes, BreakerInv, RecordFailure(n)
  PROVE  BreakerInv'
  <1> USE BreakerAssumption DEF BreakerInv, BreakerTypeOK, CircuitStates
  <1>1. /\ failures' = [failures EXCEPT ![n] = OneMore(failures[n])]
        /\ failures'[n] = OneMore(failures[n])
        /\ sinceFailure' = [sinceFailure EXCEPT ![n] = 0]
    BY DEF RecordFailure
  <1>2. /\ failures'[n] \in 0..FailureCap
        /\ failures[n] >= Threshold => failures'[n] >= Threshold
    BY <1>1, OneMoreRange
  <1>3. /\ failures' \in [Nodes -> 0..FailureCap]
        /\ sinceFailure' \in [Nodes -> 0..LongAgo]
    BY <1>1, <1>2 DEF LongAgo
  <1>4. CASE failures'[n] >= Threshold
    <2>1. /\ state' = [state EXCEPT ![n] = Open]
          /\ circuitGauge' = [circuitGauge EXCEPT ![n] = Open]
          /\ healthGauge' = [healthGauge EXCEPT ![n] = "unhealthy"]
      BY <1>2, <1>4 DEF RecordFailure, NotifyStateChange
    <2>2. BreakerTypeOK'
      BY <1>3, <2>1
    <2>3. ClosedIffBelowThreshold'
      BY <1>1, <1>2, <1>4, <2>1 DEF ClosedIffBelowThreshold, Closed, Open
    <2>4. TrippedCircuitIsVisible'
      BY <2>1 DEF TrippedCircuitIsVisible
    <2>5. QED  BY <2>2, <2>3, <2>4
  <1>5. CASE failures'[n] < Threshold
    <2>0. ~ (failures'[n] >= Threshold)
      BY <1>2, <1>5
    <2>1. UNCHANGED <<state, circuitGauge, healthGauge>>
      BY <2>0 DEF RecordFailure, NotifyStateChange
    <2>2. failures[n] < Threshold
      BY <1>2, <1>5
    <2>3. ClosedIffBelowThreshold'
      BY <1>1, <1>5, <2>1, <2>2 DEF ClosedIffBelowThreshold
    <2>4. QED  BY <1>3, <2>1, <2>3 DEF TrippedCircuitIsVisible
  <1>6. QED  BY <1>2, <1>4, <1>5

(* Reset keeps the invariant; the gauges it leaves behind show a circuit as
   tripped that is closed, never the other way round. *)
LEMMA ResetInv ==
  ASSUME NEW n \in Nodes, BreakerInv, Reset(n)
  PROVE  BreakerInv'
  BY BreakerAssumption
  DEF Reset, BreakerInv, BreakerTypeOK, ClosedIffBelowThreshold,
      TrippedCircuitIsVisible, CircuitStates, LongAgo

(* Time alone changes no circuit. *)
LEMMA TickInv ==
  ASSUME BreakerInv, Tick
  PROVE  BreakerInv'
  BY BreakerAssumption
  DEF Tick, BreakerInv, BreakerTypeOK, ClosedIffBelowThreshold,
      TrippedCircuitIsVisible, LongAgo

(* No step of any caller leaves the invariant. *)
LEMMA BreakerStepInv == BreakerInv /\ [BreakerNext]_breakerVars => BreakerInv'
  <1> SUFFICES ASSUME BreakerInv, [BreakerNext]_breakerVars
               PROVE  BreakerInv'
    OBVIOUS
  <1>1. CASE \E n \in Nodes : Allow(n)          BY <1>1, AllowInv
  <1>2. CASE \E n \in Nodes : RecordSuccess(n)  BY <1>2, RecordSuccessInv
  <1>3. CASE \E n \in Nodes : RecordFailure(n)  BY <1>3, RecordFailureInv
  <1>4. CASE \E n \in Nodes : Reset(n)          BY <1>4, ResetInv
  <1>5. CASE Tick                               BY <1>5, TickInv
  <1>6. CASE UNCHANGED breakerVars
    BY <1>6 DEF breakerVars, BreakerInv, BreakerTypeOK, ClosedIffBelowThreshold,
                TrippedCircuitIsVisible
  <1>7. QED
    BY <1>1, <1>2, <1>3, <1>4, <1>5, <1>6 DEF BreakerNext

(* The invariant holds whoever calls the breaker in whatever order. *)
THEOREM BreakerInvariant == BreakerSpec => []BreakerInv
  BY BreakerInitInv, BreakerStepInv, PTL DEF BreakerSpec

(* A breaker's maps hold what the code can put there. *)
THEOREM BreakerTypeCorrect == BreakerSpec => []BreakerTypeOK
  BY BreakerInvariant, PTL DEF BreakerInv

(* circuit_breaker.go: a circuit is closed exactly while its failures are
   below the threshold. *)
THEOREM BreakerConsistent == BreakerSpec => []ClosedIffBelowThreshold
  BY BreakerInvariant, PTL DEF BreakerInv

(* circuit_breaker.go with NewRouter's callback: a tripped circuit is always
   on the gauges. *)
THEOREM BreakerVisible == BreakerSpec => []TrippedCircuitIsVisible
  BY BreakerInvariant, PTL DEF BreakerInv

(* circuit_breaker.go: a failed test request reopens the circuit, because the
   failures of a half-open circuit are at the threshold. *)
THEOREM BreakerReopens == BreakerSpec => ProbeFailureReopens
  <1>1. BreakerInv => [\A n \in Nodes : RecordFailure(n) /\ state[n] = HalfOpen
                          => state'[n] = Open]_breakerVars
    <2> SUFFICES ASSUME BreakerInv, NEW n \in Nodes,
                        RecordFailure(n), state[n] = HalfOpen
                 PROVE  state'[n] = Open
      OBVIOUS
    <2> USE DEF BreakerInv, BreakerTypeOK
    <2>1. /\ failures[n] \in 0..FailureCap
          /\ failures[n] >= Threshold
      BY BreakerAssumption DEF ClosedIffBelowThreshold, HalfOpen, Closed
    <2>2. failures'[n] = OneMore(failures[n])
      BY DEF RecordFailure
    <2>3. failures'[n] >= Threshold /\ ~ (failures'[n] < Threshold)
      BY <2>1, <2>2, OneMoreRange, BreakerAssumption
    <2>4. QED
      BY <2>3 DEF RecordFailure
  <1>2. QED
    BY <1>1, BreakerInvariant, PTL DEF ProbeFailureReopens
===============================================================================
