---------------------------- MODULE CircuitBreaker ----------------------------
(***************************************************************************)
(* The per-node circuit breaker of the gateway                             *)
(* (pkg/gateway/circuit_breaker.go).                                       *)
(*                                                                         *)
(* A CircuitBreaker keeps, for every node name, a count of failures, the   *)
(* time of the last one and a state.  Every method holds cb.mu for its     *)
(* whole body, so one method call is one step here; the metrics callback   *)
(* runs inside it.                                                         *)
(*                                                                         *)
(* Two abstractions.  Time: the code only asks whether more than           *)
(* resetTimeout has passed since lastFailure, so sinceFailure holds the    *)
(* time since then and stops at ResetTimeout + 1, which stands for         *)
(* "longer than that" and for the zero time of a node that never failed.   *)
(* Failures: the count is only compared with the threshold, so it stops    *)
(* at FailureCap >= Threshold.                                             *)
(***************************************************************************)
EXTENDS Integers

CONSTANTS
  Nodes,         \* the node names the breaker is asked about
  Threshold,     \* CircuitBreakerConfig.Threshold
  ResetTimeout,  \* CircuitBreakerConfig.ResetTimeout, in ticks of the clock
  FailureCap     \* bound of the model: the failure counter stays at this value

(* DefaultCircuitBreakerConfig gives 3 and 30s; no caller of the repository
   builds a breaker with a threshold of zero. *)
ASSUME BreakerAssumption ==
  /\ Threshold \in Nat \ {0}
  /\ ResetTimeout \in Nat
  /\ FailureCap \in Nat
  /\ FailureCap >= Threshold

Closed   == "closed"
Open     == "open"
HalfOpen == "half-open"
CircuitStates == {Closed, Open, HalfOpen}

\* A Prometheus gauge has no sample for a node before the first Set.
Absent == "absent"

VARIABLES
  failures,      \* cb.failures; an absent key reads as 0
  sinceFailure,  \* time.Since(cb.lastFailure[n]), stopping at ResetTimeout + 1
  state,         \* cb.state; an absent key reads as CircuitClosed
  circuitGauge,  \* metrics.CircuitBreakerState
  healthGauge    \* metrics.NodeHealth

breakerVars == <<failures, sinceFailure, state, circuitGauge, healthGauge>>

LongAgo == ResetTimeout + 1

BreakerTypeOK ==
  /\ failures \in [Nodes -> 0..FailureCap]
  /\ sinceFailure \in [Nodes -> 0..LongAgo]
  /\ state \in [Nodes -> CircuitStates]
  /\ circuitGauge \in [Nodes -> CircuitStates \cup {Absent}]
  /\ healthGauge \in [Nodes -> {"healthy", "unhealthy", Absent}]

BreakerInit ==
  /\ failures = [n \in Nodes |-> 0]
  /\ sinceFailure = [n \in Nodes |-> LongAgo]
  /\ state = [n \in Nodes |-> Closed]
  /\ circuitGauge = [n \in Nodes |-> Absent]
  /\ healthGauge = [n \in Nodes |-> Absent]

(***************************************************************************)
(* The metrics callback NewRouter installs: both gauges of the node.       *)
(***************************************************************************)
NotifyStateChange(n, s, healthy) ==
  /\ circuitGauge' = [circuitGauge EXCEPT ![n] = s]
  /\ healthGauge' = [healthGauge EXCEPT ![n] =
                       IF healthy THEN "healthy" ELSE "unhealthy"]

\* The reset timeout of an open circuit has passed (strictly).
ResetDue(n) == state[n] = Open /\ sinceFailure[n] > ResetTimeout

\* What Allow(n) returns.
Admits(n) == state[n] # Open \/ ResetDue(n)

\* Mutant of Allow: the circuit turns half-open without telling the metrics.
AllowSilently(n) ==
  /\ state' = IF ResetDue(n) THEN [state EXCEPT ![n] = HalfOpen] ELSE state
  /\ UNCHANGED <<failures, sinceFailure, circuitGauge, healthGauge>>

\* Mutant of Allow: a refused request restarts the wait for the reset timeout.
AllowRestartsWait(n) ==
  /\ \/ /\ ResetDue(n)
        /\ state' = [state EXCEPT ![n] = HalfOpen]
        /\ NotifyStateChange(n, HalfOpen, FALSE)
        /\ UNCHANGED sinceFailure
     \/ /\ ~ ResetDue(n)
        /\ sinceFailure' = [sinceFailure EXCEPT ![n] = IF state[n] = Open THEN 0 ELSE @]
        /\ UNCHANGED <<state, circuitGauge, healthGauge>>
  /\ UNCHANGED failures

(***************************************************************************)
(* Allow(n), whose result is Admits(n).  Only an open circuit whose reset  *)
(* timeout has passed changes; a half-open circuit admits every caller.    *)
(***************************************************************************)
Allow(n) ==
  /\ \/ /\ ResetDue(n)
        /\ state' = [state EXCEPT ![n] = HalfOpen]
        /\ NotifyStateChange(n, HalfOpen, FALSE)
     \/ /\ ~ ResetDue(n)
        /\ UNCHANGED <<state, circuitGauge, healthGauge>>
  /\ UNCHANGED <<failures, sinceFailure>>

\* Mutant of RecordSuccess: the success forgives one failure instead of all.
RecordSuccessForgivesOne(n) ==
  /\ failures' = [failures EXCEPT ![n] = @ - 1]
  /\ state' = [state EXCEPT ![n] = Closed]
  /\ NotifyStateChange(n, Closed, TRUE)
  /\ UNCHANGED sinceFailure

RecordSuccess(n) ==
  /\ failures' = [failures EXCEPT ![n] = 0]
  /\ state' = [state EXCEPT ![n] = Closed]
  /\ NotifyStateChange(n, Closed, TRUE)
  /\ UNCHANGED sinceFailure

\* cb.failures[n]++ up to the bound of the model.
OneMore(k) == IF k < FailureCap THEN k + 1 ELSE k

\* Mutant of RecordFailure: the comparison with the threshold is strict.
RecordFailureStrictly(n) ==
  /\ failures' = [failures EXCEPT ![n] = OneMore(@)]
  /\ sinceFailure' = [sinceFailure EXCEPT ![n] = 0]
  /\ \/ /\ failures'[n] > Threshold
        /\ state' = [state EXCEPT ![n] = Open]
        /\ NotifyStateChange(n, Open, FALSE)
     \/ /\ failures'[n] <= Threshold
        /\ UNCHANGED <<state, circuitGauge, healthGauge>>

\* Mutant of RecordFailure: only a closed circuit is opened.
RecordFailureWhenClosed(n) ==
  /\ failures' = [failures EXCEPT ![n] = OneMore(@)]
  /\ sinceFailure' = [sinceFailure EXCEPT ![n] = 0]
  /\ \/ /\ failures'[n] >= Threshold /\ state[n] = Closed
        /\ state' = [state EXCEPT ![n] = Open]
        /\ NotifyStateChange(n, Open, FALSE)
     \/ /\ ~ (failures'[n] >= Threshold /\ state[n] = Closed)
        /\ UNCHANGED <<state, circuitGauge, healthGauge>>

RecordFailure(n) ==
  /\ failures' = [failures EXCEPT ![n] = OneMore(@)]
  /\ sinceFailure' = [sinceFailure EXCEPT ![n] = 0]
  /\ \/ /\ failures'[n] >= Threshold
        /\ state' = [state EXCEPT ![n] = Open]
        /\ NotifyStateChange(n, Open, FALSE)
     \/ /\ failures'[n] < Threshold
        /\ UNCHANGED <<state, circuitGauge, healthGauge>>

(***************************************************************************)
(* Reset deletes the node's three entries and tells the metrics nothing.   *)
(***************************************************************************)
Reset(n) ==
  /\ failures' = [failures EXCEPT ![n] = 0]
  /\ sinceFailure' = [sinceFailure EXCEPT ![n] = LongAgo]
  /\ state' = [state EXCEPT ![n] = Closed]
  /\ UNCHANGED <<circuitGauge, healthGauge>>

\* One unit of time passes for every node.
Tick ==
  /\ \E n \in Nodes : sinceFailure[n] < LongAgo
  /\ sinceFailure' = [n \in Nodes |->
       IF sinceFailure[n] < LongAgo THEN sinceFailure[n] + 1 ELSE LongAgo]
  /\ UNCHANGED <<failures, state, circuitGauge, healthGauge>>

(***************************************************************************)
(* Any caller, any method, any order: the methods are exported and nothing *)
(* pairs a record with an allowed request.                                 *)
(***************************************************************************)
BreakerNext ==
  \/ \E n \in Nodes : Allow(n)
  \/ \E n \in Nodes : RecordSuccess(n)
  \/ \E n \in Nodes : RecordFailure(n)
  \/ \E n \in Nodes : Reset(n)
  \/ Tick

BreakerSpec == BreakerInit /\ [][BreakerNext]_breakerVars

-------------------------------------------------------------------------------
(***************************************************************************)
(* The two fields that decide admission never drift apart: a circuit is    *)
(* closed exactly while its failures are below the threshold.  No method   *)
(* tests it; it is what makes a half-open circuit reopen on one failure    *)
(* and a closed one need Threshold of them.                                *)
(***************************************************************************)
ClosedIffBelowThreshold ==
  \A n \in Nodes : state[n] = Closed <=> failures[n] < Threshold

(***************************************************************************)
(* A circuit that is not closed is on the gauges: whoever watches          *)
(* mcp_circuit_breaker_state and mcp_node_health sees it tripped, also     *)
(* after Reset, which updates neither.                                     *)
(***************************************************************************)
TrippedCircuitIsVisible ==
  \A n \in Nodes : state[n] # Closed =>
    circuitGauge[n] = state[n] /\ healthGauge[n] = "unhealthy"

(***************************************************************************)
(* One failure of a test request reopens the circuit, whatever Threshold   *)
(* is: RecordFailure looks at the count alone, never at the state.         *)
(***************************************************************************)
ProbeFailureReopens ==
  [][\A n \in Nodes :
       RecordFailure(n) /\ state[n] = HalfOpen => state'[n] = Open]_breakerVars
===============================================================================
