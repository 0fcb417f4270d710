------------------------------- MODULE AgentCall -------------------------------
(***************************************************************************)
(* The gateway's call of one agent: over HTTP with retries (AgentHTTPClient *)
(* of pkg/gateway/http_client.go), or as an exec in its pod with a timeout *)
(* (ExecInPod of pkg/k8s/client.go).                                       *)
(*                                                                         *)
(* The agent works on its own: a request that reached it may be executed   *)
(* long after the gateway gave up waiting.  Time is counted in tenths of a *)
(* second and passes where the code waits.                                 *)
(***************************************************************************)
EXTENDS ToolCall, FiniteSets

CONSTANTS
  MaxRetries, BaseDelay, MaxDelay,  \* of RetryPolicy
  ClientTimeout,                    \* of the HTTP client
  ExecTimeouts                      \* what EXEC_TIMEOUT may say

ASSUME AgentCallAssumption ==
  /\ MaxRetries \in Nat /\ BaseDelay \in Nat /\ MaxDelay \in Nat /\ ClientTimeout \in Nat
  /\ ExecTimeouts \subseteq Nat

VARIABLES
  callAt,       \* "idle", "attempt", "inflight", "backoff" or "done"
  overHTTP,     \* the routing mode
  execTimeout,  \* of the Kubernetes client
  attempt,      \* counted from 0
  sent,         \* attempts whose request reached the agent
  executed,     \* and those it executed
  elapsed       \* time since the call began

agentCallVars == <<callAt, overHTTP, execTimeout, attempt, sent, executed, elapsed>>

AgentCallInit ==
  /\ CallInit
  /\ callAt = "idle" /\ overHTTP = TRUE /\ execTimeout = 0 /\ attempt = 0
  /\ sent = {} /\ executed = {} /\ elapsed = 0

(* Out of bounds, or no duration at all, it is the default. *)
ParseExecTimeout(value) == IF value < 10 \/ value > 3000 THEN 600 ELSE value

CalculateBackoff(n) ==
  IF BaseDelay * 2^(n - 1) > MaxDelay THEN MaxDelay ELSE BaseDelay * 2^(n - 1)

AttemptTimeout == IF overHTTP THEN ClientTimeout ELSE execTimeout

CallAgent ==
  /\ callAt = "idle"
  /\ overHTTP' \in BOOLEAN
  /\ \E value \in ExecTimeouts : execTimeout' = ParseExecTimeout(value)
  /\ callAt' = "attempt"
  /\ UNCHANGED <<callVars, attempt, sent, executed, elapsed>>

(* Mutant of StartAttempt: the request does not carry the call's context. *)
StartRegardless ==
  /\ callAt = "attempt"
  /\ callAt' = "inflight" /\ sent' \in {sent, sent \cup {attempt}}
  /\ UNCHANGED <<callVars, overHTTP, execTimeout, attempt, executed, elapsed>>

(* A request with a done context is not sent; any other reaches the agent or
   not (its connection is refused, its upgrade fails). *)
StartAttempt ==
  /\ callAt = "attempt"
  /\ callAt' = "inflight"
  /\ sent' \in IF ctxDone THEN {sent} ELSE {sent, sent \cup {attempt}}
  /\ UNCHANGED <<callVars, overHTTP, execTimeout, attempt, executed, elapsed>>

AgentExecutes(a) ==
  /\ a \in sent \ executed
  /\ executed' = executed \cup {a}
  /\ UNCHANGED <<callVars, callAt, overHTTP, execTimeout, attempt, sent, elapsed>>

(* The waiting ends at once or with the timeout. *)
Waits == elapsed' \in {elapsed, elapsed + AttemptTimeout}

(* Status 200, or an exec that ended well. *)
AttemptAnswers ==
  /\ callAt = "inflight" /\ attempt \in executed
  /\ Waits
  /\ Reply("answer") /\ callAt' = "done"
  /\ UNCHANGED <<overHTTP, execTimeout, attempt, sent, executed>>

(* Mutant of RetryOrGiveUp: one attempt too many. *)
RetryOnceMore ==
  IF overHTTP /\ ~ ctxDone /\ attempt <= MaxRetries
  THEN callAt' = "backoff" /\ attempt' = attempt + 1 /\ UNCHANGED callVars
  ELSE callAt' = "done" /\ Reply("error") /\ UNCHANGED attempt

(* An exec is not retried, nor a call that was cancelled. *)
RetryOrGiveUp ==
  IF overHTTP /\ ~ ctxDone /\ attempt < MaxRetries
  THEN callAt' = "backoff" /\ attempt' = attempt + 1 /\ UNCHANGED callVars
  ELSE callAt' = "done" /\ Reply("error") /\ UNCHANGED attempt

(* Refused, lost, timed out, cancelled, or a status that is not 200; the
   agent may have executed the request all the same. *)
AttemptFails ==
  /\ callAt = "inflight"
  /\ Waits
  /\ RetryOrGiveUp
  /\ UNCHANGED <<overHTTP, execTimeout, sent, executed>>

(* select: when both are ready either may be taken. *)
Backoff ==
  /\ callAt = "backoff"
  /\ \/ /\ ctxDone
        /\ Reply("error") /\ callAt' = "done" /\ UNCHANGED elapsed
     \/ /\ elapsed' = elapsed + CalculateBackoff(attempt)
        /\ callAt' = "attempt" /\ UNCHANGED callVars
  /\ UNCHANGED <<overHTTP, execTimeout, attempt, sent, executed>>

AgentCallSteps == CallAgent \/ StartAttempt \/ AttemptAnswers \/ AttemptFails \/ Backoff

AgentCallNext ==
  \/ CancelCall /\ UNCHANGED agentCallVars
  \/ AgentCallSteps
  \/ \E a \in 0..MaxRetries : AgentExecutes(a)

-------------------------------------------------------------------------------
(* Properties.                                                             *)

AgentCallTypeOK ==
  /\ CallTypeOK
  /\ callAt \in {"idle", "attempt", "inflight", "backoff", "done"}
  /\ overHTTP \in BOOLEAN /\ execTimeout \in Nat
  /\ attempt \in 0..MaxRetries
  /\ sent \subseteq 0..MaxRetries /\ executed \subseteq sent
  /\ elapsed \in Nat

(* The time a call may take: all its attempts and the waiting in between. *)
LongestCall ==
  IF ~ overHTTP THEN execTimeout
  ELSE (MaxRetries + 1) * ClientTimeout
       + SumOf([n \in 1..MaxRetries |-> CalculateBackoff(n)])

(* A call is over within all its attempts and the waiting in between (240.7 s
   by default), and an agent executes one tool call at most as often as it was
   tried, however late its executions are; an exec at most once. *)
CallIsBounded ==
  /\ elapsed <= LongestCall
  /\ Cardinality(sent) <= IF overHTTP THEN MaxRetries + 1 ELSE 1
  /\ sent \subseteq 0..attempt

(* Once the client has gone away no further request reaches an agent. *)
NoAttemptAfterCancel == [][ctxDone => sent' = sent]_<<callVars, agentCallVars>>

===============================================================================
