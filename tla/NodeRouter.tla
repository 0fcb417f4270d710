------------------------------ MODULE NodeRouter ------------------------------
(***************************************************************************)
(* The gateway's fan-out of one tool (pkg/gateway/router.go with the reply *)
(* of proxy.go): RouteToAllNodes lists the agent pods, asks the circuit    *)
(* breaker about each ready one, starts a goroutine per admitted pod and   *)
(* collects one result from each.  A goroutine takes a slot of the call's  *)
(* semaphore, asks the breaker again, calls the agent and records how it   *)
(* went.                                                                   *)
(*                                                                         *)
(* Calls are the slots of concurrent tool calls: MCP requests over HTTP    *)
(* run Handle concurrently, and every one of them shares the breaker.  A   *)
(* slot is used again once its call has returned, so any number of calls   *)
(* follow each other.                                                      *)
(***************************************************************************)
EXTENDS CircuitBreaker, FiniteSets

CONSTANTS
  Calls,           \* slots for calls in progress at the same time
  Pods,            \* the agent pods ListGPUNodes may find
  NodeOf,          \* pod.Spec.NodeName; a rollout may leave two pods on a node
  MaxConcurrency,  \* Router.maxConcurrency
  Flaky            \* the nodes whose agent may stop answering

ASSUME RouterAssumption ==
  /\ NodeOf \in [Pods -> Nodes]
  /\ MaxConcurrency \in Nat \ {0}
  /\ Flaky \subseteq Nodes
  /\ IsFiniteSet(Pods)

VARIABLES
  phase,      \* where RouteToAllNodes of the call is
  listed,     \* the pods its ListGPUNodes returned as ready
  todo,       \* those of them its dispatch loop has still to visit
  worker,     \* where the goroutine of each pod is
  sem,        \* how many slots of the call's semaphore are taken
  result,     \* the NodeResult sent for each pod
  cancelled,  \* the call's ctx is done
  reply,      \* the status the caller got
  answering   \* the agent of the node answers

callVars == <<phase, listed, todo, worker, sem, result, cancelled, reply>>
vars == <<breakerVars, callVars, answering>>

Phases == {"idle", "listing", "dispatching", "collecting"}

(* "calling" and "testing" are the same point of the code, the request to
   the agent; "testing" remembers that a half-open circuit let it through. *)
WorkerStates == {"none", "waiting", "holding", "calling", "testing",
                 "leaving", "done"}
InFlight == {"calling", "testing"}
HoldingSlot == {"holding", "leaving"} \cup InFlight

Results == {"none", "ok", "failed", "open", "cancelled"}

TypeOK ==
  /\ BreakerTypeOK
  /\ phase \in [Calls -> Phases]
  /\ listed \in [Calls -> SUBSET Pods]
  /\ todo \in [Calls -> SUBSET Pods]
  /\ worker \in [Calls -> [Pods -> WorkerStates]]
  /\ sem \in [Calls -> 0..MaxConcurrency]
  /\ result \in [Calls -> [Pods -> Results]]
  /\ cancelled \in [Calls -> BOOLEAN]
  /\ reply \in [Calls -> {"none", "success", "partial", "error"}]
  /\ answering \in [Nodes -> BOOLEAN]

Init ==
  /\ BreakerInit
  /\ phase = [c \in Calls |-> "idle"]
  /\ listed = [c \in Calls |-> {}]
  /\ todo = [c \in Calls |-> {}]
  /\ worker = [c \in Calls |-> [p \in Pods |-> "none"]]
  /\ sem = [c \in Calls |-> 0]
  /\ result = [c \in Calls |-> [p \in Pods |-> "none"]]
  /\ cancelled = [c \in Calls |-> FALSE]
  /\ reply = [c \in Calls |-> "none"]
  /\ answering = [n \in Nodes |-> TRUE]

-------------------------------------------------------------------------------
(***************************************************************************)
(* The body of RouteToAllNodes.                                            *)
(***************************************************************************)

\* A client calls the tool: Handle builds the request and starts routing it.
StartCall(c) ==
  /\ phase[c] = "idle"
  /\ phase' = [phase EXCEPT ![c] = "listing"]
  /\ UNCHANGED <<breakerVars, listed, todo, worker, sem, result, cancelled,
                 reply, answering>>

\* RouteToAllNodes and Handle return: the caller has its reply, the locals die.
Ends(c, status) ==
  /\ phase' = [phase EXCEPT ![c] = "idle"]
  /\ reply' = [reply EXCEPT ![c] = status]
  /\ listed' = [listed EXCEPT ![c] = {}]
  /\ worker' = [worker EXCEPT ![c] = [p \in Pods |-> "none"]]
  /\ result' = [result EXCEPT ![c] = [p \in Pods |-> "none"]]
  /\ cancelled' = [cancelled EXCEPT ![c] = FALSE]

\* ListGPUNodes fails: the proxy answers with an error.
ListFails(c) ==
  /\ phase[c] = "listing"
  /\ Ends(c, "error")
  /\ UNCHANGED <<breakerVars, todo, sem, answering>>

(* ListGPUNodes returns.  S are the pods with the Ready condition: the loop
   passes over the others without a result. *)
ListNodes(c, S) ==
  /\ phase[c] = "listing"
  /\ phase' = [phase EXCEPT ![c] = "dispatching"]
  /\ listed' = [listed EXCEPT ![c] = S]
  /\ todo' = [todo EXCEPT ![c] = S]
  /\ reply' = [reply EXCEPT ![c] = "none"]
  /\ UNCHANGED <<breakerVars, worker, sem, result, cancelled, answering>>

(* One turn of the loop: the first question to the breaker, then a
   goroutine, or a result in the channel, which has room for every pod.
   The order of the list is the API server's. *)
Dispatch(c, p) ==
  /\ phase[c] = "dispatching"
  /\ p \in todo[c]
  /\ todo' = [todo EXCEPT ![c] = @ \ {p}]
  /\ Allow(NodeOf[p])
  /\ \/ /\ Admits(NodeOf[p])
        /\ worker' = [worker EXCEPT ![c][p] = "waiting"]
        /\ UNCHANGED result
     \/ /\ ~ Admits(NodeOf[p])
        /\ result' = [result EXCEPT ![c][p] = "open"]
        /\ UNCHANGED worker
  /\ UNCHANGED <<phase, listed, sem, cancelled, reply, answering>>

\* The loop is over; wg.Wait() and the collecting loop take over.
Collect(c) ==
  /\ phase[c] = "dispatching"
  /\ todo[c] = {}
  /\ phase' = [phase EXCEPT ![c] = "collecting"]
  /\ UNCHANGED <<breakerVars, listed, todo, worker, sem, result, cancelled,
                 reply, answering>>

(* RouteToAllNodes returns an error when there are results and none is a
   success, and Handle then answers with an error; aggregateDefault makes
   "success" or "partial" of the rest.  With no results there is no error,
   and the status is "success". *)
Status(c) ==
  LET good == {p \in Pods : result[c][p] = "ok"}
      bad  == {p \in Pods : result[c][p] \notin {"ok", "none"}}
  IN  IF good = {} /\ bad # {} THEN "error"
      ELSE IF bad # {} THEN "partial" ELSE "success"

\* Mutant of Return: the channel is closed without waiting for the goroutines.
ReturnEarly(c) ==
  /\ phase[c] = "collecting"
  /\ Ends(c, Status(c))
  /\ UNCHANGED <<breakerVars, todo, sem, answering>>

\* wg.Wait() is over, the channel is closed and drained.
Return(c) ==
  /\ phase[c] = "collecting"
  /\ \A p \in Pods : worker[c][p] \in {"none", "done"}
  /\ Ends(c, Status(c))
  /\ UNCHANGED <<breakerVars, todo, sem, answering>>

\* The client goes away, or the server shuts down.
Cancel(c) ==
  /\ phase[c] # "idle"
  /\ ~ cancelled[c]
  /\ cancelled' = [cancelled EXCEPT ![c] = TRUE]
  /\ UNCHANGED <<breakerVars, phase, listed, todo, worker, sem, result, reply,
                 answering>>

-------------------------------------------------------------------------------
(***************************************************************************)
(* The goroutine of pod p in call c.                                       *)
(***************************************************************************)

Moves(c, p, from, to) ==
  /\ worker[c][p] \in from
  /\ worker' = [worker EXCEPT ![c][p] = to]

\* Mutant of AcquireSlot: the semaphore lets one too many in.
AcquireSlotLate(c, p) ==
  /\ sem[c] <= MaxConcurrency
  /\ Moves(c, p, {"waiting"}, "holding")
  /\ sem' = [sem EXCEPT ![c] = @ + 1]
  /\ UNCHANGED <<breakerVars, phase, listed, todo, result, cancelled, reply,
                 answering>>

\* case sem <- struct{}{}
AcquireSlot(c, p) ==
  /\ sem[c] < MaxConcurrency
  /\ Moves(c, p, {"waiting"}, "holding")
  /\ sem' = [sem EXCEPT ![c] = @ + 1]
  /\ UNCHANGED <<breakerVars, phase, listed, todo, result, cancelled, reply,
                 answering>>

\* Mutant of GiveUp: the goroutine returns without sending a result.
GiveUpSilently(c, p) ==
  /\ cancelled[c]
  /\ Moves(c, p, {"waiting"}, "done")
  /\ UNCHANGED <<breakerVars, phase, listed, todo, sem, result, cancelled,
                 reply, answering>>

\* case <-ctx.Done(); with both ready, select takes either.
GiveUp(c, p) ==
  /\ cancelled[c]
  /\ Moves(c, p, {"waiting"}, "done")
  /\ result' = [result EXCEPT ![c][p] = "cancelled"]
  /\ UNCHANGED <<breakerVars, phase, listed, todo, sem, cancelled, reply,
                 answering>>

(* routeToGPUNode asks the breaker a second time: the circuit may have
   opened while the goroutine waited for its slot. *)
CheckCircuit(c, p) ==
  LET n == NodeOf[p] IN
  /\ Allow(n)
  /\ \/ /\ Admits(n)
        /\ Moves(c, p, {"holding"},
                 IF state'[n] = HalfOpen THEN "testing" ELSE "calling")
        /\ UNCHANGED result
     \/ /\ ~ Admits(n)
        /\ Moves(c, p, {"holding"}, "leaving")
        /\ result' = [result EXCEPT ![c][p] = "open"]
  /\ UNCHANGED <<phase, listed, todo, sem, cancelled, reply, answering>>

\* The agent answers (routeViaHTTP or routeViaExec returns no error).
CallSucceeds(c, p) ==
  /\ answering[NodeOf[p]]
  /\ Moves(c, p, InFlight, "leaving")
  /\ RecordSuccess(NodeOf[p])
  /\ result' = [result EXCEPT ![c][p] = "ok"]
  /\ UNCHANGED <<phase, listed, todo, sem, cancelled, reply, answering>>

(* The call ends in an error: the agent does not answer until the retries
   are used up, or the caller's ctx is done.  Either is a failure of the
   node to the breaker. *)
CallFails(c, p) ==
  /\ ~ answering[NodeOf[p]] \/ cancelled[c]
  /\ Moves(c, p, InFlight, "leaving")
  /\ RecordFailure(NodeOf[p])
  /\ result' = [result EXCEPT ![c][p] = "failed"]
  /\ UNCHANGED <<phase, listed, todo, sem, cancelled, reply, answering>>

\* Mutant of Leave: the slot is not given back.
LeaveHoldingSlot(c, p) ==
  /\ Moves(c, p, {"leaving"}, "done")
  /\ UNCHANGED <<breakerVars, phase, listed, todo, sem, result, cancelled,
                 reply, answering>>

\* The result is in the channel; the deferred calls free the slot, then wg.Done.
Leave(c, p) ==
  /\ Moves(c, p, {"leaving"}, "done")
  /\ sem' = [sem EXCEPT ![c] = @ - 1]
  /\ UNCHANGED <<breakerVars, phase, listed, todo, result, cancelled, reply,
                 answering>>

-------------------------------------------------------------------------------
\* The agent of a flaky node stops or resumes answering.
Flap(n) ==
  /\ n \in Flaky
  /\ answering' = [answering EXCEPT ![n] = ~ @]
  /\ UNCHANGED <<breakerVars, callVars>>

ClockTick == Tick /\ UNCHANGED <<callVars, answering>>

Caller(c) ==
  \/ ListFails(c)
  \/ \E S \in SUBSET Pods : ListNodes(c, S)
  \/ \E p \in Pods : Dispatch(c, p)
  \/ Collect(c)
  \/ Return(c)

Goroutine(c, p) ==
  \/ AcquireSlot(c, p)
  \/ GiveUp(c, p)
  \/ CheckCircuit(c, p)
  \/ CallSucceeds(c, p)
  \/ CallFails(c, p)
  \/ Leave(c, p)

Next ==
  \/ \E c \in Calls : StartCall(c) \/ Cancel(c) \/ Caller(c)
  \/ \E c \in Calls, p \in Pods : Goroutine(c, p)
  \/ \E n \in Nodes : Flap(n)
  \/ ClockTick

Spec == Init /\ [][Next]_vars

(***************************************************************************)
(* The Go scheduler runs every goroutine that can run; an agent call ends  *)
(* because the HTTP client has a timeout and a bounded number of retries   *)
(* and exec has a timeout; the clock advances.  Clients need not call,     *)
(* cancel or let an agent recover.                                         *)
(***************************************************************************)
Fairness ==
  /\ \A c \in Calls : WF_vars(Caller(c))
  /\ \A c \in Calls, p \in Pods : WF_vars(Goroutine(c, p))
  /\ WF_vars(ClockTick)

FairSpec == Spec /\ Fairness

-------------------------------------------------------------------------------
(***************************************************************************)
(* The semaphore of a call counts exactly the goroutines between taking a  *)
(* slot and giving it back: no path out of a goroutine (an open circuit, a *)
(* failed or a cancelled request) leaks a slot or frees one twice, and a   *)
(* call that has returned holds none.                                      *)
(***************************************************************************)
SemaphoreExact ==
  \A c \in Calls :
    sem[c] = Cardinality({p \in Pods : worker[c][p] \in HoldingSlot})

(***************************************************************************)
(* Loop, goroutines and channel agree: a pod has a result exactly when the *)
(* loop refused it or its goroutine is past its request, nothing else ever *)
(* gets one, and a call that is not routing has neither goroutines nor     *)
(* results.  It is what lets wg.Wait() stand for "every result is there".  *)
(***************************************************************************)
Bookkeeping ==
  \A c \in Calls :
    /\ todo[c] \subseteq listed[c]
    /\ phase[c] # "dispatching" => todo[c] = {}
    /\ phase[c] \in {"idle", "listing"} => listed[c] = {}
    /\ \A p \in Pods :
         /\ worker[c][p] # "none" => p \in listed[c] \ todo[c]
         /\ worker[c][p] \in {"leaving", "done"} => result[c][p] # "none"
         /\ worker[c][p] \in {"waiting", "holding"} \cup InFlight
              => result[c][p] = "none"
         /\ worker[c][p] = "none" =>
              (result[c][p] # "none" <=> p \in listed[c] \ todo[c])

(***************************************************************************)
(* The call implements FanOut: its outcome per pod never changes once      *)
(* there, it covers exactly the pods that were listed ready, and the reply *)
(* sums up all of them.                                                    *)
(***************************************************************************)
Stage(c) == IF phase[c] \in {"dispatching", "collecting"} THEN "routing" ELSE "idle"

Outcome(r) == CASE r = "none" -> "none"
                [] r = "ok" -> "ok"
                [] r \in {"failed", "open", "cancelled"} -> "error"

Promise == INSTANCE FanOut WITH
  stage   <- [c \in Calls |-> Stage(c)],
  asked   <- listed,
  outcome <- [c \in Calls |-> [p \in Pods |-> Outcome(result[c][p])]]

ImplementsFanOut == Promise!Spec

(***************************************************************************)
(* Every call returns, whatever fails, opens or is cancelled: no goroutine *)
(* waits for a slot or a reader for ever (router.go's closing goroutine    *)
(* waits for all of them before the collecting loop can end).              *)
(***************************************************************************)
EveryCallReturns == \A c \in Calls : phase[c] = "listing" ~> phase[c] = "idle"

(***************************************************************************)
(* A circuit recovers: once a node's agent answers for good, calls are no  *)
(* longer cancelled and the node keeps being visited, its circuit closes   *)
(* and stays closed, whatever requests were in flight when it opened.      *)
(***************************************************************************)
Visited(n) == \E c \in Calls : \E p \in todo[c] : NodeOf[p] = n

CircuitRecovers ==
  \A n \in Nodes :
    <>[](answering[n] /\ \A c \in Calls : ~ cancelled[c]) /\ []<>Visited(n)
      => <>[](state[n] = Closed)

(***************************************************************************)
(* What comments of the code say and the code does not do; each is checked *)
(* by a run that expects TLC to refute it.                                 *)
(***************************************************************************)

(* circuit_breaker.go: "CircuitHalfOpen allows one test request through".
   At most one test request is in flight while a circuit is half-open. *)
HalfOpenAllowsOneTest ==
  \A n \in Nodes : state[n] = HalfOpen =>
    Cardinality({t \in Calls \X Pods :
                   NodeOf[t[2]] = n /\ worker[t[1]][t[2]] = "testing"}) <= 1

(* circuit_breaker.go: "CircuitOpen blocks requests (node is unhealthy)".
   The circuit of a node whose agent always answers never opens. *)
OpenMeansUnhealthy == \A n \in Nodes \ Flaky : state[n] # Open

(* router.go, WithMaxConcurrency: "sets the maximum number of concurrent
   requests to agents".  The router never has more of them in flight. *)
RequestsWithinMaxConcurrency ==
  Cardinality({t \in Calls \X Pods : worker[t[1]][t[2]] \in InFlight})
    <= MaxConcurrency
===============================================================================
