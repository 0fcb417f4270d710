--------------------------- MODULE NodeRouterProofs ---------------------------
(***************************************************************************)
(* The fan-out for every set of calls, pods and nodes, every concurrency   *)
(* limit and every breaker: type correctness, the exact semaphore, the     *)
(* bookkeeping of results, and that it implements FanOut.                  *)
(***************************************************************************)
EXTENDS NodeRouter, CircuitBreakerProofs, FiniteSetTheorems

(* The inductive invariant: the breaker's own, the types, and the two facts
   about goroutines. *)
RouterInv == BreakerInv /\ TypeOK /\ SemaphoreExact /\ Bookkeeping

\* The goroutines of a call that hold a slot of its semaphore.
Holders(c) == {p \in Pods : worker[c][p] \in HoldingSlot}

-------------------------------------------------------------------------------
(***************************************************************************)
(* Counting holders.                                                       *)
(***************************************************************************)

(* A call's holders are finitely many. *)
LEMMA HoldersFinite ==
  ASSUME NEW c \in Calls
  PROVE  IsFiniteSet(Holders(c))
  BY RouterAssumption, FS_Subset DEF Holders

(* A goroutine that moves without taking or giving back a slot leaves every
   count as it is. *)
LEMMA MoveKeepsCount ==
  ASSUME TypeOK, SemaphoreExact, NEW c \in Calls, NEW p \in Pods,
         NEW from, NEW to, Moves(c, p, from, to), UNCHANGED sem,
         worker[c][p] \in HoldingSlot <=> to \in HoldingSlot
  PROVE  SemaphoreExact'
  <1>1. \A d \in Calls, q \in Pods :
          worker'[d][q] \in HoldingSlot <=> worker[d][q] \in HoldingSlot
    BY DEF TypeOK, Moves
  <1>2. ASSUME NEW d \in Calls PROVE Holders(d)' = Holders(d)
    BY <1>1 DEF Holders
  <1>3. QED
    BY <1>2 DEF SemaphoreExact, Holders

(* Taking a slot adds one holder to this call and to no other. *)
LEMMA AcquireCounts ==
  ASSUME TypeOK, SemaphoreExact, NEW c \in Calls, NEW p \in Pods,
         AcquireSlot(c, p)
  PROVE  SemaphoreExact'
  <1>1. /\ worker[c][p] = "waiting"
        /\ worker' = [worker EXCEPT ![c][p] = "holding"]
        /\ sem' = [sem EXCEPT ![c] = sem[c] + 1]
    BY DEF AcquireSlot, Moves
  <1>2. Holders(c)' = Holders(c) \cup {p} /\ p \notin Holders(c)
    BY <1>1 DEF TypeOK, Holders, HoldingSlot, InFlight
  <1>3. Cardinality(Holders(c)') = Cardinality(Holders(c)) + 1
    BY <1>2, HoldersFinite, FS_AddElement
  <1>4. ASSUME NEW d \in Calls \ {c}
        PROVE  Holders(d)' = Holders(d) /\ sem'[d] = sem[d]
    BY <1>1 DEF TypeOK, Holders
  <1>5. \A d \in Calls : sem[d] = Cardinality(Holders(d))
    BY DEF SemaphoreExact, Holders
  <1>6. sem'[c] = sem[c] + 1
    BY <1>1 DEF TypeOK
  <1>7. \A d \in Calls : sem'[d] = Cardinality(Holders(d)')
    BY <1>3, <1>4, <1>5, <1>6
  <1>8. QED
    BY <1>7 DEF SemaphoreExact, Holders

(* Leaving takes exactly this goroutine from the holders; there was one, so
   the counter does not go below zero. *)
LEMMA LeaveCounts ==
  ASSUME TypeOK, SemaphoreExact, NEW c \in Calls, NEW p \in Pods, Leave(c, p)
  PROVE  SemaphoreExact' /\ sem' \in [Calls -> 0..MaxConcurrency]
  <1>1. /\ worker[c][p] = "leaving"
        /\ worker' = [worker EXCEPT ![c][p] = "done"]
        /\ sem' = [sem EXCEPT ![c] = sem[c] - 1]
    BY DEF Leave, Moves
  <1>2. Holders(c)' = Holders(c) \ {p} /\ p \in Holders(c)
    BY <1>1 DEF TypeOK, Holders, HoldingSlot, InFlight
  <1>3. /\ Cardinality(Holders(c)') = Cardinality(Holders(c)) - 1
        /\ Cardinality(Holders(c)') \in Nat
    <2>1. IsFiniteSet(Holders(c)) /\ IsFiniteSet(Holders(c)')
      BY <1>2, HoldersFinite, FS_Subset
    <2>2. QED
      BY <1>2, <2>1, FS_RemoveElement, FS_CardinalityType
  <1>4. ASSUME NEW d \in Calls \ {c}
        PROVE  Holders(d)' = Holders(d) /\ sem'[d] = sem[d]
    BY <1>1 DEF TypeOK, Holders
  <1>5. \A d \in Calls : sem[d] = Cardinality(Holders(d))
    BY DEF SemaphoreExact, Holders
  <1>6. sem'[c] = sem[c] - 1 /\ sem[c] \in 0..MaxConcurrency
    BY <1>1 DEF TypeOK
  <1>7. \A d \in Calls : sem'[d] = Cardinality(Holders(d)')
    BY <1>3, <1>4, <1>5, <1>6
  <1>8. sem'[c] \in 0..MaxConcurrency
    BY <1>3, <1>6, <1>7, RouterAssumption
  <1>9. QED
    BY <1>1, <1>7, <1>8 DEF SemaphoreExact, Holders, TypeOK

(* A call that ends or has not begun to dispatch holds no slot. *)
LEMMA NoHolders ==
  ASSUME TypeOK, SemaphoreExact, NEW c \in Calls,
         \A p \in Pods : worker[c][p] \notin HoldingSlot
  PROVE  sem[c] = 0
  <1>1. Holders(c) = {}
    BY DEF Holders
  <1>2. QED
    BY <1>1, FS_EmptySet DEF SemaphoreExact, Holders

-------------------------------------------------------------------------------
(***************************************************************************)
(* One step of the system and the breaker: every step either leaves the    *)
(* breaker alone, lets the clock tick or calls one method for one node.    *)
(***************************************************************************)
LEMMA StepKeepsBreaker ==
  ASSUME RouterInv, [Next]_vars
  PROVE  BreakerInv'
  <1> USE DEF RouterInv
  <1>1. CASE UNCHANGED breakerVars
    BY <1>1 DEF breakerVars, BreakerInv, BreakerTypeOK, ClosedIffBelowThreshold,
                TrippedCircuitIsVisible
  <1>2. CASE \E n \in Nodes : Allow(n) \/ RecordSuccess(n) \/ RecordFailure(n)
    BY <1>2, AllowInv, RecordSuccessInv, RecordFailureInv
  <1>3. CASE Tick
    BY <1>3, TickInv
  <1> DEFINE Method == \E n \in Nodes :
                         Allow(n) \/ RecordSuccess(n) \/ RecordFailure(n)
  <1>4. UNCHANGED breakerVars \/ Tick \/ Method
    <2>1. \A p \in Pods : NodeOf[p] \in Nodes
      BY RouterAssumption
    <2>2. CASE UNCHANGED vars
      BY <2>2 DEF vars
    <2>3. ASSUME NEW c \in Calls, StartCall(c) \/ Cancel(c) \/ Caller(c)
          PROVE  UNCHANGED breakerVars \/ Method
      BY <2>1, <2>3 DEF StartCall, Cancel, Caller, ListFails, ListNodes, Dispatch,
                        Collect, Return
    <2>4. ASSUME NEW c \in Calls, NEW p \in Pods, Goroutine(c, p)
          PROVE  UNCHANGED breakerVars \/ Method
      BY <2>1, <2>4 DEF Goroutine, AcquireSlot, GiveUp, CheckCircuit,
                        CallSucceeds, CallFails, Leave
    <2>5. CASE \E n \in Nodes : Flap(n)
      BY <2>5 DEF Flap
    <2>6. CASE ClockTick
      BY <2>6 DEF ClockTick
    <2>7. QED
      BY <2>2, <2>3, <2>4, <2>5, <2>6 DEF Next
  <1>5. QED
    BY <1>1, <1>2, <1>3, <1>4

-------------------------------------------------------------------------------
(***************************************************************************)
(* The body of RouteToAllNodes, action by action.  CallInv is what is left *)
(* of the invariant when the breaker is taken out.                         *)
(***************************************************************************)
CallTypeOK ==
  /\ phase \in [Calls -> Phases]
  /\ listed \in [Calls -> SUBSET Pods]
  /\ todo \in [Calls -> SUBSET Pods]
  /\ worker \in [Calls -> [Pods -> WorkerStates]]
  /\ sem \in [Calls -> 0..MaxConcurrency]
  /\ result \in [Calls -> [Pods -> Results]]
  /\ cancelled \in [Calls -> BOOLEAN]
  /\ reply \in [Calls -> {"none", "success", "partial", "error"}]
  /\ answering \in [Nodes -> BOOLEAN]

CallInv == CallTypeOK /\ SemaphoreExact /\ Bookkeeping

(* Splitting the invariant and putting it together again. *)
LEMMA SplitInv == RouterInv <=> BreakerInv /\ CallInv
  BY DEF RouterInv, CallInv, BreakerInv, TypeOK, CallTypeOK

(* StartCall touches nothing the invariant relates. *)
LEMMA StartCallInv ==
  ASSUME RouterInv, NEW c \in Calls, StartCall(c)
  PROVE  CallInv'
  <1> USE DEF RouterInv, TypeOK, StartCall
  <1>1. CallTypeOK'      BY DEF CallTypeOK, Phases
  <1>2. SemaphoreExact'  BY DEF SemaphoreExact
  <1>3. Bookkeeping'     BY DEF Bookkeeping, Phases
  <1>4. QED              BY <1>1, <1>2, <1>3 DEF CallInv

(* Ending a call whose goroutines hold no slot leaves an empty bookkeeping. *)
LEMMA EndsInv ==
  ASSUME RouterInv, NEW c \in Calls, NEW status \in {"success", "partial", "error"},
         Ends(c, status), UNCHANGED <<todo, sem, answering>>, todo[c] = {},
         \A p \in Pods : worker[c][p] \notin HoldingSlot
  PROVE  CallInv'
  <1> USE DEF RouterInv, TypeOK, Ends
  <1>1. CallTypeOK'
    BY DEF CallTypeOK, Phases, WorkerStates, Results
  <1>2. SemaphoreExact'
    <2>1. ASSUME NEW d \in Calls \ {c} PROVE Holders(d)' = Holders(d)
      BY DEF Holders
    <2>2. Holders(c)' = {}
      BY DEF Holders, HoldingSlot, InFlight
    <2>3. sem'[c] = 0
      BY NoHolders
    <2>4. \A d \in Calls : sem'[d] = Cardinality(Holders(d)')
      BY <2>1, <2>2, <2>3, FS_EmptySet DEF SemaphoreExact, Holders
    <2>5. QED
      BY <2>4 DEF SemaphoreExact, Holders
  <1>3. Bookkeeping'
    BY DEF Bookkeeping, InFlight
  <1>4. QED
    BY <1>1, <1>2, <1>3 DEF CallInv

(* The listing failed: no goroutine was started. *)
LEMMA ListFailsInv ==
  ASSUME RouterInv, NEW c \in Calls, ListFails(c)
  PROVE  CallInv'
  <1>1. \A p \in Pods : worker[c][p] \notin HoldingSlot
    BY DEF RouterInv, Bookkeeping, ListFails, HoldingSlot, InFlight
  <1>2. todo[c] = {}
    BY DEF RouterInv, Bookkeeping, ListFails
  <1>3. QED
    BY <1>1, <1>2, EndsInv DEF ListFails

(* The dispatch loop begins with nobody visited. *)
LEMMA ListNodesInv ==
  ASSUME RouterInv, NEW c \in Calls, NEW S \in SUBSET Pods, ListNodes(c, S)
  PROVE  CallInv'
  <1> USE DEF RouterInv, TypeOK, ListNodes
  <1>1. CallTypeOK'      BY DEF CallTypeOK, Phases
  <1>2. SemaphoreExact'  BY DEF SemaphoreExact
  <1>3. Bookkeeping'     BY DEF Bookkeeping, InFlight
  <1>4. QED              BY <1>1, <1>2, <1>3 DEF CallInv

(* A visited pod has a goroutine or a result, never both; the goroutine does
   not hold a slot yet. *)
LEMMA DispatchInv ==
  ASSUME RouterInv, NEW c \in Calls, NEW p \in Pods, Dispatch(c, p)
  PROVE  CallInv'
  <1> USE DEF RouterInv, TypeOK
  <1>0. worker[c][p] = "none" /\ result[c][p] = "none"
    BY DEF Dispatch, Bookkeeping
  <1>1. CASE worker' = [worker EXCEPT ![c][p] = "waiting"] /\ UNCHANGED result
    <2>1. CallTypeOK'
      BY <1>1 DEF Dispatch, CallTypeOK, WorkerStates
    <2>2. SemaphoreExact'
      <3>1. Moves(c, p, {"none"}, "waiting") /\ UNCHANGED sem
        BY <1>0, <1>1 DEF Moves, Dispatch
      <3>2. QED
        BY <1>0, <3>1, MoveKeepsCount DEF HoldingSlot, InFlight
    <2>3. Bookkeeping'
      BY <1>0, <1>1 DEF Dispatch, Bookkeeping, InFlight
    <2>4. QED  BY <2>1, <2>2, <2>3 DEF CallInv
  <1>2. CASE result' = [result EXCEPT ![c][p] = "open"] /\ UNCHANGED worker
    <2>1. CallTypeOK'
      BY <1>2 DEF Dispatch, CallTypeOK, Results
    <2>2. SemaphoreExact'
      BY <1>2 DEF Dispatch, SemaphoreExact
    <2>3. Bookkeeping'
      BY <1>0, <1>2 DEF Dispatch, Bookkeeping, InFlight
    <2>4. QED  BY <2>1, <2>2, <2>3 DEF CallInv
  <1>3. QED
    BY <1>1, <1>2 DEF Dispatch

(* Nothing is left to visit when the loop ends. *)
LEMMA CollectInv ==
  ASSUME RouterInv, NEW c \in Calls, Collect(c)
  PROVE  CallInv'
  <1> USE DEF RouterInv, TypeOK, Collect
  <1>1. CallTypeOK'      BY DEF CallTypeOK, Phases
  <1>2. SemaphoreExact'  BY DEF SemaphoreExact
  <1>3. Bookkeeping'     BY DEF Bookkeeping
  <1>4. QED              BY <1>1, <1>2, <1>3 DEF CallInv

(* wg.Wait() is over, so no goroutine holds a slot. *)
LEMMA ReturnInv ==
  ASSUME RouterInv, NEW c \in Calls, Return(c)
  PROVE  CallInv'
  <1>1. \A p \in Pods : worker[c][p] \notin HoldingSlot
    BY DEF Return, HoldingSlot, InFlight
  <1>2. todo[c] = {}
    BY DEF RouterInv, Bookkeeping, Return
  <1>3. Status(c) \in {"success", "partial", "error"}
    BY DEF Status
  <1>4. QED
    BY <1>1, <1>2, <1>3, EndsInv DEF Return

(* Cancelling marks the ctx and nothing else. *)
LEMMA CancelInv ==
  ASSUME RouterInv, NEW c \in Calls, Cancel(c)
  PROVE  CallInv'
  BY DEF RouterInv, TypeOK, Cancel, CallInv, CallTypeOK, SemaphoreExact, Bookkeeping

-------------------------------------------------------------------------------
(***************************************************************************)
(* The goroutine, action by action.                                        *)
(***************************************************************************)

(* Taking a slot. *)
LEMMA AcquireSlotInv ==
  ASSUME RouterInv, NEW c \in Calls, NEW p \in Pods, AcquireSlot(c, p)
  PROVE  CallInv'
  <1> USE DEF RouterInv, TypeOK
  <1>1. CallTypeOK'
    BY RouterAssumption DEF AcquireSlot, Moves, CallTypeOK, WorkerStates
  <1>2. SemaphoreExact'
    BY AcquireCounts
  <1>3. Bookkeeping'
    BY DEF AcquireSlot, Moves, Bookkeeping, InFlight
  <1>4. QED  BY <1>1, <1>2, <1>3 DEF CallInv

(* Giving up before a slot was taken: a result, and no slot to give back. *)
LEMMA GiveUpInv ==
  ASSUME RouterInv, NEW c \in Calls, NEW p \in Pods, GiveUp(c, p)
  PROVE  CallInv'
  <1> USE DEF RouterInv, TypeOK
  <1>1. CallTypeOK'
    BY DEF GiveUp, Moves, CallTypeOK, WorkerStates, Results
  <1>2. SemaphoreExact'
    BY MoveKeepsCount DEF GiveUp, Moves, HoldingSlot, InFlight
  <1>3. Bookkeeping'
    BY DEF GiveUp, Moves, Bookkeeping, InFlight
  <1>4. QED  BY <1>1, <1>2, <1>3 DEF CallInv

(* Everything between taking a slot and giving it back moves within the
   holders; whoever leaves has its result. *)
LEMMA WithinSlotInv ==
  ASSUME RouterInv, NEW c \in Calls, NEW p \in Pods,
         NEW from, NEW to \in HoldingSlot, Moves(c, p, from, to),
         from \subseteq {"holding"} \cup InFlight,
         UNCHANGED <<phase, listed, todo, sem, cancelled, reply, answering>>,
         \/ to \in InFlight /\ UNCHANGED result
         \/ /\ to = "leaving"
            /\ \E r \in Results \ {"none"} : result' = [result EXCEPT ![c][p] = r]
  PROVE  CallInv'
  <1> USE DEF RouterInv, TypeOK
  <1>1. worker[c][p] \in {"holding"} \cup InFlight
    BY DEF Moves
  <1>2. CallTypeOK'
    <2>1. to \in WorkerStates
      BY DEF HoldingSlot, InFlight, WorkerStates
    <2>2. worker' \in [Calls -> [Pods -> WorkerStates]]
      BY <2>1 DEF Moves
    <2>3. result' \in [Calls -> [Pods -> Results]]
      <3>1. CASE UNCHANGED result  BY <3>1
      <3>2. ASSUME NEW r \in Results, result' = [result EXCEPT ![c][p] = r]
            PROVE  result' \in [Calls -> [Pods -> Results]]
        BY <3>2
      <3>3. QED  BY <3>1, <3>2
    <2>4. QED
      BY <2>2, <2>3 DEF CallTypeOK
  <1>3. SemaphoreExact'
    BY <1>1, MoveKeepsCount DEF HoldingSlot
  <1>4. Bookkeeping'
    BY <1>1 DEF Moves, Bookkeeping, InFlight
  <1>5. QED  BY <1>2, <1>3, <1>4 DEF CallInv

(* The second question to the breaker. *)
LEMMA CheckCircuitInv ==
  ASSUME RouterInv, NEW c \in Calls, NEW p \in Pods, CheckCircuit(c, p)
  PROVE  CallInv'
  <1>1. CASE Moves(c, p, {"holding"}, "testing") /\ UNCHANGED result
    BY <1>1, WithinSlotInv DEF CheckCircuit, HoldingSlot, InFlight
  <1>2. CASE Moves(c, p, {"holding"}, "calling") /\ UNCHANGED result
    BY <1>2, WithinSlotInv DEF CheckCircuit, HoldingSlot, InFlight
  <1>3. CASE /\ Moves(c, p, {"holding"}, "leaving")
             /\ result' = [result EXCEPT ![c][p] = "open"]
    BY <1>3, WithinSlotInv DEF CheckCircuit, HoldingSlot, Results
  <1>4. QED
    BY <1>1, <1>2, <1>3 DEF CheckCircuit

(* The agent answered. *)
LEMMA CallSucceedsInv ==
  ASSUME RouterInv, NEW c \in Calls, NEW p \in Pods, CallSucceeds(c, p)
  PROVE  CallInv'
  BY WithinSlotInv DEF CallSucceeds, HoldingSlot, Results

(* The request failed. *)
LEMMA CallFailsInv ==
  ASSUME RouterInv, NEW c \in Calls, NEW p \in Pods, CallFails(c, p)
  PROVE  CallInv'
  BY WithinSlotInv DEF CallFails, HoldingSlot, Results

(* Giving the slot back. *)
LEMMA LeaveInv ==
  ASSUME RouterInv, NEW c \in Calls, NEW p \in Pods, Leave(c, p)
  PROVE  CallInv'
  <1> USE DEF RouterInv, TypeOK
  <1>1. CallTypeOK'
    BY LeaveCounts DEF Leave, Moves, CallTypeOK, WorkerStates
  <1>2. SemaphoreExact'
    BY LeaveCounts
  <1>3. Bookkeeping'
    BY DEF Leave, Moves, Bookkeeping, InFlight
  <1>4. QED  BY <1>1, <1>2, <1>3 DEF CallInv

-------------------------------------------------------------------------------
(***************************************************************************)
(* The invariant.                                                          *)
(***************************************************************************)

(* Before the first call. *)
LEMMA RouterInitInv == Init => RouterInv
  <1> SUFFICES ASSUME Init PROVE RouterInv
    OBVIOUS
  <1> USE DEF Init
  <1>1. BreakerInv
    BY BreakerInitInv
  <1>2. CallTypeOK
    BY RouterAssumption DEF CallTypeOK, Phases, WorkerStates, Results
  <1>3. SemaphoreExact
    <2>1. ASSUME NEW c \in Calls PROVE Holders(c) = {}
      BY DEF Holders, HoldingSlot, InFlight
    <2>2. QED
      BY <2>1, FS_EmptySet DEF SemaphoreExact, Holders
  <1>4. Bookkeeping
    BY DEF Bookkeeping, InFlight
  <1>5. QED
    BY <1>1, <1>2, <1>3, <1>4, SplitInv DEF CallInv

(* No step leaves it. *)
LEMMA RouterStepInv == RouterInv /\ [Next]_vars => RouterInv'
  <1> SUFFICES ASSUME RouterInv, [Next]_vars PROVE RouterInv'
    OBVIOUS
  <1>1. BreakerInv'
    BY StepKeepsBreaker
  <1>2. CallInv'
    <2>1. ASSUME NEW c \in Calls, StartCall(c) \/ Cancel(c)
          PROVE  CallInv'
      BY <2>1, StartCallInv, CancelInv
    <2>2. ASSUME NEW c \in Calls, Caller(c)
          PROVE  CallInv'
      BY <2>2, ListFailsInv, ListNodesInv, DispatchInv, CollectInv, ReturnInv
      DEF Caller
    <2>3. ASSUME NEW c \in Calls, NEW p \in Pods, Goroutine(c, p)
          PROVE  CallInv'
      BY <2>3, AcquireSlotInv, GiveUpInv, CheckCircuitInv, CallSucceedsInv,
         CallFailsInv, LeaveInv
      DEF Goroutine
    <2>4. ASSUME NEW n \in Nodes, Flap(n)
          PROVE  CallInv'
      <3> USE <2>4 DEF RouterInv, TypeOK, Flap, callVars
      <3>1. CallTypeOK'      BY DEF CallTypeOK
      <3>2. SemaphoreExact'  BY DEF SemaphoreExact
      <3>3. Bookkeeping'     BY DEF Bookkeeping
      <3>4. QED              BY <3>1, <3>2, <3>3 DEF CallInv
    <2>5. CASE UNCHANGED <<callVars, answering>>
      BY <2>5 DEF RouterInv, TypeOK, callVars, CallInv, CallTypeOK,
                  SemaphoreExact, Bookkeeping
    <2>6. QED
      BY <2>1, <2>2, <2>3, <2>4, <2>5 DEF Next, ClockTick, vars
  <1>3. QED
    BY <1>1, <1>2 DEF RouterInv, BreakerInv, CallInv, CallTypeOK, TypeOK

(* The inductive invariant of the fan-out. *)
THEOREM RouterInvariant == Spec => []RouterInv
  BY RouterInitInv, RouterStepInv, PTL DEF Spec

(* router.go: types, for every number of calls, pods and nodes. *)
THEOREM RouterTypeCorrect == Spec => []TypeOK
  BY RouterInvariant, PTL DEF RouterInv

(* router.go: the semaphore of a call counts its goroutines exactly, on every
   path out of a goroutine. *)
THEOREM SemaphoreIsExact == Spec => []SemaphoreExact
  BY RouterInvariant, PTL DEF RouterInv

(* router.go: the loop, the goroutines and the result channel agree. *)
THEOREM BookkeepingHolds == Spec => []Bookkeeping
  BY RouterInvariant, PTL DEF RouterInv

-------------------------------------------------------------------------------
(***************************************************************************)
(* The fan-out implements FanOut: every step is a step of the promise or   *)
(* changes nothing of it.                                                  *)
(***************************************************************************)
PromisedOutcome == [c \in Calls |-> [p \in Pods |-> Outcome(result[c][p])]]
PromisedStage == [c \in Calls |-> Stage(c)]

(* Outcomes of the code's results. *)
LEMMA OutcomeValues ==
  /\ Outcome("none") = "none"
  /\ Outcome("ok") = "ok"
  /\ \A r \in {"failed", "open", "cancelled"} : Outcome(r) = "error"
  /\ \A r \in Results : Outcome(r) = "none" <=> r = "none"
  /\ \A r \in Results : Outcome(r) = "ok" <=> r = "ok"
  BY DEF Outcome, Results

(* When every listed pod has a result and no other has, the status Handle
   reports is the promised summary. *)
LEMMA StatusIsSummary ==
  ASSUME TypeOK, NEW c \in Calls,
         \A p \in Pods : result[c][p] # "none" <=> p \in listed[c]
  PROVE  Status(c) = Promise!Summary(listed[c], PromisedOutcome[c])
  <1> DEFINE good     == {p \in Pods : result[c][p] = "ok"}
             bad      == {p \in Pods : result[c][p] \notin {"ok", "none"}}
             answered == {p \in listed[c] : PromisedOutcome[c][p] = "ok"}
  <1>1. listed[c] \subseteq Pods /\ \A p \in Pods : result[c][p] \in Results
    BY DEF TypeOK
  <1>2. good = answered
    BY <1>1, OutcomeValues DEF PromisedOutcome
  <1>3. bad = listed[c] \ answered
    BY <1>1, <1>2
  <1>4. Status(c) = IF good = {} /\ bad # {} THEN "error"
                    ELSE IF bad # {} THEN "partial" ELSE "success"
    BY DEF Status
  <1>5. answered \subseteq listed[c]
    OBVIOUS
  <1>6. CASE answered = listed[c]
    BY <1>2, <1>3, <1>4, <1>6 DEF Promise!Summary
  <1>7. CASE answered = {} /\ listed[c] # {}
    BY <1>2, <1>3, <1>4, <1>7 DEF Promise!Summary
  <1>8. CASE answered # {} /\ answered # listed[c]
    BY <1>2, <1>3, <1>4, <1>5, <1>8 DEF Promise!Summary
  <1>9. QED
    BY <1>6, <1>7, <1>8

(* Steps before a call routes, or that move a goroutine without a result,
   change nothing the promise speaks of. *)
LEMMA SilentSteps ==
  ASSUME RouterInv, NEW c \in Calls,
         \/ StartCall(c) \/ Collect(c) \/ Cancel(c)
         \/ \E p \in Pods : AcquireSlot(c, p) \/ Leave(c, p)
  PROVE  UNCHANGED <<PromisedStage, listed, PromisedOutcome, reply>>
  <1>1. UNCHANGED <<listed, result, reply>>
    BY DEF StartCall, Collect, Cancel, AcquireSlot, Leave
  <1>2. PromisedStage' = PromisedStage
    BY DEF RouterInv, TypeOK, StartCall, Collect, Cancel, AcquireSlot, Leave,
           PromisedStage, Stage
  <1>3. QED
    BY <1>1, <1>2 DEF PromisedOutcome

(* A pod's first result is its answer. *)
LEMMA ResultAnswers ==
  ASSUME RouterInv, NEW c \in Calls, NEW p \in Pods, NEW r \in Results \ {"none"},
         result[c][p] = "none", p \in listed[c],
         phase[c] \in {"dispatching", "collecting"},
         result' = [result EXCEPT ![c][p] = r],
         UNCHANGED <<phase, listed, reply>>
  PROVE  Promise!Answer(c, p, Outcome(r)) /\ Outcome(r) \in {"ok", "error"}
  <1>1. Outcome(r) \in {"ok", "error"} /\ Outcome("none") = "none"
    BY DEF Outcome, Results
  <1>2. PromisedStage[c] = "routing" /\ PromisedStage' = PromisedStage
    BY DEF PromisedStage, Stage
  <1>3. PromisedOutcome[c][p] = "none"
    BY <1>1 DEF PromisedOutcome
  <1>4. PromisedOutcome' = [PromisedOutcome EXCEPT ![c][p] = Outcome(r)]
    BY DEF PromisedOutcome, RouterInv, TypeOK
  <1>5. QED
    BY <1>1, <1>2, <1>3, <1>4
    DEF Promise!Answer, Promise!NoOutcome, PromisedStage, PromisedOutcome

(* The steps that give a pod its result. *)
LEMMA AnsweringSteps ==
  ASSUME RouterInv, NEW c \in Calls, NEW p \in Pods,
         Dispatch(c, p) \/ GiveUp(c, p) \/ CheckCircuit(c, p)
           \/ CallSucceeds(c, p) \/ CallFails(c, p)
  PROVE  \/ \E o \in {"ok", "error"} : Promise!Answer(c, p, o)
         \/ UNCHANGED <<PromisedStage, listed, PromisedOutcome, reply>>
  <1> USE DEF RouterInv
  <1>1. UNCHANGED <<phase, listed, reply>>
    BY DEF Dispatch, GiveUp, CheckCircuit, CallSucceeds, CallFails
  <1>2. /\ result[c][p] = "none"
        /\ p \in listed[c]
        /\ phase[c] \in {"dispatching", "collecting"}
    <2>1. CASE Dispatch(c, p)
      BY <2>1 DEF Dispatch, Bookkeeping
    <2>2. CASE worker[c][p] \in {"waiting", "holding"} \cup InFlight
      BY <2>2 DEF Bookkeeping, InFlight, TypeOK, Phases
    <2>3. QED
      BY <2>1, <2>2 DEF GiveUp, CheckCircuit, CallSucceeds, CallFails, Moves
  <1>3. \/ UNCHANGED result
        \/ \E r \in Results \ {"none"} : result' = [result EXCEPT ![c][p] = r]
    BY DEF Dispatch, GiveUp, CheckCircuit, CallSucceeds, CallFails, Results
  <1>4. CASE UNCHANGED result
    BY <1>1, <1>4 DEF PromisedStage, PromisedOutcome, Stage
  <1>5. CASE \E r \in Results \ {"none"} : result' = [result EXCEPT ![c][p] = r]
    BY <1>1, <1>2, <1>5, ResultAnswers
  <1>6. QED
    BY <1>3, <1>4, <1>5

(* Listing begins the promised call or refuses it. *)
LEMMA ListingSteps ==
  ASSUME RouterInv, NEW c \in Calls
  PROVE  /\ \A S \in SUBSET Pods : ListNodes(c, S) => Promise!Begin(c, S)
         /\ ListFails(c) => Promise!Refuse(c)
  <1> USE DEF RouterInv, TypeOK
  <1>1. ASSUME NEW S \in SUBSET Pods, ListNodes(c, S)
        PROVE  Promise!Begin(c, S)
    BY <1>1 DEF ListNodes, Promise!Begin, Stage
  <1>2. ASSUME ListFails(c)
        PROVE  Promise!Refuse(c)
    <2>1. phase[c] = "listing" /\ Ends(c, "error")
      BY <1>2 DEF ListFails
    <2>2. listed' = listed /\ result' = result
      <3>1. listed[c] = {} /\ \A p \in Pods : result[c][p] = "none"
        BY <2>1 DEF Bookkeeping
      <3>2. listed' = listed
        BY <2>1, <3>1 DEF Ends
      <3>3. result[c] = [p \in Pods |-> "none"]
        BY <3>1
      <3>4. result' = result
        BY <2>1, <3>3 DEF Ends
      <3>5. QED  BY <3>2, <3>4
    <2>3. PromisedStage' = PromisedStage /\ PromisedStage[c] = "idle"
      BY <2>1 DEF Ends, PromisedStage, Stage
    <2>4. QED
      BY <2>1, <2>2, <2>3 DEF Promise!Refuse, Ends, PromisedStage
  <1>3. QED
    BY <1>1, <1>2

(* Returning: every listed pod has its result by then, and the reply is the
   summary of them. *)
LEMMA ReturnStep ==
  ASSUME RouterInv, NEW c \in Calls, Return(c)
  PROVE  Promise!Return(c)
  <1> USE DEF RouterInv, TypeOK
  <1>1. /\ phase[c] = "collecting"
        /\ \A p \in Pods : worker[c][p] \in {"none", "done"}
        /\ Ends(c, Status(c))
    BY DEF Return
  <1>2. \A p \in Pods : result[c][p] # "none" <=> p \in listed[c]
    BY <1>1 DEF Bookkeeping
  <1>3. \A p \in listed[c] : PromisedOutcome[c][p] # "none"
    BY <1>2, OutcomeValues DEF PromisedOutcome
  <1>4. Status(c) = Promise!Summary(listed[c], PromisedOutcome[c])
    BY <1>2, StatusIsSummary
  <1>5. /\ PromisedStage[c] = "routing"
        /\ PromisedStage' = [PromisedStage EXCEPT ![c] = "idle"]
    BY <1>1 DEF Ends, PromisedStage, Stage
  <1>6. PromisedOutcome' = [PromisedOutcome EXCEPT ![c] = [p \in Pods |-> "none"]]
    BY <1>1, OutcomeValues DEF Ends, PromisedOutcome
  <1>7. /\ listed' = [listed EXCEPT ![c] = {}]
        /\ reply' = [reply EXCEPT ![c] = Status(c)]
    BY <1>1 DEF Ends
  <1>8. QED
    BY <1>3, <1>4, <1>5, <1>6, <1>7
    DEF Promise!Return, Promise!NoOutcome, PromisedStage, PromisedOutcome

(* router.go and proxy.go: whatever circuits, semaphores, failures and
   cancellations do, each pod listed ready gets one outcome, it never changes,
   and the reply is made of all of them. *)
THEOREM RouterImplementsFanOut == Spec => ImplementsFanOut
  <1>1. Init => Promise!Init
    BY OutcomeValues DEF Init, Promise!Init, Stage, Promise!NoOutcome
  <1>2. RouterInv /\ [Next]_vars => [Promise!Next]_(Promise!vars)
    <2> SUFFICES ASSUME RouterInv, [Next]_vars
                 PROVE  \/ Promise!Next
                        \/ UNCHANGED <<PromisedStage, listed, PromisedOutcome, reply>>
      BY DEF Promise!vars, PromisedStage, PromisedOutcome
    <2>1. ASSUME NEW c \in Calls, StartCall(c) \/ Cancel(c)
          PROVE  UNCHANGED <<PromisedStage, listed, PromisedOutcome, reply>>
      BY <2>1, SilentSteps
    <2>2. ASSUME NEW c \in Calls, Caller(c)
          PROVE  \/ Promise!Next
                 \/ UNCHANGED <<PromisedStage, listed, PromisedOutcome, reply>>
      BY <2>2, ListingSteps, AnsweringSteps, SilentSteps, ReturnStep
      DEF Caller, Promise!Next, Promise!Outcomes
    <2>3. ASSUME NEW c \in Calls, NEW p \in Pods, Goroutine(c, p)
          PROVE  \/ Promise!Next
                 \/ UNCHANGED <<PromisedStage, listed, PromisedOutcome, reply>>
      BY <2>3, AnsweringSteps, SilentSteps
      DEF Goroutine, Promise!Next, Promise!Outcomes
    <2>4. CASE (\E n \in Nodes : Flap(n)) \/ ClockTick \/ UNCHANGED vars
      <3>1. UNCHANGED <<listed, result, reply, phase>>
        BY <2>4 DEF Flap, ClockTick, callVars, vars
      <3>2. QED
        BY <3>1 DEF PromisedStage, PromisedOutcome, Stage
    <2>5. QED
      BY <2>1, <2>2, <2>3, <2>4 DEF Next
  <1>3. QED
    BY <1>1, <1>2, RouterInvariant, PTL DEF Spec, ImplementsFanOut, Promise!Spec
===============================================================================
