-------------------------- MODULE AgentProcessProofs --------------------------
(***************************************************************************)
(* The safety properties of AgentProcess for any number of handlers.       *)
(***************************************************************************)
EXTENDS AgentProcess, TLAPS

\* Before the server runs there is nothing to shut down.
BeforeServing ==
  main \in {"setup", "building"} =>
    server = "off" /\ serving = "off" /\ handlers = 0 /\ nvml # "down"

\* The context is cancelled by the signal branch and by nothing before Flush.
CancelledBySignal ==
  /\ main \in {"setup", "building", "selecting"} => ~ ctxDone
  /\ main = "waiting" => ctxDone

\* Run's result and its end go together; main goes on only with it.
ResultIsFinal ==
  /\ done # "empty" <=> server = "returned"
  /\ main \in {"deferred", "flushing", "exited"} => server = "returned"
  /\ main \in {"deferred", "flushing"} /\ ~ ctxDone => done = "nil"

\* Only a cancelled server is stopped; without that only oneshot ends with nil.
StoppedWhenCancelled ==
  /\ server \in {"stopping", "draining"} => ctxDone
  /\ server = "draining" => serving \in {"ended", "failed"}
  /\ done = "nil" /\ ~ ctxDone => transport = "oneshot"

\* What is left of each transport's serving when Run has returned.
ServingIsOver ==
  /\ server = "draining" => transport = "stdio"
  /\ transport = "stdio" /\ server = "returned" => serving # "on"
  /\ transport = "oneshot" => (serving = "on" <=> server = "running")
  /\ transport = "oneshot" => (handlers > 0 => handlers = 1 /\ serving = "on")

\* NVML goes down after a oneshot run and at no other time.
DownAfterOneshot ==
  nvml = "down" =>
    /\ transport = "oneshot" /\ server = "returned"
    /\ main \in {"flushing", "exited"}

IInv ==
  /\ TypeOK
  /\ BeforeServing
  /\ CancelledBySignal
  /\ ResultIsFinal
  /\ StoppedWhenCancelled
  /\ ServingIsOver
  /\ DownAfterOneshot
-------------------------------------------------------------------------------
(***************************************************************************)
(* A process starts in the invariant.                                      *)
(***************************************************************************)
LEMMA ProcessInitInv == Init => IInv
<1> SUFFICES ASSUME Init PROVE IInv
  OBVIOUS
<1>1. 0 \in 0..MaxHandlers
  BY ProcessAssumption DEF ProcessAssumption
<1>2. TypeOK
  BY <1>1, Zenon DEF Init, TypeOK
<1>3. /\ BeforeServing /\ CancelledBySignal /\ ResultIsFinal
      /\ StoppedWhenCancelled /\ DownAfterOneshot
  BY Zenon DEF Init, BeforeServing, CancelledBySignal, ResultIsFinal,
       StoppedWhenCancelled, DownAfterOneshot
<1>4. ServingIsOver
  BY DEF Init, ServingIsOver
<1> QED
  BY <1>2, <1>3, <1>4 DEF IInv

(***************************************************************************)
(* Every step of main keeps it.                                            *)
(***************************************************************************)
LEMMA MainInv == IInv /\ Main => IInv'
<1> SUFFICES ASSUME IInv, Main PROVE IInv'
  OBVIOUS
<1> USE DEF IInv, TypeOK, BeforeServing, CancelledBySignal, ResultIsFinal,
            StoppedWhenCancelled, ServingIsOver, DownAfterOneshot,
            flags, serverVars
<1>1. CASE Setup
  BY <1>1 DEF Setup
<1>2. CASE Build
  BY <1>2 DEF Build
<1>3. CASE TakeSignal
  BY <1>3 DEF TakeSignal
<1>4. CASE TakeDone
  BY <1>4 DEF TakeDone
<1>5. CASE AwaitDone
  BY <1>5 DEF AwaitDone
<1>6. CASE ShutdownNvml
  BY <1>6 DEF ShutdownNvml
<1>7. CASE Flush
  BY <1>7 DEF Flush
<1> QED
  BY <1>1, <1>2, <1>3, <1>4, <1>5, <1>6, <1>7 DEF Main

(***************************************************************************)
(* So does every step of Server.Run.                                       *)
(***************************************************************************)
LEMMA ServerInv == IInv /\ Server => IInv'
<1> SUFFICES ASSUME IInv, Server PROVE IInv'
  OBVIOUS
<1> USE DEF IInv, TypeOK, BeforeServing, CancelledBySignal, ResultIsFinal,
            StoppedWhenCancelled, ServingIsOver, DownAfterOneshot,
            Ended, flags, mainVars
<1>1. CASE StartServing
  BY <1>1 DEF StartServing, RunReturns
<1>2. CASE StopServing
  BY <1>2 DEF StopServing
<1>3. CASE ServingFailed
  BY <1>3 DEF ServingFailed, RunReturns
<1>4. CASE DrainStdio
  BY <1>4 DEF DrainStdio
<1>5. CASE ShutdownStdio
  BY <1>5 DEF ShutdownStdio, RunReturns
<1>6. CASE ShutdownHTTP
  BY <1>6 DEF ShutdownHTTP, RunReturns
<1>7. CASE OneshotEnds
  BY <1>7 DEF OneshotEnds, RunReturns
<1> QED
  BY <1>1, <1>2, <1>3, <1>4, <1>5, <1>6, <1>7 DEF Server

(***************************************************************************)
(* So does every step of the serving goroutine and of the environment.     *)
(***************************************************************************)
LEMMA SurroundingsInv == IInv /\ (Serving \/ Environment) => IInv'
<1> SUFFICES ASSUME IInv, Serving \/ Environment PROVE IInv'
  OBVIOUS
<1> USE DEF IInv, TypeOK, BeforeServing, CancelledBySignal, ResultIsFinal,
            StoppedWhenCancelled, ServingIsOver, DownAfterOneshot,
            Ended, flags, mainVars, serverVars
<1> USE ProcessAssumption DEF ProcessAssumption
<1>1. CASE ServeStdioEnds
  BY <1>1 DEF ServeStdioEnds
<1>2. CASE ServeHTTPEnds
  BY <1>2 DEF ServeHTTPEnds
<1>3. CASE Signal
  BY <1>3 DEF Signal
<1>4. CASE ClientLeaves
  BY <1>4 DEF ClientLeaves
<1>5. CASE HandlerStarts
  BY <1>5 DEF HandlerStarts
<1>6. CASE HandlerEnds
  BY <1>6 DEF HandlerEnds, RunReturns
<1> QED
  BY <1>1, <1>2, <1>3, <1>4, <1>5, <1>6 DEF Serving, Environment

LEMMA ProcessStepInv == IInv /\ [Next]_vars => IInv'
<1> SUFFICES ASSUME IInv, [Next]_vars PROVE IInv'
  OBVIOUS
<1>1. CASE Next
  BY <1>1, MainInv, ServerInv, SurroundingsInv DEF Next
<1>2. CASE UNCHANGED vars
  BY <1>2 DEF vars, flags, mainVars, serverVars, IInv, TypeOK, BeforeServing,
       CancelledBySignal, ResultIsFinal, StoppedWhenCancelled, ServingIsOver,
       DownAfterOneshot
<1> QED
  BY <1>1, <1>2

(***************************************************************************)
(* The inductive invariant holds throughout.                               *)
(***************************************************************************)
THEOREM ProcessInvariant == Spec => []IInv
  BY ProcessInitInv, ProcessStepInv, PTL DEF Spec

-------------------------------------------------------------------------------
(***************************************************************************)
(* The types of all program counters, channels and counters.               *)
(***************************************************************************)
THEOREM ProcessTypeCorrect == Spec => []TypeOK
<1>1. IInv => TypeOK
  BY DEF IInv
<1> QED
  BY <1>1, ProcessInvariant, PTL

(***************************************************************************)
(* NVML is never shut down under a request: it goes down after a oneshot   *)
(* run only, whose requests end before Run does.                           *)
(***************************************************************************)
THEOREM LibraryIsSafe == Spec => []LibraryOutlivesHandlers
<1>1. IInv => LibraryOutlivesHandlers
  BY DEF IInv, TypeOK, DownAfterOneshot, ServingIsOver, LibraryOutlivesHandlers
<1> QED
  BY <1>1, ProcessInvariant, PTL

(***************************************************************************)
(* main reaches its end with status 0 only when told to stop or after a    *)
(* complete oneshot run.                                                   *)
(***************************************************************************)
THEOREM ZeroStatusJustified == Spec => []ZeroStatusIsDeserved
<1>1. IInv => ZeroStatusIsDeserved
  BY DEF IInv, ResultIsFinal, StoppedWhenCancelled, ZeroStatusIsDeserved
<1> QED
  BY <1>1, ProcessInvariant, PTL

(***************************************************************************)
(* The deferred calls find the server, and a stdio serving goroutine, over.*)
(***************************************************************************)
THEOREM ServerOverBeforeDefers == Spec => []ServerIsOverFirst
<1>1. IInv => ServerIsOverFirst
  BY DEF IInv, TypeOK, ResultIsFinal, ServingIsOver, ServerIsOverFirst
<1> QED
  BY <1>1, ProcessInvariant, PTL
===============================================================================
