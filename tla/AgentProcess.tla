----------------------------- MODULE AgentProcess -----------------------------
(***************************************************************************)
(* The life of one agent or gateway process: main of cmd/agent/main.go,    *)
(* Server.Run of pkg/mcp/server.go, HTTPServer of pkg/mcp/http.go and the  *)
(* Init and Shutdown of pkg/nvml/real.go.                                  *)
(*                                                                         *)
(* Three goroutines: main; the one that runs the server and sends what     *)
(* Run returned to done; and the one Run starts to serve (ServeStdio or    *)
(* http.Server.Serve).  The oneshot transport serves in the second one.    *)
(* Around them the request handlers, which use the NVML library.           *)
(*                                                                         *)
(* The model starts when main has installed its signal handler.            *)
(***************************************************************************)
EXTENDS Integers

CONSTANT MaxHandlers  \* bound of the model: requests handled at once

ASSUME ProcessAssumption == MaxHandlers \in Nat \ {0}

VARIABLES
  transport,  \* the flags -port and -oneshot: "stdio", "oneshot" or "http"
  gateway,    \* the flag -gateway: a Kubernetes client and no NVML
  main,       \* where main is; "exited" and "failed" are status 0 and 1
  signal,     \* sigCh holds a signal
  ctxDone,    \* main called cancel()
  done,       \* what was sent to done, read or not: "empty", "nil", "error"
  server,     \* where Server.Run is
  serving,    \* the serving goroutine: "off", "on", "ended" or "failed"
  stdin,      \* "open"; "eof", all of it read; or "closed" by runStdio
  handlers,   \* requests being handled
  nvml        \* the library: "unused", "up" or "down"

flags == <<transport, gateway>>
mainVars == <<main, ctxDone, nvml>>
serverVars == <<done, server, serving>>
vars == <<flags, mainVars, serverVars, signal, stdin, handlers>>

(* The process is gone, and with it every goroutine: a guard of all actions
   that are not main's own. *)
Ended == main \in {"exited", "failed"}

TypeOK ==
  /\ transport \in {"stdio", "oneshot", "http"} /\ gateway \in BOOLEAN
  /\ main \in {"setup", "building", "selecting", "waiting", "deferred",
               "flushing", "exited", "failed"}
  /\ signal \in BOOLEAN /\ ctxDone \in BOOLEAN
  /\ done \in {"empty", "nil", "error"}
  /\ server \in {"off", "starting", "running", "stopping", "draining", "returned"}
  /\ serving \in {"off", "on", "ended", "failed"}
  /\ stdin \in {"open", "eof", "closed"}
  /\ handlers \in 0..MaxHandlers
  /\ nvml \in {"unused", "up", "down"}

Init ==
  /\ transport \in {"stdio", "oneshot", "http"} /\ gateway \in BOOLEAN
  /\ main = "setup" /\ signal = FALSE /\ ctxDone = FALSE /\ done = "empty"
  /\ server = "off" /\ serving = "off" /\ stdin = "open"
  /\ handlers = 0 /\ nvml = "unused"

-------------------------------------------------------------------------------
(***************************************************************************)
(* main.                                                                   *)
(***************************************************************************)

(* The Kubernetes client, or nvmlClient.Init(ctx); os.Exit(1) if it fails. *)
Setup ==
  /\ main = "setup"
  /\ \/ main' = "building" /\ nvml' = IF gateway THEN nvml ELSE "up"
     \/ main' = "failed" /\ UNCHANGED nvml
  /\ UNCHANGED <<flags, ctxDone, serverVars, signal, stdin, handlers>>

\* mcp.New, and the goroutine that runs the server.
Build ==
  /\ main = "building"
  /\ \/ main' = "selecting" /\ server' = "starting"
     \/ main' = "failed" /\ UNCHANGED server
  /\ UNCHANGED <<flags, ctxDone, nvml, done, serving, signal, stdin, handlers>>

\* case sig := <-sigCh
TakeSignal ==
  /\ main = "selecting" /\ signal
  /\ signal' = FALSE
  /\ ctxDone' = TRUE
  /\ main' = "waiting"
  /\ UNCHANGED <<flags, nvml, serverVars, stdin, handlers>>

\* Mutant of TakeDone: the error is logged and forgotten.
TakeDoneForgiving ==
  /\ main = "selecting" /\ done # "empty"
  /\ main' = "deferred"
  /\ UNCHANGED <<flags, ctxDone, nvml, serverVars, signal, stdin, handlers>>

(* case err := <-done: os.Exit(1), which runs no deferred call, if Run
   returned an error. *)
TakeDone ==
  /\ main = "selecting" /\ done # "empty"
  /\ main' = IF done = "nil" THEN "deferred" ELSE "failed"
  /\ UNCHANGED <<flags, ctxDone, nvml, serverVars, signal, stdin, handlers>>

\* Mutant of AwaitDone: main does not wait for the server after a signal.
AwaitNothing ==
  /\ main = "waiting"
  /\ main' = "deferred"
  /\ UNCHANGED <<flags, ctxDone, nvml, serverVars, signal, stdin, handlers>>

\* <-done after a signal, whatever it holds.
AwaitDone ==
  /\ main = "waiting" /\ done # "empty"
  /\ main' = "deferred"
  /\ UNCHANGED <<flags, ctxDone, nvml, serverVars, signal, stdin, handlers>>

\* Mutant of ShutdownNvml: the library is shut down although ctx is done.
ShutdownNvmlAnyway ==
  /\ main = "deferred"
  /\ \/ nvml = "up" /\ nvml' = "down"
     \/ UNCHANGED nvml
  /\ main' = "flushing"
  /\ UNCHANGED <<flags, ctxDone, serverVars, signal, stdin, handlers>>

(* The deferred nvmlClient.Shutdown(ctx): refused when ctx is done, and the
   library's own shutdown may fail; either is only logged. *)
ShutdownNvml ==
  /\ main = "deferred"
  /\ \/ nvml = "up" /\ ~ ctxDone /\ nvml' = "down"
     \/ UNCHANGED nvml
  /\ main' = "flushing"
  /\ UNCHANGED <<flags, ctxDone, serverVars, signal, stdin, handlers>>

\* The other deferred calls, and the end of main.
Flush ==
  /\ main = "flushing"
  /\ ctxDone' = TRUE
  /\ main' = "exited"
  /\ UNCHANGED <<flags, nvml, serverVars, signal, stdin, handlers>>

-------------------------------------------------------------------------------
(***************************************************************************)
(* Server.Run and what it serves with.                                     *)
(***************************************************************************)
RunReturns(result) == server' = "returned" /\ done' = result

(* ListenAndServe binds its address first and may fail; runStdio cannot.
   Then the serving goroutine starts. *)
StartServing ==
  /\ ~ Ended
  /\ server = "starting"
  /\ \/ server' = "running" /\ serving' = "on" /\ UNCHANGED done
     \/ transport = "http" /\ RunReturns("error") /\ UNCHANGED serving
  /\ UNCHANGED <<flags, mainVars, signal, stdin, handlers>>

(* case <-ctx.Done() of runStdio closes stdin and waits for the serving
   goroutine; of ListenAndServe, it starts http.Server.Shutdown, which
   closes the listener. *)
StopServing ==
  /\ ~ Ended
  /\ server = "running" /\ transport # "oneshot" /\ ctxDone
  /\ server' = "stopping"
  /\ stdin' = IF transport = "stdio" THEN "closed" ELSE stdin
  /\ UNCHANGED <<flags, mainVars, done, serving, signal, handlers>>

(* case err := <-errCh of either: Run returns it and nobody stops the
   handlers. *)
ServingFailed ==
  /\ ~ Ended
  /\ server = "running" /\ serving = "failed"
  /\ RunReturns("error")
  /\ UNCHANGED <<flags, mainVars, serving, signal, stdin, handlers>>

\* Mutant of DrainStdio: the inner select waits for an error only.
DrainStdioFailedOnly ==
  /\ ~ Ended
  /\ server = "stopping" /\ transport = "stdio" /\ serving = "failed"
  /\ server' = "draining"
  /\ UNCHANGED <<flags, mainVars, done, serving, signal, stdin, handlers>>

\* The inner select of runStdio: done is closed or errCh holds an error.
DrainStdio ==
  /\ ~ Ended
  /\ server = "stopping" /\ transport = "stdio" /\ serving \in {"ended", "failed"}
  /\ server' = "draining"
  /\ UNCHANGED <<flags, mainVars, done, serving, signal, stdin, handlers>>

\* Shutdown: s.wg.Wait(), the goroutine being over; an error is swallowed.
ShutdownStdio ==
  /\ ~ Ended
  /\ server = "draining"
  /\ RunReturns("nil")
  /\ UNCHANGED <<flags, mainVars, serving, signal, stdin, handlers>>

(* http.Server.Shutdown with its timeout of 10s: nil when the handlers are
   done, an error when they are not in time. *)
ShutdownHTTP ==
  /\ ~ Ended
  /\ server = "stopping" /\ transport = "http"
  /\ \/ handlers = 0 /\ RunReturns("nil")
     \/ handlers > 0 /\ RunReturns("error")
  /\ UNCHANGED <<flags, mainVars, serving, signal, stdin, handlers>>

(* ServeStdio returns: nil at the end of the input, an error when reading
   fails or, as runStdio expects, when stdin was closed under it. *)
ServeStdioEnds ==
  /\ ~ Ended
  /\ transport = "stdio" /\ serving = "on"
  /\ \/ stdin # "open" /\ serving' = "ended"
     \/ serving' = "failed"
  /\ UNCHANGED <<flags, mainVars, done, server, signal, stdin, handlers>>

\* Serve returns: ErrServerClosed during a shutdown, else an error.
ServeHTTPEnds ==
  /\ ~ Ended
  /\ transport = "http" /\ serving = "on"
  /\ serving' = IF server \in {"stopping", "returned"} THEN "ended" ELSE "failed"
  /\ UNCHANGED <<flags, mainVars, done, server, signal, stdin, handlers>>

\* Mutant of OneshotEnds: the end of the input is not noticed.
OneshotEndsNotAtEOF ==
  /\ ~ Ended
  /\ transport = "oneshot" /\ server = "running" /\ handlers = 0
  /\ \/ ctxDone /\ RunReturns("nil")
     \/ stdin = "open" /\ RunReturns("error")
  /\ serving' = "ended"
  /\ UNCHANGED <<flags, mainVars, signal, stdin, handlers>>

(* OneshotTransport.Run returns between two requests: nil at the end of the
   input or, when cancelled, if it sees its channel closed first; an error
   when cancelled or when reading fails. *)
OneshotEnds ==
  /\ ~ Ended
  /\ transport = "oneshot" /\ server = "running" /\ handlers = 0
  /\ \/ (stdin = "eof" \/ ctxDone) /\ RunReturns("nil")
     \/ RunReturns("error")
  /\ serving' = "ended"
  /\ UNCHANGED <<flags, mainVars, signal, stdin, handlers>>

(* A request arrives: until http.Server.Shutdown closed the listener, or out
   of what the stdio transports have read.  Oneshot handles one at a time. *)
HandlerStarts ==
  /\ ~ Ended
  /\ serving = "on"
  /\ \/ transport = "http" /\ server = "running" /\ handlers < MaxHandlers
     \/ transport = "stdio" /\ stdin # "eof" /\ handlers < MaxHandlers
     \/ transport = "oneshot" /\ stdin # "eof" /\ handlers = 0
  /\ handlers' = handlers + 1
  /\ UNCHANGED <<flags, mainVars, serverVars, signal, stdin>>

\* Mutant of HandlerEnds: the end of a request is counted twice.
HandlerEndsTwice ==
  /\ ~ Ended
  /\ handlers > 0
  /\ handlers' = handlers - 2
  /\ \/ UNCHANGED serverVars
     \/ transport = "oneshot" /\ RunReturns("nil") /\ serving' = "ended"
  /\ UNCHANGED <<flags, mainVars, signal, stdin>>

\* A request is answered; in the oneshot transport it may be the N-th.
HandlerEnds ==
  /\ ~ Ended
  /\ handlers > 0
  /\ handlers' = handlers - 1
  /\ \/ UNCHANGED serverVars
     \/ transport = "oneshot" /\ RunReturns("nil") /\ serving' = "ended"
  /\ UNCHANGED <<flags, mainVars, signal, stdin>>

-------------------------------------------------------------------------------
\* SIGINT or SIGTERM; one more than sigCh holds is dropped.
Signal ==
  /\ ~ Ended
  /\ ~ signal
  /\ signal' = TRUE
  /\ UNCHANGED <<flags, mainVars, serverVars, stdin, handlers>>

\* The client closes its end of stdin.
ClientLeaves ==
  /\ ~ Ended
  /\ transport # "http" /\ stdin = "open"
  /\ stdin' = "eof"
  /\ UNCHANGED <<flags, mainVars, serverVars, signal, handlers>>

Main == Setup \/ Build \/ TakeSignal \/ TakeDone \/ AwaitDone \/ ShutdownNvml \/ Flush
Server == StartServing \/ StopServing \/ ServingFailed \/ DrainStdio
            \/ ShutdownStdio \/ ShutdownHTTP \/ OneshotEnds
Serving == ServeStdioEnds \/ ServeHTTPEnds
Environment == Signal \/ ClientLeaves \/ HandlerStarts \/ HandlerEnds

Next == Main \/ Server \/ Serving \/ Environment

Spec == Init /\ [][Next]_vars

(***************************************************************************)
(* The goroutines are scheduled.  ServeStdio returns once stdin is closed  *)
(* (the assumption runStdio rests on).  A handler of the oneshot transport *)
(* ends, and its select, a random choice, does not pass over ctx.Done()    *)
(* for ever; of HTTP and stdio no handler has to end.                      *)
(***************************************************************************)
Fairness ==
  /\ WF_vars(Main)
  /\ WF_vars(Server)
  /\ WF_vars(stdin # "open" /\ ServeStdioEnds)
  /\ SF_vars(ctxDone /\ OneshotEnds)
  /\ WF_vars(transport = "oneshot" /\ HandlerEnds)

FairSpec == Spec /\ Fairness

-------------------------------------------------------------------------------
(***************************************************************************)
(* The library outlives the handlers: NVML is shut down only when no       *)
(* request is being handled and none can arrive.  http.Server.Shutdown     *)
(* gives up on handlers after 10s, and ServeStdio may leave some behind;   *)
(* what keeps this true is that Shutdown refuses a cancelled context.      *)
(***************************************************************************)
LibraryOutlivesHandlers == nvml = "down" => handlers = 0 /\ serving # "on"

(***************************************************************************)
(* Status 0 means the process was told to stop or a oneshot run was        *)
(* complete: a server that fails, or stops, on its own is never reported   *)
(* as success, whatever signals arrive meanwhile.                          *)
(***************************************************************************)
ZeroStatusIsDeserved ==
  main \in {"deferred", "flushing"} =>
    ctxDone \/ (transport = "oneshot" /\ done = "nil")

(***************************************************************************)
(* main's deferred calls run after the server goroutine has sent its       *)
(* result and, with stdio, after the goroutine that reads stdin and writes *)
(* stdout is over.                                                         *)
(***************************************************************************)
ServerIsOverFirst ==
  main \in {"deferred", "flushing", "exited"} =>
    server = "returned" /\ (transport # "http" => serving # "on")

(***************************************************************************)
(* A signal ends the process, in whatever phase it finds it and with       *)
(* requests in progress or not.                                            *)
(***************************************************************************)
SignalEndsProcess == signal ~> Ended

(***************************************************************************)
(* A oneshot process ends when its input does.  (One that serves stdio for *)
(* good does not: it waits for a signal.)                                  *)
(***************************************************************************)
OneshotProcessEnds == transport = "oneshot" /\ stdin = "eof" ~> Ended

(***************************************************************************)
(* pkg/nvml/interface.go on Shutdown: "Should be called when done using    *)
(* NVML".  The deferred call finds a context Real.Shutdown accepts, and so *)
(* reaches the library.  Refuted by a run.                                 *)
(***************************************************************************)
DeferredShutdownReachesNvml == main = "deferred" /\ nvml = "up" => ~ ctxDone
===============================================================================
