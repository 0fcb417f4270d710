------------------------------ MODULE StdioBridge ------------------------------
(***************************************************************************)
(* KubectlBridge of npm/bin/k8s-gpu-mcp-server: every line of stdin is a   *)
(* message to the gateway, sent through a kubectl port-forward that the    *)
(* first message starts and later ones share.                              *)
(*                                                                         *)
(* Node runs one callback at a time, and with it everything that only      *)
(* waits for a settled promise; an action is such a callback.  Between two *)
(* of them other messages, the child processes and the timers go on.       *)
(*                                                                         *)
(* A message starts at most one port-forward, so that forward is named by  *)
(* the message.  Every forward listens on a port of its own (LOCAL_PORT 0).*)
(* The gateway is stateless (http.go:47) and issues no session id.         *)
(***************************************************************************)
EXTENDS Integers, FiniteSets

CONSTANTS
  Requests,       \* messages with an id
  Notifications,  \* messages without
  NoForward       \* null

ASSUME BridgeAssumption ==
  /\ Requests \cap Notifications = {}
  /\ NoForward \notin Requests \cup Notifications

VARIABLES
  message,      \* of each message: "unread", "discovering", "connecting",
                \* "sent", "failed" or "delivered"
  replies,      \* lines written to stdout for it
  via,          \* the forward whose port it was sent to
  discovered,   \* namespace and service are set
  portForward,  \* this.portForward
  localPort,    \* this.localPort: the forward that has it
  ready,        \* this.ready
  forward,      \* of each forward: "none", "starting", "listening" or "dead"
  resolved,     \* forwards that printed their port
  timer,        \* forwards whose 30 seconds are not over
  killed,       \* forwards that were sent a SIGTERM
  overlap,      \* history: two forwards were alive at the same time
  exited        \* the bridge is gone

connection == <<portForward, localPort, ready>>
children == <<forward, resolved, timer, killed>>
vars == <<message, replies, via, discovered, connection, children, overlap, exited>>

Messages == Requests \cup Notifications

BridgeInit ==
  /\ message = [m \in Messages |-> "unread"]
  /\ replies = [m \in Messages |-> 0]
  /\ via = [m \in Messages |-> NoForward]
  /\ discovered = FALSE
  /\ portForward = NoForward /\ localPort = NoForward /\ ready = FALSE
  /\ forward = [m \in Messages |-> "none"]
  /\ resolved = {} /\ timer = {} /\ killed = {}
  /\ overlap = FALSE /\ exited = FALSE

Alive(f) == forward[f] \in {"starting", "listening"}

(* The handler of a line ends; a notification writes nothing. *)
End(m, how) ==
  /\ message' = [message EXCEPT ![m] = how]
  /\ replies' = [replies EXCEPT ![m] = IF m \in Requests THEN @ + 1 ELSE @]

-------------------------------------------------------------------------------
(* ensureConnected and what follows it.                                    *)

(* Mutant of Pending: a promise that is settled may be settled again. *)
NeverSettled(m) == message[m] # "unread"

(* The promise of startPortForward is pending until its message goes on. *)
Pending(m) == message[m] = "connecting"

StartPortForward(m) ==
  /\ message' = [message EXCEPT ![m] = "connecting"]
  /\ portForward' = m
  /\ forward' = [forward EXCEPT ![m] = "starting"]
  /\ timer' = timer \cup {m}
  /\ overlap' = (overlap \/ \E f \in Messages : Alive(f))
  /\ UNCHANGED <<replies, via, localPort, ready, resolved, killed>>

(* A line is read. *)
ReadLine(m) ==
  /\ message[m] = "unread" /\ ~ exited
  /\ \/ /\ ready /\ portForward # NoForward
        /\ message' = [message EXCEPT ![m] = "sent"]
        /\ via' = [via EXCEPT ![m] = localPort]
        /\ UNCHANGED <<replies, connection, children, overlap>>
     \/ /\ ~ (ready /\ portForward # NoForward) /\ ~ discovered
        /\ message' = [message EXCEPT ![m] = "discovering"]
        /\ UNCHANGED <<replies, via, connection, children, overlap>>
     \/ /\ ~ (ready /\ portForward # NoForward) /\ discovered
        /\ StartPortForward(m)
  /\ UNCHANGED <<discovered, exited>>

(* kubectl get svc is over, well or not; nobody looks at ready again. *)
Discovered(m) ==
  /\ message[m] = "discovering" /\ ~ exited
  /\ discovered' = TRUE
  /\ StartPortForward(m)
  /\ UNCHANGED exited

(* kubectl prints its port.  A promise that the timer rejected stays
   rejected, but the forward counts as resolved. *)
ForwardListens(f) ==
  /\ forward[f] = "starting" /\ ~ exited
  /\ forward' = [forward EXCEPT ![f] = "listening"]
  /\ resolved' = resolved \cup {f}
  /\ IF Pending(f)
     THEN /\ localPort' = f /\ ready' = TRUE
          /\ message' = [message EXCEPT ![f] = "sent"]
          /\ via' = [via EXCEPT ![f] = f]
     ELSE UNCHANGED <<localPort, ready, message, via>>
  /\ UNCHANGED <<replies, discovered, portForward, timer, killed, overlap, exited>>

(* Mutant of ForwardExits: a lost connection is still believed in. *)
ForwardExitsUnnoticed(f) ==
  /\ Alive(f) /\ ~ exited
  /\ forward' = [forward EXCEPT ![f] = "dead"]
  /\ IF f \in resolved
     THEN portForward' = NoForward /\ UNCHANGED <<message, replies>>
     ELSE /\ IF Pending(f) THEN End(f, "failed") ELSE UNCHANGED <<message, replies>>
          /\ UNCHANGED portForward
  /\ UNCHANGED <<via, discovered, ready, localPort, resolved, timer, killed, overlap, exited>>

(* kubectl exits, or could not be started.  Whichever forward it is, an
   exit after the start clears the connection. *)
ForwardExits(f) ==
  /\ Alive(f) /\ ~ exited
  /\ forward' = [forward EXCEPT ![f] = "dead"]
  /\ IF f \in resolved
     THEN ready' = FALSE /\ portForward' = NoForward /\ UNCHANGED <<message, replies>>
     ELSE /\ IF Pending(f) THEN End(f, "failed") ELSE UNCHANGED <<message, replies>>
          /\ UNCHANGED <<ready, portForward>>
  /\ UNCHANGED <<via, discovered, localPort, resolved, timer, killed, overlap, exited>>

(* Mutant of Cleanup: only a forward that is ready is killed. *)
CleanupReady ==
  /\ killed' = IF portForward # NoForward /\ ready THEN killed \cup {portForward} ELSE killed
  /\ portForward' = NoForward

(* cleanup() kills the forward of the moment, whose timer or signal it may
   not be. *)
Cleanup ==
  /\ killed' = IF portForward # NoForward /\ Alive(portForward)
               THEN killed \cup {portForward} ELSE killed
  /\ portForward' = NoForward

(* Mutant of ForwardTimeout: a forward that exited early is not pending, and
   one that prints nothing is left alone. *)
TimeoutIgnored(f) ==
  /\ f \in timer /\ ~ exited
  /\ timer' = timer \ {f}
  /\ UNCHANGED <<message, replies, via, discovered, connection, forward, resolved,
                 killed, overlap, exited>>

(* The timer is never cleared: it also fires for a forward that exited
   before it printed its port. *)
ForwardTimeout(f) ==
  /\ f \in timer /\ ~ exited
  /\ timer' = timer \ {f}
  /\ IF f \in resolved
     THEN UNCHANGED <<message, replies, portForward, killed>>
     ELSE /\ Cleanup
          /\ IF Pending(f) THEN End(f, "failed") ELSE UNCHANGED <<message, replies>>
  /\ UNCHANGED <<via, discovered, localPort, ready, forward, resolved, overlap, exited>>

-------------------------------------------------------------------------------
(* The request itself.                                                     *)

(* The gateway answers through a forward that listens. *)
GatewayAnswers(m) ==
  /\ message[m] = "sent" /\ ~ exited
  /\ forward[via[m]] = "listening"
  /\ End(m, "delivered")
  /\ UNCHANGED <<via, discovered, connection, children, overlap, exited>>

(* No connection, a lost one, or a status that is no success. *)
RequestFails(m) ==
  /\ message[m] = "sent" /\ ~ exited
  /\ End(m, "failed")
  /\ UNCHANGED <<via, discovered, connection, children, overlap, exited>>

(* SIGINT or SIGTERM. *)
Signal ==
  /\ ~ exited
  /\ exited' = TRUE
  /\ Cleanup
  /\ UNCHANGED <<message, replies, via, discovered, localPort, ready, forward,
                 resolved, timer, overlap>>

(* The children outlive the bridge; one that was killed ends. *)
ForwardDies(f) ==
  /\ exited /\ f \in killed /\ Alive(f)
  /\ forward' = [forward EXCEPT ![f] = "dead"]
  /\ UNCHANGED <<message, replies, via, discovered, connection, resolved, timer,
                 killed, overlap, exited>>

Step(m) ==
  \/ ReadLine(m) \/ Discovered(m) \/ ForwardListens(m) \/ ForwardExits(m)
  \/ ForwardTimeout(m) \/ GatewayAnswers(m) \/ RequestFails(m) \/ ForwardDies(m)

BridgeNext == Signal \/ \E m \in Messages : Step(m)

BridgeSpec == BridgeInit /\ [][BridgeNext]_vars

(* kubectl get returns, timers fire, a process that was killed ends, a
   request gets its answer or an error.  Nobody needs to send a line or a
   signal, and a forward needs neither to listen nor to exit. *)
FairBridge ==
  /\ BridgeSpec
  /\ \A m \in Messages :
       /\ WF_vars(Discovered(m))
       /\ WF_vars(ForwardTimeout(m))
       /\ WF_vars(GatewayAnswers(m) \/ RequestFails(m))

-------------------------------------------------------------------------------
(* Properties.                                                             *)

BridgeTypeOK ==
  /\ message \in [Messages -> {"unread", "discovering", "connecting", "sent",
                               "failed", "delivered"}]
  /\ replies \in [Messages -> Nat]
  /\ via \in [Messages -> Messages \cup {NoForward}]
  /\ discovered \in BOOLEAN /\ ready \in BOOLEAN
  /\ overlap \in BOOLEAN /\ exited \in BOOLEAN
  /\ portForward \in Messages \cup {NoForward}
  /\ localPort \in Messages \cup {NoForward}
  /\ forward \in [Messages -> {"none", "starting", "listening", "dead"}]
  /\ resolved \subseteq Messages /\ timer \subseteq Messages /\ killed \subseteq Messages

(* However port-forwards start, die and time out in parallel: a bridge that
   calls itself ready sends to a port that somebody listens on (until it
   exits), and no message waits for a promise that is settled. *)
ReadyMeansListening ==
  ~ exited =>
    /\ ready => localPort # NoForward /\ forward[localPort] = "listening"
    /\ \A m \in Messages : message[m] = "connecting" =>
         forward[m] = "starting" /\ m \in timer /\ m \notin resolved

(* A request gets exactly one reply, written when its handler ends, and a
   notification none. *)
OneReplyPerRequest ==
  \A m \in Messages :
    replies[m] = IF m \in Requests /\ message[m] \in {"failed", "delivered"} THEN 1 ELSE 0

(* Every message that was read is delivered or fails, unless the bridge is
   told to exit. *)
EveryMessageEnds ==
  \A m \in Messages :
    message[m] # "unread" ~> exited \/ message[m] \in {"failed", "delivered"}

(* A bridge whose port-forwards never lived at the same time leaves none of
   them running that was not told to end.  (With an overlap it may: the later
   forward hides the earlier, and the exit of one hides the other.) *)
LoneForwardIsCleanedUp ==
  exited /\ ~ overlap => \A f \in Messages : Alive(f) => f \in killed

===============================================================================
