--------------------------- MODULE StdioBridgeProofs ---------------------------
(***************************************************************************)
(* The safety properties of StdioBridge for any number of messages, and so *)
(* of port-forwards that start, exit and time out in parallel.             *)
(***************************************************************************)
EXTENDS StdioBridge, TLAPS

\* A message that did not get to it started no forward.
NoForwardYet ==
  \A m \in Messages : message[m] \in {"unread", "discovering"} => forward[m] = "none"

\* resolved is what its forward printed: its port, before it listens.
ResolvedWhenListening ==
  \A f \in Messages :
    /\ forward[f] = "listening" => f \in resolved
    /\ forward[f] \in {"none", "starting"} => f \notin resolved

\* Forwards that never overlapped: one is alive at most, and it is the
\* connection's or was told to end.
LoneForward ==
  ~ overlap =>
    /\ \A f, g \in Messages : Alive(f) /\ Alive(g) => f = g
    /\ \A f \in Messages : Alive(f) => f \in killed \/ (~ exited /\ portForward = f)

BridgeInv ==
  /\ BridgeTypeOK
  /\ NoForwardYet
  /\ ResolvedWhenListening
  /\ ReadyMeansListening
  /\ OneReplyPerRequest
  /\ LoneForward
-------------------------------------------------------------------------------
(***************************************************************************)
(* Null is no message, so that no forward has its name.                    *)
(***************************************************************************)
LEMMA NoForwardIsNone == NoForward \notin Messages
  BY BridgeAssumption DEF BridgeAssumption, Messages

(***************************************************************************)
(* A bridge starts in the invariant.                                       *)
(***************************************************************************)
LEMMA BridgeInitInv == BridgeInit => BridgeInv
<1> SUFFICES ASSUME BridgeInit PROVE BridgeInv
  OBVIOUS
<1> USE DEF BridgeInit
<1>1. BridgeTypeOK
  BY DEF BridgeTypeOK
<1>2. NoForwardYet /\ ResolvedWhenListening /\ ReadyMeansListening
  BY DEF NoForwardYet, ResolvedWhenListening, ReadyMeansListening
<1>3. OneReplyPerRequest
  BY DEF OneReplyPerRequest
<1>4. LoneForward
  BY DEF LoneForward, Alive
<1> QED
  BY <1>1, <1>2, <1>3, <1>4 DEF BridgeInv

(***************************************************************************)
(* A message starts its forward: the name is not in use, and a forward     *)
(* that is alive makes an overlap.                                         *)
(***************************************************************************)
LEMMA StartInv ==
  ASSUME NEW m \in Messages, BridgeInv, StartPortForward(m),
         message[m] \in {"unread", "discovering"}, ~ exited,
         discovered' \in BOOLEAN, UNCHANGED exited
  PROVE  BridgeInv'
<1> USE DEF BridgeInv, StartPortForward
<1>1. forward[m] = "none" /\ m \notin resolved
  BY DEF NoForwardYet, ResolvedWhenListening
<1>2. BridgeTypeOK'
  BY DEF BridgeTypeOK
<1>3. NoForwardYet' /\ ResolvedWhenListening'
  BY <1>1 DEF NoForwardYet, ResolvedWhenListening, BridgeTypeOK
<1>4. ReadyMeansListening'
  BY <1>1, NoForwardIsNone DEF ReadyMeansListening, BridgeTypeOK
<1>5. OneReplyPerRequest'
  BY DEF OneReplyPerRequest, BridgeTypeOK
<1>6. LoneForward'
  <2>1. SUFFICES ASSUME ~ overlap' PROVE LoneForward'
    BY DEF LoneForward
  <2>2. \A f \in Messages : ~ Alive(f)
    BY <2>1 DEF BridgeTypeOK
  <2>3. \A f \in Messages : Alive(f)' => f = m
    BY <2>2 DEF Alive, BridgeTypeOK
  <2> QED
    BY <2>3 DEF LoneForward
<1> QED
  BY <1>2, <1>3, <1>4, <1>5, <1>6

(***************************************************************************)
(* Every step of a message, its forward or its timer keeps the invariant.  *)
(***************************************************************************)
LEMMA BridgeMessageInv == ASSUME NEW m \in Messages, BridgeInv, Step(m) PROVE BridgeInv'
<1>1. CASE ReadLine(m)
  <2>1. CASE StartPortForward(m)
    BY <1>1, <2>1, StartInv DEF ReadLine, BridgeInv, BridgeTypeOK
  <2>2. CASE ~ StartPortForward(m)
    BY <1>1, <2>2 DEF ReadLine, BridgeInv, BridgeTypeOK, NoForwardYet, LoneForward, Alive,
         ResolvedWhenListening, ReadyMeansListening, OneReplyPerRequest, connection, children
  <2> QED
    BY <2>1, <2>2
<1>2. CASE Discovered(m)
  BY <1>2, StartInv DEF Discovered, BridgeInv, BridgeTypeOK
<1>3. CASE ForwardListens(m)
  <2> USE <1>3 DEF ForwardListens, BridgeInv, BridgeTypeOK
  <2>1. BridgeTypeOK'
    BY DEF Pending
  <2>2. NoForwardYet'
    BY DEF NoForwardYet, Pending
  <2>3. ResolvedWhenListening'
    BY DEF ResolvedWhenListening
  <2>4. ReadyMeansListening'
    BY NoForwardIsNone DEF ReadyMeansListening, Pending
  <2>5. OneReplyPerRequest'
    BY DEF OneReplyPerRequest, Pending
  <2>6. LoneForward'
    BY DEF LoneForward, Alive
  <2> QED
    BY <2>1, <2>2, <2>3, <2>4, <2>5, <2>6
<1>4. CASE ForwardExits(m)
  <2> USE <1>4 DEF ForwardExits, BridgeInv, BridgeTypeOK
  <2>1. BridgeTypeOK'
    <3>1. /\ message' \in [Messages -> {"unread", "discovering", "connecting", "sent",
                                       "failed", "delivered"}]
          /\ replies' \in [Messages -> Nat]
      BY DEF End
    <3>2. portForward' \in Messages \cup {NoForward} /\ ready' \in BOOLEAN
      OBVIOUS
    <3> QED
      BY <3>1, <3>2
  <2>2. NoForwardYet' /\ ResolvedWhenListening'
    BY DEF NoForwardYet, ResolvedWhenListening, Alive, End
  <2>3. ReadyMeansListening'
    BY DEF ReadyMeansListening, ResolvedWhenListening, Pending, End
  <2>4. OneReplyPerRequest'
    BY DEF OneReplyPerRequest, Pending, End
  <2>5. LoneForward'
    BY DEF LoneForward, Alive
  <2> QED
    BY <2>1, <2>2, <2>3, <2>4, <2>5
<1>5. CASE ForwardTimeout(m)
  <2> USE <1>5 DEF ForwardTimeout, BridgeInv, BridgeTypeOK
  <2>1. BridgeTypeOK'
    BY DEF Cleanup, End
  <2>2. NoForwardYet' /\ ResolvedWhenListening'
    BY DEF NoForwardYet, ResolvedWhenListening, Pending, End
  <2>3. ReadyMeansListening'
    BY DEF ReadyMeansListening, Pending, End
  <2>4. OneReplyPerRequest'
    BY DEF OneReplyPerRequest, Pending, End
  <2>5. LoneForward'
    BY DEF LoneForward, Alive, Cleanup
  <2> QED
    BY <2>1, <2>2, <2>3, <2>4, <2>5
<1>6. CASE GatewayAnswers(m) \/ RequestFails(m)
  <2> USE <1>6 DEF GatewayAnswers, RequestFails, End, connection, children,
                   BridgeInv, BridgeTypeOK
  <2>1. BridgeTypeOK'
    OBVIOUS
  <2>2. NoForwardYet' /\ ResolvedWhenListening'
    BY DEF NoForwardYet, ResolvedWhenListening
  <2>3. ReadyMeansListening'
    BY DEF ReadyMeansListening
  <2>4. OneReplyPerRequest'
    BY DEF OneReplyPerRequest
  <2>5. LoneForward'
    BY DEF LoneForward, Alive
  <2> QED
    BY <2>1, <2>2, <2>3, <2>4, <2>5
<1>7. CASE ForwardDies(m)
  BY <1>7 DEF ForwardDies, BridgeInv, BridgeTypeOK, NoForwardYet, LoneForward, Alive,
       ResolvedWhenListening, ReadyMeansListening, OneReplyPerRequest, connection
<1> QED
  BY <1>1, <1>2, <1>3, <1>4, <1>5, <1>6, <1>7 DEF Step

LEMMA BridgeStepInv == BridgeInv /\ [BridgeNext]_vars => BridgeInv'
<1> SUFFICES ASSUME BridgeInv, [BridgeNext]_vars PROVE BridgeInv'
  OBVIOUS
<1>1. CASE Signal
  <2> USE <1>1 DEF Signal, Cleanup, BridgeInv, BridgeTypeOK
  <2>1. BridgeTypeOK'
    OBVIOUS
  <2>2. NoForwardYet' /\ ResolvedWhenListening' /\ ReadyMeansListening'
    BY DEF NoForwardYet, ResolvedWhenListening, ReadyMeansListening
  <2>3. OneReplyPerRequest'
    BY DEF OneReplyPerRequest
  <2>4. LoneForward'
    BY NoForwardIsNone DEF LoneForward, Alive
  <2> QED
    BY <2>1, <2>2, <2>3, <2>4
<1>2. ASSUME NEW m \in Messages, Step(m) PROVE BridgeInv'
  BY <1>2, BridgeMessageInv
<1>3. CASE UNCHANGED vars
  BY <1>3 DEF vars, connection, children, BridgeInv, BridgeTypeOK, NoForwardYet,
       LoneForward, Alive, ResolvedWhenListening, ReadyMeansListening, OneReplyPerRequest
<1> QED
  BY <1>1, <1>2, <1>3 DEF BridgeNext

(***************************************************************************)
(* The inductive invariant holds throughout.                               *)
(***************************************************************************)
THEOREM BridgeInvariant == BridgeSpec => []BridgeInv
  BY BridgeInitInv, BridgeStepInv, PTL DEF BridgeSpec

-------------------------------------------------------------------------------
(***************************************************************************)
(* The types of the bridge's fields, messages, children and timers.        *)
(***************************************************************************)
THEOREM BridgeTypeCorrect == BridgeSpec => []BridgeTypeOK
<1>1. BridgeInv => BridgeTypeOK
  BY DEF BridgeInv
<1> QED
  BY <1>1, BridgeInvariant, PTL

(***************************************************************************)
(* A ready bridge sends to a port that is open, and no message waits for a *)
(* promise that will not be settled.                                       *)
(***************************************************************************)
THEOREM ReadyIsListening == BridgeSpec => []ReadyMeansListening
<1>1. BridgeInv => ReadyMeansListening
  BY DEF BridgeInv
<1> QED
  BY <1>1, BridgeInvariant, PTL

(***************************************************************************)
(* One reply to a request whose handler ended, none to a notification.     *)
(***************************************************************************)
THEOREM RepliesAreExact == BridgeSpec => []OneReplyPerRequest
<1>1. BridgeInv => OneReplyPerRequest
  BY DEF BridgeInv
<1> QED
  BY <1>1, BridgeInvariant, PTL

(***************************************************************************)
(* Without an overlap no port-forward is left behind.                      *)
(***************************************************************************)
THEOREM LoneForwardsEnd == BridgeSpec => []LoneForwardIsCleanedUp
<1>1. BridgeInv => LoneForwardIsCleanedUp
  BY DEF BridgeInv, LoneForward, LoneForwardIsCleanedUp
<1> QED
  BY <1>1, BridgeInvariant, PTL
===============================================================================
