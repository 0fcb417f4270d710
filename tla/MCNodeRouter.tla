----------------------------- MODULE MCNodeRouter -----------------------------
(***************************************************************************)
(* Instances of the gateway's fan-out.                                     *)
(*                                                                         *)
(* Safety (NodeRouter.cfg): two calls at the same time, each for two pods  *)
(* of one node, so that up to four goroutines share a circuit, and         *)
(* semaphores of one slot, so that a goroutine waits while the circuit     *)
(* changes.  Liveness (NodeRouterLive.cfg): one call slot used again and   *)
(* again and a node for each pod.                                          *)
(***************************************************************************)
EXTENDS NodeRouter, TLC

CONSTANTS n1, n2, p1, p2, c1, c2

\* Two pods of one node, as during a rollout of the DaemonSet.
OneNode == [p \in {p1, p2} |-> n1]

TwoNodes == [p \in {p1, p2} |-> IF p = p1 THEN n1 ELSE n2]

(* Calls and pods are interchangeable: no definition names one.  Used where
   no liveness is checked. *)
CallsAndPods == Permutations({c1, c2}) \cup Permutations({p1, p2})
===============================================================================
