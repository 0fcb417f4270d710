--------------------------- MODULE MCCircuitBreaker ---------------------------
(***************************************************************************)
(* The breaker alone under every order of calls: two nodes, so that a step *)
(* for one may wrongly touch the other; a threshold of two, so that a      *)
(* closed circuit has a failure short of it; a count that goes one past    *)
(* the threshold; and a reset timeout with a tick before, at and after it. *)
(***************************************************************************)
EXTENDS CircuitBreaker
===============================================================================
