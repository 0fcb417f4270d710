----------------------------- MODULE MCStdioBridge -----------------------------
(* Two requests and a notification, each of which may start a forward.      *)
EXTENDS StdioBridge

===============================================================================
