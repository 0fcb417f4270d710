---------------------------- MODULE MCAgentProcess ----------------------------
(***************************************************************************)
(* Every combination of the flags, and two requests handled at once, so    *)
(* that one may end while another outlives the server.                     *)
(***************************************************************************)
EXTENDS AgentProcess
===============================================================================
