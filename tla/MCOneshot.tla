------------------------------- MODULE MCOneshot -------------------------------
(***************************************************************************)
(* A limit of two and three lines of every kind: an error or an empty line *)
(* may come before, between and after the two requests that count, the     *)
(* limit may be met with a line still in the channel, and a cancelled Run  *)
(* may leave one line in the channel and one in the scanner's hand.        *)
(***************************************************************************)
EXTENDS OneshotTransport
===============================================================================
