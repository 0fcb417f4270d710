-------------------------------- MODULE FanOut --------------------------------
(***************************************************************************)
(* What the gateway promises of one proxied tool call, without saying how: *)
(* every pod that was listed ready gets exactly one outcome, none of them  *)
(* changes, and the caller's reply is the summary of all of them, made     *)
(* when the last one is there.  Circuit breaker, semaphore and goroutines  *)
(* are not mentioned.  NodeRouter implements this specification.           *)
(***************************************************************************)
CONSTANTS Calls, Pods

Outcomes == {"ok", "error"}
NoOutcome == "none"
Replies == {"none", "success", "partial", "error"}

VARIABLES
  stage,    \* "idle" or "routing", per call
  asked,    \* the pods the call has to reach
  outcome,  \* what each of them came to
  reply     \* what the caller got

vars == <<stage, asked, outcome, reply>>

(***************************************************************************)
(* The summary: nothing answered although somebody was asked is an error;  *)
(* a call that asked nobody is a success.                                  *)
(***************************************************************************)
Summary(S, out) ==
  LET answered == {p \in S : out[p] = "ok"}
  IN  CASE answered = S                   -> "success"
        [] answered = {} /\ S # {}        -> "error"
        [] answered # {} /\ answered # S  -> "partial"

Init ==
  /\ stage = [c \in Calls |-> "idle"]
  /\ asked = [c \in Calls |-> {}]
  /\ outcome = [c \in Calls |-> [p \in Pods |-> NoOutcome]]
  /\ reply = [c \in Calls |-> "none"]

\* A call begins and knows whom to ask.
Begin(c, S) ==
  /\ stage[c] = "idle"
  /\ stage' = [stage EXCEPT ![c] = "routing"]
  /\ asked' = [asked EXCEPT ![c] = S]
  /\ reply' = [reply EXCEPT ![c] = "none"]
  /\ UNCHANGED outcome

\* A call cannot even find out whom to ask.
Refuse(c) ==
  /\ stage[c] = "idle"
  /\ reply' = [reply EXCEPT ![c] = "error"]
  /\ UNCHANGED <<stage, asked, outcome>>

Answer(c, p, o) ==
  /\ stage[c] = "routing"
  /\ p \in asked[c]
  /\ outcome[c][p] = NoOutcome
  /\ outcome' = [outcome EXCEPT ![c][p] = o]
  /\ UNCHANGED <<stage, asked, reply>>

Return(c) ==
  /\ stage[c] = "routing"
  /\ \A p \in asked[c] : outcome[c][p] # NoOutcome
  /\ stage' = [stage EXCEPT ![c] = "idle"]
  /\ reply' = [reply EXCEPT ![c] = Summary(asked[c], outcome[c])]
  /\ asked' = [asked EXCEPT ![c] = {}]
  /\ outcome' = [outcome EXCEPT ![c] = [p \in Pods |-> NoOutcome]]

Next ==
  \E c \in Calls :
    \/ \E S \in SUBSET Pods : Begin(c, S)
    \/ Refuse(c)
    \/ \E p \in Pods, o \in Outcomes : Answer(c, p, o)
    \/ Return(c)

Spec == Init /\ [][Next]_vars
===============================================================================
