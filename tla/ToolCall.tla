------------------------------- MODULE ToolCall -------------------------------
(***************************************************************************)
(* What all tool handlers of pkg/tools have in common: a context that may  *)
(* be cancelled at any point of the call, and one reply, which is either   *)
(* an answer or a tool error.  A handler's module adds its own progress.   *)
(***************************************************************************)
EXTENDS Integers, SequencesExt

VARIABLES
  ctxDone,  \* the context of the call is cancelled
  reply     \* "none" so far, "answer", or "error": a result with IsError set

callVars == <<ctxDone, reply>>

CallTypeOK ==
  /\ ctxDone \in BOOLEAN
  /\ reply \in {"none", "answer", "error"}

CallInit == ctxDone = FALSE /\ reply = "none"

(* The client goes away, or whatever else cancels the context. *)
CancelCall ==
  /\ reply = "none" /\ ~ ctxDone
  /\ ctxDone' = TRUE
  /\ UNCHANGED reply

Reply(kind) == reply' = kind /\ UNCHANGED ctxDone

(* What an NVML getter may return: a value, or Failed when the library
   reports an error or is not initialised.  All of them look at the context
   first. *)
Failed == -1

Getter(values, failure) == IF ctxDone THEN {failure} ELSE values \cup {failure}

Outcomes(values) == Getter(values, Failed)

(* Getters for which "not supported" is no error but a zero. *)
OptionalOutcomes(values) == Outcomes(values \cup {0})

(* A total, as the handlers' loops build it. *)
SumOf(numbers) == FoldLeft(LAMBDA sum, n : sum + n, 0, numbers)

===============================================================================
