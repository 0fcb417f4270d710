--------------------------- MODULE OneshotTransport ---------------------------
(***************************************************************************)
(* The stdio transport that exits after N requests (pkg/mcp/oneshot.go),   *)
(* which runs the agent under kubectl exec.                                *)
(*                                                                         *)
(* Two goroutines share the channel lines, of capacity one.  The scanner   *)
(* reads a line, then sends it or sees ctx.Done(); Run selects between     *)
(* ctx.Done() and the channel.  Lines are numbered as the client wrote     *)
(* them, and nothing overtakes, so three counters tell where each one is:  *)
(* scanned >= sent >= received.                                            *)
(***************************************************************************)
EXTENDS Integers, Sequences, FiniteSets

CONSTANTS
  MaxRequests,  \* OneshotConfig.MaxRequests
  MaxLines      \* bound of the model: lines the client writes

\* NewOneshotTransport refuses a limit below one.
ASSUME OneshotAssumption ==
  /\ MaxRequests \in Nat \ {0}
  /\ MaxLines \in Nat

(* What a line is to the transport: empty; no JSON; a request, to which the
   MCP server has a response (an error response too); a notification, to
   which it has none; a request whose response cannot be marshalled; or too
   long for the buffer of bufio.Scanner. *)
ReplyTo == [garbage      |-> "parse error",
            request      |-> "response",
            notification |-> "null",
            unprintable  |-> "marshal error"]
Kinds == DOMAIN ReplyTo \cup {"empty", "huge"}
Failing == {"garbage", "unprintable"}

VARIABLES
  written,    \* the lines the client has written
  stdin,      \* "open", "closed" (the reader will see EOF) or "failed"
  scanned,    \* lines scanner.Scan() has returned
  scanner,    \* "scanning", "sending" or "exited" (with lines closed)
  scanErr,    \* scanner.Err() # nil
  sent,       \* lines that entered the channel
  received,   \* lines Run took out of it
  run,        \* "selecting", "handling" a line or "returned"
  err,        \* what Run returned: "none" so far, "nil", "ctx" or "read"
  stats,      \* OneshotResult
  stdout,     \* the responses written
  writable,   \* stdout accepts writes
  cancelled   \* ctx is done

scannerVars == <<scanned, scanner, scanErr, sent>>
runVars == <<received, run, err, stats, stdout>>
envVars == <<written, stdin, writable, cancelled>>
vars == <<scannerVars, runVars, envVars>>

TypeOK ==
  /\ written \in Seq(Kinds) /\ Len(written) <= MaxLines
  /\ stdin \in {"open", "closed", "failed"}
  /\ scanner \in {"scanning", "sending", "exited"}
  /\ scanErr \in BOOLEAN
  /\ scanned \in 0..Len(written)
  /\ sent \in 0..scanned
  /\ received \in 0..sent /\ sent <= received + 1
  /\ run \in {"selecting", "handling", "returned"}
  /\ err \in {"none", "nil", "ctx", "read"}
  /\ stats \in [processed : 0..MaxRequests, errors : Nat, skipped : Nat]
  /\ stdout \in Seq([line : Nat, reply : {ReplyTo[k] : k \in DOMAIN ReplyTo}])
  /\ writable \in BOOLEAN
  /\ cancelled \in BOOLEAN

Init ==
  /\ written = <<>> /\ stdin = "open" /\ writable = TRUE /\ cancelled = FALSE
  /\ scanned = 0 /\ scanner = "scanning" /\ scanErr = FALSE /\ sent = 0
  /\ received = 0 /\ run = "selecting" /\ err = "none" /\ stdout = <<>>
  /\ stats = [processed |-> 0, errors |-> 0, skipped |-> 0]

-------------------------------------------------------------------------------
(***************************************************************************)
(* The environment: the client, its pipes and the process's signals.       *)
(***************************************************************************)
WriteLine(k) ==
  /\ stdin = "open" /\ Len(written) < MaxLines
  /\ written' = Append(written, k)
  /\ UNCHANGED <<scannerVars, runVars, stdin, writable, cancelled>>

StdinEnds(how) ==
  /\ stdin = "open"
  /\ stdin' = how
  /\ UNCHANGED <<scannerVars, runVars, written, writable, cancelled>>

StdoutBreaks ==
  /\ writable
  /\ writable' = FALSE
  /\ UNCHANGED <<scannerVars, runVars, written, stdin, cancelled>>

Cancel ==
  /\ ~ cancelled
  /\ cancelled' = TRUE
  /\ UNCHANGED <<scannerVars, runVars, written, stdin, writable>>

-------------------------------------------------------------------------------
(***************************************************************************)
(* The scanner goroutine.                                                  *)
(***************************************************************************)
NextIsHuge == scanned < Len(written) /\ written[scanned + 1] = "huge"

\* Scan() returns a line.
ScanLine ==
  /\ scanner = "scanning"
  /\ scanned < Len(written) /\ ~ NextIsHuge
  /\ scanned' = scanned + 1
  /\ scanner' = "sending"
  /\ UNCHANGED <<scanErr, sent, runVars, envVars>>

(* Scan() returns false: at the end of the input, at a line too long, or
   because reading failed, which may lose lines that were written. *)
ScanEnds ==
  /\ scanner = "scanning"
  /\ \/ stdin = "closed" /\ scanned = Len(written) /\ UNCHANGED scanErr
     \/ (stdin = "failed" \/ NextIsHuge) /\ scanErr' = TRUE
  /\ scanner' = "exited"
  /\ UNCHANGED <<scanned, sent, runVars, envVars>>

\* case lines <- scanResult
Send ==
  /\ scanner = "sending" /\ sent = received
  /\ sent' = sent + 1
  /\ scanner' = "scanning"
  /\ UNCHANGED <<scanned, scanErr, runVars, envVars>>

\* Mutant of SendCancelled: the scanner sends without selecting on ctx.Done().
SendRegardless ==
  /\ scanner = "sending" /\ cancelled /\ sent = received
  /\ sent' = sent + 1
  /\ scanner' = "scanning"
  /\ UNCHANGED <<scanned, scanErr, runVars, envVars>>

\* case <-ctx.Done(): the line in hand is lost.
SendCancelled ==
  /\ scanner = "sending" /\ cancelled
  /\ scanner' = "exited"
  /\ UNCHANGED <<scanned, scanErr, sent, runVars, envVars>>

-------------------------------------------------------------------------------
(***************************************************************************)
(* Run.                                                                    *)
(***************************************************************************)
Returns(e) == run' = "returned" /\ err' = e

\* case <-ctx.Done(), taken or not when the channel is ready too.
RunCancelled ==
  /\ run = "selecting" /\ cancelled
  /\ Returns("ctx")
  /\ UNCHANGED <<scannerVars, envVars, received, stats, stdout>>

\* case scan := <-lines with a line; an empty one is skipped.
Receive ==
  /\ run = "selecting" /\ received < sent
  /\ received' = received + 1
  /\ \/ /\ written[received'] = "empty"
        /\ stats' = [stats EXCEPT !.skipped = @ + 1]
        /\ UNCHANGED run
     \/ /\ written[received'] # "empty"
        /\ run' = "handling"
        /\ UNCHANGED stats
  /\ UNCHANGED <<scannerVars, envVars, err, stdout>>

\* Mutant of EndOfInput: the channel is closed, the scanner's error ignored.
EndOfInputAnyway ==
  /\ run = "selecting" /\ received = sent /\ scanner = "exited"
  /\ Returns("nil")
  /\ UNCHANGED <<scannerVars, envVars, received, stats, stdout>>

\* Mutant of EndOfInput: the loop goes on when the channel is closed.
EndOfInputMissed ==
  /\ run = "selecting" /\ received = sent /\ scanner = "exited" /\ scanErr
  /\ Returns("read")
  /\ UNCHANGED <<scannerVars, envVars, received, stats, stdout>>

\* case _, ok := <-lines with ok false: closed and empty.
EndOfInput ==
  /\ run = "selecting" /\ received = sent /\ scanner = "exited"
  /\ Returns(IF scanErr THEN "read" ELSE "nil")
  /\ UNCHANGED <<scannerVars, envVars, received, stats, stdout>>

(* processRequest has ended, well or not; only a success counts towards the
   limit. *)
Counted(ok) ==
  stats' = IF ok THEN [stats EXCEPT !.processed = @ + 1]
                 ELSE [stats EXCEPT !.errors = @ + 1]

\* Mutant of Handle: a line that is no JSON is only counted, not answered.
HandleGarbageSilently ==
  LET kind == written[received] IN
  /\ run = "handling"
  /\ stdout' = IF writable /\ kind \notin Failing
               THEN Append(stdout, [line |-> received, reply |-> ReplyTo[kind]])
               ELSE stdout
  /\ Counted(writable /\ kind \notin Failing)
  /\ IF stats'.processed >= MaxRequests
     THEN Returns("nil") ELSE run' = "selecting" /\ UNCHANGED err
  /\ UNCHANGED <<scannerVars, envVars, received>>

\* Mutant of Handle: the limit is compared after one request too many.
HandleOneMore ==
  LET kind == written[received] IN
  /\ run = "handling"
  /\ stdout' = IF writable
               THEN Append(stdout, [line |-> received, reply |-> ReplyTo[kind]])
               ELSE stdout
  /\ Counted(writable /\ kind \notin Failing)
  /\ IF stats'.processed > MaxRequests
     THEN Returns("nil") ELSE run' = "selecting" /\ UNCHANGED err
  /\ UNCHANGED <<scannerVars, envVars, received>>

(* processRequest: the response, or an error response, is written; an error
   of either kind, and a failed write, make it an error.  Then the limit. *)
Handle ==
  LET kind == written[received] IN
  /\ run = "handling"
  /\ stdout' = IF writable
               THEN Append(stdout, [line |-> received, reply |-> ReplyTo[kind]])
               ELSE stdout
  /\ Counted(writable /\ kind \notin Failing)
  /\ IF stats'.processed >= MaxRequests
     THEN Returns("nil") ELSE run' = "selecting" /\ UNCHANGED err
  /\ UNCHANGED <<scannerVars, envVars, received>>

-------------------------------------------------------------------------------
ScannerGoroutine == ScanLine \/ ScanEnds \/ Send \/ SendCancelled
Run == RunCancelled \/ Receive \/ EndOfInput \/ Handle
Environment ==
  \/ \E k \in Kinds : WriteLine(k)
  \/ \E how \in {"closed", "failed"} : StdinEnds(how)
  \/ StdoutBreaks
  \/ Cancel

Next == ScannerGoroutine \/ Run \/ Environment

Spec == Init /\ [][Next]_vars

(* Both goroutines are scheduled while they can move, and a tool handler
   returns.  The client need neither write nor close. *)
FairSpec == Spec /\ WF_vars(ScannerGoroutine) /\ WF_vars(Run)

-------------------------------------------------------------------------------
\* The lines Run is through with.
Finished == IF run = "handling" THEN received - 1 ELSE received

(***************************************************************************)
(* Responses come in the order of the lines, never two for a line and none *)
(* for an empty one, each of its line's kind; and as long as stdout takes  *)
(* them no line Run is through with goes unanswered, garbage included.     *)
(***************************************************************************)
LinesAnsweredInOrder ==
  /\ \A i, j \in DOMAIN stdout : i < j => stdout[i].line < stdout[j].line
  /\ \A i \in DOMAIN stdout :
       LET l == stdout[i].line IN
       /\ l \in 1..Finished
       /\ written[l] \in DOMAIN ReplyTo
       /\ stdout[i].reply = ReplyTo[written[l]]
  /\ writable => \A l \in 1..Finished :
       written[l] # "empty" => \E i \in DOMAIN stdout : stdout[i].line = l

(***************************************************************************)
(* The statistics account for every line Run took, once, and agree with    *)
(* what is on stdout: a success is always a response there, and the limit  *)
(* is met by successes alone, the run ending with the last of them.        *)
(***************************************************************************)
StatsAccountForLines ==
  /\ stats.processed + stats.errors + stats.skipped = Finished
  /\ stats.skipped = Cardinality({l \in 1..Finished : written[l] = "empty"})
  /\ stats.processed =
       Cardinality({i \in DOMAIN stdout :
                      written[stdout[i].line] \notin Failing})
  /\ run # "returned" => stats.processed < MaxRequests

(***************************************************************************)
(* Unless it was cancelled, Run reports success only when it answered N    *)
(* requests or saw every line up to the end of the input: a line lost to a *)
(* failed read or to the scanner's buffer is an error.                     *)
(***************************************************************************)
SuccessMeansComplete ==
  err = "nil" /\ ~ cancelled =>
    \/ stats.processed = MaxRequests
    \/ stdin = "closed" /\ Finished = Len(written)

(***************************************************************************)
(* Run ends once its input ends or its context is cancelled, whatever the  *)
(* scanner is blocked on.                                                  *)
(***************************************************************************)
RunEnds == stdin # "open" \/ cancelled ~> run = "returned"

(***************************************************************************)
(* The scanner goroutine ends when the context is cancelled and its read   *)
(* cannot block any more; neither alone is enough.                         *)
(***************************************************************************)
ScannerEnds == cancelled /\ stdin # "open" ~> scanner = "exited"

(* oneshot.go on the scanner goroutine: "This prevents goroutine leaks when
   the context is cancelled while waiting for input".  Refuted by a run. *)
CancelEndsScanner == cancelled ~> scanner = "exited"
===============================================================================
