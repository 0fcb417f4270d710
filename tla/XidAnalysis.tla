------------------------------ MODULE XidAnalysis ------------------------------
(***************************************************************************)
(* analyze_xid_errors: pkg/tools/analyze_xid.go on top of pkg/xid.  The    *)
(* handler reads the kernel log with a goroutine of its own, because a     *)
(* read at the end of /dev/kmsg blocks, gives it five seconds, and falls   *)
(* back to dmesg.                                                          *)
(*                                                                         *)
(* A log record is abstracted to what the parser tells apart: text is      *)
(* "malformed", "other" (not the NVIDIA driver's), "nvrm" or "xid"; an     *)
(* "xid" has the severity of its code and the parts of its PCI bus id.     *)
(* Letter case is left out: the code folds it.                             *)
(***************************************************************************)
EXTENDS ToolCall, Sequences

CONSTANTS
  Logs,      \* the kernel logs there may be: sequences of records
  BusIds     \* BusIds[i]: the parts of the bus id NVML reports for GPU i

(* Every Xid has a severity; one without a name is a warning. *)
XidSeverities == {"info", "warning", "critical", "fatal"}
Records ==
  [text : {"malformed", "other", "nvrm"}, severity : {""}, bus : {<<>>}] \cup
  [text : {"xid"}, severity : XidSeverities, bus : Seq(STRING)]

ASSUME XidAssumption == Logs \subseteq Seq(Records) /\ BusIds \in Seq(Seq(STRING))

VARIABLES
  xidAt,     \* the next thing the handler does
  log,       \* the kernel log
  reader,    \* the goroutine: "off", "scanning", "sent" (its result is in
             \* resultCh)
  scanned,   \* records the scanner returned
  messages,  \* records the goroutine keeps, all of the NVIDIA driver
  scanFailed,  \* the err of its result
  timedOut,  \* the five seconds are over
  closed,    \* ReadMessages closed the file
  events,    \* what the parser made of the log
  errors,    \* the enriched events
  xidStatus  \* the status of the answer

readerVars == <<reader, scanned, messages, scanFailed, closed>>
xidVars == <<xidAt, log, readerVars, timedOut, events, errors, xidStatus>>

XidInit ==
  /\ CallInit
  /\ xidAt = "start" /\ log = <<>> /\ reader = "off" /\ scanned = 0
  /\ messages = <<>> /\ scanFailed = FALSE /\ timedOut = FALSE /\ closed = FALSE
  /\ events = <<>> /\ errors = <<>> /\ xidStatus = ""

-------------------------------------------------------------------------------
(* The parser.                                                             *)

(* ReadMessages keeps the driver's messages, the parser those with an Xid. *)
Kept(record) == record.text \in {"nvrm", "xid"}

(* A bus id without a domain gets one; any other form stays as it is. *)
NormalizeBusId(parts) == IF Len(parts) = 2 THEN <<"0000">> \o parts ELSE parts

ParseXid(record) == [severity |-> record.severity, bus |-> NormalizeBusId(record.bus)]

ParseMessages(records) ==
  FoldLeft(LAMBDA found, r : IF r.text = "xid" THEN Append(found, ParseXid(r)) ELSE found,
           <<>>, records)

-------------------------------------------------------------------------------
(* Reading the log.                                                        *)

(* The reading context is a child of the call's, with a timeout. *)
ReadDone == ctxDone \/ timedOut

(* Handle and ParseKernelLogs look at the context, open the file or find
   that it is not there, and start the goroutine. *)
XidStart ==
  /\ xidAt = "start"
  /\ log' \in Logs
  /\ IF ctxDone
     THEN Reply("error") /\ xidAt' = "done" /\ UNCHANGED reader
     ELSE /\ UNCHANGED callVars
          /\ \/ xidAt' = "reading" /\ reader' = "scanning"
             \/ xidAt' = "dmesg" /\ UNCHANGED reader
  /\ UNCHANGED <<scanned, messages, scanFailed, timedOut, closed, events, errors, xidStatus>>

ReadTimeout ==
  /\ xidAt \in {"reading", "draining"} /\ ~ timedOut
  /\ timedOut' = TRUE
  /\ UNCHANGED <<callVars, xidAt, log, readerVars, events, errors, xidStatus>>

(* A record is there: the scanner returns it and the goroutine keeps it or
   not, unless the context is done by then. *)
ScanRecord ==
  /\ reader = "scanning" /\ scanned < Len(log) /\ ~ closed
  /\ scanned' = scanned + 1
  /\ IF ReadDone
     THEN reader' = "sent" /\ UNCHANGED messages
     ELSE /\ messages' = IF Kept(log[scanned + 1]) THEN Append(messages, log[scanned + 1])
                         ELSE messages
          /\ UNCHANGED reader
  /\ UNCHANGED <<callVars, xidAt, log, scanFailed, timedOut, closed, events, errors, xidStatus>>

(* The scanner ends: the read failed (the record was overwritten or is too
   long), the file was closed under it, or at the end of the log a read that
   need not block says so, which is no error. *)
ScanEnds ==
  /\ reader = "scanning"
  /\ reader' = "sent"
  /\ scanFailed' \in IF scanned = Len(log) THEN BOOLEAN ELSE {TRUE}
  /\ UNCHANGED <<callVars, xidAt, log, scanned, messages, timedOut, closed,
                 events, errors, xidStatus>>

(* ReadMessages, woken by the result: an error leads to dmesg. *)
ReadResult ==
  /\ xidAt = "reading" /\ reader = "sent"
  /\ reader' = "off"
  /\ IF scanFailed
     THEN xidAt' = "dmesg" /\ UNCHANGED events
     ELSE xidAt' = "parsed" /\ events' = ParseMessages(messages)
  /\ UNCHANGED <<callVars, log, scanned, messages, scanFailed, timedOut, closed,
                 errors, xidStatus>>

(* Mutant of CloseFile: ReadMessages only waits for the goroutine, which may
   be blocked at the end of the log. *)
WaitOnly ==
  /\ xidAt = "reading" /\ ReadDone
  /\ xidAt' = "draining"
  /\ UNCHANGED <<callVars, log, readerVars, timedOut, events, errors, xidStatus>>

(* Woken by the context: the file is closed, which ends the goroutine. *)
CloseFile ==
  /\ xidAt = "reading" /\ ReadDone
  /\ closed' = TRUE /\ xidAt' = "draining"
  /\ UNCHANGED <<callVars, log, reader, scanned, messages, scanFailed, timedOut,
                 events, errors, xidStatus>>

(* Mutant of DrainResult: ReadMessages does not wait for the goroutine. *)
ReturnAtOnce ==
  /\ xidAt = "draining"
  /\ xidAt' = "parsed" /\ events' = ParseMessages(messages)
  /\ UNCHANGED <<callVars, log, readerVars, timedOut, errors, xidStatus>>

(* It waits for the goroutine's result, and ignores its error. *)
DrainResult ==
  /\ xidAt = "draining" /\ reader = "sent"
  /\ reader' = "off" /\ xidAt' = "parsed"
  /\ events' = ParseMessages(messages)
  /\ UNCHANGED <<callVars, log, scanned, messages, scanFailed, timedOut, closed,
                 errors, xidStatus>>

(* The command fails, is killed with the context, or prints the log. *)
ParseDmesg ==
  /\ xidAt = "dmesg"
  /\ \E works \in Getter({TRUE}, FALSE) :
       IF works
       THEN xidAt' = "parsed" /\ events' = ParseMessages(log) /\ UNCHANGED callVars
       ELSE Reply("error") /\ xidAt' = "done" /\ UNCHANGED events
  /\ UNCHANGED <<log, readerVars, timedOut, errors, xidStatus>>

-------------------------------------------------------------------------------
(* The analysis.                                                           *)

(* No GPU, -1, when the bus id matches none or a getter fails. *)
GPUsAt(bus) == {i \in DOMAIN BusIds : BusIds[i] = bus}

Severities(found) == {found[i].severity : i \in DOMAIN found}

(* Mutant of XidStatusOf: fatal errors are not looked for first. *)
CriticalFirst(severities) ==
  IF "critical" \in severities THEN "degraded"
  ELSE IF "fatal" \in severities THEN "critical"
  ELSE IF "warning" \in severities THEN "warning" ELSE "ok"

XidStatusOf(severities) ==
  IF "fatal" \in severities THEN "critical"
  ELSE IF "critical" \in severities THEN "degraded"
  ELSE IF "warning" \in severities THEN "warning" ELSE "ok"

(* An answer without events does not look at the context again. *)
EnrichEvent ==
  /\ xidAt = "parsed" /\ Len(errors) < Len(events)
  /\ LET event == events[Len(errors) + 1]
     IN IF ctxDone
        THEN Reply("error") /\ xidAt' = "done" /\ UNCHANGED errors
        ELSE /\ \E gpu \in Outcomes(GPUsAt(event.bus)) :
                  errors' = Append(errors, [severity |-> event.severity, bus |-> event.bus,
                                            gpu |-> gpu])
             /\ UNCHANGED <<callVars, xidAt>>
  /\ UNCHANGED <<log, readerVars, timedOut, events, xidStatus>>

XidAnswer ==
  /\ xidAt = "parsed" /\ Len(errors) = Len(events)
  /\ xidStatus' = XidStatusOf(Severities(errors))
  /\ Reply("answer") /\ xidAt' = "done"
  /\ UNCHANGED <<log, readerVars, timedOut, events, errors>>

XidHandler ==
  \/ XidStart \/ ReadResult \/ CloseFile \/ DrainResult \/ ParseDmesg
  \/ EnrichEvent \/ XidAnswer

XidReader == ScanRecord \/ ScanEnds

XidNext == (CancelCall /\ UNCHANGED xidVars) \/ ReadTimeout \/ XidHandler \/ XidReader

-------------------------------------------------------------------------------
(* Properties.                                                             *)

XidTypeOK ==
  /\ CallTypeOK
  /\ xidAt \in {"start", "reading", "draining", "dmesg", "parsed", "done"}
  /\ log \in Logs \cup {<<>>} /\ scanned \in 0..Len(log)
  /\ reader \in {"off", "scanning", "sent"}
  /\ scanFailed \in BOOLEAN /\ timedOut \in BOOLEAN /\ closed \in BOOLEAN
  /\ Len(messages) <= scanned /\ Len(errors) <= Len(events)
  /\ xidStatus \in {"", "ok", "warning", "degraded", "critical"}

(* The goroutine that reads /dev/kmsg is over when the tool replies, whether
   it ended by itself, by the timeout or by a cancellation. *)
ReaderDoesNotLeak == reply # "none" => reader = "off"

(* An answer reports exactly the Xid records of a prefix of the log, in their
   order, and of all of it if nobody interrupted the reading before its end;
   its status is that of the worst of them. *)
AnswerReportsLog ==
  reply = "answer" =>
    /\ \E n \in 0..Len(log) :
         /\ events = ParseMessages(SubSeq(log, 1, n))
         /\ n = Len(log) \/ (closed \/ ReadDone)
    /\ Severities(errors) = Severities(events)
    /\ "fatal" \in Severities(events) => xidStatus = "critical"
    /\ events # <<>> /\ xidStatus = "ok" => Severities(events) = {"info"}

===============================================================================
