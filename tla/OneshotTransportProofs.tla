------------------------ MODULE OneshotTransportProofs ------------------------
(***************************************************************************)
(* Type correctness of the oneshot transport, the order and completeness   *)
(* of its responses, and the truth of its success, for every limit and any *)
(* number of lines.                                                        *)
(***************************************************************************)
EXTENDS OneshotTransport, FiniteSetTheorems, TLAPS

\* Where a line in the scanner's hand is, and what a clean exit has seen.
ScannerPlace ==
  /\ scanner = "scanning" => scanned = sent
  /\ scanner = "sending" => scanned = sent + 1
  /\ scanner = "exited" /\ ~ scanErr /\ ~ cancelled =>
       stdin = "closed" /\ scanned = Len(written) /\ sent = scanned

\* What the scanner returned fitted its buffer.
NothingHuge == \A l \in 1..scanned : written[l] # "huge"

\* Run's own bookkeeping.
RunPlace ==
  /\ run = "returned" <=> err # "none"
  /\ run = "handling" => received > 0 /\ written[received] # "empty"
  /\ run # "returned" => stats.processed < MaxRequests

IInv ==
  /\ TypeOK
  /\ ScannerPlace
  /\ NothingHuge
  /\ RunPlace
  /\ LinesAnsweredInOrder
  /\ SuccessMeansComplete
-------------------------------------------------------------------------------
(***************************************************************************)
(* Appending a member keeps a sequence a sequence over the same set.       *)
(***************************************************************************)
LEMMA AppendStays ==
  ASSUME NEW S, NEW s \in Seq(S), NEW e \in S
  PROVE  Append(s, e) \in Seq(S)
  OBVIOUS

(***************************************************************************)
(* A line is scanned.                                                      *)
(***************************************************************************)
LEMMA ScanLineInv == IInv /\ ScanLine => IInv'
<1> SUFFICES ASSUME IInv, ScanLine PROVE IInv'
  OBVIOUS
<1> USE OneshotAssumption DEF IInv, TypeOK, OneshotAssumption, scannerVars, runVars, envVars
<1>1. TypeOK'
  BY DEF ScanLine, NextIsHuge
<1>2. ScannerPlace'
  BY DEF ScanLine, NextIsHuge, ScannerPlace
<1>3. NothingHuge'
  BY DEF ScanLine, NextIsHuge, NothingHuge
<1>4. RunPlace'
  BY DEF ScanLine, NextIsHuge, RunPlace
<1>5. LinesAnsweredInOrder'
  BY DEF ScanLine, NextIsHuge, LinesAnsweredInOrder, Finished, RunPlace
<1>6. SuccessMeansComplete'
  BY DEF ScanLine, NextIsHuge, SuccessMeansComplete, Finished, ScannerPlace, RunPlace
<1> QED
  BY <1>1, <1>2, <1>3, <1>4, <1>5, <1>6

(***************************************************************************)
(* Scanning ends.                                                          *)
(***************************************************************************)
LEMMA ScanEndsInv == IInv /\ ScanEnds => IInv'
<1> SUFFICES ASSUME IInv, ScanEnds PROVE IInv'
  OBVIOUS
<1> USE OneshotAssumption DEF IInv, TypeOK, OneshotAssumption, scannerVars, runVars, envVars
<1>1. TypeOK'
  BY DEF ScanEnds, NextIsHuge
<1>2. ScannerPlace'
  BY DEF ScanEnds, NextIsHuge, ScannerPlace
<1>3. NothingHuge'
  BY DEF ScanEnds, NextIsHuge, NothingHuge
<1>4. RunPlace'
  BY DEF ScanEnds, NextIsHuge, RunPlace
<1>5. LinesAnsweredInOrder'
  BY DEF ScanEnds, NextIsHuge, LinesAnsweredInOrder, Finished, RunPlace
<1>6. SuccessMeansComplete'
  BY DEF ScanEnds, NextIsHuge, SuccessMeansComplete, Finished, ScannerPlace, RunPlace
<1> QED
  BY <1>1, <1>2, <1>3, <1>4, <1>5, <1>6

(***************************************************************************)
(* A line enters the channel.                                              *)
(***************************************************************************)
LEMMA SendInv == IInv /\ Send => IInv'
<1> SUFFICES ASSUME IInv, Send PROVE IInv'
  OBVIOUS
<1> USE OneshotAssumption DEF IInv, TypeOK, OneshotAssumption, scannerVars, runVars, envVars
<1>1. TypeOK'
  BY DEF Send, ScannerPlace
<1>2. ScannerPlace'
  BY DEF Send, ScannerPlace
<1>3. NothingHuge'
  BY DEF Send, NothingHuge
<1>4. RunPlace'
  BY DEF Send, RunPlace
<1>5. LinesAnsweredInOrder'
  BY DEF Send, LinesAnsweredInOrder, Finished, RunPlace
<1>6. SuccessMeansComplete'
  BY DEF Send, SuccessMeansComplete, Finished, ScannerPlace, RunPlace
<1> QED
  BY <1>1, <1>2, <1>3, <1>4, <1>5, <1>6

(***************************************************************************)
(* The scanner gives up its line.                                          *)
(***************************************************************************)
LEMMA SendCancelledInv == IInv /\ SendCancelled => IInv'
<1> SUFFICES ASSUME IInv, SendCancelled PROVE IInv'
  OBVIOUS
<1> USE OneshotAssumption DEF IInv, TypeOK, OneshotAssumption, scannerVars, runVars, envVars
<1>1. TypeOK'
  BY DEF SendCancelled
<1>2. ScannerPlace'
  BY DEF SendCancelled, ScannerPlace
<1>3. NothingHuge'
  BY DEF SendCancelled, NothingHuge
<1>4. RunPlace'
  BY DEF SendCancelled, RunPlace
<1>5. LinesAnsweredInOrder'
  BY DEF SendCancelled, LinesAnsweredInOrder, Finished, RunPlace
<1>6. SuccessMeansComplete'
  BY DEF SendCancelled, SuccessMeansComplete, Finished, ScannerPlace, RunPlace
<1> QED
  BY <1>1, <1>2, <1>3, <1>4, <1>5, <1>6

(***************************************************************************)
(* Run is cancelled.                                                       *)
(***************************************************************************)
LEMMA RunCancelledInv == IInv /\ RunCancelled => IInv'
<1> SUFFICES ASSUME IInv, RunCancelled PROVE IInv'
  OBVIOUS
<1> USE OneshotAssumption DEF IInv, TypeOK, OneshotAssumption, scannerVars, runVars, envVars
<1>1. TypeOK'
  BY DEF RunCancelled, Returns
<1>2. ScannerPlace'
  BY DEF RunCancelled, Returns, ScannerPlace
<1>3. NothingHuge'
  BY DEF RunCancelled, Returns, NothingHuge
<1>4. RunPlace'
  BY DEF RunCancelled, Returns, RunPlace
<1>5. LinesAnsweredInOrder'
  BY DEF RunCancelled, Returns, LinesAnsweredInOrder, Finished, RunPlace
<1>6. SuccessMeansComplete'
  BY DEF RunCancelled, Returns, SuccessMeansComplete, Finished, ScannerPlace, RunPlace
<1> QED
  BY <1>1, <1>2, <1>3, <1>4, <1>5, <1>6

(***************************************************************************)
(* Run takes a line.                                                       *)
(***************************************************************************)
LEMMA ReceiveInv == IInv /\ Receive => IInv'
<1> SUFFICES ASSUME IInv, Receive PROVE IInv'
  OBVIOUS
<1> USE OneshotAssumption DEF OneshotAssumption, scannerVars, envVars
<1>1. /\ run = "selecting" /\ received \in Nat /\ received' = received + 1
      /\ received' \in 1..sent /\ sent <= received' + 1
      /\ UNCHANGED <<written, stdin, writable, cancelled, scanned, scanner,
                     scanErr, sent, err, stdout>>
  BY DEF IInv, TypeOK, Receive
<1>2. /\ run' \in {"selecting", "handling"}
      /\ run' = "selecting" => written[received'] = "empty"
      /\ run' = "handling" => written[received'] # "empty"
  BY <1>1 DEF Receive
<1>3. /\ stats' \in [processed : 0..MaxRequests, errors : Nat, skipped : Nat]
      /\ stats'.processed = stats.processed
  <2>1. stats \in [processed : 0..MaxRequests, errors : Nat, skipped : Nat]
    BY DEF IInv, TypeOK
  <2>2. stats' = stats \/ stats' = [stats EXCEPT !.skipped = @ + 1]
    BY DEF Receive
  <2> QED
    BY <2>1, <2>2
<1>4. TypeOK'
  BY <1>1, <1>2, <1>3 DEF IInv, TypeOK
<1>5. ScannerPlace'
  BY <1>1 DEF IInv, ScannerPlace
<1>6. NothingHuge'
  BY <1>1 DEF IInv, NothingHuge
<1>7. RunPlace'
  BY <1>1, <1>2, <1>3 DEF IInv, RunPlace
<1>8. /\ Finished = received /\ Finished' \in {received, received + 1}
      /\ Finished' = received + 1 => written[received + 1] = "empty"
  BY <1>1, <1>2 DEF Finished
<1>9. LinesAnsweredInOrder'
  BY <1>1, <1>8 DEF IInv, LinesAnsweredInOrder
<1>10. SuccessMeansComplete'
  BY <1>1 DEF IInv, RunPlace, SuccessMeansComplete
<1> QED
  BY <1>4, <1>5, <1>6, <1>7, <1>9, <1>10 DEF IInv

(***************************************************************************)
(* Run sees the channel closed.                                            *)
(***************************************************************************)
LEMMA EndOfInputInv == IInv /\ EndOfInput => IInv'
<1> SUFFICES ASSUME IInv, EndOfInput PROVE IInv'
  OBVIOUS
<1> USE OneshotAssumption DEF IInv, TypeOK, OneshotAssumption, scannerVars, runVars, envVars
<1>1. TypeOK'
  BY DEF EndOfInput, Returns
<1>2. ScannerPlace'
  BY DEF EndOfInput, Returns, ScannerPlace
<1>3. NothingHuge'
  BY DEF EndOfInput, Returns, NothingHuge
<1>4. RunPlace'
  BY DEF EndOfInput, Returns, RunPlace
<1>5. LinesAnsweredInOrder'
  BY DEF EndOfInput, Returns, LinesAnsweredInOrder, Finished, RunPlace
<1>6. SuccessMeansComplete'
  BY DEF EndOfInput, Returns, SuccessMeansComplete, Finished, ScannerPlace, RunPlace
<1> QED
  BY <1>1, <1>2, <1>3, <1>4, <1>5, <1>6

(***************************************************************************)
(* Run answers a line.                                                     *)
(***************************************************************************)
LEMMA HandleInv == IInv /\ Handle => IInv'
<1> SUFFICES ASSUME IInv, Handle PROVE IInv'
  OBVIOUS
<1> USE OneshotAssumption DEF OneshotAssumption, scannerVars, envVars
<1> DEFINE kind == written[received]
           answer == [line |-> received, reply |-> ReplyTo[kind]]
<1>1. /\ run = "handling" /\ received \in Nat \ {0} /\ received \in 1..scanned
      /\ UNCHANGED <<written, stdin, writable, cancelled, scanned, scanner,
                     scanErr, sent, received>>
  BY DEF IInv, TypeOK, RunPlace, Handle
<1>2. kind \in DOMAIN ReplyTo
  <2>1. kind \in Kinds
    BY <1>1 DEF IInv, TypeOK
  <2>2. kind # "empty" /\ kind # "huge"
    BY <1>1 DEF IInv, RunPlace, NothingHuge
  <2> QED
    BY <2>1, <2>2 DEF Kinds
<1>3. answer \in [line : Nat, reply : {ReplyTo[k] : k \in DOMAIN ReplyTo}]
  BY <1>1, <1>2
<1>4. stdout' = IF writable THEN Append(stdout, answer) ELSE stdout
  BY DEF Handle
<1>5. stdout' \in Seq([line : Nat, reply : {ReplyTo[k] : k \in DOMAIN ReplyTo}])
  <2>1. stdout \in Seq([line : Nat, reply : {ReplyTo[k] : k \in DOMAIN ReplyTo}])
    BY DEF IInv, TypeOK
  <2> QED
    BY <1>3, <1>4, <2>1, AppendStays
<1>6. /\ stats' \in [processed : 0..MaxRequests, errors : Nat, skipped : Nat]
      /\ \/ stats'.processed < MaxRequests /\ run' = "selecting" /\ err' = err
         \/ stats'.processed = MaxRequests /\ run' = "returned" /\ err' = "nil"
  <2>1. stats \in [processed : 0..MaxRequests, errors : Nat, skipped : Nat]
    BY DEF IInv, TypeOK
  <2>2. stats.processed < MaxRequests
    BY <1>1 DEF IInv, RunPlace
  <2>3. \/ stats' = [stats EXCEPT !.processed = @ + 1]
        \/ stats' = [stats EXCEPT !.errors = @ + 1]
    BY DEF Handle, Counted
  <2>4. stats' \in [processed : 0..MaxRequests, errors : Nat, skipped : Nat]
    BY <2>1, <2>2, <2>3
  <2>5. IF stats'.processed >= MaxRequests
        THEN run' = "returned" /\ err' = "nil"
        ELSE run' = "selecting" /\ err' = err
    BY DEF Handle, Returns
  <2> QED
    BY <2>4, <2>5
<1>7. TypeOK'
  BY <1>1, <1>5, <1>6 DEF IInv, TypeOK
<1>8. ScannerPlace'
  BY <1>1 DEF IInv, ScannerPlace
<1>9. NothingHuge'
  BY <1>1 DEF IInv, NothingHuge
<1>10. RunPlace'
  BY <1>1, <1>6 DEF IInv, RunPlace
<1>11. Finished = received - 1 /\ Finished' = received
  BY <1>1, <1>6 DEF Finished
<1>12. LinesAnsweredInOrder'
  <2>1. CASE ~ writable
    <3>1. stdout' = stdout
      BY <1>4, <2>1
    <3> QED
      BY <1>1, <1>11, <2>1, <3>1 DEF IInv, LinesAnsweredInOrder
  <2>2. CASE writable
    <3>1. /\ stdout \in Seq([line : Nat, reply : {ReplyTo[k] : k \in DOMAIN ReplyTo}])
          /\ stdout' = Append(stdout, answer)
      BY <1>4, <2>2 DEF IInv, TypeOK
    <3>2. /\ DOMAIN stdout' = 1..(Len(stdout) + 1) /\ DOMAIN stdout = 1..Len(stdout)
          /\ Len(stdout) \in Nat
          /\ \A i \in 1..Len(stdout) : stdout'[i] = stdout[i]
          /\ stdout'[Len(stdout) + 1] = answer
      <4> HIDE DEF answer
      <4> QED
        BY <3>1, <1>3
    <3>3. \A i \in 1..Len(stdout) : stdout[i].line \in 1..(received - 1)
      BY <3>2, <1>11 DEF IInv, LinesAnsweredInOrder
    <3>4. ASSUME NEW i \in DOMAIN stdout', NEW j \in DOMAIN stdout', i < j
          PROVE  stdout'[i].line < stdout'[j].line
      <4>1. CASE j \in 1..Len(stdout)
        BY <3>2, <4>1, <3>4 DEF IInv, LinesAnsweredInOrder
      <4>2. CASE j = Len(stdout) + 1
        BY <3>2, <3>3, <4>2, <3>4, <1>1
      <4> QED
        BY <3>2, <4>1, <4>2
    <3>5. ASSUME NEW i \in DOMAIN stdout'
          PROVE  /\ stdout'[i].line \in 1..received
                 /\ written[stdout'[i].line] \in DOMAIN ReplyTo
                 /\ stdout'[i].reply = ReplyTo[written[stdout'[i].line]]
      <4>1. CASE i \in 1..Len(stdout)
        BY <3>2, <3>3, <4>1, <1>1 DEF IInv, LinesAnsweredInOrder
      <4>2. CASE i = Len(stdout) + 1
        BY <3>2, <4>2, <1>1, <1>2
      <4> QED
        BY <3>2, <4>1, <4>2
    <3>6. ASSUME NEW l \in 1..received, written[l] # "empty"
          PROVE  \E i \in DOMAIN stdout' : stdout'[i].line = l
      <4>1. CASE l = received
        BY <3>2, <4>1
      <4>2. CASE l \in 1..(received - 1)
        BY <3>2, <3>6, <4>2, <1>11, <2>2 DEF IInv, LinesAnsweredInOrder
      <4> QED
        BY <1>1, <4>1, <4>2
    <3> QED
      BY <1>1, <1>11, <3>4, <3>5, <3>6 DEF LinesAnsweredInOrder
  <2> QED
    BY <2>1, <2>2
<1>13. SuccessMeansComplete'
  BY <1>1, <1>6 DEF IInv, RunPlace, SuccessMeansComplete
<1> QED
  BY <1>7, <1>8, <1>9, <1>10, <1>12, <1>13 DEF IInv

(***************************************************************************)
(* The environment disturbs nothing: a line more, an end of the input, a   *)
(* broken stdout or a cancellation.                                        *)
(***************************************************************************)
LEMMA WriteLineInv ==
  ASSUME NEW k \in Kinds
  PROVE  IInv /\ WriteLine(k) => IInv'
<1> SUFFICES ASSUME IInv, WriteLine(k) PROVE IInv'
  OBVIOUS
<1>1. /\ written \in Seq(Kinds) /\ written' = Append(written, k)
      /\ stdin = "open" /\ Len(written) < MaxLines
      /\ UNCHANGED <<stdin, writable, cancelled, scanned, scanner, scanErr,
                     sent, received, run, err, stats, stdout>>
  BY DEF IInv, TypeOK, WriteLine, scannerVars, runVars
<1>2. /\ written' \in Seq(Kinds)
      /\ Len(written) \in Nat /\ Len(written') = Len(written) + 1
      /\ \A l \in 1..Len(written) : written'[l] = written[l]
  BY <1>1, AppendStays
<1>3. /\ scanned \in 0..Len(written) /\ sent \in 0..scanned
      /\ received \in 0..sent
  BY DEF IInv, TypeOK
<1>4. TypeOK'
  BY <1>1, <1>2, <1>3, OneshotAssumption DEF IInv, TypeOK, OneshotAssumption
<1>5. ScannerPlace'
  BY <1>1 DEF IInv, ScannerPlace
<1>6. NothingHuge'
  BY <1>1, <1>2, <1>3 DEF IInv, NothingHuge
<1>7. RunPlace'
  BY <1>1, <1>2, <1>3 DEF IInv, RunPlace
<1>8. Finished' = Finished /\ Finished \in Int /\ Finished <= Len(written)
  BY <1>1, <1>2, <1>3 DEF Finished
<1>9. LinesAnsweredInOrder'
  BY <1>1, <1>2, <1>8 DEF IInv, LinesAnsweredInOrder
<1>10. SuccessMeansComplete'
  BY <1>1 DEF IInv, SuccessMeansComplete
<1> QED
  BY <1>4, <1>5, <1>6, <1>7, <1>9, <1>10 DEF IInv

LEMMA SurroundingsInv ==
  IInv /\ ((\E how \in {"closed", "failed"} : StdinEnds(how))
            \/ StdoutBreaks \/ Cancel) => IInv'
<1> SUFFICES ASSUME IInv,
                    \/ \E how \in {"closed", "failed"} : StdinEnds(how)
                    \/ StdoutBreaks
                    \/ Cancel
             PROVE  IInv'
  OBVIOUS
<1>1. UNCHANGED <<written, scanned, scanner, scanErr, sent,
                  received, run, err, stats, stdout>>
  BY DEF StdinEnds, StdoutBreaks, Cancel, scannerVars, runVars
<1>2. /\ stdin' \in {"open", "closed", "failed"}
      /\ stdin = "closed" => stdin' = "closed"
  BY DEF IInv, TypeOK, StdinEnds, StdoutBreaks, Cancel
<1>3. /\ writable' \in BOOLEAN /\ cancelled' \in BOOLEAN
      /\ writable' => writable
      /\ cancelled => cancelled'
  <2>1. writable \in BOOLEAN /\ cancelled \in BOOLEAN
    BY Zenon DEF IInv, TypeOK
  <2>2. /\ writable' = writable \/ (writable /\ writable' = FALSE)
        /\ cancelled' = cancelled \/ cancelled' = TRUE
    BY Zenon DEF StdinEnds, StdoutBreaks, Cancel
  <2>3. writable' \in BOOLEAN /\ (writable' => writable)
    <3>1. CASE writable' = writable
      BY <2>1, <3>1
    <3>2. CASE writable' = FALSE
      BY <3>2
    <3> QED
      BY <2>2, <3>1, <3>2
  <2>4. cancelled' \in BOOLEAN /\ (cancelled => cancelled')
    <3>1. CASE cancelled' = cancelled
      BY <2>1, <3>1
    <3>2. CASE cancelled' = TRUE
      BY <3>2
    <3> QED
      BY <2>2, <3>1, <3>2
  <2> QED
    BY <2>3, <2>4
<1>4. TypeOK'
  BY <1>1, <1>2, <1>3 DEF IInv, TypeOK
<1>5. ScannerPlace'
  BY <1>1, <1>2, <1>3 DEF IInv, ScannerPlace
<1>6. NothingHuge'
  BY <1>1 DEF IInv, NothingHuge
<1>7. RunPlace'
  BY <1>1 DEF IInv, RunPlace
<1>8. Finished' = Finished
  BY <1>1 DEF Finished
<1>9. LinesAnsweredInOrder'
  BY <1>1, <1>3, <1>8 DEF IInv, LinesAnsweredInOrder
<1>10. SuccessMeansComplete'
  BY <1>1, <1>2, <1>3, <1>8 DEF IInv, SuccessMeansComplete
<1> QED
  BY <1>4, <1>5, <1>6, <1>7, <1>9, <1>10 DEF IInv

(***************************************************************************)
(* The transport starts in the invariant, and no step leaves it.           *)
(***************************************************************************)
LEMMA OneshotInitInv == Init => IInv
<1> SUFFICES ASSUME Init PROVE IInv
  OBVIOUS
<1> USE OneshotAssumption DEF OneshotAssumption
<1>1. writable \in BOOLEAN /\ cancelled \in BOOLEAN /\ scanErr \in BOOLEAN
  BY Zenon DEF Init
<1>2. /\ written = <<>> /\ stdout = <<>> /\ scanned = 0 /\ sent = 0
      /\ received = 0 /\ run = "selecting" /\ err = "none"
      /\ stdin = "open" /\ scanner = "scanning"
      /\ stats = [processed |-> 0, errors |-> 0, skipped |-> 0]
  BY DEF Init
<1>3. stats \in [processed : 0..MaxRequests, errors : Nat, skipped : Nat]
  BY <1>2
<1>4. TypeOK
  BY <1>1, <1>2, <1>3 DEF TypeOK
<1>5. ScannerPlace /\ NothingHuge /\ RunPlace
  BY <1>2 DEF ScannerPlace, NothingHuge, RunPlace
<1>6. LinesAnsweredInOrder
  BY <1>2 DEF LinesAnsweredInOrder, Finished
<1>7. SuccessMeansComplete
  BY <1>2 DEF SuccessMeansComplete
<1> QED
  BY <1>4, <1>5, <1>6, <1>7 DEF IInv

LEMMA OneshotStepInv == IInv /\ [Next]_vars => IInv'
<1> SUFFICES ASSUME IInv, [Next]_vars PROVE IInv'
  OBVIOUS
<1>1. CASE ScannerGoroutine
  BY <1>1, ScanLineInv, ScanEndsInv, SendInv, SendCancelledInv
     DEF ScannerGoroutine
<1>2. CASE Run
  BY <1>2, RunCancelledInv, ReceiveInv, EndOfInputInv, HandleInv DEF Run
<1>3. CASE Environment
  BY <1>3, WriteLineInv, SurroundingsInv DEF Environment
<1>4. CASE UNCHANGED vars
  <2> USE <1>4 DEF vars, scannerVars, runVars, envVars, IInv
  <2>1. TypeOK'
    BY DEF TypeOK
  <2>2. ScannerPlace' /\ NothingHuge' /\ RunPlace'
    BY DEF ScannerPlace, NothingHuge, RunPlace
  <2>3. LinesAnsweredInOrder' /\ SuccessMeansComplete'
    BY DEF LinesAnsweredInOrder, SuccessMeansComplete, Finished
  <2> QED
    BY <2>1, <2>2, <2>3
<1> QED
  BY <1>1, <1>2, <1>3, <1>4 DEF Next
-------------------------------------------------------------------------------
(***************************************************************************)
(* The statistics.  Their counts are of finite sets of lines and answers.  *)
(***************************************************************************)
EmptyLines == {l \in 1..Finished : written[l] = "empty"}
Successes == {i \in DOMAIN stdout : written[stdout[i].line] \notin Failing}

LEMMA CountedSets ==
  ASSUME IInv
  PROVE  /\ Finished \in 0..Len(written) /\ Len(stdout) \in Nat
         /\ DOMAIN stdout = 1..Len(stdout)
         /\ IsFiniteSet(EmptyLines) /\ EmptyLines \subseteq 1..Finished
         /\ IsFiniteSet(Successes) /\ Successes \subseteq 1..Len(stdout)
<1>1. /\ received \in 0..Len(written) /\ Len(written) \in Nat
      /\ run = "handling" => received > 0
  BY DEF IInv, TypeOK, RunPlace
<1>2. Finished \in 0..Len(written)
  BY <1>1 DEF Finished
<1>3. Len(stdout) \in Nat /\ DOMAIN stdout = 1..Len(stdout)
  BY DEF IInv, TypeOK
<1>4. IsFiniteSet(1..Finished) /\ IsFiniteSet(1..Len(stdout))
  BY <1>1, <1>2, <1>3, FS_Interval
<1>5. EmptyLines \in SUBSET (1..Finished) /\ Successes \in SUBSET (1..Len(stdout))
  BY <1>3 DEF EmptyLines, Successes
<1> QED
  BY <1>2, <1>3, <1>4, <1>5, FS_Subset

(***************************************************************************)
(* A step that finishes no line changes no count.                          *)
(***************************************************************************)
LEMMA CountsStay ==
  ASSUME IInv, StatsAccountForLines, UNCHANGED <<stats, stdout>>,
         Finished' = Finished, run' # "returned" => run # "returned",
         \A l \in 1..Finished : written'[l] = written[l]
  PROVE  StatsAccountForLines'
<1>1. EmptyLines' = EmptyLines
  BY DEF EmptyLines
<1>2. \A i \in DOMAIN stdout : stdout[i].line \in 1..Finished
  BY DEF IInv, LinesAnsweredInOrder
<1>3. Successes' = Successes
  BY <1>2 DEF Successes
<1> QED
  BY <1>1, <1>3 DEF StatsAccountForLines, EmptyLines, Successes

(***************************************************************************)
(* Run takes a line: an empty one is skipped and counted, any other is     *)
(* still to be handled.                                                    *)
(***************************************************************************)
LEMMA ReceiveCounts ==
  ASSUME IInv, IInv', StatsAccountForLines, Receive
  PROVE  StatsAccountForLines'
<1>1. /\ run = "selecting" /\ received \in Nat /\ received' = received + 1
      /\ UNCHANGED <<written, stdout>>
  BY DEF IInv, TypeOK, Receive, envVars
<1>2. CASE written[received'] # "empty"
  <2>1. run' = "handling" /\ stats' = stats
    BY <1>2 DEF Receive
  <2>2. Finished' = Finished
    BY <1>1, <2>1 DEF Finished
  <2> QED
    BY <1>1, <2>1, <2>2, CountsStay
<1>3. CASE written[received'] = "empty"
  <2>1. run' = run /\ stats' = [stats EXCEPT !.skipped = @ + 1]
    BY <1>3 DEF Receive
  <2>2. Finished = received /\ Finished' = Finished + 1
    BY <1>1, <2>1 DEF Finished
  <2>3. EmptyLines' = EmptyLines \cup {Finished + 1}
    BY <1>1, <1>3, <2>2 DEF EmptyLines
  <2>4. Cardinality(EmptyLines') = Cardinality(EmptyLines) + 1
    <3>1. IsFiniteSet(EmptyLines) /\ Finished \in Nat /\ EmptyLines \subseteq 1..Finished
      BY <1>1, <2>2, CountedSets
    <3>2. Finished + 1 \notin EmptyLines
      BY <3>1
    <3> HIDE DEF EmptyLines, Finished
    <3> QED
      BY <2>3, <3>1, <3>2, FS_AddElement
  <2>5. Successes' = Successes
    BY <1>1 DEF Successes
  <2>6. /\ stats \in [processed : 0..MaxRequests, errors : Nat, skipped : Nat]
        /\ stats.skipped = Cardinality(EmptyLines) /\ Cardinality(EmptyLines) \in Nat
    BY CountedSets, FS_CardinalityType DEF StatsAccountForLines, EmptyLines, IInv, TypeOK
  <2>7. /\ stats'.processed = stats.processed /\ stats'.errors = stats.errors
        /\ stats'.skipped = stats.skipped + 1
    BY <2>1, <2>6
  <2>8. stats'.skipped = Cardinality(EmptyLines')
    BY <2>4, <2>6, <2>7
  <2>9. stats'.processed + stats'.errors + stats'.skipped = Finished'
    BY <2>2, <2>6, <2>7, <1>1 DEF StatsAccountForLines, OneshotAssumption
  <2>10. stats'.processed = Cardinality(Successes')
    BY <2>5, <2>7 DEF StatsAccountForLines, Successes
  <2>11. run' # "returned" => stats'.processed < MaxRequests
    BY <2>1, <2>7 DEF StatsAccountForLines
  <2> QED
    BY <2>8, <2>9, <2>10, <2>11 DEF StatsAccountForLines, EmptyLines, Successes
<1> QED
  BY <1>2, <1>3

(***************************************************************************)
(* Run is through with a line: its answer, if stdout took it, is one more  *)
(* success or not, and the counters agree.                                 *)
(***************************************************************************)
LEMMA HandleCounts ==
  ASSUME IInv, IInv', StatsAccountForLines, Handle
  PROVE  StatsAccountForLines'
<1> DEFINE kind == written[received]
           answer == [line |-> received, reply |-> ReplyTo[kind]]
           ok == writable /\ kind \notin Failing
<1>1. /\ run = "handling" /\ received \in Nat \ {0} /\ UNCHANGED <<written, received>>
      /\ kind # "empty" /\ stdout \in Seq([line : Nat, reply : {ReplyTo[k] : k \in DOMAIN ReplyTo}])
      /\ stats \in [processed : 0..MaxRequests, errors : Nat, skipped : Nat]
  BY DEF IInv, TypeOK, RunPlace, Handle, envVars
<1>2. /\ stdout' = IF writable THEN Append(stdout, answer) ELSE stdout
      /\ stats' = IF ok THEN [stats EXCEPT !.processed = @ + 1]
                        ELSE [stats EXCEPT !.errors = @ + 1]
      /\ run' # "handling"
      /\ run' # "returned" => ~ stats'.processed >= MaxRequests
  BY DEF Handle, Counted, Returns
<1>3. Finished' = Finished + 1 /\ Finished = received - 1 /\ Finished' = received
  BY <1>1, <1>2 DEF Finished
<1>4. EmptyLines' = EmptyLines
  BY <1>1, <1>3 DEF EmptyLines
<1>5. Cardinality(Successes') = Cardinality(Successes) + (IF ok THEN 1 ELSE 0)
  <2>1. CASE ~ writable
    BY <1>1, <1>2, <2>1, CountedSets, FS_CardinalityType DEF Successes
  <2>2. CASE writable
    <3>1. /\ Len(stdout) \in Nat /\ DOMAIN stdout = 1..Len(stdout)
          /\ DOMAIN stdout' = 1..(Len(stdout) + 1)
          /\ \A i \in 1..Len(stdout) : stdout'[i] = stdout[i]
          /\ stdout'[Len(stdout) + 1] = answer
      <4>1. stdout' = Append(stdout, answer)
        BY <1>2, <2>2
      <4> HIDE DEF answer, kind
      <4> QED
        BY <1>1, <4>1
    <3>2. Successes' = IF ok THEN Successes \cup {Len(stdout) + 1} ELSE Successes
      <4>1. answer.line = received
        OBVIOUS
      <4> QED
        BY <1>1, <2>2, <3>1, <4>1 DEF Successes
    <3>3. Len(stdout) + 1 \notin Successes
      BY <3>1 DEF Successes
    <3>4. IsFiniteSet(Successes) /\ Cardinality(Successes) \in Nat
      BY CountedSets, FS_CardinalityType
    <3> HIDE DEF ok, Successes
    <3>5. CASE ok
      <4>1. Successes' = Successes \cup {Len(stdout) + 1}
        BY <3>2, <3>5
      <4>2. Cardinality(Successes') = Cardinality(Successes) + 1
        BY <3>3, <3>4, <4>1, FS_AddElement
      <4> QED
        BY <3>5, <4>2
    <3>6. CASE ~ ok
      BY <3>2, <3>4, <3>6
    <3> QED
      BY <3>5, <3>6
  <2> QED
    BY <2>1, <2>2
<1>6. /\ stats.processed = Cardinality(Successes) /\ stats.skipped = Cardinality(EmptyLines)
      /\ stats.processed + stats.errors + stats.skipped = Finished
  BY DEF StatsAccountForLines, Successes, EmptyLines
<1>7. /\ stats'.processed = stats.processed + (IF ok THEN 1 ELSE 0)
      /\ stats'.errors = stats.errors + (IF ok THEN 0 ELSE 1)
      /\ stats'.skipped = stats.skipped
  <2> HIDE DEF ok
  <2> QED
    BY <1>1, <1>2
<1>8. /\ stats'.processed \in Int /\ stats'.errors \in Int /\ stats'.skipped \in Int
      /\ stats'.processed + stats'.errors + stats'.skipped = Finished'
  <2> HIDE DEF ok
  <2>1. /\ stats.processed \in Int /\ stats.errors \in Int /\ stats.skipped \in Int
        /\ Finished \in Int
    BY <1>1, <1>3, OneshotAssumption DEF OneshotAssumption
  <2>2. CASE ok
    BY <1>3, <1>6, <1>7, <2>1, <2>2
  <2>3. CASE ~ ok
    BY <1>3, <1>6, <1>7, <2>1, <2>3
  <2> QED
    BY <2>2, <2>3
<1>9. stats'.processed = Cardinality(Successes') /\ stats'.skipped = Cardinality(EmptyLines')
  BY <1>4, <1>5, <1>6, <1>7
<1>10. run' # "returned" => stats'.processed < MaxRequests
  BY <1>2, <1>8, OneshotAssumption DEF OneshotAssumption
<1> QED
  BY <1>8, <1>9, <1>10 DEF StatsAccountForLines, EmptyLines, Successes

(***************************************************************************)
(* The statistics start right and every step keeps them right.             *)
(***************************************************************************)
LEMMA StatsStart == Init => StatsAccountForLines
<1> SUFFICES ASSUME Init PROVE StatsAccountForLines
  OBVIOUS
<1>1. EmptyLines = {} /\ Successes = {} /\ Finished = 0
  BY DEF Init, EmptyLines, Successes, Finished
<1>2. Cardinality(EmptyLines) = 0 /\ Cardinality(Successes) = 0
  BY <1>1, FS_EmptySet
<1> QED
  BY <1>1, <1>2, OneshotAssumption
     DEF Init, StatsAccountForLines, EmptyLines, Successes, OneshotAssumption

LEMMA StatsStep ==
  IInv /\ IInv' /\ StatsAccountForLines /\ [Next]_vars => StatsAccountForLines'
<1> SUFFICES ASSUME IInv, IInv', StatsAccountForLines, [Next]_vars
             PROVE  StatsAccountForLines'
  OBVIOUS
<1>1. ASSUME NEW k \in Kinds, WriteLine(k) PROVE StatsAccountForLines'
  <2>1. /\ written \in Seq(Kinds) /\ written' = Append(written, k)
        /\ UNCHANGED <<received, run, stats, stdout>>
    BY <1>1 DEF IInv, TypeOK, WriteLine, runVars
  <2>2. \A l \in 1..Len(written) : written'[l] = written[l]
    BY <2>1
  <2>3. \A l \in 1..Finished : written'[l] = written[l]
    BY <2>1, <2>2, CountedSets
  <2> QED
    BY <2>1, <2>3, CountsStay DEF Finished
<1>2. CASE \/ ScanLine \/ ScanEnds \/ Send \/ SendCancelled \/ RunCancelled \/ EndOfInput
           \/ (\E how \in {"closed", "failed"} : StdinEnds(how))
           \/ StdoutBreaks \/ Cancel \/ UNCHANGED vars
  <2>1. /\ UNCHANGED <<written, received, stats, stdout>>
        /\ run' = run \/ (run = "selecting" /\ run' = "returned")
    BY <1>2 DEF ScanLine, ScanEnds, Send, SendCancelled, RunCancelled, EndOfInput, Returns,
                StdinEnds, StdoutBreaks, Cancel, vars, scannerVars, runVars, envVars
  <2>2. Finished' = Finished
    BY <2>1 DEF Finished
  <2> QED
    BY <2>1, <2>2, CountsStay
<1> QED
  BY <1>1, <1>2, ReceiveCounts, HandleCounts
     DEF Next, ScannerGoroutine, Run, Environment
-------------------------------------------------------------------------------
(***************************************************************************)
(* The inductive invariant holds throughout.                               *)
(***************************************************************************)
THEOREM OneshotInvariant == Spec => []IInv
  BY OneshotInitInv, OneshotStepInv, PTL DEF Spec

(***************************************************************************)
(* Types, and with them the channel's capacity of one line.                *)
(***************************************************************************)
THEOREM OneshotTypeCorrect == Spec => []TypeOK
<1>1. IInv => TypeOK
  BY DEF IInv
<1> QED
  BY <1>1, OneshotInvariant, PTL

(***************************************************************************)
(* Run answers the lines in their order, each once with its own reply, and *)
(* leaves none out while stdout takes them.                                *)
(***************************************************************************)
THEOREM ResponsesInOrder == Spec => []LinesAnsweredInOrder
<1>1. IInv => LinesAnsweredInOrder
  BY DEF IInv
<1> QED
  BY <1>1, OneshotInvariant, PTL

(***************************************************************************)
(* An uncancelled Run that returns nil met its limit or saw all the input. *)
(***************************************************************************)
THEOREM SuccessIsComplete == Spec => []SuccessMeansComplete
<1>1. IInv => SuccessMeansComplete
  BY DEF IInv
<1> QED
  BY <1>1, OneshotInvariant, PTL

(***************************************************************************)
(* The statistics count every line Run took once, and a success only with  *)
(* its response on stdout.                                                 *)
(***************************************************************************)
THEOREM StatisticsAreTrue == Spec => []StatsAccountForLines
  BY OneshotInvariant, StatsStart, StatsStep, PTL DEF Spec
===============================================================================
