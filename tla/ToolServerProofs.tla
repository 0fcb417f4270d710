--------------------------- MODULE ToolServerProofs ---------------------------
(***************************************************************************)
(* What the tools promise of their answers, for the server as a whole: any *)
(* number of GPUs, devices, pods and log records, whatever fails and       *)
(* whenever the call is cancelled.                                         *)
(***************************************************************************)
EXTENDS ToolServer, GPUHealthProofs, ToolLemmas

-------------------------------------------------------------------------------
(* get_gpu_inventory.                                                      *)

\* The device in hand: none is begun by a call that is cancelled.
DeviceInHand ==
  /\ deviceCount \in Nat /\ device \in 0..deviceCount
  /\ inventoryAt = "count" => device = 0 /\ deviceCount = 0
  /\ inventoryAt = "collect" => device < deviceCount /\ unseen = {}
  /\ inventoryAt = "versions" => device = deviceCount

UnseenIsLast ==
  /\ unseen # {} => ctxDone
  /\ unseen \subseteq {device - 1}

DevicesInOrder ==
  /\ devices \in Seq([index : Nat, read : SUBSET OptionalFields])
  /\ \A i \in DOMAIN devices : devices[i].index < device
  /\ \A i, j \in DOMAIN devices : i < j => devices[i].index < devices[j].index

InventoryAnswered ==
  /\ reply # "none" => inventoryAt = "done"
  /\ reply = "answer" => device = deviceCount

InventoryInv == DeviceInHand /\ UnseenIsLast /\ DevicesInOrder /\ InventoryAnswered

LEMMA InventoryInitInv == InventoryInit => InventoryInv
  BY DEF InventoryInit, CallInit, InventoryInv, DeviceInHand, UnseenIsLast, DevicesInOrder,
         InventoryAnswered

(***************************************************************************)
(* A device that is listed comes after all that are.                       *)
(***************************************************************************)
LEMMA CollectDeviceInv == ASSUME InventoryInv, CollectDevice PROVE InventoryInv'
<1> USE DEF InventoryInv, CollectDevice, callVars
<1>1. DeviceInHand' /\ UnseenIsLast' /\ InventoryAnswered'
  BY DEF DeviceInHand, UnseenIsLast, InventoryAnswered
<1>2. DevicesInOrder'
  <2>1. PICK read \in SUBSET OptionalFields :
          devices' = Append(devices, [index |-> device, read |-> read])
    BY DEF Getter
  <2> DEFINE entry == [index |-> device, read |-> read]
             D == [index : Nat, read : SUBSET OptionalFields]
  <2>2. entry \in D /\ device \in Nat /\ devices \in Seq(D)
    BY DEF DeviceInHand, DevicesInOrder
  <2>3. /\ devices' \in Seq(D) /\ Len(devices) \in Nat /\ Len(devices') = Len(devices) + 1
        /\ DOMAIN devices = 1..Len(devices) /\ DOMAIN devices' = 1..Len(devices')
        /\ \A i \in 1..Len(devices) : devices'[i] = devices[i]
        /\ devices'[Len(devices) + 1].index = device
    BY <2>1, <2>2, AppendProperties, LenProperties
  <2>4. device' = device + 1
    OBVIOUS
  <2>5. ASSUME NEW i \in DOMAIN devices PROVE devices[i].index \in Nat
    <3>1. devices[i] \in D
      BY <2>2, <2>3, ElementOfSeq
    <3> QED
      BY <3>1
  <2>6. \A i \in DOMAIN devices : devices[i].index < device
    BY DEF DevicesInOrder
  <2>7. ASSUME NEW i \in DOMAIN devices' PROVE devices'[i].index < device'
    <3>1. CASE i \in DOMAIN devices
      BY <2>2, <2>3, <2>4, <2>5, <2>6, <3>1
    <3>2. CASE i = Len(devices) + 1
      BY <2>2, <2>3, <2>4, <3>2
    <3> QED
      BY <2>3, <3>1, <3>2
  <2>8. ASSUME NEW i \in DOMAIN devices', NEW j \in DOMAIN devices', i < j
        PROVE  devices'[i].index < devices'[j].index
    <3>1. CASE j \in DOMAIN devices
      BY <2>3, <2>8, <3>1 DEF DevicesInOrder
    <3>2. CASE j = Len(devices) + 1
      BY <2>3, <2>6, <2>8, <3>2
    <3> QED
      BY <2>3, <3>1, <3>2
  <2> QED
    BY <2>3, <2>7, <2>8 DEF DevicesInOrder
<1> QED
  BY <1>1, <1>2

(***************************************************************************)
(* So does the list that stays, when the device is left.                   *)
(***************************************************************************)
LEMMA OrderKept ==
  ASSUME DeviceInHand, DevicesInOrder, devices' = devices, device' \in {device, device + 1}
  PROVE  DevicesInOrder'
<1>1. \A i \in DOMAIN devices : devices[i].index \in Nat
  <2> DEFINE D == [index : Nat, read : SUBSET OptionalFields]
  <2>1. DOMAIN devices = 1..Len(devices) /\ devices \in Seq(D)
    BY LenProperties DEF DevicesInOrder
  <2>2. \A i \in DOMAIN devices : devices[i] \in D
    BY <2>1, ElementOfSeq
  <2> QED
    BY <2>2
<1>2. \A i \in DOMAIN devices : devices[i].index < device'
  BY <1>1 DEF DeviceInHand, DevicesInOrder
<1> QED
  BY <1>2 DEF DevicesInOrder

LEMMA InventoryStepInv ==
  InventoryInv /\ [InventoryNext]_<<callVars, inventoryVars>> => InventoryInv'
<1> SUFFICES ASSUME InventoryInv, [InventoryNext]_<<callVars, inventoryVars>> PROVE InventoryInv'
  OBVIOUS
<1> USE DEF InventoryInv, DeviceInHand, UnseenIsLast, InventoryAnswered,
            callVars, inventoryVars, Reply
<1>1. CASE CancelCall /\ UNCHANGED inventoryVars
  BY <1>1, OrderKept DEF CancelCall
<1>2. CASE CountDevices
  BY <1>2, InventoryAssumption, OrderKept DEF CountDevices, Outcomes, Getter, Failed
<1>3. CASE NextDevice
  <2>1. devices' = devices /\ device' \in {device, device + 1}
    BY <1>3 DEF NextDevice, RequiredInfo
  <2>2. CASE device = deviceCount \/ ctxDone
    <3>1. /\ UNCHANGED <<deviceCount, device, unseen, ctxDone>> /\ inventoryAt = "next"
          /\ \/ inventoryAt' = "versions" /\ device = deviceCount /\ reply' = reply
             \/ inventoryAt' = "done" /\ reply' = "error"
      BY <1>3, <2>2 DEF NextDevice
    <3> QED
      BY <2>1, <3>1, OrderKept
  <2>3. CASE device # deviceCount /\ ~ ctxDone
    <3>1. /\ UNCHANGED <<deviceCount, ctxDone, reply>> /\ inventoryAt = "next"
          /\ \/ inventoryAt' = "collect" /\ UNCHANGED <<device, unseen>>
             \/ inventoryAt' = "next" /\ device' = device + 1 /\ unseen' = unseen
      BY <1>3, <2>3 DEF NextDevice, RequiredInfo
    <3> QED
      BY <2>1, <2>3, <3>1, OrderKept
  <2> QED
    BY <2>2, <2>3
<1>4. CASE CollectDevice
  BY <1>4, CollectDeviceInv
<1>5. CASE InventoryAnswer
  BY <1>5, OrderKept DEF InventoryAnswer
<1>6. CASE UNCHANGED <<callVars, inventoryVars>>
  BY <1>6, OrderKept
<1> QED
  BY <1>1, <1>2, <1>3, <1>4, <1>5, <1>6 DEF InventoryNext, InventorySteps

-------------------------------------------------------------------------------
(* analyze_xid_errors.                                                     *)

\* The goroutine runs only while ReadMessages does, and no reply comes first.
XidInv ==
  /\ reader # "off" => xidAt \in {"reading", "draining"}
  /\ reply # "none" => xidAt = "done"

LEMMA XidStepInv == XidInv /\ [XidNext]_<<callVars, xidVars>> => XidInv'
<1> SUFFICES ASSUME XidInv, [XidNext]_<<callVars, xidVars>> PROVE XidInv'
  OBVIOUS
<1> USE DEF XidInv, callVars, xidVars, readerVars, Reply
<1>1. CASE CancelCall /\ UNCHANGED xidVars
  BY <1>1 DEF CancelCall
<1>2. CASE XidHandler
  BY <1>2 DEF XidHandler, XidStart, ReadResult, CloseFile, DrainResult, ParseDmesg,
              EnrichEvent, XidAnswer
<1>3. CASE ReadTimeout \/ XidReader
  BY <1>3 DEF ReadTimeout, XidReader, ScanRecord, ScanEnds
<1>4. CASE UNCHANGED <<callVars, xidVars>>
  BY <1>4
<1> QED
  BY <1>1, <1>2, <1>3, <1>4 DEF XidNext

-------------------------------------------------------------------------------
(* The events of an answer.                                                *)

\* What the goroutine has read of the log.
LogRead ==
  /\ log \in Seq(Records) /\ scanned \in 0..Len(log) /\ messages \in Seq(Records)
  /\ xidAt = "start" => scanned = 0 /\ messages = <<>> /\ ~ scanFailed
  /\ scanFailed \in BOOLEAN /\ (closed => ReadDone) /\ (xidAt = "draining" => closed)
  /\ reader = "sent" /\ ~ scanFailed => scanned = Len(log) \/ ReadDone

ReadUpTo(found, n) == found = ParseMessages(SubSeq(log, 1, n))

\* The messages kept are all the driver's of what was scanned, unless the
\* context was done before.
MessagesOfPrefix ==
  \E n \in 0..scanned :
    ReadUpTo(ParseMessages(messages), n) /\ (n = scanned \/ ReadDone)

EventsOfPrefix ==
  xidAt = "parsed" \/ reply = "answer" =>
    \E n \in 0..Len(log) : ReadUpTo(events, n) /\ (n = Len(log) \/ ReadDone)

\* The errors so far are the first of the events.
EventsEnriched ==
  /\ events \in Seq(XidEvents) /\ Len(errors) \in 0..Len(events)
  /\ DOMAIN errors = 1..Len(errors)
  /\ \A i \in 1..Len(errors) : errors[i].severity = events[i].severity
  /\ xidAt \in {"start", "reading", "draining", "dmesg"} => Len(errors) = 0

XidAnswered ==
  reply = "answer" =>
    /\ xidAt = "done" /\ Len(errors) = Len(events)
    /\ xidStatus = XidStatusOf(Severities(errors))

LogInv == LogRead /\ MessagesOfPrefix /\ EventsOfPrefix /\ EventsEnriched /\ XidAnswered

LEMMA LogInitInv == XidInit => LogInv
<1> SUFFICES ASSUME XidInit PROVE LogInv
  OBVIOUS
<1>1. /\ reply = "none" /\ xidAt = "start" /\ log = <<>> /\ reader = "off" /\ scanned = 0
      /\ messages = <<>> /\ scanFailed = FALSE /\ timedOut = FALSE /\ closed = FALSE
      /\ events = <<>> /\ errors = <<>>
  BY Zenon DEF XidInit, CallInit
<1>2. SubSeq(log, 1, 0) = messages /\ 0 \in 0..scanned
  BY <1>1
<1>3. MessagesOfPrefix
  BY <1>1, <1>2 DEF MessagesOfPrefix, ReadUpTo
<1>4. LogRead
  <2>1. scanFailed \in BOOLEAN /\ ~ scanFailed /\ ~ closed
    BY <1>1, Zenon
  <2>2. log \in Seq(Records) /\ scanned \in 0..Len(log) /\ messages \in Seq(Records)
    BY <1>1
  <2> QED
    BY <1>1, <2>1, <2>2, Zenon DEF LogRead
<1> QED
  BY <1>1, <1>3, <1>4 DEF LogInv, EventsOfPrefix, EventsEnriched, XidAnswered

(***************************************************************************)
(* Steps that leave what was read, and what became of it, alone.           *)
(***************************************************************************)
LEMMA LogKept ==
  ASSUME LogInv, UNCHANGED <<log, scanned, messages, scanFailed, closed, events, errors>>,
         ReadDone => ReadDone',
         xidAt' = xidAt
         \/ (xidAt' = "done" /\ reply' = "error")
         \/ (xidAt = "start" /\ xidAt' \in {"reading", "dmesg"}),
         reply' # "answer" \/ (reply' = reply /\ xidStatus' = xidStatus /\ xidAt' = xidAt),
         reader' \in {reader, "off", "scanning"}
  PROVE  LogInv'
<1>1. LogRead'
  BY DEF LogInv, LogRead
<1>2. MessagesOfPrefix'
  BY DEF LogInv, MessagesOfPrefix, ReadUpTo
<1>3. EventsOfPrefix'
  BY DEF LogInv, EventsOfPrefix, ReadUpTo
<1>4. EventsEnriched'
  BY DEF LogInv, EventsEnriched
<1>5. XidAnswered'
  BY DEF LogInv, XidAnswered
<1> QED
  BY <1>1, <1>2, <1>3, <1>4, <1>5 DEF LogInv

(***************************************************************************)
(* A record that is kept, or that has no Xid, is the next of the prefix.   *)
(***************************************************************************)
LEMMA ScanRecordInv == ASSUME XidInv, LogInv, ScanRecord PROVE LogInv'
<1> DEFINE r == log[scanned + 1]
<1>1. /\ reader = "scanning" /\ scanned < Len(log) /\ scanned' = scanned + 1 /\ ~ closed
      /\ UNCHANGED <<xidAt, log, scanFailed, closed, events, errors, reply, xidStatus>>
      /\ ReadDone' = ReadDone
      /\ \/ ReadDone /\ reader' = "sent" /\ messages' = messages
         \/ ~ ReadDone /\ reader' = reader
            /\ messages' = IF Kept(r) THEN Append(messages, r) ELSE messages
  BY DEF ScanRecord, ReadDone, callVars
<1>2. /\ log \in Seq(Records) /\ messages \in Seq(Records) /\ Len(log) \in Nat /\ scanned \in Nat
      /\ scanned \in 0..(Len(log) - 1) /\ scanned + 1 \in 0..Len(log)
      /\ scanned + 1 \in 0..(scanned + 1)
  BY <1>1 DEF LogInv, LogRead
<1>3. /\ SubSeq(log, 1, scanned) \in Seq(Records) /\ r \in Records
      /\ SubSeq(log, 1, scanned + 1) = Append(SubSeq(log, 1, scanned), r)
  BY <1>2, PrefixGrows
<1> HIDE DEF r
<1>4. xidAt # "start"
  BY <1>1 DEF XidInv
<1>5. LogRead'
  <2>1. messages' \in Seq(Records)
    <3>1. messages' = messages \/ messages' = Append(messages, r)
      BY <1>1, Zenon
    <3>2. Append(messages, r) \in Seq(Records)
      <4> HIDE DEF Records
      <4> QED
        BY <1>2, <1>3
    <3> QED
      BY <1>2, <3>1, <3>2
  <2> QED
    BY <1>1, <1>2, <1>4, <2>1 DEF LogInv, LogRead
<1>6. PICK n \in 0..scanned : ReadUpTo(ParseMessages(messages), n) /\ (n = scanned \/ ReadDone)
  BY DEF LogInv, MessagesOfPrefix
<1>7. CASE ReadDone
  <2>1. n \in 0..scanned' /\ ReadUpTo(ParseMessages(messages), n)' /\ ReadDone'
    BY <1>1, <1>2, <1>6, <1>7 DEF ReadUpTo
  <2>2. MessagesOfPrefix'
    BY <2>1 DEF MessagesOfPrefix
  <2> QED
    BY <1>1, <1>5, <2>2 DEF LogInv, EventsOfPrefix, EventsEnriched, XidAnswered, ReadUpTo
<1>8. CASE ~ ReadDone
  <2> DEFINE before == ParseMessages(messages)
             after == IF r.text = "xid" THEN Append(before, ParseXid(r)) ELSE before
  <2>1. before = ParseMessages(SubSeq(log, 1, scanned))
    BY <1>6, <1>8 DEF ReadUpTo
  <2>2. ParseMessages(SubSeq(log, 1, scanned + 1)) = after
    BY <1>3, <2>1, EventsAppend
  <2>3. ParseMessages(messages') = after
    <3>1. CASE Kept(r)
      <4>1. messages' = Append(messages, r)
        BY <1>1, <1>8, <3>1
      <4> QED
        BY <1>2, <1>3, <4>1, EventsAppend
    <3>2. CASE ~ Kept(r)
      <4>1. messages' = messages /\ r.text # "xid"
        BY <1>1, <1>8, <3>2 DEF Kept
      <4> QED
        BY <4>1
    <3> QED
      BY <3>1, <3>2
  <2>4. MessagesOfPrefix'
    BY <1>1, <1>2, <2>2, <2>3 DEF MessagesOfPrefix, ReadUpTo
  <2> QED
    BY <1>1, <1>5, <2>4 DEF LogInv, EventsOfPrefix, EventsEnriched, XidAnswered, ReadUpTo
<1> QED
  BY <1>7, <1>8

(***************************************************************************)
(* The goroutine's result is what it kept, of the whole log if it came in  *)
(* time and without an error.                                              *)
(***************************************************************************)
LEMMA ResultInv ==
  ASSUME XidInv, LogInv, xidAt \in {"reading", "draining"}, reader = "sent",
         xidAt = "reading" => ~ scanFailed,
         xidAt' = "parsed", reader' = "off", events' = ParseMessages(messages),
         UNCHANGED <<callVars, log, scanned, messages, scanFailed, timedOut, closed,
                     errors, xidStatus>>
  PROVE  LogInv'
<1>1. reply = "none" /\ reply' = "none" /\ ReadDone' = ReadDone
  BY DEF LogInv, XidAnswered, XidInv, callVars, ReadDone
<1>2. scanned = Len(log) \/ ReadDone
  BY DEF LogInv, LogRead
<1>3. LogRead' /\ XidAnswered' /\ MessagesOfPrefix'
  BY <1>1, <1>2 DEF LogInv, LogRead, XidAnswered, MessagesOfPrefix, ReadUpTo
<1>4. PICK n \in 0..scanned : ReadUpTo(ParseMessages(messages), n) /\ (n = scanned \/ ReadDone)
  BY DEF LogInv, MessagesOfPrefix
<1>5. n \in 0..Len(log) /\ (n = Len(log) \/ ReadDone)
  BY <1>2, <1>4 DEF LogInv, LogRead
<1>6. EventsOfPrefix'
  BY <1>1, <1>4, <1>5 DEF EventsOfPrefix, ReadUpTo
<1>7. EventsEnriched'
  <2>1. events' \in Seq(XidEvents) /\ Len(events') \in Nat
    BY EventsReach DEF LogInv, LogRead
  <2>2. Len(errors) = 0 /\ errors' = errors /\ DOMAIN errors = 1..0
    BY DEF LogInv, EventsEnriched
  <2> QED
    BY <2>1, <2>2 DEF EventsEnriched
<1> QED
  BY <1>3, <1>6, <1>7 DEF LogInv

(***************************************************************************)
(* dmesg prints all of the log.                                            *)
(***************************************************************************)
LEMMA DmesgInv == ASSUME XidInv, LogInv, ParseDmesg PROVE LogInv'
<1>1. CASE xidAt' = "done" /\ reply' = "error" /\ UNCHANGED events
  BY <1>1, LogKept DEF ParseDmesg, readerVars, Reply, ReadDone
<1>2. CASE xidAt' = "parsed" /\ events' = ParseMessages(log) /\ UNCHANGED callVars
  <2>1. /\ UNCHANGED <<log, scanned, messages, scanFailed, closed, reader, errors, ctxDone,
                       reply, timedOut>>
        /\ xidAt = "dmesg" /\ reply = "none" /\ ReadDone' = ReadDone
    BY <1>2 DEF ParseDmesg, readerVars, callVars, XidInv, ReadDone
  <2>2. LogRead' /\ XidAnswered' /\ MessagesOfPrefix'
    BY <1>2, <2>1 DEF LogInv, LogRead, XidAnswered, MessagesOfPrefix, ReadUpTo
  <2>3. log \in Seq(Records) /\ Len(log) \in 0..Len(log) /\ SubSeq(log, 1, Len(log)) = log
    BY DEF LogInv, LogRead
  <2>4. EventsOfPrefix'
    BY <1>2, <2>1, <2>3 DEF EventsOfPrefix, ReadUpTo
  <2>5. EventsEnriched'
    <3>1. events' \in Seq(XidEvents) /\ Len(events') \in Nat
      BY <1>2, <2>3, EventsReach
    <3>2. Len(errors) = 0 /\ errors' = errors /\ DOMAIN errors = 1..0
      BY <2>1 DEF LogInv, EventsEnriched
    <3> QED
      BY <1>2, <3>1, <3>2 DEF EventsEnriched
  <2> QED
    BY <2>2, <2>4, <2>5 DEF LogInv
<1> QED
  BY <1>1, <1>2 DEF ParseDmesg, Reply

(***************************************************************************)
(* An error has the severity of its event.                                 *)
(***************************************************************************)
LEMMA EnrichEventInv == ASSUME XidInv, LogInv, EnrichEvent PROVE LogInv'
<1>1. CASE ctxDone
  BY <1>1, LogKept DEF EnrichEvent, readerVars, Reply, ReadDone
<1>2. CASE ~ ctxDone
  <2>1. PICK which \in Outcomes(GPUsAt(events[Len(errors) + 1].bus)) :
          errors' = Append(errors, [severity |-> events[Len(errors) + 1].severity,
                                    bus |-> events[Len(errors) + 1].bus, gpu |-> which])
    BY <1>2 DEF EnrichEvent
  <2>2. /\ UNCHANGED <<log, scanned, messages, scanFailed, closed, reader, events, xidAt,
                       xidStatus, ctxDone, reply, timedOut>>
        /\ xidAt = "parsed" /\ Len(errors) < Len(events) /\ reply = "none" /\ ReadDone' = ReadDone
    BY <1>2 DEF EnrichEvent, readerVars, callVars, XidInv, ReadDone
  <2>3. LogRead' /\ XidAnswered' /\ MessagesOfPrefix' /\ EventsOfPrefix'
    BY <2>2 DEF LogInv, LogRead, XidAnswered, MessagesOfPrefix, EventsOfPrefix, ReadUpTo
  <2>4. EventsEnriched'
    <3> DEFINE n == Len(errors)
               e == [severity |-> events[n + 1].severity, bus |-> events[n + 1].bus, gpu |-> which]
    <3>1. /\ n \in Nat /\ DOMAIN errors = 1..n /\ Len(events) \in Nat /\ n < Len(events)
          /\ \A i \in 1..n : errors[i].severity = events[i].severity
      BY <2>2 DEF LogInv, EventsEnriched
    <3>2. e.severity = events[n + 1].severity
      OBVIOUS
    <3>3. errors' = Append(errors, e)
      BY <2>1
    <3> HIDE DEF e
    <3>4. /\ Len(errors') = n + 1 /\ DOMAIN errors' = 1..(n + 1)
          /\ \A i \in 1..n : errors'[i] = errors[i]
          /\ errors'[n + 1] = e
      BY <3>1, <3>3
    <3> HIDE DEF n
    <3>5. ASSUME NEW i \in 1..(n + 1) PROVE errors'[i].severity = events[i].severity
      <4>1. CASE i \in 1..n
        BY <3>1, <3>4, <4>1
      <4>2. CASE i = n + 1
        BY <3>2, <3>4, <4>2
      <4> QED
        BY <3>1, <4>1, <4>2
    <3>6. n + 1 \in 0..Len(events)
      BY <3>1
    <3> QED
      BY <2>2, <3>4, <3>5, <3>6 DEF LogInv, EventsEnriched
  <2> QED
    BY <2>3, <2>4 DEF LogInv
<1> QED
  BY <1>1, <1>2

LEMMA LogStepInv ==
  XidInv /\ LogInv /\ [XidNext]_<<callVars, xidVars>> => LogInv'
<1> SUFFICES ASSUME XidInv, LogInv, [XidNext]_<<callVars, xidVars>> PROVE LogInv'
  OBVIOUS
<1>1. CASE CancelCall /\ UNCHANGED xidVars
  BY <1>1, LogKept DEF CancelCall, xidVars, readerVars, ReadDone
<1>2. CASE ReadTimeout
  BY <1>2, LogKept DEF ReadTimeout, readerVars, callVars, ReadDone
<1>3. CASE ScanRecord
  BY <1>3, ScanRecordInv
<1>4. CASE ScanEnds
  <2>1. /\ UNCHANGED <<ctxDone, reply, xidAt, log, scanned, messages, timedOut, closed, events,
                       errors, xidStatus>>
        /\ ReadDone' = ReadDone /\ reader = "scanning"
    BY <1>4 DEF ScanEnds, callVars, ReadDone
  <2>2. scanFailed' \in BOOLEAN /\ (~ scanFailed' => scanned = Len(log))
    BY <1>4, Zenon DEF ScanEnds
  <2>3. xidAt # "start"
    BY <2>1 DEF XidInv
  <2>4. LogRead'
    BY <2>1, <2>2, <2>3 DEF LogInv, LogRead
  <2> QED
    BY <2>1, <2>4 DEF LogInv, XidAnswered, MessagesOfPrefix, EventsOfPrefix, EventsEnriched,
       ReadUpTo
<1>5. CASE XidStart
  <2>1. /\ UNCHANGED <<scanned, messages, scanFailed, timedOut, closed, events, errors, xidStatus,
                       ctxDone>>
        /\ xidAt = "start" /\ log' \in Logs /\ ReadDone' = ReadDone
        /\ xidAt' \in {"done", "reading", "dmesg"} /\ reader' \in {reader, "scanning"}
        /\ reply' \in {reply, "error"}
    BY <1>5 DEF XidStart, Reply, callVars, ReadDone
  <2>2. /\ scanned = 0 /\ messages = <<>> /\ reply = "none" /\ log' \in Seq(Records)
        /\ reader' # "sent"
    BY <2>1, XidAssumption DEF LogInv, LogRead, XidInv, XidAssumption
  <2>3. SubSeq(log', 1, 0) = <<>>
    BY <2>2
  <2>4. MessagesOfPrefix'
    <3>1. ReadUpTo(ParseMessages(messages), 0)'
      BY <2>1, <2>2, <2>3 DEF ReadUpTo
    <3>2. 0 \in 0..scanned' /\ 0 = scanned'
      BY <2>1, <2>2
    <3> QED
      BY <3>1, <3>2 DEF MessagesOfPrefix
  <2>5. LogRead'
    BY <2>1, <2>2 DEF LogInv, LogRead
  <2> QED
    BY <2>1, <2>2, <2>4, <2>5 DEF LogInv, XidAnswered, EventsOfPrefix, EventsEnriched
<1>6. CASE ReadResult
  <2>1. CASE scanFailed
    <3>1. /\ UNCHANGED <<ctxDone, reply, log, scanned, messages, scanFailed, timedOut, closed,
                         events, errors, xidStatus>>
          /\ ReadDone' = ReadDone /\ xidAt = "reading" /\ xidAt' = "dmesg" /\ reader' = "off"
      BY <1>6, <2>1 DEF ReadResult, callVars, ReadDone
    <3> QED
      BY <3>1 DEF LogInv, LogRead, XidAnswered, MessagesOfPrefix, EventsOfPrefix,
         EventsEnriched, ReadUpTo, XidInv
  <2>2. CASE ~ scanFailed
    BY <1>6, <2>2, ResultInv DEF ReadResult
  <2> QED
    BY <2>1, <2>2
<1>7. CASE CloseFile
  <2>1. /\ UNCHANGED <<ctxDone, reply, log, scanned, messages, scanFailed, timedOut, reader,
                       events, errors, xidStatus>>
        /\ ReadDone' = ReadDone /\ ReadDone /\ xidAt = "reading" /\ xidAt' = "draining" /\ closed'
    BY <1>7 DEF CloseFile, callVars, ReadDone
  <2> QED
    BY <2>1 DEF LogInv, LogRead, XidAnswered, MessagesOfPrefix, EventsOfPrefix,
       EventsEnriched, ReadUpTo, XidInv
<1>8. CASE DrainResult
  BY <1>8, ResultInv DEF DrainResult
<1>9. CASE ParseDmesg
  BY <1>9, DmesgInv
<1>10. CASE EnrichEvent
  BY <1>10, EnrichEventInv
<1>11. CASE XidAnswer
  <2>1. /\ UNCHANGED <<ctxDone, log, scanned, messages, scanFailed, timedOut, closed, reader,
                       events, errors>>
        /\ ReadDone' = ReadDone /\ xidAt = "parsed" /\ xidAt' = "done"
        /\ Len(errors) = Len(events) /\ xidStatus' = XidStatusOf(Severities(errors))
    BY <1>11 DEF XidAnswer, Reply, readerVars, ReadDone
  <2>2. XidAnswered'
    BY <2>1 DEF XidAnswered, Severities
  <2> QED
    BY <2>1, <2>2 DEF LogInv, LogRead, MessagesOfPrefix, EventsOfPrefix, EventsEnriched, ReadUpTo
<1>12. CASE UNCHANGED <<callVars, xidVars>>
  BY <1>12, LogKept DEF callVars, xidVars, readerVars, ReadDone
<1> QED
  BY <1>1, <1>2, <1>3, <1>4, <1>5, <1>6, <1>7, <1>8, <1>9, <1>10, <1>11, <1>12
     DEF XidNext, XidHandler, XidReader

(***************************************************************************)
(* The status is that of the worst event.                                  *)
(***************************************************************************)
LEMMA LogAnswers == LogInv => AnswerReportsLog
<1> SUFFICES ASSUME LogInv, reply = "answer"
             PROVE  /\ \E n \in 0..Len(log) :
                         /\ events = ParseMessages(SubSeq(log, 1, n))
                         /\ n = Len(log) \/ (closed \/ ReadDone)
                    /\ Severities(errors) = Severities(events)
                    /\ "fatal" \in Severities(events) => xidStatus = "critical"
                    /\ events # <<>> /\ xidStatus = "ok" => Severities(events) = {"info"}
  BY DEF AnswerReportsLog
<1>1. \E n \in 0..Len(log) :
        /\ events = ParseMessages(SubSeq(log, 1, n))
        /\ n = Len(log) \/ (closed \/ ReadDone)
  BY DEF LogInv, EventsOfPrefix, ReadUpTo
<1>2. /\ Len(errors) = Len(events) /\ DOMAIN errors = 1..Len(errors) /\ events \in Seq(XidEvents)
      /\ \A i \in 1..Len(errors) : errors[i].severity = events[i].severity
      /\ xidStatus = XidStatusOf(Severities(errors))
  BY DEF LogInv, EventsEnriched, XidAnswered
<1>3. DOMAIN events = 1..Len(events) /\ Len(events) \in Nat
  BY <1>2
<1>4. Severities(errors) = Severities(events)
  BY <1>2, <1>3 DEF Severities
<1>5. Severities(events) \subseteq XidSeverities
  <2>1. \A i \in 1..Len(events) : events[i] \in XidEvents
    BY <1>2, <1>3
  <2> QED
    BY <1>3, <2>1, EventSeverity DEF Severities
<1>6. events # <<>> => Severities(events) # {}
  <2>1. events # <<>> => 1 \in DOMAIN events
    BY <1>2, <1>3
  <2> QED
    BY <2>1 DEF Severities
<1> DEFINE all == Severities(events)
<1>7. xidStatus = XidStatusOf(all) /\ all \subseteq {"info", "warning", "critical", "fatal"}
  BY <1>2, <1>4, <1>5 DEF XidSeverities
<1> HIDE DEF all
<1>8. "fatal" \in all => xidStatus = "critical"
  BY <1>7 DEF XidStatusOf
<1>9. all # {} /\ xidStatus = "ok" => all = {"info"}
  <2>1. xidStatus = "ok" => "fatal" \notin all /\ "critical" \notin all /\ "warning" \notin all
    BY <1>7 DEF XidStatusOf
  <2> QED
    BY <1>7, <2>1
<1> QED
  BY <1>1, <1>4, <1>6, <1>8, <1>9 DEF all

-------------------------------------------------------------------------------
(* describe_gpu_node.                                                      *)

\* What is known of the hardware before the node is asked for.
HardwareFirst ==
  /\ ctxDone \in BOOLEAN /\ cutShort \in BOOLEAN
  /\ gpuCount \in Nat /\ nextGPU \in 0..gpuCount
  /\ nodeAt \in {"start", "devices"} => gpuCount = 0 /\ nextGPU = 0
  /\ nodeAt = "gpu" => ~ cutShort
  /\ nodeAt \in {"start", "devices", "gpu", "node"} => capacity = Failed
  /\ nodeAt = "node" /\ hasNvml => cutShort \/ nextGPU = gpuCount
  /\ cutShort => ctxDone

\* A node is only found by a call that was not cancelled before.
NodeFoundInTime ==
  capacity # Failed => ~ cutShort /\ hasCluster /\ (hasNvml => nextGPU = gpuCount)

NodeAnswered ==
  /\ reply # "none" => nodeAt = "done"
  /\ nodeAt \notin {"done"} => nodeAnswer = NoAnswer
  /\ nodeTool = "describe" /\ nodeAnswer.status = "success" => capacity # Failed

NodeInv == HardwareFirst /\ NodeFoundInTime /\ NodeAnswered

LEMMA NoAnswerYet == NoAnswer.status = ""
  BY DEF NoAnswer

LEMMA NodeInitInv == NodeInit => NodeInv
<1> SUFFICES ASSUME NodeInit PROVE NodeInv
  OBVIOUS
<1> USE DEF NodeInit, CallInit
<1>1. /\ ctxDone \in BOOLEAN /\ cutShort \in BOOLEAN
      /\ ~ cutShort /\ capacity = Failed /\ nodeAt = "start"
  BY Zenon
<1>2. gpuCount \in Nat /\ nextGPU \in 0..gpuCount /\ gpuCount = 0 /\ nextGPU = 0
  OBVIOUS
<1>3. HardwareFirst /\ NodeFoundInTime
  BY <1>1, <1>2, Zenon DEF HardwareFirst, NodeFoundInTime
<1>4. NodeAnswered
  BY NoAnswerYet DEF NodeAnswered
<1> QED
  BY <1>3, <1>4 DEF NodeInv

LEMMA NodeStepInv == NodeInv /\ [NodeNext]_<<callVars, nodeVars>> => NodeInv'
<1> SUFFICES ASSUME NodeInv, [NodeNext]_<<callVars, nodeVars>> PROVE NodeInv'
  OBVIOUS
<1> USE DEF NodeInv, HardwareFirst, NodeFoundInTime, NodeAnswered, callVars, nodeVars, podVars,
            Reply, ToolError
<1>1. CASE CancelCall /\ UNCHANGED nodeVars
  BY <1>1 DEF CancelCall
<1>2. CASE NodeStart
  BY <1>2, NoAnswerYet DEF NodeStart
<1>3. CASE CountLocalGPUs
  <2>1. PICK n \in Outcomes(LocalGPUs) :
          IF n = Failed THEN nodeAt' = "node" /\ UNCHANGED gpuCount
          ELSE nodeAt' = "gpu" /\ gpuCount' = n
    BY <1>3 DEF CountLocalGPUs
  <2>2. n = Failed \/ (n \in Nat /\ ~ ctxDone)
    BY NodeAssumption DEF Outcomes, Getter
  <2> QED
    BY <1>3, <2>1, <2>2 DEF CountLocalGPUs
<1>4. CASE DescribeGPU
  <2>1. CASE nextGPU = gpuCount \/ ctxDone
    BY <1>4, <2>1 DEF DescribeGPU
  <2>2. CASE nextGPU # gpuCount /\ ~ ctxDone
    BY <1>4, <2>2 DEF DescribeGPU
  <2> QED
    BY <2>1, <2>2
<1>5. CASE GetNode
  BY <1>5 DEF GetNode, Outcomes, Getter
<1>6. CASE ListNodePods
  BY <1>6 DEF ListNodePods
<1>7. CASE NextPod
  BY <1>7 DEF NextPod, AddPod
<1>8. CASE NodeAnswer
  BY <1>8 DEF NodeAnswer
<1>9. CASE UNCHANGED <<callVars, nodeVars>>
  BY <1>9
<1> QED
  BY <1>1, <1>2, <1>3, <1>4, <1>5, <1>6, <1>7, <1>8, <1>9 DEF NodeNext, NodeSteps

-------------------------------------------------------------------------------
(* The pods of an answer.                                                  *)

\* The pods so far are those of the part of the list that is done.
PodsListed ==
  /\ pods \in Seq(Pods) /\ nextPod \in 0..Len(pods)
  /\ nodeAt \in {"start", "devices", "gpu", "node", "pods"} => pods = <<>>
  /\ nodeAt = "answer" \/ reply = "answer" => nextPod = Len(pods)
  /\ reply # "none" => nodeAt = "done"

PodsCounted ==
  /\ podGPUs = GPUsOfPods(nodeTool, SubSeq(pods, 1, nextPod))
  /\ allocated = SumOf(podGPUs)

PodsInv == PodsListed /\ PodsCounted

LEMMA NoPods ==
  ASSUME pods = <<>>
  PROVE  /\ pods \in Seq(Pods) /\ Len(pods) = 0 /\ SubSeq(pods, 1, 0) = <<>>
         /\ \A which : GPUsOfPods(which, SubSeq(pods, 1, 0)) = <<>>
<1>1. pods \in Seq(Pods) /\ Len(pods) = 0 /\ SubSeq(pods, 1, 0) = <<>>
  OBVIOUS
<1>2. \A which : GPUsOfPods(which, SubSeq(pods, 1, 0)) = <<>>
  BY <1>1, PodsOfPrefix
<1> QED
  BY <1>1, <1>2

LEMMA PodsInitInv == NodeInit => PodsInv
<1> SUFFICES ASSUME NodeInit PROVE PodsInv
  OBVIOUS
<1>1. /\ nodeAt = "start" /\ pods = <<>> /\ nextPod = 0 /\ podGPUs = <<>> /\ allocated = 0
      /\ reply = "none"
  BY Zenon DEF NodeInit, CallInit
<1> QED
  BY <1>1, NoPods, SumEmpty DEF PodsInv, PodsListed, PodsCounted

(***************************************************************************)
(* The pods of the API server's list are counted one by one.               *)
(***************************************************************************)
LEMMA NextPodInv == ASSUME PodsInv, NextPod PROVE PodsInv'
<1>1. /\ nodeAt = "pod" /\ UNCHANGED <<nodeTool, pods>>
      /\ pods \in Seq(Pods) /\ nextPod \in 0..Len(pods) /\ Len(pods) \in Nat
      /\ reply = "none"
  <2>1. reply = "none"
    BY DEF PodsInv, PodsListed, NextPod
  <2> QED
    BY <2>1 DEF PodsInv, PodsListed, NextPod
<1>2. CASE nextPod = Len(pods)
  <2>1. nodeAt' = "answer" /\ UNCHANGED <<callVars, nextPod, podGPUs, allocated>>
    BY <1>2 DEF NextPod
  <2> QED
    BY <1>1, <1>2, <2>1 DEF PodsInv, PodsListed, PodsCounted, callVars
<1>3. CASE nextPod # Len(pods) /\ ctxDone
  <2>1. nodeAt' = "done" /\ reply' = "error" /\ UNCHANGED <<nextPod, podGPUs, allocated>>
    BY <1>3 DEF NextPod, ToolError, Reply
  <2> QED
    BY <1>1, <2>1 DEF PodsInv, PodsListed, PodsCounted
<1>4. CASE nextPod # Len(pods) /\ ~ ctxDone
  <2> DEFINE pod == pods[nextPod + 1]
             before == GPUsOfPods(nodeTool, SubSeq(pods, 1, nextPod))
             after == GPUsOfPods(nodeTool, SubSeq(pods, 1, nextPod + 1))
             counts == pod.here /\ IsListed(nodeTool, pod)
  <2>1. AddPod(pod)
    BY <1>4 DEF NextPod
  <2>2. nextPod \in 0..(Len(pods) - 1) /\ nextPod + 1 \in 0..Len(pods) /\ pod \in Pods
    BY <1>1, <1>4
  <2>3. /\ before \in Seq(Int)
        /\ after = IF counts THEN Append(before, Requested(pod)) ELSE before
    BY <1>1, <2>2, PodsOfPrefix
  <2>4. /\ nextPod' = nextPod + 1 /\ UNCHANGED <<nodeAt, ctxDone, reply>>
        /\ IF counts
           THEN podGPUs' = Append(podGPUs, Requested(pod)) /\ allocated' = allocated + Requested(pod)
           ELSE UNCHANGED <<podGPUs, allocated>>
    BY <2>1 DEF AddPod, callVars
  <2>5. podGPUs = before /\ allocated = SumOf(before)
    BY DEF PodsInv, PodsCounted
  <2>6. Requested(pod) \in Int
    BY <2>2, RequestedIsInt
  <2>7. GPUsOfPods(nodeTool, SubSeq(pods, 1, nextPod))' = after
    BY <1>1, <2>4
  <2> HIDE DEF pod, before, after, counts
  <2>8. podGPUs' = after /\ allocated' = SumOf(after)
    <3>1. CASE counts
      <4>1. SumOf(Append(before, Requested(pod))) = SumOf(before) + Requested(pod)
        BY <2>3, <2>6, SumAppend
      <4> QED
        BY <2>3, <2>4, <2>5, <3>1, <4>1
    <3>2. CASE ~ counts
      BY <2>3, <2>4, <2>5, <3>2
    <3> QED
      BY <3>1, <3>2
  <2>9. PodsCounted'
    BY <2>7, <2>8 DEF PodsCounted
  <2> QED
    BY <1>1, <2>2, <2>4, <2>9 DEF PodsInv, PodsListed
<1> QED
  BY <1>2, <1>3, <1>4

LEMMA PodsStepInv == PodsInv /\ [NodeNext]_<<callVars, nodeVars>> => PodsInv'
<1> SUFFICES ASSUME PodsInv, [NodeNext]_<<callVars, nodeVars>> PROVE PodsInv'
  OBVIOUS
<1> USE DEF callVars, nodeVars, podVars, Reply, ToolError
\* Steps that leave the pods alone.
<1>1. ASSUME UNCHANGED <<pods, nextPod, podGPUs, allocated, nodeTool>>,
             reply' # "none" => nodeAt' = "done",
             nodeAt' \in {"start", "devices", "gpu", "node", "pods"} => pods = <<>>,
             nodeAt' = "answer" \/ reply' = "answer" => nextPod = Len(pods)
      PROVE  PodsInv'
  BY <1>1 DEF PodsInv, PodsListed, PodsCounted
<1>2. CASE CancelCall /\ UNCHANGED nodeVars
  BY <1>1, <1>2 DEF CancelCall, PodsInv, PodsListed
<1>3. CASE NodeStart
  <2>1. /\ pods = <<>> /\ UNCHANGED <<pods, nextPod, podGPUs, allocated>> /\ nextPod = 0
        /\ podGPUs = <<>>
    <3>1. pods = <<>> /\ UNCHANGED <<pods, nextPod, podGPUs, allocated>>
      BY <1>3 DEF NodeStart, PodsInv, PodsListed
    <3>2. nextPod = 0
      BY <3>1, NoPods DEF PodsInv, PodsListed
    <3> QED
      BY <3>1, <3>2, NoPods DEF PodsInv, PodsCounted
  <2>2. reply = "none" /\ (reply' # "none" => nodeAt' = "done") /\ nodeAt' # "answer"
        /\ reply' # "answer"
    BY <1>3 DEF NodeStart, PodsInv, PodsListed
  <2>3. PodsCounted'
    <3>1. pods' = <<>> /\ nextPod' = 0 /\ podGPUs' = <<>> /\ SubSeq(pods, 1, 0) = <<>>
      BY <2>1, NoPods
    <3>2. GPUsOfPods(nodeTool', SubSeq(pods, 1, 0)) = <<>>
      BY <2>1, NoPods
    <3>3. allocated' = SumOf(podGPUs')
      BY <2>1 DEF PodsInv, PodsCounted
    <3> QED
      BY <2>1, <3>1, <3>2, <3>3 DEF PodsCounted
  <2>4. PodsListed'
    BY <2>1, <2>2, NoPods DEF PodsListed
  <2> QED
    BY <2>3, <2>4 DEF PodsInv
<1>4. CASE CountLocalGPUs \/ DescribeGPU
  BY <1>1, <1>4 DEF CountLocalGPUs, DescribeGPU, PodsInv, PodsListed
<1>5. CASE GetNode
  BY <1>1, <1>5, NoPods DEF GetNode, PodsInv, PodsListed
<1>6. CASE ListNodePods
  <2>1. /\ pods = <<>> /\ nextPod = 0 /\ podGPUs = <<>> /\ reply = "none"
        /\ UNCHANGED <<nextPod, podGPUs, allocated, nodeTool>>
    <3>1. pods = <<>> /\ nodeAt = "pods" /\ UNCHANGED <<nextPod, podGPUs, allocated, nodeTool>>
          /\ reply = "none"
      BY <1>6 DEF ListNodePods, PodsInv, PodsListed
    <3>2. nextPod = 0
      BY <3>1, NoPods DEF PodsInv, PodsListed
    <3> QED
      BY <3>1, <3>2, NoPods DEF PodsInv, PodsCounted
  <2>2. CASE pods' \in PodLists /\ nodeAt' = "pod" /\ reply' = reply
    <3>1. pods' \in Seq(Pods)
      BY <2>2, NodeAssumption DEF NodeAssumption
    <3>2. PodsListed'
      BY <2>1, <2>2, <3>1 DEF PodsListed
    <3>3. GPUsOfPods(nodeTool', SubSeq(pods', 1, 0)) = <<>>
      BY <3>1, PodsOfPrefix
    <3> QED
      BY <2>1, <3>2, <3>3 DEF PodsInv, PodsCounted
  <2>3. CASE ~ (pods' \in PodLists /\ nodeAt' = "pod" /\ reply' = reply)
    <3>1. pods' = pods /\ nodeAt' \in {"answer", "done"} /\ (reply' # "none" => nodeAt' = "done")
      BY <1>6, <2>1, <2>3 DEF ListNodePods
    <3> QED
      BY <1>1, <2>1, <3>1, NoPods
  <2> QED
    BY <2>2, <2>3
<1>7. CASE NextPod
  BY <1>7, NextPodInv
<1>8. CASE NodeAnswer
  BY <1>1, <1>8 DEF NodeAnswer, PodsInv, PodsListed
<1>9. CASE UNCHANGED <<callVars, nodeVars>>
  BY <1>1, <1>9 DEF PodsInv, PodsListed
<1> QED
  BY <1>2, <1>3, <1>4, <1>5, <1>6, <1>7, <1>8, <1>9 DEF NodeNext, NodeSteps

LEMMA PodsAnswered == PodsInv => PodsAllOrNothing
<1> SUFFICES ASSUME PodsInv PROVE PodsAllOrNothing
  OBVIOUS
<1>1. SubSeq(pods, 1, Len(pods)) = pods
  BY DEF PodsInv, PodsListed
<1> QED
  BY <1>1 DEF PodsInv, PodsListed, PodsCounted, PodsAllOrNothing

-------------------------------------------------------------------------------
(* The gateway's call of an agent.                                         *)

AgentPlace ==
  /\ callAt \in {"idle", "attempt", "inflight", "backoff", "done"}
  /\ overHTTP \in BOOLEAN /\ execTimeout \in Nat
  /\ attempt \in 0..MaxRetries /\ sent \subseteq 0..attempt /\ executed \subseteq sent
  /\ callAt = "idle" => attempt = 0
  /\ callAt = "backoff" => overHTTP /\ attempt > 0
  /\ ~ overHTTP => attempt = 0

\* The time the attempts begun so far may have taken, and the pauses.
TimeSpent ==
  /\ elapsed \in Nat
  /\ callAt = "idle" => elapsed = 0
  /\ callAt \in {"attempt", "inflight"} =>
       elapsed <= IF overHTTP THEN attempt * ClientTimeout + Pauses(attempt) ELSE 0
  /\ callAt = "backoff" => elapsed <= attempt * ClientTimeout + Pauses(attempt - 1)
  /\ callAt = "done" => elapsed <= LongestCall

AgentInv == AgentPlace /\ TimeSpent

LEMMA AgentInitInv == AgentCallInit => AgentInv
<1> SUFFICES ASSUME AgentCallInit PROVE AgentInv
  OBVIOUS
<1>1. /\ callAt = "idle" /\ overHTTP = TRUE /\ execTimeout = 0 /\ attempt = 0
      /\ sent = {} /\ executed = {} /\ elapsed = 0
  BY Zenon DEF AgentCallInit
<1> QED
  BY <1>1, AgentCallAssumption DEF AgentInv, AgentPlace, TimeSpent, AgentCallAssumption

(***************************************************************************)
(* What is allowed after n attempts never exceeds what is allowed in all.  *)
(***************************************************************************)
LEMMA AllowedGrows ==
  ASSUME NEW n \in 0..MaxRetries, NEW k \in 0..n
  PROVE  /\ n * ClientTimeout \in Nat /\ (n + 1) * ClientTimeout = n * ClientTimeout + ClientTimeout
         /\ Pauses(k) \in Nat
         /\ overHTTP => (n + 1) * ClientTimeout + Pauses(k) <= LongestCall
<1>1. /\ MaxRetries \in Nat /\ ClientTimeout \in Nat /\ n \in Nat /\ k \in Nat
      /\ k <= MaxRetries /\ n <= MaxRetries
  BY AgentCallAssumption DEF AgentCallAssumption
<1>2. Pauses(k) \in Nat /\ Pauses(MaxRetries) \in Nat /\ Pauses(k) <= Pauses(MaxRetries)
  BY <1>1, PausesGrow
<1>3. n * ClientTimeout \in Nat /\ (n + 1) * ClientTimeout = n * ClientTimeout + ClientTimeout
  BY <1>1
<1>4. (n + 1) * ClientTimeout <= (MaxRetries + 1) * ClientTimeout
      /\ (MaxRetries + 1) * ClientTimeout \in Nat
  BY <1>1
<1>5. overHTTP => LongestCall = (MaxRetries + 1) * ClientTimeout + Pauses(MaxRetries)
  BY DEF LongestCall, Pauses
<1>6. (n + 1) * ClientTimeout \in Nat
  BY <1>1, <1>3
<1> HIDE DEF LongestCall
<1>7. (n + 1) * ClientTimeout + Pauses(k) <= (MaxRetries + 1) * ClientTimeout + Pauses(MaxRetries)
  BY <1>2, <1>4, <1>6
<1> QED
  BY <1>2, <1>3, <1>5, <1>7

LEMMA LongestCallIsNatural == ASSUME execTimeout \in Nat PROVE LongestCall \in Nat
<1>1. MaxRetries \in Nat /\ ClientTimeout \in Nat
  BY AgentCallAssumption DEF AgentCallAssumption
<1>2. Pauses(MaxRetries) \in Nat
  BY <1>1, PausesGrow
<1>3. (MaxRetries + 1) * ClientTimeout \in Nat
  BY <1>1
<1> QED
  BY <1>2, <1>3 DEF LongestCall, Pauses

LEMMA AgentStepInv ==
  AgentInv /\ [AgentCallNext]_<<callVars, agentCallVars>> => AgentInv'
<1> SUFFICES ASSUME AgentInv, [AgentCallNext]_<<callVars, agentCallVars>> PROVE AgentInv'
  OBVIOUS
<1> USE DEF AgentInv, AgentPlace, agentCallVars, callVars
<1>0. /\ MaxRetries \in Nat /\ ClientTimeout \in Nat /\ ExecTimeouts \subseteq Nat
      /\ attempt \in Nat /\ elapsed \in Nat /\ execTimeout \in Nat
  BY AgentCallAssumption DEF AgentCallAssumption, TimeSpent
<1>1. CASE (CancelCall /\ UNCHANGED agentCallVars) \/ UNCHANGED <<callVars, agentCallVars>>
  <2>1. UNCHANGED agentCallVars
    BY <1>1
  <2>2. LongestCall' = LongestCall
    BY <2>1 DEF LongestCall
  <2> QED
    BY <2>1, <2>2 DEF TimeSpent
<1>2. CASE CallAgent
  <2>1. execTimeout' \in Nat
    BY <1>0, <1>2 DEF CallAgent, ParseExecTimeout
  <2>2. /\ attempt' = 0 /\ elapsed' = 0 /\ callAt' = "attempt" /\ overHTTP' \in BOOLEAN
        /\ UNCHANGED <<sent, executed>> /\ attempt = 0
    BY <1>2 DEF CallAgent, TimeSpent
  <2>3. 0 <= 0 * ClientTimeout + Pauses(0)
    BY <1>0, PausesAddUp
  <2> QED
    BY <1>0, <2>1, <2>2, <2>3 DEF TimeSpent
<1>3. CASE StartAttempt
  <2>1. sent' \subseteq 0..attempt /\ sent \subseteq sent'
    BY <1>0, <1>3 DEF StartAttempt
  <2> QED
    BY <1>3, <2>1 DEF StartAttempt, TimeSpent
<1>4. ASSUME NEW a \in 0..MaxRetries, AgentExecutes(a) PROVE AgentInv'
  BY <1>4 DEF AgentExecutes, TimeSpent, LongestCall
\* An attempt is over, at once or with the timeout.
<1>5. ASSUME callAt = "inflight", Waits
      PROVE  /\ elapsed' \in Nat
             /\ overHTTP => elapsed' <= (attempt + 1) * ClientTimeout + Pauses(attempt)
             /\ elapsed' <= LongestCall
  <2>1. attempt \in 0..attempt
    BY <1>0
  <2>2. /\ attempt * ClientTimeout \in Nat /\ Pauses(attempt) \in Nat
        /\ (attempt + 1) * ClientTimeout = attempt * ClientTimeout + ClientTimeout
        /\ overHTTP => (attempt + 1) * ClientTimeout + Pauses(attempt) <= LongestCall
    BY <2>1, AllowedGrows
  <2>3. elapsed' = elapsed \/ elapsed' = elapsed + AttemptTimeout
    BY <1>5 DEF Waits
  <2>4. CASE overHTTP
    <3>1. elapsed <= attempt * ClientTimeout + Pauses(attempt) /\ AttemptTimeout = ClientTimeout
      BY <1>5, <2>4 DEF TimeSpent, AttemptTimeout
    <3> HIDE DEF LongestCall
    <3>2. elapsed' \in Nat /\ elapsed' <= (attempt + 1) * ClientTimeout + Pauses(attempt)
      BY <1>0, <2>2, <2>3, <3>1
    <3>3. (attempt + 1) * ClientTimeout + Pauses(attempt) <= LongestCall
      BY <2>2, <2>4
    <3>4. LongestCall \in Int /\ (attempt + 1) * ClientTimeout + Pauses(attempt) \in Int
      BY <1>0, <2>2, LongestCallIsNatural
    <3> QED
      BY <3>2, <3>3, <3>4
  <2>5. CASE ~ overHTTP
    BY <1>0, <1>5, <2>3, <2>5 DEF TimeSpent, AttemptTimeout, LongestCall
  <2> QED
    BY <2>4, <2>5
<1>6. CASE AttemptAnswers
  <2>1. /\ callAt = "inflight" /\ Waits /\ callAt' = "done"
        /\ UNCHANGED <<overHTTP, execTimeout, attempt, sent, executed>>
    BY <1>6 DEF AttemptAnswers
  <2> QED
    BY <1>5, <2>1 DEF TimeSpent, LongestCall
<1>7. CASE AttemptFails
  <2>1. callAt = "inflight" /\ Waits /\ UNCHANGED <<overHTTP, execTimeout, sent, executed>>
    BY <1>7 DEF AttemptFails
  <2>2. CASE overHTTP /\ ~ ctxDone /\ attempt < MaxRetries
    <3>1. callAt' = "backoff" /\ attempt' = attempt + 1
      BY <1>7, <2>2 DEF AttemptFails, RetryOrGiveUp
    <3>2. AgentPlace'
      BY <1>0, <2>1, <2>2, <3>1
    <3>3. attempt' - 1 = attempt
      BY <1>0, <3>1
    <3> QED
      BY <1>5, <2>1, <2>2, <3>1, <3>2, <3>3 DEF TimeSpent
  <2>3. CASE ~ (overHTTP /\ ~ ctxDone /\ attempt < MaxRetries)
    <3>1. callAt' = "done" /\ attempt' = attempt
      BY <1>7, <2>3 DEF AttemptFails, RetryOrGiveUp
    <3> QED
      BY <1>5, <2>1, <3>1 DEF TimeSpent, LongestCall
  <2> QED
    BY <2>2, <2>3
<1>8. CASE Backoff
  <2>1. /\ callAt = "backoff" /\ UNCHANGED <<overHTTP, execTimeout, attempt, sent, executed>>
        /\ \/ callAt' = "done" /\ elapsed' = elapsed
           \/ callAt' = "attempt" /\ elapsed' = elapsed + CalculateBackoff(attempt)
        /\ overHTTP /\ attempt > 0 /\ elapsed <= attempt * ClientTimeout + Pauses(attempt - 1)
    BY <1>8 DEF Backoff, TimeSpent
  <2>2. attempt - 1 \in Nat /\ attempt - 1 \in 0..MaxRetries /\ attempt - 1 \in 0..(attempt - 1)
        /\ attempt = (attempt - 1) + 1
    BY <1>0, <2>1
  <2>3. /\ Pauses(attempt) = Pauses(attempt - 1) + CalculateBackoff(attempt)
        /\ CalculateBackoff(attempt) \in Nat /\ Pauses(attempt - 1) \in Nat
    BY <1>0, <2>1, <2>2, PausesAddUp, PausesGrow, BackoffIsNatural
  <2>4. attempt * ClientTimeout \in Nat
        /\ attempt * ClientTimeout + Pauses(attempt - 1) <= LongestCall
    <3> DEFINE n == attempt - 1
    <3>1. n \in 0..MaxRetries /\ n \in 0..n /\ attempt = n + 1 /\ overHTTP
      BY <2>1, <2>2
    <3> HIDE DEF n
    <3>2. (n + 1) * ClientTimeout + Pauses(n) <= LongestCall
      BY <3>1, AllowedGrows
    <3>3. attempt * ClientTimeout \in Nat
      BY <1>0
    <3>4. attempt * ClientTimeout + Pauses(n) <= LongestCall
      BY <3>1, <3>2
    <3> QED
      BY <3>3, <3>4 DEF n
  <2>5. LongestCall \in Int
    BY <1>0, LongestCallIsNatural
  <2>6. CASE callAt' = "done"
    <3>1. elapsed' = elapsed
      BY <2>1, <2>6
    <3>2. elapsed <= LongestCall
      BY <1>0, <2>1, <2>3, <2>4, <2>5
    <3> QED
      BY <2>1, <2>6, <3>1, <3>2 DEF TimeSpent, LongestCall
  <2>7. CASE callAt' = "attempt"
    <3>1. elapsed' = elapsed + CalculateBackoff(attempt)
      BY <2>1, <2>7
    <3>2. elapsed' \in Nat /\ elapsed' <= attempt * ClientTimeout + Pauses(attempt)
      BY <1>0, <2>1, <2>3, <2>4, <3>1
    <3> QED
      BY <2>1, <2>7, <3>2 DEF TimeSpent
  <2> QED
    BY <2>1, <2>6, <2>7
<1> QED
  BY <1>1, <1>2, <1>3, <1>4, <1>6, <1>7, <1>8 DEF AgentCallNext, AgentCallSteps

LEMMA AgentBounded == AgentInv => CallIsBounded
<1> SUFFICES ASSUME AgentInv PROVE CallIsBounded
  OBVIOUS
<1>1. /\ MaxRetries \in Nat /\ ClientTimeout \in Nat /\ attempt \in 0..MaxRetries
      /\ sent \subseteq 0..attempt /\ elapsed \in Nat /\ execTimeout \in Nat
  BY AgentCallAssumption DEF AgentCallAssumption, AgentInv, AgentPlace, TimeSpent
<1>2. elapsed <= LongestCall
  <2>1. CASE callAt = "done"
    BY <2>1 DEF AgentInv, TimeSpent
  <2>2. CASE callAt \in {"attempt", "inflight"} /\ overHTTP
    <3>1. attempt \in 0..attempt /\ elapsed <= attempt * ClientTimeout + Pauses(attempt)
      BY <1>1, <2>2 DEF AgentInv, TimeSpent
    <3>2. /\ attempt * ClientTimeout \in Nat /\ Pauses(attempt) \in Nat
          /\ (attempt + 1) * ClientTimeout = attempt * ClientTimeout + ClientTimeout
          /\ (attempt + 1) * ClientTimeout + Pauses(attempt) <= LongestCall
      BY <1>1, <2>2, <3>1, AllowedGrows
    <3>3. LongestCall \in Int
      BY <1>1, LongestCallIsNatural
    <3> QED
      BY <1>1, <3>1, <3>2, <3>3
  <2>3. CASE callAt = "backoff"
    <3>1. /\ overHTTP /\ attempt - 1 \in 0..MaxRetries /\ attempt - 1 \in 0..(attempt - 1)
          /\ attempt = (attempt - 1) + 1
          /\ elapsed <= attempt * ClientTimeout + Pauses(attempt - 1)
      BY <1>1, <2>3 DEF AgentInv, AgentPlace, TimeSpent
    <3>2. /\ Pauses(attempt - 1) \in Nat /\ attempt * ClientTimeout \in Int
          /\ attempt * ClientTimeout + Pauses(attempt - 1) <= LongestCall
      BY <1>1, <3>1, AllowedGrows
    <3>3. LongestCall \in Int
      BY <1>1, LongestCallIsNatural
    <3> QED
      BY <1>1, <3>1, <3>2, <3>3
  <2>4. CASE callAt = "idle" \/ (callAt \in {"attempt", "inflight"} /\ ~ overHTTP)
    <3>1. elapsed = 0
      BY <1>1, <2>4 DEF AgentInv, TimeSpent
    <3>2. LongestCall \in Nat
      BY <1>1, LongestCallIsNatural
    <3> QED
      BY <3>1, <3>2
  <2> QED
    BY <2>1, <2>2, <2>3, <2>4 DEF AgentInv, AgentPlace
<1>3. /\ IsFiniteSet(0..attempt) /\ Cardinality(0..attempt) = attempt + 1
  BY <1>1, FS_Interval
<1>4. Cardinality(sent) \in Nat /\ Cardinality(sent) <= attempt + 1
  BY <1>1, <1>3, FS_Subset, FS_CardinalityType
<1>5. ~ overHTTP => attempt = 0
  BY DEF AgentInv, AgentPlace
<1> QED
  BY <1>1, <1>2, <1>4, <1>5 DEF CallIsBounded

-------------------------------------------------------------------------------
(* The gateway's answer for its nodes.                                     *)

\* What may be known of a node.
NodeMetadata(n) == {NoMetadata, Metadata(n, TRUE), Metadata(n, FALSE)}

Routed ==
  /\ proxyAt \in {"route", "result", "done"} /\ results \in Seq(NodeResults)
  /\ proxyAt = "route" => results = <<>> /\ entries = <<>>
  /\ Len(results) > 0 => \E i \in 1..Len(results) : ~ results[i].failed

\* Every entry is that of the result in its place.
EntryOf(entry, result) ==
  /\ entry.node = result.node /\ entry.failed = result.failed
  /\ entry.metadata \in NodeMetadata(result.node)
  /\ entry.output \in Outputs \cup {<<>>}
  /\ ~ result.failed => entry.data = ParseToolResponse(Output(entry.output))

EntriesInPlace ==
  /\ DOMAIN entries = 1..Len(entries) /\ Len(entries) \in 0..Len(results)
  /\ \A i \in 1..Len(entries) : EntryOf(entries[i], results[i])

ProxyAnswered ==
  /\ reply # "none" => proxyAt = "done"
  /\ reply = "answer" => Len(entries) = Len(results) /\ summary = Summary

ProxyInv == Routed /\ EntriesInPlace /\ ProxyAnswered

LEMMA ProxyInitInv == ProxyInit => ProxyInv
<1> SUFFICES ASSUME ProxyInit PROVE ProxyInv
  OBVIOUS
<1>1. reply = "none" /\ proxyAt = "route" /\ results = <<>> /\ entries = <<>>
  BY Zenon DEF ProxyInit, CallInit
<1>2. results \in Seq(NodeResults) /\ Len(results) = 0
  BY <1>1
<1> QED
  BY <1>1, <1>2 DEF ProxyInv, Routed, EntriesInPlace, ProxyAnswered

LEMMA AddResultInv == ASSUME ProxyInv, AddResult PROVE ProxyInv'
<1> DEFINE n == Len(entries)
           result == results[n + 1]
<1>1. PICK metadata \in MetadataOutcomes(result.node),
           output \in IF result.failed THEN {<<>>} ELSE Outputs :
        entries' = Append(entries, Entry(result, output, metadata))
  BY DEF AddResult
<1>2. /\ UNCHANGED <<ctxDone, reply, proxyAt, forInventory, withMetadata, results, summary>>
      /\ proxyAt = "result" /\ n < Len(results) /\ reply = "none"
  BY DEF AddResult, callVars, ProxyInv, ProxyAnswered
<1> DEFINE e == Entry(result, output, metadata)
<1>3. EntryOf(e, result)
  <2>1. metadata \in NodeMetadata(result.node)
    BY DEF MetadataOutcomes, Getter, NodeMetadata
  <2>2. output \in Outputs \cup {<<>>}
    OBVIOUS
  <2> HIDE DEF result
  <2>3. /\ e.node = result.node /\ e.failed = result.failed /\ e.metadata = metadata
        /\ e.output = output
        /\ ~ result.failed => e.data = ParseToolResponse(Output(output))
    BY DEF Entry
  <2> QED
    BY <2>1, <2>2, <2>3 DEF EntryOf
<1>4. /\ n \in Nat /\ DOMAIN entries = 1..n /\ n + 1 \in 0..Len(results)
      /\ \A i \in 1..n : EntryOf(entries[i], results[i])
  BY <1>2 DEF ProxyInv, EntriesInPlace, Routed
<1> HIDE DEF e
<1>5. /\ Len(entries') = n + 1 /\ DOMAIN entries' = 1..(n + 1)
      /\ (\A i \in 1..n : entries'[i] = entries[i]) /\ entries'[n + 1] = e
  BY <1>1, <1>4 DEF e
<1> HIDE DEF n
<1>6. ASSUME NEW i \in 1..(n + 1) PROVE EntryOf(entries'[i], results[i])
  <2>1. CASE i \in 1..n
    BY <1>4, <1>5, <2>1
  <2>2. CASE i = n + 1
    BY <1>3, <1>5, <2>2
  <2> QED
    BY <1>4, <2>1, <2>2
<1>7. EntriesInPlace'
  <2>1. /\ DOMAIN entries' = 1..Len(entries') /\ Len(entries') \in 0..Len(results')
        /\ \A i \in 1..Len(entries') : EntryOf(entries'[i], results'[i])
    BY <1>2, <1>4, <1>5, <1>6
  <2> QED
    BY <2>1 DEF EntriesInPlace, EntryOf, NodeMetadata
<1> QED
  BY <1>2, <1>7 DEF ProxyInv, Routed, ProxyAnswered

LEMMA ProxyStepInv == ProxyInv /\ [ProxyNext]_<<callVars, proxyVars>> => ProxyInv'
<1> SUFFICES ASSUME ProxyInv, [ProxyNext]_<<callVars, proxyVars>> PROVE ProxyInv'
  OBVIOUS
\* Steps that leave results and entries alone.
<1>1. ASSUME UNCHANGED <<forInventory, results, entries>>,
             proxyAt' \in {proxyAt, "done"}, reply' # "none" => proxyAt' = "done",
             reply' = "answer" => Len(entries) = Len(results) /\ summary' = Summary
      PROVE  ProxyInv'
  <2>1. Summary' = Summary
    BY <1>1 DEF Summary, FailedNodes, SumOver, StatusOf
  <2>2. Routed' /\ EntriesInPlace'
    BY <1>1 DEF ProxyInv, Routed, EntriesInPlace, EntryOf, NodeMetadata
  <2> QED
    BY <1>1, <2>1, <2>2 DEF ProxyInv, ProxyAnswered
<1>2. CASE CancelCall /\ UNCHANGED proxyVars
  BY <1>1, <1>2 DEF CancelCall, proxyVars, ProxyInv, ProxyAnswered
<1>3. CASE RouteCall
  <2>1. proxyAt = "route" /\ UNCHANGED <<entries, summary>> /\ results = <<>> /\ entries = <<>>
        /\ reply = "none" /\ DOMAIN entries = 1..Len(entries) /\ Len(entries) = 0
    BY <1>3 DEF RouteCall, ProxyInv, Routed, EntriesInPlace, ProxyAnswered
  <2>2. CASE reply' = "error" /\ proxyAt' = "done" /\ results' = results
    BY <2>1, <2>2 DEF ProxyInv, Routed, EntriesInPlace, ProxyAnswered
  <2>3. CASE proxyAt' = "result" /\ reply' = reply
             /\ \E n \in 0..MaxResults : \E rs \in [1..n -> NodeResults] :
                  (n > 0 => \E i \in 1..n : ~ rs[i].failed) /\ results' = rs
    <3>1. PICK n \in 0..MaxResults :
            \E rs \in [1..n -> NodeResults] :
              (n > 0 => \E i \in 1..n : ~ rs[i].failed) /\ results' = rs
      BY <2>3
    <3>2. results' \in Seq(NodeResults) /\ Len(results') = n
      <4> HIDE DEF NodeResults
      <4> QED
        BY <3>1
    <3>3. Routed'
      BY <2>3, <3>1, <3>2 DEF Routed
    <3> QED
      BY <2>1, <2>3, <3>2, <3>3 DEF ProxyInv, EntriesInPlace, ProxyAnswered
  <2> QED
    BY <1>3, <2>2, <2>3 DEF RouteCall, Reply, callVars
<1>4. CASE AddResult
  BY <1>4, AddResultInv
<1>5. CASE ProxyAnswer
  BY <1>1, <1>5 DEF ProxyAnswer, Reply
<1>6. CASE UNCHANGED <<callVars, proxyVars>>
  BY <1>1, <1>6 DEF callVars, proxyVars, ProxyInv, ProxyAnswered
<1> QED
  BY <1>2, <1>3, <1>4, <1>5, <1>6 DEF ProxyNext, ProxySteps

(***************************************************************************)
(* The data of an entry is what the last response of its agent means.      *)
(***************************************************************************)
LEMMA ParsedIsTrue == ProxyInv => ParsedIsLastAnswer
<1> SUFFICES ASSUME ProxyInv, NEW i \in DOMAIN entries
             PROVE  /\ entries[i].node = results[i].node
                    /\ ~ results[i].failed =>
                         entries[i].data = IF entries[i].output = <<>> THEN "error"
                                           ELSE Meaning(Last(entries[i].output))
  BY DEF ParsedIsLastAnswer
<1> DEFINE output == entries[i].output
<1>1. EntryOf(entries[i], results[i])
  BY DEF ProxyInv, EntriesInPlace
<1>2. output \in Seq(Kinds)
  <2>1. output \in Outputs \cup {<<>>}
    BY <1>1, Zenon DEF EntryOf
  <2>2. Outputs \subseteq Seq(Kinds) /\ <<>> \in Seq(Kinds)
    BY ProxyAssumption
  <2> HIDE DEF output
  <2> QED
    BY <2>1, <2>2
<1>3. ParseToolResponse(Output(output)) =
        IF output = <<>> THEN "error" ELSE Meaning(Last(output))
  <2> HIDE DEF output
  <2> QED
    BY <1>2, LastResponseParsed DEF Last
<1> QED
  BY <1>1, <1>3, Zenon DEF EntryOf

(***************************************************************************)
(* How many of the nodes failed.                                           *)
(***************************************************************************)
LEMMA FailedAreCounted ==
  ASSUME DOMAIN entries = 1..Len(entries), Len(entries) \in Nat
  PROVE  /\ FailedNodes \in 0..Len(entries)
         /\ FailedNodes = 0 <=> \A i \in 1..Len(entries) : ~ entries[i].failed
         /\ FailedNodes = Len(entries) => \A i \in 1..Len(entries) : entries[i].failed
<1> DEFINE all == 1..Len(entries)
           bad == {i \in all : entries[i].failed}
<1>1. FailedNodes = Cardinality(bad)
  <2>1. {i \in DOMAIN entries : entries[i].failed} = bad
    OBVIOUS
  <2> QED
    BY <2>1, Zenon DEF FailedNodes
<1>2. IsFiniteSet(all) /\ Cardinality(all) = Len(entries)
  <2>1. \A n \in Nat : IsFiniteSet(1..n) /\ Cardinality(1..n) = n
    BY FS_Interval
  <2> QED
    BY <2>1
<1>3. bad \subseteq all
  OBVIOUS
<1>4. bad = {} <=> \A i \in all : ~ entries[i].failed
  OBVIOUS
<1>5. bad = all => \A i \in all : entries[i].failed
  OBVIOUS
<1> HIDE DEF all, bad
<1>6. /\ IsFiniteSet(bad) /\ Cardinality(bad) <= Cardinality(all)
      /\ Cardinality(bad) = Cardinality(all) => bad = all
  BY <1>2, <1>3, FS_Subset
<1>7. Cardinality(bad) \in Nat /\ (Cardinality(bad) = 0 <=> bad = {})
  BY <1>6, FS_CardinalityType, FS_EmptySet
<1> QED
  BY <1>1, <1>2, <1>4, <1>5, <1>6, <1>7 DEF all

(***************************************************************************)
(* Not all nodes failed, so the status is never "error".                   *)
(***************************************************************************)
LEMMA StatusIsTrue == ProxyInv => StatusTellsFailures
<1> SUFFICES ASSUME ProxyInv, reply = "answer"
             PROVE  /\ summary.status # "error"
                    /\ ~ forInventory => (summary.status = "success" <=>
                                            \A i \in DOMAIN results : ~ results[i].failed)
  BY DEF StatusTellsFailures
<1>1. /\ DOMAIN entries = 1..Len(entries) /\ Len(entries) \in Nat
      /\ Len(entries) = Len(results) /\ DOMAIN results = 1..Len(results)
      /\ summary = Summary
      /\ \A i \in 1..Len(entries) : entries[i].failed = results[i].failed
      /\ Len(results) > 0 => \E i \in 1..Len(results) : ~ results[i].failed
  BY DEF ProxyInv, Routed, EntriesInPlace, EntryOf, ProxyAnswered
<1>2. summary.status = StatusOf(forInventory, FailedNodes, Len(entries))
  BY <1>1 DEF Summary
<1>3. /\ FailedNodes \in 0..Len(entries)
      /\ FailedNodes = 0 <=> \A i \in 1..Len(entries) : ~ entries[i].failed
      /\ FailedNodes = Len(entries) => \A i \in 1..Len(entries) : entries[i].failed
  BY <1>1, FailedAreCounted
<1>4. FailedNodes = 0 <=> \A i \in DOMAIN results : ~ results[i].failed
  <2>1. \A i \in 1..Len(entries) : entries[i].failed <=> results[i].failed
    BY <1>1, Zenon
  <2>2. DOMAIN results = 1..Len(entries)
    BY <1>1
  <2> QED
    BY <1>3, <2>1, <2>2, Zenon
<1>5. ASSUME FailedNodes # 0 PROVE FailedNodes # Len(entries)
  <2>0. /\ FailedNodes \in 0..Len(entries) /\ Len(entries) \in Nat
        /\ Len(entries) = Len(results)
    BY <1>1, <1>3, Zenon
  <2>1. Len(results) > 0
    BY <1>5, <2>0
  <2>2. PICK i \in 1..Len(results) : ~ results[i].failed
    BY <1>1, <2>1
  <2>3. i \in 1..Len(entries)
    BY <1>1
  <2>4. ~ entries[i].failed
    BY <1>1, <2>2, <2>3, Zenon
  <2> QED
    BY <1>3, <2>3, <2>4, Zenon
<1> QED
  BY <1>2, <1>4, <1>5 DEF StatusOf, DefaultStatus

\* What is known of a node is true of it.
LEMMA MetadataIsTrue ==
  ASSUME NEW n \in DOMAIN NodeSpecs, NEW m \in NodeMetadata(n)
  PROVE  /\ m.source \in {"none", "pods", "fallback"}
         /\ m.capacity \in Nat /\ m.allocatable \in Nat /\ m.allocated \in Int
         /\ m.source = "pods" => m.allocatable - m.allocated = NodeSpecs[n].free
         /\ m.source # "fallback" => m.allocatable - m.allocated \in 0..m.capacity
<1> DEFINE spec == NodeSpecs[n]
<1>1. /\ spec \in [capacity : Nat, allocatable : Nat, devices : Nat, free : Nat,
                   pods : Seq(PodSpecs)]
      /\ spec.allocatable <= spec.capacity
      /\ spec.free = spec.allocatable - Held(spec.pods)
  BY ProxyAssumption DEF ProxyAssumption, PodSpecs
<1> HIDE DEF spec
<1>2. /\ spec.capacity \in Nat /\ spec.allocatable \in Nat /\ spec.free \in Nat
      /\ spec.pods \in Seq(PodSpecs)
  BY <1>1
<1>3. NodeGPUAllocation(spec.pods) = Held(spec.pods) /\ Held(spec.pods) \in Nat
  BY <1>2, AllocationIsHeld
<1>4. CASE m = NoMetadata
  BY <1>4 DEF NoMetadata
<1>5. CASE m = Metadata(n, TRUE)
  <2>1. /\ m.source = "pods" /\ m.capacity = spec.capacity /\ m.allocatable = spec.allocatable
        /\ m.allocated = Held(spec.pods)
    BY <1>3, <1>5 DEF Metadata, spec
  <2> QED
    BY <1>1, <1>2, <1>3, <2>1 DEF spec
<1>6. CASE m = Metadata(n, FALSE)
  <2>1. /\ m.source = "fallback" /\ m.capacity = spec.capacity
        /\ m.allocatable = spec.allocatable
        /\ m.allocated = spec.capacity - spec.allocatable
    BY <1>6 DEF Metadata, spec
  <2> QED
    BY <1>2, <2>1
<1> QED
  BY <1>4, <1>5, <1>6 DEF NodeMetadata

(***************************************************************************)
(* The totals of the summary are sums over the nodes.                      *)
(***************************************************************************)
LEMMA SummaryIsTrue == ProxyInv => ClusterSummaryAddsUp
<1> SUFFICES ASSUME ProxyInv, reply = "answer"
             PROVE  /\ summary.ready + summary.failed = Len(results)
                    /\ (\A i \in DOMAIN entries : entries[i].metadata.source = "pods") =>
                         summary.available =
                           SumOf([i \in DOMAIN entries |-> NodeSpecs[entries[i].node].free])
                    /\ (\A i \in DOMAIN entries : entries[i].metadata.source # "fallback") =>
                         summary.available \in 0..summary.capacity
  BY DEF ClusterSummaryAddsUp
<1> DEFINE N == Len(entries)
           M(i) == entries[i].metadata
           node(i) == entries[i].node
           capacities == [i \in DOMAIN entries |-> M(i).capacity]
           allocatables == [i \in DOMAIN entries |-> M(i).allocatable]
           allocations == [i \in DOMAIN entries |-> M(i).allocated]
           free == [i \in DOMAIN entries |-> NodeSpecs[node(i)].free]
<1>1. /\ DOMAIN entries = 1..N /\ N \in Nat /\ N = Len(results) /\ summary = Summary
      /\ \A i \in 1..N : EntryOf(entries[i], results[i])
      /\ results \in Seq(NodeResults)
  BY DEF ProxyInv, Routed, EntriesInPlace, ProxyAnswered
<1>2. ASSUME NEW i \in 1..N
      PROVE  node(i) \in DOMAIN NodeSpecs /\ M(i) \in NodeMetadata(node(i))
  <2>1. results[i] \in NodeResults
    <3> HIDE DEF NodeResults
    <3> QED
      BY <1>1
  <2>2. results[i].node \in DOMAIN NodeSpecs
    BY <2>1 DEF NodeResults
  <2> QED
    BY <1>1, <2>2 DEF EntryOf
<1>3. /\ summary.ready = N - FailedNodes /\ summary.failed = FailedNodes
      /\ summary.capacity = SumOf(capacities)
      /\ summary.available = SumOf(allocatables) - SumOf(allocations)
  BY <1>1 DEF Summary, SumOver
<1>4. FailedNodes \in 0..N
  BY <1>1, FailedAreCounted
<1> HIDE DEF M, node
<1>5. ASSUME NEW i \in 1..N
      PROVE  /\ M(i).capacity \in Int /\ M(i).allocatable \in Int /\ M(i).allocated \in Int
             /\ M(i).source = "pods" => M(i).allocatable - M(i).allocated = NodeSpecs[node(i)].free
             /\ M(i).source # "fallback" => M(i).allocatable - M(i).allocated \in 0..M(i).capacity
  BY <1>2, MetadataIsTrue
<1>6. /\ capacities \in Seq(Int) /\ Len(capacities) = N
      /\ allocatables \in Seq(Int) /\ Len(allocatables) = N
      /\ allocations \in Seq(Int) /\ Len(allocations) = N
      /\ \A i \in 1..N : /\ capacities[i] = M(i).capacity
                         /\ allocatables[i] = M(i).allocatable /\ allocations[i] = M(i).allocated
  BY <1>1, <1>5
<1> HIDE DEF capacities, allocatables, allocations
<1>7. ASSUME \A i \in DOMAIN entries : entries[i].metadata.source = "pods"
      PROVE  summary.available = SumOf(free)
  <2>1. \A i \in 1..N : allocatables[i] - allocations[i] = NodeSpecs[node(i)].free
    BY <1>1, <1>5, <1>6, <1>7 DEF M
  <2>2. free \in Seq(Int) /\ Len(free) = N
        /\ \A i \in 1..N : free[i] = allocatables[i] - allocations[i]
    <3>1. \A i \in 1..N : allocatables[i] \in Int /\ allocations[i] \in Int
      BY <1>6
    <3>2. \A i \in 1..N : NodeSpecs[node(i)].free \in Int
      BY <2>1, <3>1
    <3> QED
      BY <1>1, <2>1, <3>2
  <2> HIDE DEF free
  <2>3. SumOf(free) = SumOf(allocatables) - SumOf(allocations)
    BY <1>6, <2>2, SumOfDifferences
  <2> QED
    BY <1>3, <2>3
<1>8. ASSUME \A i \in DOMAIN entries : entries[i].metadata.source # "fallback"
      PROVE  summary.available \in 0..summary.capacity
  <2> DEFINE left == [i \in 1..N |-> allocatables[i] - allocations[i]]
  <2>1. \A i \in 1..N : allocatables[i] - allocations[i] \in 0..capacities[i]
    BY <1>1, <1>5, <1>6, <1>8 DEF M
  <2>2. left \in Seq(Int) /\ Len(left) = N
        /\ \A i \in 1..N : left[i] = allocatables[i] - allocations[i]
    BY <1>1, <2>1
  <2> HIDE DEF left
  <2>3. SumOf(left) = SumOf(allocatables) - SumOf(allocations)
    BY <1>6, <2>2, SumOfDifferences
  <2>4. \A i \in 1..N : 0 <= left[i] /\ left[i] <= capacities[i]
    BY <2>1, <2>2
  <2>5. SumOf(left) \in Int /\ SumOf(capacities) \in Int /\ 0 <= SumOf(left)
        /\ SumOf(left) <= SumOf(capacities)
    BY <1>6, <2>2, <2>4, SumBetween
  <2> QED
    BY <1>3, <2>3, <2>5
<1> QED
  BY <1>1, <1>3, <1>4, <1>7, <1>8 DEF node

-------------------------------------------------------------------------------
(* The server: the called tool keeps its invariant, the others stay as     *)
(* they were when the call began.                                          *)

HealthPart == IF tool = "get_gpu_health" THEN HealthInv ELSE gpus = <<>> /\ lost = {}

InventoryPart ==
  IF tool = "get_gpu_inventory" THEN InventoryInv
  ELSE devices = <<>> /\ unseen = {} /\ device = deviceCount

XidPart ==
  IF tool = "analyze_xid_errors" THEN XidInv /\ LogInv
  ELSE reader = "off" /\ log = <<>> /\ events = <<>> /\ errors = <<>>

NodePart ==
  IF tool = "node tools" THEN NodeInv /\ PodsInv
  ELSE nodeAnswer = NoAnswer /\ pods = <<>> /\ podGPUs = <<>> /\ allocated = 0

ProxyPart ==
  IF tool = "proxy" THEN ProxyInv
  ELSE proxyAt = "route" /\ results = <<>> /\ entries = <<>> /\ summary = NoSummary

ToolInv == HealthPart /\ InventoryPart /\ XidPart /\ NodePart /\ ProxyPart /\ AgentInv

LEMMA ToolInitInv == ToolInit => ToolInv
<1> SUFFICES ASSUME ToolInit PROVE ToolInv
  OBVIOUS
<1>1. HealthPart
  BY HealthInitInv, Zenon DEF ToolInit, HealthPart, HealthInit
<1>2. InventoryPart
  BY InventoryInitInv, Zenon DEF ToolInit, InventoryPart, InventoryInit
<1>3. XidPart
  <2>1. XidInit
    BY DEF ToolInit
  <2>2. XidInv
    BY <2>1 DEF XidInv, XidInit, CallInit
  <2>3. reader = "off" /\ log = <<>> /\ events = <<>> /\ errors = <<>>
    BY <2>1, Zenon DEF XidInit
  <2> QED
    BY <2>1, <2>2, <2>3, LogInitInv DEF XidPart
<1>4. NodePart
  BY NodeInitInv, PodsInitInv, Zenon DEF ToolInit, NodePart, NodeInit
<1>5. AgentInv
  BY AgentInitInv, Zenon DEF ToolInit
<1>6. ProxyPart
  BY ProxyInitInv, Zenon DEF ToolInit, ProxyPart, ProxyInit
<1> QED
  BY <1>1, <1>2, <1>3, <1>4, <1>5, <1>6 DEF ToolInv

(***************************************************************************)
(* A step is one of the called tool, which stays the same.                 *)
(***************************************************************************)
LEMMA OneToolSteps ==
  ASSUME [ToolNext]_toolVars
  PROVE  /\ tool' = tool
         /\ IF tool = "get_gpu_health" THEN [HealthNext]_<<callVars, healthVars>>
            ELSE UNCHANGED healthVars
         /\ IF tool = "get_gpu_inventory" THEN [InventoryNext]_<<callVars, inventoryVars>>
            ELSE UNCHANGED inventoryVars
         /\ IF tool = "analyze_xid_errors" THEN [XidNext]_<<callVars, xidVars>>
            ELSE UNCHANGED xidVars
         /\ IF tool = "node tools" THEN [NodeNext]_<<callVars, nodeVars>>
            ELSE UNCHANGED nodeVars
         /\ IF tool = "agent call" THEN [AgentCallNext]_<<callVars, agentCallVars>>
            ELSE UNCHANGED agentCallVars
         /\ IF tool = "proxy" THEN [ProxyNext]_<<callVars, proxyVars>>
            ELSE UNCHANGED proxyVars
<1>1. CASE UNCHANGED toolVars
  BY <1>1, Zenon DEF toolVars
<1>2. CASE ToolNext
  BY <1>2 DEF ToolNext, Health, Inventory, Xid, Proxy, Node, Agent
<1> QED
  BY <1>1, <1>2

LEMMA ToolStepInv == ToolInv /\ [ToolNext]_toolVars => ToolInv'
<1> SUFFICES ASSUME ToolInv, [ToolNext]_toolVars PROVE ToolInv'
  OBVIOUS
<1>1. HealthPart'
  BY OneToolSteps, HealthStepInv, Zenon DEF ToolInv, HealthPart, healthVars
<1>2. InventoryPart'
  BY OneToolSteps, InventoryStepInv, Zenon DEF ToolInv, InventoryPart, inventoryVars
<1>3. XidPart'
  BY OneToolSteps, XidStepInv, LogStepInv, Zenon DEF ToolInv, XidPart, xidVars, readerVars
<1>4. NodePart'
  BY OneToolSteps, NodeStepInv, PodsStepInv, Zenon DEF ToolInv, NodePart, nodeVars, podVars
<1>5. AgentInv'
  <2>1. [AgentCallNext]_<<callVars, agentCallVars>> \/ UNCHANGED agentCallVars
    BY OneToolSteps, Zenon
  <2>2. CASE UNCHANGED agentCallVars
    <3>1. LongestCall' = LongestCall
      BY <2>2, Zenon DEF LongestCall, agentCallVars
    <3> QED
      BY <2>2, <3>1, Zenon DEF ToolInv, AgentInv, AgentPlace, TimeSpent, agentCallVars
  <2> QED
    BY <2>1, <2>2, AgentStepInv, Zenon DEF ToolInv
<1>6. ProxyPart'
  BY OneToolSteps, ProxyStepInv, Zenon DEF ToolInv, ProxyPart, proxyVars
<1> QED
  BY <1>1, <1>2, <1>3, <1>4, <1>5, <1>6 DEF ToolInv

(***************************************************************************)
(* The inductive invariant of the server.                                  *)
(***************************************************************************)
THEOREM ToolInvariant == ToolSpec => []ToolInv
  BY ToolInitInv, ToolStepInv, PTL DEF ToolSpec

-------------------------------------------------------------------------------
(***************************************************************************)
(* One GPU at a limit decides the answer of get_gpu_health.                *)
(***************************************************************************)
THEOREM WorstGPUAlwaysDecides == ToolSpec => []WorstGPUDecides
<1>1. ToolInv => WorstGPUDecides
  <2>1. gpus = <<>> => WorstGPUDecides
    BY DEF WorstGPUDecides
  <2> QED
    BY <2>1, HealthAnswers DEF ToolInv, HealthPart
<1> QED
  BY <1>1, ToolInvariant, PTL

(***************************************************************************)
(* A cancelled get_gpu_health that answers all the same lacks its last GPU *)
(* at most.                                                                *)
(***************************************************************************)
THEOREM HealthLacksOnlyLast == ToolSpec => []CancelledAnswerLacksOnlyLastGPU
<1>1. ToolInv => CancelledAnswerLacksOnlyLastGPU
  <2>1. gpus = <<>> /\ lost = {} => CancelledAnswerLacksOnlyLastGPU
    BY DEF CancelledAnswerLacksOnlyLastGPU
  <2> QED
    BY <2>1, HealthAnswers DEF ToolInv, HealthPart
<1> QED
  BY <1>1, ToolInvariant, PTL

(***************************************************************************)
(* So does a cancelled inventory, whose devices are in order.              *)
(***************************************************************************)
THEOREM InventoryLacksOnlyLast == ToolSpec => []InventoryLacksOnlyLastDevice
<1>1. ToolInv => InventoryLacksOnlyLastDevice
  <2>1. CASE tool = "get_gpu_inventory"
    BY <2>1, Zenon DEF ToolInv, InventoryPart, InventoryInv, UnseenIsLast, DevicesInOrder,
       InventoryAnswered, InventoryLacksOnlyLastDevice
  <2>2. CASE tool # "get_gpu_inventory"
    BY <2>2 DEF ToolInv, InventoryPart, InventoryLacksOnlyLastDevice
  <2> QED
    BY <2>1, <2>2
<1> QED
  BY <1>1, ToolInvariant, PTL

(***************************************************************************)
(* No reply leaves a goroutine behind that reads the kernel log.           *)
(***************************************************************************)
THEOREM NoReaderLeft == ToolSpec => []ReaderDoesNotLeak
<1>1. ToolInv => ReaderDoesNotLeak
  BY DEF ToolInv, XidPart, XidInv, ReaderDoesNotLeak
<1> QED
  BY <1>1, ToolInvariant, PTL

(***************************************************************************)
(* An answer reports the Xid records of the log that was read, all of it   *)
(* if nobody interrupted the reading, and the worst of them.               *)
(***************************************************************************)
THEOREM EventsAreOfTheLog == ToolSpec => []AnswerReportsLog
<1>1. ToolInv => AnswerReportsLog
  <2>1. CASE tool = "analyze_xid_errors"
    BY <2>1, LogAnswers DEF ToolInv, XidPart
  <2>2. ASSUME ToolInv, tool # "analyze_xid_errors" PROVE AnswerReportsLog
    <3>1. log = <<>> /\ events = <<>> /\ errors = <<>>
      BY <2>2 DEF ToolInv, XidPart
    <3>2. Len(log) = 0 /\ SubSeq(log, 1, 0) = <<>> /\ 0 \in 0..Len(log)
      BY <3>1
    <3>3. \E n \in 0..Len(log) : events = ParseMessages(SubSeq(log, 1, n)) /\ n = Len(log)
      BY <3>1, <3>2, EventsAppend
    <3>4. Severities(events) = {} /\ Severities(errors) = {}
      BY <3>1 DEF Severities
    <3> QED
      BY <3>1, <3>3, <3>4 DEF AnswerReportsLog
  <2> QED
    BY <2>1, <2>2
<1> QED
  BY <1>1, ToolInvariant, PTL

(***************************************************************************)
(* A description that says "success" has all of its parts.                 *)
(***************************************************************************)
THEOREM SuccessIsComplete == ToolSpec => []PartialDescriptionSaysSo
<1>1. ToolInv => PartialDescriptionSaysSo
  BY NoAnswerYet DEF ToolInv, NodePart, NodeInv, NodeFoundInTime, NodeAnswered,
     PartialDescriptionSaysSo
<1> QED
  BY <1>1, ToolInvariant, PTL

(***************************************************************************)
(* An answer lists the pods with GPUs in full, and their sum is theirs.    *)
(***************************************************************************)
THEOREM PodsListedInFull == ToolSpec => []PodsAllOrNothing
<1>1. ToolInv => PodsAllOrNothing
  <2>1. CASE tool = "node tools"
    BY <2>1, PodsAnswered DEF ToolInv, NodePart
  <2>2. ASSUME ToolInv, tool # "node tools" PROVE PodsAllOrNothing
    <3>1. pods = <<>> /\ podGPUs = <<>> /\ allocated = 0 /\ nodeAnswer.status = ""
      BY <2>2, NoAnswerYet DEF ToolInv, NodePart
    <3>2. GPUsOfPods(nodeTool, pods) = <<>>
      <4>1. SubSeq(pods, 1, 0) = pods
        BY <3>1, NoPods, Zenon
      <4>2. GPUsOfPods(nodeTool, SubSeq(pods, 1, 0)) = <<>>
        BY <3>1, NoPods, Zenon
      <4> QED
        BY <4>1, <4>2, Zenon
    <3> QED
      BY <3>1, <3>2, SumEmpty DEF PodsAllOrNothing
  <2> QED
    BY <2>1, <2>2
<1> QED
  BY <1>1, ToolInvariant, PTL

(***************************************************************************)
(* Whatever responses the agents wrote, and with whichever braces, quotes  *)
(* and backslashes in them, the gateway reports the last one of each.      *)
(***************************************************************************)
THEOREM LastAnswerIsParsed == ToolSpec => []ParsedIsLastAnswer
<1>1. ToolInv => ParsedIsLastAnswer
  <2>1. CASE tool = "proxy"
    BY <2>1, ParsedIsTrue DEF ToolInv, ProxyPart
  <2>2. ASSUME ToolInv, tool # "proxy" PROVE ParsedIsLastAnswer
    <3>1. entries = <<>>
      BY <2>2 DEF ToolInv, ProxyPart
    <3>2. DOMAIN entries = {}
      BY <3>1
    <3> QED
      BY <3>2 DEF ParsedIsLastAnswer
  <2> QED
    BY <2>1, <2>2
<1> QED
  BY <1>1, ToolInvariant, PTL

(***************************************************************************)
(* The status of the gateway's answer tells whether nodes failed.          *)
(***************************************************************************)
THEOREM StatusIsHonest == ToolSpec => []StatusTellsFailures
<1>1. ToolInv => StatusTellsFailures
  <2>1. CASE tool = "proxy"
    BY <2>1, StatusIsTrue DEF ToolInv, ProxyPart
  <2>2. CASE tool # "proxy"
    BY <2>2 DEF ToolInv, ProxyPart, StatusTellsFailures
  <2> QED
    BY <2>1, <2>2
<1> QED
  BY <1>1, ToolInvariant, PTL

(***************************************************************************)
(* The totals of the gateway's answer are those of its nodes, and no GPU   *)
(* is available that a running pod holds.                                  *)
(***************************************************************************)
THEOREM SummaryAddsUp == ToolSpec => []ClusterSummaryAddsUp
<1>1. ToolInv => ClusterSummaryAddsUp
  <2>1. CASE tool = "proxy"
    BY <2>1, SummaryIsTrue DEF ToolInv, ProxyPart
  <2>2. ASSUME ToolInv, tool # "proxy" PROVE ClusterSummaryAddsUp
    <3>1. results = <<>> /\ entries = <<>> /\ summary = NoSummary
      BY <2>2 DEF ToolInv, ProxyPart
    <3>2. [i \in DOMAIN entries |-> NodeSpecs[entries[i].node].free] = <<>>
      BY <3>1
    <3>3. /\ summary.ready = 0 /\ summary.failed = 0 /\ summary.available = 0
          /\ summary.capacity = 0 /\ Len(results) = 0
      BY <3>1 DEF NoSummary
    <3> QED
      BY <3>2, <3>3, SumEmpty DEF ClusterSummaryAddsUp
  <2> QED
    BY <2>1, <2>2
<1> QED
  BY <1>1, ToolInvariant, PTL

(***************************************************************************)
(* A call of an agent is over within its attempts and pauses, and reaches  *)
(* the agent at most once per attempt.                                     *)
(***************************************************************************)
THEOREM CallsAreBounded == ToolSpec => []CallIsBounded
  BY ToolInvariant, AgentBounded, PTL DEF ToolInv

(***************************************************************************)
(* After a cancellation no request is sent to an agent.                    *)
(***************************************************************************)
THEOREM CancelStopsAttempts == ToolSpec => NoAttemptAfterCancel
<1>1. ASSUME [ToolNext]_toolVars
      PROVE  [ctxDone => sent' = sent]_<<callVars, agentCallVars>>
  <2>1. CASE Agent /\ AgentCallNext
    BY <2>1 DEF AgentCallNext, AgentCallSteps, CancelCall, CallAgent, StartAttempt,
       AttemptAnswers, AttemptFails, Backoff, AgentExecutes, agentCallVars
  <2>2. CASE ~ (Agent /\ AgentCallNext)
    <3>1. UNCHANGED agentCallVars
      BY <1>1, <2>2, Zenon
         DEF ToolNext, toolVars, Health, Inventory, Xid, Proxy, Node
    <3> QED
      BY <3>1 DEF agentCallVars
  <2> QED
    BY <2>1, <2>2
<1> QED
  BY <1>1, PTL DEF ToolSpec, NoAttemptAfterCancel

-------------------------------------------------------------------------------
(* Types: what each handler keeps of its own variables, given what is      *)
(* known of them already.                                                  *)

HealthTyped ==
  /\ healthAt \in {"start", "count", "next", "identify", "temperature", "memory",
                   "power", "throttling", "ecc", "performance", "score", "done"}
  /\ count \in DeviceCounts \cup {0} /\ gpu.index \in 0..count
  /\ healthAt \in {"start", "count"} => gpus = <<>>
  /\ \A i \in DOMAIN gpus : /\ gpus[i].index \in 0..(count - 1)
                            /\ gpus[i].score \in 0..100
                            /\ gpus[i].status \in GPUStatuses
  /\ lost \subseteq 0..(count - 1)
  /\ response.status \in GPUStatuses \cup {""} /\ response.score \in 0..100

LEMMA HealthInitTyped == HealthInit => HealthTyped
<1> SUFFICES ASSUME HealthInit PROVE HealthTyped
  OBVIOUS
<1>1. /\ healthAt = "start" /\ count = 0 /\ gpu = NoGPU /\ gpus = <<>> /\ lost = {}
      /\ response = NoResponse
  BY Zenon DEF HealthInit
<1>2. gpu.index = 0 /\ response.status = "" /\ response.score = 0
  BY <1>1 DEF NoGPU, NoResponse
<1>3. \A i \in DOMAIN gpus : /\ gpus[i].index \in 0..(count - 1) /\ gpus[i].score \in 0..100
                             /\ gpus[i].status \in GPUStatuses
  <2>1. DOMAIN gpus = {}
    BY <1>1
  <2> QED
    BY <2>1
<1>6. healthAt = "start" /\ count = 0 /\ lost = {}
  BY <1>1
<1>7. 0 \in 0..0 /\ 0 \in 0..100
  OBVIOUS
<1>4. gpu.index \in 0..count /\ response.score \in 0..100
  BY <1>2, <1>6, <1>7
<1>8. /\ lost \subseteq 0..(count - 1)
      /\ healthAt \in {"start", "count", "next", "identify", "temperature", "memory", "power",
                       "throttling", "ecc", "performance", "score", "done"}
      /\ count \in DeviceCounts \cup {0}
  BY <1>6
<1>9. response.status \in GPUStatuses \cup {""}
  BY <1>2
<1>5. gpus = <<>>
  BY <1>1
<1> QED
  BY <1>3, <1>4, <1>5, <1>8, <1>9 DEF HealthTyped

(***************************************************************************)
(* A GPU that is collected is of the node, and its status has a name.      *)
(***************************************************************************)
LEMMA CollectTyped ==
  ASSUME HealthInv, HealthInv', HealthTyped, NEW g, Collect(g), gpu.index < count,
         g.index = gpu.index, g.status \in GPUStatuses, UNCHANGED <<count, response>>,
         lost' \subseteq lost \cup {gpu.index}
  PROVE  HealthTyped'
<1>1. gpus \in Seq({gpus[i] : i \in DOMAIN gpus}) /\ gpus' = Append(gpus, g)
  BY DEF HealthInv, Collected, Collect
<1> DEFINE t == Append(gpus, g)
<1>5. /\ t \in Seq({t[i] : i \in DOMAIN t})
      /\ \A i \in DOMAIN gpus : i \in DOMAIN t /\ t[i] = gpus[i]
      /\ \E i \in DOMAIN t : t[i] = g
      /\ \A i \in DOMAIN t : (i \in DOMAIN gpus /\ t[i] = gpus[i]) \/ t[i] = g
  BY <1>1, AppendAny, Zenon
<1>2. \A i \in DOMAIN gpus' : (i \in DOMAIN gpus /\ gpus'[i] = gpus[i]) \/ gpus'[i] = g
  BY <1>1, <1>5, Zenon
<1>3. count \in Nat /\ gpu.index \in 0..(count - 1) /\ gpu'.index \in 0..count'
      /\ healthAt' = "next"
  BY DEF HealthInv, InHand, Collect
<1>4. ASSUME NEW i \in DOMAIN gpus'
      PROVE  /\ gpus'[i].index \in 0..(count - 1) /\ gpus'[i].status \in GPUStatuses
             /\ gpus'[i].score \in 0..100
  <2>1. gpus'[i].index \in 0..(count - 1) /\ gpus'[i].status \in GPUStatuses
    BY <1>2, <1>3, Zenon DEF HealthTyped
  <2>2. Judged(gpus'[i])
    BY DEF HealthInv, Collected
  <2> QED
    BY <2>1, <2>2, Zenon DEF Judged, ScoreOf
<1> QED
  BY <1>3, <1>4 DEF HealthTyped

LEMMA AggregateTyped ==
  ASSUME NEW all, Collected(all)
  PROVE  OverallHealth(all).status \in GPUStatuses /\ OverallHealth(all).score \in 0..100
<1>1. WorstScore(all) \in 0..100
  <2>1. \E s \in 0..100 : IsWorst(s, all)
    BY DEF Collected
  <2> QED
    BY <2>1 DEF WorstScore, IsWorst, ScoreOf
<1> QED
  BY <1>1 DEF OverallHealth, GPUStatuses

(***************************************************************************)
(* Steps that collect nothing.                                             *)
(***************************************************************************)
LEMMA HealthKept ==
  ASSUME HealthInv, HealthInv', HealthTyped, UNCHANGED <<gpus, response, count>>,
         healthAt' = healthAt
         \/ healthAt' \in {"next", "identify", "temperature", "memory", "power", "throttling",
                           "ecc", "performance", "score", "done"}
         \/ (healthAt = "start" /\ healthAt' = "count"),
         lost' = lost \/ (lost' = lost \cup {gpu.index} /\ gpu.index < count)
  PROVE  HealthTyped'
<1>1. gpu'.index \in 0..count' /\ gpu.index \in 0..count /\ count \in Nat
  BY DEF HealthInv, InHand
<1>2. lost' \subseteq 0..(count' - 1)
  <2>1. lost \subseteq 0..(count - 1)
    BY DEF HealthTyped
  <2>2. gpu.index < count => gpu.index \in 0..(count - 1)
    BY <1>1
  <2> QED
    BY <2>1, <2>2
<1>3. healthAt' \in {"start", "count", "next", "identify", "temperature", "memory", "power",
                     "throttling", "ecc", "performance", "score", "done"}
  BY DEF HealthTyped
<1>4. healthAt' \in {"start", "count"} => gpus = <<>>
  BY DEF HealthTyped
<1> QED
  BY <1>1, <1>2, <1>3, <1>4, Zenon DEF HealthTyped

LEMMA CheckTyped ==
  ASSUME HealthInv, HealthInv', HealthTyped, NEW values,
         NEW subsystem \in {"temperature", "memory", "power", "throttling", "ecc", "performance"},
         NEW next \in {"memory", "power", "throttling", "ecc", "performance", "score"},
         Check(subsystem, next, values)
  PROVE  HealthTyped'
<1>1. /\ UNCHANGED <<gpus, response, count>> /\ healthAt = subsystem /\ healthAt' = next
      /\ lost' \in {lost, lost \cup {gpu.index}}
  BY DEF Check
<1>2. gpu.index < count
  BY <1>1 DEF HealthInv, InHand
<1> QED
  BY <1>1, <1>2, HealthKept

LEMMA HealthStepTyped ==
  ASSUME HealthInv, HealthInv', HealthTyped, [HealthNext]_<<callVars, healthVars>>
  PROVE  HealthTyped'
<1>1. CASE CancelCall /\ UNCHANGED healthVars
  BY <1>1, HealthKept DEF healthVars
<1>2. CASE HealthStart
  BY <1>2, HealthKept DEF HealthStart
<1>3. CASE CountGPUs
  <2>1. PICK n \in Outcomes(DeviceCounts) :
          IF n = Failed THEN healthAt' = "done" /\ UNCHANGED count
          ELSE healthAt' = "next" /\ count' = n
    BY <1>3 DEF CountGPUs
  <2>2. /\ UNCHANGED <<gpu, gpus, lost, response>> /\ healthAt = "count" /\ lost = {}
        /\ gpus = <<>> /\ gpu'.index \in 0..count'
    BY <1>3 DEF CountGPUs, HealthInv, LostIsLast, HealthTyped, InHand
  <2>3. count' \in DeviceCounts \cup {0} /\ healthAt' \in {"done", "next"}
    BY <2>1 DEF Outcomes, Getter, HealthTyped
  <2>4. DOMAIN gpus = {}
    BY <2>2
  <2> QED
    BY <2>2, <2>3, <2>4 DEF HealthTyped
<1>4. CASE NextGPU
  <2>1. CASE HealthAnswer
    <3>1. response' = OverallHealth(gpus) /\ UNCHANGED <<count, gpu, gpus, lost>>
          /\ healthAt' = "done"
      BY <2>1 DEF HealthAnswer
    <3>2. response'.status \in GPUStatuses /\ response'.score \in 0..100
      BY <3>1, AggregateTyped DEF HealthInv
    <3> QED
      BY <3>1, <3>2 DEF HealthTyped
  <2>2. CASE ~ HealthAnswer
    <3>1. /\ UNCHANGED <<gpus, response, count>> /\ healthAt' \in {healthAt, "done", "identify"}
          /\ lost' = lost \/ (lost' = lost \cup {gpu.index} /\ gpu.index < count)
      BY <1>4, <2>2 DEF NextGPU, LookAtGPU
    <3> QED
      BY <3>1, HealthKept
  <2> QED
    BY <2>1, <2>2
<1>5. CASE IdentifyGPU
  <2>1. CASE ctxDone
    <3>1. DOMAIN gpu = GPUFields /\ gpu.index < count
      BY <1>5 DEF IdentifyGPU, HealthInv, InHand
    <3> DEFINE g == [gpu EXCEPT !.status = "unknown"]
    <3>2. g.index = gpu.index /\ g.status \in GPUStatuses
      BY <3>1 DEF GPUFields, GPUStatuses
    <3>3. Collect(g) /\ UNCHANGED <<count, response>> /\ lost' = lost \cup {gpu.index}
      BY <1>5, <2>1 DEF IdentifyGPU
    <3> HIDE DEF g
    <3> QED
      BY <3>1, <3>2, <3>3, CollectTyped
  <2>2. CASE ~ ctxDone
    BY <1>5, <2>2, HealthKept DEF IdentifyGPU
  <2> QED
    BY <2>1, <2>2
<1>6. CASE ScoreGPU
  <2> DEFINE score == HealthScore(gpu)
             issues == CriticalIssues(gpu)
             g == [gpu EXCEPT !.score = score, !.issues = issues,
                              !.status = DetermineStatus(score, issues)]
  <2>1. DOMAIN gpu = GPUFields /\ gpu.index < count
    BY <1>6 DEF ScoreGPU, HealthInv, InHand
  <2>2. Collect(g) /\ UNCHANGED <<count, response, lost>>
    BY <1>6 DEF ScoreGPU
  <2>3. DetermineStatus(score, issues) \in GPUStatuses
    BY DEF DetermineStatus, GPUStatuses
  <2> HIDE DEF score, issues
  <2>4. g.index = gpu.index /\ g.status \in GPUStatuses
    BY <2>1, <2>3 DEF GPUFields
  <2> HIDE DEF g
  <2> QED
    BY <2>1, <2>2, <2>4, CollectTyped
<1>7. CASE CheckTemperature \/ CheckMemory \/ CheckPower \/ CheckThrottling \/ CheckECCErrors
           \/ CheckPerformance
  <2>1. CASE CheckTemperature
    BY <2>1, CheckTyped DEF CheckTemperature
  <2>2. CASE CheckMemory
    BY <2>2, CheckTyped DEF CheckMemory
  <2>3. CASE CheckPower
    <3> DEFINE values == {Power(p, limit) : p \in Outcomes(Readings[gpu.index].power),
                                            limit \in Outcomes(Readings[gpu.index].powerLimit)}
    <3>1. Check("power", "throttling", values)
      BY <2>3 DEF CheckPower
    <3> HIDE DEF values
    <3> QED
      BY <3>1, CheckTyped
  <2>4. CASE CheckThrottling
    BY <2>4, CheckTyped DEF CheckThrottling
  <2>5. CASE CheckECCErrors
    BY <2>5, CheckTyped DEF CheckECCErrors
  <2>6. CASE CheckPerformance
    BY <2>6, CheckTyped DEF CheckPerformance
  <2> QED
    BY <1>7, <2>1, <2>2, <2>3, <2>4, <2>5, <2>6
<1>8. CASE UNCHANGED <<callVars, healthVars>>
  BY <1>8, HealthKept DEF healthVars
<1> QED
  BY <1>1, <1>2, <1>3, <1>4, <1>5, <1>6, <1>7, <1>8 DEF HealthNext, HealthSteps

-------------------------------------------------------------------------------
InventoryTyped ==
  /\ inventoryAt \in {"count", "next", "collect", "versions", "done"}
  /\ deviceCount \in InventoryCounts \cup {0} /\ device \in 0..deviceCount
  /\ inventoryAt = "count" => unseen = {} /\ devices = <<>>
  /\ devices \in Seq([index : 0..(deviceCount - 1), read : SUBSET OptionalFields])
  /\ unseen \subseteq 0..(deviceCount - 1)

LEMMA InventoryInitTyped == InventoryInit => InventoryTyped
  BY DEF InventoryInit, InventoryTyped

(***************************************************************************)
(* A sequence has the type of its elements.                                *)
(***************************************************************************)
LEMMA SeqOfElements ==
  ASSUME NEW S, NEW T, NEW s \in Seq(S), \A i \in DOMAIN s : s[i] \in T
  PROVE  s \in Seq(T)
  BY LenProperties, SeqDef

LEMMA DevicesTyped ==
  ASSUME NEW list \in Seq([index : Nat, read : SUBSET OptionalFields]), NEW n \in Nat,
         NEW d \in 0..n, \A i \in DOMAIN list : list[i].index < d
  PROVE  list \in Seq([index : 0..(n - 1), read : SUBSET OptionalFields])
<1> DEFINE D == [index : Nat, read : SUBSET OptionalFields]
           E == [index : 0..(n - 1), read : SUBSET OptionalFields]
<1>1. list \in Seq(D)
  OBVIOUS
<1>2. ASSUME NEW i \in DOMAIN list PROVE list[i] \in E
  <2>1. list[i] \in D
    BY <1>1, LenProperties, ElementOfSeq
  <2>2. list[i].index \in 0..(n - 1)
    BY <2>1
  <2> QED
    BY <2>1, <2>2
<1> HIDE DEF D, E
<1>3. list \in Seq(E)
  BY <1>1, <1>2, SeqOfElements
<1> QED
  BY <1>3 DEF E

LEMMA InventoryStepTyped ==
  ASSUME InventoryInv, InventoryInv', InventoryTyped,
         [InventoryNext]_<<callVars, inventoryVars>>
  PROVE  InventoryTyped'
<1>1. /\ device' \in 0..deviceCount' /\ deviceCount \in Nat /\ device \in 0..deviceCount
      /\ devices' \in Seq([index : 0..(deviceCount' - 1), read : SUBSET OptionalFields])
  <2>1. device' \in 0..deviceCount' /\ deviceCount \in Nat /\ device \in 0..deviceCount
    BY DEF InventoryInv, DeviceInHand
  <2>2. /\ devices' \in Seq([index : Nat, read : SUBSET OptionalFields])
        /\ \A i \in DOMAIN devices' : devices'[i].index < device'
        /\ deviceCount' \in Nat
    BY DEF InventoryInv, DevicesInOrder, DeviceInHand
  <2>3. devices' \in Seq([index : 0..(deviceCount' - 1), read : SUBSET OptionalFields])
    BY <2>1, <2>2, DevicesTyped
  <2> QED
    BY <2>1, <2>3
<1>2. CASE CountDevices
  <2>1. PICK n \in Outcomes(InventoryCounts) :
          IF n = Failed THEN inventoryAt' = "done" /\ UNCHANGED deviceCount
          ELSE inventoryAt' = "next" /\ deviceCount' = n
    BY <1>2 DEF CountDevices
  <2>2. deviceCount' \in InventoryCounts \cup {0} /\ inventoryAt' \in {"done", "next"}
    BY <2>1 DEF Outcomes, Getter, InventoryTyped
  <2>3. unseen' = {}
    BY <1>2 DEF CountDevices, InventoryTyped
  <2> QED
    BY <1>1, <2>2, <2>3 DEF InventoryTyped
\* Any other step leaves the count, and what it does not see is a device.
<1>3. ASSUME deviceCount' = deviceCount,
             inventoryAt' \in {inventoryAt, "next", "collect", "versions", "done"},
             inventoryAt' = "count" => UNCHANGED <<unseen, devices>>,
             unseen' = unseen \/ (unseen' = unseen \cup {device} /\ device < deviceCount)
      PROVE  InventoryTyped'
  <2>1. unseen' \subseteq 0..(deviceCount' - 1)
    <3>1. device < deviceCount => device \in 0..(deviceCount - 1)
      BY <1>1
    <3> QED
      BY <1>3, <3>1 DEF InventoryTyped
  <2>2. inventoryAt' \in {"count", "next", "collect", "versions", "done"}
    BY <1>3 DEF InventoryTyped
  <2>3. inventoryAt' = "count" => unseen' = {} /\ devices' = <<>>
    BY <1>3 DEF InventoryTyped
  <2> QED
    BY <1>1, <1>3, <2>1, <2>2, <2>3 DEF InventoryTyped
<1>4. CASE NextDevice
  <2>1. CASE device = deviceCount \/ ctxDone
    BY <1>3, <1>4, <2>1 DEF NextDevice
  <2>2. CASE device # deviceCount /\ ~ ctxDone
    BY <1>3, <1>4, <2>2 DEF NextDevice, RequiredInfo
  <2> QED
    BY <2>1, <2>2
<1>5. CASE CollectDevice
  <2>1. device < deviceCount
    BY <1>5 DEF CollectDevice, InventoryInv, DeviceInHand
  <2> QED
    BY <1>3, <1>5, <2>1 DEF CollectDevice
<1>6. CASE InventoryAnswer
  BY <1>3, <1>6 DEF InventoryAnswer
<1>7. CASE UNCHANGED inventoryVars
  BY <1>3, <1>7 DEF inventoryVars
<1> QED
  BY <1>2, <1>4, <1>5, <1>6, <1>7 DEF InventoryNext, InventorySteps

-------------------------------------------------------------------------------
XidTyped ==
  /\ xidAt \in {"start", "reading", "draining", "dmesg", "parsed", "done"}
  /\ log \in Logs \cup {<<>>} /\ scanned \in 0..Len(log)
  /\ reader \in {"off", "scanning", "sent"}
  /\ scanFailed \in BOOLEAN /\ timedOut \in BOOLEAN /\ closed \in BOOLEAN
  /\ Len(messages) <= scanned /\ Len(errors) <= Len(events)
  /\ xidStatus \in {"", "ok", "warning", "degraded", "critical"}

LEMMA XidInitTyped == XidInit => XidTyped
<1> SUFFICES ASSUME XidInit PROVE XidTyped
  OBVIOUS
<1>1. scanFailed \in BOOLEAN /\ timedOut \in BOOLEAN /\ closed \in BOOLEAN
  BY Zenon DEF XidInit
<1>2. /\ xidAt = "start" /\ log = <<>> /\ reader = "off" /\ scanned = 0 /\ messages = <<>>
      /\ events = <<>> /\ errors = <<>> /\ xidStatus = ""
  BY Zenon DEF XidInit
<1>3. scanned \in 0..Len(log) /\ Len(messages) <= scanned /\ Len(errors) <= Len(events)
  <2>1. log = <<>> /\ messages = <<>> /\ events = <<>> /\ errors = <<>> /\ scanned = 0
    BY <1>2, Zenon
  <2>2. Len(log) = 0 /\ Len(messages) = 0 /\ Len(events) = 0 /\ Len(errors) = 0
    BY <2>1
  <2>3. 0 \in 0..0 /\ 0 <= 0
    OBVIOUS
  <2> QED
    BY <2>1, <2>2, <2>3, Zenon
<1> QED
  BY <1>1, <1>2, <1>3 DEF XidTyped

LEMMA XidStepTyped ==
  ASSUME XidInv, XidInv', LogInv, LogInv', XidTyped, [XidNext]_<<callVars, xidVars>>
  PROVE  XidTyped'
<1>1. scanned' \in 0..Len(log') /\ scanFailed' \in BOOLEAN
  BY DEF LogInv, LogRead
<1>2. Len(errors') <= Len(events')
  <2>1. Len(events') \in Nat /\ Len(errors') \in 0..Len(events')
    BY DEF LogInv, EventsEnriched
  <2> QED
    BY <2>1
\* What one step may change.
<1>3. ASSUME xidAt' \in {xidAt, "reading", "draining", "dmesg", "parsed", "done"},
             log' = log \/ log' \in Logs, reader' \in {reader, "off", "scanning", "sent"},
             timedOut' \in {timedOut, TRUE}, closed' \in {closed, TRUE},
             Len(messages') <= scanned',
             xidStatus' \in {xidStatus, "ok", "warning", "degraded", "critical"}
      PROVE  XidTyped'
  <2>1. timedOut' \in BOOLEAN /\ closed' \in BOOLEAN
    BY <1>3, Zenon DEF XidTyped
  <2> QED
    BY <1>1, <1>2, <1>3, <2>1 DEF XidTyped
<1>4. Len(messages) <= scanned
  BY DEF XidTyped
<1>5. CASE ScanRecord
  <2>1. messages' = messages \/ \E r : messages' = Append(messages, r)
    BY <1>5, Zenon DEF ScanRecord
  <2>2. messages \in Seq(Records) /\ scanned \in Nat /\ Len(messages) \in Nat
    BY DEF LogInv, LogRead
  <2>3. Len(messages') <= Len(messages) + 1
    BY <2>1, <2>2
  <2>4. /\ scanned' = scanned + 1 /\ UNCHANGED <<xidAt, log, timedOut, closed, xidStatus>>
        /\ reader' \in {reader, "sent"}
    BY <1>5 DEF ScanRecord
  <2>5. Len(messages') <= scanned'
    <3>1. Len(messages') \in Nat
      BY DEF LogInv, LogRead
    <3> QED
      BY <1>4, <2>2, <2>3, <2>4, <3>1
  <2> QED
    BY <1>3, <2>4, <2>5
<1>6. CASE ~ ScanRecord
  <2>1. UNCHANGED <<messages, scanned>>
    BY <1>6 DEF XidNext, xidVars, readerVars, ReadTimeout, XidHandler, XidReader, XidStart,
       ReadResult, CloseFile, DrainResult, ParseDmesg, EnrichEvent, XidAnswer, ScanEnds
  <2>2. log' = log \/ log' \in Logs
    BY <1>6 DEF XidNext, xidVars, ReadTimeout, XidHandler, XidReader, XidStart,
       ReadResult, CloseFile, DrainResult, ParseDmesg, EnrichEvent, XidAnswer, ScanEnds
  <2>3. /\ xidAt' \in {xidAt, "reading", "draining", "dmesg", "parsed", "done"}
        /\ reader' \in {reader, "off", "scanning", "sent"}
    BY <1>6 DEF XidNext, xidVars, readerVars, ReadTimeout, XidHandler, XidReader, XidStart,
       ReadResult, CloseFile, DrainResult, ParseDmesg, EnrichEvent, XidAnswer, ScanEnds
  <2>4. timedOut' \in {timedOut, TRUE} /\ closed' \in {closed, TRUE}
    BY <1>6 DEF XidNext, xidVars, readerVars, ReadTimeout, XidHandler, XidReader, XidStart,
       ReadResult, CloseFile, DrainResult, ParseDmesg, EnrichEvent, XidAnswer, ScanEnds
  <2>5. xidStatus' \in {xidStatus, "ok", "warning", "degraded", "critical"}
    BY <1>6 DEF XidNext, xidVars, readerVars, ReadTimeout, XidHandler, XidReader, XidStart,
       ReadResult, CloseFile, DrainResult, ParseDmesg, EnrichEvent, XidAnswer, ScanEnds, XidStatusOf
  <2> QED
    BY <1>3, <1>4, <2>1, <2>2, <2>3, <2>4, <2>5
<1> QED
  BY <1>5, <1>6

-------------------------------------------------------------------------------
ProxyTyped ==
  /\ proxyAt \in {"route", "result", "done"}
  /\ forInventory \in BOOLEAN /\ withMetadata \in BOOLEAN
  /\ results \in Seq(NodeResults) /\ Len(entries) <= Len(results)
  /\ summary.status \in {"", "success", "partial", "error"}

LEMMA ProxyInitTyped == ProxyInit => ProxyTyped
<1> SUFFICES ASSUME ProxyInit PROVE ProxyTyped
  OBVIOUS
<1>1. forInventory \in BOOLEAN /\ withMetadata \in BOOLEAN
  BY Zenon DEF ProxyInit
<1>2. proxyAt = "route" /\ results = <<>> /\ entries = <<>> /\ summary = NoSummary
  BY Zenon DEF ProxyInit
<1>3. results \in Seq(NodeResults) /\ Len(entries) <= Len(results)
  <2>1. results = <<>> /\ Len(<<>>) = 0 /\ 0 <= 0 /\ <<>> \in Seq(NodeResults)
    BY <1>2
  <2> QED
    BY <1>2, <2>1, Zenon
<1>4. summary.status = ""
  BY <1>2 DEF NoSummary
<1> QED
  BY <1>1, <1>2, <1>3, <1>4 DEF ProxyTyped

LEMMA ProxyStepTyped ==
  ASSUME ProxyInv', ProxyTyped, [ProxyNext]_<<callVars, proxyVars>>
  PROVE  ProxyTyped'
<1>1. /\ proxyAt' \in {"route", "result", "done"} /\ results' \in Seq(NodeResults)
      /\ Len(entries') <= Len(results')
  <2>1. proxyAt' \in {"route", "result", "done"} /\ results' \in Seq(NodeResults)
    BY DEF ProxyInv, Routed
  <2>2. Len(entries') \in 0..Len(results')
    BY DEF ProxyInv, EntriesInPlace
  <2>3. Len(results') \in Nat
    BY <2>1
  <2> QED
    BY <2>1, <2>2, <2>3
<1>2. forInventory' \in BOOLEAN /\ withMetadata' \in BOOLEAN
  <2>1. forInventory \in BOOLEAN /\ withMetadata \in BOOLEAN
    BY DEF ProxyTyped
  <2>2. forInventory' = forInventory \/ forInventory' \in BOOLEAN
    BY Zenon DEF ProxyNext, ProxySteps, RouteCall, AddResult, ProxyAnswer, proxyVars
  <2>3. withMetadata' = withMetadata \/ withMetadata' \in BOOLEAN
    BY Zenon DEF ProxyNext, ProxySteps, RouteCall, AddResult, ProxyAnswer, proxyVars
  <2> QED
    BY <2>1, <2>2, <2>3, Zenon
<1>3. summary' = summary \/ summary' = Summary
  BY Zenon DEF ProxyNext, ProxySteps, RouteCall, AddResult, ProxyAnswer, proxyVars
<1>4. summary'.status \in {"", "success", "partial", "error"}
  <2>1. Summary.status \in {"success", "partial", "error"}
    BY DEF Summary, StatusOf, DefaultStatus
  <2> QED
    BY <1>3, <2>1 DEF ProxyTyped
<1> QED
  BY <1>1, <1>2, <1>4, Zenon DEF ProxyTyped

-------------------------------------------------------------------------------
NodeTyped ==
  /\ nodeAt \in {"start", "devices", "gpu", "node", "pods", "pod", "answer", "done"}
  /\ nodeTool \in {"describe", "allocation"}
  /\ hasNvml \in BOOLEAN /\ hasCluster \in BOOLEAN /\ cutShort \in BOOLEAN
  /\ gpuCount \in LocalGPUs \cup {0} /\ nextGPU \in 0..gpuCount
  /\ scores \in Seq(0..100) /\ Len(scores) <= nextGPU
  /\ capacity \in NodeCapacities \cup {Failed}
  /\ nextPod \in 0..Len(pods) /\ Len(podGPUs) <= nextPod
  /\ nodeAnswer.status \in {"", "success", "partial", "error"}

LEMMA NodeInitTyped == NodeInit => NodeTyped
<1> SUFFICES ASSUME NodeInit PROVE NodeTyped
  OBVIOUS
<1>1. hasNvml \in BOOLEAN /\ hasCluster \in BOOLEAN /\ cutShort \in BOOLEAN
  BY Zenon DEF NodeInit
<1>2. /\ nodeAt = "start" /\ nodeTool = "describe" /\ gpuCount = 0 /\ nextGPU = 0 /\ scores = <<>>
      /\ capacity = Failed /\ pods = <<>> /\ nextPod = 0 /\ podGPUs = <<>> /\ nodeAnswer = NoAnswer
  BY Zenon DEF NodeInit
<1>3. <<>> \in Seq(0..100) /\ Len(<<>>) = 0 /\ 0 \in 0..0 /\ 0 <= 0
  OBVIOUS
<1>4. /\ nextGPU \in 0..gpuCount /\ scores \in Seq(0..100) /\ Len(scores) <= nextGPU
      /\ nextPod \in 0..Len(pods) /\ Len(podGPUs) <= nextPod
  BY <1>2, <1>3, Zenon
<1>5. /\ nodeAt \in {"start", "devices", "gpu", "node", "pods", "pod", "answer", "done"}
      /\ nodeTool \in {"describe", "allocation"} /\ gpuCount \in LocalGPUs \cup {0}
      /\ capacity \in NodeCapacities \cup {Failed}
  BY <1>2
<1>6. nodeAnswer.status \in {"", "success", "partial", "error"}
  BY <1>2, NoAnswerYet
<1> QED
  BY <1>1, <1>4, <1>5, <1>6, Zenon DEF NodeTyped

LEMMA DescribedScoreInRange ==
  ASSUME NEW t \in Nat, NEW m \in Nat, NEW u \in Nat
  PROVE  DescribedScore(t, m, u) \in 0..100
  BY DEF DescribedScore

(***************************************************************************)
(* One score per GPU at most.                                              *)
(***************************************************************************)
LEMMA ScoresTyped ==
  ASSUME NodeInv, NodeTyped, [NodeNext]_<<callVars, nodeVars>>
  PROVE  scores' \in Seq(0..100) /\ Len(scores') <= nextGPU'
<1>1. scores \in Seq(0..100) /\ Len(scores) <= nextGPU /\ nextGPU \in Nat /\ Len(scores) \in Nat
  <2>1. scores \in Seq(0..100) /\ Len(scores) <= nextGPU
    BY Zenon DEF NodeTyped
  <2>2. nextGPU \in Nat
    BY DEF NodeInv, HardwareFirst
  <2> QED
    BY <2>1, <2>2, LenProperties
<1>2. CASE DescribeGPU /\ ~ (nextGPU = gpuCount \/ ctxDone)
  <2>1. nextGPU' = nextGPU + 1
    BY <1>2 DEF DescribeGPU
  <2>2. CASE scores' = scores
    BY <1>1, <2>1, <2>2
  <2>3. CASE scores' # scores
    <3>1. PICK t \in GPUReadings.temperature \cup {0}, m \in GPUReadings.memory \cup {0},
               u \in GPUReadings.uncorrectable \cup {0} :
            scores' = Append(scores, DescribedScore(t, m, u))
      BY <1>2, <2>3 DEF DescribeGPU
    <3>2. t \in Nat /\ m \in Nat /\ u \in Nat
      BY NodeAssumption DEF NodeAssumption
    <3> DEFINE score == DescribedScore(t, m, u)
    <3>3. score \in 0..100 /\ scores' = Append(scores, score)
      BY <3>1, <3>2, DescribedScoreInRange
    <3> HIDE DEF score
    <3>4. scores' \in Seq(0..100) /\ Len(scores') = Len(scores) + 1
      BY <1>1, <3>3, AppendProperties
    <3> QED
      BY <1>1, <2>1, <3>4
  <2> QED
    BY <2>2, <2>3
<1>3. CASE ~ (DescribeGPU /\ ~ (nextGPU = gpuCount \/ ctxDone))
  <2>1. UNCHANGED <<scores, nextGPU>>
    BY <1>3, Zenon
       DEF NodeNext, NodeSteps, nodeVars, NodeStart, CountLocalGPUs, DescribeGPU, GetNode,
           ListNodePods, NextPod, NodeAnswer
  <2> QED
    BY <1>1, <2>1
<1> QED
  BY <1>2, <1>3

(***************************************************************************)
(* One number per pod of the list at most.                                 *)
(***************************************************************************)
LEMMA PodGPUsTyped ==
  ASSUME PodsInv, PodsInv', NodeTyped, [NodeNext]_<<callVars, nodeVars>>
  PROVE  Len(podGPUs') <= nextPod'
<1>1. /\ Len(podGPUs) <= nextPod /\ nextPod \in 0..Len(pods) /\ pods \in Seq(Pods)
      /\ podGPUs = GPUsOfPods(nodeTool, SubSeq(pods, 1, nextPod))
  BY DEF NodeTyped, PodsInv, PodsListed, PodsCounted
<1>2. CASE NextPod /\ nextPod # Len(pods) /\ ~ ctxDone
  <2>1. /\ nextPod' = nextPod + 1
        /\ podGPUs' = podGPUs \/ podGPUs' = Append(podGPUs, Requested(pods[nextPod + 1]))
    BY <1>2, Zenon DEF NextPod, AddPod
  <2>2. podGPUs \in Seq(Int) /\ nextPod \in Nat
    <3>1. nextPod \in 0..(Len(pods) - 1)
      BY <1>1, <1>2
    <3>2. GPUsOfPods(nodeTool, SubSeq(pods, 1, nextPod)) \in Seq(Int)
      BY <1>1, <3>1, PodsOfPrefix, Zenon
    <3> QED
      BY <1>1, <3>2
  <2>3. Requested(pods[nextPod + 1]) \in Int
    <3>1. pods[nextPod + 1] \in Pods
      <4> HIDE DEF Pods
      <4> QED
        BY <1>1, <1>2
    <3> QED
      BY <3>1, RequestedIsInt
  <2>4. Len(podGPUs) \in Nat /\ (Len(podGPUs') = Len(podGPUs) \/ Len(podGPUs') = Len(podGPUs) + 1)
    BY <2>1, <2>2, <2>3
  <2> QED
    BY <1>1, <2>1, <2>2, <2>4
<1>3. CASE ~ (NextPod /\ nextPod # Len(pods) /\ ~ ctxDone)
  <2>1. UNCHANGED <<podGPUs, nextPod>>
    BY <1>3, Zenon
       DEF NodeNext, NodeSteps, nodeVars, podVars, NodeStart, CountLocalGPUs, DescribeGPU, GetNode,
           ListNodePods, NextPod, NodeAnswer
  <2> QED
    BY <1>1, <2>1
<1> QED
  BY <1>2, <1>3

LEMMA NodeStepTyped ==
  ASSUME NodeInv, NodeInv', PodsInv, PodsInv', NodeTyped, [NodeNext]_<<callVars, nodeVars>>
  PROVE  NodeTyped'
<1> USE DEF callVars, nodeVars, podVars, Reply, ToolError
<1>1. nextGPU' \in 0..gpuCount' /\ cutShort' \in BOOLEAN /\ nextPod' \in 0..Len(pods')
  BY DEF NodeInv, HardwareFirst, PodsInv, PodsListed
<1>2. scores' \in Seq(0..100) /\ Len(scores') <= nextGPU' /\ Len(podGPUs') <= nextPod'
  BY ScoresTyped, PodGPUsTyped
<1>3. hasNvml' \in BOOLEAN /\ hasCluster' \in BOOLEAN
  <2>1. hasNvml' = hasNvml \/ hasNvml' \in BOOLEAN
    BY Zenon DEF NodeNext, NodeSteps, NodeStart, CountLocalGPUs, DescribeGPU, GetNode,
                 ListNodePods, NextPod, NodeAnswer
  <2>2. hasCluster' = hasCluster \/ hasCluster' \in BOOLEAN
    BY Zenon DEF NodeNext, NodeSteps, NodeStart, CountLocalGPUs, DescribeGPU, GetNode,
                 ListNodePods, NextPod, NodeAnswer
  <2> QED
    BY <2>1, <2>2, Zenon DEF NodeTyped
<1>4. gpuCount' \in LocalGPUs \cup {0}
  <2>1. gpuCount' = gpuCount \/ gpuCount' \in LocalGPUs
    BY DEF NodeNext, NodeSteps, NodeStart, CountLocalGPUs, DescribeGPU, GetNode,
           ListNodePods, NextPod, NodeAnswer, Outcomes, Getter
  <2> QED
    BY <2>1 DEF NodeTyped
<1>5. capacity' \in NodeCapacities \cup {Failed}
  <2>1. capacity' = capacity \/ capacity' \in NodeCapacities \cup {Failed}
    BY DEF NodeNext, NodeSteps, NodeStart, CountLocalGPUs, DescribeGPU, GetNode,
           ListNodePods, NextPod, NodeAnswer, Outcomes, Getter
  <2> QED
    BY <2>1 DEF NodeTyped
<1>6. nodeTool' \in {"describe", "allocation"}
  BY DEF NodeTyped, NodeNext, NodeSteps, NodeStart, CountLocalGPUs, DescribeGPU, GetNode,
         ListNodePods, NextPod, NodeAnswer
<1>7. nodeAt' \in {"start", "devices", "gpu", "node", "pods", "pod", "answer", "done"}
  <2>1. nodeAt' \in {nodeAt, "devices", "gpu", "node", "pods", "pod", "answer", "done"}
    BY DEF NodeNext, NodeSteps, NodeStart, CountLocalGPUs, DescribeGPU, GetNode,
           ListNodePods, NextPod, AddPod, NodeAnswer
  <2> QED
    BY <2>1 DEF NodeTyped
<1>8. nodeAnswer'.status \in {"", "success", "partial", "error"}
  <2>1. CASE nodeAnswer' = nodeAnswer
    BY <2>1 DEF NodeTyped
  <2>2. CASE ListNodePods
    BY <2>2 DEF ListNodePods, NoAnswer, NodeTyped
  <2>3. CASE NodeAnswer
    BY <2>3 DEF NodeAnswer
  <2>4. nodeAnswer' = nodeAnswer \/ ListNodePods \/ NodeAnswer
    BY Zenon DEF NodeNext, NodeSteps, NodeStart, CountLocalGPUs, DescribeGPU, GetNode, NextPod
  <2> QED
    BY <2>1, <2>2, <2>3, <2>4
<1> QED
  BY <1>1, <1>2, <1>3, <1>4, <1>5, <1>6, <1>7, <1>8, Zenon DEF NodeTyped

-------------------------------------------------------------------------------
(* The server's types.                                                     *)

ToolTyped ==
  /\ CallTypeOK /\ tool \in Registered(gateway)
  /\ HealthTyped /\ InventoryTyped /\ XidTyped /\ ProxyTyped /\ NodeTyped

LEMMA ToolInitTyped == ToolInit => ToolTyped
<1> SUFFICES ASSUME ToolInit PROVE ToolTyped
  OBVIOUS
<1>1. CallTypeOK
  BY Zenon DEF ToolInit, HealthInit, CallInit, CallTypeOK
<1>2. HealthTyped /\ InventoryTyped /\ XidTyped /\ ProxyTyped /\ NodeTyped
  BY HealthInitTyped, InventoryInitTyped, XidInitTyped, ProxyInitTyped, NodeInitTyped, Zenon
     DEF ToolInit
<1> QED
  BY <1>1, <1>2, Zenon DEF ToolInit, ToolTyped

(***************************************************************************)
(* A step of any tool leaves the context and the reply typed.              *)
(***************************************************************************)
LEMMA CallStepTyped ==
  ASSUME CallTypeOK, [ToolNext]_toolVars
  PROVE  CallTypeOK' /\ UNCHANGED <<gateway, tool>>
<1>1. UNCHANGED <<gateway, tool>>
  BY Zenon DEF ToolNext, toolVars, Health, Inventory, Xid, Proxy, Node, Agent
<1> USE DEF Reply, CancelCall, callVars
\* What one step may do to the call.
<1> DEFINE Cancels == ctxDone' = TRUE /\ reply' = reply
           Replies == ctxDone' = ctxDone /\ (reply' = reply \/ reply' = "answer" \/ reply' = "error")
<1>2. Cancels \/ Replies => CallTypeOK'
  <2> SUFFICES ASSUME Cancels \/ Replies PROVE CallTypeOK'
    OBVIOUS
  <2>1. ctxDone' \in BOOLEAN
    BY Zenon DEF CallTypeOK
  <2>2. reply' \in {"none", "answer", "error"}
    BY DEF CallTypeOK
  <2> QED
    BY <2>1, <2>2, Zenon DEF CallTypeOK
<1>3. ASSUME UNCHANGED toolVars PROVE Cancels \/ Replies
  BY <1>3, Zenon DEF toolVars
<1>4. ASSUME HealthNext PROVE Cancels \/ Replies
  <2>1. ASSUME HealthStart \/ CountGPUs \/ IdentifyGPU \/ ScoreGPU PROVE Cancels \/ Replies
    BY <2>1, Zenon DEF HealthStart, CountGPUs, IdentifyGPU, ScoreGPU
  <2>2. ASSUME NextGPU PROVE Cancels \/ Replies
    BY <2>2, Zenon DEF NextGPU, LookAtGPU, HealthAnswer
  <2>3. ASSUME \/ CheckTemperature \/ CheckMemory \/ CheckPower
               \/ CheckThrottling \/ CheckECCErrors \/ CheckPerformance
        PROVE  Cancels \/ Replies
    <3>1. \A subsystem, next, values : Check(subsystem, next, values) => Cancels \/ Replies
      BY Zenon DEF Check
    <3> HIDE DEF Cancels, Replies
    <3>2. CheckTemperature => Cancels \/ Replies
      BY <3>1 DEF CheckTemperature
    <3>3. CheckMemory => Cancels \/ Replies
      BY <3>1 DEF CheckMemory
    <3>4. CheckPower => Cancels \/ Replies
      <4> DEFINE values == {Power(p, limit) : p \in Outcomes(Readings[gpu.index].power),
                                              limit \in Outcomes(Readings[gpu.index].powerLimit)}
      <4>1. CheckPower => Check("power", "throttling", values)
        BY DEF CheckPower
      <4> HIDE DEF values
      <4> QED
        BY <3>1, <4>1
    <3>5. CheckThrottling => Cancels \/ Replies
      BY <3>1 DEF CheckThrottling
    <3>6. CheckECCErrors => Cancels \/ Replies
      BY <3>1 DEF CheckECCErrors
    <3>7. CheckPerformance => Cancels \/ Replies
      BY <3>1 DEF CheckPerformance
    <3> QED
      BY <2>3, <3>2, <3>3, <3>4, <3>5, <3>6, <3>7, Zenon
  <2>4. ASSUME CancelCall PROVE Cancels \/ Replies
    BY <2>4
  <2> QED
    BY <1>4, <2>1, <2>2, <2>3, <2>4, Zenon DEF HealthNext, HealthSteps
<1>5. ASSUME InventoryNext PROVE Cancels \/ Replies
  BY <1>5, Zenon
     DEF InventoryNext, InventorySteps, CountDevices, NextDevice, RequiredInfo, CollectDevice,
         InventoryAnswer
<1>6. ASSUME XidNext PROVE Cancels \/ Replies
  BY <1>6, Zenon
     DEF XidNext, ReadTimeout, XidHandler, XidReader, XidStart, ReadResult, CloseFile, DrainResult,
         ParseDmesg, EnrichEvent, XidAnswer, ScanRecord, ScanEnds
<1>7. ASSUME ProxyNext PROVE Cancels \/ Replies
  BY <1>7, Zenon DEF ProxyNext, ProxySteps, RouteCall, AddResult, ProxyAnswer
<1>8. ASSUME NodeNext PROVE Cancels \/ Replies
  BY <1>8, Zenon
     DEF NodeNext, NodeSteps, NodeStart, CountLocalGPUs, DescribeGPU, GetNode, ListNodePods,
         NextPod, AddPod, NodeAnswer, ToolError
<1>9. ASSUME AgentCallNext PROVE Cancels \/ Replies
  BY <1>9, Zenon
     DEF AgentCallNext, AgentCallSteps, CallAgent, StartAttempt, AttemptAnswers, AttemptFails,
         RetryOrGiveUp, Backoff, AgentExecutes
<1> QED
  BY <1>1, <1>2, <1>3, <1>4, <1>5, <1>6, <1>7, <1>8, <1>9, Zenon DEF ToolNext

(***************************************************************************)
(* The called tool keeps its types, the others their variables.            *)
(***************************************************************************)
LEMMA ToolStepTyped ==
  ToolInv /\ ToolInv' /\ ToolTyped /\ [ToolNext]_toolVars => ToolTyped'
<1> SUFFICES ASSUME ToolInv, ToolInv', ToolTyped, [ToolNext]_toolVars PROVE ToolTyped'
  OBVIOUS
<1>1. CallTypeOK' /\ UNCHANGED <<gateway, tool>> /\ (tool \in Registered(gateway))'
  <2>1. CallTypeOK' /\ UNCHANGED <<gateway, tool>>
    BY CallStepTyped DEF ToolTyped
  <2> QED
    BY <2>1, Zenon DEF ToolTyped, Registered
<1>2. HealthTyped'
  <2>1. CASE tool = "get_gpu_health"
    <3>1. HealthInv /\ HealthInv' /\ [HealthNext]_<<callVars, healthVars>>
      BY <1>1, <2>1, OneToolSteps, Zenon DEF ToolInv, HealthPart
    <3> QED
      BY <3>1, HealthStepTyped, Zenon DEF ToolTyped
  <2>2. CASE tool # "get_gpu_health"
    <3>1. UNCHANGED healthVars
      BY <2>2, OneToolSteps, Zenon
    <3> QED
      BY <3>1, Zenon DEF ToolTyped, HealthTyped, healthVars
  <2> QED
    BY <2>1, <2>2
<1>3. InventoryTyped'
  <2>1. CASE tool = "get_gpu_inventory"
    <3>1. InventoryInv /\ InventoryInv' /\ [InventoryNext]_<<callVars, inventoryVars>>
      BY <1>1, <2>1, OneToolSteps, Zenon DEF ToolInv, InventoryPart
    <3> QED
      BY <3>1, InventoryStepTyped, Zenon DEF ToolTyped
  <2>2. CASE tool # "get_gpu_inventory"
    <3>1. UNCHANGED inventoryVars
      BY <2>2, OneToolSteps, Zenon
    <3> QED
      BY <3>1, Zenon DEF ToolTyped, InventoryTyped, inventoryVars
  <2> QED
    BY <2>1, <2>2
<1>4. XidTyped'
  <2>1. CASE tool = "analyze_xid_errors"
    <3>1. XidInv /\ XidInv' /\ LogInv /\ LogInv' /\ [XidNext]_<<callVars, xidVars>>
      BY <1>1, <2>1, OneToolSteps, Zenon DEF ToolInv, XidPart
    <3> QED
      BY <3>1, XidStepTyped, Zenon DEF ToolTyped
  <2>2. CASE tool # "analyze_xid_errors"
    <3>1. UNCHANGED xidVars
      BY <2>2, OneToolSteps, Zenon
    <3> QED
      BY <3>1, Zenon DEF ToolTyped, XidTyped, xidVars, readerVars
  <2> QED
    BY <2>1, <2>2
<1>5. ProxyTyped'
  <2>1. CASE tool = "proxy"
    <3>1. ProxyInv' /\ [ProxyNext]_<<callVars, proxyVars>>
      BY <1>1, <2>1, OneToolSteps, Zenon DEF ToolInv, ProxyPart
    <3> QED
      BY <3>1, ProxyStepTyped, Zenon DEF ToolTyped
  <2>2. CASE tool # "proxy"
    <3>1. UNCHANGED proxyVars
      BY <2>2, OneToolSteps, Zenon
    <3> QED
      BY <3>1, Zenon DEF ToolTyped, ProxyTyped, proxyVars
  <2> QED
    BY <2>1, <2>2
<1>6. NodeTyped'
  <2>1. CASE tool = "node tools"
    <3>1. /\ NodeInv /\ NodeInv' /\ PodsInv /\ PodsInv'
          /\ [NodeNext]_<<callVars, nodeVars>>
      BY <1>1, <2>1, OneToolSteps, Zenon DEF ToolInv, NodePart
    <3> QED
      BY <3>1, NodeStepTyped, Zenon DEF ToolTyped
  <2>2. CASE tool # "node tools"
    <3>1. UNCHANGED nodeVars
      BY <2>2, OneToolSteps, Zenon
    <3> QED
      BY <3>1, Zenon DEF ToolTyped, NodeTyped, nodeVars, podVars
  <2> QED
    BY <2>1, <2>2
<1> QED
  BY <1>1, <1>2, <1>3, <1>4, <1>5, <1>6 DEF ToolTyped

(***************************************************************************)
(* Every variable of every tool keeps its type, whichever tool is called.  *)
(***************************************************************************)
THEOREM ToolTypesCorrect == ToolSpec => []ToolTypeOK
<1>1. ToolInv /\ ToolTyped => ToolTypeOK
  <2> SUFFICES ASSUME ToolInv, ToolTyped PROVE ToolTypeOK
    OBVIOUS
  <2>1. HealthTypeOK /\ InventoryTypeOK /\ XidTypeOK /\ ProxyTypeOK /\ NodeTypeOK
    BY Zenon DEF ToolTyped, HealthTyped, HealthTypeOK, InventoryTyped, InventoryTypeOK,
       XidTyped, XidTypeOK, ProxyTyped, ProxyTypeOK, NodeTyped, NodeTypeOK
  <2>2. AgentCallTypeOK
    <3>1. sent \subseteq 0..MaxRetries
      BY AgentCallAssumption DEF ToolInv, AgentInv, AgentPlace, AgentCallAssumption
    <3> QED
      BY <3>1, Zenon DEF ToolInv, AgentInv, AgentPlace, TimeSpent, AgentCallTypeOK, ToolTyped
  <2> QED
    BY <2>1, <2>2, Zenon DEF ToolTypeOK, ToolTyped
<1> QED
  BY <1>1, ToolInvariant, ToolInitTyped, ToolStepTyped, PTL DEF ToolSpec
===============================================================================
