---------------------------- MODULE GPUHealthProofs ----------------------------
(***************************************************************************)
(* What GPUHealth promises of an answer, for any number of GPUs, whatever  *)
(* their getters return and whenever the call is cancelled.                *)
(***************************************************************************)
EXTENDS GPUHealth, SequenceTheorems, FiniteSetTheorems, TLAPS

GPUFields == {"index", "status", "score", "issues", "temperature", "memory", "power",
              "throttling", "ecc", "performance"}

\* Each reading at its limit has the status that makes it a critical issue.
LimitsShow(g) ==
  /\ g.temperature # Unread /\ g.temperature.current >= g.temperature.max =>
       g.temperature.status = "critical"
  /\ g.memory # Unread /\ g.memory.usedPercent >= 95 => g.memory.status = "critical"
  /\ g.throttling # Unread /\ g.throttling.reasons \cap ThermalReasons # {} =>
       g.throttling.status = "severe"
  /\ g.ecc.status \notin {"unknown", "disabled"} /\ g.ecc.uncorrectable > 0 =>
       g.ecc.status = "critical"

\* A GPU that was looked at.  (Its score has a name that need not be expanded.)
ScoreOf(g) == g.score

Judged(g) ==
  /\ ScoreOf(g) \in 0..100
  /\ AtLimit(g) \/ (ScoreOf(g) < 50 /\ g.status # "unknown") => g.status = "critical"

\* s is the worst of the scores: what WorstScore chooses.
IsWorst(s, all) ==
  /\ \A i \in DOMAIN all : s <= ScoreOf(all[i])
  /\ s = 100 \/ \E i \in DOMAIN all : s = ScoreOf(all[i])

Collected(all) ==
  /\ all \in Seq({all[i] : i \in DOMAIN all})
  /\ \A i \in DOMAIN all : Judged(all[i])
  /\ \E s \in 0..100 : IsWorst(s, all)

\* A GPU of which nothing is known.
Fresh(k) == [NoGPU EXCEPT !.index = k]

\* The GPU in hand, with the counters around it.
InHand ==
  /\ count \in Nat /\ gpu.index \in 0..count
  /\ DOMAIN gpu = GPUFields
  /\ healthAt \in {"start", "count"} => gpu.index = 0
  /\ healthAt \notin {"start", "count", "next", "done"} => gpu.index < count
  /\ healthAt \in {"start", "count", "next", "identify"} => gpu = Fresh(gpu.index)
  /\ LimitsShow(gpu)

\* A cancellation costs the GPU in hand, and then the call or nothing more.
LostIsLast ==
  /\ lost # {} => ctxDone
  /\ lost \subseteq IF healthAt \in {"next", "done"} THEN {gpu.index - 1} ELSE {gpu.index}
  /\ healthAt \in {"start", "count"} => lost = {}
  /\ \A i \in DOMAIN gpus : gpus[i].status = "unknown" => gpus[i].index \in lost

\* The answer is the aggregate of the GPUs, once all are done.
AnswerIsAggregate ==
  /\ reply # "none" => healthAt = "done"
  /\ reply = "answer" => response = OverallHealth(gpus) /\ gpu.index = count

HealthInv == Collected(gpus) /\ InHand /\ LostIsLast /\ AnswerIsAggregate
-------------------------------------------------------------------------------
(***************************************************************************)
(* Append, for a sequence whose elements have no type of their own.        *)
(***************************************************************************)
LEMMA AppendAny ==
  ASSUME NEW s, s \in Seq({s[i] : i \in DOMAIN s}), NEW g
  PROVE  LET t == Append(s, g)
         IN /\ t \in Seq({t[i] : i \in DOMAIN t})
            /\ \A i \in DOMAIN s : i \in DOMAIN t /\ t[i] = s[i]
            /\ \E i \in DOMAIN t : t[i] = g
            /\ \A i \in DOMAIN t : (i \in DOMAIN s /\ t[i] = s[i]) \/ t[i] = g
<1> DEFINE E == {s[i] : i \in DOMAIN s} \cup {g}
           t == Append(s, g)
<1>1. s \in Seq(E)
  BY SeqMonotonic
<1>2. /\ Len(s) \in Nat /\ DOMAIN s = 1..Len(s)
  BY LenProperties
<1>3. /\ t \in Seq(E) /\ Len(t) = Len(s) + 1
      /\ \A i \in 1..Len(s) : t[i] = s[i]
      /\ t[Len(s) + 1] = g
  BY <1>1, AppendProperties
<1>4. DOMAIN t = 1..(Len(s) + 1) /\ t \in [1..Len(t) -> E]
  BY <1>3, LenProperties
<1>5. t \in [1..Len(t) -> {t[i] : i \in DOMAIN t}]
  BY <1>3, <1>4
<1>6. t \in Seq({t[i] : i \in DOMAIN t})
  BY <1>2, <1>3, <1>5, SeqDef
<1>7. Len(s) + 1 \in DOMAIN t
  BY <1>2, <1>4
<1>8. \A i \in DOMAIN t : i \in DOMAIN s \/ i = Len(s) + 1
  BY <1>2, <1>4
<1>9. DOMAIN s \subseteq DOMAIN t
  BY <1>2, <1>4
<1> HIDE DEF t
<1>10. /\ \A i \in DOMAIN s : i \in DOMAIN t /\ t[i] = s[i]
       /\ \E i \in DOMAIN t : t[i] = g
       /\ \A i \in DOMAIN t : (i \in DOMAIN s /\ t[i] = s[i]) \/ t[i] = g
  BY <1>2, <1>3, <1>7, <1>8, <1>9, Zenon
<1> QED
  BY <1>6, <1>10 DEF t

(***************************************************************************)
(* One more GPU: the worst score is still somebody's.                      *)
(***************************************************************************)
LEMMA CollectedGrows ==
  ASSUME NEW all, Collected(all), NEW g, Judged(g)
  PROVE  Collected(Append(all, g))
<1> DEFINE t == Append(all, g)
<1>1. all \in Seq({all[i] : i \in DOMAIN all})
  BY DEF Collected
<1>2. /\ t \in Seq({t[i] : i \in DOMAIN t})
      /\ \A i \in DOMAIN all : i \in DOMAIN t /\ t[i] = all[i]
      /\ \E i \in DOMAIN t : t[i] = g
      /\ \A i \in DOMAIN t : (i \in DOMAIN all /\ t[i] = all[i]) \/ t[i] = g
  BY <1>1, AppendAny, Zenon
<1> HIDE DEF t
<1>3. \A i \in DOMAIN t : Judged(t[i])
  BY <1>2 DEF Collected
<1>4. PICK s \in 0..100 : IsWorst(s, all)
  BY DEF Collected
<1>5. ScoreOf(g) \in 0..100 /\ \A i \in DOMAIN all : ScoreOf(all[i]) \in 0..100
  BY DEF Collected, Judged
<1>6. \E w \in 0..100 : IsWorst(w, t)
  <2>1. CASE ScoreOf(g) < s
    <3>1. \A i \in DOMAIN all : ScoreOf(g) <= ScoreOf(all[i])
      BY <1>4, <1>5, <2>1 DEF IsWorst
    <3>2. ScoreOf(g) <= ScoreOf(g)
      BY <1>5
    <3>3. IsWorst(ScoreOf(g), t)
      BY <1>2, <3>1, <3>2, Zenon DEF IsWorst
    <3> QED
      BY <1>5, <3>3
  <2>2. CASE ~ (ScoreOf(g) < s)
    <3>1. s <= ScoreOf(g)
      BY <1>5, <2>2
    <3>2. IsWorst(s, t)
      BY <1>2, <1>4, <3>1, Zenon DEF IsWorst
    <3> QED
      BY <3>2
  <2> QED
    BY <2>1, <2>2
<1> QED
  BY <1>2, <1>3, <1>6 DEF Collected, t

(***************************************************************************)
(* What the aggregate makes of the GPUs: one that is critical is counted,  *)
(* and no score is below the node's.                                       *)
(***************************************************************************)
LEMMA AggregateFollows ==
  ASSUME NEW all, Collected(all), NEW i \in DOMAIN all
  PROVE  /\ all[i].status = "critical" =>
              /\ OverallHealth(all).status = "critical"
              /\ OverallHealth(all).advice = "critical"
         /\ OverallHealth(all).score <= all[i].score
<1>1. DOMAIN all = 1..Len(all) /\ Len(all) \in Nat
  BY LenProperties DEF Collected
<1>2. all # <<>>
  BY <1>1
<1>3. ASSUME all[i].status = "critical" PROVE HowMany(all, "critical") > 0
  <2> DEFINE C == {k \in DOMAIN all : all[k].status = "critical"}
  <2>1. IsFiniteSet(DOMAIN all)
    BY <1>1, FS_Interval
  <2>2. IsFiniteSet(C) /\ C # {}
    BY <1>3, <2>1, FS_Subset
  <2>3. Cardinality(C) \in Nat /\ Cardinality(C) # 0
    BY <2>2, FS_CardinalityType, FS_EmptySet
  <2> QED
    BY <2>3 DEF HowMany
<1>4. IsWorst(WorstScore(all), all)
  <2>1. \E s \in 0..100 : IsWorst(s, all)
    BY DEF Collected
  <2> QED
    BY <2>1 DEF WorstScore, IsWorst, ScoreOf
<1> QED
  BY <1>2, <1>3, <1>4 DEF OverallHealth, IsWorst, ScoreOf

(***************************************************************************)
(* A score is a percentage, and below 50 the status is critical.           *)
(***************************************************************************)
LEMMA ScoreInRange == \A g : HealthScore(g) \in 0..100
<1> SUFFICES ASSUME NEW g PROVE HealthScore(g) \in 0..100
  OBVIOUS
<1> DEFINE d == Deductions(g)
<1>1. /\ d.temperature \in 0..30 /\ d.memory \in 0..20 /\ d.power \in 0..15
      /\ d.throttling \in 0..25 /\ d.ecc \in 0..30
  BY DEF Deductions
<1> HIDE DEF d
<1>2. LET score == 100 - d.temperature - d.memory - d.power - d.throttling - d.ecc
      IN (IF score < 0 THEN 0 ELSE score) \in 0..100
  BY <1>1
<1> QED
  BY <1>2 DEF HealthScore, d

LEMMA StatusOfScore ==
  \A score \in 0..100 : \A issues :
    /\ DetermineStatus(score, issues) # "unknown"
    /\ issues # {} \/ score < 50 => DetermineStatus(score, issues) = "critical"
  BY DEF DetermineStatus
-------------------------------------------------------------------------------
(***************************************************************************)
(* Of the next GPU nothing is known, and nothing is at its limit.          *)
(***************************************************************************)
LEMMA FreshGPU ==
  /\ NoGPU.index = 0 /\ NoGPU = Fresh(0)
  /\ \A k : /\ Fresh(k).index = k /\ DOMAIN Fresh(k) = GPUFields /\ LimitsShow(Fresh(k))
           /\ ~ AtLimit(Fresh(k)) /\ Fresh(k).score = 0
<1>1. ASSUME NEW g, g.temperature = Unread, g.memory = Unread,
             g.throttling = Unread, g.ecc = Unread
      PROVE  LimitsShow(g) /\ ~ AtLimit(g)
  <2>1. g.ecc.status = "unknown"
    <3>1. Unread.status = "unknown"
      BY DEF Unread
    <3> QED
      BY <1>1, <3>1
  <2>2. g.ecc.status \in {"unknown", "disabled"}
    BY <2>1
  <2> QED
    BY <1>1, <2>2, Zenon DEF LimitsShow, AtLimit
<1>2. /\ NoGPU.index = 0 /\ DOMAIN NoGPU = GPUFields /\ NoGPU.score = 0
      /\ NoGPU.temperature = Unread /\ NoGPU.memory = Unread
      /\ NoGPU.throttling = Unread /\ NoGPU.ecc = Unread
  BY DEF NoGPU, GPUFields
<1>3. NoGPU = Fresh(0)
  <2>1. NoGPU = [f \in GPUFields |-> NoGPU[f]]
    BY DEF NoGPU, GPUFields
  <2> QED
    BY <1>2, <2>1 DEF Fresh, GPUFields
<1>4. ASSUME NEW k
      PROVE  /\ Fresh(k).index = k /\ DOMAIN Fresh(k) = GPUFields /\ Fresh(k).score = 0
             /\ Fresh(k).temperature = Unread /\ Fresh(k).memory = Unread
             /\ Fresh(k).throttling = Unread /\ Fresh(k).ecc = Unread
  <2>1. /\ Fresh(k).index = k /\ DOMAIN Fresh(k) = GPUFields
        /\ \A f \in GPUFields \ {"index"} : Fresh(k)[f] = NoGPU[f]
    BY <1>2 DEF GPUFields, Fresh
  <2> QED
    BY <1>2, <2>1 DEF GPUFields
<1>5. \A k : LimitsShow(Fresh(k)) /\ ~ AtLimit(Fresh(k))
  BY <1>1, <1>4
<1> QED
  BY <1>2, <1>3, <1>4, <1>5, Zenon

(***************************************************************************)
(* A call starts in the invariant.                                         *)
(***************************************************************************)
LEMMA HealthInitInv == HealthInit => HealthInv
<1> SUFFICES ASSUME HealthInit PROVE HealthInv
  OBVIOUS
<1> USE DEF HealthInit, CallInit
<1>1. Collected(gpus)
  <2>1. gpus = <<>> /\ DOMAIN gpus = {}
    OBVIOUS
  <2>2. gpus \in Seq({gpus[i] : i \in DOMAIN gpus})
    BY <2>1, EmptySeq
  <2>3. IsWorst(100, gpus)
    BY <2>1 DEF IsWorst
  <2> QED
    BY <2>1, <2>2, <2>3 DEF Collected
<1>2. InHand
  BY FreshGPU, HealthAssumption DEF InHand
<1>3. LostIsLast /\ AnswerIsAggregate
  BY DEF LostIsLast, AnswerIsAggregate
<1> QED
  BY <1>1, <1>2, <1>3 DEF HealthInv

(***************************************************************************)
(* The end of a GPU, for whatever reason.                                  *)
(***************************************************************************)
LEMMA CollectInv ==
  ASSUME HealthInv, NEW g, Judged(g), Collect(g), gpu.index < count,
         lost' \in SUBSET {gpu.index}, lost' # {} => ctxDone,
         g.status = "unknown" => g.index \in lost', lost \subseteq lost',
         reply = "none", UNCHANGED <<callVars, count, response>>
  PROVE  HealthInv'
<1> USE DEF HealthInv, Collect, callVars
<1>1. Collected(gpus)'
  BY CollectedGrows
<1>2. /\ gpu'.index = gpu.index + 1 /\ gpu'.index - 1 = gpu.index
      /\ gpu'.index \in 0..count /\ DOMAIN gpu' = GPUFields /\ LimitsShow(gpu')
      /\ gpu' = Fresh(gpu'.index)
  <2>1. gpu' = Fresh(gpu.index + 1)
    BY DEF Fresh
  <2>2. gpu'.index = gpu.index + 1 /\ DOMAIN gpu' = GPUFields /\ LimitsShow(gpu')
    BY <2>1, FreshGPU
  <2> QED
    BY <2>1, <2>2 DEF InHand
<1>5. InHand'
  BY <1>2 DEF InHand, LimitsShow
<1>3. LostIsLast'
  <2>1. gpus \in Seq({gpus[i] : i \in DOMAIN gpus})
    BY DEF Collected
  <2> DEFINE t == Append(gpus, g)
  <2>2. \A i \in DOMAIN t : (i \in DOMAIN gpus /\ t[i] = gpus[i]) \/ t[i] = g
    BY <2>1, AppendAny, Zenon
  <2>3. gpus' = t
    OBVIOUS
  <2> HIDE DEF t
  <2>4. \A i \in DOMAIN t : t[i].status = "unknown" => t[i].index \in lost'
    BY <2>2, Zenon DEF LostIsLast
  <2> QED
    BY <1>2, <2>3, <2>4 DEF LostIsLast
<1>4. AnswerIsAggregate'
  BY DEF AnswerIsAggregate
<1> QED
  BY <1>1, <1>3, <1>4, <1>5

(***************************************************************************)
(* Reading a subsystem changes that subsystem of the GPU in hand.          *)
(***************************************************************************)
LEMMA CheckInv ==
  ASSUME HealthInv, NEW values,
         NEW subsystem \in {"temperature", "memory", "power", "throttling", "ecc", "performance"},
         NEW next \in {"memory", "power", "throttling", "ecc", "performance", "score"},
         Check(subsystem, next, values),
         \A v \in values : LimitsShow([gpu EXCEPT ![subsystem] = v])
  PROVE  HealthInv'
<1> USE DEF HealthInv, Check, callVars
<1>1. PICK v \in values : gpu' = [gpu EXCEPT ![subsystem] = v]
  OBVIOUS
<1>2. gpu'.index = gpu.index /\ DOMAIN gpu' = GPUFields
  BY <1>1 DEF InHand, GPUFields
<1>3. Collected(gpus)'
  BY DEF Collected
<1>4. InHand'
  BY <1>1, <1>2 DEF InHand
<1>5. LostIsLast'
  BY <1>2 DEF LostIsLast
<1>6. AnswerIsAggregate'
  BY DEF AnswerIsAggregate
<1> QED
  BY <1>3, <1>4, <1>5, <1>6

LEMMA ChecksInv ==
  ASSUME HealthInv,
         \/ CheckTemperature \/ CheckMemory \/ CheckPower
         \/ CheckThrottling \/ CheckECCErrors \/ CheckPerformance
  PROVE  HealthInv'
<1> USE DEF HealthInv, InHand, GPUFields
<1>1. CASE CheckTemperature
  <2>1. \A t, slow, shut :
          LimitsShow([gpu EXCEPT !["temperature"] = Temperature(t, slow, shut)])
    BY DEF LimitsShow, Temperature, Unread
  <2> QED
    BY <1>1, <2>1, CheckInv DEF CheckTemperature
<1>2. CASE CheckMemory
  <2>1. \A m : LimitsShow([gpu EXCEPT !["memory"] = Memory(m)])
    BY DEF LimitsShow, Memory, Unread
  <2> QED
    BY <1>2, <2>1, CheckInv DEF CheckMemory
<1>3. CASE CheckPower
  <2>1. \A p : LimitsShow([gpu EXCEPT !["power"] = p])
    BY DEF LimitsShow
  <2> DEFINE values == {Power(p, limit) : p \in Outcomes(Readings[gpu.index].power),
                                          limit \in Outcomes(Readings[gpu.index].powerLimit)}
  <2>2. Check("power", "throttling", values)
    BY <1>3 DEF CheckPower
  <2> HIDE DEF values
  <2> QED
    BY <2>1, <2>2, CheckInv
<1>4. CASE CheckThrottling
  <2>1. \A reasons : LimitsShow([gpu EXCEPT !["throttling"] = Throttling(reasons)])
    BY DEF LimitsShow, Throttling, Unread
  <2> QED
    BY <1>4, <2>1, CheckInv DEF CheckThrottling
<1>5. CASE CheckECCErrors
  <2>1. \A m, c, u : LimitsShow([gpu EXCEPT !["ecc"] = ECC(m, c, u)])
    BY DEF LimitsShow, ECC, Counted, Failed, Unread
  <2> QED
    BY <1>5, <2>1, CheckInv DEF CheckECCErrors
<1>6. CASE CheckPerformance
  <2>1. \A p : LimitsShow([gpu EXCEPT !["performance"] = p])
    BY DEF LimitsShow
  <2> QED
    BY <1>6, <2>1, CheckInv DEF CheckPerformance
<1> QED
  BY <1>1, <1>2, <1>3, <1>4, <1>5, <1>6

(***************************************************************************)
(* A GPU that was scored is judged by what was read.                       *)
(***************************************************************************)
LEMMA ScoredIsJudged ==
  ASSUME NEW g, DOMAIN g = GPUFields, LimitsShow(g)
  PROVE  LET h == [g EXCEPT !.score = HealthScore(g), !.issues = CriticalIssues(g),
                            !.status = DetermineStatus(HealthScore(g), CriticalIssues(g))]
         IN Judged(h) /\ h.status # "unknown"
<1> DEFINE score == HealthScore(g)
           issues == CriticalIssues(g)
           h == [g EXCEPT !.score = score, !.issues = issues,
                          !.status = DetermineStatus(score, issues)]
<1>1. score \in 0..100
  BY ScoreInRange
<1>2. AtLimit(g) => issues # {}
  BY DEF AtLimit, LimitsShow, CriticalIssues
<1> HIDE DEF score, issues
<1>3. /\ h.score = score /\ h.status = DetermineStatus(score, issues)
      /\ h.temperature = g.temperature /\ h.memory = g.memory
      /\ h.throttling = g.throttling /\ h.ecc = g.ecc
  BY DEF GPUFields
<1> HIDE DEF h
<1>4. AtLimit(h) <=> AtLimit(g)
  BY <1>3, Zenon DEF AtLimit
<1>5. /\ h.status # "unknown"
      /\ AtLimit(h) \/ score < 50 => h.status = "critical"
  BY <1>1, <1>2, <1>3, <1>4, StatusOfScore
<1>6. ScoreOf(h) = score
  BY <1>3 DEF ScoreOf
<1>7. Judged(h)
  BY <1>1, <1>5, <1>6 DEF Judged
<1> QED
  BY <1>5, <1>7 DEF h, score, issues

(***************************************************************************)
(* Every other step of the handler.                                        *)
(***************************************************************************)
LEMMA ScoreInv == ASSUME HealthInv, ScoreGPU PROVE HealthInv'
<1> DEFINE g == [gpu EXCEPT !.score = HealthScore(gpu), !.issues = CriticalIssues(gpu),
                            !.status = DetermineStatus(HealthScore(gpu), CriticalIssues(gpu))]
<1>1. Judged(g) /\ g.status # "unknown"
  BY ScoredIsJudged DEF HealthInv, InHand
<1>2. /\ Collect(g) /\ gpu.index < count /\ reply = "none"
      /\ lost' = lost /\ lost' \in SUBSET {gpu.index} /\ (lost' # {} => ctxDone)
      /\ UNCHANGED <<callVars, count, response>>
  BY DEF ScoreGPU, HealthInv, InHand, LostIsLast, AnswerIsAggregate
<1> HIDE DEF g
<1> QED
  BY <1>1, <1>2, CollectInv

LEMMA IdentifyInv == ASSUME HealthInv, IdentifyGPU PROVE HealthInv'
<1>1. /\ healthAt = "identify" /\ gpu.index < count /\ reply = "none"
      /\ lost \subseteq {gpu.index} /\ gpu = Fresh(gpu.index) /\ DOMAIN gpu = GPUFields
  BY DEF IdentifyGPU, HealthInv, InHand, LostIsLast, AnswerIsAggregate
<1>2. CASE ctxDone
  <2> DEFINE g == [gpu EXCEPT !.status = "unknown"]
  <2>1. /\ g.status = "unknown" /\ g.index = gpu.index /\ g.score = gpu.score
        /\ g.temperature = gpu.temperature /\ g.memory = gpu.memory
        /\ g.throttling = gpu.throttling /\ g.ecc = gpu.ecc
    BY <1>1 DEF GPUFields
  <2>2. Collect(g) /\ lost' = lost \cup {gpu.index} /\ UNCHANGED <<callVars, count, response>>
    BY <1>2 DEF IdentifyGPU
  <2> HIDE DEF g
  <2>3. ~ AtLimit(gpu) /\ gpu.score = 0
    BY <1>1, FreshGPU, Zenon
  <2>4. ~ AtLimit(g) /\ g.score = 0
    BY <2>1, <2>3, Zenon DEF AtLimit
  <2>5. Judged(g)
    BY <2>1, <2>4 DEF Judged, ScoreOf
  <2> QED
    BY <1>1, <1>2, <2>1, <2>2, <2>5, CollectInv
<1>3. CASE ~ ctxDone
  BY <1>1, <1>3 DEF IdentifyGPU, HealthInv, InHand, LostIsLast, AnswerIsAggregate, callVars
<1> QED
  BY <1>2, <1>3

LEMMA NextInv == ASSUME HealthInv, NextGPU PROVE HealthInv'
<1> USE DEF HealthInv
<1>1. CASE gpu.index < count /\ ctxDone
  BY <1>1 DEF NextGPU, Reply, InHand, LostIsLast, AnswerIsAggregate
<1>2. CASE ~ (gpu.index < count /\ ctxDone) /\ LookAtGPU
  <2>1. ~ ctxDone /\ gpu.index < count /\ lost = {} /\ healthAt = "next" /\ reply = "none"
    BY <1>2 DEF NextGPU, LookAtGPU, LostIsLast, AnswerIsAggregate
  <2>2. CASE healthAt' = "identify" /\ UNCHANGED <<gpu, lost>>
    BY <1>2, <2>1, <2>2 DEF LookAtGPU, InHand, LostIsLast, AnswerIsAggregate, callVars
  <2>3. CASE gpu' = [gpu EXCEPT !.index = @ + 1] /\ lost' = {} /\ UNCHANGED healthAt
    <3>1. gpu' = Fresh(gpu.index + 1)
      <4>1. gpu = Fresh(gpu.index)
        BY <2>1 DEF InHand
      <4>2. \A k, l : [Fresh(k) EXCEPT !.index = l] = Fresh(l)
        BY DEF Fresh, NoGPU
      <4> QED
        BY <2>3, <4>1, <4>2
    <3>2. /\ gpu'.index = gpu.index + 1 /\ DOMAIN gpu' = GPUFields /\ LimitsShow(gpu')
      BY <3>1, FreshGPU
    <3> QED
      BY <1>2, <2>1, <2>3, <3>1, <3>2
         DEF LookAtGPU, InHand, LimitsShow, LostIsLast, AnswerIsAggregate, callVars
  <2> QED
    BY <1>2, <2>1, <2>2, <2>3 DEF LookAtGPU
<1>3. CASE HealthAnswer
  BY <1>3 DEF HealthAnswer, NextGPU, Reply, InHand, LostIsLast, AnswerIsAggregate
<1> QED
  BY <1>1, <1>2, <1>3 DEF NextGPU

LEMMA StartAndCountInv == ASSUME HealthInv, HealthStart \/ CountGPUs PROVE HealthInv'
<1> USE DEF HealthInv
<1>1. CASE HealthStart
  BY <1>1 DEF HealthStart, Reply, callVars, InHand, LostIsLast, AnswerIsAggregate
<1>2. CASE CountGPUs
  BY <1>2, HealthAssumption
     DEF CountGPUs, Outcomes, Getter, Failed, Reply, callVars, InHand, LostIsLast, AnswerIsAggregate
<1> QED
  BY <1>1, <1>2

LEMMA HealthStepInv == HealthInv /\ [HealthNext]_<<callVars, healthVars>> => HealthInv'
<1> SUFFICES ASSUME HealthInv, [HealthNext]_<<callVars, healthVars>> PROVE HealthInv'
  OBVIOUS
<1>1. CASE CancelCall /\ UNCHANGED healthVars
  BY <1>1 DEF CancelCall, healthVars, HealthInv, Collected, InHand, LostIsLast, AnswerIsAggregate
<1>2. CASE HealthSteps
  BY <1>2, StartAndCountInv, NextInv, IdentifyInv, ChecksInv, ScoreInv DEF HealthSteps
<1>3. CASE UNCHANGED <<callVars, healthVars>>
  BY <1>3 DEF callVars, healthVars, HealthInv, Collected, InHand, LostIsLast, AnswerIsAggregate
<1> QED
  BY <1>1, <1>2, <1>3 DEF HealthNext

-------------------------------------------------------------------------------
(***************************************************************************)
(* What the invariant says of an answer.                                   *)
(***************************************************************************)
LEMMA HealthAnswers == HealthInv => WorstGPUDecides /\ CancelledAnswerLacksOnlyLastGPU
<1> SUFFICES ASSUME HealthInv, reply = "answer"
             PROVE  WorstGPUDecides /\ CancelledAnswerLacksOnlyLastGPU
  BY DEF WorstGPUDecides, CancelledAnswerLacksOnlyLastGPU
<1>1. response = OverallHealth(gpus) /\ gpu.index = count /\ healthAt = "done"
  BY DEF HealthInv, AnswerIsAggregate
<1>2. ASSUME NEW i \in DOMAIN gpus
      PROVE  /\ AtLimit(gpus[i]) \/ (gpus[i].score < 50 /\ gpus[i].status # "unknown") =>
                  response.status = "critical" /\ response.advice = "critical"
             /\ response.score <= gpus[i].score
  <2>1. Judged(gpus[i])
    BY DEF HealthInv, Collected
  <2>2. /\ gpus[i].status = "critical" =>
             response.status = "critical" /\ response.advice = "critical"
        /\ response.score <= gpus[i].score
    BY <1>1, AggregateFollows DEF HealthInv
  <2> QED
    BY <2>1, <2>2, Zenon DEF Judged, ScoreOf
<1>3. /\ lost \subseteq {count - 1}
      /\ \A i \in DOMAIN gpus : gpus[i].status = "unknown" => gpus[i].index \in lost
  BY <1>1 DEF HealthInv, LostIsLast
<1> QED
  BY <1>2, <1>3, Zenon DEF WorstGPUDecides, CancelledAnswerLacksOnlyLastGPU

(***************************************************************************)
(* A call of get_gpu_health keeps the inductive invariant.                 *)
(***************************************************************************)
THEOREM HealthInvariant == HealthSpec => []HealthInv
  BY HealthInitInv, HealthStepInv, PTL DEF HealthSpec

(***************************************************************************)
(* One GPU at a limit, or with less than 50 points, makes the node         *)
(* critical, and the node's score is that of its worst GPU.                *)
(***************************************************************************)
THEOREM WorstDecides == HealthSpec => []WorstGPUDecides
  BY HealthInvariant, HealthAnswers, PTL

(***************************************************************************)
(* A cancelled call answers only if nothing but its last GPU is missing.   *)
(***************************************************************************)
THEOREM CancelledHealthIsAlmostComplete == HealthSpec => []CancelledAnswerLacksOnlyLastGPU
  BY HealthInvariant, HealthAnswers, PTL
===============================================================================
