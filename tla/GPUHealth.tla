------------------------------- MODULE GPUHealth -------------------------------
(***************************************************************************)
(* get_gpu_health: pkg/tools/gpu_health.go.  One action per subsystem that *)
(* is read, so that the context may be cancelled, and any getter fail,     *)
(* between any two of them.                                                *)
(*                                                                         *)
(* Numbers are compared as in the code; a percentage is a comparison of    *)
(* products.  Names, messages, suggestions, clocks and margins decide      *)
(* nothing and are left out.                                               *)
(***************************************************************************)
EXTENDS ToolCall, Sequences, FiniteSets

CONSTANTS
  DeviceCounts,  \* what GetDeviceCount may say
  Readings,      \* Readings[i][getter]: what the getters of GPU i may return
  Word           \* 2^32, or a smaller modulus above all temperatures

ASSUME HealthAssumption == DeviceCounts \subseteq Nat

VARIABLES
  healthAt,      \* the next thing the handler does
  count,         \* the number of devices NVML reported
  gpu,           \* the GPU being looked at
  gpus,          \* the GPUs looked at
  lost,          \* history: indices cut short by the cancelled context
  response       \* the aggregate

healthVars == <<healthAt, count, gpu, gpus, lost, response>>

Unread == [status |-> "unknown"]

NoGPU == [index |-> 0, status |-> "", score |-> 0, issues |-> {},
          temperature |-> Unread, memory |-> Unread, power |-> Unread,
          throttling |-> Unread, ecc |-> Unread, performance |-> Unread]

NoResponse == [status |-> "", score |-> 0, critical |-> 0, degraded |-> 0,
               warning |-> 0, healthy |-> 0, advice |-> ""]

HealthInit ==
  /\ CallInit
  /\ healthAt = "start" /\ count = 0 /\ gpu = NoGPU /\ gpus = <<>>
  /\ lost = {} /\ response = NoResponse

-------------------------------------------------------------------------------
(* The six subsystems.                                                     *)

(* threshold - tempElevatedMargin is unsigned in the code and wraps. *)
Temperature(temp, slowdown, shutdown) ==
  LET threshold == IF slowdown > 0 THEN slowdown ELSE 82
      max == IF shutdown > 0 THEN shutdown ELSE 90
  IN IF temp = Failed THEN Unread
     ELSE [current |-> temp, threshold |-> threshold, max |-> max,
           status |-> IF temp >= max THEN "critical"
                      ELSE IF temp >= threshold THEN "high"
                      ELSE IF temp >= (threshold - 10) % Word THEN "elevated"
                      ELSE "normal"]

AtLeastPercent(part, whole, percent) == 100 * part >= percent * whole

(* usedPercent is 0 when the total is. *)
Memory(usedPercent) ==
  IF usedPercent = Failed THEN Unread
  ELSE [usedPercent |-> usedPercent,
        status |-> IF usedPercent >= 95 THEN "critical"
                   ELSE IF usedPercent >= 90 THEN "high"
                   ELSE IF usedPercent >= 80 THEN "elevated"
                   ELSE "normal"]

Power(used, realLimit) ==
  LET limit == IF realLimit > 0 THEN realLimit ELSE 70000
  IN IF used = Failed THEN Unread
     ELSE [current |-> used, limit |-> limit,
           status |-> IF used > limit THEN "over_limit"
                      ELSE IF AtLeastPercent(used, limit, 95) THEN "high"
                      ELSE IF AtLeastPercent(used, limit, 80) THEN "elevated"
                      ELSE "normal"]

ThermalReasons == {"hw_thermal", "sw_thermal"}
NamedReasons == ThermalReasons \cup
  {"hw_slowdown", "power_cap", "power_brake", "app_clocks", "sync_boost"}

NoReasons == {"failed"}

(* reasons is the bit mask; a bit the code has no name for still counts as
   active, but is not one of the reasons it lists. *)
Throttling(reasons) ==
  LET active == reasons \ {"idle"}
      named == active \cap NamedReasons
  IN IF reasons = NoReasons THEN Unread
     ELSE [reasons |-> named,
      status |-> IF active = {} THEN "none"
                 ELSE IF active \cap ThermalReasons # {} \/ Cardinality(named) >= 2
                 THEN "severe" ELSE "minor"]

(* A count that cannot be read is a count of 0. *)
Counted(errors) == IF errors = Failed THEN 0 ELSE errors

ECC(mode, correctable, uncorrectable) ==
  IF mode = Failed THEN Unread
  ELSE IF mode = 0 THEN [status |-> "disabled"]
  ELSE [correctable |-> Counted(correctable), uncorrectable |-> Counted(uncorrectable),
        status |-> IF uncorrectable > 0 THEN "critical"
                   ELSE IF correctable > 1000 THEN "warning"
                   ELSE IF correctable > 0 THEN "degraded"
                   ELSE "healthy"]

Performance(util) ==
  IF util = Failed THEN Unread
  ELSE [status |-> IF util >= 95 THEN "saturated"
                   ELSE IF util >= 50 THEN "active" ELSE "idle"]

-------------------------------------------------------------------------------
(* Scores and statuses.                                                    *)

(* What each subsystem takes off the score of 100; a status that is not
   listed, "unknown" among them, takes nothing. *)
Deductions(g) ==
  [temperature |-> CASE g.temperature.status = "critical" -> 30
                     [] g.temperature.status = "high" -> 20
                     [] g.temperature.status = "elevated" -> 10
                     [] OTHER -> 0,
   memory |-> CASE g.memory.status = "critical" -> 20
                [] g.memory.status = "high" -> 10
                [] OTHER -> 0,
   power |-> CASE g.power.status = "over_limit" -> 15
               [] g.power.status = "high" -> 10
               [] OTHER -> 0,
   throttling |-> CASE g.throttling.status = "severe" -> 25
                    [] g.throttling.status = "minor" -> 10
                    [] OTHER -> 0,
   ecc |-> CASE g.ecc.status = "critical" -> 30
             [] g.ecc.status = "warning" -> 10
             [] OTHER -> 0]

(* Mutant of HealthScore: a score may be negative. *)
ScoreWithoutFloor(g) ==
  LET d == Deductions(g)
  IN 100 - d.temperature - d.memory - d.power - d.throttling - d.ecc

HealthScore(g) ==
  LET d == Deductions(g)
      score == 100 - d.temperature - d.memory - d.power - d.throttling - d.ecc
  IN IF score < 0 THEN 0 ELSE score

(* The components with an issue of severity critical. *)
CriticalIssues(g) ==
  {c \in {"temperature", "memory", "ecc"} : g[c].status = "critical"}
  \cup {c \in {"throttling"} : g[c].status = "severe"}

(* Mutant of DetermineStatus: the score alone decides. *)
ScoreDecides(score, issues) ==
  IF score >= 90 THEN "healthy"
  ELSE IF score >= 70 THEN "warning"
  ELSE IF score >= 50 THEN "degraded"
  ELSE "critical"

DetermineStatus(score, issues) ==
  IF issues # {} THEN "critical"
  ELSE IF score >= 90 THEN "healthy"
  ELSE IF score >= 70 THEN "warning"
  ELSE IF score >= 50 THEN "degraded"
  ELSE "critical"

HowMany(collected, status) ==
  Cardinality({i \in DOMAIN collected : collected[i].status = status})

WorstScore(collected) ==
  CHOOSE s \in 0..100 :
    /\ \A i \in DOMAIN collected : s <= collected[i].score
    /\ s = 100 \/ \E i \in DOMAIN collected : s = collected[i].score

(* calculateOverallHealth and the choice of generateRecommendation. *)
OverallHealth(collected) ==
  LET critical == HowMany(collected, "critical")
      degraded == HowMany(collected, "degraded")
      warning == HowMany(collected, "warning")
      worst == IF critical > 0 THEN "critical"
               ELSE IF degraded > 0 THEN "degraded"
               ELSE IF warning > 0 THEN "warning" ELSE "healthy"
      none == collected = <<>>
  IN [status |-> IF none THEN "unknown" ELSE worst,
      score |-> IF none THEN 0 ELSE WorstScore(collected),
      critical |-> critical, degraded |-> degraded, warning |-> warning,
      healthy |-> HowMany(collected, "healthy"),
      advice |-> IF none THEN "verify driver" ELSE worst]

-------------------------------------------------------------------------------
(* The handler.                                                            *)

HealthStart ==
  /\ healthAt = "start"
  /\ IF ctxDone
     THEN /\ Reply("error") /\ healthAt' = "done" /\ UNCHANGED count
     ELSE /\ healthAt' = "count" /\ UNCHANGED <<callVars, count>>
  /\ UNCHANGED <<gpu, gpus, lost, response>>

CountGPUs ==
  /\ healthAt = "count"
  /\ \E n \in Outcomes(DeviceCounts) :
       IF n = Failed
       THEN Reply("error") /\ healthAt' = "done" /\ UNCHANGED count
       ELSE healthAt' = "next" /\ count' = n /\ UNCHANGED callVars
  /\ UNCHANGED <<gpu, gpus, lost, response>>

(* A GPU is left: its handle, its name, UUID and bus, of which any may be
   missing, and the second look at the context. *)
LookAtGPU ==
  /\ gpu.index < count
  /\ \E handle \in Outcomes({gpu.index}) :
       IF handle = Failed
       THEN /\ gpu' = [gpu EXCEPT !.index = @ + 1]
            /\ lost' = IF ctxDone THEN lost \cup {gpu.index} ELSE lost
            /\ UNCHANGED healthAt
       ELSE healthAt' = "identify" /\ UNCHANGED <<gpu, lost>>
  /\ UNCHANGED <<callVars, count, gpus, response>>

(* All GPUs are done. *)
HealthAnswer ==
  /\ gpu.index >= count
  /\ response' = OverallHealth(gpus)
  /\ Reply("answer") /\ healthAt' = "done"
  /\ UNCHANGED <<count, gpu, gpus, lost>>

(* Mutant of NextGPU: no look at the context between two GPUs. *)
NextGPURegardless ==
  /\ healthAt = "next"
  /\ LookAtGPU \/ HealthAnswer

NextGPU ==
  /\ healthAt = "next"
  /\ IF gpu.index < count /\ ctxDone
     THEN /\ Reply("error") /\ healthAt' = "done"
          /\ UNCHANGED <<count, gpu, gpus, lost, response>>
     ELSE LookAtGPU \/ HealthAnswer

(* The end of a GPU; the loop goes on with the next one, of which nothing is
   known. *)
Collect(g) ==
  /\ gpus' = Append(gpus, g)
  /\ gpu' = [NoGPU EXCEPT !.index = gpu.index + 1]
  /\ healthAt' = "next"

IdentifyGPU ==
  /\ healthAt = "identify"
  /\ IF ctxDone
     THEN Collect([gpu EXCEPT !.status = "unknown"]) /\ lost' = lost \cup {gpu.index}
     ELSE healthAt' = "temperature" /\ UNCHANGED <<gpu, gpus, lost>>
  /\ UNCHANGED <<callVars, count, response>>

Check(subsystem, next, values) ==
  /\ healthAt = subsystem
  /\ healthAt' = next
  /\ \E v \in values : gpu' = [gpu EXCEPT ![subsystem] = v]
  /\ lost' = IF ctxDone THEN lost \cup {gpu.index} ELSE lost
  /\ UNCHANGED <<callVars, count, gpus, response>>

CheckTemperature ==
  LET r == Readings[gpu.index]
  IN Check("temperature", "memory",
       {Temperature(t, slow, shut) : t \in Outcomes(r.temperature),
          slow \in OptionalOutcomes(r.slowdown), shut \in OptionalOutcomes(r.shutdown)})

CheckMemory ==
  Check("memory", "power", {Memory(m) : m \in Outcomes(Readings[gpu.index].memory)})

CheckPower ==
  LET r == Readings[gpu.index]
  IN Check("power", "throttling",
       {Power(p, limit) : p \in Outcomes(r.power), limit \in Outcomes(r.powerLimit)})

CheckThrottling ==
  Check("throttling", "ecc",
    {Throttling(t) : t \in Getter(Readings[gpu.index].throttling \cup {{}}, NoReasons)})

CheckECCErrors ==
  LET r == Readings[gpu.index]
  IN Check("ecc", "performance",
       {ECC(m, c, u) : m \in OptionalOutcomes({1}),
          c \in OptionalOutcomes(r.correctable), u \in OptionalOutcomes(r.uncorrectable)})

CheckPerformance ==
  Check("performance", "score",
    {Performance(u) : u \in Outcomes(Readings[gpu.index].utilization)})

ScoreGPU ==
  /\ healthAt = "score"
  /\ LET score == HealthScore(gpu)
         issues == CriticalIssues(gpu)
     IN Collect([gpu EXCEPT !.score = score, !.issues = issues,
                            !.status = DetermineStatus(score, issues)])
  /\ UNCHANGED <<callVars, count, lost, response>>

HealthSteps ==
  \/ HealthStart \/ CountGPUs \/ NextGPU \/ IdentifyGPU
  \/ CheckTemperature \/ CheckMemory \/ CheckPower \/ CheckThrottling
  \/ CheckECCErrors \/ CheckPerformance \/ ScoreGPU

HealthNext == (CancelCall /\ UNCHANGED healthVars) \/ HealthSteps

HealthSpec == HealthInit /\ [][HealthNext]_<<callVars, healthVars>>

-------------------------------------------------------------------------------
(* Properties.                                                             *)

GPUStatuses == {"unknown", "healthy", "warning", "degraded", "critical"}

HealthTypeOK ==
  /\ CallTypeOK
  /\ healthAt \in {"start", "count", "next", "identify", "temperature", "memory",
                   "power", "throttling", "ecc", "performance", "score", "done"}
  /\ count \in DeviceCounts \cup {0}
  /\ gpu.index \in 0..count
  /\ \A i \in DOMAIN gpus : /\ gpus[i].index \in 0..(count - 1)
                            /\ gpus[i].score \in 0..100
                            /\ gpus[i].status \in GPUStatuses
  /\ lost \subseteq 0..(count - 1)
  /\ response.status \in GPUStatuses \cup {""}
  /\ response.score \in 0..100

(* Something read from the GPU is at its limit. *)
AtLimit(g) ==
  \/ g.temperature # Unread /\ g.temperature.current >= g.temperature.max
  \/ g.memory # Unread /\ g.memory.usedPercent >= 95
  \/ g.throttling # Unread /\ g.throttling.reasons \cap ThermalReasons # {}
  \/ g.ecc.status \notin {"unknown", "disabled"} /\ g.ecc.uncorrectable > 0

(* One GPU with one reading at its limit makes the node critical, and one
   with a score below 50 too, however many healthy GPUs there are, whatever
   could not be read and whenever the call was cancelled; and the score of the
   node is that of its worst GPU. *)
WorstGPUDecides ==
  reply = "answer" =>
    \A i \in DOMAIN gpus :
      /\ AtLimit(gpus[i]) \/ (gpus[i].score < 50 /\ gpus[i].status # "unknown") =>
           response.status = "critical" /\ response.advice = "critical"
      /\ response.score <= gpus[i].score

(* An answer is not a cancelled collection in disguise: the only GPU that an
   answer may lack, or report as unknown, because the call was cancelled is
   the last one; every other cancellation is a tool error. *)
CancelledAnswerLacksOnlyLastGPU ==
  reply = "answer" =>
    /\ lost \subseteq {count - 1}
    /\ \A i \in DOMAIN gpus : gpus[i].status = "unknown" => gpus[i].index \in lost

===============================================================================
