------------------------------- MODULE NodeTools -------------------------------
(***************************************************************************)
(* The two tools that describe a node from its pods: describe_gpu_node     *)
(* (pkg/tools/describe_gpu_node.go), which joins NVML, the node and its    *)
(* pods, each of which may be missing, and get_pod_gpu_allocation          *)
(* (pkg/tools/pod_gpu_allocation.go).                                      *)
(*                                                                         *)
(* A pod is the node it is bound to and, of its containers, the GPUs they  *)
(* request and are limited to, Absent where the resource is not named.     *)
(* Labels, taints, conditions, names and UUIDs decide nothing.             *)
(***************************************************************************)
EXTENDS ToolCall, Sequences

CONSTANTS
  LocalGPUs,      \* what GetDeviceCount may say
  GPUReadings,    \* [temperature, memory, uncorrectable]: what may be read
  NodeCapacities, \* GPUs a node may have; Absent when it names none
  PodLists        \* what the API server may list

VARIABLES
  nodeAt,       \* the next thing the handler does
  nodeTool,     \* "describe" or "allocation"
  hasNvml,      \* the handler has an NVML client
  hasCluster,   \* and a Kubernetes client
  gpuCount,     \* devices NVML reported
  nextGPU,      \* the device being looked at
  scores,       \* health scores of the GPUs described
  capacity,     \* GPUs of the node found; Failed when there is no node
  pods,         \* the pods listed
  nextPod,      \* how many of them are done
  podGPUs,      \* the pods of the answer: GPUs of each
  allocated,    \* the sum of the GPUs requested
  cutShort,     \* history: a cancelled context kept NVML from answering
  nodeAnswer    \* status, total GPUs and overall health

podVars == <<capacity, pods, nextPod, podGPUs, allocated>>
nodeVars == <<nodeAt, nodeTool, hasNvml, hasCluster, gpuCount, nextGPU, scores,
              podVars, cutShort, nodeAnswer>>

Absent == -2

(* Quantities are never negative, percentages neither. *)
Quantities == Nat \cup {Absent}
Pods == [here : BOOLEAN, containers : Seq([request : Quantities, limit : Quantities])]

ASSUME NodeAssumption ==
  /\ LocalGPUs \subseteq Nat
  /\ GPUReadings \in [temperature : SUBSET Nat, memory : SUBSET Nat, uncorrectable : SUBSET Nat]
  /\ NodeCapacities \subseteq Quantities
  /\ PodLists \subseteq Seq(Pods)

NoAnswer == [status |-> "", total |-> 0, health |-> ""]

NodeInit ==
  /\ CallInit
  /\ nodeAt = "start" /\ nodeTool = "describe" /\ hasNvml = FALSE /\ hasCluster = FALSE
  /\ gpuCount = 0 /\ nextGPU = 0 /\ scores = <<>>
  /\ capacity = Failed /\ pods = <<>> /\ nextPod = 0 /\ podGPUs = <<>> /\ allocated = 0
  /\ cutShort = FALSE /\ nodeAnswer = NoAnswer

ToolError == Reply("error") /\ nodeAt' = "done"

-------------------------------------------------------------------------------
(* What is computed.                                                       *)

(* calculateGPUHealthScore: 2 points a degree above 80, 40 at most, and a
   getter that failed left a zero, which costs nothing. *)
DescribedScore(temperature, memory, uncorrectable) ==
  LET heat == 2 * (temperature - 80)
      penalty == IF heat < 0 THEN 0 ELSE IF heat > 40 THEN 40 ELSE heat
      score == 100 - penalty - (IF memory > 90 THEN 10 ELSE 0)
                             - (IF uncorrectable > 0 THEN 30 ELSE 0)
  IN IF score < 0 THEN 0 ELSE score

(* calculateOverallHealth of the description: the average, rounded down. *)
DescribedHealth(all) ==
  IF all = <<>> THEN "unknown"
  ELSE LET average == SumOf(all) \div Len(all)
       IN IF average >= 90 THEN "healthy" ELSE IF average >= 70 THEN "degraded" ELSE "critical"

Named(gpus) == IF gpus = Absent THEN 0 ELSE gpus

Requested(pod) ==
  SumOf([i \in DOMAIN pod.containers |-> Named(pod.containers[i].request)])

(* A pod is part of a description if it requests GPUs, of an allocation
   (extractGPUAllocation) if a container names them in either place. *)
IsListed(tool, pod) ==
  IF tool = "describe" THEN Requested(pod) > 0
  ELSE \E i \in DOMAIN pod.containers :
         pod.containers[i].request # Absent \/ pod.containers[i].limit # Absent

-------------------------------------------------------------------------------
(* The hardware, for a description only.                                   *)

NodeStart ==
  /\ nodeAt = "start"
  /\ nodeTool' \in {"describe", "allocation"}
  /\ hasNvml' \in BOOLEAN /\ hasCluster' \in BOOLEAN
  /\ \E nameIsValid \in BOOLEAN :
       IF ~ nameIsValid \/ (nodeTool' = "allocation" /\ ~ hasCluster')
       THEN ToolError
       ELSE /\ nodeAt' = IF nodeTool' = "allocation" THEN "pods"
                         ELSE IF hasNvml' THEN "devices" ELSE "node"
            /\ UNCHANGED callVars
  /\ UNCHANGED <<gpuCount, nextGPU, scores, podVars, cutShort, nodeAnswer>>

CountLocalGPUs ==
  /\ nodeAt = "devices"
  /\ \E n \in Outcomes(LocalGPUs) :
       IF n = Failed
       THEN nodeAt' = "node" /\ UNCHANGED gpuCount
       ELSE nodeAt' = "gpu" /\ gpuCount' = n
  /\ cutShort' = ctxDone
  /\ UNCHANGED <<callVars, nodeTool, hasNvml, hasCluster, nextGPU, scores, podVars, nodeAnswer>>

(* All getters of a device; one that failed is a zero.  A cancellation
   between two of them is one right after values of which some failed. *)
DescribeGPU ==
  /\ nodeAt = "gpu"
  /\ IF nextGPU = gpuCount \/ ctxDone
     THEN /\ nodeAt' = "node"
          /\ cutShort' = (cutShort \/ nextGPU < gpuCount)
          /\ UNCHANGED <<nextGPU, scores>>
     ELSE /\ \/ UNCHANGED scores
             \/ \E t \in GPUReadings.temperature \cup {0},
                   m \in GPUReadings.memory \cup {0},
                   u \in GPUReadings.uncorrectable \cup {0} :
                  scores' = Append(scores, DescribedScore(t, m, u))
          /\ nextGPU' = nextGPU + 1
          /\ UNCHANGED <<nodeAt, cutShort>>
  /\ UNCHANGED <<callVars, nodeTool, hasNvml, hasCluster, gpuCount, podVars, nodeAnswer>>

-------------------------------------------------------------------------------
(* The cluster.                                                            *)

(* Mutant of GetNode: the node is asked for without the call's context. *)
GetNodeRegardless ==
  /\ nodeAt = "node"
  /\ nodeAt' = IF hasCluster THEN "pods" ELSE "answer"
  /\ capacity' \in IF hasCluster THEN NodeCapacities \cup {Failed} ELSE {Failed}
  /\ UNCHANGED <<callVars, nodeTool, hasNvml, hasCluster, gpuCount, nextGPU, scores,
                 pods, nextPod, podGPUs, allocated, cutShort, nodeAnswer>>

GetNode ==
  /\ nodeAt = "node"
  /\ nodeAt' = IF hasCluster THEN "pods" ELSE "answer"
  /\ capacity' \in IF hasCluster THEN Outcomes(NodeCapacities) ELSE {Failed}
  /\ UNCHANGED <<callVars, nodeTool, hasNvml, hasCluster, gpuCount, nextGPU, scores,
                 pods, nextPod, podGPUs, allocated, cutShort, nodeAnswer>>

(* A list that fails is an empty description, and an allocation whose status
   is "error". *)
ListNodePods ==
  /\ nodeAt = "pods"
  /\ \/ /\ ~ ctxDone
        /\ pods' \in PodLists /\ nodeAt' = "pod"
        /\ UNCHANGED <<callVars, nodeAnswer>>
     \/ /\ nodeTool = "describe"
        /\ nodeAt' = "answer" /\ UNCHANGED <<callVars, pods, nodeAnswer>>
     \/ /\ nodeTool = "allocation"
        /\ nodeAnswer' = [NoAnswer EXCEPT !.status = "error"]
        /\ Reply("answer") /\ nodeAt' = "done" /\ UNCHANGED pods
  /\ UNCHANGED <<nodeTool, hasNvml, hasCluster, gpuCount, nextGPU, scores, capacity,
                 nextPod, podGPUs, allocated, cutShort>>

(* The filter on the node backs up the selector of the list. *)
AddPod(pod) ==
  /\ nextPod' = nextPod + 1
  /\ IF pod.here /\ IsListed(nodeTool, pod)
     THEN /\ podGPUs' = Append(podGPUs, Requested(pod))
          /\ allocated' = allocated + Requested(pod)
     ELSE UNCHANGED <<podGPUs, allocated>>
  /\ UNCHANGED <<callVars, nodeAt>>

(* Mutant of NextPod: a cancelled enumeration ends like a complete one. *)
NextPodOrBreak ==
  /\ nodeAt = "pod"
  /\ IF nextPod < Len(pods) /\ ~ ctxDone
     THEN AddPod(pods[nextPod + 1])
     ELSE nodeAt' = "answer" /\ UNCHANGED <<callVars, nextPod, podGPUs, allocated>>
  /\ UNCHANGED <<nodeTool, hasNvml, hasCluster, gpuCount, nextGPU, scores, capacity, pods,
                 cutShort, nodeAnswer>>

NextPod ==
  /\ nodeAt = "pod"
  /\ IF nextPod = Len(pods)
     THEN nodeAt' = "answer" /\ UNCHANGED <<callVars, nextPod, podGPUs, allocated>>
     ELSE IF ctxDone
     THEN ToolError /\ UNCHANGED <<nextPod, podGPUs, allocated>>
     ELSE AddPod(pods[nextPod + 1])
  /\ UNCHANGED <<nodeTool, hasNvml, hasCluster, gpuCount, nextGPU, scores, capacity, pods,
                 cutShort, nodeAnswer>>

(* Without GPUs from NVML the node's capacity counts. *)
NodeAnswer ==
  /\ nodeAt = "answer"
  /\ nodeAnswer' =
       [status |-> IF nodeTool = "describe" /\ capacity = Failed THEN "partial" ELSE "success",
        total |-> IF nodeTool = "allocation" THEN 0
                  ELSE IF scores = <<>> /\ capacity # Failed THEN Named(capacity)
                  ELSE Len(scores),
        health |-> IF nodeTool = "describe" THEN DescribedHealth(scores) ELSE ""]
  /\ Reply("answer") /\ nodeAt' = "done"
  /\ UNCHANGED <<nodeTool, hasNvml, hasCluster, gpuCount, nextGPU, scores, podVars, cutShort>>

NodeSteps ==
  \/ NodeStart \/ CountLocalGPUs \/ DescribeGPU \/ GetNode \/ ListNodePods
  \/ NextPod \/ NodeAnswer

NodeNext == (CancelCall /\ UNCHANGED nodeVars) \/ NodeSteps

-------------------------------------------------------------------------------
(* Properties.                                                             *)

NodeTypeOK ==
  /\ CallTypeOK
  /\ nodeAt \in {"start", "devices", "gpu", "node", "pods", "pod", "answer", "done"}
  /\ nodeTool \in {"describe", "allocation"}
  /\ hasNvml \in BOOLEAN /\ hasCluster \in BOOLEAN /\ cutShort \in BOOLEAN
  /\ gpuCount \in LocalGPUs \cup {0} /\ nextGPU \in 0..gpuCount
  /\ scores \in Seq(0..100) /\ Len(scores) <= nextGPU
  /\ capacity \in NodeCapacities \cup {Failed}
  /\ nextPod \in 0..Len(pods) /\ Len(podGPUs) <= nextPod
  /\ nodeAnswer.status \in {"", "success", "partial", "error"}

(* A description whose GPUs were cut short by a cancelled context never says
   "success": nobody looks at the context after the GPUs, but the request for
   the node fails with it and makes the description partial. *)
PartialDescriptionSaysSo ==
  reply = "answer" /\ nodeTool = "describe" /\ nodeAnswer.status = "success" =>
    ~ cutShort /\ hasCluster /\ (hasNvml => nextGPU = gpuCount)

(* The GPUs of each pod of the node with GPUs, in the order of the list. *)
GPUsOfPods(tool, list) ==
  FoldLeft(LAMBDA gpus, pod : IF pod.here /\ IsListed(tool, pod)
                              THEN Append(gpus, Requested(pod)) ELSE gpus,
           <<>>, list)

(* The pods of an answer are all pods with GPUs of the node, in their order,
   and their sum, or, when the list failed, none and a sum of 0: an
   enumeration that was cancelled in its middle is a tool error. *)
PodsAllOrNothing ==
  reply = "answer" =>
    /\ podGPUs = GPUsOfPods(nodeTool, pods)
    /\ allocated = SumOf(podGPUs)
    /\ nodeTool = "allocation" /\ nodeAnswer.status = "success" => nextPod = Len(pods)

===============================================================================
