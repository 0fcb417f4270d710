--------------------------- MODULE ProxyAggregation ---------------------------
(***************************************************************************)
(* ProxyHandler of pkg/gateway/proxy.go, after the router has asked the    *)
(* agents: the two aggregations and the Kubernetes metadata of a node,     *)
(* fetched result by result with a context that may be cancelled.          *)
(*                                                                         *)
(* NodeRouter shows where the results come from; here they are any         *)
(* sequence the router may return without an error.  What an agent wrote   *)
(* is chosen when its result is looked at.                                 *)
(***************************************************************************)
EXTENDS ToolCall, Framing, FiniteSets

CONSTANTS
  MaxResults,   \* bound of the model: results of a call
  Outputs,      \* what agents write: sequences of kinds of responses
  NodeSpecs     \* NodeSpecs[n]: a node's capacity, allocatable GPUs, pods (GPUs
                \* requested, ended or not), devices of its agent and the
                \* GPUs that are free

(* What the pods of a node that have not ended request. *)
Held(list) == SumOf([i \in DOMAIN list |-> IF list[i].ended THEN 0 ELSE list[i].gpus])

(* The scheduler gives no GPU to two pods, nor one that is not allocatable. *)
ASSUME ProxyAssumption ==
  /\ MaxResults \in Nat
  /\ Outputs \subseteq Seq(Kinds)
  /\ NodeSpecs \in [DOMAIN NodeSpecs ->
       [capacity : Nat, allocatable : Nat, devices : Nat, free : Nat,
        pods : Seq([gpus : Nat, ended : BOOLEAN])]]
  /\ \A n \in DOMAIN NodeSpecs :
       /\ NodeSpecs[n].allocatable <= NodeSpecs[n].capacity
       /\ NodeSpecs[n].free = NodeSpecs[n].allocatable - Held(NodeSpecs[n].pods)

VARIABLES
  proxyAt,      \* the next thing the handler does
  forInventory, \* the tool is get_gpu_inventory
  withMetadata, \* include_k8s_metadata
  results,      \* of the router: the nodes and whether they failed
  entries,      \* the nodes of the answer (output: what the agent wrote)
  summary       \* totals over them

proxyVars == <<proxyAt, forInventory, withMetadata, results, entries, summary>>

NoMetadata == [source |-> "none", capacity |-> 0, allocatable |-> 0, allocated |-> 0]

NoSummary == [ready |-> 0, failed |-> 0, gpus |-> 0, capacity |-> 0,
              allocatable |-> 0, allocated |-> 0, available |-> 0, status |-> ""]

ProxyInit ==
  /\ CallInit
  /\ proxyAt = "route" /\ forInventory = FALSE /\ withMetadata = FALSE
  /\ results = <<>> /\ entries = <<>> /\ summary = NoSummary

NodeResults == [node : DOMAIN NodeSpecs, failed : BOOLEAN]

(* The router fails when the pods cannot be listed or every node failed. *)
RouteCall ==
  /\ proxyAt = "route"
  /\ forInventory' \in BOOLEAN /\ withMetadata' \in BOOLEAN
  /\ \/ Reply("error") /\ proxyAt' = "done" /\ UNCHANGED results
     \/ \E n \in 0..MaxResults : \E rs \in [1..n -> NodeResults] :
          /\ n > 0 => \E i \in 1..n : ~ rs[i].failed
          /\ results' = rs /\ proxyAt' = "result" /\ UNCHANGED callVars
  /\ UNCHANGED <<entries, summary>>

(* Mutant of NodeGPUAllocation: every pod counts. *)
AllPodsAllocation(list) == FoldLeft(LAMBDA sum, p : sum + p.gpus, 0, list)

(* Pods that have ended hold no GPU. *)
NodeGPUAllocation(list) ==
  FoldLeft(LAMBDA sum, p : IF p.ended THEN sum ELSE sum + p.gpus, 0, list)

(* getNodeK8sMetadata: without the pods, what is not allocatable is taken
   for allocated. *)
Metadata(n, podsListed) ==
  LET spec == NodeSpecs[n]
  IN [source |-> IF podsListed THEN "pods" ELSE "fallback",
      capacity |-> spec.capacity, allocatable |-> spec.allocatable,
      allocated |-> IF podsListed THEN NodeGPUAllocation(spec.pods)
                    ELSE spec.capacity - spec.allocatable]

(* An answer that is an error of the tool is still the answer of a node
   that is ready: it has no devices. *)
Devices(entry) == IF entry.data = "data" THEN NodeSpecs[entry.node].devices ELSE 0

Entry(result, output, metadata) ==
  [node |-> result.node, failed |-> result.failed, output |-> output,
   data |-> IF result.failed THEN "none" ELSE ParseToolResponse(Output(output)),
   metadata |-> metadata]

(* Node and pods are asked for one result at a time. *)
MetadataOutcomes(n) ==
  IF ~ (forInventory /\ withMetadata) THEN {NoMetadata}
  ELSE {NoMetadata} \cup Getter({Metadata(n, TRUE)} \cup {Metadata(n, FALSE)}, NoMetadata)

AddResult ==
  /\ proxyAt = "result" /\ Len(entries) < Len(results)
  /\ LET result == results[Len(entries) + 1]
     IN \E metadata \in MetadataOutcomes(result.node),
           output \in IF result.failed THEN {<<>>} ELSE Outputs :
          entries' = Append(entries, Entry(result, output, metadata))
  /\ UNCHANGED <<callVars, proxyAt, forInventory, withMetadata, results, summary>>

SumOver(field) == SumOf([i \in DOMAIN entries |-> entries[i].metadata[field]])

FailedNodes == Cardinality({i \in DOMAIN entries : entries[i].failed})

(* aggregateDefault, whose "error" needs a call without an answer. *)
DefaultStatus(failed, total) ==
  IF failed = 0 THEN "success" ELSE IF failed = total THEN "error" ELSE "partial"

(* Mutant of StatusOf: every tool reports like the inventory. *)
AlwaysSuccess(inventory, failed, total) == "success"

StatusOf(inventory, failed, total) ==
  IF inventory THEN "success" ELSE DefaultStatus(failed, total)

Summary ==
  [ready |-> Len(entries) - FailedNodes, failed |-> FailedNodes,
   gpus |-> SumOf([i \in DOMAIN entries |-> Devices(entries[i])]),
   capacity |-> SumOver("capacity"),
   allocatable |-> SumOver("allocatable"), allocated |-> SumOver("allocated"),
   available |-> SumOver("allocatable") - SumOver("allocated"),
   status |-> StatusOf(forInventory, FailedNodes, Len(entries))]

ProxyAnswer ==
  /\ proxyAt = "result" /\ Len(entries) = Len(results)
  /\ summary' = Summary
  /\ Reply("answer") /\ proxyAt' = "done"
  /\ UNCHANGED <<forInventory, withMetadata, results, entries>>

ProxySteps == RouteCall \/ AddResult \/ ProxyAnswer

ProxyNext == (CancelCall /\ UNCHANGED proxyVars) \/ ProxySteps

-------------------------------------------------------------------------------
(* Properties.                                                             *)

ProxyTypeOK ==
  /\ CallTypeOK
  /\ proxyAt \in {"route", "result", "done"}
  /\ forInventory \in BOOLEAN /\ withMetadata \in BOOLEAN
  /\ results \in Seq(NodeResults) /\ Len(entries) <= Len(results)
  /\ summary.status \in {"", "success", "partial", "error"}

(* However an agent's text is written (braces and quotes in strings, escaped
   backslashes, a response of the initialisation before it), the entry of its
   node is what the last response it wrote means, and an agent that wrote
   nothing counts as an error and not as an empty answer. *)
ParsedIsLastAnswer ==
  \A i \in DOMAIN entries :
    /\ entries[i].node = results[i].node
    /\ ~ results[i].failed =>
         entries[i].data = IF entries[i].output = <<>> THEN "error"
                           ELSE Meaning(Last(entries[i].output))

(* The summary of an answer agrees with its nodes: every result counts once,
   and when the pods of the nodes were listed, the GPUs that are available
   are exactly those no running pod holds, never less than none, even when
   pods that ended requested more than the nodes have. *)
ClusterSummaryAddsUp ==
  reply = "answer" =>
    /\ summary.ready + summary.failed = Len(results)
    /\ (\A i \in DOMAIN entries : entries[i].metadata.source = "pods") =>
         summary.available =
           SumOf([i \in DOMAIN entries |-> NodeSpecs[entries[i].node].free])
    /\ (\A i \in DOMAIN entries : entries[i].metadata.source # "fallback") =>
         summary.available \in 0..summary.capacity

(* A node that failed can be told from the status, for any tool but the
   inventory, and an answer never says "error": a call without any answer of
   a node is a tool error already. *)
StatusTellsFailures ==
  proxyAt = "done" /\ reply = "answer" =>
    /\ summary.status # "error"
    /\ ~ forInventory => (summary.status = "success" <=>
                             \A i \in DOMAIN results : ~ results[i].failed)

===============================================================================
