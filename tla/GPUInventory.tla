----------------------------- MODULE GPUInventory -----------------------------
(***************************************************************************)
(* get_gpu_inventory as an agent answers it: pkg/tools/gpu_inventory.go.   *)
(* A device without name, UUID or bus is left out; whatever else cannot be *)
(* read is reported as zero.  The versions of driver and CUDA, read last,  *)
(* may be missing too.                                                     *)
(***************************************************************************)
EXTENDS ToolCall, Sequences

CONSTANTS
  InventoryCounts,  \* what GetDeviceCount may say
  OptionalFields    \* memory, temperature, power, ...: what may be missing

ASSUME InventoryAssumption == InventoryCounts \subseteq Nat

VARIABLES
  inventoryAt,      \* the next thing the handler does
  deviceCount,      \* the device_count of the answer
  device,           \* the device being looked at
  devices,          \* the devices of the answer: index and the fields read
  unseen            \* history: indices cut short by the cancelled context

inventoryVars == <<inventoryAt, deviceCount, device, devices, unseen>>

InventoryInit ==
  /\ CallInit
  /\ inventoryAt = "count" /\ deviceCount = 0 /\ device = 0
  /\ devices = <<>> /\ unseen = {}

CountDevices ==
  /\ inventoryAt = "count"
  /\ \E n \in Outcomes(InventoryCounts) :
       IF n = Failed
       THEN Reply("error") /\ inventoryAt' = "done" /\ UNCHANGED deviceCount
       ELSE inventoryAt' = "next" /\ deviceCount' = n /\ UNCHANGED callVars
  /\ UNCHANGED <<device, devices, unseen>>

(* The handle and the three required getters. *)
RequiredInfo ==
  /\ \E found \in Getter({TRUE}, FALSE) :
       IF found
       THEN inventoryAt' = "collect" /\ UNCHANGED <<device, unseen>>
       ELSE /\ device' = device + 1
            /\ unseen' = IF ctxDone THEN unseen \cup {device} ELSE unseen
            /\ UNCHANGED inventoryAt
  /\ UNCHANGED <<callVars, deviceCount, devices>>

(* Mutant of NextDevice: a cancelled enumeration answers with what it has. *)
NextDeviceRegardless ==
  /\ inventoryAt = "next"
  /\ IF device = deviceCount \/ ctxDone
     THEN inventoryAt' = "versions" /\ UNCHANGED <<callVars, deviceCount, device, devices, unseen>>
     ELSE RequiredInfo

NextDevice ==
  /\ inventoryAt = "next"
  /\ IF device = deviceCount
     THEN inventoryAt' = "versions" /\ UNCHANGED <<callVars, deviceCount, device, devices, unseen>>
     ELSE IF ctxDone
     THEN Reply("error") /\ inventoryAt' = "done"
          /\ UNCHANGED <<deviceCount, device, devices, unseen>>
     ELSE RequiredInfo

(* The optional getters: cancelled between two of them, the rest is zero. *)
CollectDevice ==
  /\ inventoryAt = "collect"
  /\ \E read \in Getter(SUBSET OptionalFields, {}) :
       devices' = Append(devices, [index |-> device, read |-> read])
  /\ unseen' = IF ctxDone THEN unseen \cup {device} ELSE unseen
  /\ device' = device + 1 /\ inventoryAt' = "next"
  /\ UNCHANGED <<callVars, deviceCount>>

InventoryAnswer ==
  /\ inventoryAt = "versions"
  /\ Reply("answer") /\ inventoryAt' = "done"
  /\ UNCHANGED <<deviceCount, device, devices, unseen>>

InventorySteps == CountDevices \/ NextDevice \/ CollectDevice \/ InventoryAnswer

InventoryNext == (CancelCall /\ UNCHANGED inventoryVars) \/ InventorySteps

InventoryTypeOK ==
  /\ CallTypeOK
  /\ inventoryAt \in {"count", "next", "collect", "versions", "done"}
  /\ deviceCount \in InventoryCounts \cup {0}
  /\ device \in 0..deviceCount
  /\ devices \in Seq([index : 0..(deviceCount - 1), read : SUBSET OptionalFields])
  /\ unseen \subseteq 0..(deviceCount - 1)

(* A cancelled inventory is a tool error unless only the last device was
   left: the answer then says "success" without it, or with zeros for it.
   All other devices are listed once, in order. *)
InventoryLacksOnlyLastDevice ==
  reply = "answer" =>
    /\ unseen \subseteq {deviceCount - 1}
    /\ device = deviceCount
    /\ \A i, j \in DOMAIN devices : i < j => devices[i].index < devices[j].index

===============================================================================
