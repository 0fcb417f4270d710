------------------------------- MODULE ToolServer -------------------------------
(***************************************************************************)
(* The MCP server's tools together: pkg/mcp/server.go registers, for an    *)
(* agent, the three tools that read its own hardware, and for a gateway    *)
(* their proxies and the two tools that ask the API server.  A behaviour   *)
(* is one call of one tool, or the gateway's call of one agent on behalf   *)
(* of one; calls share nothing but what NodeRouter models.                 *)
(***************************************************************************)
EXTENDS GPUHealth, GPUInventory, XidAnalysis, ProxyAggregation, NodeTools, AgentCall

VARIABLES
  gateway,  \* the server runs in gateway mode
  tool      \* the tool that is called

toolVars == <<callVars, gateway, tool, healthVars, inventoryVars, xidVars, proxyVars,
              nodeVars, agentCallVars>>

(* Hardware tools have a proxy of the same name in the gateway; "agent call"
   is what a proxy does for each node. *)
Registered(isGateway) ==
  IF isGateway THEN {"proxy", "node tools", "agent call"}
  ELSE {"get_gpu_inventory", "get_gpu_health", "analyze_xid_errors"}

ToolInit ==
  /\ gateway \in BOOLEAN
  /\ tool \in Registered(gateway)
  /\ HealthInit /\ InventoryInit /\ XidInit /\ ProxyInit /\ NodeInit /\ AgentCallInit

-------------------------------------------------------------------------------
(* Only the state of the called tool changes.                              *)

Health ==
  /\ tool = "get_gpu_health"
  /\ UNCHANGED <<gateway, tool, inventoryVars, xidVars, proxyVars, nodeVars, agentCallVars>>

Inventory ==
  /\ tool = "get_gpu_inventory"
  /\ UNCHANGED <<gateway, tool, healthVars, xidVars, proxyVars, nodeVars, agentCallVars>>

Xid ==
  /\ tool = "analyze_xid_errors"
  /\ UNCHANGED <<gateway, tool, healthVars, inventoryVars, proxyVars, nodeVars, agentCallVars>>

Proxy ==
  /\ tool = "proxy"
  /\ UNCHANGED <<gateway, tool, healthVars, inventoryVars, xidVars, nodeVars, agentCallVars>>

Node ==
  /\ tool = "node tools"
  /\ UNCHANGED <<gateway, tool, healthVars, inventoryVars, xidVars, proxyVars, agentCallVars>>

Agent ==
  /\ tool = "agent call"
  /\ UNCHANGED <<gateway, tool, healthVars, inventoryVars, xidVars, proxyVars, nodeVars>>

ToolNext ==
  \/ Health /\ HealthNext
  \/ Inventory /\ InventoryNext
  \/ Xid /\ XidNext
  \/ Proxy /\ ProxyNext
  \/ Node /\ NodeNext
  \/ Agent /\ AgentCallNext

(* What the handler of the call does; the goroutine that reads the kernel log
   for one of them runs by itself. *)
HandlerSteps ==
  \/ Health /\ HealthSteps
  \/ Inventory /\ InventorySteps
  \/ Xid /\ XidHandler
  \/ Proxy /\ ProxySteps
  \/ Node /\ NodeSteps
  \/ Agent /\ AgentCallSteps

(* Handlers and goroutines run, NVML and the API server answer or fail, timers
   fire, and a read of a closed file returns; a read of the kernel log that
   has no more records need not, nor does an agent have to execute. *)
ToolSpec ==
  /\ ToolInit /\ [][ToolNext]_toolVars
  /\ WF_toolVars(HandlerSteps)
  /\ WF_toolVars(Xid /\ ReadTimeout)
  /\ WF_toolVars(Xid /\ ScanRecord)
  /\ WF_toolVars(Xid /\ closed /\ ScanEnds)

-------------------------------------------------------------------------------
(* Properties.                                                             *)

ToolTypeOK ==
  /\ tool \in Registered(gateway)
  /\ HealthTypeOK /\ InventoryTypeOK /\ XidTypeOK /\ ProxyTypeOK /\ NodeTypeOK
  /\ AgentCallTypeOK

(* Every call ends with an answer or a tool error, whatever fails and whenever
   it is cancelled: no tool waits for ever for the kernel log's reader, a
   retry or a device. *)
ToolCallEnds == <>(reply # "none")

===============================================================================
