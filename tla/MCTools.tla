-------------------------------- MODULE MCTools --------------------------------
(* Two GPUs, nodes or pods at a time; the readings are those next to the    *)
(* thresholds, and those that wrap around or hide what another GPU shows.   *)
EXTENDS ToolServer

MCReadings ==
  (0 :> [temperature |-> {95}, slowdown |-> {}, shutdown |-> {}, memory |-> {95},
         power |-> {66500}, powerLimit |-> {}, throttling |-> {{"sw_thermal"}},
         correctable |-> {}, uncorrectable |-> {1}, utilization |-> {}]) @@
  (1 :> [temperature |-> {4, 75}, slowdown |-> {5}, shutdown |-> {}, memory |-> {},
         power |-> {101}, powerLimit |-> {100}, throttling |-> {{"power_cap", "sync_boost"}},
         correctable |-> {1001}, uncorrectable |-> {}, utilization |-> {}])

Fatal == [text |-> "xid", severity |-> "fatal", bus |-> <<"01", "0">>]
Critical == [text |-> "xid", severity |-> "critical", bus |-> <<"0000", "02", "0">>]
Info == [text |-> "xid", severity |-> "info", bus |-> <<"0000", "03">>]
Driver == [text |-> "nvrm", severity |-> "", bus |-> <<>>]
Other == [text |-> "other", severity |-> "", bus |-> <<>>]

MCLogs == {<<>>, <<Driver, Fatal, Critical>>, <<Other, Critical, Info>>,
           <<Info>>, <<Critical, Driver, Fatal>>}

MCBusIds == <<<<"0000", "01", "0">>, <<"0000", "02", "0">>>>

MCOutputs == {<<>>, <<"data">>, <<"init", "data">>, <<"init", "text">>,
              <<"init", "toolError">>, <<"rpcError", "rpcError">>, <<"init">>}

(* The first node's ended pod held all it has; all of the second one's
   allocatable GPUs are free. *)
MCNodeSpecs ==
  ("a" :> [capacity |-> 2, allocatable |-> 2, devices |-> 2, free |-> 1,
           pods |-> <<[gpus |-> 2, ended |-> TRUE], [gpus |-> 1, ended |-> FALSE]>>]) @@
  ("b" :> [capacity |-> 2, allocatable |-> 1, devices |-> 1, free |-> 1, pods |-> <<>>])

MCNodeCapacities == {2, Absent}

MCGPUReadings == [temperature |-> {85, 101}, memory |-> {91}, uncorrectable |-> {1}]

Pod(isHere, list) == [here |-> isHere, containers |-> list]

MCPodLists ==
  LET both == [request |-> 1, limit |-> 1]
      limited == [request |-> Absent, limit |-> 1]
      none == [request |-> Absent, limit |-> Absent]
  IN {<<>>, <<Pod(TRUE, <<both, both>>), Pod(FALSE, <<both>>), Pod(TRUE, <<none, limited>>)>>,
      <<Pod(TRUE, <<none>>), Pod(TRUE, <<limited, both>>)>>}

===============================================================================
