------------------------------ MODULE MCVMManager ------------------------------
(***************************************************************************)
(* Instance of VMManager: 1, 2 and 3 get the same mac, one after the       *)
(* other; 2 and 4 have disks, for which there is one device; the network   *)
(* of 3 is bridged; 1 has an ISO, 3 a boot image.                          *)
(***************************************************************************)
EXTENDS VMManager
CONSTANTS m1, m2, n1, i1, i2
MCMacOf == [v \in VMs |-> IF v = 4 THEN m2 ELSE m1]
MCParts == [v \in VMs |->
  CASE v \in {2, 4} -> {"disk", "lease"} [] v = 1 -> {"iso", "lease"} [] v = 3 -> {"boot", "lease"}]
MCFaults == [v \in VMs |->
  CASE v = 1 -> {"iso", "unlink"} [] v = 2 -> {"release"}
    [] v = 3 -> {"start", "kill"} [] v = 4 -> {}]
==============================================================================
