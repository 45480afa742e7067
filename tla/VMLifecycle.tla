------------------------------ MODULE VMLifecycle ------------------------------
(***************************************************************************)
(* What the VM manager promises to its callers about the libvirt domain of *)
(* a VM: it is there, on or off, as long as the VM is up, and is gone when *)
(* the VM is destroyed or its creation has failed.  Only when the clean-up *)
(* of a failed creation fails itself, which is no more than logged, may a  *)
(* domain stay behind (st = "broken").  HypervisorAllocator relies on it.  *)
(***************************************************************************)
CONSTANT VMs

VARIABLES st, dom

Init == st = [v \in VMs |-> "none"] /\ dom = [v \in VMs |-> "none"]

Create(v) ==
  /\ st[v] = "none"
  /\ st' = [st EXCEPT ![v] = "making"]
  /\ UNCHANGED dom

Define(v) ==
  /\ st[v] = "making" /\ dom[v] = "none"
  /\ dom' = [dom EXCEPT ![v] = "off"]
  /\ UNCHANGED st

Up(v) ==
  /\ st[v] = "making" /\ dom[v] = "off"
  /\ st' = [st EXCEPT ![v] = "up"]
  /\ dom' = [dom EXCEPT ![v] = "on"]

Power(v) ==
  /\ st[v] = "up"
  /\ \E d \in {"on", "off"} : dom' = [dom EXCEPT ![v] = d]
  /\ UNCHANGED st

Kill(v) ==
  /\ st[v] \in {"making", "up"}
  /\ st' = [st EXCEPT ![v] = "ending"]
  /\ dom' = [dom EXCEPT ![v] = "none"]

CleanUpFails(v) ==
  /\ st[v] = "making"
  /\ st' = [st EXCEPT ![v] = "broken"]
  /\ UNCHANGED dom

End(v) ==
  /\ st[v] = "ending"
  /\ st' = [st EXCEPT ![v] = "gone"]
  /\ UNCHANGED dom

Next ==
  \E v \in VMs :
    \/ Create(v) \/ Define(v) \/ Up(v) \/ Power(v)
    \/ Kill(v) \/ CleanUpFails(v) \/ End(v)

Spec == Init /\ [][Next]_<<st, dom>>
==============================================================================
