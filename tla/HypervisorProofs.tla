-------------------------- MODULE HypervisorProofs ---------------------------
(***************************************************************************)
(* What the allocator guarantees also holds across restarts and beside     *)
(* fulfils: every step of Hypervisor is one of HypervisorAllocator, leaves *)
(* its variables alone, or is a restart, and a restart keeps the           *)
(* allocator's inductive invariant.  The whole implements VMResources.     *)
(***************************************************************************)
EXTENDS Hypervisor, HypervisorAllocatorProofs

\* The serial ports of VMs whose domains a restart finds: each VM has one, in
\* creation a number, and no two have the same number.
PortKinds ==
  /\ \A a \in Reqs : Alive(a) => port[a] \in Ports /\ (pc[a] = "creating" => port[a][2] = "number")
  /\ \A a, b \in Restorable : port[a][1] = port[b][1] => a = b

\* What a fulfil knows of its calls of allocate_vm.
FulTypes ==
  /\ ful \in [Fulfils -> {"idle", "working", "undo", "failed", "error"}]
  /\ task \in [Reqs -> {"none", "begun", "working", "ok", "failed", "undoing", "undone", "error"}]
  /\ told \in [Reqs -> Names]

Base == DictInv /\ ResInv /\ PortInv /\ PortKinds /\ FulTypes

------------------------------------------------------------------------------
\* A step of the process is one of the allocator or a restart.
LEMMA StepIsAllocators ==
  ASSUME FulTypes, [HNext]_hvars, \A K \in SUBSET Reqs : ~Restart(K)
  PROVE  [Next]_vars
<1>1. ASSUME NEW a \in Reqs,
             \/ PostVm(a) \/ TaskStart(a) \/ TaskRefused(a)
             \/ CreateOk(a) \/ CreateFails(a)
      PROVE  [Next]_vars
  BY <1>1 DEF PostVm, TaskStart, TaskRefused, CreateOk, CreateFails, Next
<1>2. ASSUME NEW a \in Reqs, UndoStart(a) PROVE [Next]_vars
  <2>1. UndoerOf[a] \in Destroyers /\ told[a] \in Names
    BY HypervisorAssumption DEF FulTypes
  <2> QED
    BY <1>2, <2>1 DEF UndoStart, Next
<1>3. CASE NoPortLeft
  BY <1>3 DEF NoPortLeft, Next
<1>4. ASSUME NEW f \in Fulfils,
             FulfilStart(f) \/ FulfilSucceeds(f) \/ FulfilFails(f) \/ FulfilReplies(f)
      PROVE  [Next]_vars
  BY <1>4 DEF FulfilStart, FulfilSucceeds, FulfilFails, FulfilReplies
<1>5. ASSUME NEW d \in Destroyers, DestroyStep(d) \/ \E n \in Names : DeleteVm(d, n)
      PROVE  [Next]_vars
  BY <1>5 DEF DestroyStep, DeleteVm, Next
<1>6. CASE UNCHANGED hvars
  BY <1>6 DEF hvars
<1> QED
  BY <1>1, <1>2, <1>3, <1>4, <1>5, <1>6 DEF HNext

\* restore_vms: the dictionary that is read back agrees with the VMs.
LEMMA RestartDict ==
  ASSUME Base, NEW K \in SUBSET Reqs, Restart(K)
  PROVE  DictInv'
<1>1. \A a \in K : Alive(a) /\ port[a] \in Ports /\ vms[name[a]] = a
  BY DEF Restart, Restorable, Base, PortKinds, DictInv, ListedAreVMs, Alive
<1>2. TypeOK'
  <2>1. \A a \in K : <<port[a][1], "string">> \in Ports
    BY <1>1, HypervisorAssumption
  <2>2. used' \subseteq Ports
    BY <2>1 DEF Restart
  <2>3. free' \in [Res -> Nat]
    BY DEF Restart
  <2>4. port' \in [Reqs -> Ports \cup {NoPort}]
    BY <2>1 DEF Restart
  <2>5. dst' \in [Destroyers -> Destructions]
    BY IdleIsOne DEF Restart
  <2>6. name' \in [Reqs -> Names]
    <3>1. 0 \in Names /\ \A a \in Reqs : name[a] \in Names
      BY AllocatorAssumption DEF Base, DictInv, TypeOK, Names
    <3> QED
      BY <3>1 DEF Restart
  <2>7. held' \in [Reqs -> SUBSET Res] /\ pc' \in [Reqs -> {"none", "creating", "created"}]
    BY DEF Restart, Base, DictInv, TypeOK
  <2>8. vms' \in [Names -> Reqs \cup {NoVM}] /\ dom' \in [Names -> Reqs \cup {NoVM}]
    BY DEF Restart, Base, DictInv, TypeOK
  <2>9. lost' \subseteq Res
    BY DEF Restart
  <2> QED
    BY <2>2, <2>3, <2>4, <2>5, <2>6, <2>7, <2>8, <2>9 DEF TypeOK
<1>3. ListedAreVMs'
  <2>1. \A n \in Names : vms[n] \in K => name[vms[n]] = n
    BY AllocatorAssumption DEF Base, DictInv, ListedAreVMs
  <2>2. \A a \in Reqs : name[a] \in Names
    BY DEF Base, DictInv, TypeOK
  <2> QED
    BY <1>1, <2>1, <2>2, AllocatorAssumption DEF Restart, ListedAreVMs
<1>4. \A d \in Destroyers : dst'[d] = Idle /\ dst'[d].pc = "idle"
  BY IdleIsOne DEF Restart
<1>5. Waiters' /\ Lockers' /\ DoubleCheckHolds'
  BY <1>4 DEF Waiters, Lockers, InDestruction, DoubleCheckHolds
<1>6. Domains'
  BY <1>4, AllocatorAssumption DEF Restart, Domains
<1> QED
  BY <1>2, <1>3, <1>5, <1>6 DEF DictInv

\* restore_vms: macs and GPUs of restored VMs are out of the pools, all others
\* are in them, and sol_used_ports is what the restored VMs have.
LEMMA RestartPools ==
  ASSUME Base, NEW K \in SUBSET Reqs, Restart(K)
  PROVE  ResInv' /\ PortInv' /\ PortKinds'
<1>1. \A a \in K : a \in Restorable /\ Alive(a) /\ port[a] \in Ports
  BY DEF Restart, Restorable, Base, PortKinds, Alive
<1>2. \A a \in Reqs : Alive(a)' <=> a \in K
  BY DEF Restart, Alive
<1>3. \A a \in K : held'[a] = held[a] /\ port'[a] = <<port[a][1], "string">> /\ pc'[a] = "created"
  BY DEF Restart
<1>4. ResInv'
  <2>1. \A r \in Res : free'[r] = IF \E a \in K : r \in held[a] THEN 0 ELSE 1
    BY DEF Restart, HeldBy
  <2>2. lost' = {}
    BY DEF Restart
  <2>3. \A r \in Res, a, b \in K : r \in held[a] /\ r \in held[b] => a = b
    BY <1>1 DEF Base, ResInv
  <2> QED
    BY <1>2, <1>3, <2>1, <2>2, <2>3 DEF ResInv
<1>5. \A a, b \in K : port[a][1] = port[b][1] => a = b
  BY <1>1 DEF Base, PortKinds
<1>6. PortInv'
  <2>1. \A p \in Ports : p \in used' <=> \E a \in K : p = <<port[a][1], "string">>
    BY DEF Restart
  <2>2. \A p \in Ports, a \in Reqs : Alive(a)' /\ port'[a] = p <=> a \in K /\ p = <<port[a][1], "string">>
    BY <1>2, <1>3
  <2>3. \A a, b \in K : <<port[a][1], "string">> = <<port[b][1], "string">> => a = b
    BY <1>5
  <2>4. \A p \in Ports, a, b \in Reqs : Alive(a)' /\ port'[a] = p /\ Alive(b)' /\ port'[b] = p => a = b
    BY <2>2, <2>3
  <2> QED
    BY <2>1, <2>2, <2>4 DEF PortInv, Alive
<1>7. PortKinds'
  <2>1. \A a \in K : port'[a] \in Ports
    BY <1>1, <1>3, HypervisorAssumption
  <2>2. \A a \in Reqs : pc'[a] # "creating" /\ (a \notin K => pc'[a] = "none")
    BY DEF Restart
  <2>3. Restorable' \subseteq K
    BY <2>2 DEF Restorable
  <2> QED
    BY <1>2, <1>3, <1>5, <2>1, <2>2, <2>3 DEF PortKinds
<1> QED
  BY <1>4, <1>6, <1>7

\* Serial ports: allocate_vm takes a number that no other VM has in its list of
\* ports and that no VM listens on; a VM keeps its port while it lives.
LEMMA PortsKept ==
  ASSUME Base, [HNext]_hvars, \A K \in SUBSET Reqs : ~Restart(K), DictInv'
  PROVE  PortKinds'
<1>1. ASSUME NEW a \in Reqs, AllocateStart(a), ReservesPort(a) PROVE PortKinds'
  <2>1. PICK p \in Ports \ used :
          /\ pc' = [pc EXCEPT ![a] = "creating"]
          /\ port' = [port EXCEPT ![a] = p]
          /\ \E n \in Names : name' = [name EXCEPT ![a] = n]
    BY <1>1 DEF AllocateStart
  <2>2. pc'[a] = "creating" /\ port'[a] = p /\ p[2] = "number" /\ p[1] \notin Bound
    BY <1>1, <2>1 DEF ReservesPort, PortFree, Base, DictInv, TypeOK
  <2>3. \A b \in Reqs \ {a} : pc'[b] = pc[b] /\ port'[b] = port[b] /\ name'[b] = name[b]
    BY <2>1 DEF Base, DictInv, TypeOK
  <2>4. pc[a] = "none" /\ UNCHANGED dom
    BY <1>1 DEF AllocateStart
  <2>5. \A b \in Reqs \ {a} : b \in Restorable' <=> b \in Restorable
    BY <2>3, <2>4 DEF Restorable
  <2>6. ASSUME NEW b \in Restorable, b # a PROVE port[b][1] # p[1]
    <3>1. CASE pc[b] = "creating"
      <4>1. port[b] \in Ports /\ port[b][2] = "number" /\ Alive(b)
        BY <3>1 DEF Base, PortKinds, Alive, Restorable
      <4>2. port[b] \in used
        BY <4>1 DEF Base, PortInv, Restorable
      <4>3. \A x, y \in Ports : x[1] = y[1] /\ x[2] = y[2] => x = y
        BY HypervisorAssumption
      <4> QED
        BY <2>1, <2>2, <4>1, <4>2, <4>3
    <3>2. CASE pc[b] = "created" /\ dom[name[b]] = b
      <4>1. name[b] \in Names /\ dom[name[b]] # NoVM
        BY <3>2, AllocatorAssumption DEF Base, DictInv, TypeOK, Restorable
      <4> QED
        BY <2>2, <3>2, <4>1 DEF Bound
    <3> QED
      BY <3>1, <3>2 DEF Restorable
  <2> QED
    BY <2>2, <2>3, <2>4, <2>5, <2>6 DEF Base, PortKinds, Alive, Restorable
<1>2. ASSUME \A b \in Reqs :
               \/ pc'[b] = "none"
               \/ pc'[b] = pc[b] /\ port'[b] = port[b] /\ (b \in Restorable' => b \in Restorable)
      PROVE  PortKinds'
  BY <1>2 DEF Base, PortKinds, Alive, Restorable
<1>3. ASSUME NEW a \in Reqs, AllocateOk(a) PROVE PortKinds'
  <2>1. \A b \in Reqs \ {a} : pc'[b] = pc[b] /\ name'[b] = name[b]
    BY <1>3 DEF AllocateOk, Base, DictInv, TypeOK
  <2>2. pc[a] = "creating" /\ pc'[a] = "created" /\ UNCHANGED <<port, name>>
    BY <1>3 DEF AllocateOk, Base, DictInv, TypeOK
  <2>3. \A b \in Reqs \ {a} : dom'[name[b]] = b => dom[name[b]] = b
    BY <1>3 DEF AllocateOk, Base, DictInv, TypeOK
  <2>4. Restorable' \subseteq Restorable
    BY <2>1, <2>2, <2>3 DEF Restorable
  <2> QED
    BY <2>1, <2>2, <2>4 DEF Base, PortKinds, Alive
<1>4. ASSUME NEW a \in Reqs, AllocateFails(a) PROVE PortKinds'
  <2>1. \A b \in Reqs \ {a} : pc'[b] = pc[b] /\ name'[b] = name[b] /\ port'[b] = port[b]
    BY <1>4 DEF AllocateFails, Forget, Base, DictInv, TypeOK
  <2>2. \A b \in Reqs \ {a} : dom'[name[b]] = b => dom[name[b]] = b
    BY <1>4, AllocatorAssumption DEF AllocateFails, Base, DictInv, TypeOK
  <2>3. pc'[a] = "none"
    BY <1>4 DEF AllocateFails, Forget, Base, DictInv, TypeOK
  <2> QED
    BY <1>2, <2>1, <2>2, <2>3 DEF Restorable
<1>5. ASSUME UNCHANGED <<pc, port, name>>, \A n \in Names : dom'[n] \in {dom[n], NoVM}
      PROVE  PortKinds'
  <2>1. \A b \in Reqs : name[b] \in Names
    BY DEF Base, DictInv, TypeOK
  <2> QED
    BY <1>2, <1>5, <2>1, AllocatorAssumption DEF Restorable
<1>6. ASSUME NEW d \in Destroyers, DestroyStep(d) PROVE PortKinds'
  <2>1. CASE DestroyEnds(d)
    <3>1. \A b \in Reqs : pc'[b] = "none" \/ (pc'[b] = pc[b] /\ name'[b] = name[b] /\ port'[b] = port[b])
      <4> SUFFICES ASSUME NEW b \in Reqs
                   PROVE  pc'[b] = "none" \/ (pc'[b] = pc[b] /\ name'[b] = name[b] /\ port'[b] = port[b])
        OBVIOUS
      <4>1. PICK o : /\ pc' = [pc EXCEPT ![o] = "none"]
                     /\ name' = [name EXCEPT ![o] = 0]
                     /\ port' = [port EXCEPT ![o] = NoPort]
        BY <2>1 DEF DestroyEnds, Forget
      <4>0. pc \in [Reqs -> {"none", "creating", "created"}]
        BY DEF Base, DictInv, TypeOK
      <4>2. CASE b = o
        BY <4>0, <4>1, <4>2
      <4>3. CASE b # o
        BY <4>1, <4>3 DEF Base, DictInv, TypeOK
      <4> QED
        BY <4>2, <4>3
    <3>2. UNCHANGED dom
      BY <2>1 DEF DestroyEnds
    <3> QED
      BY <1>2, <3>1, <3>2 DEF Restorable
  <2>2. CASE DestroyLocked(d) \/ DestroyKill(d) \/ DestroyFails(d)
    <3>1. UNCHANGED <<pc, port, name>>
      BY <2>2 DEF DestroyLocked, DestroyKill, DestroyFails
    <3>2. \A n \in Names : dom'[n] \in {dom[n], NoVM}
      BY <2>2 DEF DestroyLocked, DestroyKill, DestroyFails, Base, DictInv, TypeOK
    <3> QED
      BY <1>5, <3>1, <3>2
  <2> QED
    BY <1>6, <2>1, <2>2 DEF DestroyStep
<1>7. ASSUME UNCHANGED <<pc, port, name, dom>> PROVE PortKinds'
  BY <1>5, <1>7
<1>8. ASSUME NEW a \in Reqs,
             PostVm(a) \/ TaskStart(a) \/ TaskRefused(a) \/ CreateOk(a) \/ CreateFails(a) \/ UndoStart(a)
      PROVE  PortKinds'
  BY <1>1, <1>3, <1>4, <1>7, <1>8
     DEF PostVm, TaskStart, TaskRefused, CreateOk, CreateFails, UndoStart, DestroyStart, vars
<1>9. ASSUME NEW f \in Fulfils,
             FulfilStart(f) \/ FulfilSucceeds(f) \/ FulfilFails(f) \/ FulfilReplies(f)
      PROVE  PortKinds'
  BY <1>7, <1>9 DEF FulfilStart, FulfilSucceeds, FulfilFails, FulfilReplies, vars
<1>10. ASSUME \/ NoPortLeft
              \/ \E d \in Destroyers, n \in Names : DeleteVm(d, n)
              \/ UNCHANGED hvars
       PROVE  PortKinds'
  BY <1>7, <1>10 DEF NoPortLeft, AllocateNoPort, DeleteVm, DestroyStart, hvars, vars
<1> QED
  BY <1>6, <1>8, <1>9, <1>10 DEF HNext

LEMMA FulTypesKept ==
  ASSUME FulTypes, TypeOK, [HNext]_hvars
  PROVE  FulTypes'
<1>1. CASE UNCHANGED <<ful, task, told>>
  BY <1>1 DEF FulTypes
<1>2. 0 \in Names /\ \A a \in Reqs : name[a] \in Names
  BY AllocatorAssumption DEF Names, TypeOK
<1>3. ASSUME NEW a \in Reqs,
             \/ PostVm(a) \/ TaskStart(a) \/ TaskRefused(a)
             \/ CreateOk(a) \/ CreateFails(a) \/ UndoStart(a)
      PROVE  FulTypes'
  BY <1>2, <1>3
     DEF FulTypes, PostVm, rest, TaskStart, TaskRefused, CreateOk, CreateFails, UndoStart
<1>4. CASE NoPortLeft
  BY <1>4 DEF FulTypes, NoPortLeft
<1>5. ASSUME NEW f \in Fulfils,
             FulfilStart(f) \/ FulfilSucceeds(f) \/ FulfilFails(f) \/ FulfilReplies(f)
      PROVE  FulTypes'
  <2>1. CASE FulfilStart(f)
    BY <2>1 DEF FulTypes, FulfilStart
  <2>2. CASE FulfilFails(f)
    BY <2>2 DEF FulTypes, FulfilFails
  <2>3. CASE FulfilSucceeds(f) \/ FulfilReplies(f)
    BY <1>2, <2>3 DEF FulTypes, FulfilSucceeds, FulfilReplies, Over
  <2> QED
    BY <1>5, <2>1, <2>2, <2>3
<1>6. ASSUME NEW d \in Destroyers, DestroyStep(d) PROVE FulTypes'
  <2>1. \/ Returns(d, "error") \/ Returns(d, "undone")
    BY <1>6 DEF DestroyStep
  <2> QED
    BY <2>1 DEF Returns, FulTypes
<1>7. ASSUME NEW d \in Destroyers, NEW n \in Names, DeleteVm(d, n) PROVE FulTypes'
  BY <1>1, <1>7 DEF DeleteVm, rest
<1>8. ASSUME NEW K \in SUBSET Reqs, Restart(K) PROVE FulTypes'
  BY <1>2, <1>8 DEF FulTypes, Restart
<1> QED
  BY <1>1, <1>3, <1>4, <1>5, <1>6, <1>7, <1>8 DEF HNext, hvars, rest

LEMMA BaseAlways ==
  ASSUME NameReuse = FALSE
  PROVE  HSpec => []Base
<1>1. HInit => Base
  <2> SUFFICES ASSUME HInit PROVE Base
    OBVIOUS
  <2>1. DictInv
    BY AllocatorAssumption DEF HInit, Init, DictInv, TypeOK, Destructions, Names, ListedAreVMs,
       Waiters, Lockers, InDestruction, DoubleCheckHolds, Domains, Idle
  <2>2. ResInv /\ PortInv /\ PortKinds
    BY DEF HInit, Init, ResInv, PortInv, PortKinds, Alive, Restorable
  <2>3. FulTypes
    BY AllocatorAssumption DEF HInit, FulTypes, Names
  <2> QED
    BY <2>1, <2>2, <2>3 DEF Base
<1>2. ASSUME Base, [HNext]_hvars PROVE Base'
  <2>1. FulTypes'
    BY <1>2, FulTypesKept DEF Base, DictInv
  <2>2. ASSUME NEW K \in SUBSET Reqs, Restart(K) PROVE Base'
    BY <1>2, <2>1, <2>2, RestartDict, RestartPools DEF Base
  <2>3. CASE \A K \in SUBSET Reqs : ~Restart(K)
    <3>1. [Next]_vars
      BY <1>2, <2>3, StepIsAllocators DEF Base
    <3>2. DictInv'
      BY <1>2, <3>1, DictInductive DEF Base
    <3>3. ResInv' /\ PortInv'
      BY <1>2, <3>1, ConservedInductive DEF Base
    <3> QED
      BY <1>2, <2>1, <2>3, <3>2, <3>3, PortsKept DEF Base
  <2> QED
    BY <2>2, <2>3
<1> QED
  BY <1>1, <1>2, PTL DEF HSpec

\* restore_vms: what it rebuilds from the domains, and what any step then makes of
\* it, are pools that are never cut below empty and whole records.
THEOREM TypesAcrossRestarts ==
  ASSUME NameReuse = FALSE
  PROVE  HSpec => []TypeOK
<1>1. Base => TypeOK
  BY DEF Base, DictInv
<1> QED
  BY <1>1, BaseAlways, PTL

\* restore_vms: macs and GPUs are neither given out twice nor forgotten across
\* restarts.
THEOREM ConservedAcrossRestarts ==
  ASSUME NameReuse = FALSE
  PROVE  HSpec => []ResourcesConserved
<1>1. Base => ResourcesConserved
  BY ResOne DEF Base
<1> QED
  BY <1>1, BaseAlways, PTL

\* sol_used_ports: across restarts a serial port is listed exactly as long as
\* one VM has it, in whichever form it is listed.
THEOREM PortsAcrossRestarts ==
  ASSUME NameReuse = FALSE
  PROVE  HSpec => []PortsConserved
<1>1. Base => PortsConserved
  BY PortOne DEF Base
<1> QED
  BY <1>1, BaseAlways, PTL

\* self.vms: across restarts the dictionary lists exactly the VMs there are, each
\* under its name.
THEOREM ListedAcrossRestarts ==
  ASSUME NameReuse = FALSE
  PROVE  HSpec => []ListedAreVMs
<1>1. Base => ListedAreVMs
  BY DEF Base, DictInv
<1> QED
  BY <1>1, BaseAlways, PTL

\* allocator.py:247: across restarts, a destroy_vm that goes on after its wait has
\* the VM that it was called for.
THEOREM DoubleCheckAcrossRestarts ==
  ASSUME NameReuse = FALSE
  PROVE  HSpec => []DoubleCheckHolds
<1>1. Base => DoubleCheckHolds
  BY DEF Base, DictInv
<1> QED
  BY <1>1, BaseAlways, PTL

\* `self.max_vms == len(self.vms)`: restore_vms does not look at max_vms, it lists
\* no more VMs than the last process did.
THEOREM LimitAcrossRestarts ==
  ASSUME NameReuse = FALSE
  PROVE  HSpec => []WithinMaxVMs
<1>1. HInit => WithinMaxVMs
  BY LimitInit DEF HInit
<1>2. ASSUME Base, WithinMaxVMs, [HNext]_hvars PROVE WithinMaxVMs'
  <2>1. ASSUME NEW K \in SUBSET Reqs, Restart(K) PROVE Listed' \subseteq Listed
    <3>1. vms' = [n \in Names |-> IF vms[n] \in K THEN vms[n] ELSE NoVM]
      BY <2>1 DEF Restart
    <3> QED
      BY <3>1 DEF Listed
  <2>2. CASE \A K \in SUBSET Reqs : ~Restart(K)
    <3>1. [Next]_vars
      BY <1>2, <2>2, StepIsAllocators DEF Base
    <3> QED
      BY <1>2, <3>1, LimitInductive DEF Base, DictInv
  <2> QED
    BY <1>2, <2>1, <2>2, LimitShrinks
<1> QED
  BY <1>1, <1>2, BaseAlways, PTL DEF HSpec

\* restore_vms kills the domains of the VMs that it gives up, and of no other: the
\* domain of a VM that is still there goes away only in a destroy_vm for this VM.
THEOREM KillsAcrossRestarts ==
  ASSUME NameReuse = FALSE
  PROVE  HSpec => KillsItsOwn
<1>1. ASSUME Base, [HNext]_hvars PROVE [Killed]_vars
  <2>1. ASSUME NEW K \in SUBSET Reqs, Restart(K) PROVE Killed
    <3> SUFFICES ASSUME NEW n \in Names, dom[n] # NoVM, dom'[n] = NoVM
                 PROVE  pc'[dom[n]] = "none"
      BY DEF Killed
    <3>1. vms[n] = dom[n] /\ dom[n] \in Reqs
      BY <1>1 DEF Base, DictInv, Domains, TypeOK
    <3>2. vms[n] \notin K
      BY <2>1, <3>1 DEF Restart
    <3> QED
      BY <2>1, <3>1, <3>2 DEF Restart
  <2>2. CASE \A K \in SUBSET Reqs : ~Restart(K)
    <3>1. [Next]_vars
      BY <1>1, <2>2, StepIsAllocators DEF Base
    <3> QED
      BY <1>1, <3>1, StepsKillTheirOwn DEF Base
  <2> QED
    BY <2>1, <2>2
<1>2. HSpec => [][Killed]_vars
  BY <1>1, BaseAlways, PTL DEF HSpec
<1> QED
  BY <1>2 DEF KillsItsOwn, Killed

\* _reserve_free_port, sol_used_ports: no two VMs that run have the same serial
\* port, although the list holds the ports of restored VMs as strings.
THEOREM SerialPortsApart ==
  ASSUME NameReuse = FALSE
  PROVE  HSpec => []PortsApart
<1>1. ASSUME Base, NEW m \in Names, NEW n \in Names, m # n, dom[m] # NoVM, dom[n] # NoVM
      PROVE  port[dom[m]][1] # port[dom[n]][1]
  <2>1. \A k \in {m, n} : dom[k] \in Reqs /\ name[dom[k]] = k /\ pc[dom[k]] = "created"
    BY <1>1 DEF Base, DictInv, Domains, ListedAreVMs, TypeOK
  <2>2. dom[m] \in Restorable /\ dom[n] \in Restorable /\ dom[m] # dom[n]
    BY <1>1, <2>1 DEF Restorable
  <2> QED
    BY <1>1, <2>2 DEF Base, PortKinds
<1>2. Base => PortsApart
  BY <1>1 DEF PortsApart
<1> QED
  BY <1>2, BaseAlways, PTL

------------------------------------------------------------------------------
(***************************************************************************)
(* A fulfil that fails.                                                    *)
(***************************************************************************)

\* A destroy_vm that a fulfil has called is at work on the VM of the call that
\* it is to undo, if this VM is still there.
Undoing(a) ==
  LET x == dst[UndoerOf[a]] IN x.pc # "idle" /\ (Alive(a) => x.obj = a)

\* What the state of a call says of its VM.
CallInv(a) ==
  /\ task[a] \in {"begun", "failed", "undone"} => pc[a] = "none"
  /\ task[a] = "working" => pc[a] = "creating"
  /\ pc[a] = "creating" /\ FulfilOf[a] # NoFulfil => task[a] = "working"
  /\ task[a] \in {"ok", "undoing"} /\ Alive(a) => pc[a] = "created" /\ name[a] = told[a]
  /\ task[a] = "undoing" => Undoing(a)

\* What the state of a fulfil says of its calls.
FulInv(f) ==
  /\ ful[f] = "undo" =>
       \A a \in CallsOf(f) : task[a] \in {"ok", "failed", "undoing", "undone", "error"}
  /\ ful[f] \in {"idle", "failed", "error"} => \A a \in CallsOf(f) : task[a] = "none"

Rollback ==
  /\ \A a \in Reqs : CallInv(a) /\ (FulfilOf[a] = NoFulfil => task[a] = "none")
  /\ \A f \in Fulfils : FulInv(f)
  /\ FailedKeepsNothing

\* A step that tells the fulfils nothing, makes no VM and gives none another
\* name, and lets the destroy_vm calls of fulfils work on.
LEMMA RollbackStays ==
  ASSUME Base, Rollback, UNCHANGED <<ful, task, told>>,
         \A a \in Reqs : task[a] = "working" => pc'[a] = "creating",
         \A a \in Reqs : task[a] # "working" /\ FulfilOf[a] # NoFulfil =>
           \/ pc'[a] = "none"
           \/ pc'[a] = pc[a] /\ name'[a] = name[a],
         \A a \in Reqs : task[a] = "undoing" => Undoing(a)'
  PROVE  Rollback'
<1>1. \A a \in Reqs : CallInv(a)'
  BY DEF Rollback, CallInv, Alive
<1>2. \A f \in Fulfils : FulInv(f)'
  BY DEF Rollback, FulInv, CallsOf
<1>3. FailedKeepsNothing'
  BY HypervisorAssumption DEF Rollback, FulInv, FailedKeepsNothing, CallsOf
<1> QED
  BY <1>1, <1>2, <1>3 DEF Rollback

\* A call of a fulfil goes on to st.
LEMMA CallMoves ==
  ASSUME Base, Rollback, UNCHANGED ful,
         NEW a \in Reqs, FulfilOf[a] # NoFulfil, task[a] # "none",
         NEW st \in {"working", "ok", "failed", "undoing", "error"},
         task' = [task EXCEPT ![a] = st],
         \A b \in Reqs \ {a} : pc'[b] = pc[b] /\ name'[b] = name[b] /\ told'[b] = told[b],
         \A b \in Reqs \ {a} : task[b] = "undoing" => Undoing(b)',
         CallInv(a)',
         st = "working" => ful[FulfilOf[a]] # "undo"
  PROVE  Rollback'
<1>1. \A b \in Reqs \ {a} : task'[b] = task[b]
  BY DEF Base, FulTypes
<1>2. task'[a] = st
  BY DEF Base, FulTypes
<1>3. \A b \in Reqs : CallInv(b)'
  BY <1>1 DEF Rollback, CallInv, Alive
<1>4. ful[FulfilOf[a]] \in {"working", "undo"}
  <2>1. FulfilOf[a] \in Fulfils /\ a \in CallsOf(FulfilOf[a])
    BY HypervisorAssumption DEF CallsOf
  <2>2. FulInv(FulfilOf[a])
    BY <2>1 DEF Rollback
  <2>3. ful[FulfilOf[a]] \in {"idle", "working", "undo", "failed", "error"}
    BY <2>1 DEF Base, FulTypes
  <2> QED
    BY <2>1, <2>2, <2>3 DEF FulInv
<1>5. ASSUME NEW f \in Fulfils PROVE FulInv(f)'
  BY <1>1, <1>2, <1>4 DEF Rollback, FulInv, CallsOf
<1>6. FailedKeepsNothing'
  BY <1>4 DEF Rollback, FailedKeepsNothing, CallsOf
<1> QED
  BY <1>1, <1>3, <1>5, <1>6 DEF Rollback

\* What the allocator's steps do to a VM, a destroy_vm and the dictionary.
LEMMA DestroyKeepsUndoing ==
  ASSUME Base, NEW a \in Reqs, Undoing(a), NEW d \in Destroyers,
         \/ \E n \in Names : DestroyStart(d, n)
         \/ DestroyLocked(d) \/ DestroyKill(d) \/ DestroyFails(d) \/ DestroyEnds(d),
         d = UndoerOf[a] => dst'[d].pc # "idle"
  PROVE  Undoing(a)'
<1>0. UndoerOf[a] \in Destroyers
  BY HypervisorAssumption
<1>1. dst[d] \in Destructions /\ pc \in [Reqs -> {"none", "creating", "created"}]
  BY DEF Base, DictInv, TypeOK
<1>2. Alive(a)' => Alive(a)
  <2>1. CASE DestroyEnds(d)
    BY <1>1, <2>1 DEF DestroyEnds, Forget, Alive
  <2>2. CASE UNCHANGED pc
    BY <2>2 DEF Alive
  <2> QED
    BY <2>1, <2>2 DEF DestroyStart, DestroyLocked, DestroyKill, DestroyFails
<1>3. CASE d # UndoerOf[a]
  <2>1. dst'[UndoerOf[a]] = dst[UndoerOf[a]]
    BY <1>0, <1>3 DEF DestroyStart, DestroyLocked, DestroyKill, DestroyFails, DestroyEnds,
       Base, DictInv, TypeOK
  <2> QED
    BY <1>2, <2>1 DEF Undoing, Alive
<1>4. CASE d = UndoerOf[a]
  <2>1. \A n \in Names : ~DestroyStart(d, n)
    BY <1>4 DEF Undoing, DestroyStart
  <2>2. dst'[d].pc # "idle" => dst'[d].obj = dst[d].obj
    BY <1>1, <2>1 DEF DestroyLocked, DestroyKill, DestroyFails, DestroyEnds, Idle,
       Base, DictInv, TypeOK, Destructions
  <2> QED
    BY <1>2, <1>4, <2>2 DEF Undoing, Alive
<1> QED
  BY <1>3, <1>4

\* The steps of the calls of allocate_vm.
LEMMA RollbackCalls ==
  ASSUME Base, Rollback, NEW a \in Reqs,
         \/ PostVm(a) \/ TaskStart(a) \/ TaskRefused(a)
         \/ CreateOk(a) \/ CreateFails(a) \/ UndoStart(a)
  PROVE  Rollback'
<1>0. /\ pc \in [Reqs -> {"none", "creating", "created"}] /\ name \in [Reqs -> Names]
      /\ task \in [Reqs -> {"none", "begun", "working", "ok", "failed", "undoing", "undone", "error"}]
      /\ told \in [Reqs -> Names]
  BY DEF Base, DictInv, TypeOK, FulTypes
<1>1. CallInv(a) /\ (FulfilOf[a] = NoFulfil => task[a] = "none")
  BY DEF Rollback
<1>2. ASSUME UNCHANGED <<dst, pc>> PROVE \A b \in Reqs : Undoing(b)' <=> Undoing(b)
  BY <1>2 DEF Undoing, Alive
<1>3. ASSUME AllocateStart(a)
      PROVE  /\ pc'[a] = "creating"
             /\ \A b \in Reqs \ {a} : pc'[b] = pc[b] /\ name'[b] = name[b]
             /\ \A b \in Reqs \ {a} : Undoing(b) => Undoing(b)'
  BY <1>0, <1>3 DEF AllocateStart, Undoing, Alive
<1>4. \A b \in Reqs : task[b] = "undoing" => Undoing(b)
  BY DEF Rollback, CallInv
<1>5. CASE PostVm(a)
  <2>1. UNCHANGED <<ful, task, told>> /\ FulfilOf[a] = NoFulfil /\ task[a] = "none" /\ AllocateStart(a)
    BY <1>1, <1>5 DEF PostVm, rest
  <2> QED
    BY <1>3, <1>4, <2>1, RollbackStays DEF Rollback, CallInv
<1>6. CASE TaskStart(a)
  <2>1. AllocateStart(a) /\ task[a] = "begun" /\ UNCHANGED <<ful, told>>
        /\ task' = [task EXCEPT ![a] = "working"]
    BY <1>6 DEF TaskStart
  <2>2. FulfilOf[a] # NoFulfil
    BY <1>1, <2>1
  <2>3. ful[FulfilOf[a]] # "undo"
    BY <2>1, <2>2, HypervisorAssumption DEF Rollback, FulInv, CallsOf
  <2>4. CallInv(a)'
    BY <1>0, <1>3, <2>1 DEF CallInv, Alive
  <2> QED
    BY <1>3, <1>4, <2>1, <2>2, <2>3, <2>4, CallMoves
<1>7. CASE TaskRefused(a)
  <2>1. /\ task[a] = "begun" /\ UNCHANGED <<ful, told, pc, name, dst>>
        /\ task' = [task EXCEPT ![a] = "failed"]
    BY <1>7 DEF TaskRefused, vars
  <2>2. CallInv(a)'
    BY <1>0, <1>1, <2>1 DEF CallInv, Alive
  <2> QED
    BY <1>1, <1>2, <1>4, <2>1, <2>2, CallMoves
<1>8. ASSUME CreateOk(a) \/ CreateFails(a)
      PROVE  Rollback'
  <2>1. pc[a] = "creating" /\ UNCHANGED <<ful, dst>>
        /\ \A b \in Reqs \ {a} : pc'[b] = pc[b] /\ name'[b] = name[b] /\ told'[b] = told[b]
    BY <1>0, <1>8 DEF CreateOk, CreateFails, AllocateOk, AllocateFails, Forget
  <2>2. \A b \in Reqs \ {a} : Undoing(b) => Undoing(b)'
    BY <2>1 DEF Undoing, Alive
  <2>3. task[a] # "undoing"
    BY <1>1, <2>1 DEF CallInv, Alive
  <2>4. CASE FulfilOf[a] = NoFulfil
    <3>1. UNCHANGED <<task, told>> /\ task[a] = "none"
      BY <1>0, <1>1, <1>8, <2>4 DEF CreateOk, CreateFails
    <3> QED
      BY <1>4, <2>1, <2>2, <2>3, <2>4, <3>1, RollbackStays DEF Rollback, CallInv
  <2>5. CASE FulfilOf[a] # NoFulfil
    <3>1. task[a] = "working"
      BY <1>1, <2>1, <2>5 DEF CallInv
    <3>2. CASE CreateOk(a)
      <4>1. task' = [task EXCEPT ![a] = "ok"] /\ told'[a] = name[a] /\ pc'[a] = "created"
            /\ name' = name
        BY <1>0, <3>1, <3>2 DEF CreateOk, AllocateOk
      <4>2. CallInv(a)'
        BY <1>0, <4>1 DEF CallInv, Alive
      <4> QED
        BY <1>4, <2>1, <2>2, <2>5, <3>1, <4>1, <4>2, CallMoves
    <3>3. CASE CreateFails(a)
      <4>1. task' = [task EXCEPT ![a] = "failed"] /\ pc'[a] = "none"
        BY <1>0, <3>1, <3>3 DEF CreateFails, AllocateFails, Forget
      <4>2. CallInv(a)'
        BY <1>0, <4>1 DEF CallInv, Alive
      <4> QED
        BY <1>4, <2>1, <2>2, <2>5, <3>1, <4>1, <4>2, CallMoves
    <3> QED
      BY <1>8, <3>2, <3>3
  <2> QED
    BY <2>4, <2>5
<1>9. CASE UndoStart(a)
  <2>1. FulfilOf[a] # NoFulfil /\ task[a] = "ok" /\ UNCHANGED <<ful, told>>
    BY <1>9 DEF UndoStart
  <2>2. CASE DestroyStart(UndoerOf[a], told[a]) /\ task' = [task EXCEPT ![a] = "undoing"]
    <3>1. UNCHANGED <<pc, name>> /\ dst[UndoerOf[a]].pc = "idle"
          /\ dst'[UndoerOf[a]].pc = "waiting" /\ dst'[UndoerOf[a]].obj = vms[told[a]]
      BY <2>2, HypervisorAssumption DEF DestroyStart, Base, DictInv, TypeOK
    <3>2. Alive(a) => vms[told[a]] = a
      BY <1>1, <2>1 DEF CallInv, Base, DictInv, ListedAreVMs, Alive
    <3>3. CallInv(a)'
      BY <1>0, <1>1, <2>1, <2>2, <3>1, <3>2 DEF CallInv, Undoing, Alive
    <3>4. \A b \in Reqs \ {a} : task[b] = "undoing" => Undoing(b)'
      <4> SUFFICES ASSUME NEW b \in Reqs, task[b] = "undoing" PROVE Undoing(b)'
        OBVIOUS
      <4>1. UndoerOf[a] \in Destroyers /\ told[a] \in Names
        BY <1>0, HypervisorAssumption
      <4>2. UndoerOf[a] = UndoerOf[b] => dst'[UndoerOf[a]].pc # "idle"
        BY <3>1
      <4> QED
        BY <1>4, <2>2, <4>1, <4>2, DestroyKeepsUndoing
    <3> QED
      BY <2>1, <2>2, <3>1, <3>3, <3>4, CallMoves
  <2>3. CASE UNCHANGED vars /\ task' = [task EXCEPT ![a] = "error"]
    <3>1. UNCHANGED <<pc, name, dst>>
      BY <2>3 DEF vars
    <3>2. CallInv(a)'
      BY <1>0, <1>1, <2>1, <2>3, <3>1 DEF CallInv, Alive
    <3> QED
      BY <1>2, <1>4, <2>1, <2>3, <3>1, <3>2, CallMoves
  <2> QED
    BY <1>9, <2>2, <2>3 DEF UndoStart
<1> QED
  BY <1>5, <1>6, <1>7, <1>8, <1>9

\* The steps of the fulfils.
LEMMA RollbackFulfils ==
  ASSUME Base, Rollback, NEW f \in Fulfils,
         FulfilStart(f) \/ FulfilSucceeds(f) \/ FulfilFails(f) \/ FulfilReplies(f)
  PROVE  Rollback'
<1>0. /\ task \in [Reqs -> {"none", "begun", "working", "ok", "failed", "undoing", "undone", "error"}]
      /\ ful \in [Fulfils -> {"idle", "working", "undo", "failed", "error"}]
      /\ told \in [Reqs -> Names]
  BY DEF Base, FulTypes
<1>1. UNCHANGED <<pc, name, dst>>
  BY DEF FulfilStart, FulfilSucceeds, FulfilFails, FulfilReplies, vars
<1>2. \A a \in Reqs : Undoing(a)' <=> Undoing(a)
  BY <1>1 DEF Undoing, Alive
<1>3. NoFulfil \notin Fulfils
  BY HypervisorAssumption
<1>4. \A g \in Fulfils \ {f} : ful'[g] = ful[g]
  BY <1>0 DEF FulfilStart, FulfilSucceeds, FulfilFails, FulfilReplies
<1>5. \A a \in Reqs \ CallsOf(f) : task'[a] = task[a] /\ told'[a] = told[a]
  BY <1>0 DEF FulfilStart, FulfilSucceeds, FulfilFails, FulfilReplies, Over
<1>6. \A a \in Reqs \ CallsOf(f) : CallInv(a)'
  BY <1>1, <1>2, <1>5 DEF Rollback, CallInv, Alive
<1>7. \A a \in Reqs : FulfilOf[a] = NoFulfil => task'[a] = "none"
  BY <1>3, <1>5 DEF Rollback, CallsOf
<1>8. \A g \in Fulfils \ {f} : FulInv(g)'
  BY <1>4, <1>5 DEF Rollback, FulInv, CallsOf
<1>9. ASSUME ful'[f] = "failed" => \A a \in CallsOf(f) : pc[a] = "none"
      PROVE  FailedKeepsNothing'
  BY <1>1, <1>4, <1>9 DEF Rollback, FailedKeepsNothing, CallsOf
<1>10. CASE FulfilStart(f)
  <2>1. ful'[f] = "working" /\ \A a \in CallsOf(f) : task'[a] = "begun" /\ pc[a] = "none"
    BY <1>0, <1>10 DEF FulfilStart, CallsOf
  <2>2. \A a \in CallsOf(f) : CallInv(a)'
    BY <1>1, <2>1 DEF CallInv, Alive
  <2>3. FulInv(f)'
    BY <2>1 DEF FulInv
  <2> QED
    BY <1>6, <1>7, <1>8, <1>9, <2>1, <2>2, <2>3 DEF Rollback
<1>11. CASE FulfilFails(f)
  <2>1. ful'[f] = "undo" /\ UNCHANGED <<task, told>> /\ AllEnd(f)
    BY <1>0, <1>11 DEF FulfilFails
  <2>2. \A a \in Reqs : CallInv(a)'
    BY <1>1, <1>2, <2>1 DEF Rollback, CallInv, Alive
  <2>3. FulInv(f)'
    BY <2>1 DEF FulInv, AllEnd, CallsOf
  <2> QED
    BY <1>7, <1>8, <1>9, <2>1, <2>2, <2>3 DEF Rollback
<1>12. CASE FulfilSucceeds(f) \/ FulfilReplies(f)
  <2>1. \A a \in CallsOf(f) : task'[a] = "none"
    BY <1>12 DEF FulfilSucceeds, FulfilReplies, Over, CallsOf
  <2>2. \A a \in CallsOf(f) : task[a] # "working"
    BY <1>12 DEF FulfilSucceeds, FulfilReplies, Rollback, FulInv
  <2>3. \A a \in CallsOf(f) : pc[a] # "creating"
    BY <1>3, <2>2 DEF Rollback, CallInv, CallsOf
  <2>4. \A a \in CallsOf(f) : CallInv(a)'
    BY <1>1, <2>1, <2>3 DEF CallInv
  <2>5. ful'[f] \in {"idle", "failed", "error"}
    BY <1>0, <1>12 DEF FulfilSucceeds, FulfilReplies
  <2>6. FulInv(f)'
    BY <2>1, <2>5 DEF FulInv, CallsOf
  <2>7. ful'[f] = "failed" => \A a \in CallsOf(f) : pc[a] = "none"
    <3> SUFFICES ASSUME ful'[f] = "failed", NEW a \in CallsOf(f) PROVE pc[a] = "none"
      OBVIOUS
    <3>1. FulfilReplies(f) /\ task[a] # "error"
      BY <1>0, <1>12 DEF FulfilSucceeds, FulfilReplies
    <3>2. task[a] \in {"failed", "undone"}
      BY <3>1 DEF FulfilReplies, Rollback, FulInv
    <3> QED
      BY <3>2 DEF Rollback, CallInv, CallsOf
  <2> QED
    BY <1>6, <1>7, <1>8, <1>9, <2>4, <2>6, <2>7 DEF Rollback
<1> QED
  BY <1>10, <1>11, <1>12

\* The steps of the destroy_vm calls.
LEMMA RollbackDestroys ==
  ASSUME Base, Rollback, NEW d \in Destroyers,
         DestroyStep(d) \/ \E n \in Names : DeleteVm(d, n)
  PROVE  Rollback'
<1>0. /\ pc \in [Reqs -> {"none", "creating", "created"}] /\ name \in [Reqs -> Names]
      /\ task \in [Reqs -> {"none", "begun", "working", "ok", "failed", "undoing", "undone", "error"}]
      /\ dst[d] \in Destructions
  BY DEF Base, DictInv, TypeOK, FulTypes
<1>1. \A a \in Reqs : task[a] = "undoing" => Undoing(a) /\ FulfilOf[a] # NoFulfil
  BY DEF Rollback, CallInv
<1>2. ASSUME NEW n \in Names, DeleteVm(d, n) PROVE Rollback'
  <2>1. UNCHANGED <<ful, task, told, pc, name>> /\ DestroyStart(d, n)
    BY <1>2 DEF DeleteVm, DestroyStart, rest
  <2>2. \A a \in Reqs : task[a] = "undoing" => UndoerOf[a] # d
    BY <1>1, <1>2 DEF DeleteVm, Undoers
  <2>3. \A a \in Reqs : task[a] = "undoing" => Undoing(a)'
    BY <1>1, <2>1, <2>2, DestroyKeepsUndoing
  <2> QED
    BY <2>1, <2>3, RollbackStays DEF Rollback, CallInv
<1>3. CASE DestroyStep(d)
  <2>1. PICK how \in {"error", "undone"} : Returns(d, how) /\ (how = "undone" => DestroyEnds(d))
    BY <1>3 DEF DestroyStep
  <2>2. DestroyLocked(d) \/ DestroyKill(d) \/ DestroyFails(d) \/ DestroyEnds(d)
    BY <1>3 DEF DestroyStep
  <2>3. \A a \in Reqs : /\ pc'[a] = "none" \/ (pc'[a] = pc[a] /\ name'[a] = name[a])
                        /\ pc[a] = "creating" => pc'[a] = "creating"
    <3>1. CASE DestroyEnds(d)
      <4>1. pc[dst[d].obj] = "created"
        BY <3>1 DEF DestroyEnds, Base, DictInv, Lockers, InDestruction
      <4>2. PICK o : o = dst[d].obj /\ pc' = [pc EXCEPT ![o] = "none"] /\ name' = [name EXCEPT ![o] = 0]
        BY <3>1 DEF DestroyEnds, Forget
      <4> QED
        BY <1>0, <4>1, <4>2
    <3>2. CASE DestroyLocked(d) \/ DestroyKill(d) \/ DestroyFails(d)
      BY <3>2 DEF DestroyLocked, DestroyKill, DestroyFails
    <3> QED
      BY <2>2, <3>1, <3>2
  <2>4. UNCHANGED <<ful, told>>
    BY <2>1 DEF Returns
  <2>5. \A a \in Reqs : task'[a] = task[a] \/ (task[a] = "undoing" /\ task'[a] = how)
    BY <2>1 DEF Returns
  <2>6. ASSUME NEW a \in Reqs, task'[a] = "undoing" PROVE Undoing(a)'
    <3>1. task[a] = "undoing" /\ (UndoerOf[a] = d => dst'[d].pc # "idle")
      BY <2>1, <2>6 DEF Returns
    <3> QED
      BY <1>1, <2>2, <3>1, DestroyKeepsUndoing
  <2>7. ASSUME NEW a \in Reqs, task[a] = "undoing", task'[a] = "undone" PROVE pc'[a] = "none"
    <3>1. UndoerOf[a] = d /\ DestroyEnds(d)
      BY <2>1, <2>7 DEF Returns
    <3>2. Alive(a) => dst[d].obj = a
      BY <1>1, <2>7, <3>1 DEF Undoing
    <3> QED
      BY <1>0, <2>3, <3>1, <3>2 DEF DestroyEnds, Forget, Alive
  <2>8. \A a \in Reqs : CallInv(a)'
    <3> SUFFICES ASSUME NEW a \in Reqs PROVE CallInv(a)'
      OBVIOUS
    <3>1. CallInv(a)
      BY DEF Rollback
    <3>2. CASE task'[a] = task[a]
      BY <2>3, <2>4, <2>6, <3>1, <3>2 DEF CallInv, Alive
    <3>3. CASE task[a] = "undoing" /\ task'[a] = how
      BY <2>3, <2>7, <3>1, <3>3 DEF CallInv, Alive
    <3> QED
      BY <2>5, <3>2, <3>3
  <2>9. \A f \in Fulfils : FulInv(f)'
    BY <2>4, <2>5 DEF Rollback, FulInv, CallsOf
  <2>10. FailedKeepsNothing'
    BY <2>3, <2>4 DEF Rollback, FailedKeepsNothing, CallsOf
  <2>11. \A a \in Reqs : FulfilOf[a] = NoFulfil => task'[a] = "none"
    BY <2>5 DEF Rollback
  <2> QED
    BY <2>8, <2>9, <2>10, <2>11 DEF Rollback
<1> QED
  BY <1>2, <1>3

\* fulfill, rest.py: when it answers 500 it has destroyed every VM that it got,
\* whoever else destroys VMs or asks for them meanwhile.
THEOREM FailedFulfilKeepsNothing ==
  ASSUME NameReuse = FALSE
  PROVE  HSpec => []FailedKeepsNothing
<1>1. HInit => Rollback
  BY DEF HInit, Init, Rollback, CallInv, FulInv, FailedKeepsNothing, CallsOf, Alive
<1>2. ASSUME Base, Rollback, [HNext]_hvars PROVE Rollback'
  <2>1. CASE UNCHANGED hvars
    <3>1. UNCHANGED <<pc, name, dst, ful, task, told>>
      BY <2>1 DEF hvars, vars, rest
    <3>2. \A a \in Reqs : Undoing(a)' <=> Undoing(a)
      BY <3>1 DEF Undoing, Alive
    <3> QED
      BY <1>2, <3>1, <3>2, RollbackStays DEF Rollback, CallInv
  <2>2. CASE NoPortLeft
    <3>1. UNCHANGED <<pc, name, dst, ful, told>>
      BY <2>2 DEF NoPortLeft, AllocateNoPort
    <3>2. \A a \in Reqs : Undoing(a)' <=> Undoing(a)
      BY <3>1 DEF Undoing, Alive
    <3>3. CASE UNCHANGED task
      BY <1>2, <3>1, <3>2, <3>3, RollbackStays DEF Rollback, CallInv
    <3>4. ASSUME NEW a \in Reqs, task[a] = "begun", task' = [task EXCEPT ![a] = "failed"]
          PROVE  Rollback'
      <4>1. CallInv(a) /\ FulfilOf[a] # NoFulfil
        BY <1>2, <3>4 DEF Rollback
      <4>2. CallInv(a)'
        BY <1>2, <3>1, <3>4, <4>1 DEF CallInv, Alive, Base, FulTypes
      <4>3. \A b \in Reqs : task[b] = "undoing" => Undoing(b)'
        BY <1>2, <3>2 DEF Rollback, CallInv
      <4> QED
        BY <1>2, <3>1, <3>4, <4>1, <4>2, <4>3, CallMoves
    <3> QED
      BY <2>2, <3>3, <3>4 DEF NoPortLeft
  <2>3. ASSUME NEW K \in SUBSET Reqs, Restart(K) PROVE Rollback'
    BY <2>3 DEF Restart, Rollback, CallInv, FulInv, FailedKeepsNothing, CallsOf, Alive
  <2> QED
    BY <1>2, <2>1, <2>2, <2>3, RollbackCalls, RollbackFulfils, RollbackDestroys DEF HNext
<1>3. Rollback => FailedKeepsNothing
  BY DEF Rollback
<1> QED
  BY <1>1, <1>2, <1>3, BaseAlways, PTL DEF HSpec

------------------------------------------------------------------------------
(***************************************************************************)
(* The refinement of VMResources.  That a resource is in its list once at  *)
(* most makes the lists sets; a VM that is not there has nothing, so that  *)
(* its next creation starts with empty hands.                              *)
(***************************************************************************)
GoneHasNothing == \A a \in Reqs : ~Alive(a) => held[a] = {}

\* What a creation takes is in the lists, and nowhere else afterwards.
LEMMA TakeFromPool ==
  ASSUME Base, NEW S \in Choices, Take(S)
  PROVE  S \subseteq Pooled /\ Pooled' = Pooled \ S
<1>1. S \subseteq Res /\ \A r \in S : free[r] > 0
  BY ChoicesInPools
<1>2. \A r \in Res : free[r] \in {0, 1}
  BY DEF Base, ResInv
<1>3. \A r \in Res : free'[r] = IF r \in S THEN free[r] - 1 ELSE free[r]
  BY DEF Take
<1>4. \A r \in Res : free'[r] > 0 <=> free[r] > 0 /\ r \notin S
  BY <1>1, <1>2, <1>3
<1> QED
  BY <1>1, <1>4 DEF Pooled

\* What a VM gives back is in the lists again.
LEMMA GiveBackToPool ==
  ASSUME Base, NEW a \in Reqs, GiveBack(held[a])
  PROVE  Pooled' = Pooled \cup held[a]
<1>1. held[a] \subseteq Res /\ \A r \in Res : free[r] \in Nat
  BY DEF Base, DictInv, TypeOK
<1>2. \A r \in Res : free'[r] = IF r \in held[a] THEN free[r] + 1 ELSE free[r]
  BY DEF GiveBack
<1>3. \A r \in Res : free'[r] > 0 <=> free[r] > 0 \/ r \in held[a]
  BY <1>1, <1>2
<1> QED
  BY <1>1, <1>3 DEF Pooled

\* Each step of the allocator is one of VMResources.
LEMMA AllocatorResources ==
  ASSUME Base, GoneHasNothing, [Next]_vars
  PROVE  /\ Resources!Next \/ (Pooled' = Pooled /\ held' = held)
         /\ GoneHasNothing'
<1> DEFINE Goal == /\ Resources!Next \/ (Pooled' = Pooled /\ held' = held)
                   /\ GoneHasNothing'
<1>0. /\ held \in [Reqs -> SUBSET Res] /\ pc \in [Reqs -> {"none", "creating", "created"}]
      /\ dst \in [Destroyers -> Destructions]
  BY DEF Base, DictInv, TypeOK
<1>1. ASSUME NEW a \in Reqs, AllocateStart(a) PROVE Goal
  <2>1. PICK S \in Choices : Take(S) /\ held' = [held EXCEPT ![a] = S]
    BY <1>1 DEF AllocateStart
  <2>2. held[a] = {} /\ pc' = [pc EXCEPT ![a] = "creating"]
    BY <1>1 DEF AllocateStart, GoneHasNothing, Alive
  <2>3. S \in SUBSET Pooled /\ Pooled' = Pooled \ S
    BY <2>1, TakeFromPool
  <2>4. Resources!Allocate(a)
    BY <2>1, <2>2, <2>3 DEF Resources!Allocate
  <2>5. GoneHasNothing'
    BY <1>0, <2>1, <2>2 DEF GoneHasNothing, Alive
  <2> QED
    BY <2>4, <2>5 DEF Resources!Next
<1>2. CASE AllocateNoPort
  <2>1. PICK S \in Choices : Take(S)
    BY <1>2 DEF AllocateNoPort
  <2>2. UNCHANGED <<held, pc>>
    BY <1>2 DEF AllocateNoPort
  <2>3. Resources!Lose
    BY <2>1, <2>2, TakeFromPool DEF Resources!Lose
  <2> QED
    BY <2>2, <2>3 DEF Resources!Next, GoneHasNothing, Alive
<1>3. ASSUME UNCHANGED <<free, held>>, \A a \in Reqs : Alive(a) => Alive(a)' PROVE Goal
  BY <1>3 DEF Pooled, GoneHasNothing
<1>4. ASSUME NEW a \in Reqs, GiveBack(held[a]), Forget(a) PROVE Goal
  <2>1. Resources!GiveBack(a)
    BY <1>4, GiveBackToPool DEF Resources!GiveBack, Forget
  <2>2. GoneHasNothing'
    BY <1>0, <1>4 DEF GoneHasNothing, Alive, Forget
  <2> QED
    BY <2>1, <2>2 DEF Resources!Next
<1>5. ASSUME NEW a \in Reqs, AllocateOk(a) PROVE Goal
  <2>1. \A b \in Reqs : Alive(b) => Alive(b)'
    BY <1>0, <1>5 DEF AllocateOk, Alive
  <2> QED
    BY <1>3, <1>5, <2>1 DEF AllocateOk
<1>6. ASSUME NEW a \in Reqs, AllocateFails(a) PROVE Goal
  BY <1>4, <1>6 DEF AllocateFails, FreeAll
<1>7. ASSUME NEW d \in Destroyers,
             \/ \E n \in Names : DestroyStart(d, n)
             \/ DestroyLocked(d) \/ DestroyKill(d) \/ DestroyFails(d)
      PROVE  Goal
  <2>1. UNCHANGED <<free, held, pc>>
    BY <1>7 DEF DestroyStart, DestroyLocked, DestroyKill, DestroyFails
  <2> QED
    BY <1>3, <2>1 DEF Alive
<1>8. ASSUME NEW d \in Destroyers, DestroyEnds(d) PROVE Goal
  <2>1. dst[d].pc = "freeing" /\ GiveBack(dst[d].held) /\ Forget(dst[d].obj)
    BY <1>8 DEF DestroyEnds, FreeAll
  <2>2. Knows(dst[d]) /\ pc[dst[d].obj] = "created"
    BY <2>1 DEF Base, DictInv, Waiters, Lockers, InDestruction
  <2>3. dst[d].obj \in Reqs /\ dst[d].held = held[dst[d].obj]
    BY <2>2 DEF Knows
  <2> QED
    BY <1>4, <2>1, <2>3
<1>9. CASE UNCHANGED vars
  BY <1>3, <1>9 DEF vars, Alive
<1> QED
  BY <1>1, <1>2, <1>5, <1>6, <1>7, <1>8, <1>9 DEF Next

\* restore_vms takes out of full lists what the restored VMs have.
LEMMA RestartResources ==
  ASSUME NEW K \in SUBSET Reqs, Restart(K)
  PROVE  Resources!Restart(K) /\ GoneHasNothing'
<1>1. \A r \in Res : free'[r] > 0 <=> r \notin HeldBy(K)
  BY DEF Restart
<1>2. Pooled' = Res \ UNION {held[a] : a \in K}
  BY <1>1 DEF Pooled, HeldBy
<1> QED
  BY <1>2 DEF Restart, Resources!Restart, GoneHasNothing, Alive

\* allocate_vm, destroy_vm and restore_vms with everything around them implement
\* VMResources: a mac or a GPU goes from one VM to another through the lists only,
\* and a VM never has a part of what it was given.
THEOREM ImplementsResources ==
  ASSUME NameReuse = FALSE
  PROVE  HSpec => ResourcesSpec
<1>1. HInit => Resources!Init /\ GoneHasNothing
  BY DEF HInit, Init, Resources!Init, Pooled, GoneHasNothing
<1>2. Base /\ GoneHasNothing /\ [HNext]_hvars =>
        [Resources!Next]_<<Pooled, held>> /\ GoneHasNothing'
  <2> SUFFICES ASSUME Base, GoneHasNothing, [HNext]_hvars
               PROVE  /\ Resources!Next \/ (Pooled' = Pooled /\ held' = held)
                      /\ GoneHasNothing'
    OBVIOUS
  <2>1. ASSUME NEW K \in SUBSET Reqs, Restart(K) PROVE Resources!Next /\ GoneHasNothing'
    BY <2>1, RestartResources DEF Resources!Next
  <2>2. CASE \A K \in SUBSET Reqs : ~Restart(K)
    BY <2>2, StepIsAllocators, AllocatorResources DEF Base
  <2> QED
    BY <2>1, <2>2
<1> QED
  BY <1>1, <1>2, BaseAlways, PTL DEF HSpec, ResourcesSpec, Resources!Spec
==============================================================================
