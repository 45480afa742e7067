-------------------------- MODULE HypervisorAllocator --------------------------
(***************************************************************************)
(* The hypervisor's Allocator (resource_managers/hypervisor/vms/           *)
(* allocator.py): mac addresses, GPUs and serial ports are given to VMs    *)
(* and taken back.  allocate_vm and destroy_vm are coroutines; a VM is     *)
(* created and destroyed under the lock of its VM object.  Everything      *)
(* allocate_vm does before it waits for the VM manager is one step: the    *)
(* allocator's own lock is never held across an await.                     *)
(*                                                                         *)
(* The VM manager is here what the allocator sees of it: a creation or a   *)
(* destruction takes time, works on the libvirt domain of the VM's *name*, *)
(* and may fail.  A creation that fails leaves no domain.                  *)
(***************************************************************************)
EXTENDS Integers, FiniteSets

CONSTANTS
  Macs, Gpus,   \* the two pools
  Ports,        \* serial ports that can be bound
  MaxVMs,
  Shapes,       \* [macs |-> n, gpus |-> n] of the VMs that are asked for
  Reqs,         \* allocate_vm calls, and the VM objects they make
  Destroyers,   \* destroy_vm calls
  NameReuse,    \* whether a name can be taken again before a destroy_vm of
                \* it, woken because its VM is gone, has run
  NoVM, NoPort

Res == Macs \cup Gpus

\* Names are server-vm-0, server-vm-1, ...: there are never more VMs than
\* MaxVMs, so the search for an unused one ends within twice that.
Names == 0..2 * MaxVMs

ASSUME AllocatorAssumption ==
  /\ IsFiniteSet(Macs) /\ IsFiniteSet(Gpus) /\ Macs \cap Gpus = {}
  /\ MaxVMs \in Nat
  /\ Shapes \subseteq [macs : Nat, gpus : Nat]
  /\ NameReuse \in BOOLEAN
  /\ NoVM \notin Reqs /\ NoPort \notin Ports

VARIABLES
  free,    \* free[r]: how often r is in mac_addresses or gpus_list
  used,    \* sol_used_ports
  vms,     \* vms[n]: the VM object in the dictionary under name n
  pc,      \* each VM object: none, being created, or created
  name, held, port,  \* its name, its macs and GPUs, its serial port
  dst,     \* each destroy_vm call, and what it can reach of its VM object
  dom,     \* dom[n]: the VM whose libvirt domain has name n
  lost     \* macs and GPUs of calls that found no port

vars == <<free, used, vms, pc, name, held, port, dst, dom, lost>>

------------------------------------------------------------------------------
Listed == {n \in Names : vms[n] # NoVM}

\* Mutant: the pool is not checked before it is cut.
WholePool(pool) == pool

\* What is left of a pool: a call that asks for more is refused.
InPool(pool) == {r \in pool : free[r] > 0}

Idle == [pc |-> "idle", name |-> 0, obj |-> NoVM, held |-> {}, port |-> NoPort]

\* `async with vm.lock`: held by the VM's creation or by one destroy_vm.
Locked(a) ==
  \/ pc[a] = "creating"
  \/ \E d \in Destroyers : dst[d].obj = a /\ dst[d].pc \in {"killing", "freeing"}

Referenced(a) == \E d \in Destroyers : dst[d].obj = a

\* Mutant: no search for a name that is not in the dictionary.
NumberOfVMs(n) == n = Cardinality(Listed)

\* The first name at or after len(vms) that is not in the dictionary.
NextName(n) ==
  /\ n >= Cardinality(Listed) /\ n \notin Listed
  /\ \A k \in Names : Cardinality(Listed) <= k /\ k < n => k \in Listed

\* Mutant: the dictionary may grow one VM too far.
RoomForOneMore == Cardinality(Listed) # MaxVMs + 1

\* `self.max_vms == len(self.vms)` refuses.
Room == Cardinality(Listed) # MaxVMs

\* _reserve_gpus and _reserve_macs cut the first ones off the lists.
Take(S) == free' = [r \in Res |-> IF r \in S THEN free[r] - 1 ELSE free[r]]

\* _free_vm_resources extends the lists.
GiveBack(S) == free' = [r \in Res |-> IF r \in S THEN free[r] + 1 ELSE free[r]]

\* What a call that passes the checks on the pools can reserve.
Choices ==
  UNION {{ms \cup gs : ms \in {x \in SUBSET InPool(Macs) : Cardinality(x) = s.macs},
                       gs \in {x \in SUBSET InPool(Gpus) : Cardinality(x) = s.gpus}} : s \in Shapes}

------------------------------------------------------------------------------
(* allocate_vm                                                             *)

\* A destroy_vm waits for the lock of the VM that had the name.
Awaited(n) == \E d \in Destroyers : dst[d].pc # "idle" /\ dst[d].name = n

AllocateStart(a) ==
  /\ pc[a] = "none" /\ ~Referenced(a)
  /\ Room
  /\ \E S \in Choices, p \in Ports \ used, n \in Names :
       /\ NextName(n)
       /\ NameReuse \/ ~Awaited(n)
       /\ Take(S)
       /\ used' = used \cup {p}
       /\ vms' = [vms EXCEPT ![n] = a]
       /\ pc' = [pc EXCEPT ![a] = "creating"]
       /\ name' = [name EXCEPT ![a] = n]
       /\ held' = [held EXCEPT ![a] = S]
       /\ port' = [port EXCEPT ![a] = p]
  /\ UNCHANGED <<dst, dom, lost>>

\* _reserve_free_port gives up, or a bind fails: the call ends with the
\* exception, nothing gives back what was reserved before.
AllocateNoPort ==
  /\ Room
  /\ \E S \in Choices :
       /\ Take(S)
       /\ lost' = lost \cup S
  /\ UNCHANGED <<used, vms, pc, name, held, port, dst, dom>>

AllocateOk(a) ==
  /\ pc[a] = "creating"
  /\ pc' = [pc EXCEPT ![a] = "created"]
  /\ dom' = [dom EXCEPT ![name[a]] = a]
  /\ UNCHANGED <<free, used, vms, name, held, port, dst, lost>>

\* Mutant: the resources of a failed creation are forgotten.
KeepAll(S, p) == UNCHANGED <<free, used>>

\* _free_vm_resources(gpus, networks, sol_port)
FreeAll(S, p) == GiveBack(S) /\ used' = used \ {p}

\* Mutant: the name is left in the dictionary.
KeepListed(n) == UNCHANGED vms

\* `del self.vms[name]`
Unlist(n) == vms' = [vms EXCEPT ![n] = NoVM]

\* Only a destroy_vm that has looked the VM object up still has it.
Forget(a) ==
  /\ pc' = [pc EXCEPT ![a] = "none"]
  /\ name' = [name EXCEPT ![a] = 0]
  /\ held' = [held EXCEPT ![a] = {}]
  /\ port' = [port EXCEPT ![a] = NoPort]

AllocateFails(a) ==
  /\ pc[a] = "creating"
  /\ FreeAll(held[a], port[a])
  /\ Unlist(name[a])
  /\ dom' = [dom EXCEPT ![name[a]] = NoVM]
  /\ Forget(a)
  /\ UNCHANGED <<dst, lost>>

------------------------------------------------------------------------------
(* destroy_vm                                                              *)

\* An unknown name is a KeyError.
DestroyStart(d, n) ==
  /\ dst[d].pc = "idle"
  /\ vms[n] # NoVM
  /\ dst' = [dst EXCEPT ![d] = [pc |-> "waiting", name |-> n, obj |-> vms[n],
                               held |-> held[vms[n]], port |-> port[vms[n]]]]
  /\ UNCHANGED <<free, used, vms, pc, name, held, port, dom, lost>>

\* Mutant: no second look after the wait.
NoCheck(d) == TRUE

\* "double check that vm is not yet deleted": by name.
StillListed(d) == vms[dst[d].name] # NoVM

DestroyLocked(d) ==
  /\ dst[d].pc = "waiting" /\ ~Locked(dst[d].obj)
  /\ dst' = [dst EXCEPT ![d] = IF StillListed(d) THEN [@ EXCEPT !.pc = "killing"] ELSE Idle]
  /\ UNCHANGED <<free, used, vms, pc, name, held, port, dom, lost>>

\* vm_manager.destroy_vm kills the domain by name, and goes on to the disks.
DestroyKill(d) ==
  /\ dst[d].pc = "killing"
  /\ dst' = [dst EXCEPT ![d].pc = "freeing"]
  /\ dom' = [dom EXCEPT ![dst[d].name] = NoVM]
  /\ UNCHANGED <<free, used, vms, pc, name, held, port, lost>>

\* It fails before or after that: the VM stays listed and can be tried again.
DestroyFails(d) ==
  /\ dst[d].pc \in {"killing", "freeing"}
  /\ dst' = [dst EXCEPT ![d] = Idle]
  /\ UNCHANGED <<free, used, vms, pc, name, held, port, dom, lost>>

DestroyEnds(d) ==
  /\ dst[d].pc = "freeing"
  /\ Unlist(dst[d].name)
  /\ FreeAll(dst[d].held, dst[d].port)
  /\ Forget(dst[d].obj)
  /\ dst' = [dst EXCEPT ![d] = Idle]
  /\ UNCHANGED <<dom, lost>>

------------------------------------------------------------------------------
Init ==
  /\ free = [r \in Res |-> 1]
  /\ used = {}
  /\ vms = [n \in Names |-> NoVM]
  /\ pc = [a \in Reqs |-> "none"]
  /\ name = [a \in Reqs |-> 0]
  /\ held = [a \in Reqs |-> {}]
  /\ port = [a \in Reqs |-> NoPort]
  /\ dst = [d \in Destroyers |-> Idle]
  /\ dom = [n \in Names |-> NoVM]
  /\ lost = {}

Next ==
  \/ \E a \in Reqs : AllocateStart(a) \/ AllocateOk(a) \/ AllocateFails(a)
  \/ AllocateNoPort
  \/ \E d \in Destroyers :
       \/ \E n \in Names : DestroyStart(d, n)
       \/ DestroyLocked(d) \/ DestroyKill(d) \/ DestroyFails(d) \/ DestroyEnds(d)

Spec == Init /\ [][Next]_vars

------------------------------------------------------------------------------
Destructions ==
  [pc : {"idle", "waiting", "killing", "freeing"}, name : Names,
   obj : Reqs \cup {NoVM}, held : SUBSET Res, port : Ports \cup {NoPort}]

TypeOK ==
  /\ free \in [Res -> Nat]
  /\ used \subseteq Ports
  /\ vms \in [Names -> Reqs \cup {NoVM}]
  /\ pc \in [Reqs -> {"none", "creating", "created"}]
  /\ name \in [Reqs -> Names]
  /\ held \in [Reqs -> SUBSET Res]
  /\ port \in [Reqs -> Ports \cup {NoPort}]
  /\ dst \in [Destroyers -> Destructions]
  /\ dom \in [Names -> Reqs \cup {NoVM}]
  /\ lost \subseteq Res

\* Each mac and each GPU is in one place: in its pool, with one VM, or lost
\* because a call found no port.  None is given out twice, none disappears.
ResourcesConserved ==
  \A r \in Res :
    LET holders == {a \in Reqs : pc[a] # "none" /\ r \in held[a]}
    IN  \/ free[r] = 1 /\ holders = {} /\ r \notin lost
        \/ free[r] = 0 /\ r \notin lost /\ \E a \in Reqs : holders = {a}
        \/ free[r] = 0 /\ r \in lost /\ holders = {}

\* A serial port is in sol_used_ports exactly as long as one VM has it.
PortsConserved ==
  \A p \in Ports :
    LET holders == {a \in Reqs : pc[a] # "none" /\ port[a] = p}
    IN  \/ p \notin used /\ holders = {}
        \/ p \in used /\ \E a \in Reqs : holders = {a}

\* The dictionary and the VM objects agree.
ListedAreVMs ==
  /\ \A n \in Names : vms[n] # NoVM => pc[vms[n]] # "none" /\ name[vms[n]] = n
  /\ \A a \in Reqs : pc[a] # "none" => vms[name[a]] = a

\* allocate_vm never lets the dictionary grow over max_vms.
WithinMaxVMs == Cardinality(Listed) <= MaxVMs

\* allocator.py:247: a destroy_vm that goes on after its wait destroys the VM
\* that it was called for.
DoubleCheckHolds ==
  \A d \in Destroyers :
    dst[d].pc \in {"killing", "freeing"} => vms[dst[d].name] = dst[d].obj

\* The domain of a VM that is still there goes away only through a destroy_vm
\* that was called for this VM.
KillsItsOwn ==
  [][\A n \in Names :
       dom[n] # NoVM /\ dom'[n] = NoVM /\ pc'[dom[n]] # "none"
         => \E d \in Destroyers : dst[d].pc = "killing" /\ dst[d].obj = dom[n]]_vars
==============================================================================
