------------------------------ MODULE Hypervisor ------------------------------
(***************************************************************************)
(* The hypervisor's process (resource_managers/hypervisor/__main__.py) and *)
(* its REST interface (vms/rest.py) around the Allocator: /fulfill/now     *)
(* allocates several VMs and destroys those it got when one of them        *)
(* fails, and a start reads the VMs back from libvirt (restore_vms).       *)
(*                                                                         *)
(* A serial port is a number, and for a VM that was restored the string    *)
(* that the XML metadata has in its place: sol_used_ports holds it, and no *)
(* number is ever found equal to it.                                       *)
(***************************************************************************)
EXTENDS HypervisorAllocator

CONSTANTS
  Fulfils,      \* calls of /fulfill/now
  FulfilOf,     \* of each allocate_vm call; NoFulfil: one of POST /vms
  UndoerOf,     \* the destroy_vm call that a failed fulfil makes for it
  NoFulfil,
  MaxStarts     \* bound on restarts

Kinds == {"number", "string"}

ASSUME HypervisorAssumption ==
  /\ Ports \subseteq Nat \X Kinds
  /\ \A p \in Ports : <<p[1], "string">> \in Ports
  /\ FulfilOf \in [Reqs -> Fulfils \cup {NoFulfil}]
  /\ UndoerOf \in [Reqs -> Destroyers]
  /\ NoFulfil \notin Fulfils
  /\ MaxStarts \in Nat

VARIABLES
  ful,     \* each fulfil
  task,    \* each of its allocate_vm calls: what has become of it
  told,    \* the name of the VM that it returned
  starts

rest == <<ful, task, told>>
hvars == <<vars, rest, starts>>

CallsOf(f) == {a \in Reqs : FulfilOf[a] = f}
Undoers == {UndoerOf[a] : a \in {x \in Reqs : FulfilOf[x] # NoFulfil}}

------------------------------------------------------------------------------
(* _reserve_free_port                                                      *)

\* Mutant: the port is not bound to see if it is free.
Nobody == {}

\* Numbers on which a VM that is running listens.
Bound == {port[dom[n]][1] : n \in {x \in Names : dom[x] # NoVM}}

PortFree(p) == p[2] = "number" /\ p \notin used /\ p[1] \notin Bound

\* The first one from sol_base_port + len(vms) on.
ReservesPort(a) ==
  LET first == Cardinality(Listed)
  IN  /\ PortFree(port'[a]) /\ port'[a][1] >= first
      /\ \A p \in Ports : PortFree(p) /\ p[1] >= first => p[1] >= port'[a][1]

------------------------------------------------------------------------------
(* POST /vms and DELETE /vms/{name}, DELETE /deallocate/{name}             *)

PostVm(a) ==
  /\ FulfilOf[a] = NoFulfil
  /\ AllocateStart(a) /\ ReservesPort(a)
  /\ UNCHANGED <<rest, starts>>

DeleteVm(d, n) ==
  /\ d \notin Undoers
  /\ DestroyStart(d, n)
  /\ UNCHANGED <<rest, starts>>

------------------------------------------------------------------------------
(* POST /fulfill/now                                                       *)

FulfilStart(f) ==
  /\ ful[f] # "working" /\ ful[f] # "undo"
  /\ \A a \in CallsOf(f) : pc[a] = "none"
  /\ ful' = [ful EXCEPT ![f] = "working"]
  /\ task' = [a \in Reqs |-> IF a \in CallsOf(f) THEN "begun" ELSE task[a]]
  /\ UNCHANGED <<vars, told, starts>>

TaskStart(a) ==
  /\ task[a] = "begun"
  /\ AllocateStart(a) /\ ReservesPort(a)
  /\ task' = [task EXCEPT ![a] = "working"]
  /\ UNCHANGED <<ful, told, starts>>

\* Not enough macs or GPUs, too many VMs, an unknown kind of network.
TaskRefused(a) ==
  /\ task[a] = "begun"
  /\ task' = [task EXCEPT ![a] = "failed"]
  /\ UNCHANGED <<vars, ful, told, starts>>

NoPortLeft ==
  /\ AllocateNoPort
  /\ \/ UNCHANGED task
     \/ \E a \in Reqs : task[a] = "begun" /\ task' = [task EXCEPT ![a] = "failed"]
  /\ UNCHANGED <<ful, told, starts>>

CreateOk(a) ==
  /\ AllocateOk(a)
  /\ task' = [task EXCEPT ![a] = IF @ = "working" THEN "ok" ELSE @]
  /\ told' = [told EXCEPT ![a] = IF task[a] = "working" THEN name[a] ELSE @]
  /\ UNCHANGED <<ful, starts>>

CreateFails(a) ==
  /\ AllocateFails(a)
  /\ task' = [task EXCEPT ![a] = IF @ = "working" THEN "failed" ELSE @]
  /\ UNCHANGED <<ful, told, starts>>

\* The calls of f have nothing to tell any more.
Over(f) ==
  /\ task' = [a \in Reqs |-> IF a \in CallsOf(f) THEN "none" ELSE task[a]]
  /\ told' = [a \in Reqs |-> IF a \in CallsOf(f) THEN 0 ELSE told[a]]

FulfilSucceeds(f) ==
  /\ ful[f] = "working" /\ \A a \in CallsOf(f) : task[a] = "ok"
  /\ ful' = [ful EXCEPT ![f] = "idle"]
  /\ Over(f)
  /\ UNCHANGED <<vars, starts>>

\* Mutant: the exceptions of gather are not waited for.
FirstFails(f) == \E a \in CallsOf(f) : task[a] = "failed"

\* gather with return_exceptions: every call has ended.
AllEnd(f) ==
  /\ \A a \in CallsOf(f) : task[a] \in {"ok", "failed"}
  /\ \E a \in CallsOf(f) : task[a] = "failed"

FulfilFails(f) ==
  /\ ful[f] = "working" /\ AllEnd(f)
  /\ ful' = [ful EXCEPT ![f] = "undo"]
  /\ UNCHANGED <<vars, task, told, starts>>

\* self.allocator.destroy_vm(vm.name)
UndoStart(a) ==
  /\ FulfilOf[a] # NoFulfil /\ ful[FulfilOf[a]] = "undo" /\ task[a] = "ok"
  /\ \/ /\ DestroyStart(UndoerOf[a], told[a])
        /\ task' = [task EXCEPT ![a] = "undoing"]
     \/ /\ vms[told[a]] = NoVM
        /\ task' = [task EXCEPT ![a] = "error"]
        /\ UNCHANGED vars
  /\ UNCHANGED <<ful, told, starts>>

\* A destroy_vm has come back to the fulfil that called it.
Returns(d, how) ==
  /\ task' = [a \in Reqs |-> IF task[a] = "undoing" /\ UndoerOf[a] = d /\ dst'[d].pc = "idle"
                             THEN how ELSE task[a]]
  /\ UNCHANGED <<ful, told, starts>>

DestroyStep(d) ==
  \/ DestroyLocked(d) /\ Returns(d, "error")
  \/ DestroyKill(d) /\ Returns(d, "error")
  \/ DestroyFails(d) /\ Returns(d, "error")
  \/ DestroyEnds(d) /\ Returns(d, "undone")

\* No destroy_vm is left: status 500, or the exception of one of them.
FulfilReplies(f) ==
  /\ ful[f] = "undo" /\ \A a \in CallsOf(f) : task[a] \notin {"ok", "undoing"}
  /\ ful' = [ful EXCEPT ![f] = IF \E a \in CallsOf(f) : task[a] = "error" THEN "error" ELSE "failed"]
  /\ Over(f)
  /\ UNCHANGED <<vars, starts>>

------------------------------------------------------------------------------
(* restore_vms, before the web application is there                        *)

\* Domains that the last process has left: those of its VMs, and of some that
\* it was about to make.
Restorable ==
  {a \in Reqs : \/ pc[a] = "creating"
                \/ pc[a] = "created" /\ dom[name[a]] = a}

\* Mutant: the GPUs of restored VMs stay in gpus_list.
MacsOf(K) == UNION {held[a] \cap Macs : a \in K}

HeldBy(K) == UNION {held[a] : a \in K}

\* K is restored: its storage is valid, its devices are in the configuration,
\* its addresses were had again, and it has networks at all.  The others are
\* destroyed.  With --delete-vms K is empty.
Restart(K) ==
  /\ starts < MaxStarts
  /\ K \subseteq Restorable /\ \A a \in K : held[a] \cap Macs # {}
  /\ starts' = starts + 1
  /\ free' = [r \in Res |-> IF r \in HeldBy(K) THEN 0 ELSE 1]
  /\ used' = {<<port[a][1], "string">> : a \in K}
  /\ vms' = [n \in Names |-> IF vms[n] \in K THEN vms[n] ELSE NoVM]
  /\ dom' = [n \in Names |-> IF vms[n] \in K THEN vms[n] ELSE NoVM]
  /\ pc' = [a \in Reqs |-> IF a \in K THEN "created" ELSE "none"]
  /\ name' = [a \in Reqs |-> IF a \in K THEN name[a] ELSE 0]
  /\ held' = [a \in Reqs |-> IF a \in K THEN held[a] ELSE {}]
  /\ port' = [a \in Reqs |-> IF a \in K THEN <<port[a][1], "string">> ELSE NoPort]
  /\ dst' = [d \in Destroyers |-> Idle]
  /\ lost' = {}
  /\ ful' = [f \in Fulfils |-> "idle"]
  /\ task' = [a \in Reqs |-> "none"]
  /\ told' = [a \in Reqs |-> 0]

------------------------------------------------------------------------------
HInit ==
  /\ Init
  /\ ful = [f \in Fulfils |-> "idle"]
  /\ task = [a \in Reqs |-> "none"]
  /\ told = [a \in Reqs |-> 0]
  /\ starts = 0

HNext ==
  \/ \E a \in Reqs :
       \/ PostVm(a) \/ TaskStart(a) \/ TaskRefused(a)
       \/ CreateOk(a) \/ CreateFails(a) \/ UndoStart(a)
  \/ NoPortLeft
  \/ \E f \in Fulfils :
       FulfilStart(f) \/ FulfilSucceeds(f) \/ FulfilFails(f) \/ FulfilReplies(f)
  \/ \E d \in Destroyers : DestroyStep(d) \/ \E n \in Names : DeleteVm(d, n)
  \/ \E K \in SUBSET Reqs : Restart(K)

HSpec == HInit /\ [][HNext]_hvars

------------------------------------------------------------------------------
\* A fulfil that answers 500 has kept none of its VMs (rest.py:75-79).
FailedKeepsNothing ==
  \A f \in Fulfils : ful[f] = "failed" => \A a \in CallsOf(f) : pc[a] = "none"

\* No two VMs that run have the same serial port, although the port of a
\* restored VM is not found in sol_used_ports: binding it fails.
PortsApart ==
  \A m, n \in Names :
    m # n /\ dom[m] # NoVM /\ dom[n] # NoVM => port[dom[m]][1] # port[dom[n]][1]

\* The macs and GPUs that are in their lists.
Pooled == {r \in Res : free[r] > 0}

Resources == INSTANCE VMResources WITH VMs <- Reqs, pool <- Pooled, of <- held

\* The promise of VMResources: through creations and destructions that fail,
\* roll-backs and restarts, a VM has what it was given and gets no other's.
ResourcesSpec == Resources!Spec
==============================================================================
