------------------------------- MODULE VMManager -------------------------------
(***************************************************************************)
(* The hypervisor's VMManager (resource_managers/hypervisor/vms/           *)
(* vm_manager.py) with what it drives: the image store, the NBD            *)
(* provisioner that puts a filesystem on a disk, the cloud-init ISO, the   *)
(* DHCP handlers and libvirt.                                              *)
(*                                                                         *)
(* A VM is made out of parts that are made at the same time: its boot      *)
(* image, its ISO, its disk, and its address (lease).  The first that      *)
(* fails ends the gather, not the others: they go on while what they have  *)
(* made is deleted, and after.  The Allocator gives a name and a mac       *)
(* address to one VM at a time, but to the next one while such stragglers  *)
(* of the last one are still at work.                                      *)
(***************************************************************************)
EXTENDS Integers, FiniteSets

CONSTANTS
  VMs,          \* numbers: VMs with the same mac are made in their order
  Macs, MacOf,  \* a VM has one network interface, and a disk or none
  Parts,        \* Parts[v]: those of v's parts that are followed
  Bridged,      \* VMs whose interface is in mode "bridge"
  Devices,      \* /dev/nbd*
  Addrs,        \* the range of the libvirt network
  Faults,       \* Faults[v]: what can fail for v
  NoDevice, NoAddr

Files == {"boot", "disk", "iso"}
Part == Files \cup {"lease"}
Fault == Part \cup {"define", "start", "kill", "unlink", "release"}

ASSUME VMManagerAssumption ==
  /\ VMs \subseteq Nat
  /\ MacOf \in [VMs -> Macs] /\ Parts \in [VMs -> SUBSET Part]
  /\ Faults \in [VMs -> SUBSET Fault]
  /\ Bridged \subseteq VMs
  /\ NoDevice \notin Devices /\ NoAddr \notin Addrs

VARIABLES
  stage,   \* where allocate_vm or destroy_vm of each VM is
  undo,    \* whether the destruction is that of a failed creation
  part,    \* part[v][b]: how far part b of v is
  files,   \* files[v]: the parts of v that are on the disk
  dev,     \* the device found for v's disk
  cand,    \* the address chosen for v
  entry,   \* entry[m]: the address libvirt's DHCP server has for mac m
  dom,     \* v's libvirt domain: none, off or on
  todo,    \* files[v] that _delete_storage has still to look at
  rel,     \* _deinit_networks_no_exception: no, run or done
  late,    \* history: parts that were finished after the clean-up ...
  stuck    \* ... and parts that could not be removed

vars == <<stage, undo, part, files, dev, cand, entry, dom, todo, rel, late, stuck>>
making == <<part, dev, cand>>
history == <<late, stuck>>

------------------------------------------------------------------------------
FilesOf(v) == Files \cap Parts[v]

\* The part has still to be made, whether anybody waits for it or not.
InFlight(v, b) == part[v][b] \in {"run", "search", "connect", "mkfs", "add"}

\* The Allocator has got v's name and mac back from whoever had them.
Reserved(v) ==
  \A w \in VMs : MacOf[w] = MacOf[v] /\ w < v => stage[w] \in {"gone", "broken"}

\* allocate_vm: all parts are begun.
Create(v) ==
  /\ stage[v] = "none" /\ Reserved(v)
  /\ stage' = [stage EXCEPT ![v] = "making"]
  /\ part' = [part EXCEPT ![v] = [b \in Part |-> IF b \in Parts[v] THEN "run" ELSE "done"]]
  /\ UNCHANGED <<undo, files, dev, cand, entry, dom, todo, rel, history>>

PartEnds(v, b, how) == part' = [part EXCEPT ![v][b] = how]

\* A file that appears: nobody may be there any more to delete it.
FileMade(v, b) ==
  /\ files' = [files EXCEPT ![v] = @ \cup {b}]
  /\ late' = [late EXCEPT ![v] = IF stage[v] \in {"again", "gone", "broken"} THEN @ \cup {b} ELSE @]

FileDone(v, b, next) ==
  /\ part[v][b] = "run"
  /\ FileMade(v, b)
  /\ PartEnds(v, b, next)
  /\ UNCHANGED <<stage, undo, dev, cand, entry, dom, todo, rel, stuck>>

\* The boot image, on top of a base image that is there.
CloneQcow(v) == FileDone(v, "boot", "done")

GenerateIso(v) == FileDone(v, "iso", "done")

\* A disk goes on to NBDProvisioner.
CreateQcow(v) == FileDone(v, "disk", "search")

\* A device is given back.  Attempts to connect one that fail before the last
\* change nothing.
PartFails(v, b) ==
  /\ InFlight(v, b) /\ b \in Faults[v]
  /\ PartEnds(v, b, "failed")
  /\ dev' = [dev EXCEPT ![v] = IF b = "disk" THEN NoDevice ELSE @]
  /\ UNCHANGED <<stage, undo, files, cand, entry, dom, todo, rel, history>>

------------------------------------------------------------------------------
(* NBDProvisioner                                                          *)

\* Mutant: _allocate_and_connect without device_search_lock.
NoSearchLock == TRUE

SearchLockFree == \A w \in VMs : part[w]["disk"] # "connect"

\* /sys/class/block/nbd*/size is 0
DeviceFree(d) == \A w \in VMs : dev[w] = d => part[w]["disk"] = "connect"

FindDevice(v) ==
  /\ part[v]["disk"] = "search" /\ SearchLockFree
  /\ \E d \in Devices :
       /\ DeviceFree(d)
       /\ dev' = [dev EXCEPT ![v] = d]
  /\ PartEnds(v, "disk", "connect")
  /\ UNCHANGED <<stage, undo, files, cand, entry, dom, todo, rel, history>>

Connect(v) ==
  /\ part[v]["disk"] = "connect"
  /\ PartEnds(v, "disk", "mkfs")
  /\ UNCHANGED <<stage, undo, files, dev, cand, entry, dom, todo, rel, history>>

\* wait_for_predicate_nothrow gives up after ten seconds.
GiveUpSearch(v) ==
  /\ part[v]["disk"] = "search" /\ \A d \in Devices : ~DeviceFree(d)
  /\ PartEnds(v, "disk", "failed")
  /\ UNCHANGED <<stage, undo, files, dev, cand, entry, dom, todo, rel, history>>

\* mkfs; the device is disconnected in any case.
Mkfs(v) ==
  /\ part[v]["disk"] = "mkfs"
  /\ PartEnds(v, "disk", "done")
  /\ dev' = [dev EXCEPT ![v] = NoDevice]
  /\ UNCHANGED <<stage, undo, files, cand, entry, dom, todo, rel, history>>

------------------------------------------------------------------------------
(* DHCP                                                                    *)

\* DHCPRequestor: an ack, or (PartFails) a TimeoutError.  The address is the
\* business of a server elsewhere, and so is its release.
RequestLease(v) ==
  /\ v \in Bridged /\ part[v]["lease"] = "run"
  /\ PartEnds(v, "lease", "done")
  /\ UNCHANGED <<stage, undo, files, dev, cand, entry, dom, todo, rel, history>>

AddrLockFree == \A w \in VMs : part[w]["lease"] # "add"

\* Mutant: get_network_dhcp_info returns the whole range.
AnyAddr == Addrs

FreeAddrs == Addrs \ {entry[m] : m \in Macs}

\* _allocate_ip_sync, under its lock: any free address.
PickAddr(v) ==
  /\ v \notin Bridged /\ part[v]["lease"] = "run" /\ AddrLockFree
  /\ \/ \E a \in FreeAddrs :
          /\ cand' = [cand EXCEPT ![v] = a]
          /\ PartEnds(v, "lease", "add")
     \/ /\ FreeAddrs = {}
        /\ PartEnds(v, "lease", "failed")
        /\ UNCHANGED cand
  /\ UNCHANGED <<stage, undo, files, dev, entry, dom, todo, rel, history>>

\* add_dhcp_entry: ADD_LAST is refused for a mac or an address that has an
\* entry, MODIFY for a mac that has none.
AddEntry(v) ==
  /\ part[v]["lease"] = "add"
  /\ \/ /\ entry[MacOf[v]] # NoAddr \/ cand[v] \notin {entry[m] : m \in Macs}
        /\ entry' = [entry EXCEPT ![MacOf[v]] = cand[v]]
        /\ late' = [late EXCEPT ![v] = IF rel[v] = "done" \/ stage[v] = "broken"
                                       THEN @ \cup {"lease"} ELSE @]
        /\ PartEnds(v, "lease", "done")
     \/ /\ entry[MacOf[v]] = NoAddr /\ cand[v] \in {entry[m] : m \in Macs}
        /\ PartEnds(v, "lease", "failed")
        /\ UNCHANGED <<entry, late>>
  /\ UNCHANGED <<stage, undo, files, dev, cand, dom, todo, rel, stuck>>

------------------------------------------------------------------------------
(* allocate_vm goes on when all parts are done, or when one has failed     *)

\* Mutant: gather with return_exceptions.
AllEnded(v) == \A b \in Part : ~InFlight(v, b)

AllDone(v) == \A b \in Part : part[v][b] = "done"

GatherOk(v) ==
  /\ stage[v] = "making" /\ AllDone(v)
  /\ stage' = [stage EXCEPT ![v] = "define"]
  /\ UNCHANGED <<undo, making, files, entry, dom, todo, rel, history>>

\* libvirt_api.define_vm
Define(v) ==
  /\ stage[v] = "define"
  /\ dom' = [dom EXCEPT ![v] = "off"]
  /\ stage' = [stage EXCEPT ![v] = "start"]
  /\ UNCHANGED <<undo, making, files, entry, todo, rel, history>>

\* libvirt_api.start_vm
Start(v) ==
  /\ stage[v] = "start"
  /\ dom' = [dom EXCEPT ![v] = "on"]
  /\ stage' = [stage EXCEPT ![v] = "up"]
  /\ UNCHANGED <<undo, making, files, entry, todo, rel, history>>

\* POST /vms/{name}/status, which holds the VM's lock as its creation and its
\* destruction do.  libvirt refuses to start what is on and to stop what is off.
StartVM(v) ==
  /\ stage[v] = "up" /\ dom[v] = "off"
  /\ dom' = [dom EXCEPT ![v] = "on"]
  /\ UNCHANGED <<stage, undo, making, files, entry, todo, rel, history>>

StopVM(v) ==
  /\ stage[v] = "up" /\ dom[v] = "on"
  /\ dom' = [dom EXCEPT ![v] = "off"]
  /\ UNCHANGED <<stage, undo, making, files, entry, todo, rel, history>>

\* Mutant: the gather is not over before everything has failed.
AllFailed(v) == stage[v] = "making" /\ \A b \in Parts[v] : part[v][b] = "failed"

Failed(v) ==
  \/ stage[v] = "making" /\ \E b \in Part : part[v][b] = "failed"
  \/ stage[v] \in {"define", "start"} /\ stage[v] \in Faults[v]

\* Mutant: a failed creation deletes the storage only.
StorageOnly == "again"

\* What the except clause begins with: self.destroy_vm(vm).
CleanUp == "kill"

AllocateFails(v) ==
  /\ Failed(v)
  /\ stage' = [stage EXCEPT ![v] = CleanUp]
  /\ undo' = [undo EXCEPT ![v] = TRUE]
  /\ todo' = [todo EXCEPT ![v] = IF CleanUp = "kill" THEN {} ELSE FilesOf(v)]
  /\ UNCHANGED <<making, files, entry, dom, rel, history>>

------------------------------------------------------------------------------
(* destroy_vm                                                              *)

DestroyStart(v) ==
  /\ stage[v] = "up"
  /\ stage' = [stage EXCEPT ![v] = "kill"]
  /\ UNCHANGED <<undo, making, files, entry, dom, todo, rel, history>>

\* kill_by_name, and then both clean-ups at once.
KillByName(v) ==
  /\ stage[v] = "kill"
  /\ dom' = [dom EXCEPT ![v] = "none"]
  /\ stage' = [stage EXCEPT ![v] = "clear"]
  /\ todo' = [todo EXCEPT ![v] = FilesOf(v)]
  /\ rel' = [rel EXCEPT ![v] = "run"]
  /\ UNCHANGED <<undo, making, files, entry, history>>

\* The domain may be off by then.  The caller of destroy_vm gets the
\* exception; allocate_vm logs it and leaves everything as it is.
KillFails(v) ==
  /\ stage[v] = "kill" /\ "kill" \in Faults[v]
  /\ stage' = [stage EXCEPT ![v] = IF undo[v] THEN "broken" ELSE "up"]
  /\ dom' \in {dom, [dom EXCEPT ![v] = IF @ = "on" THEN "off" ELSE @]}
  /\ UNCHANGED <<undo, making, files, entry, todo, rel, history>>

\* _delete_storage looks for the boot image, the disk, the ISO in this order.
Earlier(b) == CASE b = "boot" -> {} [] b = "disk" -> {"boot"} [] b = "iso" -> {"boot", "disk"}

\* Exceptions are swallowed.
DeleteFile(v, b) ==
  /\ b \in todo[v] /\ Earlier(b) \cap todo[v] = {}
  /\ todo' = [todo EXCEPT ![v] = @ \ {b}]
  /\ \/ /\ files' = [files EXCEPT ![v] = @ \ {b}]
        /\ UNCHANGED stuck
     \/ /\ b \in files[v] /\ "unlink" \in Faults[v]
        /\ stuck' = [stuck EXCEPT ![v] = @ \cup {b}]
        /\ UNCHANGED files
  /\ UNCHANGED <<stage, undo, making, entry, dom, rel, late>>

\* remove_dhcp_entry takes no lock.  Exceptions are swallowed.
ReleaseLease(v) ==
  /\ rel[v] = "run"
  /\ rel' = [rel EXCEPT ![v] = "done"]
  /\ \/ /\ entry' = IF v \in Bridged THEN entry ELSE [entry EXCEPT ![MacOf[v]] = NoAddr]
        /\ UNCHANGED stuck
     \/ /\ v \notin Bridged /\ "release" \in Faults[v]
        /\ stuck' = [stuck EXCEPT ![v] = @ \cup {"lease"}]
        /\ UNCHANGED entry
  /\ UNCHANGED <<stage, undo, making, files, dom, todo, late>>

\* Mutant: allocate_vm does not delete the storage a second time.
DeletedOnce(v) == "gone"

AfterDestroy(v) == IF undo[v] THEN "again" ELSE "gone"

\* Mutant: nobody waits for the release of the address.
StorageCleared(v) == todo[v] = {}

Cleared(v) == todo[v] = {} /\ rel[v] = "done"

DestroyEnds(v) ==
  /\ stage[v] = "clear" /\ Cleared(v)
  /\ stage' = [stage EXCEPT ![v] = AfterDestroy(v)]
  /\ todo' = [todo EXCEPT ![v] = IF AfterDestroy(v) = "again" THEN FilesOf(v) ELSE {}]
  /\ UNCHANGED <<undo, making, files, entry, dom, rel, history>>

\* allocate_vm raises.
AllocateEnds(v) ==
  /\ stage[v] = "again" /\ todo[v] = {}
  /\ stage' = [stage EXCEPT ![v] = "gone"]
  /\ UNCHANGED <<undo, making, files, entry, dom, todo, rel, history>>

------------------------------------------------------------------------------
Init ==
  /\ stage = [v \in VMs |-> "none"]
  /\ undo = [v \in VMs |-> FALSE]
  /\ part = [v \in VMs |-> [b \in Part |-> "none"]]
  /\ files = [v \in VMs |-> {}]
  /\ dev = [v \in VMs |-> NoDevice]
  /\ cand = [v \in VMs |-> NoAddr]
  /\ entry = [m \in Macs |-> NoAddr]
  /\ dom = [v \in VMs |-> "none"]
  /\ todo = [v \in VMs |-> {}]
  /\ rel = [v \in VMs |-> "no"]
  /\ late = [v \in VMs |-> {}]
  /\ stuck = [v \in VMs |-> {}]

DiskStep(v) == FindDevice(v) \/ Connect(v) \/ GiveUpSearch(v) \/ Mkfs(v)

LeaseStep(v) == RequestLease(v) \/ PickAddr(v) \/ AddEntry(v)

FileStep(v) == CloneQcow(v) \/ GenerateIso(v) \/ CreateQcow(v)

\* The coroutine of allocate_vm or destroy_vm, and the threads it waits for.
ManagerStep(v) ==
  \/ GatherOk(v) \/ Define(v) \/ Start(v) \/ AllocateFails(v)
  \/ KillByName(v) \/ KillFails(v) \/ DestroyEnds(v) \/ AllocateEnds(v)
  \/ ReleaseLease(v) \/ \E b \in Files : DeleteFile(v, b)

\* What goes on by itself: coroutines, threads, subprocesses.
VMStep(v) == FileStep(v) \/ DiskStep(v) \/ LeaseStep(v) \/ ManagerStep(v)

Next ==
  \E v \in VMs :
    \/ Create(v) \/ DestroyStart(v) \/ StartVM(v) \/ StopVM(v)
    \/ VMStep(v) \/ \E b \in Part : PartFails(v, b)

Spec == Init /\ [][Next]_vars

\* A VM's threads and the event loop do not stop, and whoever holds one of the
\* two locks goes on.
FairSpec == Spec /\ \A v \in VMs : WF_vars(VMStep(v))

------------------------------------------------------------------------------
TypeOK ==
  /\ stage \in [VMs -> {"none", "making", "define", "start", "up", "kill", "clear", "again", "gone", "broken"}]
  /\ undo \in [VMs -> BOOLEAN]
  /\ part \in [VMs -> [Part -> {"none", "run", "search", "connect", "mkfs", "add", "done", "failed"}]]
  /\ files \in [VMs -> SUBSET Files]
  /\ dev \in [VMs -> Devices \cup {NoDevice}]
  /\ cand \in [VMs -> Addrs \cup {NoAddr}]
  /\ entry \in [Macs -> Addrs \cup {NoAddr}]
  /\ dom \in [VMs -> {"none", "off", "on"}]
  /\ todo \in [VMs -> SUBSET Files]
  /\ rel \in [VMs -> {"no", "run", "done"}]
  /\ late \in [VMs -> SUBSET Part]
  /\ stuck \in [VMs -> SUBSET Part]
  /\ \A v \in VMs : rel[v] = "run" => stage[v] = "clear"

\* The device a filesystem is made on has one disk's image behind it, and is
\* free again afterwards.
DeviceOfOne ==
  /\ \A v \in VMs : dev[v] # NoDevice => part[v]["disk"] \in {"connect", "mkfs"}
  /\ \A v, w \in VMs :
       v # w /\ part[v]["disk"] = "mkfs" /\ part[w]["disk"] = "mkfs" => dev[v] # dev[w]

\* The DHCP server has no address for two macs, whatever stragglers do: the lock
\* of _allocate_ip_sync is enough, though a release does not take it.
AddressesUnique ==
  \A m, n \in Macs : m # n /\ entry[m] # NoAddr => entry[m] # entry[n]

\* A VM that is up has all its files, and the address that allocate_vm told,
\* unless a straggler of the last VM with its mac has changed the entry.
UpIsWhole ==
  \A v \in VMs :
    stage[v] = "up" =>
      /\ FilesOf(v) \subseteq files[v]
      /\ v \in Bridged \/ "lease" \notin Parts[v] \/ entry[MacOf[v]] = cand[v]
           \/ \E w \in VMs \ {v} : MacOf[w] = MacOf[v] /\ "lease" \in late[w]

\* A VM that is gone has left nothing on the disks but what could not be
\* removed, and what was finished after the second deletion.
OnlyLateFilesStay ==
  \A v \in VMs : stage[v] = "gone" => files[v] \subseteq late[v] \cup stuck[v]

\* An entry of the DHCP server is that of a VM which has got it and is not
\* destroyed yet, or could not be removed, or was made after the release.
OnlyLateEntriesStay ==
  \A m \in Macs :
    entry[m] # NoAddr =>
      \E v \in VMs \ Bridged :
        /\ MacOf[v] = m
        /\ \/ part[v]["lease"] = "done" /\ stage[v] \notin {"again", "gone"}
           \/ "lease" \in late[v] \cup stuck[v]

\* Every creation ends.
CreationEnds ==
  \A v \in VMs : (stage[v] = "making") ~> (stage[v] \in {"up", "gone", "broken"})

Status ==
  [v \in VMs |->
     CASE stage[v] \in {"none", "up", "gone", "broken"} -> stage[v]
       [] stage[v] \in {"making", "define", "start"} -> "making"
       [] stage[v] = "kill" -> IF undo[v] THEN "making" ELSE "up"
       [] OTHER -> "ending"]

Lifecycle == INSTANCE VMLifecycle WITH st <- Status

\* The VM manager keeps its promise about domains, with failures anywhere.
LifecycleSpec == Lifecycle!Spec
==============================================================================
