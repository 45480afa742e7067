---------------------------- MODULE VMManagerProofs ----------------------------
(***************************************************************************)
(* What the VM manager guarantees for any number of VMs, devices and       *)
(* addresses, and failures anywhere: nothing is in two hands, and what     *)
(* stays after a VM is what late parts and failed removals have left.      *)
(***************************************************************************)
EXTENDS VMManager, TLAPS

Progress == {"none", "run", "search", "connect", "mkfs", "add", "done", "failed"}

\* The steps that make parts, and those of allocate_vm and destroy_vm.
PartStep(v) ==
  FileStep(v) \/ DiskStep(v) \/ LeaseStep(v) \/ \E b \in Part : PartFails(v, b)

ManagerMoves(v) ==
  ManagerStep(v) \/ DestroyStart(v) \/ StartVM(v) \/ StopVM(v)

LEMMA StepCases ==
  ASSUME [Next]_vars
  PROVE  \/ UNCHANGED vars
         \/ \E v \in VMs : Create(v) \/ PartStep(v) \/ ManagerMoves(v)
  BY DEF Next, VMStep, PartStep, ManagerMoves

\* One part of one VM moves, and no other.
LEMMA PartMoves ==
  ASSUME part \in [VMs -> [Part -> Progress]], NEW v \in VMs, NEW b \in Part,
         NEW how \in Progress, PartEnds(v, b, how)
  PROVE  /\ part' \in [VMs -> [Part -> Progress]]
         /\ part'[v][b] = how
         /\ \A w \in VMs, c \in Part : w # v \/ c # b => part'[w][c] = part[w][c]
<1>1. PICK p \in [Part -> Progress] : p = [part[v] EXCEPT ![b] = how]
  OBVIOUS
<1>2. part' = [part EXCEPT ![v] = p]
  BY <1>1 DEF PartEnds
<1>3. p[b] = how /\ \A c \in Part : c # b => p[c] = part[v][c]
  BY <1>1
<1> QED
  BY <1>2, <1>3

\* vm_manager.py, storage.py, dhcp_handlers.py: the records keep their types,
\* and an address is released only between the kill and the end of destroy_vm.
LEMMA TypeInductive == TypeOK /\ [Next]_vars => TypeOK'
<1> SUFFICES ASSUME TypeOK, [Next]_vars PROVE TypeOK'
  OBVIOUS
<1>1. part \in [VMs -> [Part -> Progress]] /\ "disk" \in Part /\ "lease" \in Part /\ Files \subseteq Part
  BY DEF TypeOK, Progress, Part, Files
<1>2. ASSUME NEW v \in VMs, Create(v) PROVE TypeOK'
  <2>1. [b \in Part |-> IF b \in Parts[v] THEN "run" ELSE "done"] \in [Part -> Progress]
    BY DEF Progress
  <2>2. part' \in [VMs -> [Part -> Progress]]
    BY <1>1, <1>2, <2>1 DEF Create
  <2> QED
    BY <1>2, <2>2 DEF TypeOK, Create, history, Progress
<1>3. ASSUME NEW v \in VMs, NEW b \in Files, NEW next \in Progress, FileDone(v, b, next) PROVE TypeOK'
  <2>1. part' \in [VMs -> [Part -> Progress]]
    BY <1>1, <1>3, PartMoves DEF FileDone
  <2>2. /\ files' \in [VMs -> SUBSET Files] /\ late' \in [VMs -> SUBSET Part]
    BY <1>1, <1>3 DEF TypeOK, FileDone, FileMade
  <2> QED
    BY <1>3, <2>1, <2>2 DEF TypeOK, FileDone, Progress
<1>4. ASSUME NEW v \in VMs, FileStep(v) PROVE TypeOK'
  BY <1>3, <1>4 DEF FileStep, CloneQcow, GenerateIso, CreateQcow, Files, Progress
<1>5. ASSUME NEW v \in VMs, DiskStep(v) PROVE TypeOK'
  <2>1. \E how \in Progress : PartEnds(v, "disk", how)
    BY <1>5 DEF DiskStep, FindDevice, Connect, GiveUpSearch, Mkfs, Progress
  <2>2. part' \in [VMs -> [Part -> Progress]]
    BY <1>1, <2>1, PartMoves
  <2>3. dev' \in [VMs -> Devices \cup {NoDevice}]
    BY <1>5 DEF TypeOK, DiskStep, FindDevice, Connect, GiveUpSearch, Mkfs
  <2>4. UNCHANGED <<stage, undo, files, cand, entry, dom, todo, rel, history>>
    BY <1>5 DEF DiskStep, FindDevice, Connect, GiveUpSearch, Mkfs
  <2> QED
    BY <2>2, <2>3, <2>4 DEF TypeOK, Progress, history
<1>6. ASSUME NEW v \in VMs, LeaseStep(v) PROVE TypeOK'
  <2>1. \E how \in Progress : PartEnds(v, "lease", how)
    BY <1>6 DEF LeaseStep, RequestLease, PickAddr, AddEntry, Progress
  <2>2. part' \in [VMs -> [Part -> Progress]]
    BY <1>1, <2>1, PartMoves
  <2>3. cand' \in [VMs -> Addrs \cup {NoAddr}]
    BY <1>6 DEF TypeOK, LeaseStep, RequestLease, PickAddr, AddEntry, FreeAddrs
  <2>4. entry' \in [Macs -> Addrs \cup {NoAddr}] /\ late' \in [VMs -> SUBSET Part]
    <3>1. UNCHANGED <<entry, late>> \/ AddEntry(v)
      BY <1>6 DEF LeaseStep, RequestLease, PickAddr, history
    <3>2. late[v] \cup {"lease"} \in SUBSET Part /\ cand[v] \in Addrs \cup {NoAddr}
      BY <1>1 DEF TypeOK
    <3>3. UNCHANGED late \/ \E S \in SUBSET Part : late' = [late EXCEPT ![v] = S]
      BY <1>1, <3>1, <3>2 DEF AddEntry, TypeOK
    <3>4. UNCHANGED entry \/ \E a \in Addrs \cup {NoAddr} : entry' = [entry EXCEPT ![MacOf[v]] = a]
      BY <3>1, <3>2 DEF AddEntry
    <3> QED
      BY <3>3, <3>4 DEF TypeOK
  <2>5. UNCHANGED <<stage, undo, files, dev, dom, todo, rel, stuck>>
    BY <1>6 DEF LeaseStep, RequestLease, PickAddr, AddEntry, history
  <2> QED
    BY <2>2, <2>3, <2>4, <2>5 DEF TypeOK, Progress
<1>7. ASSUME NEW v \in VMs, NEW b \in Part, PartFails(v, b) PROVE TypeOK'
  <2>1. part' \in [VMs -> [Part -> Progress]]
    BY <1>1, <1>7, PartMoves DEF PartFails, Progress
  <2> QED
    BY <1>7, <2>1 DEF TypeOK, PartFails, history, Progress
<1>8. ASSUME NEW v \in VMs, ManagerMoves(v) PROVE TypeOK'
  <2> USE DEF TypeOK, making, history
  <2>1. CASE GatherOk(v) \/ Define(v) \/ Start(v)
    BY <2>1 DEF GatherOk, Define, Start
  <2>2. CASE StartVM(v) \/ StopVM(v)
    BY <2>2 DEF StartVM, StopVM
  <2>3. CASE AllocateFails(v)
    <3>1. stage[v] # "clear"
      BY <2>3 DEF AllocateFails, Failed
    <3> QED
      BY <2>3, <3>1 DEF AllocateFails, CleanUp
  <2>4. CASE DestroyStart(v)
    BY <2>4 DEF DestroyStart
  <2>5. CASE KillByName(v)
    BY <2>5 DEF KillByName, FilesOf
  <2>6. CASE KillFails(v)
    BY <2>6 DEF KillFails
  <2>7. ASSUME NEW b \in Files, DeleteFile(v, b) PROVE TypeOK'
    <3>1. /\ todo' = [todo EXCEPT ![v] = todo[v] \ {b}]
          /\ UNCHANGED <<stage, undo, making, entry, dom, rel, late>>
          /\ \/ files' = [files EXCEPT ![v] = files[v] \ {b}] /\ UNCHANGED stuck
             \/ stuck' = [stuck EXCEPT ![v] = stuck[v] \cup {b}] /\ UNCHANGED files
      BY <2>7 DEF DeleteFile
    <3>2. /\ todo[v] \ {b} \in SUBSET Files /\ files[v] \ {b} \in SUBSET Files
          /\ stuck[v] \cup {b} \in SUBSET Part
      BY <1>1
    <3> QED
      BY <3>1, <3>2
  <2>8. CASE ReleaseLease(v)
    BY <1>1, <2>8 DEF ReleaseLease
  <2>9. CASE DestroyEnds(v)
    BY <2>9 DEF DestroyEnds, AfterDestroy, Cleared, FilesOf
  <2>10. CASE AllocateEnds(v)
    BY <2>10 DEF AllocateEnds
  <2> QED
    BY <1>8, <2>1, <2>2, <2>3, <2>4, <2>5, <2>6, <2>7, <2>8, <2>9, <2>10 DEF ManagerMoves, ManagerStep
<1>9. CASE UNCHANGED vars
  BY <1>9 DEF TypeOK, vars
<1> QED
  BY <1>2, <1>4, <1>5, <1>6, <1>7, <1>8, <1>9, StepCases DEF PartStep

LEMMA TypeInit == Init => TypeOK
  BY DEF Init, TypeOK

\* TypeOK, for any VMs and any faults.
THEOREM Typing == Spec => []TypeOK
  BY TypeInit, TypeInductive, PTL DEF Spec

------------------------------------------------------------------------------
(* What a step touches                                                     *)

\* A part that is made leaves the coroutines alone.
LEMMA PartFrame ==
  ASSUME TypeOK, NEW v \in VMs, PartStep(v)
  PROVE  /\ \E b \in Part, how \in Progress \ {"run"} : InFlight(v, b) /\ PartEnds(v, b, how)
         /\ UNCHANGED <<stage, undo, dom, todo, rel, stuck>>
<1>0. "disk" \in Part /\ "lease" \in Part /\ Files \subseteq Part
  BY DEF Part, Files
<1>1. CASE FileStep(v)
  BY <1>0, <1>1 DEF FileStep, CloneQcow, GenerateIso, CreateQcow, FileDone, InFlight, Progress, Files
<1>2. CASE DiskStep(v)
  BY <1>0, <1>2 DEF DiskStep, FindDevice, Connect, GiveUpSearch, Mkfs, InFlight, Progress, history
<1>3. CASE LeaseStep(v)
  BY <1>0, <1>3 DEF LeaseStep, RequestLease, PickAddr, AddEntry, InFlight, Progress, history
<1>4. ASSUME NEW b \in Part, PartFails(v, b)
      PROVE  InFlight(v, b) /\ PartEnds(v, b, "failed") /\ UNCHANGED <<stage, undo, dom, todo, rel, stuck>>
  BY <1>4 DEF PartFails, history
<1> QED
  BY <1>1, <1>2, <1>3, <1>4 DEF PartStep, Progress

\* _delete_storage is at work in destroy_vm and after it only.
Clearing == \A v \in VMs : todo[v] # {} => stage[v] \in {"clear", "again"}

\* No part is begun before its VM.
Unbegun == \A v \in VMs, b \in Part : stage[v] = "none" => part[v][b] = "none"

Base == TypeOK /\ Clearing /\ Unbegun

\* The coroutines leave the making of parts alone; none goes back to the start.
LEMMA ManagerFrame ==
  ASSUME TypeOK, Clearing, NEW v \in VMs, ManagerMoves(v)
  PROVE  /\ UNCHANGED <<part, dev, cand, late>>
         /\ stage[v] # "none"
         /\ stage'[v] # "none"
         /\ \A w \in VMs : w # v => stage'[w] = stage[w] /\ undo'[w] = undo[w]
<1> USE DEF making, history
<1>1. CASE GatherOk(v) \/ Define(v) \/ Start(v) \/ StartVM(v) \/ StopVM(v) \/ DestroyStart(v)
  BY <1>1 DEF TypeOK, GatherOk, Define, Start, StartVM, StopVM, DestroyStart
<1>2. CASE AllocateFails(v)
  BY <1>2 DEF TypeOK, AllocateFails, Failed, CleanUp
<1>3. CASE KillByName(v) \/ KillFails(v)
  BY <1>3 DEF TypeOK, KillByName, KillFails
<1>4. CASE DestroyEnds(v) \/ AllocateEnds(v)
  BY <1>4 DEF TypeOK, DestroyEnds, AllocateEnds, AfterDestroy
<1>5. CASE ReleaseLease(v)
  BY <1>5 DEF TypeOK, ReleaseLease
<1>6. ASSUME NEW b \in Files, DeleteFile(v, b)
      PROVE  UNCHANGED <<part, dev, cand, late, stage, undo>> /\ stage[v] # "none"
  BY <1>6 DEF DeleteFile, Clearing
<1> QED
  BY <1>1, <1>2, <1>3, <1>4, <1>5, <1>6 DEF ManagerMoves, ManagerStep

LEMMA BaseInductive == Base /\ [Next]_vars => Base'
<1> SUFFICES ASSUME Base, [Next]_vars PROVE Base'
  OBVIOUS
<1>0. TypeOK /\ TypeOK' /\ Clearing /\ Unbegun
  BY TypeInductive DEF Base
<1>1. ASSUME NEW v \in VMs, Create(v) PROVE Clearing' /\ Unbegun'
  BY <1>0, <1>1 DEF Create, Clearing, Unbegun, TypeOK
<1>2. ASSUME NEW v \in VMs, PartStep(v) PROVE Clearing' /\ Unbegun'
  <2>1. UNCHANGED <<stage, todo>>
    BY <1>0, <1>2, PartFrame
  <2>2. PICK b \in Part, how \in Progress \ {"run"} : InFlight(v, b) /\ PartEnds(v, b, how)
    BY <1>0, <1>2, PartFrame
  <2>3. stage[v] # "none"
    BY <1>0, <2>1, <2>2 DEF Unbegun, InFlight
  <2>4. \A w \in VMs, c \in Part : w # v => part'[w][c] = part[w][c]
    BY <1>0, <2>2, PartMoves DEF TypeOK, Progress
  <2> QED
    BY <1>0, <2>1, <2>3, <2>4 DEF Clearing, Unbegun
<1>3. ASSUME NEW v \in VMs, ManagerMoves(v) PROVE Clearing' /\ Unbegun'
  <2>1. Unbegun'
    BY <1>0, <1>3, ManagerFrame DEF Unbegun
  <2>2. CASE GatherOk(v) \/ Define(v) \/ Start(v) \/ StartVM(v) \/ StopVM(v) \/ DestroyStart(v) \/ KillFails(v)
    BY <1>0, <2>1, <2>2 DEF TypeOK, Clearing, GatherOk, Define, Start, StartVM, StopVM, DestroyStart, KillFails
  <2>3. CASE AllocateFails(v)
    BY <1>0, <2>1, <2>3 DEF TypeOK, Clearing, AllocateFails, CleanUp
  <2>4. CASE KillByName(v)
    <3>1. stage'[v] = "clear" /\ \A w \in VMs : w # v => stage'[w] = stage[w] /\ todo'[w] = todo[w]
      BY <1>0, <2>4 DEF TypeOK, KillByName
    <3> QED
      BY <1>0, <2>1, <3>1 DEF Clearing
  <2>8. CASE AllocateEnds(v)
    <3>1. todo' = todo /\ todo[v] = {} /\ \A w \in VMs : w # v => stage'[w] = stage[w]
      BY <1>0, <2>8 DEF TypeOK, AllocateEnds
    <3> QED
      BY <1>0, <2>1, <3>1 DEF Clearing
  <2>7. CASE DestroyEnds(v)
    <3>1. stage'[v] = "again" \/ todo'[v] = {}
      BY <1>0, <2>7 DEF TypeOK, DestroyEnds, AfterDestroy
    <3>2. \A w \in VMs : w # v => stage'[w] = stage[w] /\ todo'[w] = todo[w]
      BY <1>0, <2>7 DEF TypeOK, DestroyEnds
    <3> QED
      BY <1>0, <2>1, <3>1, <3>2 DEF TypeOK, Clearing
  <2>5. CASE ReleaseLease(v)
    BY <1>0, <2>1, <2>5 DEF Clearing, ReleaseLease
  <2>6. ASSUME NEW b \in Files, DeleteFile(v, b) PROVE Clearing'
    BY <1>0, <2>6 DEF TypeOK, Clearing, DeleteFile
  <2> QED
    BY <1>3, <2>1, <2>2, <2>3, <2>4, <2>5, <2>6, <2>7, <2>8 DEF ManagerMoves, ManagerStep
<1>4. ASSUME UNCHANGED vars PROVE Clearing' /\ Unbegun'
  BY <1>0, <1>4 DEF Clearing, Unbegun, vars
<1> QED
  BY <1>0, <1>1, <1>2, <1>3, <1>4, StepCases DEF Base

LEMMA BaseInit == Init => Base
  BY TypeInit DEF Init, Base, Clearing, Unbegun

------------------------------------------------------------------------------
(***************************************************************************)
(* NBD devices.  A disk that has its device connected, or is connecting    *)
(* it, keeps others from taking it: a device in /sys has a size only once  *)
(* it is connected, so it is the search lock that keeps two disks apart    *)
(* until then.                                                             *)
(***************************************************************************)
HasDevice(v) == part[v]["disk"] \in {"connect", "mkfs"}

OneConnects ==
  \A v, w \in VMs : part[v]["disk"] = "connect" /\ part[w]["disk"] = "connect" => v = w

DevInv ==
  /\ \A v \in VMs : dev[v] # NoDevice => HasDevice(v)
  /\ \A v \in VMs : HasDevice(v) => dev[v] # NoDevice
  /\ OneConnects
  /\ \A v, w \in VMs : v # w /\ HasDevice(v) /\ HasDevice(w) => dev[v] # dev[w]

\* storage.py:34-66
LEMMA DevInductive == Base /\ DevInv /\ [Next]_vars => DevInv'
<1> SUFFICES ASSUME Base, DevInv, [Next]_vars PROVE DevInv'
  OBVIOUS
<1>0. /\ TypeOK /\ TypeOK' /\ Clearing /\ Unbegun
      /\ part \in [VMs -> [Part -> Progress]] /\ "disk" \in Part /\ "lease" \in Part
  BY TypeInductive DEF Base, TypeOK, Progress, Part, Files
<1>1. ASSUME NEW v \in VMs, Create(v) PROVE DevInv'
  <2>1. ~HasDevice(v) /\ dev[v] = NoDevice /\ dev' = dev
    BY <1>0, <1>1 DEF Create, Unbegun, HasDevice, DevInv
  <2>2. /\ part'[v]["disk"] \notin {"connect", "mkfs"}
        /\ \A w \in VMs : w # v => part'[w]["disk"] = part[w]["disk"]
    BY <1>0, <1>1 DEF Create
  <2> QED
    BY <2>1, <2>2 DEF DevInv, HasDevice, OneConnects
<1>2. ASSUME NEW v \in VMs, NEW b \in Part, NEW how \in Progress, b # "disk", PartEnds(v, b, how),
             UNCHANGED dev
      PROVE  DevInv'
  <2>1. \A w \in VMs : part'[w]["disk"] = part[w]["disk"]
    BY <1>0, <1>2, PartMoves
  <2> QED
    BY <1>2, <2>1 DEF DevInv, HasDevice, OneConnects
<1>3. ASSUME NEW v \in VMs, NEW how \in Progress \ {"connect", "mkfs"},
             PartEnds(v, "disk", how), dev' = [dev EXCEPT ![v] = NoDevice]
      PROVE  DevInv'
  <2>1. part'[v]["disk"] = how /\ \A w \in VMs : w # v => part'[w]["disk"] = part[w]["disk"]
    BY <1>0, <1>3, PartMoves
  <2>2. dev'[v] = NoDevice /\ \A w \in VMs : w # v => dev'[w] = dev[w]
    BY <1>0, <1>3 DEF TypeOK
  <2> QED
    BY <2>1, <2>2 DEF DevInv, HasDevice, OneConnects
<1>4. ASSUME NEW v \in VMs, part[v]["disk"] \in {"run", "search"}, NEW how \in Progress \ {"connect", "mkfs"},
             PartEnds(v, "disk", how), dev' = dev
      PROVE  DevInv'
  <2>1. part'[v]["disk"] = how /\ \A w \in VMs : w # v => part'[w]["disk"] = part[w]["disk"]
    BY <1>0, <1>4, PartMoves
  <2>2. dev[v] = NoDevice
    BY <1>4 DEF DevInv, HasDevice
  <2> QED
    BY <1>4, <2>1, <2>2 DEF DevInv, HasDevice, OneConnects
<1>5. ASSUME NEW v \in VMs, FileStep(v) PROVE DevInv'
  <2>1. CASE CloneQcow(v)
    BY <1>2, <2>1 DEF CloneQcow, FileDone, Progress, Part, Files
  <2>2. CASE GenerateIso(v)
    BY <1>2, <2>2 DEF GenerateIso, FileDone, Progress, Part, Files
  <2>3. CASE CreateQcow(v)
    BY <1>4, <2>3 DEF CreateQcow, FileDone, Progress
  <2> QED
    BY <1>5, <2>1, <2>2, <2>3 DEF FileStep
<1>6. ASSUME NEW v \in VMs, DiskStep(v) PROVE DevInv'
  <2>1. CASE FindDevice(v)
    <3>1. PICK d \in Devices : DeviceFree(d) /\ dev' = [dev EXCEPT ![v] = d]
      BY <2>1 DEF FindDevice
    <3>2. part'[v]["disk"] = "connect" /\ \A w \in VMs : w # v => part'[w]["disk"] = part[w]["disk"]
      BY <1>0, <2>1, PartMoves DEF FindDevice, Progress
    <3>3. dev'[v] = d /\ d # NoDevice /\ \A w \in VMs : w # v => dev'[w] = dev[w]
      BY <1>0, <3>1, VMManagerAssumption DEF TypeOK
    <3>4. \A w \in VMs : dev[w] # d /\ part[w]["disk"] # "connect"
      BY <2>1, <3>1 DEF FindDevice, SearchLockFree, DeviceFree
    <3> QED
      BY <3>2, <3>3, <3>4 DEF DevInv, HasDevice, OneConnects
  <2>2. CASE Connect(v)
    <3>1. part'[v]["disk"] = "mkfs" /\ \A w \in VMs : w # v => part'[w]["disk"] = part[w]["disk"]
      BY <1>0, <2>2, PartMoves DEF Connect, Progress
    <3>2. dev' = dev /\ part[v]["disk"] = "connect"
      BY <2>2 DEF Connect
    <3> QED
      BY <3>1, <3>2 DEF DevInv, HasDevice, OneConnects
  <2>3. CASE GiveUpSearch(v)
    BY <1>4, <2>3 DEF GiveUpSearch, Progress
  <2>4. CASE Mkfs(v)
    BY <1>3, <2>4 DEF Mkfs, Progress
  <2> QED
    BY <1>6, <2>1, <2>2, <2>3, <2>4 DEF DiskStep
<1>7. ASSUME NEW v \in VMs, LeaseStep(v) PROVE DevInv'
  <2>1. UNCHANGED dev /\ \E how \in Progress : PartEnds(v, "lease", how)
    BY <1>7 DEF LeaseStep, RequestLease, PickAddr, AddEntry, Progress
  <2> QED
    BY <1>0, <1>2, <2>1
<1>8. ASSUME NEW v \in VMs, NEW b \in Part, PartFails(v, b) PROVE DevInv'
  <2>1. CASE b = "disk"
    BY <1>3, <1>8, <2>1 DEF PartFails, Progress
  <2>2. CASE b # "disk"
    BY <1>0, <1>2, <1>8, <2>2 DEF PartFails, Progress, TypeOK
  <2> QED
    BY <2>1, <2>2
<1>9. ASSUME NEW v \in VMs, ManagerMoves(v) PROVE DevInv'
  BY <1>0, <1>9, ManagerFrame DEF DevInv, HasDevice, OneConnects
<1>10. CASE UNCHANGED vars
  BY <1>10 DEF vars, DevInv, HasDevice, OneConnects
<1> QED
  BY <1>1, <1>5, <1>6, <1>7, <1>8, <1>9, <1>10, StepCases DEF PartStep

\* DeviceOfOne: the device on which a filesystem is made is one disk's alone.
THEOREM DevicesApart == Spec => []DeviceOfOne
<1>1. Init => DevInv
  BY DEF Init, DevInv, HasDevice, OneConnects, Part, Files
<1>2. DevInv => DeviceOfOne
  BY DEF DevInv, DeviceOfOne, HasDevice
<1> QED
  BY <1>1, <1>2, BaseInit, BaseInductive, DevInductive, PTL DEF Spec

------------------------------------------------------------------------------
(***************************************************************************)
(* Addresses.  Only one _allocate_ip_sync is between its choice and its    *)
(* entry, so what was free when it chose still is, whatever is released    *)
(* beside it.                                                              *)
(***************************************************************************)
Adds(v) == part[v]["lease"] = "add"

AddrInv ==
  /\ \A v, w \in VMs : Adds(v) /\ Adds(w) => v = w
  /\ \A v \in VMs : Adds(v) => v \notin Bridged /\ cand[v] \in FreeAddrs
  /\ AddressesUnique

\* dhcp_handlers.py:106-125
LEMMA AddrInductive == Base /\ AddrInv /\ [Next]_vars => AddrInv'
<1> SUFFICES ASSUME Base, AddrInv, [Next]_vars PROVE AddrInv'
  OBVIOUS
<1>0. /\ TypeOK /\ TypeOK' /\ Clearing /\ Unbegun
      /\ part \in [VMs -> [Part -> Progress]] /\ "disk" \in Part /\ "lease" \in Part
      /\ entry \in [Macs -> Addrs \cup {NoAddr}] /\ cand \in [VMs -> Addrs \cup {NoAddr}]
      /\ NoAddr \notin Addrs /\ \A v \in VMs : MacOf[v] \in Macs
  BY TypeInductive, VMManagerAssumption DEF Base, TypeOK, Progress, Part, Files
\* An addition may end, and an entry go.
<1>1. ASSUME \A v \in VMs : Adds(v)' => Adds(v), UNCHANGED cand,
             \A m \in Macs : entry'[m] \in {entry[m], NoAddr}
      PROVE  AddrInv'
  <2>1. FreeAddrs \subseteq FreeAddrs'
    BY <1>0, <1>1 DEF FreeAddrs
  <2>2. AddressesUnique'
    BY <1>1 DEF AddrInv, AddressesUnique
  <2> QED
    BY <1>1, <2>1, <2>2 DEF AddrInv
<1>2. ASSUME NEW v \in VMs, Create(v) PROVE AddrInv'
  <2>1. \A w \in VMs : Adds(w)' => Adds(w)
    BY <1>0, <1>2 DEF Create, Adds
  <2> QED
    BY <1>1, <1>2, <2>1 DEF Create
<1>3. ASSUME NEW v \in VMs, NEW b \in Part, NEW how \in Progress \ {"add"}, PartEnds(v, b, how),
             UNCHANGED <<cand, entry>>
      PROVE  AddrInv'
  <2>1. \A w \in VMs : Adds(w)' => Adds(w)
    BY <1>0, <1>3, PartMoves DEF Adds
  <2> QED
    BY <1>1, <1>3, <2>1
<1>4. ASSUME NEW v \in VMs, FileStep(v) \/ DiskStep(v) \/ RequestLease(v) \/ \E b \in Part : PartFails(v, b)
      PROVE  AddrInv'
  <2>1. CASE FileStep(v)
    BY <1>3, <2>1 DEF FileStep, CloneQcow, GenerateIso, CreateQcow, FileDone, Progress, Part, Files
  <2>2. CASE DiskStep(v)
    BY <1>0, <1>3, <2>2 DEF DiskStep, FindDevice, Connect, GiveUpSearch, Mkfs, Progress
  <2>3. CASE RequestLease(v)
    BY <1>0, <1>3, <2>3 DEF RequestLease, Progress
  <2>4. ASSUME NEW b \in Part, PartFails(v, b) PROVE AddrInv'
    BY <1>3, <2>4 DEF PartFails, Progress
  <2> QED
    BY <1>4, <2>1, <2>2, <2>3, <2>4
<1>5. ASSUME NEW v \in VMs, PickAddr(v) PROVE AddrInv'
  <2>1. CASE PartEnds(v, "lease", "failed") /\ UNCHANGED cand
    BY <1>0, <1>3, <1>5, <2>1 DEF PickAddr, Progress
  <2>2. ASSUME NEW a \in FreeAddrs, cand' = [cand EXCEPT ![v] = a], PartEnds(v, "lease", "add") PROVE AddrInv'
    <3>1. \A w \in VMs : Adds(w)' => w = v
      BY <1>0, <1>5, <2>2, PartMoves DEF PickAddr, AddrLockFree, Adds, Progress
    <3>2. cand'[v] = a /\ UNCHANGED entry /\ v \notin Bridged
      BY <1>0, <1>5, <2>2 DEF PickAddr
    <3> QED
      BY <2>2, <3>1, <3>2 DEF AddrInv, AddressesUnique, FreeAddrs
  <2> QED
    BY <1>5, <2>1, <2>2 DEF PickAddr
<1>6. ASSUME NEW v \in VMs, AddEntry(v) PROVE AddrInv'
  <2>1. Adds(v) /\ cand[v] \in Addrs /\ \A m \in Macs : entry[m] # cand[v]
    BY <1>6 DEF AddEntry, Adds, AddrInv, FreeAddrs
  <2>2. /\ entry' = [entry EXCEPT ![MacOf[v]] = cand[v]] /\ UNCHANGED cand
        /\ PartEnds(v, "lease", "done")
    BY <1>6, <2>1 DEF AddEntry
  <2>3. \A w \in VMs : ~Adds(w)'
    BY <1>0, <2>1, <2>2, PartMoves DEF AddrInv, Adds, Progress
  <2>4. AddressesUnique'
    BY <1>0, <2>1, <2>2 DEF AddrInv, AddressesUnique
  <2> QED
    BY <2>3, <2>4 DEF AddrInv
<1>7. ASSUME NEW v \in VMs, ManagerMoves(v) PROVE AddrInv'
  <2>1. UNCHANGED <<part, cand>>
    BY <1>0, <1>7, ManagerFrame
  <2>2. CASE UNCHANGED entry
    BY <1>0, <1>1, <2>1, <2>2 DEF Adds
  <2>3. CASE ReleaseLease(v)
    <3>1. \A m \in Macs : entry'[m] \in {entry[m], NoAddr}
      BY <1>0, <2>3 DEF ReleaseLease
    <3> QED
      BY <1>1, <2>1, <3>1 DEF Adds
  <2>4. UNCHANGED entry \/ ReleaseLease(v)
    BY <1>7 DEF ManagerMoves, ManagerStep, GatherOk, Define, Start, StartVM, StopVM, DestroyStart,
       AllocateFails, KillByName, KillFails, DestroyEnds, AllocateEnds, DeleteFile
  <2> QED
    BY <2>2, <2>3, <2>4
<1>8. CASE UNCHANGED vars
  BY <1>0, <1>1, <1>8 DEF vars, Adds
<1> QED
  BY <1>2, <1>4, <1>5, <1>6, <1>7, <1>8, StepCases DEF PartStep, LeaseStep

\* AddressesUnique: libvirt's DHCP server never has an address for two macs,
\* though releases and stragglers of failed creations take no part in the lock.
THEOREM Addresses == Spec => []AddressesUnique
<1>1. Init => AddrInv
  BY DEF Init, AddrInv, Adds, AddressesUnique, Part
<1>2. AddrInv => AddressesUnique
  BY DEF AddrInv
<1> QED
  BY <1>1, <1>2, BaseInit, BaseInductive, AddrInductive, PTL DEF Spec

------------------------------------------------------------------------------
(***************************************************************************)
(* The promise about domains.                                              *)
(***************************************************************************)
StageOf(v) ==
  /\ undo[v] => stage[v] \in {"kill", "clear", "again", "gone", "broken"}
  /\ stage[v] \in {"none", "making", "define"} => dom[v] = "none"
  /\ stage[v] = "start" => dom[v] = "off"
  /\ stage[v] = "kill" /\ undo[v] => dom[v] # "on"

StageInv == \A v \in VMs : StageOf(v)

\* vm_manager.py:87-131
LEMMA StageInductive == Base /\ StageInv /\ [Next]_vars => StageInv'
<1> SUFFICES ASSUME Base, StageInv, [Next]_vars PROVE StageInv'
  OBVIOUS
<1>0. TypeOK /\ Clearing
  BY DEF Base
<1>1. ASSUME NEW v \in VMs, \A w \in VMs : w # v => stage'[w] = stage[w] /\ undo'[w] = undo[w] /\ dom'[w] = dom[w],
             StageOf(v)'
      PROVE  StageInv'
  BY <1>1 DEF StageInv, StageOf
<1>2. ASSUME NEW v \in VMs, Create(v) PROVE StageInv'
  <2>1. StageOf(v)
    BY DEF StageInv
  <2> QED
    BY <1>0, <1>1, <1>2, <2>1 DEF Create, StageOf, TypeOK
<1>3. CASE UNCHANGED <<stage, undo, dom>>
  BY <1>3 DEF StageInv, StageOf
<1>4. ASSUME NEW v \in VMs, PartStep(v) PROVE StageInv'
  BY <1>0, <1>3, <1>4, PartFrame
<1>5. ASSUME NEW v \in VMs, ManagerMoves(v) PROVE StageInv'
  <2>1. StageOf(v)
    BY DEF StageInv
  <2>2. \A w \in VMs : w # v => stage'[w] = stage[w] /\ undo'[w] = undo[w]
    BY <1>0, <1>5, ManagerFrame
  <2>3. CASE UNCHANGED <<stage, undo, dom>>
    BY <1>3, <2>3
  <2>4. ReleaseLease(v) \/ (\E b \in Files : DeleteFile(v, b)) => UNCHANGED <<stage, undo, dom>>
    BY DEF ReleaseLease, DeleteFile
  <2>5. CASE GatherOk(v) \/ Define(v) \/ Start(v)
    <3>1. /\ \A w \in VMs : w # v => dom'[w] = dom[w]
          /\ undo' = undo /\ stage'[v] \in {"define", "start", "up"}
          /\ stage'[v] = "define" => dom'[v] = dom[v] /\ stage[v] = "making"
          /\ stage'[v] = "start" => dom'[v] = "off" /\ stage[v] = "define"
          /\ stage'[v] = "up" => stage[v] = "start"
      BY <1>0, <2>5 DEF GatherOk, Define, Start, TypeOK
    <3> QED
      BY <1>1, <2>1, <2>2, <3>1 DEF StageOf
  <2>6. CASE StartVM(v) \/ StopVM(v) \/ DestroyStart(v)
    BY <1>0, <1>1, <2>1, <2>2, <2>6 DEF StartVM, StopVM, DestroyStart, StageOf, TypeOK
  <2>7. CASE AllocateFails(v)
    BY <1>0, <1>1, <2>1, <2>2, <2>7 DEF AllocateFails, Failed, CleanUp, StageOf, TypeOK
  <2>8. CASE KillByName(v)
    BY <1>0, <1>1, <2>1, <2>2, <2>8 DEF KillByName, StageOf, TypeOK
  <2>9. CASE KillFails(v)
    <3>1. \A w \in VMs : w # v => dom'[w] = dom[w]
      BY <1>0, <2>9 DEF KillFails, TypeOK
    <3>2. stage'[v] = (IF undo[v] THEN "broken" ELSE "up") /\ undo' = undo
      BY <1>0, <2>9 DEF KillFails, TypeOK
    <3> QED
      BY <1>1, <2>1, <2>2, <3>1, <3>2 DEF StageOf
  <2>10. CASE DestroyEnds(v) \/ AllocateEnds(v)
    <3>1. stage'[v] \in {"again", "gone"} /\ UNCHANGED <<undo, dom>>
      BY <1>0, <2>10 DEF DestroyEnds, AllocateEnds, AfterDestroy, TypeOK
    <3> QED
      BY <1>1, <2>1, <2>2, <3>1 DEF StageOf
  <2> QED
    BY <1>5, <2>3, <2>4, <2>5, <2>6, <2>7, <2>8, <2>9, <2>10 DEF ManagerMoves, ManagerStep
<1>6. CASE UNCHANGED vars
  BY <1>3, <1>6 DEF vars
<1> QED
  BY <1>2, <1>4, <1>5, <1>6, StepCases

\* One VM's status moves to s, and its domain with it.
LEMMA StatusMoves ==
  ASSUME NEW v \in VMs, NEW s, \A w \in VMs : w # v => stage'[w] = stage[w] /\ undo'[w] = undo[w],
         Status'[v] = s
  PROVE  Status' = [Status EXCEPT ![v] = s]
  BY DEF Status

\* Every step of the VM manager is one of VMLifecycle, or changes neither the
\* status of a VM nor its domain.
LEMMA LifecycleStep ==
  Base /\ StageInv /\ [Next]_vars => [Lifecycle!Next]_<<Status, dom>>
<1> SUFFICES ASSUME Base, StageInv, [Next]_vars
    PROVE  Lifecycle!Next \/ (Status' = Status /\ dom' = dom)
  OBVIOUS
<1>0. TypeOK /\ Clearing
  BY DEF Base
<1>1. ASSUME UNCHANGED <<stage, undo>> PROVE Status' = Status
  BY <1>1 DEF Status
<1>2. ASSUME NEW v \in VMs, Create(v) PROVE Lifecycle!Next
  <2>1. stage[v] = "none" /\ stage'[v] = "making" /\ dom' = dom
        /\ \A w \in VMs : w # v => stage'[w] = stage[w] /\ undo'[w] = undo[w]
    BY <1>0, <1>2 DEF Create, TypeOK
  <2>2. Status[v] = "none" /\ Status'[v] = "making"
    BY <2>1 DEF Status
  <2> QED
    BY <2>1, <2>2, StatusMoves DEF Lifecycle!Next, Lifecycle!Create
<1>3. ASSUME NEW v \in VMs, PartStep(v) PROVE Status' = Status /\ dom' = dom
  BY <1>0, <1>1, <1>3, PartFrame
<1>4. ASSUME NEW v \in VMs, ManagerMoves(v) PROVE Lifecycle!Next \/ (Status' = Status /\ dom' = dom)
  <2>1. StageOf(v)
    BY DEF StageInv
  <2>2. \A w \in VMs : w # v => stage'[w] = stage[w] /\ undo'[w] = undo[w]
    BY <1>0, <1>4, ManagerFrame
  <2>3. ASSUME Status'[v] = Status[v] PROVE Status' = Status
    BY <2>2, <2>3 DEF Status
  <2>4. CASE GatherOk(v) \/ DestroyStart(v) \/ AllocateFails(v)
    <3>1. Status'[v] = Status[v] /\ dom' = dom
      BY <1>0, <2>1, <2>4 DEF GatherOk, DestroyStart, AllocateFails, Failed, CleanUp, Status, StageOf, TypeOK
    <3> QED
      BY <2>3, <3>1
  <2>5. CASE Define(v)
    <3>1. Status'[v] = Status[v] /\ Status[v] = "making" /\ dom[v] = "none"
          /\ dom' = [dom EXCEPT ![v] = "off"]
      BY <1>0, <2>1, <2>5 DEF Define, Status, StageOf, TypeOK
    <3> QED
      BY <2>3, <3>1 DEF Lifecycle!Next, Lifecycle!Define
  <2>6. CASE Start(v)
    <3>1. Status'[v] = "up" /\ Status[v] = "making" /\ dom[v] = "off"
          /\ dom' = [dom EXCEPT ![v] = "on"]
      BY <1>0, <2>1, <2>6 DEF Start, Status, StageOf, TypeOK
    <3> QED
      BY <2>2, <3>1, StatusMoves DEF Lifecycle!Next, Lifecycle!Up
  <2>7. CASE StartVM(v) \/ StopVM(v)
    <3>1. Status[v] = "up" /\ UNCHANGED <<stage, undo>>
          /\ \E d \in {"on", "off"} : dom' = [dom EXCEPT ![v] = d]
      BY <2>7 DEF StartVM, StopVM, Status
    <3> QED
      BY <1>1, <3>1 DEF Lifecycle!Next, Lifecycle!Power
  <2>8. CASE KillByName(v)
    <3>1. Status'[v] = "ending" /\ Status[v] \in {"making", "up"} /\ dom' = [dom EXCEPT ![v] = "none"]
      BY <1>0, <2>8 DEF KillByName, Status, TypeOK
    <3> QED
      BY <2>2, <3>1, StatusMoves DEF Lifecycle!Next, Lifecycle!Kill
  <2>9. CASE KillFails(v)
    <3>1. dom' = dom \/ (dom[v] = "on" /\ dom' = [dom EXCEPT ![v] = "off"])
      BY <1>0, <2>9 DEF KillFails, TypeOK
    <3>2. CASE undo[v]
      <4>1. Status'[v] = "broken" /\ Status[v] = "making" /\ dom[v] # "on"
        BY <1>0, <2>1, <2>9, <3>2 DEF KillFails, Status, StageOf, TypeOK
      <4> QED
        BY <2>2, <3>1, <4>1, StatusMoves DEF Lifecycle!Next, Lifecycle!CleanUpFails
    <3>3. CASE ~undo[v]
      <4>1. Status'[v] = Status[v] /\ Status[v] = "up"
        BY <1>0, <2>9, <3>3 DEF KillFails, Status, TypeOK
      <4> QED
        BY <2>3, <3>1, <4>1 DEF Lifecycle!Next, Lifecycle!Power
    <3> QED
      BY <3>2, <3>3
  <2>10. ASSUME ReleaseLease(v) \/ \E b \in Files : DeleteFile(v, b) PROVE Status' = Status /\ dom' = dom
    BY <1>1, <2>10 DEF ReleaseLease, DeleteFile
  <2>11. CASE DestroyEnds(v)
    <3>1. Status[v] = "ending" /\ Status'[v] \in {"ending", "gone"} /\ dom' = dom
      BY <1>0, <2>11 DEF DestroyEnds, AfterDestroy, Status, TypeOK
    <3> QED
      BY <2>2, <2>3, <3>1, StatusMoves DEF Lifecycle!Next, Lifecycle!End
  <2>12. CASE AllocateEnds(v)
    <3>1. Status[v] = "ending" /\ Status'[v] = "gone" /\ dom' = dom
      BY <1>0, <2>12 DEF AllocateEnds, Status, TypeOK
    <3> QED
      BY <2>2, <3>1, StatusMoves DEF Lifecycle!Next, Lifecycle!End
  <2> QED
    BY <1>4, <2>4, <2>5, <2>6, <2>7, <2>8, <2>9, <2>10, <2>11, <2>12 DEF ManagerMoves, ManagerStep
<1>5. ASSUME UNCHANGED vars PROVE Status' = Status /\ dom' = dom
  BY <1>1, <1>5 DEF vars
<1> QED
  BY <1>2, <1>3, <1>4, <1>5, StepCases

\* LifecycleSpec: the VM manager implements VMLifecycle, for any VMs and any
\* failures of its parts, of libvirt and of its clean-ups.
THEOREM ImplementsLifecycle == Spec => LifecycleSpec
<1>1. Init => Lifecycle!Init /\ StageInv
  BY DEF Init, Lifecycle!Init, Status, StageInv, StageOf
<1> QED
  BY <1>1, BaseInit, BaseInductive, StageInductive, LifecycleStep, PTL
  DEF Spec, LifecycleSpec, Lifecycle!Spec

------------------------------------------------------------------------------
(***************************************************************************)
(* Files.  A VM that came up has all its parts, so its destruction sees no *)
(* straggler.  The files of a failed one are looked for again after the    *)
(* clean-up; from then on whatever appears is late.                        *)
(***************************************************************************)
CameUp(v) ==
  stage[v] \in {"define", "start", "up"} \/ (stage[v] \in {"kill", "clear"} /\ ~undo[v])

FilesOne(v) ==
  /\ CameUp(v) => AllDone(v)
  /\ \A b \in Part : part[v][b] = "run" => b \in Parts[v]
  /\ files[v] \subseteq FilesOf(v)
  /\ stage[v] = "again" \/ (stage[v] = "clear" /\ ~undo[v]) => files[v] \subseteq todo[v] \cup late[v] \cup stuck[v]
  /\ stage[v] = "gone" => files[v] \subseteq late[v] \cup stuck[v]

FilesInv == \A v \in VMs : FilesOne(v)

\* A part that is made adds its file at most, and marks it if it is late.
LEMMA PartFiles ==
  ASSUME TypeOK, NEW v \in VMs, PartStep(v)
  PROVE  /\ \A w \in VMs : late[w] \subseteq late'[w]
         /\ \/ files' = files
            \/ \E b \in Files :
                 /\ part[v][b] = "run"
                 /\ files' = [files EXCEPT ![v] = @ \cup {b}]
                 /\ stage[v] \in {"again", "gone", "broken"} => b \in late'[v]
<1> USE DEF history
<1>1. ASSUME NEW b \in Files, NEW next \in Progress, FileDone(v, b, next)
      PROVE  /\ \A w \in VMs : late[w] \subseteq late'[w]
             /\ part[v][b] = "run"
             /\ files' = [files EXCEPT ![v] = @ \cup {b}]
             /\ stage[v] \in {"again", "gone", "broken"} => b \in late'[v]
  BY <1>1 DEF FileDone, FileMade, TypeOK
<1>2. CASE FileStep(v)
  BY <1>1, <1>2 DEF FileStep, CloneQcow, GenerateIso, CreateQcow, Files, Progress
<1>3. CASE AddEntry(v)
  BY <1>3 DEF AddEntry, TypeOK
<1>4. ASSUME DiskStep(v) \/ RequestLease(v) \/ PickAddr(v) \/ \E b \in Part : PartFails(v, b)
      PROVE  UNCHANGED <<files, late>>
  BY <1>4 DEF DiskStep, FindDevice, Connect, GiveUpSearch, Mkfs, RequestLease, PickAddr, PartFails
<1> QED
  BY <1>2, <1>3, <1>4 DEF PartStep, LeaseStep

\* vm_manager.py:60-85 and 97-131
LEMMA FilesInductive == Base /\ FilesInv /\ [Next]_vars => FilesInv'
<1> SUFFICES ASSUME Base, FilesInv, [Next]_vars PROVE FilesInv'
  OBVIOUS
<1>0. /\ TypeOK /\ Clearing /\ part \in [VMs -> [Part -> Progress]] /\ Files \subseteq Part
  BY DEF Base, TypeOK, Progress, Part
<1>1. ASSUME NEW v \in VMs, FilesOne(v)',
             \A w \in VMs : w # v =>
               /\ stage'[w] = stage[w] /\ undo'[w] = undo[w] /\ files'[w] = files[w] /\ todo'[w] = todo[w]
               /\ late[w] \subseteq late'[w] /\ stuck[w] \subseteq stuck'[w]
               /\ \A b \in Part : part'[w][b] = part[w][b]
      PROVE  FilesInv'
  <2>1. ASSUME NEW w \in VMs, w # v PROVE FilesOne(w)'
    <3>1. FilesOne(w)
      BY DEF FilesInv
    <3> QED
      BY <1>1, <2>1, <3>1 DEF FilesOne, CameUp, AllDone, FilesOf
  <2> QED
    BY <1>1, <2>1 DEF FilesInv
<1>2. ASSUME NEW v \in VMs, Create(v) PROVE FilesInv'
  <2>1. /\ stage[v] = "none" /\ stage'[v] = "making" /\ UNCHANGED <<undo, files, todo, late, stuck>>
        /\ \A b \in Part : part'[v][b] = "run" => b \in Parts[v]
        /\ \A w \in VMs : w # v => stage'[w] = stage[w] /\ part'[w] = part[w]
    BY <1>0, <1>2 DEF Create, TypeOK, history
  <2>2. FilesOne(v)
    BY DEF FilesInv
  <2>3. FilesOne(v)'
    BY <2>1, <2>2 DEF FilesOne, CameUp, AllDone, FilesOf
  <2> QED
    BY <1>1, <2>1, <2>3
<1>3. ASSUME NEW v \in VMs, PartStep(v) PROVE FilesInv'
  <2>1. UNCHANGED <<stage, undo, todo, stuck>>
    BY <1>0, <1>3, PartFrame
  <2>2. PICK c \in Part, how \in Progress \ {"run"} : InFlight(v, c) /\ PartEnds(v, c, how)
    BY <1>0, <1>3, PartFrame
  <2>3. /\ part'[v][c] = how
        /\ \A w \in VMs, b \in Part : w # v \/ b # c => part'[w][b] = part[w][b]
    BY <1>0, <2>2, PartMoves
  <2>4. FilesOne(v) /\ ~CameUp(v)
    BY <2>2 DEF FilesInv, FilesOne, AllDone, InFlight
  <2>5. \A w \in VMs : late[w] \subseteq late'[w]
    BY <1>0, <1>3, PartFiles
  <2>6. \A w \in VMs : w # v => files'[w] = files[w]
    BY <1>0, <1>3, PartFiles DEF TypeOK
  <2>7. \/ files'[v] = files[v]
        \/ \E b \in Files : /\ files'[v] = files[v] \cup {b} /\ b \in FilesOf(v)
                            /\ stage[v] \in {"again", "gone"} => b \in late'[v]
    BY <1>0, <1>3, <2>4, PartFiles DEF TypeOK, FilesOne, FilesOf
  <2>8. ~CameUp(v)' /\ \A b \in Part : part'[v][b] = "run" => b \in Parts[v]
    BY <2>1, <2>3, <2>4 DEF CameUp, FilesOne
  <2>9. FilesOne(v)'
    BY <2>1, <2>4, <2>5, <2>7, <2>8 DEF FilesOne, FilesOf, CameUp
  <2> QED
    BY <1>1, <2>1, <2>3, <2>5, <2>6, <2>9
<1>4. ASSUME NEW v \in VMs, ManagerMoves(v) PROVE FilesInv'
  <2>1. /\ UNCHANGED <<part, late>>
        /\ \A w \in VMs : w # v => stage'[w] = stage[w] /\ undo'[w] = undo[w]
    BY <1>0, <1>4, ManagerFrame
  <2>2. FilesOne(v)
    BY DEF FilesInv
  <2> DEFINE Rest == \A w \in VMs : w # v => files'[w] = files[w] /\ todo'[w] = todo[w] /\ stuck[w] \subseteq stuck'[w]
  <2>3. ASSUME Rest, FilesOne(v)' PROVE FilesInv'
    BY <1>1, <2>1, <2>3
  <2> HIDE DEF Rest
  <2>4. CASE GatherOk(v) \/ Define(v) \/ Start(v) \/ StartVM(v) \/ StopVM(v) \/ DestroyStart(v) \/ KillFails(v)
    <3>1. /\ UNCHANGED <<files, todo, stuck, undo>>
          /\ CameUp(v)' => CameUp(v) \/ AllDone(v)
          /\ stage'[v] \notin {"again", "gone", "clear"}
      BY <1>0, <2>4 DEF TypeOK, CameUp, GatherOk, Define, Start, StartVM, StopVM, DestroyStart, KillFails, history
    <3>2. CameUp(v)' => AllDone(v)'
      BY <2>1, <2>2, <3>1 DEF FilesOne, AllDone
    <3>3. FilesOne(v)'
      BY <2>1, <2>2, <3>1, <3>2 DEF FilesOne, FilesOf
    <3>4. Rest
      BY <3>1 DEF Rest
    <3> QED
      BY <2>3, <3>3, <3>4
  <2>5. CASE AllocateFails(v)
    <3>1. stage'[v] = "kill" /\ undo'[v] /\ UNCHANGED <<files, stuck>> /\ todo'[v] = {}
          /\ \A w \in VMs : w # v => todo'[w] = todo[w]
      BY <1>0, <2>5 DEF TypeOK, AllocateFails, CleanUp, history
    <3> QED
      BY <2>1, <2>2, <2>3, <3>1 DEF Rest, FilesOne, AllDone, FilesOf, CameUp
  <2>6. CASE KillByName(v)
    <3>1. stage[v] = "kill" /\ stage'[v] = "clear" /\ UNCHANGED <<undo, files, stuck>> /\ todo'[v] = FilesOf(v)
          /\ \A w \in VMs : w # v => todo'[w] = todo[w]
      BY <1>0, <2>6 DEF TypeOK, KillByName, history
    <3> QED
      BY <2>1, <2>2, <2>3, <3>1 DEF Rest, FilesOne, AllDone, FilesOf, CameUp
  <2>7. ASSUME NEW b \in Files, DeleteFile(v, b) PROVE FilesInv'
    <3>1. /\ todo' = [todo EXCEPT ![v] = todo[v] \ {b}] /\ UNCHANGED <<stage, undo>>
          /\ \/ files' = [files EXCEPT ![v] = files[v] \ {b}] /\ UNCHANGED stuck
             \/ stuck' = [stuck EXCEPT ![v] = stuck[v] \cup {b}] /\ UNCHANGED files
      BY <2>7 DEF DeleteFile
    <3>2. Rest
      BY <1>0, <3>1 DEF Rest, TypeOK
    <3>3. /\ todo'[v] = todo[v] \ {b}
          /\ \/ files'[v] = files[v] \ {b} /\ stuck'[v] = stuck[v]
             \/ files'[v] = files[v] /\ stuck'[v] = stuck[v] \cup {b}
      BY <1>0, <3>1 DEF TypeOK
    <3>4. FilesOne(v)'
      BY <2>1, <2>2, <3>1, <3>3 DEF FilesOne, AllDone, FilesOf, CameUp
    <3> QED
      BY <2>3, <3>2, <3>4
  <2>8. CASE ReleaseLease(v)
    <3>1. UNCHANGED <<stage, undo, files, todo>> /\ \A w \in VMs : stuck[w] \subseteq stuck'[w]
      BY <1>0, <2>8 DEF TypeOK, ReleaseLease
    <3> QED
      BY <2>1, <2>2, <2>3, <3>1 DEF Rest, FilesOne, AllDone, FilesOf, CameUp
  <2>9. CASE DestroyEnds(v)
    <3>1. /\ stage[v] = "clear" /\ todo[v] = {} /\ UNCHANGED <<undo, files, stuck>>
          /\ \A w \in VMs : w # v => todo'[w] = todo[w]
          /\ \/ undo[v] /\ stage'[v] = "again" /\ todo'[v] = FilesOf(v)
             \/ ~undo[v] /\ stage'[v] = "gone"
      BY <1>0, <2>9 DEF TypeOK, DestroyEnds, AfterDestroy, Cleared, history
    <3> QED
      BY <2>1, <2>2, <2>3, <3>1 DEF Rest, FilesOne, AllDone, FilesOf, CameUp
  <2>10. CASE AllocateEnds(v)
    <3>1. stage[v] = "again" /\ todo[v] = {} /\ stage'[v] = "gone" /\ UNCHANGED <<undo, files, stuck, todo>>
      BY <1>0, <2>10 DEF TypeOK, AllocateEnds, history
    <3> QED
      BY <2>1, <2>2, <2>3, <3>1 DEF Rest, FilesOne, AllDone, FilesOf, CameUp
  <2> QED
    BY <1>4, <2>4, <2>5, <2>6, <2>7, <2>8, <2>9, <2>10 DEF ManagerMoves, ManagerStep
<1>5. ASSUME UNCHANGED vars PROVE FilesInv'
  BY <1>5 DEF vars, FilesInv, FilesOne, CameUp, AllDone, FilesOf
<1> QED
  BY <1>2, <1>3, <1>4, <1>5, StepCases

\* OnlyLateFilesStay: with failures anywhere, destroy_vm and the two deletions
\* of a failed allocate_vm leave no file that was there in time.
THEOREM FilesGo == Spec => []OnlyLateFilesStay
<1>1. Init => FilesInv
  BY DEF Init, FilesInv, FilesOne, CameUp
<1>2. FilesInv => OnlyLateFilesStay
  BY DEF FilesInv, FilesOne, OnlyLateFilesStay
<1> QED
  BY <1>1, <1>2, BaseInit, BaseInductive, FilesInductive, PTL DEF Spec

------------------------------------------------------------------------------
(***************************************************************************)
(* Entries of the DHCP server.  An entry is answered for by the VM that    *)
(* made it until its release, and after it only by a history of lateness   *)
(* or of a release that failed.                                            *)
(***************************************************************************)
Owns(v) ==
  \/ part[v]["lease"] = "done" /\ stage[v] \notin {"again", "gone"} /\ rel[v] # "done"
  \/ "lease" \in late[v] \cup stuck[v]

Owned(m) == entry[m] # NoAddr => \E v \in VMs \ Bridged : MacOf[v] = m /\ Owns(v)

EntInv ==
  /\ \A v \in VMs : stage[v] \in {"again", "gone"} => rel[v] = "done"
  /\ \A m \in Macs : Owned(m)

\* vm_manager.py:70-74, 97-102 and 121-131; dhcp_handlers.py:127-143
LEMMA EntInductive == Base /\ AddrInv /\ EntInv /\ [Next]_vars => EntInv'
<1> SUFFICES ASSUME Base, AddrInv, EntInv, [Next]_vars PROVE EntInv'
  OBVIOUS
<1>0. /\ TypeOK /\ Clearing /\ Unbegun /\ part \in [VMs -> [Part -> Progress]]
      /\ Files \subseteq Part /\ "lease" \in Part /\ "lease" \notin Files /\ "disk" \in Part
      /\ \A v \in VMs : MacOf[v] \in Macs
  BY VMManagerAssumption DEF Base, TypeOK, Progress, Part, Files
\* Nobody gives up what it owns, and no entry is new.
<1>1. ASSUME \A v \in VMs : stage'[v] \in {"again", "gone"} => rel'[v] = "done",
             \A v \in VMs : Owns(v) => Owns(v)',
             UNCHANGED entry
      PROVE  EntInv'
  BY <1>1 DEF EntInv, Owned
<1>2. ASSUME NEW v \in VMs, Create(v) PROVE EntInv'
  <2>1. /\ UNCHANGED <<entry, rel, late, stuck>> /\ stage'[v] = "making"
        /\ \A w \in VMs : w # v => stage'[w] = stage[w] /\ part'[w] = part[w]
        /\ part[v]["lease"] = "none"
    BY <1>0, <1>2 DEF Create, TypeOK, Unbegun, history
  <2>2. \A w \in VMs : Owns(w) => Owns(w)'
    BY <2>1 DEF Owns
  <2> QED
    BY <1>1, <2>1, <2>2 DEF EntInv
<1>3. ASSUME NEW v \in VMs, PartStep(v), UNCHANGED entry PROVE EntInv'
  <2>1. UNCHANGED <<stage, rel, stuck>>
    BY <1>0, <1>3, PartFrame
  <2>2. PICK c \in Part, how \in Progress \ {"run"} : InFlight(v, c) /\ PartEnds(v, c, how)
    BY <1>0, <1>3, PartFrame
  <2>3. \A w \in VMs : part[w]["lease"] = "done" => part'[w]["lease"] = "done"
    BY <1>0, <2>2, PartMoves DEF InFlight
  <2>4. \A w \in VMs : late[w] \subseteq late'[w]
    BY <1>0, <1>3, PartFiles
  <2> QED
    BY <1>1, <1>3, <2>1, <2>3, <2>4 DEF EntInv, Owns
<1>4. ASSUME NEW v \in VMs, AddEntry(v) PROVE EntInv'
  <2>1. CASE UNCHANGED entry
    BY <1>3, <1>4, <2>1 DEF PartStep, LeaseStep
  <2>2. CASE entry' # entry
    <3>1. /\ v \notin Bridged /\ entry' = [entry EXCEPT ![MacOf[v]] = cand[v]]
          /\ late' = [late EXCEPT ![v] = IF rel[v] = "done" \/ stage[v] = "broken"
                                         THEN @ \cup {"lease"} ELSE @]
          /\ PartEnds(v, "lease", "done") /\ UNCHANGED <<stage, rel, stuck>>
      BY <1>4, <2>2 DEF AddEntry, AddrInv, Adds
    <3>2. /\ part'[v]["lease"] = "done"
          /\ \A w \in VMs : w # v => part'[w]["lease"] = part[w]["lease"]
      BY <1>0, <3>1, PartMoves DEF Progress
    <3>3. \A w \in VMs : w # v => late'[w] = late[w]
      BY <1>0, <3>1 DEF TypeOK
    <3>4. Owns(v)'
      BY <1>0, <3>1, <3>2 DEF EntInv, Owns, TypeOK
    <3>5. \A w \in VMs : Owns(w) => Owns(w)'
      BY <3>1, <3>2, <3>3, <3>4 DEF Owns
    <3>6. ASSUME NEW m \in Macs PROVE Owned(m)'
      <4>1. CASE m = MacOf[v]
        BY <3>1, <3>4, <4>1 DEF Owned
      <4>2. CASE m # MacOf[v]
        BY <1>0, <3>1, <3>5, <4>2 DEF EntInv, Owned, TypeOK
      <4> QED
        BY <4>1, <4>2
    <3> QED
      BY <3>1, <3>6 DEF EntInv
  <2> QED
    BY <2>1, <2>2
<1>5. ASSUME NEW v \in VMs, PartStep(v) PROVE EntInv'
  <2>1. AddEntry(v) \/ UNCHANGED entry
    BY <1>5 DEF PartStep, FileStep, CloneQcow, GenerateIso, CreateQcow, FileDone, DiskStep, FindDevice,
       Connect, GiveUpSearch, Mkfs, LeaseStep, RequestLease, PickAddr, PartFails
  <2> QED
    BY <1>3, <1>4, <1>5, <2>1
<1>6. ASSUME NEW v \in VMs, ReleaseLease(v) PROVE EntInv'
  <2>1. /\ stage[v] = "clear" /\ rel[v] = "run" /\ rel' = [rel EXCEPT ![v] = "done"]
        /\ UNCHANGED <<stage, part, late>> /\ \A w \in VMs : stuck[w] \subseteq stuck'[w]
    BY <1>0, <1>6 DEF ReleaseLease, TypeOK, making
  <2>2. \A w \in VMs : w # v /\ Owns(w) => Owns(w)'
    BY <1>0, <2>1 DEF Owns, TypeOK
  <2>3. \A w \in VMs : stage'[w] \in {"again", "gone"} => rel'[w] = "done"
    BY <1>0, <2>1 DEF EntInv, TypeOK
  <2>4. ASSUME NEW m \in Macs PROVE Owned(m)'
    <3>1. CASE UNCHANGED entry /\ v \in Bridged
      BY <2>2, <2>4, <3>1 DEF EntInv, Owned
    <3>2. CASE UNCHANGED entry /\ stuck' = [stuck EXCEPT ![v] = @ \cup {"lease"}]
      <4>1. Owns(v)'
        BY <1>0, <3>2 DEF Owns, TypeOK
      <4> QED
        BY <2>2, <2>4, <3>2, <4>1 DEF EntInv, Owned
    <3>3. CASE entry' = [entry EXCEPT ![MacOf[v]] = NoAddr]
      <4>1. entry'[m] = NoAddr \/ (m # MacOf[v] /\ entry'[m] = entry[m])
        BY <1>0, <3>3 DEF TypeOK
      <4> QED
        BY <2>2, <2>4, <4>1 DEF EntInv, Owned
    <3> QED
      BY <1>6, <3>1, <3>2, <3>3 DEF ReleaseLease
  <2> QED
    BY <2>3, <2>4 DEF EntInv
<1>7. ASSUME NEW v \in VMs, ManagerMoves(v), ~ReleaseLease(v) PROVE EntInv'
  <2>1. UNCHANGED <<part, late>> /\ \A w \in VMs : w # v => stage'[w] = stage[w]
    BY <1>0, <1>7, ManagerFrame
  <2>2. UNCHANGED entry /\ (\A w \in VMs : stuck[w] \subseteq stuck'[w])
    BY <1>0, <1>7 DEF ManagerMoves, ManagerStep, GatherOk, Define, Start, StartVM, StopVM, DestroyStart,
       AllocateFails, KillByName, KillFails, DestroyEnds, AllocateEnds, DeleteFile, TypeOK, history
  <2>3. /\ \A w \in VMs : rel[w] = rel'[w] \/ (w = v /\ rel'[w] = "run" /\ stage'[w] = "clear")
        /\ stage'[v] \in {"again", "gone"} => rel[v] = "done" /\ rel' = rel
    <3>1. CASE KillByName(v)
      BY <1>0, <3>1 DEF KillByName, TypeOK
    <3>2. CASE DestroyEnds(v)
      BY <3>2 DEF DestroyEnds, Cleared
    <3>3. CASE AllocateEnds(v)
      BY <3>3 DEF AllocateEnds, EntInv
    <3>4. CASE AllocateFails(v) \/ KillFails(v)
      BY <1>0, <3>4 DEF AllocateFails, KillFails, CleanUp, TypeOK
    <3>5. CASE GatherOk(v) \/ Define(v) \/ Start(v) \/ StartVM(v) \/ StopVM(v) \/ DestroyStart(v)
      BY <1>0, <3>5 DEF GatherOk, Define, Start, StartVM, StopVM, DestroyStart, TypeOK
    <3>6. ASSUME NEW b \in Files, DeleteFile(v, b) PROVE UNCHANGED <<stage, rel>>
      BY <3>6 DEF DeleteFile
    <3> QED
      BY <1>7, <3>1, <3>2, <3>3, <3>4, <3>5, <3>6 DEF ManagerMoves, ManagerStep, EntInv
  <2>4. \A w \in VMs : Owns(w) => Owns(w)'
    BY <2>1, <2>2, <2>3 DEF Owns
  <2> QED
    BY <1>1, <2>1, <2>2, <2>3, <2>4 DEF EntInv
<1>8. ASSUME UNCHANGED vars PROVE EntInv'
  BY <1>8 DEF vars, EntInv, Owned, Owns
<1> QED
  BY <1>2, <1>5, <1>6, <1>7, <1>8, StepCases

\* OnlyLateEntriesStay: whoever has an entry has got it and is not destroyed, or
\* was late, or could not be released.
THEOREM EntriesGo == Spec => []OnlyLateEntriesStay
<1>1. Init => EntInv /\ AddrInv
  BY DEF Init, EntInv, Owned, AddrInv, Adds, AddressesUnique, Part
<1>2. EntInv => OnlyLateEntriesStay
  BY DEF EntInv, Owned, Owns, OnlyLateEntriesStay
<1> QED
  BY <1>1, <1>2, BaseInit, BaseInductive, AddrInductive, EntInductive, PTL DEF Spec

------------------------------------------------------------------------------
(***************************************************************************)
(* A VM that is up has its parts.  Of the VMs with one mac, all before the *)
(* one at work are gone or broken, so what can still touch its entry is an *)
(* addition that is late.                                                  *)
(***************************************************************************)
Whole(v) ==
  stage[v] \in {"making", "define", "start", "up"} \/ (stage[v] = "kill" /\ ~undo[v])

MacTurn ==
  \A v, w \in VMs :
    MacOf[w] = MacOf[v] /\ w < v /\ stage[v] # "none" => stage[w] \in {"gone", "broken"}

HasFiles(v) == \A b \in FilesOf(v) : part[v][b] \notin {"run", "failed"} => b \in files[v]

Disturbed(v) == \E w \in VMs \ {v} : MacOf[w] = MacOf[v] /\ "lease" \in late[w]

HasEntry(v) ==
  v \notin Bridged /\ "lease" \in Parts[v] /\ part[v]["lease"] = "done" =>
    entry[MacOf[v]] = cand[v] \/ Disturbed(v)

WholeInv == MacTurn /\ \A v \in VMs : Whole(v) => HasFiles(v) /\ HasEntry(v)

\* While a VM is whole, all others with its mac are over or not begun.
LEMMA OthersOver ==
  ASSUME MacTurn, NEW v \in VMs, Whole(v), NEW w \in VMs, w # v, MacOf[w] = MacOf[v]
  PROVE  stage[w] \in {"none", "gone", "broken"}
<1>1. v \in Nat /\ w \in Nat
  BY VMManagerAssumption
<1>2. stage[v] \notin {"none", "gone", "broken"}
  BY DEF Whole
<1>3. CASE w < v
  BY <1>2, <1>3 DEF MacTurn
<1>4. CASE v < w
  BY <1>2, <1>4 DEF MacTurn
<1> QED
  BY <1>1, <1>3, <1>4

\* A VM whose own files, part and address stay, and whose entry does, stays
\* whole.
LEMMA StaysWhole ==
  ASSUME NEW v \in VMs, Whole(v), Whole(v) => HasFiles(v) /\ HasEntry(v),
         part'[v] = part[v], cand'[v] = cand[v], files[v] \subseteq files'[v],
         \A w \in VMs : late[w] \subseteq late'[w],
         entry'[MacOf[v]] = entry[MacOf[v]] \/ Disturbed(v)'
  PROVE  HasFiles(v)' /\ HasEntry(v)'
  BY DEF HasFiles, HasEntry, Disturbed, FilesOf

\* What a part that is made does to its own VM.
LEMMA OwnPart ==
  ASSUME TypeOK, NEW v \in VMs, PartStep(v), HasFiles(v), HasEntry(v)
  PROVE  HasFiles(v)' /\ HasEntry(v)'
<1>0. /\ part \in [VMs -> [Part -> Progress]] /\ Files \subseteq Part
      /\ "lease" \in Part /\ "lease" \notin Files /\ "disk" \in Files /\ MacOf[v] \in Macs
      /\ FilesOf(v) \subseteq Files
  BY VMManagerAssumption DEF TypeOK, Progress, Part, Files, FilesOf
<1>1. \A w \in VMs : late[w] \subseteq late'[w]
  BY PartFiles
\* Steps of a file.
<1>2. ASSUME NEW b \in Files, NEW how \in Progress, PartEnds(v, b, how), UNCHANGED <<cand, entry>>,
             files[v] \subseteq files'[v],
             how = "failed" \/ b \in files'[v] \/ part[v][b] \notin {"run", "failed"}
      PROVE  HasFiles(v)' /\ HasEntry(v)'
  <2>1. part'[v][b] = how /\ \A c \in Part : c # b => part'[v][c] = part[v][c]
    BY <1>0, <1>2, PartMoves
  <2>2. HasFiles(v)'
    BY <1>0, <1>2, <2>1 DEF HasFiles, FilesOf
  <2>3. HasEntry(v)'
    BY <1>0, <1>1, <1>2, <2>1 DEF HasEntry, Disturbed
  <2> QED
    BY <2>2, <2>3
\* Steps of the address.
<1>3. ASSUME NEW how \in Progress, PartEnds(v, "lease", how), UNCHANGED files,
             how = "done" /\ v \notin Bridged => entry'[MacOf[v]] = cand'[v]
      PROVE  HasFiles(v)' /\ HasEntry(v)'
  <2>1. part'[v]["lease"] = how /\ \A c \in Part : c # "lease" => part'[v][c] = part[v][c]
    BY <1>0, <1>3, PartMoves
  <2>2. HasFiles(v)'
    BY <1>0, <1>3, <2>1 DEF HasFiles, FilesOf
  <2>3. HasEntry(v)'
    BY <1>3, <2>1 DEF HasEntry
  <2> QED
    BY <2>2, <2>3
<1>4. ASSUME NEW b \in Files, NEW next \in Progress, FileDone(v, b, next) PROVE HasFiles(v)' /\ HasEntry(v)'
  <2>1. files[v] \subseteq files'[v] /\ b \in files'[v]
    BY <1>4 DEF FileDone, FileMade, TypeOK
  <2> QED
    BY <1>2, <1>4, <2>1 DEF FileDone
<1>5. CASE FileStep(v)
  BY <1>4, <1>5 DEF FileStep, CloneQcow, GenerateIso, CreateQcow, Files, Progress
<1>6. CASE DiskStep(v)
  BY <1>0, <1>2, <1>6 DEF DiskStep, FindDevice, Connect, GiveUpSearch, Mkfs, Progress
<1>7. CASE RequestLease(v)
  BY <1>3, <1>7 DEF RequestLease, Progress
<1>8. CASE PickAddr(v)
  BY <1>3, <1>8 DEF PickAddr, Progress
<1>9. CASE AddEntry(v)
  <2>1. \/ PartEnds(v, "lease", "failed") /\ UNCHANGED files
        \/ PartEnds(v, "lease", "done") /\ UNCHANGED <<files, cand>>
             /\ entry' = [entry EXCEPT ![MacOf[v]] = cand[v]]
    BY <1>9 DEF AddEntry
  <2> QED
    BY <1>0, <1>3, <2>1 DEF Progress, TypeOK
<1>10. ASSUME NEW b \in Part, PartFails(v, b) PROVE HasFiles(v)' /\ HasEntry(v)'
  <2>1. b \in Files \/ b = "lease"
    BY DEF Part
  <2> QED
    BY <1>2, <1>3, <1>10, <2>1 DEF PartFails, Progress
<1> QED
  BY <1>5, <1>6, <1>7, <1>8, <1>9, <1>10 DEF PartStep, LeaseStep

\* vm_manager.py:87-131
LEMMA WholeInductive == Base /\ EntInv /\ WholeInv /\ [Next]_vars => WholeInv'
<1> SUFFICES ASSUME Base, EntInv, WholeInv, [Next]_vars PROVE WholeInv'
  OBVIOUS
<1>0. /\ TypeOK /\ Clearing /\ Unbegun /\ part \in [VMs -> [Part -> Progress]]
      /\ MacTurn /\ "lease" \in Part /\ Files \subseteq Part
      /\ \A v \in VMs : MacOf[v] \in Macs
  BY VMManagerAssumption DEF Base, WholeInv, TypeOK, Progress, Part
<1>1. ASSUME NEW u \in VMs, Create(u) PROVE WholeInv'
  <2>1. /\ stage[u] = "none" /\ Reserved(u) /\ stage'[u] = "making"
        /\ UNCHANGED <<undo, files, entry, cand, late>>
        /\ \A b \in Parts[u] \cap Part : part'[u][b] = "run"
        /\ \A w \in VMs : w # u => stage'[w] = stage[w] /\ part'[w] = part[w]
    BY <1>0, <1>1 DEF Create, TypeOK, history
  <2>2. MacTurn'
    BY <1>0, <2>1, VMManagerAssumption DEF MacTurn, Reserved
  <2>3. HasFiles(u)' /\ HasEntry(u)'
    BY <1>0, <2>1 DEF HasFiles, HasEntry, FilesOf
  <2>4. ASSUME NEW v \in VMs, v # u, Whole(v)' PROVE HasFiles(v)' /\ HasEntry(v)'
    BY <2>1, <2>4, StaysWhole DEF WholeInv, Whole
  <2> QED
    BY <2>2, <2>3, <2>4 DEF WholeInv
<1>2. ASSUME NEW u \in VMs, PartStep(u) PROVE WholeInv'
  <2>1. UNCHANGED <<stage, undo, rel>>
    BY <1>0, <1>2, PartFrame
  <2>2. MacTurn'
    BY <1>0, <2>1 DEF MacTurn
  <2>3. \A v \in VMs : Whole(v) => HasFiles(v)' /\ HasEntry(v)'
    <3>1. Whole(u) => HasFiles(u)' /\ HasEntry(u)'
      BY <1>0, <1>2, OwnPart DEF WholeInv
    <3>2. ASSUME NEW v \in VMs, v # u, Whole(v) PROVE HasFiles(v)' /\ HasEntry(v)'
      <4>1. PICK c \in Part, how \in Progress \ {"run"} : InFlight(u, c) /\ PartEnds(u, c, how)
        BY <1>0, <1>2, PartFrame
      <4>2. part'[v] = part[v]
        BY <1>0, <3>2, <4>1 DEF PartEnds
      <4>3. \A w \in VMs : late[w] \subseteq late'[w]
        BY <1>0, <1>2, PartFiles
      <4>4. files'[v] = files[v]
        BY <1>0, <1>2, <3>2, PartFiles DEF TypeOK
      <4>5. cand'[v] = cand[v]
        BY <1>0, <1>2, <3>2 DEF PartStep, FileStep, CloneQcow, GenerateIso, CreateQcow, FileDone, DiskStep,
           FindDevice, Connect, GiveUpSearch, Mkfs, LeaseStep, RequestLease, PickAddr, AddEntry, PartFails,
           TypeOK
      <4>6. CASE UNCHANGED entry
        BY <3>2, <4>2, <4>3, <4>4, <4>5, <4>6, StaysWhole DEF WholeInv
      <4>7. CASE AddEntry(u)
        <5>1. CASE MacOf[u] # MacOf[v]
          <6>1. entry'[MacOf[v]] = entry[MacOf[v]]
            BY <1>0, <4>7, <5>1 DEF AddEntry, TypeOK
          <6> QED
            BY <3>2, <4>2, <4>3, <4>4, <4>5, <6>1, StaysWhole DEF WholeInv
        <5>2. CASE MacOf[u] = MacOf[v] /\ entry' # entry
          <6>1. stage[u] \in {"gone", "broken"}
            <7>1. stage[u] \in {"none", "gone", "broken"}
              BY <1>0, <3>2, <5>2, OthersOver
            <7>2. part[u]["lease"] # "none"
              BY <4>7 DEF AddEntry
            <7> QED
              BY <1>0, <7>1, <7>2 DEF Unbegun
          <6>2. "lease" \in late'[u]
            BY <1>0, <4>7, <5>2, <6>1 DEF AddEntry, EntInv, TypeOK
          <6>3. Disturbed(v)'
            BY <3>2, <5>2, <6>2 DEF Disturbed
          <6> QED
            BY <3>2, <4>2, <4>3, <4>4, <4>5, <6>3, StaysWhole DEF WholeInv
        <5> QED
          BY <4>6, <5>1, <5>2
      <4>8. AddEntry(u) \/ UNCHANGED entry
        BY <1>2 DEF PartStep, FileStep, CloneQcow, GenerateIso, CreateQcow, FileDone, DiskStep, FindDevice,
           Connect, GiveUpSearch, Mkfs, LeaseStep, RequestLease, PickAddr, PartFails
      <4> QED
        BY <4>6, <4>7, <4>8
    <3> QED
      BY <3>1, <3>2
  <2> QED
    BY <2>1, <2>2, <2>3 DEF WholeInv, Whole
<1>3. ASSUME NEW u \in VMs, ManagerMoves(u) PROVE WholeInv'
  <2>1. /\ UNCHANGED <<part, cand, late>> /\ stage[u] # "none"
        /\ \A w \in VMs : w # u => stage'[w] = stage[w] /\ undo'[w] = undo[w]
    BY <1>0, <1>3, ManagerFrame
  <2>2. /\ Whole(u)' => Whole(u)
        /\ stage[u] \in {"gone", "broken"} => stage'[u] = stage[u]
    <3>1. CASE GatherOk(u) \/ Define(u) \/ Start(u) \/ StartVM(u) \/ StopVM(u) \/ DestroyStart(u)
      BY <1>0, <3>1 DEF GatherOk, Define, Start, StartVM, StopVM, DestroyStart, Whole, TypeOK
    <3>2. CASE AllocateFails(u)
      BY <1>0, <3>2 DEF AllocateFails, Failed, CleanUp, Whole, TypeOK
    <3>3. CASE KillByName(u) \/ KillFails(u)
      BY <1>0, <3>3 DEF KillByName, KillFails, Whole, TypeOK
    <3>4. CASE DestroyEnds(u) \/ AllocateEnds(u)
      BY <1>0, <3>4 DEF DestroyEnds, AllocateEnds, AfterDestroy, Whole, TypeOK
    <3>5. ASSUME ReleaseLease(u) \/ \E b \in Files : DeleteFile(u, b) PROVE UNCHANGED <<stage, undo>>
      BY <3>5 DEF ReleaseLease, DeleteFile
    <3> QED
      BY <1>3, <3>1, <3>2, <3>3, <3>4, <3>5 DEF ManagerMoves, ManagerStep, Whole
  <2>3. MacTurn'
    BY <1>0, <2>1, <2>2 DEF MacTurn
  <2>4. ASSUME NEW v \in VMs, Whole(v), ReleaseLease(u) PROVE entry'[MacOf[v]] = entry[MacOf[v]]
    <3>1. stage[u] = "clear"
      BY <1>0, <2>4 DEF ReleaseLease, TypeOK
    <3>2. MacOf[u] # MacOf[v]
      <4>1. u # v
        BY <2>4, <3>1 DEF Whole
      <4> QED
        BY <1>0, <2>4, <3>1, <4>1, OthersOver
    <3> QED
      BY <1>0, <2>4, <3>2 DEF ReleaseLease, TypeOK
  <2>5. ASSUME NEW v \in VMs, Whole(v), NEW b \in Files, DeleteFile(u, b) PROVE files'[v] = files[v]
    <3>1. u # v
      BY <1>0, <2>5 DEF DeleteFile, Clearing, Whole
    <3> QED
      BY <1>0, <2>5, <3>1 DEF DeleteFile, TypeOK
  <2>6. ReleaseLease(u) \/ UNCHANGED entry
    BY <1>3 DEF ManagerMoves, ManagerStep, GatherOk, Define, Start, StartVM, StopVM, DestroyStart,
       AllocateFails, KillByName, KillFails, DestroyEnds, AllocateEnds, DeleteFile
  <2>7. (\E b \in Files : DeleteFile(u, b)) \/ UNCHANGED files
    BY <1>3 DEF ManagerMoves, ManagerStep, GatherOk, Define, Start, StartVM, StopVM, DestroyStart,
       AllocateFails, KillByName, KillFails, DestroyEnds, AllocateEnds, ReleaseLease
  <2>8. ASSUME NEW v \in VMs, Whole(v)' PROVE HasFiles(v)' /\ HasEntry(v)'
    <3>1. Whole(v)
      BY <2>1, <2>2, <2>8 DEF Whole
    <3>2. entry'[MacOf[v]] = entry[MacOf[v]] /\ files'[v] = files[v]
      BY <2>4, <2>5, <2>6, <2>7, <3>1
    <3> QED
      BY <2>1, <3>1, <3>2, StaysWhole DEF WholeInv
  <2> QED
    BY <2>3, <2>8 DEF WholeInv
<1>4. ASSUME UNCHANGED vars PROVE WholeInv'
  BY <1>4 DEF vars, WholeInv, MacTurn, Whole, HasFiles, HasEntry, Disturbed, FilesOf
<1> QED
  BY <1>1, <1>2, <1>3, <1>4, StepCases

\* UpIsWhole: what allocate_vm has told of a VM is true as long as it is up, but
\* for an address that a straggler of its mac's last VM has replaced.
THEOREM UpWhole == Spec => []UpIsWhole
<1>1. Init => FilesInv /\ EntInv /\ AddrInv /\ WholeInv
  BY DEF Init, FilesInv, FilesOne, CameUp, EntInv, Owned, AddrInv, Adds, AddressesUnique, Part,
     WholeInv, MacTurn, Whole
<1>2. FilesInv /\ WholeInv => UpIsWhole
  <2> SUFFICES ASSUME FilesInv, WholeInv, NEW v \in VMs, stage[v] = "up"
      PROVE  /\ FilesOf(v) \subseteq files[v]
             /\ v \in Bridged \/ "lease" \notin Parts[v] \/ entry[MacOf[v]] = cand[v] \/ Disturbed(v)
    BY DEF UpIsWhole, Disturbed
  <2>1. AllDone(v) /\ HasFiles(v) /\ HasEntry(v)
    BY DEF FilesInv, FilesOne, CameUp, WholeInv, Whole
  <2> QED
    BY <2>1 DEF AllDone, HasFiles, HasEntry, FilesOf, Files, Part
<1> QED
  BY <1>1, <1>2, BaseInit, BaseInductive, FilesInductive, AddrInductive, EntInductive, WholeInductive, PTL
  DEF Spec
==============================================================================
