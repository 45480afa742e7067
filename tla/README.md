# A verification of habertest-backend

habertest-backend hands test machines to test runs. A client asks the
**provisioner** for hosts with certain properties; the provisioner asks the
**resource managers** (hardvisor for bare metal, hypervisor for local VMs,
cloudvisor for EC2) which of them could serve the request, lets them allocate,
and keeps a record of the reservation in redis. The client extends its
reservation through the **heartbeat server**; a daemon of the provisioner takes
back what has expired. This directory holds TLA+ models of these parts, TLC
configurations that check them on small instances, and TLAPS proofs of what
holds for instances of any size. `PROJECT.json` lists components, runs, the
code lines of each definition, mutants, findings, hazards and theorems.

## 1. The system

| part | code | state | operations |
|---|---|---|---|
| provisioner, fulfiller | `hwallocator/provisioner/webapp/fulfiller.py`, `redisclient.py`, `rm_requestor.py` | redis hashes `allocations` and `resource_managers`; the local variables of each coroutine | `fulfill`, `release` |
| provisioner, daemon | `.../expires.py` | a snapshot of all records; the deallocation tasks of a pass | `expire_allocations`, every ten seconds |
| heartbeat server | `hwallocator/heartbeat_server/webapp/heartbeats.py` | the same redis | `update_expires` |
| registry | `.../resourcemanager.py` | `resource_managers` | `heartbeat` of a resource manager |
| hardvisor | `resource_managers/hardvisor` | redis hash `resources`, one lock | `fulfill`, `allocate`, `release`, the cleaner |
| hypervisor, allocator | `resource_managers/hypervisor/vms/allocator.py` | pools of macs and GPUs, used ports, dictionary of VMs, a lock per VM | `allocate_vm`, `destroy_vm`, `restore_vms` |
| hypervisor, REST | `hypervisor/vms/rest.py`, `hypervisor/__main__.py` | the VMs a fulfil has got so far | `/fulfill/now` with its roll-back, `/vms`, `/vms/{name}/status`, a restart |
| hypervisor, VM manager | `vm_manager.py`, `libvirt_wrapper.py`, `dhcp_handlers.py`, `storage.py`, `image_store.py`, `cloud_init.py` | libvirt domains, DHCP entries, images, NBD devices | `allocate_vm`, `destroy_vm`, power |
| cloudvisor | `resource_managers/cloudvisor` | EC2 instances and security groups | `/fulfill/now`, `/deallocate`, a cleaner |

Everything is asyncio code: a handler runs alone until an `await`, and at each
`await` on redis, on a resource manager or in a thread pool all others may run.
The provisioner, the heartbeat server and the resource managers are separate
processes; the first two share redis without transactions. The processes are
restarted when they end (`restart: always` in the compose files), redis stays.

What is hard here, and what would make each part correct:

* *Read-modify-write without a lock.* `update_status` and `update_expires` read
  a JSON record, change it, write it back. A live reservation must keep its
  machines, a deleted record must not come back for good.
* *Decisions on snapshots.* The daemon decides on what it read at the start of a
  pass, the cleaners compare two lists read one after the other. A reservation
  that is in use must not be taken away.
* *Partial failure.* A fulfil of several hosts, a release of several machines,
  the creation of a VM from disks, addresses and a domain: each can stop
  half-way. Nothing must be lost, nothing given out twice.
* *Time.* Requests and reservations expire after 60 s while calls can take
  minutes; heartbeats race the daemon.
* *Threads.* The VM manager and the cloudvisor do their work in thread pools and
  subprocesses, which a failed `gather` or a closed connection does not stop:
  what they make can appear after everybody has cleaned up.
* *Restarts.* The provisioner and the hardvisor keep their state in redis, the
  hypervisor reads its VMs back from libvirt, the cloudvisor from EC2's tags.
* *Liveness.* Each record must go in the end, each machine whose allocation is
  gone must be released, each creation must end.

The full list, with lines, is under `hazards` in `PROJECT.json`.

## 2. Modules

| module | models | runs |
|---|---|---|
| `HostSplit` | the loop in `fulfill` that shares the hosts between resource managers, as functions | |
| `HostSplitLoop` (EXTENDS `HostSplit`) | that loop turn by turn, on every set of answers | `host_split` (`MCHostSplit`) |
| `Provisioner` (EXTENDS `HostSplit`) | fulfiller, release, daemon, registry, heartbeat server around redis | `prov_*` (`MCProvisioner`) |
| `MachinePool` | abstract promise: a machine is granted only when it is free | |
| `Hardvisor` | hardvisor with its cleaner; implements `MachinePool` | `hardvisor*` (`MCHardvisor`) |
| `HypervisorAllocator` | `allocate_vm` and `destroy_vm` | `allocator_names` (`MCHypervisorAllocator`) |
| `VMResources` | abstract promise about the macs and GPUs of VMs | |
| `Hypervisor` (EXTENDS `HypervisorAllocator`) | the process around the allocator: fulfils and their roll-back, REST calls, serial ports, restarts; implements `VMResources` | `allocator` (`MCHypervisor`) |
| `VMLifecycle` | abstract promise about the domain of a VM | |
| `VMManager` | the VM manager with its threads; implements `VMLifecycle` | `vm_manager` (`MCVMManager`) |
| `Cloudvisor` | cloudvisor with its cleaner | `cloudvisor*` (`MCCloudvisor`) |
| `HostSplitProofs`, `HostSplitLoopProofs`, `ProvisionerProofs`, `HardvisorProofs`, `HypervisorAllocatorProofs`, `HypervisorProofs`, `VMManagerProofs`, `CloudvisorProofs` | proofs | |

The modules meet where the components do: `Provisioner` sees a resource manager
as a pool that grants and frees machines in one step, which is what `MachinePool`
states and `Hardvisor` implements; `HypervisorAllocator` sees the VM manager as
calls that take time and fail leaving no domain, which is what `VMLifecycle`
states, up to `broken`, and `VMManager` implements; `Hardvisor` and `Cloudvisor`
see the provisioner as a table of jobs that changes at any time.

### HostSplit

`Split(plan)` takes the lists of hosts that the potential fulfillers answered
with and returns what the nested loops leave. The inner loop removes from the
list it iterates over, so Python's iterator skips the element after each
removed one; a scan has the iterator's position as explicit state, `Inspect` is a
turn of the inner loop, `SplitOne` one of the outer. `Listing` is the order in which a
resource manager answers, that of the request.

`HostSplitLoop` runs the outer loop, `Turn` by `Turn`, on *all* answers of up to `MaxRMs`
resource managers; `host_split` has three of them and four hosts: four hosts are enough for
two skips in one list, three resource managers for a transfer through a third.
`EveryHostKept`: after each turn every demanded host is with somebody.
`TwoShareNothing`: with one or two resource managers no host is left with both
(what the first skips, the second removes). With three and more this is not so
(three that all offer `a, b, c` end with `b` twice), so a host can be allocated
twice although the comment at `fulfiller.py:51` speaks of avoiding duplicates.

### Provisioner

*State.* `alloc[i]` is the record of allocation `i` in redis (status, the ticks
`left` until it expires, `rm_endpoint`, the machines in `hardware_details`) or
`NoRec`; `rms` the registered resource managers; `owner[m]` who holds a machine
according to its resource manager. `ful[i]` and `rel[i]` are the program
counters and local variables of the two coroutines of an allocation, `upd[p]`
the `update_status` or `update_expires` that coroutine `p` is in (the copy it has
read, once it has), `dmn` the daemon with its snapshot and the set of records it
still has to look at, `task[i]` the deallocation task of this pass, `orphans` the
tasks of passes that ended in an exception, `detached` the calls to resource
managers whose caller has gone.

*Actions.* Each action is the code between two awaits: `FulfillStart` ...
`FulfillReply` are `Fulfiller.fulfill`, `UpdateRead`/`UpdateWrite` are the two
halves of `update_status` (and the second half of `update_expires`) for all their
callers, `Release*` is `Fulfiller.release`, `Pass*` and `Task*` are
`expire_allocations`. An exception (a record that is gone while
`update_status` reads it, a failed call) ends the coroutine exactly where the
code lets it: `Dies` ends a fulfil, a release, or the daemon's pass, and in the
last case the tasks that were started become orphans.

*Time.* A record's `expiration` minus now is kept in each copy of the record, in
redis, in the daemon's snapshot and in the copies of updates under way; `Tick`
lowers all of them together. This is the same as comparing absolute times and
keeps the state finite: below `-Grace` records are not told apart. `TTL` stands
for 60 s and `Grace` for the 15 minutes; with `TTL = 2` a tick is half a
minute. How long things take is a parameter: an activity in `Slow` may last
across ticks, any other is over before the next tick.

*Parameters of the environment.* `Faults`: `abandon` (a websocket is closed, a call
times out and its caller goes on while the resource manager still works), `lost`
(a machine is freed but the answer does not arrive), `cut_release` (a release
ends before it has deleted its record), `crash` (the provisioner is restarted).
`Clients`: heartbeats, releases, retries of a request under the same id, and
`untimely`, without which clients heartbeat and release only a reservation
that is live, and do not do both at the same time. No passing run has `untimely` clients.

| run | instance | shows |
|---|---|---|
| `prov_reservation` | 2 ids, 1 machine, `TTL = 2`, slow fulfils, `lost`, `crash` (one), heartbeats and releases by timely clients (1,107,176 states) | `LiveReservationHeld`: a success that has not expired holds the machines it names. `RemovedWhenFreed`: no record is deleted while its allocation holds a machine it names, except after the time of grace. `LiveUndisturbed`: a success that has not expired and is not being released keeps everything but its time, whatever is written from older copies; a pass removes it only if it has seen its request expire. |
| `prov_removal` | 1 id, 1 machine, `TTL = 1`; slow passes, releases and fulfils; `lost`, `cut_release`, `abandon`; releases, retries (421,940 states) | `EveryRecordRemoved`: without heartbeats each record is deleted in the end. |
| `prov_stale_pass` | 1 id, slow pass, heartbeats | violation of `DaemonSparesLive` (finding) |
| `prov_two_rms` | 1 id with two hosts, each served by another resource manager | violation of `ReplyCoversDemands` (finding) |

Two competing ids and one machine are enough to see a machine taken by a second
allocation while a record of the first still names it, which is what the safety
properties are about; `TTL = 2` distinguishes a reservation that is about to expire from
one just extended. `abandon` with two ids is covered by the theorems `Reservation`,
`Removal` and `Undisturbed`, which allow it (an instance with it has 4,597,338 states,
where `LiveReservationHeld` and `RemovedWhenFreed` hold too; that takes too long for a run). `prov_removal` has one
id because the passes treat records independently, apart from the exception that ends a
pass, which one record can cause by itself.

*What does not hold.* With the parameters opened further, TLC finds what follows from
the code and what no document denies; the safety runs therefore exclude it:

* two resource managers: besides the finding, `LiveReservationHeld` fails after 41 steps. A
  fulfil of two whose first success has expired is saved as success a second time while a
  pass holds the older record; the pass overwrites it, a restart and a late heartbeat bring
  the success back, and a second pass, which has seen `deallocating`, restores it after
  the client has released it. With one it holds, also on larger instances than the run's (2 ids, 2
  machines, 2 hosts: 7.6 million states).
* slow passes: besides the finding, a pass that saw `allocating` removes a record
  that has become a success meanwhile; its machine is then nobody's. A slow fulfil is enough
  for this, when it saves its success while a pass holds the request as expired: hence
  `TakenForExpired` in `LiveUndisturbed`. A heartbeat that has read the success in between
  brings its record back.
* a pass beside a release: the release has marked a record as deallocated and deletes it; a
  `check_status` of a pass makes it a success without machines when its `update_status`
  has read it before the deletion and writes after it.
* the reply: a fulfil that failed with "exception" can be answered as a success without
  machines, when a pass's `check_status` has made its record a success before the reply is read.
  `ReplyCoversDemands` therefore fails also with one resource manager and nothing slow.
* `cut_release` or a crash in a release: the record of success still names
  machines already freed. A later pass frees them again, whoever has them.
* `untimely` clients: a heartbeat that has read the record writes it back after a
  release or a pass has deleted it.
* orphans in a slow pass: an aborted pass's task can free the machine of an allocation
  that has been granted it since.
* `retry`: a repeated request that nobody can serve deletes the record
  (`FulfillGiveUp`) although an earlier one under the same id is being deallocated.

*Fairness.* `FairSpec` asks for time to go on, for the daemon to run (one coroutine of
the event loop, its `update_status` included, that catches every exception: one `WF` for
all its steps), and that a deallocation that is tried again and again succeeds at some
time (`SF` of `TaskFrees`): a resource manager that never frees a machine keeps the
record in error until the time of grace. Nothing is asked of fulfils, releases,
heartbeats or clients.

### Hardvisor

`owner[m]` is a machine's entry in `resources`: `status` and `allocation_id` are
always written together. `AllocatePick` takes `allocate_lock`, reads all
machines and chooses an available one with the right arch; `AllocateWrite` is
`reserve_machine` and the end of the lock. `ReleaseRead`/`ReleaseWrite` are the
two halves of `release`, for its three callers: the rollback of a fulfil, the REST
handler, the cleaner. The cleaner reads the provisioner's jobs
(`CleanerJobs`), the machines (`CleanerList`), and releases one machine after the
other. `jobs` is the provisioner's table, which changes at any time; `fulfill`
is called for saved jobs only. `Broken` machines are those whose credentials
`RemoteExecutor` refuses with an assertion.

`hardvisor` (2 allocations, one with two hosts, the other with the one that only `m1` can be; 2
machines, one restart; 281,632 states) checks
`PickedIsFree` (the lock suffices although releases do not take it),
`AllOrNothing` (a failed fulfil keeps nothing), `PoolSpec` (refinement of
`MachinePool`) and, with weak fairness of the cleaner's steps, which the event
loop and the periodic task justify, `DanglingFreed`. Two hosts and two machines
are the smallest instance in which a fulfil half succeeds and rolls back while
the other allocation competes for the same machine. `DanglingFreed` needs
`HasCert = TRUE` (without a certificate every pass of the cleaner ends in an
`AttributeError`) and no broken machine (it would end each pass).
`hardvisor_cleaner` shows the cleaner releasing a provisioned machine (finding).

### HypervisorAllocator

`free[r]` counts how often a mac or a GPU is in its list, so a double free is
visible; `used` is `sol_used_ports`; `vms` the dictionary; `pc`, `name`, `held`,
`port` the VM objects; `dst[d]` a `destroy_vm` call with the object it looked up;
`dom[n]` the libvirt domain of a name; `lost` what calls that found no port
have cut off the lists. `allocate_vm` up to the wait for the VM manager is one
step, because its lock is never held across an await. The VM's own lock
(`Locked`) serialises its creation and its destructions.

`NameReuse` says whether a new VM can take a name while a `destroy_vm` that looked up the
old VM of this name has not been woken yet. In asyncio it can: the wake-up is
queued behind tasks that are ready. `allocator_names` (3 calls, 2 destroyers)
allows it and finds the double check passing for the wrong VM (finding).
Everything else is checked, and proved, without it.

### Hypervisor

`ful[f]` is a call of `/fulfill/now`, `task[a]` what has become of each of its
`allocate_vm` calls, `told[a]` the name that the call returned. `FulfilFails` is the
`gather` with `return_exceptions`, which waits for all; `UndoStart` destroys, by
name, each VM that was had, with a `destroy_vm` call of its own (`UndoerOf`).
`ReservesPort` is the search for a serial port: the first number from
`sol_base_port + len(vms)` on that is not in `sol_used_ports` and can be bound.
A port is a pair of a number and a kind, because `restore_vms` gets it from the
XML metadata as a string, which no number equals; only `Bound`, the attempt to
bind it, protects the port of a restored VM. `Restart(K)` is a new process with
`restore_vms` or, with `K` empty, `delete_all_dangling_vms`: any set `K` of the VMs
with a domain comes back, the others are destroyed.

`allocator` has one fulfil of two VMs, one POST, one DELETE, three macs, a GPU,
three port numbers, `max_vms` 2 and one restart (421,815 states). Two calls of a
fulfil are enough for one to fail while the other is still at work, the POST competes
for the name, the mac and the port of either, the DELETE for the VM itself, and
with `max_vms` 2 the dictionary is full while a third asks. It checks
`ResourcesConserved`, `PortsConserved`, `ListedAreVMs`, `WithinMaxVMs`,
`DoubleCheckHolds`, `FailedKeepsNothing`, `PortsApart`, `KillsItsOwn`, and `ResourcesSpec`, the
refinement of `VMResources` with what is in the lists (`Pooled`) as its pool: a VM gets
its macs and GPUs from there at once, has them until all are given back, and a restart
puts back what no restored VM has. `ResourcesConserved` says that nothing is in two places;
`ResourcesSpec` says by which ways it gets from one to another.

*What does not hold*, and is left out or excluded:

* The roll-back destroys by name. A VM that is destroyed by somebody else between its creation
  and the end of the others can have lost its name to a new VM, which the roll-back
  then destroys. `NameReuse = FALSE` does not exclude this one: no property says
  whose VM a roll-back destroys.
* A restored VM that is powered off has its port bound by nobody, and a new VM can
  be given it. `PortsApart` is about VMs that run.
* A `load_lab_vms` that fails is taken for an empty list: the domains run on, forgotten,
  and their names, macs and GPUs are handed out again. `Restart` assumes that it succeeds.
* A VM without networks ends the start: `_try_restore_vm` raises a `TypeError` for it, and
  `destroy_vm`, given the parsed metadata, an `AttributeError` outside of any `try`. So does
  a kill that fails there. `Restart` is a start that comes to its end.
* A client that goes away cancels its handler; `except Exception` does not catch the
  `CancelledError`, so neither the allocator nor the VM manager cleans up. Not modelled.

### VMManager

`stage[v]` is where `allocate_vm` or `destroy_vm` of a VM is, `part[v][b]` how far
each of the four parts that `gather` makes at once has come (boot image, ISO, disk,
address), `files[v]` what is on the disks, `dev[v]` the NBD device found for the
disk, `entry[m]` the DHCP server's entry for a mac, `dom[v]` the libvirt domain.
A part that fails ends the gather, and the clean-up (`AllocateFails`, `KillByName`,
`DeleteFile`, `ReleaseLease`, `DestroyEnds`, a second deletion, `AllocateEnds`) runs
beside the parts that are still being made. `late` and `stuck` are history: what was
finished after its clean-up, and what could not be removed.

`FindDevice` looks for a device of size 0 under `device_search_lock`; a device
has a size only when `qemu-nbd` has connected it, so until then the lock is all
that keeps a second disk away. `PickAddr` and `AddEntry` are `_allocate_ip_sync`
under its lock; `ReleaseLease` takes none, and the entry of a mac may be made by
the thread of a VM that is gone, modified by it, or removed under its feet.

`vm_manager` (251,120 states): VMs 1, 2 and 3 get the same mac one after the
other, 4 another; 2 and 4 have disks, and there is one device; 1 fails at its ISO
or its removals, 2 cannot release its address, 3, which is bridged, fails at its start or its kill. Two addresses are fewer than the three isolated VMs, so the range can
be empty. Four VMs are what it takes to have a straggler of the first VM of a mac
meet the second while a stranger holds the device and an address. All of
`DeviceOfOne`, `AddressesUnique`, `UpIsWhole`, `OnlyLateFilesStay`,
`OnlyLateEntriesStay`, `LifecycleSpec` (refinement of `VMLifecycle` under the mapping
`Status`) and `CreationEnds` hold, the last with weak fairness of each VM's
steps: coroutines, threads and subprocesses go on, and whoever has a lock
releases it. Fairness asks neither that parts succeed nor that clients destroy.

*What does not hold*: a kill that fails in the clean-up of a failed creation is only
logged; the VM is `broken`, its domain, files and address stay while the Allocator
gives its name and mac to others. The address of a VM that is up can be changed by
a straggler of the last VM with its mac (the exception in `UpIsWhole`). A device whose
disconnect fails stays connected for ever; modelled as always succeeding.
One network and one disk per VM stand for several; `verify_storage_valid` and
`info` only read; the XML of a domain is not modelled.

### Cloudvisor

`th[h]` is `allocate_instance` for one demanded host: `get`, `create`,
`authorize`, `launch` are the steps of `EC2Wrapper.allocate` in its thread, repeated for each
instance type as long as EC2 answers with a `ClientError`. `grp[a]` is the security
group of an allocation, `lock[v]` `_get_or_create_lock` of a process, `inst[h]` the
instance. The cleaner (`cpc`, `known`, `doomed`) reads the provisioner's jobs before the
instances and terminates one after the other; beside it, in a thread (`gpc`, `groups`),
groups that are old enough are deleted without the lock, unless EC2 refuses because
an instance uses them. `GroupAges` lets time pass; an attempt takes at most one
tick (`ticked`), `Old` ticks are the five minutes.

`cloudvisor` (38,774 states): an allocation of two hosts, one with two instance
types, `Old = 2`, refused launches, missing images, abandoned requests, one restart. Two hosts
are needed to race for the group, two types to lose it and try again, and `Old = 2` is the least for
which a new group outlives an attempt. `NoDuplicateGroup`, `LaunchedReachable`,
`LosesGroupOnce` hold, and, with weak fairness of the threads, of the cleaner, which
wakes up every quarter of an hour and catches what a pass raises, and of time,
`DanglingTerminated` and `GroupsCollected`.
`cloudvisor_foreign` has the cloudvisors of two developers with a provisioner each:
the cleaner of one terminates the instances of the other (finding).

*What does not hold*:

* `authorize_ingress` fails: the group stays without rules and the next attempt finds
  it, so `LaunchedReachable` needs `"authorize" \notin Faults`.
* An instance of a `long_lasting` requestor whose allocation is gone ends each pass
  with a `TypeError` before anything is destroyed; the run has none.
* Two cloudvisors that serve one allocation have a lock each and can both make its
  group; the second gets a `ClientError` and tries its next instance type.
* An instance launched between the two reads of the cleaner for a job saved in
  between is terminated, as in `hardvisor_cleaner`.
* `POST /vms` ends in a `TypeError` for each request (no `arch`), though
  `tests/cloudvisor/test_rest.py` expects a VM; `destroy_many` and `destroy_all` call a method
  that does not exist. Neither changes any state.

Deadlock is checked only where the system never rests (`hardvisor`); a world in which
every demand, VM or fulfil of the instance is over may stop.

## 3. Proofs

Everything rests on the named assumptions on constants (`LoopAssumption`, `ConstantsAssumption`,
`NullAssumption`, `HardvisorAssumption`,
`AllocatorAssumption`, `HypervisorAssumption`, `VMManagerAssumption`,
`CloudvisorAssumption`), which TLC evaluates in the runs. Further
assumptions are stated in the theorem that needs them.

`HostSplitProofs`, `HostSplitLoopProofs`
: The loop's functions are recursive; what they compute is proved by induction over turns
  from `NoLeast` (a set of numbers that with each number but 0 has the one below, and has not 0,
  is empty), which follows from the library's theorem that the numbers are well-founded.
  `ScansAre` and `SplitsAre` give the functions' equations.
  `DropSharedKeeps`: a scan keeps what nobody else has, so a turn loses nothing
  (`SplitOneCovers`, `SplitCovers`, `NothingLost`). `DropSharedSkips`: a host that a scan
  leaves although another has it comes right after one that the scan removed (`Skipped`). That
  is why two resource managers share nothing at the end (`TwoDoNotShare`). A host that both keep
  was skipped in both lists. The host before it in the first was removed, so the second list has
  it, but not directly before the skipped one, whose neighbour there the first has kept; both
  list in the order of the request (`SameOrder`), so in the first list that neighbour would
  lie between two that are next to each other.

`ProvisionerProofs`
: `Typing`: `TypeOK`, for any number of resource managers, any faults, any clients; the plans
  of several resource managers are typed by `SplitCovers`. `Reservation`: `LiveReservationHeld`, for any ids, machines, hosts, answers and `TTL`.
  It assumes `TimelyWorld`, the world of the run `prov_reservation` and, beyond it, `abandon`: one resource manager,
  clients that send heartbeats and release, the faults `abandon`, `lost` and
  `crash`, and only fulfils outliving an expiration. It is needed: `prov_stale_pass` shows what
  a slow pass does, and with two resource managers the property fails (see above).
  `NullAssumption` says that "no record" and "no update" are neither.
  The property alone is not inductive, because it says nothing of the
  stale copies that are going to be written. The inductive invariant `Inv` has one part for
  each coroutine that holds one: what a fulfil writes as success is held
  (`FulfilWrites`); a heartbeat that has read a success writes it while the
  allocation still holds it and nobody releases it (`HeartbeatWrites`); a release frees
  only its own machines, and a success that is there beside it has not expired, so no
  pass takes it up (`ReleaseWrites`); a deallocation task frees only machines of the
  allocation whose record it has taken over (`TaskFreesOwn`), as do the tasks that survive their pass
  (`OrphansFreeOwn`); an expired success in the snapshot of a pass is still the record
  (`SnapshotStands`), and what a pass writes is held or no reservation (`PassWrites`).
  `ServedByFulfil` says that a record leaves `received` and `allocating` only when its
  fulfil is over: until then nobody else has to do with it (`Young`). `OtherStands` is
  the lemma that a step for one allocation leaves the parts of the others true,
  since machines change hands only from and to that allocation. `Typed` strengthens
  `TypeOK`; `Short` says that plans have one entry when there is one resource manager.
  `Removal`: `RemovedWhenFreed`, in the same world. `Inv` does not say what a record must *not*
  name, or what is still to be freed, so `Clean` adds that for each allocation. Before its one
  call (`OneGrant`) an allocation holds and names nothing (`EmptyHanded`), and machines are
  named with a success only (`OpenBare`); a record past `received` names its resource manager,
  so a pass cannot remove it without asking (`Named`). A release has in `todo` what
  the record names and it still holds, and marks and removes the record when that is freed
  (`ReleaseFrees`); so does a deallocation task (`TaskFreesAll`). An open record in the snapshot
  of a pass, once it is closed, names nothing that is held, a closed one is still the
  record (`PassKnows`), and a pass does not write a record being released
  (`PassSpares`). Every step either leaves an allocation with what it had (`Elsewhere`) or
  is one of its own (`Own`): that is `Locality`. The steps of its own are proved by `YoungClean` while
  its fulfil runs, and by `OverClean` afterwards.
  `Undisturbed`: `LiveUndisturbed`, in the same world. `LiveMoves` lists who can write a record
  that is live: a heartbeat, time, and a pass that has seen the request expire. What a
  heartbeat is going to write must therefore be the record as it is, with its time renewed
  (`Renews`); it stays so because between a heartbeat's read and its write no time passes and
  nothing else moves the heartbeat (`HeartbeatAlone`), and nobody else writes a live record.

`HardvisorProofs`
: `Typing`. `Locking`: the inductive invariant `LockInv` adds to `PickedIsFree` that at most one
  allocate is between its read and its write (`OnePicked`); that is what makes a
  write of one allocate harmless to the pick of another, and releases only make
  machines free. `ImplementsPool`: under `LockInv`, `AllocateWrite` is a
  `Grant`, `ReleaseWrite` a `Release`, every other step leaves `owner` alone.
  `FailedFulfilKeepsNothing`: `RollbackInv` says that while a fulfil rolls back, each machine
  it got is no longer its own, or waits in `todo`, or is in `rel`, and that
  nothing it picked is still to be written.

`HypervisorAllocatorProofs`
: `Typing` and `Limit` hold for every value of the constants. `DoubleCheck`,
  `Conservation` and `Kills` assume `NameReuse = FALSE`, and the run
  `allocator_names` shows that they need it. `DictInv` relates the dictionary, the VM objects, the
  waiting calls (`Waiters`: the name a call waits for is still its VM's or
  nobody's), the locks (`Lockers`) and the domains (`Domains`). On top of it
  `ResInv` and `PortInv` say for each resource who has it; both are
  `ResourcesConserved` and `PortsConserved` without set comprehensions
  (`ResOne`, `PortOne`). `VMGoes` is the lemma for the two places that free a VM's
  resources.

`HypervisorProofs`
: The lemma `StepIsAllocators`: every step of `Hypervisor` but `Restart` is a step of
  `HypervisorAllocator` or leaves its variables alone, so that the allocator's invariants
  carry over, and only `Restart`, which rebuilds everything from the domains, has to be
  looked at anew. `TypesAcrossRestarts`, `ConservedAcrossRestarts`, `PortsAcrossRestarts`,
  `ListedAcrossRestarts`, `DoubleCheckAcrossRestarts`, `LimitAcrossRestarts` and `KillsAcrossRestarts` are the
  allocator's properties for the whole hypervisor: what `Restart` makes of the domains it
  restores satisfies the same inductive invariant. `SerialPortsApart` adds that every
  number in use by a running VM is bound, `FailedFulfilKeepsNothing` that a VM which a
  fulfil has got and not destroyed is still in one of its `task`s; all assume
  `NameReuse = FALSE`. `ImplementsResources`: each step of the hypervisor is a step of
  `VMResources` or leaves pool and VMs alone. From the invariant `Base` it takes that a
  resource is in its list at most once, so that the lists are sets and what a creation
  cuts off is gone from the pool, and that a `destroy_vm` frees what its VM has;
  `GoneHasNothing` adds that a VM which is not there has nothing when it is created.

`VMManagerProofs`
: No assumption beyond `VMManagerAssumption`: any number of VMs, devices, addresses,
  any faults. `PartFrame` and `ManagerFrame` say once what the steps of parts and
  of the manager leave alone. `Base` is the types with two facts on stages (`Clearing`,
  `Unbegun`). `DevInv`: a device is with the one disk that has found it, and the one in
  `connect` is that of the lock holder. `AddrInv`: who is between `PickAddr` and `AddEntry`
  holds the lock and its candidate is nobody's entry, or its own mac's. `StageInv`, with
  `Base`, gives the refinement: `dom` is a function of `stage` and the history of a kill that
  failed. `FilesInv` counts what is still in `todo`; `EntInv` says who an
  entry belongs to; `WholeInv` uses that the VMs with one mac take turns (`MacTurn`).

`CloudvisorProofs`
: `Typing`. `OneGroupEach` assumes that each allocation is served by one
  cloudvisor (`OneVisor`): whoever is at `create` holds the lock, and since
  nobody else makes groups, what it has not found is not there. `LosesOnce` assumes
  `Old >= 2`: the group that replaces a lost one was made during the attempt,
  and the attempt sees one tick.
  `LaunchesReachable` assumes that the provisioner asks for an allocation
  once (`OneFulfil`) and that `authorize_ingress` does not fail. `ReachInv` says that a
  group without rules (`Bare`) is being finished by the thread that holds the lock, or that its
  maker was cut off by a restart, and everybody who could have used the group with it:
  the new process gets no fulfil of that allocation, and the cleaner
  deletes what it finds. So whoever has found a group, or waits for the lock behind its maker,
  ends up with one whose rules are in force.

Every invariant, action property and refinement of the passing runs is proved. Only model-checked are the
liveness properties `EveryRecordRemoved`, `DanglingFreed`, `CreationEnds`,
`DanglingTerminated` and `GroupsCollected`, which are out of the prover's reach.

## 4. Not modelled

* `volunteer`, `volunteer_sub` and `claim`: no resource manager calls them, and the hash
  `jobs` that `claim` writes is read by nobody.
* Listing of jobs, VMs and machines, `info`, `vm_status`: reads without effect.
* Cancellation of the hypervisor's handlers (see `Hypervisor` above).
* The XML and cloud-init documents, tags, formatting of requests and replies: what
  matters of the metadata's round trip through XML, that numbers come back as strings and
  empty lists not at all, is part of `Restart`.
* The DHCP protocol of a bridged network: the server elsewhere hands out the address.
* The schedule of the resource managers' heartbeats: `Register` happens at any time.
* The hypervisor's checks of its host at the start, `utils` beyond the wait for a
  predicate (wrappers of system calls and logging; `utils/cleaner.py` is called by
  nobody), command line tools, charts and compose files. That processes are restarted
  when they end is taken from the latter.
