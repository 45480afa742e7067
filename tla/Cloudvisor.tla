------------------------------ MODULE Cloudvisor ------------------------------
(***************************************************************************)
(* The cloudvisor (resource_managers/cloudvisor): EC2 instances made for   *)
(* allocations.  A fulfil starts one allocate_instance per demanded host;  *)
(* each of them runs EC2Wrapper.allocate in a thread, once per instance    *)
(* type until one can be had: it finds or creates the security group of    *)
(* the allocation under a lock, then launches the instance with it.  A     *)
(* cleaner terminates the instances whose allocation the provisioner does  *)
(* not list, and deletes, without that lock, groups older than five        *)
(* minutes.                                                                *)
(*                                                                         *)
(* A host stands for its instance as well: it never gets more than one.    *)
(* EC2 is modelled from how it is used here: a group in use is not         *)
(* deleted, a group's name is not given twice, a launch with a deleted     *)
(* group is refused.                                                       *)
(***************************************************************************)
EXTENDS Integers, FiniteSets

CONSTANTS
  Provs,        \* provisioners
  Visors,       \* cloudvisor processes
  ProvOf,       \* ProvOf[v]: the provisioner cloudvisor v works for
  Main,         \* the cloudvisors that run as pods, by their id
  Allocs,       \* allocation ids
  Fulfils,      \* calls of /fulfill/now
  VisorOf, AllocOf,  \* of each fulfil
  Hosts, FulfilOf,   \* demanded hosts, and the fulfil each belongs to
  Types,        \* Types[h]: how many instance types suit h (0: the tables do
                \* not know the number of GPUs, a KeyError)
  LongLasting,  \* hosts of requestors with the tag long_lasting
  Old,          \* the age at which the cleaner deletes a group: five minutes
  Faults,       \* subset of {"refused", "image", "authorize", "abandon"}
  MaxCrashes,   \* bound on restarts
  NoHost

ASSUME CloudvisorAssumption ==
  /\ ProvOf \in [Visors -> Provs] /\ Main \subseteq Visors
  /\ VisorOf \in [Fulfils -> Visors] /\ AllocOf \in [Fulfils -> Allocs]
  /\ FulfilOf \in [Hosts -> Fulfils] /\ Types \in [Hosts -> Nat]
  /\ LongLasting \subseteq Hosts
  /\ Old \in Nat /\ MaxCrashes \in Nat
  /\ NoHost \notin Hosts

VARIABLES
  jobs,     \* jobs[p]: the allocations provisioner p lists
  ful,      \* each fulfil
  th,       \* each host's allocate_instance
  grp,      \* grp[a]: the security group with the name of allocation a
  lock,     \* lock[v]: the host whose thread has _get_or_create_lock
  inst,     \* inst[h]: the instance made for host h
  cpc, known, doomed,  \* each cleaner: where it is, the ids it was told, the
                       \* instances it has still to destroy
  gpc, groups,         \* and its thread: the groups it has still to look at
  crashes

requests == <<ful, th, lock>>
cleaners == <<cpc, known, doomed, gpc, groups>>
vars == <<jobs, ful, th, grp, lock, inst, cpc, known, doomed, gpc, groups, crashes>>

Visor(h) == VisorOf[FulfilOf[h]]
Alloc(h) == AllocOf[FulfilOf[h]]

\* left: instance types not yet tried.  The other three are history: stale, the
\* group it found has been deleted; lost, attempts that failed for it; ticked,
\* time has passed since it began.
Calm == [pc |-> "idle", left |-> 0, stale |-> FALSE, lost |-> 0, ticked |-> FALSE]

NoGroup == [made |-> "none", age |-> 0]

Alive(h) == inst[h] \in {"pending", "running"}

\* Its thread works on the group or the launch.
Active(h) == th[h].pc \in {"get", "create", "authorize", "launch"}

------------------------------------------------------------------------------
(* The provisioners                                                        *)

JobSaved(p, a) ==
  /\ a \notin jobs[p]
  /\ jobs' = [jobs EXCEPT ![p] = @ \cup {a}]
  /\ UNCHANGED <<requests, grp, inst, cleaners, crashes>>

JobGone(p, a) ==
  /\ a \in jobs[p]
  /\ jobs' = [jobs EXCEPT ![p] = @ \ {a}]
  /\ UNCHANGED <<requests, grp, inst, cleaners, crashes>>

------------------------------------------------------------------------------
(* POST /fulfill/now                                                       *)

HostsOf(f) == {h \in Hosts : FulfilOf[h] = f}

\* What allocate_instance does before its first thread: an unknown number of
\* GPUs is a KeyError.
Begun(h) ==
  IF Types[h] = 0 THEN [Calm EXCEPT !.pc = "failed"]
  ELSE [Calm EXCEPT !.pc = "get", !.left = Types[h]]

FulfilStart(f) ==
  /\ ful[f] = "idle" /\ AllocOf[f] \in jobs[ProvOf[VisorOf[f]]]
  /\ ful' = [ful EXCEPT ![f] = "working"]
  /\ th' = [h \in Hosts |-> IF FulfilOf[h] = f THEN Begun(h) ELSE th[h]]
  /\ UNCHANGED <<jobs, grp, lock, inst, cleaners, crashes>>

\* Mutant: _get_or_create_security_group without its lock.
NoLock(v) == TRUE

LockFree(v) == lock[v] = NoHost

\* A group that is found is returned, the lock goes back at once; otherwise it
\* is held until the new group is there.
FindGroup(h) ==
  /\ th[h].pc = "get" /\ LockFree(Visor(h))
  /\ \/ /\ grp[Alloc(h)].made # "none"
        /\ th' = [th EXCEPT ![h].pc = "launch"]
        /\ UNCHANGED lock
     \/ /\ grp[Alloc(h)].made = "none"
        /\ th' = [th EXCEPT ![h].pc = "create"]
        /\ lock' = [lock EXCEPT ![Visor(h)] = h]
  /\ UNCHANGED <<jobs, ful, grp, inst, cleaners, crashes>>

\* Mutant: allocate_instance does not raise after the last type.
AnotherAttempt(h, lost) ==
  [th[h] EXCEPT !.pc = "get", !.left = @ - 1, !.stale = FALSE, !.lost = lost]

\* A ClientError: the next instance type, if there is one and the coroutine
\* has not been cancelled.
NextAttempt(h, lost) ==
  IF th[h].left > 1 /\ ful[FulfilOf[h]] # "abandoned"
  THEN [th[h] EXCEPT !.pc = "get", !.left = @ - 1, !.stale = FALSE, !.lost = lost]
  ELSE [Calm EXCEPT !.pc = "failed"]

Unlock(h) ==
  lock' = [lock EXCEPT ![Visor(h)] = IF @ = h THEN NoHost ELSE @]

\* create_security_group; EC2 does not make two groups of one name.
CreateGroup(h) ==
  /\ th[h].pc = "create"
  /\ \/ /\ grp[Alloc(h)].made = "none"
        /\ grp' = [grp EXCEPT ![Alloc(h)] = [made |-> "bare", age |-> 0]]
        /\ th' = [th EXCEPT ![h].pc = "authorize"]
        /\ UNCHANGED lock
     \/ /\ grp[Alloc(h)].made # "none"
        /\ th' = [th EXCEPT ![h] = NextAttempt(h, th[h].lost)]
        /\ Unlock(h)
        /\ UNCHANGED grp
  /\ UNCHANGED <<jobs, ful, inst, cleaners, crashes>>

\* authorize_ingress.  When it fails the group stays, without rules, and the
\* next attempt finds it; it fails when the group is gone.
Authorize(h) ==
  /\ th[h].pc = "authorize"
  /\ \/ /\ grp[Alloc(h)].made # "none"
        /\ grp' = [grp EXCEPT ![Alloc(h)].made = "ready"]
        /\ th' = [th EXCEPT ![h].pc = "launch"]
     \/ /\ grp[Alloc(h)].made = "none" \/ "authorize" \in Faults
        /\ th' = [th EXCEPT ![h] = NextAttempt(h, th[h].lost)]
        /\ UNCHANGED grp
  /\ Unlock(h)
  /\ UNCHANGED <<jobs, ful, inst, cleaners, crashes>>

Launch(h) ==
  /\ th[h].pc = "launch" /\ ~th[h].stale
  /\ inst' = [inst EXCEPT ![h] = "pending"]
  /\ th' = [th EXCEPT ![h] = [Calm EXCEPT !.pc = "wait"]]
  /\ UNCHANGED <<jobs, ful, grp, lock, cleaners, crashes>>

\* The group is not there any more, or EC2 has no such machine.
LaunchFails(h) ==
  /\ th[h].pc = "launch"
  /\ \/ /\ th[h].stale
        /\ th' = [th EXCEPT ![h] = NextAttempt(h, th[h].lost + 1)]
     \/ /\ ~th[h].stale /\ "refused" \in Faults
        /\ th' = [th EXCEPT ![h] = NextAttempt(h, th[h].lost)]
  /\ UNCHANGED <<jobs, ful, grp, lock, inst, cleaners, crashes>>

\* The assertion on the number of images is no ClientError.
NoImage(h) ==
  /\ th[h].pc = "launch" /\ "image" \in Faults
  /\ th' = [th EXCEPT ![h] = [Calm EXCEPT !.pc = "failed"]]
  /\ UNCHANGED <<jobs, ful, grp, lock, inst, cleaners, crashes>>

\* await_running returns when the instance runs, and raises when it is gone.
AwaitRunning(h) ==
  /\ th[h].pc = "wait"
  /\ \/ /\ inst[h] = "pending"
        /\ inst' = [inst EXCEPT ![h] = "running"]
        /\ th' = [th EXCEPT ![h].pc = "done"]
     \/ /\ inst[h] = "gone"
        /\ th' = [th EXCEPT ![h].pc = "failed"]
        /\ UNCHANGED inst
  /\ UNCHANGED <<jobs, ful, grp, lock, cleaners, crashes>>

FulfilSucceeds(f) ==
  /\ ful[f] = "working" /\ \A h \in HostsOf(f) : th[h].pc = "done"
  /\ ful' = [ful EXCEPT ![f] = "ok"]
  /\ UNCHANGED <<jobs, th, grp, lock, inst, cleaners, crashes>>

\* gather passes the first exception on; the other hosts' coroutines go on.
FulfilFails(f) ==
  /\ ful[f] = "working" /\ \E h \in HostsOf(f) : th[h].pc = "failed"
  /\ ful' = [ful EXCEPT ![f] = "failed"]
  /\ UNCHANGED <<jobs, th, grp, lock, inst, cleaners, crashes>>

\* The connection is closed: the coroutines are cancelled, not their threads.
FulfilAbandoned(f) ==
  /\ ful[f] = "working" /\ "abandon" \in Faults
  /\ ful' = [ful EXCEPT ![f] = "abandoned"]
  /\ UNCHANGED <<jobs, th, grp, lock, inst, cleaners, crashes>>

\* DELETE /deallocate/{instance_id}: describe, then terminate.
Deallocate(h) ==
  /\ Alive(h)
  /\ inst' = [inst EXCEPT ![h] = "gone"]
  /\ UNCHANGED <<jobs, requests, grp, cleaners, crashes>>

------------------------------------------------------------------------------
(* Cleaner.clean_periodically                                              *)

\* Every quarter of an hour: GET /api/jobs, and in a thread the list of groups.
CleanerWakes(v) ==
  /\ cpc[v] = "sleep" /\ gpc[v] = "sleep"
  /\ cpc' = [cpc EXCEPT ![v] = "list"]
  /\ known' = [known EXCEPT ![v] = jobs[ProvOf[v]]]
  /\ gpc' = [gpc EXCEPT ![v] = "look"]
  /\ groups' = [groups EXCEPT ![v] = {a \in Allocs : grp[a].made # "none"}]
  /\ UNCHANGED <<jobs, requests, grp, inst, doomed, crashes>>

\* Mutant: the allocations that are not among the jobs are taken for active.
OthersOf(v) == Allocs \ known[v]

ActiveIds(v) == known[v]

Dangling(v) == {h \in Hosts : Alive(h) /\ Alloc(h) \notin ActiveIds(v)}

\* Neither the same parent, nor ... of the two ids is that of a pod.
Skips(v, w) == w # v /\ (v \in Main) # (w \in Main)

\* list_active_vms.  For a long-lasting instance the warning calls a tag's
\* value: the pass ends with a TypeError before anything is destroyed.
CleanerList(v) ==
  /\ cpc[v] = "list"
  /\ known' = [known EXCEPT ![v] = {}]
  /\ \/ /\ Dangling(v) \cap LongLasting = {}
        /\ cpc' = [cpc EXCEPT ![v] = "destroy"]
        /\ doomed' = [doomed EXCEPT ![v] = {h \in Dangling(v) : ~Skips(v, Visor(h))}]
     \/ /\ Dangling(v) \cap LongLasting # {}
        /\ cpc' = [cpc EXCEPT ![v] = "sleep"]
        /\ UNCHANGED doomed
  /\ UNCHANGED <<jobs, requests, grp, inst, gpc, groups, crashes>>

CleanerDestroys(v, h) ==
  /\ cpc[v] = "destroy" /\ h \in doomed[v]
  /\ inst' = [inst EXCEPT ![h] = "gone"]
  /\ doomed' = [doomed EXCEPT ![v] = @ \ {h}]
  /\ UNCHANGED <<jobs, requests, grp, cpc, known, gpc, groups, crashes>>

CleanerEnd(v) ==
  /\ cpc[v] = "destroy" /\ doomed[v] = {}
  /\ cpc' = [cpc EXCEPT ![v] = "sleep"]
  /\ UNCHANGED <<jobs, requests, grp, inst, known, doomed, gpc, groups, crashes>>

------------------------------------------------------------------------------
(* EC2Wrapper.delete_dangling_security_groups                              *)

\* EC2 refuses to delete the group of an instance that is not terminated.
InUse(a) == \E h \in Hosts : Alloc(h) = a /\ Alive(h)

\* Mutant: the age of a group is not looked at.
AnyAge(a) == TRUE

\* Mutant: the comparison the other way round.
TooYoung(a) == grp[a].age < Old

OldEnough(a) == grp[a].age >= Old

\* Whoever has found the group and not launched yet will launch in vain.
Orphaned(a) ==
  [h \in Hosts |-> IF Alloc(h) = a /\ th[h].pc = "launch"
                   THEN [th[h] EXCEPT !.stale = TRUE] ELSE th[h]]

GroupDeleted(v, a) ==
  /\ gpc[v] = "look" /\ a \in groups[v]
  /\ grp[a].made # "none" /\ OldEnough(a) /\ ~InUse(a)
  /\ grp' = [grp EXCEPT ![a] = NoGroup]
  /\ th' = Orphaned(a)
  /\ groups' = [groups EXCEPT ![v] = @ \ {a}]
  /\ UNCHANGED <<jobs, ful, lock, inst, cpc, known, doomed, gpc, crashes>>

\* Too young, or the ClientError is caught.
GroupKept(v, a) ==
  /\ gpc[v] = "look" /\ a \in groups[v]
  /\ grp[a].made # "none" /\ (~OldEnough(a) \/ InUse(a))
  /\ groups' = [groups EXCEPT ![v] = @ \ {a}]
  /\ UNCHANGED <<jobs, requests, grp, inst, cpc, known, doomed, gpc, crashes>>

\* At the end, or when a group is gone: reload is outside the try.
GroupsEnd(v) ==
  /\ gpc[v] = "look"
  /\ groups[v] = {} \/ \E a \in groups[v] : grp[a].made = "none"
  /\ gpc' = [gpc EXCEPT ![v] = "sleep"]
  /\ groups' = [groups EXCEPT ![v] = {}]
  /\ UNCHANGED <<jobs, requests, grp, inst, cpc, known, doomed, crashes>>

------------------------------------------------------------------------------
\* Time passes for a group.  No allocate_instance takes so long that it sees
\* more than one tick before its instance is launched.
GroupAges(a) ==
  /\ grp[a].made # "none" /\ grp[a].age < Old
  /\ \A h \in Hosts : Alloc(h) = a /\ Active(h) => ~th[h].ticked
  /\ grp' = [grp EXCEPT ![a].age = @ + 1]
  /\ th' = [h \in Hosts |-> IF Alloc(h) = a /\ Active(h)
                            THEN [th[h] EXCEPT !.ticked = TRUE] ELSE th[h]]
  /\ UNCHANGED <<jobs, ful, lock, inst, cleaners, crashes>>

\* The process is started anew: its threads and its cleaner are gone.
Restart(v) ==
  /\ crashes < MaxCrashes
  /\ crashes' = crashes + 1
  /\ ful' = [f \in Fulfils |->
               IF VisorOf[f] = v /\ ful[f] = "working" THEN "abandoned" ELSE ful[f]]
  /\ th' = [h \in Hosts |-> IF Visor(h) = v THEN Calm ELSE th[h]]
  /\ lock' = [lock EXCEPT ![v] = NoHost]
  /\ cpc' = [cpc EXCEPT ![v] = "sleep"] /\ gpc' = [gpc EXCEPT ![v] = "sleep"]
  /\ known' = [known EXCEPT ![v] = {}]
  /\ doomed' = [doomed EXCEPT ![v] = {}]
  /\ groups' = [groups EXCEPT ![v] = {}]
  /\ UNCHANGED <<jobs, grp, inst>>

Init ==
  /\ jobs = [p \in Provs |-> {}]
  /\ ful = [f \in Fulfils |-> "idle"]
  /\ th = [h \in Hosts |-> Calm]
  /\ grp = [a \in Allocs |-> NoGroup]
  /\ lock = [v \in Visors |-> NoHost]
  /\ inst = [h \in Hosts |-> "none"]
  /\ cpc = [v \in Visors |-> "sleep"]
  /\ known = [v \in Visors |-> {}]
  /\ doomed = [v \in Visors |-> {}]
  /\ gpc = [v \in Visors |-> "sleep"]
  /\ groups = [v \in Visors |-> {}]
  /\ crashes = 0

HostStep(h) ==
  \/ FindGroup(h) \/ CreateGroup(h) \/ Authorize(h)
  \/ Launch(h) \/ LaunchFails(h) \/ NoImage(h) \/ AwaitRunning(h)

FulfilStep(f) ==
  FulfilStart(f) \/ FulfilSucceeds(f) \/ FulfilFails(f) \/ FulfilAbandoned(f)

CleanerStep(v) ==
  CleanerWakes(v) \/ CleanerList(v) \/ CleanerEnd(v) \/ \E h \in Hosts : CleanerDestroys(v, h)

GroupStep(v) == GroupsEnd(v) \/ \E a \in Allocs : GroupDeleted(v, a) \/ GroupKept(v, a)

Next ==
  \/ \E p \in Provs, a \in Allocs : JobSaved(p, a) \/ JobGone(p, a)
  \/ \E f \in Fulfils : FulfilStep(f)
  \/ \E h \in Hosts : HostStep(h) \/ Deallocate(h)
  \/ \E v \in Visors : CleanerStep(v) \/ GroupStep(v) \/ Restart(v)
  \/ \E a \in Allocs : GroupAges(a)

Spec == Init /\ [][Next]_vars

\* The event loop and the thread pool run what has begun, the cleaner wakes up
\* again, time goes on.
FairSpec ==
  /\ Spec
  /\ \A h \in Hosts : WF_vars(HostStep(h))
  /\ \A v \in Visors : WF_vars(CleanerStep(v)) /\ WF_vars(GroupStep(v))
  /\ \A a \in Allocs : WF_vars(GroupAges(a))

------------------------------------------------------------------------------
Attempts ==
  [pc : {"idle", "get", "create", "authorize", "launch", "wait", "done", "failed"},
   left : Nat, stale : BOOLEAN, lost : Nat, ticked : BOOLEAN]

TypeOK ==
  /\ jobs \in [Provs -> SUBSET Allocs]
  /\ ful \in [Fulfils -> {"idle", "working", "ok", "failed", "abandoned"}]
  /\ th \in [Hosts -> Attempts]
  /\ grp \in [Allocs -> [made : {"none", "bare", "ready"}, age : Nat]]
  /\ lock \in [Visors -> Hosts \cup {NoHost}]
  /\ inst \in [Hosts -> {"none", "pending", "running", "gone"}]
  /\ cpc \in [Visors -> {"sleep", "list", "destroy"}]
  /\ known \in [Visors -> SUBSET Allocs]
  /\ doomed \in [Visors -> SUBSET Hosts]
  /\ gpc \in [Visors -> {"sleep", "look"}]
  /\ groups \in [Visors -> SUBSET Allocs]
  /\ crashes \in Nat

\* No create_security_group runs into a group of that name: what has not been
\* found under the lock is still not there when it is made.
NoDuplicateGroup == \A h \in Hosts : th[h].pc = "create" => grp[Alloc(h)].made = "none"

\* An instance is never up with a group whose rules are not in force.
LaunchedReachable == \A h \in Hosts : Alive(h) => grp[Alloc(h)].made = "ready"

\* The group that an attempt has lost to the cleaner is replaced by one that is
\* too young to be deleted before the instance is launched.
LosesGroupOnce == \A h \in Hosts : th[h].lost + (IF th[h].stale THEN 1 ELSE 0) <= 1

\* clean_dangling_vms: an instance of an allocation that the provisioner does
\* not know is terminated, whether its fulfil failed, was abandoned, or is cut
\* off by a restart.
DanglingTerminated ==
  \A h \in Hosts :
    LET p == ProvOf[Visor(h)]
    IN  (Alive(h) /\ Alloc(h) \notin jobs[p]) ~> (~Alive(h) \/ Alloc(h) \in jobs[p])

\* The group of an allocation that has no instances goes away.
GroupsCollected ==
  \A a \in Allocs : (grp[a].made # "none" /\ ~InUse(a)) ~> (grp[a].made = "none" \/ InUse(a))

\* cleaner.py:39-41: "I want to avoid the situation where 1 cloudvisor creates
\* a machine via 1 provisioner but the cleaner of a different cloudvisor removes
\* it": if they do not have the same parent and are not both main, it is skipped.
SparesForeign ==
  \A v \in Visors, h \in Hosts :
    h \in doomed[v] => Visor(h) = v \/ {v, Visor(h)} \subseteq Main
==============================================================================
