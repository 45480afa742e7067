------------------------------ MODULE Hardvisor ------------------------------
(***************************************************************************)
(* The hardvisor (resource_managers/hardvisor): bare metal machines whose  *)
(* state is the redis hash `resources`.  Handlers are coroutines of one    *)
(* event loop and switch at each await on redis.  HardwareManager.allocate *)
(* runs under allocate_lock; release does not, and it reads a machine,     *)
(* then writes the copy back as available, whoever holds it by then.  A    *)
(* cleaner releases the machines whose allocation the provisioner does not *)
(* list.                                                                   *)
(*                                                                         *)
(* A machine's entry is its owner: `status` is in_use and `allocation_id`  *)
(* is set together, and both are reset together.                           *)
(***************************************************************************)
EXTENDS FiniteSets, Integers

CONSTANTS
  Ids,          \* allocation ids
  Machines,     \* the machines of the configuration file
  Hosts,        \* names of demanded hosts
  Demands,      \* Demands[i]: the hosts that allocation i asks for
  Fits,         \* Fits[h]: the machines with the arch demanded for h
  Broken,       \* machines whose credentials RemoteExecutor's assertion refuses
  HasCert,      \* whether the cleaner was started with a certificate
  MaxCrashes,   \* bound on restarts
  Free, Api, Cleaner

ASSUME HardvisorAssumption ==
  /\ Demands \in [Ids -> SUBSET Hosts]
  /\ Fits \in [Hosts -> SUBSET Machines]
  /\ Broken \subseteq Machines
  /\ HasCert \in BOOLEAN /\ MaxCrashes \in Nat
  /\ Free \notin Ids /\ Api \notin Ids /\ Cleaner \notin Ids /\ Api # Cleaner

VARIABLES
  owner,     \* redis hash `resources`
  jobs,      \* the allocations in the provisioner's redis
  pc,        \* the fulfil handler of each allocation
  wait,      \* its demands whose allocate has not returned
  got,       \* the machines its allocates returned
  missed,    \* whether one of them returned None
  todo,      \* its rollback: machines whose release has not begun
  picked,    \* allocates between reading the machines and writing theirs
  rel,       \* releases between reading their machine and writing it
  cpc,       \* the cleaner
  active,    \* the allocation ids it was told
  dangling,  \* the machines it has still to release
  crashes

handlers == <<pc, wait, got, missed, todo>>
cleaner == <<cpc, active, dangling>>
vars == <<owner, jobs, pc, wait, got, missed, todo, picked, rel, cpc, active,
          dangling, crashes>>

Releasers == Ids \cup {Api, Cleaner}

------------------------------------------------------------------------------
(* The provisioner                                                         *)

\* save_request stores an allocation before any resource manager is called.
JobSaved(i) ==
  /\ i \notin jobs
  /\ jobs' = jobs \cup {i}
  /\ UNCHANGED <<owner, handlers, picked, rel, cleaner, crashes>>

JobGone(i) ==
  /\ i \in jobs
  /\ jobs' = jobs \ {i}
  /\ UNCHANGED <<owner, handlers, picked, rel, cleaner, crashes>>

------------------------------------------------------------------------------
(* POST /fulfill/now                                                       *)

FulfillStart(i) ==
  /\ i \in jobs /\ pc[i] = "idle"
  /\ pc' = [pc EXCEPT ![i] = "allocating"]
  /\ wait' = [wait EXCEPT ![i] = Demands[i]]
  /\ UNCHANGED <<owner, jobs, got, missed, todo, picked, rel, cleaner, crashes>>

\* Mutant: allocate without its lock.
NoLock == TRUE

\* allocate_lock is held from the read of the machines to the write of one.
LockFree == picked = {}

Available(h) == {m \in Fits[h] : owner[m] = Free}

\* allocate takes the lock, reads all machines and picks one that is available.
AllocatePick(i, h) ==
  /\ pc[i] = "allocating" /\ h \in wait[i]
  /\ LockFree
  /\ wait' = [wait EXCEPT ![i] = @ \ {h}]
  /\ \/ /\ \E m \in Available(h) : picked' = picked \cup {[id |-> i, m |-> m]}
        /\ UNCHANGED missed
     \/ /\ Available(h) = {}
        /\ missed' = [missed EXCEPT ![i] = TRUE]
        /\ UNCHANGED picked
  /\ UNCHANGED <<owner, jobs, pc, got, todo, rel, cleaner, crashes>>

\* Mutant: the reservation is written without its allocation id.
Nameless(i) == "in_use"

Reserved(i) == i

\* reserve_machine writes the entry that was read.
AllocateWrite(p) ==
  /\ picked' = picked \ {p}
  /\ owner' = [owner EXCEPT ![p.m] = Reserved(p.id)]
  /\ got' = [got EXCEPT ![p.id] = @ \cup {p.m}]
  /\ UNCHANGED <<jobs, pc, wait, missed, todo, rel, cleaner, crashes>>

\* All allocates of the gather have returned.
Gathered(i) == pc[i] = "allocating" /\ wait[i] = {} /\ \A p \in picked : p.id # i

\* The handler returns; its variables are gone.
Return(i) ==
  /\ pc' = [pc EXCEPT ![i] = "idle"]
  /\ got' = [got EXCEPT ![i] = {}]
  /\ missed' = [missed EXCEPT ![i] = FALSE]

\* `{"status": "Success", "info": ...}`
FulfillSucceeds(i) ==
  /\ Gathered(i) /\ ~missed[i]
  /\ Return(i)
  /\ UNCHANGED <<owner, jobs, wait, todo, picked, rel, cleaner, crashes>>

\* Mutant: what was allocated is kept when a host could not be.
KeepAllocated(i) == {}

\* `if machine is not None`
ToRollBack(i) == got[i]

FulfillFails(i) ==
  /\ Gathered(i) /\ missed[i]
  /\ pc' = [pc EXCEPT ![i] = "rollback"]
  /\ todo' = [todo EXCEPT ![i] = ToRollBack(i)]
  /\ UNCHANGED <<owner, jobs, wait, got, missed, picked, rel, cleaner, crashes>>

------------------------------------------------------------------------------
(* HardwareManager.release, for whoever calls it                           *)

\* It reads the machine; RemoteExecutor refuses a broken one with an exception.
ReleaseRead(w, m) == rel' = IF m \in Broken THEN rel ELSE rel \cup {[by |-> w, m |-> m]}

\* It writes its copy back, without allocation id and available.
ReleaseWrite(r) ==
  /\ rel' = rel \ {r}
  /\ owner' = [owner EXCEPT ![r.m] = Free]
  /\ UNCHANGED <<jobs, handlers, picked, cleaner, crashes>>

\* gather starts the releases of a failed fulfil, none waits for another.
RollbackRead(i, m) ==
  /\ pc[i] = "rollback" /\ m \in todo[i]
  /\ ReleaseRead(i, m)
  /\ todo' = [todo EXCEPT ![i] = @ \ {m}]
  /\ UNCHANGED <<owner, jobs, pc, wait, got, missed, picked, cleaner, crashes>>

RolledBack(i) == pc[i] = "rollback" /\ todo[i] = {} /\ \A r \in rel : r.by # i

\* 503 "matching resources busy, try again later", or 500.
FulfillReplies(i) ==
  /\ RolledBack(i)
  /\ Return(i)
  /\ UNCHANGED <<owner, jobs, wait, todo, picked, rel, cleaner, crashes>>

\* DELETE /deallocate/{machine_name}, from the provisioner's fulfiller or daemon.
ApiRelease(m) ==
  /\ ReleaseRead(Api, m)
  /\ UNCHANGED <<owner, jobs, handlers, picked, cleaner, crashes>>

------------------------------------------------------------------------------
(* periodically.Cleaner                                                    *)

\* GET /api/jobs.  Without a certificate there is no ssl_context to use and
\* every pass ends here, in an AttributeError.
CleanerJobs ==
  /\ HasCert /\ cpc = "sleep"
  /\ cpc' = "list"
  /\ active' = jobs
  /\ UNCHANGED <<owner, jobs, handlers, picked, rel, dangling, crashes>>

\* Mutant: the membership test the wrong way round.
IsListed(m) == owner[m] # Free /\ owner[m] \in active

IsDangling(m) == owner[m] # Free /\ owner[m] \notin active

CleanerList ==
  /\ cpc = "list"
  /\ cpc' = "clean"
  /\ dangling' = {m \in Machines : IsDangling(m)}
  /\ active' = {}
  /\ UNCHANGED <<owner, jobs, handlers, picked, rel, crashes>>

CleanerIdle == \A r \in rel : r.by # Cleaner

\* One release after the other; a broken machine ends the pass.
CleanerRead(m) ==
  /\ cpc = "clean" /\ CleanerIdle /\ m \in dangling
  /\ ReleaseRead(Cleaner, m)
  /\ \/ /\ m \in Broken
        /\ cpc' = "sleep" /\ dangling' = {}
     \/ /\ m \notin Broken
        /\ dangling' = dangling \ {m}
        /\ UNCHANGED cpc
  /\ UNCHANGED <<owner, jobs, handlers, picked, active, crashes>>

CleanerEnd ==
  /\ cpc = "clean" /\ CleanerIdle /\ dangling = {}
  /\ cpc' = "sleep"
  /\ UNCHANGED <<owner, jobs, handlers, picked, rel, active, dangling, crashes>>

------------------------------------------------------------------------------
Init ==
  /\ owner = [m \in Machines |-> Free]
  /\ jobs = {}
  /\ pc = [i \in Ids |-> "idle"]
  /\ wait = [i \in Ids |-> {}]
  /\ got = [i \in Ids |-> {}]
  /\ missed = [i \in Ids |-> FALSE]
  /\ todo = [i \in Ids |-> {}]
  /\ picked = {}
  /\ rel = {}
  /\ cpc = "sleep"
  /\ active = {}
  /\ dangling = {}
  /\ crashes = 0

\* A restart: update_machines adds with hsetnx, what redis holds stays.
Restart ==
  /\ crashes < MaxCrashes
  /\ crashes' = crashes + 1
  /\ pc' = [i \in Ids |-> "idle"]
  /\ wait' = [i \in Ids |-> {}]
  /\ got' = [i \in Ids |-> {}]
  /\ missed' = [i \in Ids |-> FALSE]
  /\ todo' = [i \in Ids |-> {}]
  /\ picked' = {} /\ rel' = {}
  /\ cpc' = "sleep" /\ active' = {} /\ dangling' = {}
  /\ UNCHANGED <<owner, jobs>>

CleanerStep == CleanerJobs \/ CleanerList \/ CleanerEnd \/ \E m \in Machines : CleanerRead(m)

Next ==
  \/ \E i \in Ids :
       \/ JobSaved(i) \/ JobGone(i)
       \/ FulfillStart(i) \/ FulfillSucceeds(i) \/ FulfillFails(i) \/ FulfillReplies(i)
       \/ \E h \in Hosts : AllocatePick(i, h)
       \/ \E m \in Machines : RollbackRead(i, m)
  \/ \E p \in picked : AllocateWrite(p)
  \/ \E r \in rel : ReleaseWrite(r)
  \/ \E m \in Machines : ApiRelease(m)
  \/ CleanerStep
  \/ Restart

Spec == Init /\ [][Next]_vars

\* The event loop runs what the cleaner has begun, and it wakes every minute.
FairSpec ==
  /\ Spec
  /\ WF_vars(CleanerStep)
  /\ \A m \in Machines :
       WF_vars([by |-> Cleaner, m |-> m] \in rel /\ ReleaseWrite([by |-> Cleaner, m |-> m]))

------------------------------------------------------------------------------
Picks == [id : Ids, m : Machines]
Releases == [by : Releasers, m : Machines]

TypeOK ==
  /\ owner \in [Machines -> Ids \cup {Free}]
  /\ jobs \subseteq Ids
  /\ pc \in [Ids -> {"idle", "allocating", "rollback"}]
  /\ wait \in [Ids -> SUBSET Hosts]
  /\ got \in [Ids -> SUBSET Machines]
  /\ missed \in [Ids -> BOOLEAN]
  /\ todo \in [Ids -> SUBSET Machines]
  /\ picked \subseteq Picks
  /\ rel \subseteq Releases
  /\ cpc \in {"sleep", "list", "clean"}
  /\ active \subseteq Ids
  /\ dangling \subseteq Machines
  /\ crashes \in Nat

\* A machine that an allocate has read as available is still so when it is
\* written: only releases write outside the lock, and they make it available.
PickedIsFree == \A p \in picked : owner[p.m] = Free

\* The promise of MachinePool.
Pool == INSTANCE MachinePool
PoolSpec == Pool!Spec

\* A fulfil that answers with a failure has left none of its machines reserved,
\* but those it could not release.
AllOrNothing ==
  \A i \in Ids : RolledBack(i) => \A m \in got[i] \ Broken : owner[m] # i

\* A machine whose allocation the provisioner does not know does not stay so.
DanglingFreed ==
  \A m \in Machines, i \in Ids :
    (owner[m] = i /\ i \notin jobs) ~> (owner[m] # i \/ i \in jobs)

\* periodically.py:41-42: the cleaner releases machines that were meant to be
\* released; it checks "that all in_use machines are really provisioned and not
\* dangling", and leaves the provisioned ones alone.
CleanerSparesProvisioned ==
  [][\A r \in rel :
       r.by = Cleaner /\ r \notin rel' /\ crashes' = crashes => owner[r.m] \notin jobs]_vars
==============================================================================
