----------------------------- MODULE Provisioner -----------------------------
(***************************************************************************)
(* The provisioner (hwallocator/provisioner/webapp) and the heartbeat      *)
(* server (hwallocator/heartbeat_server/webapp) around the redis hashes    *)
(* they share: `allocations`, one record per reservation, and              *)
(* `resource_managers`, the registry.  Per allocation there is a fulfil    *)
(* coroutine, a release coroutine and a heartbeat handler; one daemon,     *)
(* expire_allocations, looks for reservations that ran out.  Each await on *)
(* redis or on a resource manager is a point where the others run.         *)
(*                                                                         *)
(* A resource manager is here the pool of its machines: a call grants or   *)
(* frees machines in one step, the caller may never learn it.              *)
(*                                                                         *)
(* Time is discrete.  Instead of a clock and an absolute expiration every  *)
(* copy of a record carries `left`, the ticks until it expires, and Tick   *)
(* lowers it in all copies at once.                                        *)
(***************************************************************************)
EXTENDS HostSplit, FiniteSets

CONSTANTS
  Ids,          \* allocation ids
  RMs,          \* resource managers (their endpoints)
  Machines,     \* machines of all resource managers
  Home,         \* Home[m]: the resource manager of machine m
  HostOrder,    \* hosts in the order in which requests list them
  Demands,      \* Demands[i]: the hosts that allocation i asks for
  CanServe,     \* CanServe[r]: the hosts that r answers it can provision
  TTL,          \* ticks until a request or a reservation expires (60 s)
  Grace,        \* ticks after which a record in error is dropped (15 min)
  Slow,         \* the activities that may last longer than a tick
  Faults,       \* what may go wrong
  Clients,      \* what clients do besides asking for hardware
  MaxCrashes,   \* bound on restarts of the provisioner
  NoRec, NoRM, NoUpd, NoId, Free  \* null values

Activities == {"pass", "heartbeat", "release", "fulfil"}
FaultKinds == {"crash",         \* the provisioner is killed and restarted
               "abandon",       \* a fulfil coroutine is cancelled, a call given up
               "lost",          \* the answer to a deallocation is lost
               "cut_release"}   \* a release ends before it has removed its record
ClientKinds == {"heartbeat",    \* extends its reservation
                "release",      \* releases its reservation
                "retry",        \* sends a request again after its answer
                "untimely"}     \* heartbeats or releases when it should not

ASSUME ConstantsAssumption ==
  /\ IsFiniteSet(RMs) /\ Home \in [Machines -> RMs]
  /\ HostOrder \in Seq(Range(HostOrder))
  /\ Demands \in [Ids -> SUBSET Range(HostOrder) \ {{}}]
  /\ CanServe \in [RMs -> SUBSET Range(HostOrder)]
  /\ TTL \in Nat \ {0} /\ Grace \in Nat \ {0} /\ MaxCrashes \in Nat
  /\ Slow \subseteq Activities /\ Faults \subseteq FaultKinds
  /\ Clients \subseteq ClientKinds
  /\ NoRM \notin RMs /\ NoId \notin Ids /\ Free \notin Ids

VARIABLES
  alloc,     \* redis hash `allocations`
  rms,       \* keys of the redis hash `resource_managers`
  owner,     \* who holds each machine, as its resource manager knows it
  ful,       \* the fulfil coroutine of each allocation
  rel,       \* the release coroutine of each allocation
  upd,       \* per coroutine: the read-modify-write of a record under way
  dmn,       \* the expire_allocations daemon
  task,      \* its deallocation tasks of this pass
  orphans,   \* deallocation tasks of a pass that ended in an exception
  detached,  \* allocate calls that run on after their caller gave up
  crashes

vars == <<alloc, rms, owner, ful, rel, upd, dmn, task, orphans, detached, crashes>>

------------------------------------------------------------------------------
(* Records *)

Statuses == {"received", "allocating", "success", "cancelled", "exception",
             "unknown", "deallocating", "error_deallocating", "deallocated"}

\* A record of an expired allocation is not told apart below this age.
Oldest == -(Grace + 1)

Records == [status : Statuses, left : Oldest..TTL, rm : RMs \cup {NoRM},
            hw : SUBSET Machines]

\* `allocation.update(kwargs)`.
Updated(rec, kw) ==
  [f \in DOMAIN rec |-> IF f \in DOMAIN kw THEN kw[f] ELSE rec[f]]

Older(n) == IF n > Oldest THEN n - 1 ELSE n

\* A record, or the keyword arguments of an update, one tick later.
Aged(rec) ==
  [f \in DOMAIN rec |-> IF f = "left" THEN Older(rec[f]) ELSE rec[f]]

Missing(i) == alloc[i] = NoRec

Save(i, rec) == alloc' = [alloc EXCEPT ![i] = rec]
Delete(i) == Save(i, NoRec)

\* Mutant: a request is given more time than a reservation.
LongRequest == [status |-> "received", left |-> TTL + 1, rm |-> NoRM, hw |-> {}]

\* save_request: the client's request becomes the record.
Request == [status |-> "received", left |-> TTL, rm |-> NoRM, hw |-> {}]

\* save_fulfilled_request: the arguments it gives to update_status.
Fulfilled(ms) == [status |-> "success", left |-> TTL, hw |-> ms]

OwnedBy(i) == {m \in Machines : owner[m] = i}

------------------------------------------------------------------------------
(* update_status: hget, update the copy, hset, with an await at each.      *)

Coroutines == ({"ful", "rel", "hb"} \X Ids) \cup {<<"dmn", NoId>>}
Daemon == <<"dmn", NoId>>

\* The keyword arguments of its callers, and what each coroutine keeps.
Arguments ==
  [status : Statuses \ {"success"}] \cup [status : {"allocating"}, rm : RMs]
    \cup [status : {"success"}, left : Oldest..TTL, hw : SUBSET Machines]

Updates == [id : Ids, kw : Arguments \cup {<< >>}, copy : Records \cup {NoRec}]

ASSUME NullAssumption == NoRec \notin Records /\ NoUpd \notin Updates

Updating(p) == upd[p] # NoUpd

\* `await redis.update_status(i, **kw)` is called.
Begin(p, i, kw) == upd' = [upd EXCEPT ![p] = [id |-> i, kw |-> kw, copy |-> NoRec]]

\* The coroutine ends with an exception.
FulDies(i) == ful' = [ful EXCEPT ![i] = [pc |-> "done", plan |-> <<>>, k |-> 0]]
RelEnds(i) == rel' = [rel EXCEPT ![i] = [pc |-> "idle", todo |-> {}]]

NoTask == [st |-> "none", todo |-> {}]
Asleep == [pc |-> "sleep", cur |-> NoId, todo |-> {},
           snap |-> [i \in Ids |-> NoRec]]

\* The pass ends early; the deallocation tasks it started run on.
PassAborts ==
  /\ dmn' = Asleep
  /\ task' = [i \in Ids |-> NoTask]
  /\ orphans' = orphans \cup {task[i].todo : i \in {j \in Ids : task[j].st = "running"}}

\* What the coroutine has read is None: AttributeError in update_status.
Dies(p) ==
  \/ /\ p[1] = "ful" /\ FulDies(p[2])
     /\ UNCHANGED <<rel, dmn, task, orphans>>
  \/ /\ p[1] = "rel" /\ RelEnds(p[2])
     /\ UNCHANGED <<ful, dmn, task, orphans>>
  \/ /\ p = Daemon /\ PassAborts
     /\ UNCHANGED <<ful, rel>>

UpdateRead(p) ==
  /\ Updating(p) /\ upd[p].copy = NoRec
  /\ LET i == upd[p].id IN
     \/ /\ Missing(i)
        /\ upd' = [upd EXCEPT ![p] = NoUpd]
        /\ Dies(p)
     \/ /\ ~Missing(i)
        /\ upd' = [upd EXCEPT ![p] =
                     [id |-> i, kw |-> << >>, copy |-> Updated(alloc[i], @.kw)]]
        /\ UNCHANGED <<ful, rel, dmn, task, orphans>>
  /\ UNCHANGED <<alloc, rms, owner, detached, crashes>>

UpdateWrite(p) ==
  /\ Updating(p) /\ upd[p].copy # NoRec
  /\ Save(upd[p].id, upd[p].copy)
  /\ upd' = [upd EXCEPT ![p] = NoUpd]
  /\ UNCHANGED <<rms, owner, ful, rel, dmn, task, orphans, detached, crashes>>

------------------------------------------------------------------------------
(* Fulfiller.fulfill: one coroutine per allocation id                      *)

At(i, pc) == ful[i].pc = pc /\ ~Updating(<<"ful", i>>)
GoTo(i, pc) == ful' = [ful EXCEPT ![i].pc = pc]

\* A request arrives on the websocket; a known id is answered with its record.
FulfillStart(i) ==
  /\ \/ ful[i].pc = "idle"
     \/ ful[i].pc = "done" /\ "retry" \in Clients
  /\ Missing(i)
  /\ ful' = [ful EXCEPT ![i] = [pc |-> "save", plan |-> <<>>, k |-> 0]]
  /\ UNCHANGED <<alloc, rms, owner, rel, upd, dmn, task, orphans, detached, crashes>>

FulfillSave(i) ==
  /\ At(i, "save")
  /\ Save(i, Request)
  /\ GoTo(i, "find")
  /\ UNCHANGED <<rms, owner, rel, upd, dmn, task, orphans, detached, crashes>>

\* The hosts that r answers with, in the order of the request.
Answer(r, i) == Listing(HostOrder, Demands[i] \cap CanServe[r])

\* The orders in which hgetall can list the resource managers of a set.
Orders(S) == {o \in [1..Cardinality(S) -> S] : Range(o) = S}

\* "Check if all resource_managers can togather provision requested machines".
Possible(plan, i) == Covered(plan) = Demands[i]

(***************************************************************************)
(* find_potential_fulfillers asks every registered resource manager; the   *)
(* ones in `live` answer in time with a host of the request.  All others   *)
(* are removed from the registry.  A record that is gone is sent as null,  *)
(* which no resource manager accepts.                                      *)
(***************************************************************************)
FulfillFind(i) ==
  /\ At(i, "find")
  /\ \E live \in SUBSET {r \in rms : Answer(r, i) # <<>> /\ ~Missing(i)} :
       /\ rms' = live
       /\ \E order \in Orders(live) :
            LET asked == [k \in DOMAIN order |-> Answer(order[k], i)]
                split == Split(asked)
            IN  IF Possible(asked, i)
                THEN ful' = [ful EXCEPT ![i] =
                       [pc |-> "mark", k |-> 1,
                        plan |-> [k \in DOMAIN order |->
                                    [rm |-> order[k], hosts |-> Range(split[k])]]]]
                ELSE GoTo(i, "giveup")
  /\ UNCHANGED <<alloc, owner, rel, upd, dmn, task, orphans, detached, crashes>>

\* The reply says "unfulfillable"; with no record left to say it of: exception.
FulfillGiveUp(i) ==
  /\ At(i, "giveup")
  /\ Delete(i)
  /\ FulDies(i)
  /\ UNCHANGED <<rms, owner, rel, upd, dmn, task, orphans, detached, crashes>>

\* The first loop: the record names the resource managers one after the other.
FulfillMark(i) ==
  /\ At(i, "mark")
  /\ LET plan == ful[i].plan
         k    == ful[i].k
     IN  \/ /\ k <= Len(plan)
            /\ Begin(<<"ful", i>>, i, [status |-> "allocating", rm |-> plan[k].rm])
            /\ ful' = [ful EXCEPT ![i].k = k + 1]
         \/ /\ k > Len(plan)
            /\ ful' = [ful EXCEPT ![i].k = 1, ![i].pc = "ask"]
            /\ UNCHANGED upd
  /\ UNCHANGED <<alloc, rms, owner, rel, dmn, task, orphans, detached, crashes>>

\* The second loop: the request is read again before each resource manager.
FulfillAsk(i) ==
  /\ At(i, "ask")
  /\ \/ /\ ful[i].k > Len(ful[i].plan)
        /\ GoTo(i, "reply")
     \/ /\ ful[i].k <= Len(ful[i].plan)
        /\ Missing(i)
        /\ FulDies(i)
     \/ /\ ful[i].k <= Len(ful[i].plan)
        /\ ~Missing(i)
        /\ GoTo(i, "call")
  /\ UNCHANGED <<alloc, rms, owner, rel, upd, dmn, task, orphans, detached, crashes>>

\* Resource manager r allocates all of n machines or none.
Grants(r, n) ==
  {ms \in SUBSET {m \in Machines : Home[m] = r /\ owner[m] = Free} : Cardinality(ms) = n}

Assign(ms, i) == owner' = [m \in Machines |-> IF m \in ms THEN i ELSE owner[m]]

FulfillCall(i) ==
  /\ At(i, "call")
  /\ LET to    == ful[i].plan[ful[i].k]
         n     == Cardinality(to.hosts)
         fails(st) == /\ Begin(<<"ful", i>>, i, [status |-> st])
                      /\ GoTo(i, "reply")
                      /\ UNCHANGED owner
     IN  \/ /\ \E ms \in Grants(to.rm, n) :
                 /\ Assign(ms, i)
                 /\ Begin(<<"ful", i>>, i, Fulfilled(ms))
            /\ ful' = [ful EXCEPT ![i].pc = "ask", ![i].k = @ + 1]
            /\ UNCHANGED detached
         \/ /\ fails("exception")
            /\ UNCHANGED detached
         \/ /\ "abandon" \in Faults
            /\ \E st \in {"cancelled", "exception"} : fails(st)
            /\ detached' = detached \cup {[id |-> i, rm |-> to.rm, n |-> n]}
  /\ UNCHANGED <<alloc, rms, rel, dmn, task, orphans, crashes>>

\* The record is read a last time and sent to the client.
FulfillReply(i) ==
  /\ At(i, "reply")
  /\ FulDies(i)
  /\ UNCHANGED <<alloc, rms, owner, rel, upd, dmn, task, orphans, detached, crashes>>

\* The websocket's handler is cancelled while it waits for redis.
FulfillCancelled(i) ==
  /\ "abandon" \in Faults
  /\ ful[i].pc \notin {"idle", "done", "call"}
  /\ FulDies(i)
  /\ upd' = [upd EXCEPT ![<<"ful", i>>] = NoUpd]
  /\ UNCHANGED <<alloc, rms, owner, rel, dmn, task, orphans, detached, crashes>>

\* The resource manager works on a call whose caller has gone.
DetachedRuns(c) ==
  /\ detached' = detached \ {c}
  /\ \/ \E ms \in Grants(c.rm, c.n) : Assign(ms, c.id)
     \/ UNCHANGED owner
  /\ UNCHANGED <<alloc, rms, ful, rel, upd, dmn, task, orphans, crashes>>

------------------------------------------------------------------------------
(* Fulfiller.release                                                       *)

RelAt(i, pc) == rel[i].pc = pc /\ ~Updating(<<"rel", i>>)

\* A machine's resource manager frees it, whoever holds it.
FreeMachine(m) == owner' = [owner EXCEPT ![m] = Free]

(***************************************************************************)
(* An assumption on clients that are not "untimely": they know that their  *)
(* reservation has not run out, have had their answer, and do not          *)
(* heartbeat and release at the same time.                                 *)
(***************************************************************************)
Timely(i) ==
  \/ "untimely" \in Clients
  \/ /\ alloc[i].status = "success" /\ alloc[i].left > 0
     /\ ful[i].pc = "done" /\ rel[i].pc = "idle" /\ ~Updating(<<"hb", i>>)

ReleaseStart(i) ==
  /\ "release" \in Clients
  /\ RelAt(i, "idle") /\ ~Missing(i) /\ Timely(i)
  /\ rel' = [rel EXCEPT ![i] = [pc |-> "call", todo |-> alloc[i].hw]]
  /\ UNCHANGED <<alloc, rms, owner, ful, upd, dmn, task, orphans, detached, crashes>>

\* A failed call ends the coroutine, the record and the other machines stay.
ReleaseCall(i) ==
  /\ RelAt(i, "call")
  /\ \E m \in rel[i].todo :
       \/ /\ FreeMachine(m)
          /\ rel' = [rel EXCEPT ![i].todo = @ \ {m}]
       \/ /\ "cut_release" \in Faults
          /\ FreeMachine(m) \/ UNCHANGED owner
          /\ RelEnds(i)
  /\ UNCHANGED <<alloc, rms, ful, upd, dmn, task, orphans, detached, crashes>>

ReleaseMark(i) ==
  /\ RelAt(i, "call") /\ rel[i].todo = {}
  /\ Begin(<<"rel", i>>, i, [status |-> "deallocated"])
  /\ rel' = [rel EXCEPT ![i].pc = "delete"]
  /\ UNCHANGED <<alloc, rms, owner, ful, dmn, task, orphans, detached, crashes>>

ReleaseDelete(i) ==
  /\ RelAt(i, "delete")
  /\ Delete(i)
  /\ RelEnds(i)
  /\ UNCHANGED <<rms, owner, ful, upd, dmn, task, orphans, detached, crashes>>

------------------------------------------------------------------------------
(* heartbeats.update_expires, in the heartbeat server's process            *)

\* Any other status is refused with a 400.
HeartbeatRead(i) ==
  /\ "heartbeat" \in Clients
  /\ ~Updating(<<"hb", i>>)
  /\ ~Missing(i) /\ Timely(i)
  /\ alloc[i].status = "success"
  /\ upd' = [upd EXCEPT ![<<"hb", i>>] =
               [id |-> i, kw |-> << >>, copy |-> [alloc[i] EXCEPT !.left = TTL]]]
  /\ UNCHANGED <<alloc, rms, owner, ful, rel, dmn, task, orphans, detached, crashes>>

\* resourcemanager.heartbeat: a resource manager (re)registers.
Register(r) ==
  /\ rms' = rms \cup {r}
  /\ UNCHANGED <<alloc, owner, ful, rel, upd, dmn, task, orphans, detached, crashes>>

------------------------------------------------------------------------------
(* expires.expire_allocations                                              *)

DmnAt(pc) == dmn.pc = pc /\ ~Updating(Daemon)

\* Unless passes are slow, the ten seconds of sleep outlast what a pass that
\* ended early has left running.
PassStart ==
  /\ DmnAt("sleep")
  /\ "pass" \in Slow \/ orphans = {}
  /\ dmn' = [pc |-> "loop", cur |-> NoId, todo |-> {i \in Ids : ~Missing(i)},
             snap |-> alloc]
  /\ UNCHANGED <<alloc, rms, owner, ful, rel, upd, task, orphans, detached, crashes>>

\* `continue`: the loop is through with allocation i of its snapshot.
Through(i) ==
  dmn' = [pc |-> "loop", cur |-> NoId, todo |-> dmn.todo \ {i},
          snap |-> [dmn.snap EXCEPT ![i] = NoRec]]

Stay(i, pc) == dmn' = [dmn EXCEPT !.pc = pc, !.cur = i]

\* The first part of the loop's body, on the snapshot of the record.
PassLook(i) ==
  /\ DmnAt("loop") /\ i \in dmn.todo
  /\ LET s == dmn.snap[i] IN
     \/ /\ s.status \in {"received", "allocating", "success"}
        /\ Stay(i, "expire")
        /\ UNCHANGED alloc
     \/ /\ s.status \notin {"received", "allocating", "success"}
        /\ s.rm = NoRM \/ s.left < -Grace
        /\ Delete(i)
        /\ Through(i)
     \/ /\ s.status \notin {"received", "allocating", "success"}
        /\ s.rm # NoRM /\ s.left >= -Grace
        /\ Stay(i, "check")
        /\ UNCHANGED alloc
  /\ UNCHANGED <<rms, owner, ful, rel, upd, task, orphans, detached, crashes>>

(***************************************************************************)
(* check_status: the resource manager lists what it holds for i.  Some     *)
(* answer an allocation they do not hold with a list that is empty inside  *)
(* a true value, one answers with a false value; a failed call makes the   *)
(* record's status unknown.                                                *)
(***************************************************************************)
PassCheck ==
  /\ DmnAt("check")
  /\ LET i    == dmn.cur
         held == {m \in OwnedBy(i) : Home[m] = dmn.snap[i].rm}
     IN  \/ /\ Begin(Daemon, i, Fulfilled(held))
            /\ Through(i)
         \/ /\ held = {}
            /\ Stay(i, "expire")
            /\ UNCHANGED upd
         \/ /\ Begin(Daemon, i, [status |-> "unknown"])
            /\ Through(i)
  /\ UNCHANGED <<alloc, rms, owner, ful, rel, task, orphans, detached, crashes>>

\* Mutant: compared with a time that is a tick ahead.
DueEarly(s) == s.left <= 1

\* `allocation["expiration"] <= time.time()`
Due(s) == s.left <= 0

\* Mutant: the record is only warned about.
LeaveImproper(i) == UNCHANGED alloc

\* Expired, but no reservation.
RemoveImproper(i) == Delete(i)

\* The second part: what has expired is deallocated, or removed as improper.
PassExpire ==
  /\ DmnAt("expire")
  /\ LET i == dmn.cur
         s == dmn.snap[i]
     IN  /\ \/ /\ ~Due(s)
               /\ UNCHANGED <<alloc, task>>
            \/ /\ Due(s) /\ s.status = "success"
               /\ Save(i, [s EXCEPT !.status = "deallocating"])
               /\ task' = [task EXCEPT ![i] = [st |-> "running", todo |-> s.hw]]
            \/ /\ Due(s) /\ s.status # "success"
               /\ RemoveImproper(i)
               /\ UNCHANGED task
         /\ Through(i)
  /\ UNCHANGED <<rms, owner, ful, rel, upd, orphans, detached, crashes>>

\* A deallocation task, alongside the loop: machine after machine, until one fails.
TaskFrees(i) ==
  /\ task[i].st = "running"
  /\ \E m \in task[i].todo :
       /\ FreeMachine(m)
       /\ task' = [task EXCEPT ![i].todo = @ \ {m}]
  /\ UNCHANGED <<alloc, rms, ful, rel, upd, dmn, orphans, detached, crashes>>

TaskFails(i) ==
  /\ task[i].st = "running"
  /\ \E m \in task[i].todo :
       \/ UNCHANGED owner
       \/ "lost" \in Faults /\ FreeMachine(m)
  /\ task' = [task EXCEPT ![i] = [st |-> "failed", todo |-> {}]]
  /\ UNCHANGED <<alloc, rms, ful, rel, upd, dmn, orphans, detached, crashes>>

\* Mutant: the exception of a task that failed goes unnoticed.
EndedInAnyWay(t) == t.st # "none" /\ t.todo = {}

\* `await task` returns: all machines have been freed.
Deallocated(t) == t.st = "running" /\ t.todo = {}

\* After the loop the pass awaits its tasks one by one.
PassAwait(i) ==
  /\ DmnAt("loop") /\ dmn.todo = {}
  /\ \/ /\ Deallocated(task[i])
        /\ Delete(i)
        /\ UNCHANGED upd
     \/ /\ task[i].st = "failed"
        /\ Begin(Daemon, i, [status |-> "error_deallocating"])
        /\ UNCHANGED alloc
  /\ task' = [task EXCEPT ![i] = NoTask]
  /\ UNCHANGED <<rms, owner, ful, rel, dmn, orphans, detached, crashes>>

PassEnd ==
  /\ DmnAt("loop") /\ dmn.todo = {}
  /\ \A i \in Ids : task[i] = NoTask
  /\ dmn' = Asleep
  /\ UNCHANGED <<alloc, rms, owner, ful, rel, upd, task, orphans, detached, crashes>>

\* A task that nobody awaits frees its next machine, or fails.
OrphanRuns(ms) ==
  \/ /\ \E m \in ms :
          /\ FreeMachine(m)
          /\ orphans' = (orphans \ {ms}) \cup {ms \ {m}}
     /\ UNCHANGED <<alloc, rms, ful, rel, upd, dmn, task, detached, crashes>>
  \/ /\ orphans' = orphans \ {ms}
     /\ UNCHANGED <<alloc, rms, owner, ful, rel, upd, dmn, task, detached, crashes>>

------------------------------------------------------------------------------
(* The environment                                                         *)

\* The provisioner's process ends and is started again: redis, the heartbeat
\* server and the resource managers go on, with the calls they are working on.
Crash ==
  /\ "crash" \in Faults /\ crashes < MaxCrashes
  /\ "cut_release" \in Faults \/ \A i \in Ids : rel[i].pc = "idle"
  /\ crashes' = crashes + 1
  /\ \E ran \in SUBSET {i \in Ids : At(i, "call")} :
       detached' = detached \cup
         {[id |-> i, rm |-> ful[i].plan[ful[i].k].rm,
           n |-> Cardinality(ful[i].plan[ful[i].k].hosts)] : i \in ran}
  /\ ful' = [i \in Ids |-> IF ful[i].pc = "idle" THEN ful[i]
                           ELSE [pc |-> "done", plan |-> <<>>, k |-> 0]]
  /\ rel' = [i \in Ids |-> [pc |-> "idle", todo |-> {}]]
  /\ upd' = [p \in Coroutines |-> IF p[1] = "hb" THEN upd[p] ELSE NoUpd]
  /\ dmn' = Asleep
  /\ task' = [i \in Ids |-> NoTask]
  /\ orphans' = {}
  /\ UNCHANGED <<alloc, rms, owner>>

Busy(a) ==
  CASE a = "pass"      -> dmn.pc # "sleep" \/ Updating(Daemon) \/ orphans # {}
    [] a = "heartbeat" -> \E i \in Ids : Updating(<<"hb", i>>)
    [] a = "release"   -> \E i \in Ids : rel[i].pc # "idle"
    [] a = "fulfil"    -> \E i \in Ids : ful[i].pc \notin {"idle", "done"}

AgedRec(r) == IF r = NoRec THEN NoRec ELSE Aged(r)

\* A tick passes in all copies; what is not slow does not last until the tick.
Tick ==
  /\ \A a \in Activities \ Slow : ~Busy(a)
  /\ alloc' = [i \in Ids |-> AgedRec(alloc[i])]
  /\ dmn' = [dmn EXCEPT !.snap = [i \in Ids |-> AgedRec(dmn.snap[i])]]
  /\ upd' = [p \in Coroutines |->
               IF upd[p] = NoUpd THEN NoUpd
               ELSE [upd[p] EXCEPT !.kw = Aged(@), !.copy = AgedRec(@)]]
  /\ UNCHANGED <<rms, owner, ful, rel, task, orphans, detached, crashes>>

------------------------------------------------------------------------------
Init ==
  /\ alloc = [i \in Ids |-> NoRec]
  /\ rms = {}
  /\ owner = [m \in Machines |-> Free]
  /\ ful = [i \in Ids |-> [pc |-> "idle", plan |-> <<>>, k |-> 0]]
  /\ rel = [i \in Ids |-> [pc |-> "idle", todo |-> {}]]
  /\ upd = [p \in Coroutines |-> NoUpd]
  /\ dmn = Asleep
  /\ task = [i \in Ids |-> NoTask]
  /\ orphans = {}
  /\ detached = {}
  /\ crashes = 0

FulfillStep(i) ==
  \/ FulfillStart(i) \/ FulfillSave(i) \/ FulfillFind(i) \/ FulfillGiveUp(i)
  \/ FulfillMark(i) \/ FulfillAsk(i) \/ FulfillCall(i) \/ FulfillReply(i)
  \/ FulfillCancelled(i)

ReleaseStep(i) ==
  ReleaseStart(i) \/ ReleaseCall(i) \/ ReleaseMark(i) \/ ReleaseDelete(i)

PassStep ==
  \/ PassStart \/ PassCheck \/ PassExpire \/ PassEnd
  \/ \E i \in Ids : PassLook(i) \/ PassAwait(i)

Next ==
  \/ \E i \in Ids : FulfillStep(i) \/ ReleaseStep(i) \/ HeartbeatRead(i)
  \/ \E p \in Coroutines : UpdateRead(p) \/ UpdateWrite(p)
  \/ PassStep
  \/ \E i \in Ids : TaskFrees(i) \/ TaskFails(i)
  \/ \E ms \in orphans : OrphanRuns(ms)
  \/ \E c \in detached : DetachedRuns(c)
  \/ \E r \in RMs : Register(r)
  \/ Crash
  \/ Tick

Spec == Init /\ [][Next]_vars

FairSpec ==
  /\ Spec
  /\ WF_vars(Tick)
  /\ WF_vars(PassStep \/ UpdateRead(Daemon) \/ UpdateWrite(Daemon))
  /\ \A i \in Ids : WF_vars(TaskFrees(i) \/ TaskFails(i)) /\ SF_vars(TaskFrees(i))

------------------------------------------------------------------------------
Plans == Seq([rm : RMs, hosts : SUBSET Range(HostOrder)])

TypeOK ==
  /\ \A i \in Ids : Missing(i) \/ alloc[i] \in Records
  /\ DOMAIN alloc = Ids
  /\ rms \subseteq RMs
  /\ owner \in [Machines -> Ids \cup {Free}]
  /\ \A i \in Ids : ful[i].plan \in Plans /\ ful[i].k \in 0..Len(ful[i].plan) + 1
  /\ rel \in [Ids -> [pc : {"idle", "call", "delete"}, todo : SUBSET Machines]]
  /\ upd \in [Coroutines -> Updates \cup {NoUpd}]
  /\ dmn.pc \in {"sleep", "loop", "check", "expire"} /\ dmn.cur \in Ids \cup {NoId}
  /\ task \in [Ids -> [st : {"none", "running", "failed"}, todo : SUBSET Machines]]
  /\ orphans \subseteq SUBSET Machines

\* A reservation that has not run out, and is not being released, has its
\* machines: they are its own at their resource manager.
LiveReservationHeld ==
  \A i \in Ids :
    ~Missing(i) /\ alloc[i].status = "success" /\ alloc[i].left > 0 /\ rel[i].pc = "idle"
      => alloc[i].hw \subseteq OwnedBy(i)

\* A record is not removed while its allocation still holds a machine it names,
\* unless its resource manager has not answered for the time of grace.
RemovedWhenFreed ==
  [][\A i \in Ids :
         /\ ~Missing(i) /\ Missing(i)'
         /\ alloc[i].status # "success" /\ alloc[i].left >= -Grace
       => alloc[i].hw \cap OwnedBy(i) = {}]_vars

\* The pass under way has seen the request of i expire.
TakenForExpired(i) ==
  /\ i \in dmn.todo
  /\ dmn.snap[i].status \in {"received", "allocating"} /\ Due(dmn.snap[i])

\* Whoever else writes a copy that is older, a reservation that has not run out and
\* is not being released stays what it is, except for the time that it has left; a
\* pass removes it only if it has seen the request of it expire.
LiveUndisturbed ==
  [][\A i \in Ids :
         /\ ~Missing(i) /\ alloc[i].status = "success" /\ alloc[i].left > 0
         /\ rel[i].pc = "idle" /\ ~TakenForExpired(i)
       => \E l \in alloc[i].left - 1 .. TTL : alloc'[i] = [alloc[i] EXCEPT !.left = l]]_vars

\* No record stays for ever when nobody extends it.
EveryRecordRemoved == \A i \in Ids : ~Missing(i) ~> Missing(i)

\* The daemon looks for expired allocations: a reservation that has not run out,
\* such as one that a heartbeat has just extended, is neither removed nor
\* deallocated as long as its client does not release it.
DaemonSparesLive ==
  [][\A i \in Ids :
         /\ ~Missing(i) /\ alloc[i].status = "success" /\ alloc[i].left > 0
         /\ rel[i].pc = "idle"
       => ~Missing(i)' /\ alloc'[i].status # "deallocating"]_vars

\* A reply that says success names a machine for each demanded host.
ReplyCoversDemands ==
  [][\A i \in Ids :
         /\ ful[i].pc = "reply" /\ ful'[i].pc = "done" /\ ful'[i] # ful[i]
         /\ ~Missing(i) /\ alloc[i].status = "success"
       => Cardinality(alloc[i].hw) >= Cardinality(Demands[i])]_vars
==============================================================================
