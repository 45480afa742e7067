-------------------------- MODULE CloudvisorProofs ---------------------------
(***************************************************************************)
(* What the cloudvisor guarantees for any number of allocations, hosts,    *)
(* instance types and restarts: the lock around the search for a security  *)
(* group is enough, although the cleaner deletes groups without it.        *)
(***************************************************************************)
EXTENDS Cloudvisor, TLAPS

LEMMA CalmIsOne == /\ Calm \in Attempts
                   /\ \A h \in Hosts : Begun(h) \in Attempts
                   /\ \A st \in {"wait", "failed"} : [Calm EXCEPT !.pc = st] \in Attempts
  BY CloudvisorAssumption DEF Calm, Attempts, Begun

LEMMA Marked ==
  ASSUME NEW x \in Attempts
  PROVE  /\ [x EXCEPT !.stale = TRUE] \in Attempts /\ [x EXCEPT !.ticked = TRUE] \in Attempts
         /\ \A st \in {"launch", "create", "authorize", "done", "failed"} : [x EXCEPT !.pc = st] \in Attempts
  BY DEF Attempts

\* What a host's allocate_instance is after one attempt too many, or before
\* the next.
LEMMA NextAttemptType ==
  ASSUME NEW h \in Hosts, NEW n \in Nat, th[h] \in Attempts
  PROVE  /\ NextAttempt(h, n) \in Attempts
         /\ NextAttempt(h, n).pc \in {"get", "failed"} /\ ~NextAttempt(h, n).stale
         /\ NextAttempt(h, n).lost \in {n, 0}
         /\ NextAttempt(h, n).pc = "get" => NextAttempt(h, n).lost = n /\ NextAttempt(h, n).ticked = th[h].ticked
<1>1. CASE NextAttempt(h, n) = [Calm EXCEPT !.pc = "failed"]
  BY <1>1, CalmIsOne DEF Calm
<1>2. CASE th[h].left > 1 /\ NextAttempt(h, n) =
             [th[h] EXCEPT !.pc = "get", !.left = @ - 1, !.stale = FALSE, !.lost = n]
  <2>1. PICK x \in Attempts : x = th[h]
    OBVIOUS
  <2>2. /\ x.left > 1 /\ x.left \in Nat
        /\ NextAttempt(h, n) = [x EXCEPT !.pc = "get", !.left = @ - 1, !.stale = FALSE, !.lost = n]
    BY <1>2, <2>1 DEF Attempts
  <2>3. NextAttempt(h, n) =
          [pc |-> "get", left |-> x.left - 1, stale |-> FALSE, lost |-> n, ticked |-> x.ticked]
    BY <2>2 DEF Attempts
  <2>4. x.left - 1 \in Nat /\ x.ticked \in BOOLEAN
    BY <2>2 DEF Attempts
  <2>5. NextAttempt(h, n) \in Attempts
    BY <2>3, <2>4 DEF Attempts
  <2> QED
    BY <2>1, <2>3, <2>5
<1> QED
  BY <1>1, <1>2 DEF NextAttempt

\* What a step of one host does to its attempt, and to no other's.
LEMMA HostMoves ==
  ASSUME TypeOK, NEW h \in Hosts, HostStep(h)
  PROVE  \E x \in Attempts : th' = [th EXCEPT ![h] = x]
<1>1. th[h] \in Attempts /\ th[h].lost \in Nat
  BY DEF TypeOK, Attempts
<1>2. NextAttempt(h, th[h].lost) \in Attempts /\ NextAttempt(h, th[h].lost + 1) \in Attempts
  BY <1>1, NextAttemptType
<1>3. \A st \in {"launch", "create", "authorize", "done", "failed"} : [th[h] EXCEPT !.pc = st] \in Attempts
  BY <1>1 DEF Attempts
<1>4. CASE FindGroup(h)
  BY <1>3, <1>4 DEF FindGroup
<1>5. CASE CreateGroup(h)
  BY <1>2, <1>3, <1>5 DEF CreateGroup
<1>6. CASE Authorize(h)
  BY <1>2, <1>3, <1>6 DEF Authorize
<1>7. CASE Launch(h) \/ NoImage(h)
  BY CalmIsOne, <1>7 DEF Launch, NoImage
<1>8. CASE LaunchFails(h)
  BY <1>2, <1>8 DEF LaunchFails
<1>9. CASE AwaitRunning(h)
  BY <1>3, <1>9 DEF AwaitRunning
<1> QED
  BY <1>4, <1>5, <1>6, <1>7, <1>8, <1>9 DEF HostStep

\* ec2_wrapper.py, ec2_manager.py, cleaner.py: the records keep their types.
LEMMA TypeInductive == TypeOK /\ [Next]_vars => TypeOK'
<1> SUFFICES ASSUME TypeOK, [Next]_vars PROVE TypeOK'
  OBVIOUS
<1> USE CloudvisorAssumption
<1>0. \A f \in Fulfils : VisorOf[f] \in Visors /\ AllocOf[f] \in Allocs
  OBVIOUS
<1>1. \A h \in Hosts : FulfilOf[h] \in Fulfils /\ Visor(h) \in Visors /\ Alloc(h) \in Allocs
  BY <1>0 DEF Visor, Alloc
<1>2. NoGroup \in [made : {"none", "bare", "ready"}, age : Nat]
  BY DEF NoGroup
<1>3. ASSUME NEW p \in Provs, NEW a \in Allocs, JobSaved(p, a) \/ JobGone(p, a) PROVE TypeOK'
  <2>1. jobs' \in [Provs -> SUBSET Allocs]
    <3>1. \E S \in SUBSET Allocs : jobs' = [jobs EXCEPT ![p] = S]
      <4>1. jobs[p] \cup {a} \in SUBSET Allocs /\ jobs[p] \ {a} \in SUBSET Allocs
        BY DEF TypeOK
      <4> QED
        BY <1>3, <4>1 DEF JobSaved, JobGone
    <3> QED
      BY <3>1 DEF TypeOK
  <2>2. UNCHANGED <<requests, grp, inst, cleaners, crashes>>
    BY <1>3 DEF JobSaved, JobGone
  <2> QED
    BY <2>1, <2>2 DEF TypeOK, requests, cleaners
<1>4. ASSUME NEW f \in Fulfils, FulfilStep(f) PROVE TypeOK'
  <2>1. CASE FulfilStart(f)
    <3>1. th' \in [Hosts -> Attempts]
      BY <2>1, CalmIsOne DEF TypeOK, FulfilStart
    <3> QED
      BY <2>1, <3>1 DEF TypeOK, FulfilStart, cleaners
  <2>2. CASE FulfilSucceeds(f) \/ FulfilFails(f) \/ FulfilAbandoned(f)
    BY <2>2 DEF TypeOK, FulfilSucceeds, FulfilFails, FulfilAbandoned, cleaners
  <2> QED
    BY <1>4, <2>1, <2>2 DEF FulfilStep
<1>5. ASSUME NEW h \in Hosts, HostStep(h) PROVE TypeOK'
  <2>1. th' \in [Hosts -> Attempts]
    BY <1>5, HostMoves DEF TypeOK
  <2>2. UNCHANGED <<jobs, ful, cleaners, crashes>>
    BY <1>5 DEF HostStep, FindGroup, CreateGroup, Authorize, Launch, LaunchFails, NoImage, AwaitRunning
  <2>3. lock' \in [Visors -> Hosts \cup {NoHost}]
    <3>1. lock \in [Visors -> Hosts \cup {NoHost}] /\ Visor(h) \in Visors
      BY <1>1 DEF TypeOK
    <3>2. \/ UNCHANGED lock
          \/ lock' = [lock EXCEPT ![Visor(h)] = h]
          \/ Unlock(h)
      BY <1>5 DEF HostStep, FindGroup, CreateGroup, Authorize, Launch, LaunchFails, NoImage, AwaitRunning
    <3> QED
      BY <3>1, <3>2 DEF Unlock
  <2>4. grp' \in [Allocs -> [made : {"none", "bare", "ready"}, age : Nat]]
    <3>1. grp \in [Allocs -> [made : {"none", "bare", "ready"}, age : Nat]] /\ Alloc(h) \in Allocs
      BY <1>1 DEF TypeOK
    <3>2. \/ UNCHANGED grp
          \/ grp' = [grp EXCEPT ![Alloc(h)] = [made |-> "bare", age |-> 0]]
          \/ grp' = [grp EXCEPT ![Alloc(h)].made = "ready"]
      BY <1>5 DEF HostStep, FindGroup, CreateGroup, Authorize, Launch, LaunchFails, NoImage, AwaitRunning
    <3> QED
      BY <3>1, <3>2
  <2>5. inst' \in [Hosts -> {"none", "pending", "running", "gone"}]
    <3>1. inst \in [Hosts -> {"none", "pending", "running", "gone"}]
      BY DEF TypeOK
    <3>2. \/ UNCHANGED inst
          \/ \E st \in {"pending", "running"} : inst' = [inst EXCEPT ![h] = st]
      BY <1>5 DEF HostStep, FindGroup, CreateGroup, Authorize, Launch, LaunchFails, NoImage, AwaitRunning
    <3> QED
      BY <3>1, <3>2
  <2> QED
    BY <2>1, <2>2, <2>3, <2>4, <2>5 DEF TypeOK, cleaners
<1>6. ASSUME NEW h \in Hosts, Deallocate(h) PROVE TypeOK'
  BY <1>6 DEF TypeOK, Deallocate, requests, cleaners
<1>7. ASSUME NEW v \in Visors, CleanerStep(v) PROVE TypeOK'
  <2>1. UNCHANGED <<jobs, ful, th, lock, grp, crashes>>
    BY <1>7 DEF CleanerStep, CleanerWakes, CleanerList, CleanerEnd, CleanerDestroys, requests
  <2>2. inst' \in [Hosts -> {"none", "pending", "running", "gone"}]
    BY <1>7 DEF TypeOK, CleanerStep, CleanerWakes, CleanerList, CleanerEnd, CleanerDestroys
  <2>3. cpc' \in [Visors -> {"sleep", "list", "destroy"}]
    <3>1. \/ UNCHANGED cpc
          \/ \E st \in {"sleep", "list", "destroy"} : cpc' = [cpc EXCEPT ![v] = st]
      BY <1>7 DEF CleanerStep, CleanerWakes, CleanerList, CleanerEnd, CleanerDestroys
    <3> QED
      BY <3>1 DEF TypeOK
  <2>6. gpc' \in [Visors -> {"sleep", "look"}]
    BY <1>7 DEF TypeOK, CleanerStep, CleanerWakes, CleanerList, CleanerEnd, CleanerDestroys
  <2>7. jobs[ProvOf[v]] \in SUBSET Allocs /\ {a \in Allocs : grp[a].made # "none"} \in SUBSET Allocs
    BY DEF TypeOK
  <2>4. known' \in [Visors -> SUBSET Allocs] /\ groups' \in [Visors -> SUBSET Allocs]
    <3>1. \/ UNCHANGED <<known, groups>>
          \/ UNCHANGED groups /\ known' = [known EXCEPT ![v] = {}]
          \/ /\ known' = [known EXCEPT ![v] = jobs[ProvOf[v]]]
             /\ groups' = [groups EXCEPT ![v] = {a \in Allocs : grp[a].made # "none"}]
      BY <1>7 DEF CleanerStep, CleanerWakes, CleanerList, CleanerEnd, CleanerDestroys
    <3>2. /\ \E S \in SUBSET Allocs : known' = known \/ known' = [known EXCEPT ![v] = S]
          /\ \E S \in SUBSET Allocs : groups' = groups \/ groups' = [groups EXCEPT ![v] = S]
      BY <2>7, <3>1
    <3>3. known \in [Visors -> SUBSET Allocs] /\ groups \in [Visors -> SUBSET Allocs]
      BY DEF TypeOK
    <3>4. known' \in [Visors -> SUBSET Allocs]
      BY <3>2, <3>3
    <3>5. groups' \in [Visors -> SUBSET Allocs]
      BY <3>2, <3>3
    <3> QED
      BY <3>4, <3>5
  <2>5. doomed' \in [Visors -> SUBSET Hosts]
    BY <1>7 DEF TypeOK, CleanerStep, CleanerWakes, CleanerList, CleanerEnd, CleanerDestroys, Dangling
  <2> QED
    BY <2>1, <2>2, <2>3, <2>4, <2>5, <2>6 DEF TypeOK
<1>8. ASSUME NEW v \in Visors, GroupStep(v) PROVE TypeOK'
  <2>1. UNCHANGED <<jobs, ful, lock, inst, cpc, known, doomed, crashes>>
    BY <1>8 DEF GroupStep, GroupsEnd, GroupDeleted, GroupKept, requests
  <2>2. th' \in [Hosts -> Attempts]
    <3>1. \A h \in Hosts : th[h] \in Attempts /\ [th[h] EXCEPT !.stale = TRUE] \in Attempts
      BY Marked DEF TypeOK
    <3>2. UNCHANGED th \/ \E a \in Allocs : th' = Orphaned(a)
      BY <1>8 DEF GroupStep, GroupsEnd, GroupDeleted, GroupKept, requests
    <3> QED
      BY <3>1, <3>2 DEF TypeOK, Orphaned
  <2>3. grp' \in [Allocs -> [made : {"none", "bare", "ready"}, age : Nat]]
    BY <1>2, <1>8 DEF TypeOK, GroupStep, GroupsEnd, GroupDeleted, GroupKept
  <2>4. gpc' \in [Visors -> {"sleep", "look"}] /\ groups' \in [Visors -> SUBSET Allocs]
    <3>1. UNCHANGED gpc \/ gpc' = [gpc EXCEPT ![v] = "sleep"]
      BY <1>8 DEF GroupStep, GroupsEnd, GroupDeleted, GroupKept
    <3>2. \E S \in SUBSET groups[v] : groups' = [groups EXCEPT ![v] = S]
      BY <1>8 DEF GroupStep, GroupsEnd, GroupDeleted, GroupKept
    <3> QED
      BY <3>1, <3>2 DEF TypeOK
  <2> QED
    BY <2>1, <2>2, <2>3, <2>4 DEF TypeOK
<1>9. ASSUME NEW a \in Allocs, GroupAges(a) PROVE TypeOK'
  <2>1. th' \in [Hosts -> Attempts]
    <3>1. \A h \in Hosts : th[h] \in Attempts /\ [th[h] EXCEPT !.ticked = TRUE] \in Attempts
      BY Marked DEF TypeOK
    <3> QED
      BY <1>9, <3>1 DEF GroupAges
  <2>2. grp' \in [Allocs -> [made : {"none", "bare", "ready"}, age : Nat]]
    <3>1. grp[a].age + 1 \in Nat /\ grp[a].made \in {"none", "bare", "ready"}
      BY DEF TypeOK
    <3> QED
      BY <1>9, <3>1 DEF TypeOK, GroupAges
  <2> QED
    BY <1>9, <2>1, <2>2 DEF TypeOK, GroupAges, cleaners
<1>10. ASSUME NEW v \in Visors, Restart(v) PROVE TypeOK'
  <2>1. th' \in [Hosts -> Attempts]
    BY <1>10, CalmIsOne DEF TypeOK, Restart
  <2> QED
    BY <1>10, <2>1 DEF TypeOK, Restart
<1>11. CASE UNCHANGED vars
  BY <1>11 DEF TypeOK, vars
<1> QED
  BY <1>3, <1>4, <1>5, <1>6, <1>7, <1>8, <1>9, <1>10, <1>11 DEF Next

LEMMA TypeInit == Init => TypeOK
  BY CloudvisorAssumption, CalmIsOne DEF Init, TypeOK, NoGroup

\* ec2_wrapper.py, ec2_manager.py, cleaner.py: the records keep their types.
THEOREM Typing == Spec => []TypeOK
  BY TypeInit, TypeInductive, PTL DEF Spec

------------------------------------------------------------------------------
(***************************************************************************)
(* The lock: whoever makes a group or its rules has it.                    *)
(***************************************************************************)
Makes(h) == th[h].pc \in {"create", "authorize"}

Holders == \A h \in Hosts : Makes(h) => lock[Visor(h)] = h

\* All that is asked for one allocation is asked of one cloudvisor.
OneVisor == \A f, g \in Fulfils : AllocOf[f] = AllocOf[g] => VisorOf[f] = VisorOf[g]

LockInv == TypeOK /\ Holders /\ NoDuplicateGroup

LEMMA SameVisor ==
  ASSUME OneVisor, NEW g \in Hosts, NEW h \in Hosts, Alloc(g) = Alloc(h)
  PROVE  Visor(g) = Visor(h)
  BY CloudvisorAssumption DEF OneVisor, Alloc, Visor

\* allocate_instance and EC2Wrapper.allocate.
LEMMA LockHosts ==
  ASSUME OneVisor, LockInv, NEW h \in Hosts, HostStep(h)
  PROVE  Holders' /\ NoDuplicateGroup'
<1>0. /\ Visor(h) \in Visors /\ Alloc(h) \in Allocs
      /\ th \in [Hosts -> Attempts] /\ th[h].lost \in Nat
      /\ grp \in [Allocs -> [made : {"none", "bare", "ready"}, age : Nat]]
      /\ lock \in [Visors -> Hosts \cup {NoHost}] /\ NoHost \notin Hosts
  BY CloudvisorAssumption DEF Visor, Alloc, LockInv, TypeOK, Attempts
<1>1. PICK x \in Attempts : th' = [th EXCEPT ![h] = x]
  BY HostMoves DEF LockInv
<1>2. th'[h] = x /\ \A g \in Hosts \ {h} : th'[g] = th[g]
  BY <1>0, <1>1
<1>3. \A g \in Hosts \ {h} : Alloc(g) = Alloc(h) /\ Makes(g) => lock[Visor(h)] = g
  BY SameVisor DEF LockInv, Holders
<1>4. ASSUME NEW n \in Nat PROVE NextAttempt(h, n).pc \notin {"create", "authorize"}
  BY <1>0, NextAttemptType
<1>5. ASSUME x.pc \notin {"create", "authorize"}, UNCHANGED lock \/ Unlock(h), UNCHANGED grp
      PROVE  Holders' /\ NoDuplicateGroup'
  <2>1. \A g \in Hosts \ {h} : lock[Visor(g)] = g => lock'[Visor(g)] = g
    <3>1. CASE UNCHANGED lock
      BY <3>1
    <3>2. CASE Unlock(h)
      BY <1>0, <3>2 DEF Unlock
    <3> QED
      BY <1>5, <3>1, <3>2
  <2> QED
    BY <1>2, <1>5, <2>1 DEF LockInv, Holders, NoDuplicateGroup, Makes
<1>6. CASE FindGroup(h)
  <2>1. x = [th[h] EXCEPT !.pc = "launch"] => x.pc = "launch"
    BY <1>0 DEF Attempts
  <2>2. CASE grp[Alloc(h)].made # "none"
    <3>1. x = [th[h] EXCEPT !.pc = "launch"] /\ UNCHANGED <<lock, grp>>
      BY <1>0, <1>2, <1>6, <2>2 DEF FindGroup
    <3> QED
      BY <1>5, <2>1, <3>1
  <2>3. CASE grp[Alloc(h)].made = "none"
    <3>1. x = [th[h] EXCEPT !.pc = "create"] /\ lock' = [lock EXCEPT ![Visor(h)] = h] /\ UNCHANGED grp
          /\ lock[Visor(h)] = NoHost
      BY <1>0, <1>2, <1>6, <2>3 DEF FindGroup, LockFree
    <3>2. \A g \in Hosts \ {h} : Makes(g) => Visor(g) # Visor(h)
      BY <1>0, <3>1 DEF LockInv, Holders
    <3>3. lock'[Visor(h)] = h /\ \A w \in Visors : w # Visor(h) => lock'[w] = lock[w]
      BY <1>0, <3>1
    <3>4. \A g \in Hosts : Visor(g) \in Visors
      BY CloudvisorAssumption DEF Visor
    <3>5. Holders'
      BY <1>2, <3>2, <3>3, <3>4 DEF LockInv, Holders, Makes
    <3> QED
      BY <1>2, <2>3, <3>1, <3>5 DEF LockInv, NoDuplicateGroup
  <2> QED
    BY <2>2, <2>3
<1>7. CASE CreateGroup(h)
  <2>1. th[h].pc = "create" /\ grp[Alloc(h)].made = "none" /\ lock[Visor(h)] = h
    BY <1>7 DEF CreateGroup, LockInv, NoDuplicateGroup, Holders, Makes
  <2>2. /\ th' = [th EXCEPT ![h].pc = "authorize"] /\ UNCHANGED lock
        /\ grp' = [grp EXCEPT ![Alloc(h)] = [made |-> "bare", age |-> 0]]
    BY <1>7, <2>1 DEF CreateGroup
  <2>3. th'[h].pc = "authorize"
    BY <1>0, <2>2 DEF Attempts
  <2>4. \A g \in Hosts \ {h} : Alloc(g) = Alloc(h) => ~Makes(g)
    BY <1>3, <2>1
  <2>5. NoDuplicateGroup'
    BY <1>0, <1>2, <2>2, <2>3, <2>4 DEF LockInv, NoDuplicateGroup, Makes
  <2>6. Holders'
    BY <1>2, <2>1, <2>2, <2>3 DEF LockInv, Holders, Makes
  <2> QED
    BY <2>5, <2>6
<1>8. CASE Authorize(h)
  <2>1. x.pc \notin {"create", "authorize"}
    BY <1>0, <1>2, <1>4, <1>8 DEF Authorize, Attempts
  <2>2. \A a \in Allocs : grp'[a].made = "none" => grp[a].made = "none"
    BY <1>0, <1>8 DEF Authorize
  <2>3. Unlock(h) /\ lock[Visor(h)] = h
    BY <1>8 DEF Authorize, LockInv, Holders, Makes
  <2>4. Holders'
    <3>1. \A g \in Hosts \ {h} : lock[Visor(g)] = g => lock'[Visor(g)] = g
      BY <1>0, <2>3 DEF Unlock
    <3> QED
      BY <1>2, <2>1, <3>1 DEF LockInv, Holders, Makes
  <2>5. \A g \in Hosts \ {h} : Makes(g) => Alloc(g) # Alloc(h)
    BY <1>3, <2>3
  <2>6. \A a \in Allocs : a # Alloc(h) => grp'[a] = grp[a]
    BY <1>0, <1>8 DEF Authorize
  <2>7. \A g \in Hosts : Alloc(g) \in Allocs
    BY CloudvisorAssumption DEF Alloc
  <2>8. NoDuplicateGroup'
    BY <1>2, <2>1, <2>5, <2>6, <2>7 DEF LockInv, NoDuplicateGroup, Makes
  <2> QED
    BY <2>4, <2>8
<1>9. CASE Launch(h) \/ NoImage(h)
  <2>1. x.pc \in {"wait", "failed"} /\ UNCHANGED <<lock, grp>>
    BY <1>0, <1>2, <1>9 DEF Launch, NoImage, Calm
  <2> QED
    BY <1>5, <2>1
<1>10. CASE LaunchFails(h)
  <2>1. \E n \in Nat : x = NextAttempt(h, n)
    BY <1>0, <1>2, <1>10 DEF LaunchFails
  <2>2. UNCHANGED <<lock, grp>>
    BY <1>10 DEF LaunchFails
  <2> QED
    BY <1>4, <1>5, <2>1, <2>2
<1>11. CASE AwaitRunning(h)
  <2>1. x.pc \in {"done", "failed"} /\ UNCHANGED <<lock, grp>>
    BY <1>0, <1>2, <1>11 DEF AwaitRunning, Attempts
  <2> QED
    BY <1>5, <2>1
<1> QED
  BY <1>6, <1>7, <1>8, <1>9, <1>10, <1>11 DEF HostStep

LEMMA LockAlways ==
  ASSUME OneVisor
  PROVE  Spec => []LockInv
<1>1. Init => LockInv
  BY TypeInit DEF Init, LockInv, Holders, Makes, NoDuplicateGroup, Calm
<1>2. ASSUME LockInv, [Next]_vars PROVE LockInv'
  <2>0. TypeOK' /\ TypeOK
    BY <1>2, TypeInductive DEF LockInv
  <2>1. ASSUME UNCHANGED lock,
               \A h \in Hosts : th'[h].pc = th[h].pc \/ th'[h].pc \notin {"create", "authorize"},
               \A a \in Allocs : grp'[a].made = grp[a].made \/ grp'[a].made = "none"
        PROVE  LockInv'
    <3>1. \A h \in Hosts : Alloc(h) \in Allocs
      BY CloudvisorAssumption DEF Alloc
    <3> QED
      BY <1>2, <2>0, <2>1, <3>1 DEF LockInv, Holders, Makes, NoDuplicateGroup
  <2>2. ASSUME UNCHANGED <<th, lock, grp>> PROVE LockInv'
    BY <2>1, <2>2
  <2>3. ASSUME NEW f \in Fulfils, FulfilStep(f) PROVE LockInv'
    <3>1. CASE FulfilStart(f)
      <4>1. \A h \in Hosts : Begun(h).pc \notin {"create", "authorize"}
        BY DEF Begun, Calm
      <4>2. UNCHANGED <<lock, grp>> /\ \A h \in Hosts : th'[h] \in {th[h], Begun(h)}
        BY <3>1 DEF FulfilStart
      <4> QED
        BY <2>1, <4>1, <4>2
    <3>2. CASE UNCHANGED <<th, lock, grp>>
      BY <2>2, <3>2
    <3> QED
      BY <2>3, <3>1, <3>2 DEF FulfilStep, FulfilSucceeds, FulfilFails, FulfilAbandoned
  <2>4. ASSUME NEW a \in Allocs, NEW v \in Visors, GroupDeleted(v, a) PROVE LockInv'
    <3>1. \A b \in Allocs : grp'[b] = grp[b] \/ grp'[b].made = "none"
      BY <2>0, <2>4 DEF GroupDeleted, NoGroup, TypeOK
    <3>2. \A h \in Hosts : th'[h].pc = th[h].pc
      BY <2>0, <2>4 DEF GroupDeleted, Orphaned, TypeOK, Attempts
    <3>3. UNCHANGED lock
      BY <2>4 DEF GroupDeleted
    <3> QED
      BY <2>1, <3>1, <3>2, <3>3
  <2>5. ASSUME NEW a \in Allocs, GroupAges(a) PROVE LockInv'
    <3>1. \A b \in Allocs : grp'[b].made = grp[b].made
      BY <2>0, <2>5 DEF GroupAges, TypeOK
    <3>2. \A h \in Hosts : th'[h].pc = th[h].pc
      BY <2>0, <2>5 DEF GroupAges, TypeOK, Attempts
    <3>3. UNCHANGED lock
      BY <2>5 DEF GroupAges
    <3> QED
      BY <2>1, <3>1, <3>2, <3>3
  <2>6. ASSUME NEW v \in Visors, Restart(v) PROVE LockInv'
    <3>1. UNCHANGED grp /\ \A w \in Visors : w # v => lock'[w] = lock[w]
      BY <2>0, <2>6 DEF Restart, TypeOK
    <3>2. \A h \in Hosts : IF Visor(h) = v THEN th'[h].pc = "idle" ELSE th'[h] = th[h]
      BY <2>6 DEF Restart, Calm
    <3>3. \A h \in Hosts : Visor(h) \in Visors
      BY CloudvisorAssumption DEF Visor
    <3> QED
      BY <1>2, <2>0, <3>1, <3>2, <3>3 DEF LockInv, Holders, Makes, NoDuplicateGroup
  <2>7. ASSUME NEW v \in Visors, CleanerStep(v) PROVE UNCHANGED <<th, lock, grp>>
    BY <2>7 DEF CleanerStep, CleanerWakes, CleanerList, CleanerEnd, CleanerDestroys, requests
  <2>8. ASSUME NEW v \in Visors, GroupsEnd(v) \/ \E a \in Allocs : GroupKept(v, a)
        PROVE  UNCHANGED <<th, lock, grp>>
    BY <2>8 DEF GroupsEnd, GroupKept, requests
  <2>9. ASSUME \/ \E p \in Provs, a \in Allocs : JobSaved(p, a) \/ JobGone(p, a)
               \/ \E h \in Hosts : Deallocate(h)
               \/ UNCHANGED vars
        PROVE  UNCHANGED <<th, lock, grp>>
    BY <2>9 DEF JobSaved, JobGone, Deallocate, requests, vars
  <2>10. ASSUME NEW h \in Hosts, HostStep(h) PROVE LockInv'
    BY <1>2, <2>0, <2>10, LockHosts DEF LockInv
  <2> QED
    BY <1>2, <2>2, <2>3, <2>4, <2>5, <2>6, <2>7, <2>8, <2>9, <2>10 DEF Next, GroupStep
<1> QED
  BY <1>1, <1>2, PTL DEF Spec

\* ec2_wrapper.py: _get_or_create_lock is enough, although the cleaner deletes
\* groups without it and a restart forgets who had it.
THEOREM OneGroupEach ==
  ASSUME OneVisor
  PROVE  Spec => []NoDuplicateGroup
<1>1. LockInv => NoDuplicateGroup
  BY DEF LockInv
<1> QED
  BY <1>1, LockAlways, PTL

------------------------------------------------------------------------------
(***************************************************************************)
(* The age: a group that replaces one lost to the cleaner is too young to  *)
(* be deleted before the attempts that use it are over.                    *)
(***************************************************************************)
Young(h) == grp[Alloc(h)].age <= (IF th[h].ticked THEN 1 ELSE 0)

LossOf(h) ==
  /\ ~Active(h) => th[h].lost = 0
  /\ th[h].stale => th[h].pc = "launch" /\ th[h].lost = 0
  /\ th[h].lost <= 1
  /\ th[h].lost > 0 \/ th[h].stale => Young(h)

LossInv == TypeOK /\ \A h \in Hosts : LossOf(h)

\* allocate_instance and EC2Wrapper.allocate.
LEMMA LossHosts ==
  ASSUME LossInv, NEW h \in Hosts, HostStep(h)
  PROVE  \A g \in Hosts : LossOf(g)'
<1>0. /\ Alloc(h) \in Allocs /\ th \in [Hosts -> Attempts] /\ th[h].lost \in Nat
      /\ grp \in [Allocs -> [made : {"none", "bare", "ready"}, age : Nat]]
      /\ \A g \in Hosts : Alloc(g) \in Allocs /\ th[g] \in Attempts
  BY CloudvisorAssumption DEF Alloc, LossInv, TypeOK, Attempts
<1>1. PICK x \in Attempts : th' = [th EXCEPT ![h] = x]
  BY HostMoves DEF LossInv
<1>2. th'[h] = x /\ \A g \in Hosts \ {h} : th'[g] = th[g]
  BY <1>0, <1>1
<1>3. LossOf(h)
  BY DEF LossInv
<1>4. \A a \in Allocs : grp'[a].age = grp[a].age \/ grp'[a].age = 0
  <2>1. \/ UNCHANGED grp
        \/ grp' = [grp EXCEPT ![Alloc(h)] = [made |-> "bare", age |-> 0]]
        \/ grp' = [grp EXCEPT ![Alloc(h)].made = "ready"]
    BY DEF HostStep, FindGroup, CreateGroup, Authorize, Launch, LaunchFails, NoImage, AwaitRunning
  <2> QED
    BY <1>0, <2>1
<1>5. \A g \in Hosts \ {h} : LossOf(g)'
  <2>1. \A g \in Hosts \ {h} : Young(g) => Young(g)'
    BY <1>0, <1>2, <1>4 DEF Young
  <2> QED
    BY <1>2, <2>1 DEF LossInv, LossOf, Active
<1>6. x.ticked = th[h].ticked => (Young(h) => Young(h)')
  BY <1>0, <1>2, <1>4 DEF Young
<1>7. ASSUME x.lost = 0, ~x.stale PROVE LossOf(h)'
  BY <1>2, <1>7 DEF LossOf
<1>8. ASSUME x.lost = th[h].lost, ~x.stale, ~th[h].stale, x.ticked = th[h].ticked,
             x.pc \in {"get", "create", "authorize", "launch"}
      PROVE  LossOf(h)'
  BY <1>2, <1>3, <1>6, <1>8 DEF LossOf, Active
<1>9. \A n \in Nat : LET y == NextAttempt(h, n)
                    IN  \/ y.lost = 0 /\ ~y.stale
                        \/ y.pc = "get" /\ y.lost = n /\ ~y.stale /\ y.ticked = th[h].ticked
  <2>1. \A n \in Nat : NextAttempt(h, n).pc = "failed" => NextAttempt(h, n) = [Calm EXCEPT !.pc = "failed"]
    BY <1>0 DEF NextAttempt, Attempts
  <2>2. [Calm EXCEPT !.pc = "failed"].lost = 0 /\ ~[Calm EXCEPT !.pc = "failed"].stale
    BY DEF Calm
  <2> QED
    BY <1>0, <2>1, <2>2, NextAttemptType
<1>10. ASSUME ~th[h].stale, x = NextAttempt(h, th[h].lost) PROVE LossOf(h)'
  BY <1>0, <1>7, <1>8, <1>9, <1>10
<1>11. CASE FindGroup(h) \/ CreateGroup(h) \/ Authorize(h)
  <2>1. ~th[h].stale
    BY <1>3, <1>11 DEF LossOf, FindGroup, CreateGroup, Authorize
  <2>2. \/ \E st \in {"launch", "create", "authorize"} : x = [th[h] EXCEPT !.pc = st]
        \/ x = NextAttempt(h, th[h].lost)
    BY <1>2, <1>0, <1>11 DEF FindGroup, CreateGroup, Authorize
  <2>3. ASSUME NEW st \in {"launch", "create", "authorize"}, x = [th[h] EXCEPT !.pc = st]
        PROVE  x.lost = th[h].lost /\ ~x.stale /\ x.ticked = th[h].ticked /\ x.pc = st
    BY <1>0, <2>1, <2>3 DEF Attempts
  <2> QED
    BY <1>5, <1>8, <1>10, <2>1, <2>2, <2>3
<1>12. CASE Launch(h) \/ NoImage(h)
  <2>1. x.lost = 0 /\ ~x.stale
    BY <1>0, <1>2, <1>12 DEF Launch, NoImage, Calm
  <2> QED
    BY <1>5, <1>7, <2>1
<1>13. CASE LaunchFails(h)
  <2>1. CASE th[h].stale
    <3>1. x = NextAttempt(h, th[h].lost + 1) /\ th[h].lost = 0 /\ Young(h)
      BY <1>0, <1>2, <1>3, <1>13, <2>1 DEF LaunchFails, LossOf
    <3>2. \/ x.lost = 0 /\ ~x.stale
          \/ x.pc = "get" /\ x.lost = 1 /\ ~x.stale /\ x.ticked = th[h].ticked
      BY <1>9, <3>1
    <3>3. ASSUME x.pc = "get", x.lost = 1, ~x.stale, x.ticked = th[h].ticked PROVE LossOf(h)'
      BY <1>2, <1>6, <3>1, <3>3 DEF LossOf, Active
    <3> QED
      BY <1>5, <1>7, <3>2, <3>3
  <2>2. CASE ~th[h].stale
    BY <1>0, <1>2, <1>5, <1>10, <1>13, <2>2 DEF LaunchFails
  <2> QED
    BY <2>1, <2>2
<1>14. CASE AwaitRunning(h)
  <2>1. th[h].lost = 0 /\ ~th[h].stale
    BY <1>3, <1>14 DEF LossOf, AwaitRunning, Active
  <2>2. x.lost = th[h].lost /\ x.stale = th[h].stale
    BY <1>0, <1>2, <1>14 DEF AwaitRunning, Attempts
  <2> QED
    BY <1>5, <1>7, <2>1, <2>2
<1> QED
  BY <1>11, <1>12, <1>13, <1>14 DEF HostStep

\* delete_dangling_security_groups, clean_dangling_vms: while the age of groups is
\* looked at, an attempt loses its group at most once; the group that is made
\* in its place stays until the instance is launched.
THEOREM LosesOnce ==
  ASSUME Old >= 2
  PROVE  Spec => []LosesGroupOnce
<1>1. Init => LossInv
  BY TypeInit DEF Init, LossInv, LossOf, Calm
<1>2. ASSUME LossInv, [Next]_vars PROVE LossInv'
  <2>0. TypeOK' /\ TypeOK
    BY <1>2, TypeInductive DEF LossInv
  <2>1. /\ th \in [Hosts -> Attempts]
        /\ grp \in [Allocs -> [made : {"none", "bare", "ready"}, age : Nat]]
        /\ \A h \in Hosts : Alloc(h) \in Allocs /\ th[h].lost \in Nat /\ LossOf(h)
    BY <1>2, CloudvisorAssumption DEF LossInv, TypeOK, Alloc, Attempts
  <2>2. ASSUME UNCHANGED grp,
               \A h \in Hosts : th'[h] = th[h] \/ (th'[h].lost = 0 /\ ~th'[h].stale)
        PROVE  LossInv'
    BY <1>2, <2>0, <2>2 DEF LossInv, LossOf, Young, Active
  <2>3. ASSUME UNCHANGED <<th, grp>> PROVE LossInv'
    BY <2>2, <2>3
  <2>4. ASSUME NEW f \in Fulfils, FulfilStep(f) PROVE LossInv'
    <3>1. CASE FulfilStart(f)
      <4>1. \A h \in Hosts : Begun(h).lost = 0 /\ ~Begun(h).stale
        BY DEF Begun, Calm
      <4>2. UNCHANGED grp /\ \A h \in Hosts : th'[h] \in {th[h], Begun(h)}
        BY <3>1 DEF FulfilStart
      <4> QED
        BY <2>2, <4>1, <4>2
    <3>2. CASE UNCHANGED <<th, grp>>
      BY <2>3, <3>2
    <3> QED
      BY <2>4, <3>1, <3>2 DEF FulfilStep, FulfilSucceeds, FulfilFails, FulfilAbandoned
  <2>5. ASSUME NEW a \in Allocs, NEW v \in Visors, GroupDeleted(v, a) PROVE LossInv'
    <3>1. grp[a].age >= 2 /\ grp[a].age \in Nat
      BY <2>1, <2>5, CloudvisorAssumption DEF GroupDeleted, OldEnough
    <3>2. grp' = [grp EXCEPT ![a] = NoGroup] /\ NoGroup.age = 0
      BY <2>5 DEF GroupDeleted, NoGroup
    <3>3. ASSUME NEW h \in Hosts, Alloc(h) = a PROVE LossOf(h)'
      <4>1. ~Young(h)
        BY <3>1, <3>3 DEF Young
      <4>2. th[h].lost = 0 /\ ~th[h].stale
        BY <2>1, <4>1 DEF LossOf
      <4>3. \/ th'[h] = th[h]
            \/ th[h].pc = "launch" /\ th'[h] = [th[h] EXCEPT !.stale = TRUE]
        BY <2>5 DEF GroupDeleted, Orphaned
      <4>4. th'[h].lost = 0 /\ (th'[h].stale => th'[h].pc = "launch") /\ th'[h].ticked \in BOOLEAN
        BY <2>1, <4>2, <4>3 DEF Attempts
      <4>5. grp'[Alloc(h)].age = 0
        BY <2>1, <3>2, <3>3
      <4>6. Young(h)'
        BY <4>4, <4>5 DEF Young
      <4> QED
        BY <4>4, <4>6 DEF LossOf
    <3>4. ASSUME NEW h \in Hosts, Alloc(h) # a PROVE LossOf(h)'
      <4>1. th'[h] = th[h]
        BY <2>5, <3>4 DEF GroupDeleted, Orphaned
      <4>2. grp'[Alloc(h)] = grp[Alloc(h)]
        BY <2>1, <3>2, <3>4
      <4> QED
        BY <2>1, <4>1, <4>2 DEF LossOf, Young, Active
    <3> QED
      BY <2>0, <3>3, <3>4 DEF LossInv
  <2>6. ASSUME NEW a \in Allocs, GroupAges(a) PROVE LossInv'
    <3>1. grp' = [grp EXCEPT ![a].age = @ + 1] /\ \A h \in Hosts : Alloc(h) = a /\ Active(h) => ~th[h].ticked
      BY <2>6 DEF GroupAges
    <3>2. ASSUME NEW h \in Hosts, Alloc(h) = a, Active(h) PROVE LossOf(h)'
      <4>1. th'[h] = [th[h] EXCEPT !.ticked = TRUE]
        BY <2>6, <3>2 DEF GroupAges
      <4>2. th'[h].ticked = TRUE /\ th'[h].lost = th[h].lost /\ th'[h].stale = th[h].stale /\ th'[h].pc = th[h].pc
        BY <2>1, <4>1 DEF Attempts
      <4>3. ~th[h].ticked /\ grp'[Alloc(h)].age = grp[Alloc(h)].age + 1 /\ grp[Alloc(h)].age \in Nat
        BY <2>1, <3>1, <3>2
      <4>4. Young(h) => Young(h)'
        BY <4>2, <4>3 DEF Young
      <4> QED
        BY <2>1, <4>2, <4>4 DEF LossOf, Active
    <3>3. ASSUME NEW h \in Hosts, ~(Alloc(h) = a /\ Active(h)) PROVE LossOf(h)'
      <4>1. th'[h] = th[h]
        BY <2>6, <3>3 DEF GroupAges
      <4>2. Active(h) => grp'[Alloc(h)] = grp[Alloc(h)]
        BY <2>1, <3>1, <3>3
      <4>3. ~Active(h) => th[h].lost = 0 /\ ~th[h].stale
        BY <2>1 DEF LossOf, Active
      <4> QED
        BY <2>1, <4>1, <4>2, <4>3 DEF LossOf, Young, Active
    <3> QED
      BY <2>0, <3>2, <3>3 DEF LossInv
  <2>7. ASSUME NEW v \in Visors, Restart(v) PROVE LossInv'
    <3>1. Calm.lost = 0 /\ ~Calm.stale
      BY DEF Calm
    <3> QED
      BY <2>2, <2>7, <3>1 DEF Restart
  <2>8. ASSUME NEW v \in Visors,
               CleanerStep(v) \/ GroupsEnd(v) \/ \E a \in Allocs : GroupKept(v, a)
        PROVE  UNCHANGED <<th, grp>>
    BY <2>8 DEF CleanerStep, CleanerWakes, CleanerList, CleanerEnd, CleanerDestroys, requests,
       GroupsEnd, GroupKept
  <2>9. ASSUME \/ \E p \in Provs, a \in Allocs : JobSaved(p, a) \/ JobGone(p, a)
               \/ \E h \in Hosts : Deallocate(h)
               \/ UNCHANGED vars
        PROVE  UNCHANGED <<th, grp>>
    BY <2>9 DEF JobSaved, JobGone, Deallocate, requests, vars
  <2>10. ASSUME NEW h \in Hosts, HostStep(h) PROVE LossInv'
    BY <1>2, <2>0, <2>10, LossHosts DEF LossInv
  <2> QED
    BY <1>2, <2>3, <2>4, <2>5, <2>6, <2>7, <2>8, <2>9, <2>10 DEF Next, GroupStep
<1>3. LossInv => LosesGroupOnce
  BY DEF LossInv, LossOf, LosesGroupOnce, TypeOK, Attempts
<1> QED
  BY <1>1, <1>2, <1>3, PTL DEF Spec

------------------------------------------------------------------------------
(***************************************************************************)
(* The rules: an instance is launched with a group whose rules are in      *)
(* force.                                                                  *)
(***************************************************************************)

\* The provisioner asks a resource manager once for an allocation.
OneFulfil == \A f, g \in Fulfils : AllocOf[f] = AllocOf[g] => f = g

Ready(a) == grp[a].made = "ready"

\* A group without rules is being finished, or its maker was cut off by a
\* restart, and with it everybody who could use the group.
Bare(a) ==
  grp[a].made = "bare" =>
    \/ \E h \in Hosts : Alloc(h) = a /\ th[h].pc = "authorize"
    \/ \A h \in Hosts : Alloc(h) = a => ~Active(h) /\ ful[FulfilOf[h]] # "idle"

ReachOf(h) ==
  /\ th[h].pc = "launch" /\ ~th[h].stale => Ready(Alloc(h))
  /\ Alive(h) => Ready(Alloc(h))
  /\ ful[FulfilOf[h]] = "idle" => th[h].pc = "idle"

ReachInv == (\A h \in Hosts : ReachOf(h)) /\ \A a \in Allocs : Bare(a)

LEMMA SameFulfil ==
  ASSUME OneFulfil
  PROVE  /\ OneVisor
         /\ \A g, h \in Hosts : Alloc(g) = Alloc(h) => FulfilOf[g] = FulfilOf[h] /\ Visor(g) = Visor(h)
         /\ \A h \in Hosts : Alloc(h) \in Allocs
  BY CloudvisorAssumption DEF OneFulfil, OneVisor, Alloc, Visor

\* Nothing happens to host g that matters here.
SameHost(g) ==
  /\ th'[g].pc = th[g].pc /\ th'[g].stale = th[g].stale
  /\ Alive(g)' => Alive(g)
  /\ ful'[FulfilOf[g]] = "idle" <=> ful[FulfilOf[g]] = "idle"

LEMMA ReachElsewhere ==
  ASSUME OneFulfil, ReachInv, NEW a \in Allocs,
         \A b \in Allocs \ {a} : grp'[b].made = grp[b].made,
         \A g \in Hosts : IF Alloc(g) = a THEN ReachOf(g)' ELSE SameHost(g),
         Bare(a)'
  PROVE  ReachInv'
<1>1. \A g \in Hosts : ReachOf(g)'
  BY SameFulfil DEF ReachInv, ReachOf, SameHost, Ready
<1>2. ASSUME NEW b \in Allocs \ {a} PROVE Bare(b)'
  BY <1>2 DEF ReachInv, Bare, SameHost, Active
<1> QED
  BY <1>1, <1>2 DEF ReachInv

LEMMA ReachStays ==
  ASSUME OneFulfil, ReachInv,
         \A b \in Allocs : grp'[b].made = grp[b].made,
         \A g \in Hosts : SameHost(g)
  PROVE  ReachInv'
<1>1. \A g \in Hosts : ReachOf(g)'
  BY SameFulfil DEF ReachInv, ReachOf, SameHost, Ready
<1>2. ASSUME NEW b \in Allocs PROVE Bare(b)'
  BY <1>2 DEF ReachInv, Bare, SameHost, Active
<1> QED
  BY <1>1, <1>2 DEF ReachInv

\* Who looks for the group finds one that is finished, or none.
LEMMA FoundIsReady ==
  ASSUME OneFulfil, LockInv, ReachInv, NEW h \in Hosts, FindGroup(h)
  PROVE  grp[Alloc(h)].made # "bare"
<1> SUFFICES ASSUME grp[Alloc(h)].made = "bare" PROVE FALSE
  OBVIOUS
<1>1. Active(h) /\ lock[Visor(h)] = NoHost
  BY DEF FindGroup, LockFree, Active
<1>2. PICK g \in Hosts : Alloc(g) = Alloc(h) /\ th[g].pc = "authorize"
  BY <1>1, SameFulfil DEF ReachInv, Bare
<1>3. lock[Visor(h)] = g
  BY <1>2, SameFulfil DEF LockInv, Holders, Makes
<1> QED
  BY <1>1, <1>3, CloudvisorAssumption

LEMMA ReachHosts ==
  ASSUME OneFulfil, "authorize" \notin Faults, LockInv, ReachInv, NEW h \in Hosts, HostStep(h)
  PROVE  ReachInv'
<1> DEFINE a == Alloc(h)
<1>0. /\ a \in Allocs /\ th \in [Hosts -> Attempts] /\ th[h].lost \in Nat
      /\ grp \in [Allocs -> [made : {"none", "bare", "ready"}, age : Nat]]
      /\ inst \in [Hosts -> {"none", "pending", "running", "gone"}]
  BY SameFulfil DEF LockInv, TypeOK, Attempts
<1>1. PICK x \in Attempts : th' = [th EXCEPT ![h] = x]
  BY HostMoves DEF LockInv
<1>2. th'[h] = x /\ \A g \in Hosts \ {h} : th'[g] = th[g]
  BY <1>0, <1>1
<1>3. /\ UNCHANGED ful
      /\ th[h].pc # "idle"
      /\ \/ UNCHANGED inst
         \/ Launch(h) /\ inst' = [inst EXCEPT ![h] = "pending"]
         \/ inst[h] = "pending" /\ inst' = [inst EXCEPT ![h] = "running"]
      /\ \/ UNCHANGED grp
         \/ CreateGroup(h) /\ grp[a].made = "none"
            /\ grp' = [grp EXCEPT ![a] = [made |-> "bare", age |-> 0]]
         \/ Authorize(h) /\ grp' = [grp EXCEPT ![a].made = "ready"]
  BY DEF HostStep, FindGroup, CreateGroup, Authorize, Launch, LaunchFails, NoImage, AwaitRunning
<1>4. ReachOf(h) /\ Bare(a) /\ \A g \in Hosts : ReachOf(g)
  BY <1>0 DEF ReachInv
<1>5. \A b \in Allocs \ {a} : grp'[b] = grp[b]
  BY <1>0, <1>3
<1>6. Ready(a) => Ready(a)'
  BY <1>0, <1>3 DEF Ready
<1>7. \A g \in Hosts \ {h} : SameHost(g) /\ (Alloc(g) = a => ReachOf(g)')
  BY <1>0, <1>2, <1>3, <1>4, <1>6 DEF SameHost, ReachOf, Alive, Ready
<1>8. Alive(h)' => Ready(a)'
  <2>1. CASE Launch(h)
    BY <1>4, <1>6, <2>1 DEF Launch, ReachOf
  <2>2. CASE Alive(h)' => Alive(h)
    BY <1>4, <1>6, <2>2 DEF ReachOf
  <2> QED
    BY <1>0, <1>3, <2>1, <2>2 DEF Alive
<1>9. ful'[FulfilOf[h]] # "idle"
  BY <1>3, <1>4 DEF ReachOf
<1>10. ASSUME x.pc # "launch" \/ Ready(a)', Bare(a)' PROVE ReachInv'
  <2>1. ReachOf(h)'
    BY <1>2, <1>8, <1>9, <1>10 DEF ReachOf
  <2>2. \A g \in Hosts : IF Alloc(g) = a THEN ReachOf(g)' ELSE SameHost(g)
    BY <1>7, <2>1
  <2> HIDE DEF a
  <2> QED
    BY <1>0, <1>5, <1>10, <2>2, ReachElsewhere
<1>11. ASSUME UNCHANGED grp, th[h].pc # "authorize",
              x.pc \notin {"get", "create", "authorize", "launch"} \/ Active(h)
       PROVE  Bare(a)'
  BY <1>2, <1>3, <1>4, <1>11 DEF Bare, Active
<1>12. \A n \in Nat : NextAttempt(h, n).pc \in {"get", "failed"}
  BY <1>0, NextAttemptType
<1>13. \A st \in {"launch", "create", "authorize", "done", "failed"} : [th[h] EXCEPT !.pc = st].pc = st
  BY <1>0 DEF Attempts
<1>14. CASE FindGroup(h)
  <2>1. grp[a].made # "bare" /\ UNCHANGED grp
    BY <1>14, FoundIsReady DEF FindGroup
  <2>2. Bare(a)'
    BY <2>1 DEF Bare
  <2>3. CASE grp[a].made = "none"
    <3>1. x.pc # "launch"
      BY <1>0, <1>2, <1>13, <1>14, <2>3 DEF FindGroup
    <3> QED
      BY <1>10, <2>2, <3>1
  <2>4. CASE grp[a].made # "none"
    BY <1>0, <1>10, <2>1, <2>2, <2>4 DEF Ready
  <2> QED
    BY <2>3, <2>4
<1>15. CASE CreateGroup(h)
  <2>1. /\ th' = [th EXCEPT ![h].pc = "authorize"]
        /\ grp' = [grp EXCEPT ![a] = [made |-> "bare", age |-> 0]]
    BY <1>15 DEF CreateGroup, LockInv, NoDuplicateGroup
  <2>2. th'[h].pc = "authorize"
    BY <1>0, <2>1, <1>13
  <2> QED
    BY <1>2, <1>10, <2>2 DEF Bare
<1>16. CASE Authorize(h)
  <2>1. CASE grp' = [grp EXCEPT ![a].made = "ready"]
    BY <1>0, <1>10, <2>1 DEF Ready, Bare
  <2>2. CASE UNCHANGED grp /\ grp[a].made = "none" /\ x = NextAttempt(h, th[h].lost)
    BY <1>0, <1>10, <1>12, <2>2 DEF Bare
  <2> QED
    BY <1>0, <1>2, <1>16, <2>1, <2>2 DEF Authorize
<1>17. CASE Launch(h) \/ NoImage(h)
  <2>1. x.pc \in {"wait", "failed"} /\ UNCHANGED grp /\ th[h].pc = "launch"
    BY <1>0, <1>2, <1>17 DEF Launch, NoImage, Calm
  <2> QED
    BY <1>10, <1>11, <2>1
<1>18. CASE LaunchFails(h)
  <2>1. UNCHANGED grp /\ th[h].pc = "launch" /\ \E n \in Nat : x = NextAttempt(h, n)
    BY <1>0, <1>2, <1>18 DEF LaunchFails
  <2> QED
    BY <1>10, <1>11, <1>12, <2>1 DEF Active
<1>19. CASE AwaitRunning(h)
  <2>1. UNCHANGED grp /\ th[h].pc = "wait" /\ x.pc \in {"done", "failed"}
    BY <1>0, <1>2, <1>13, <1>19 DEF AwaitRunning
  <2> QED
    BY <1>10, <1>11, <2>1
<1> QED
  BY <1>14, <1>15, <1>16, <1>17, <1>18, <1>19 DEF HostStep

LEMMA ReachFulfils ==
  ASSUME OneFulfil, LockInv, ReachInv, NEW f \in Fulfils, FulfilStep(f)
  PROVE  ReachInv'
<1>0. th \in [Hosts -> Attempts] /\ ful \in [Fulfils -> {"idle", "working", "ok", "failed", "abandoned"}]
      /\ \A h \in Hosts : FulfilOf[h] \in Fulfils
  BY CloudvisorAssumption DEF LockInv, TypeOK
<1>1. CASE FulfilStart(f)
  <2> DEFINE a == AllocOf[f]
  <2>1. a \in Allocs /\ UNCHANGED <<grp, inst>> /\ ful[f] = "idle"
        /\ ful' = [ful EXCEPT ![f] = "working"]
        /\ th' = [h \in Hosts |-> IF FulfilOf[h] = f THEN Begun(h) ELSE th[h]]
    BY <1>1, CloudvisorAssumption DEF FulfilStart
  <2>2. \A h \in Hosts : Begun(h).pc \in {"get", "failed"}
    BY CalmIsOne DEF Begun, Calm
  <2>3. \A g \in Hosts : Alloc(g) = a <=> FulfilOf[g] = f
    BY <1>0 DEF Alloc, OneFulfil
  <2>4. \A g \in Hosts : IF Alloc(g) = a THEN ReachOf(g)' ELSE SameHost(g)
    BY <1>0, <2>1, <2>2, <2>3 DEF ReachInv, ReachOf, SameHost, Alive, Ready
  <2>5. \A g \in Hosts : Alloc(g) = a => th[g].pc = "idle"
    BY <2>1, <2>3 DEF ReachInv, ReachOf
  <2>6. Bare(a) /\ (grp[a].made = "bare" => ~\E g \in Hosts : Alloc(g) = a)
    BY <2>1, <2>3, <2>5 DEF ReachInv, Bare
  <2>7. Bare(a)'
    BY <2>1, <2>6 DEF Bare
  <2> HIDE DEF a
  <2> QED
    BY <2>1, <2>4, <2>7, ReachElsewhere
<1>2. CASE FulfilSucceeds(f) \/ FulfilFails(f) \/ FulfilAbandoned(f)
  <2>1. UNCHANGED <<th, grp, inst>> /\ ful[f] # "idle"
        /\ \E st \in {"ok", "failed", "abandoned"} : ful' = [ful EXCEPT ![f] = st]
    BY <1>2 DEF FulfilSucceeds, FulfilFails, FulfilAbandoned
  <2>2. \A g \in Hosts : SameHost(g)
    BY <1>0, <2>1 DEF SameHost, Alive
  <2> QED
    BY <2>1, <2>2, ReachStays
<1> QED
  BY <1>1, <1>2 DEF FulfilStep

LEMMA ReachRestarts ==
  ASSUME OneFulfil, LockInv, ReachInv, NEW v \in Visors, Restart(v)
  PROVE  ReachInv'
<1>0. th \in [Hosts -> Attempts] /\ ful \in [Fulfils -> {"idle", "working", "ok", "failed", "abandoned"}]
      /\ \A h \in Hosts : FulfilOf[h] \in Fulfils
  BY CloudvisorAssumption DEF LockInv, TypeOK
<1>1. /\ UNCHANGED <<grp, inst>>
      /\ \A h \in Hosts : th'[h] = IF Visor(h) = v THEN Calm ELSE th[h]
      /\ \A f \in Fulfils : ful'[f] = "idle" <=> ful[f] = "idle"
  BY <1>0 DEF Restart
<1>2. Calm.pc = "idle"
  BY DEF Calm
<1>3. \A h \in Hosts : ReachOf(h)'
  BY <1>0, <1>1, <1>2 DEF ReachInv, ReachOf, Alive, Ready
<1>4. ASSUME NEW a \in Allocs, grp[a].made = "bare"
      PROVE  Bare(a)'
  <2>1. CASE \E h \in Hosts : Alloc(h) = a /\ th[h].pc = "authorize"
    <3>1. PICK h \in Hosts : Alloc(h) = a /\ th[h].pc = "authorize"
      BY <2>1
    <3>2. CASE Visor(h) # v
      BY <1>1, <3>1, <3>2 DEF Bare
    <3>3. CASE Visor(h) = v
      <4>1. ful[FulfilOf[h]] # "idle"
        BY <3>1 DEF ReachInv, ReachOf
      <4>2. \A g \in Hosts : Alloc(g) = a => Visor(g) = v /\ FulfilOf[g] = FulfilOf[h]
        BY <3>1, <3>3, SameFulfil
      <4> QED
        BY <1>0, <1>1, <1>2, <4>1, <4>2 DEF Bare, Active
    <3> QED
      BY <3>2, <3>3
  <2>2. CASE \A h \in Hosts : Alloc(h) = a => ~Active(h) /\ ful[FulfilOf[h]] # "idle"
    BY <1>0, <1>1, <1>2, <2>2 DEF Bare, Active
  <2> QED
    BY <1>4, <2>1, <2>2 DEF ReachInv, Bare
<1> QED
  BY <1>1, <1>3, <1>4 DEF ReachInv, Bare

LEMMA ReachGroups ==
  ASSUME OneFulfil, LockInv, ReachInv, NEW a \in Allocs,
         GroupAges(a) \/ \E v \in Visors : GroupDeleted(v, a)
  PROVE  ReachInv'
<1>0. /\ th \in [Hosts -> Attempts]
      /\ grp \in [Allocs -> [made : {"none", "bare", "ready"}, age : Nat]]
  BY DEF LockInv, TypeOK
<1>1. CASE GroupAges(a)
  <2>1. \A b \in Allocs : grp'[b].made = grp[b].made
    BY <1>0, <1>1 DEF GroupAges
  <2>2. \A g \in Hosts : SameHost(g)
    BY <1>0, <1>1 DEF GroupAges, SameHost, Alive, Attempts
  <2> QED
    BY <2>1, <2>2, ReachStays
<1>2. ASSUME NEW v \in Visors, GroupDeleted(v, a) PROVE ReachInv'
  <2>1. /\ ~InUse(a) /\ UNCHANGED <<inst, ful>> /\ th' = Orphaned(a)
        /\ grp' = [grp EXCEPT ![a] = NoGroup]
    BY <1>2 DEF GroupDeleted
  <2>2. grp'[a].made = "none" /\ \A b \in Allocs \ {a} : grp'[b] = grp[b]
    BY <1>0, <2>1 DEF NoGroup
  <2>3. ASSUME NEW g \in Hosts, Alloc(g) # a PROVE SameHost(g)
    BY <2>1, <2>3 DEF Orphaned, SameHost, Alive
  <2>4. ASSUME NEW g \in Hosts, Alloc(g) = a PROVE ReachOf(g)'
    <3>1. ~Alive(g)'
      BY <2>1, <2>4 DEF InUse, Alive
    <3>2. th'[g].pc = th[g].pc /\ (th[g].pc = "launch" => th'[g].stale)
      BY <1>0, <2>1, <2>4 DEF Orphaned, Attempts
    <3> QED
      BY <2>1, <3>1, <3>2 DEF ReachInv, ReachOf
  <2> QED
    BY <2>2, <2>3, <2>4, ReachElsewhere DEF Bare
<1> QED
  BY <1>1, <1>2

\* ec2_wrapper.py, allocate: an instance is up only with a group whose rules are in
\* force, whatever groups the cleaner deletes and wherever a restart cuts in, as
\* long as authorize_ingress does what it is asked.
THEOREM LaunchesReachable ==
  ASSUME OneFulfil, "authorize" \notin Faults
  PROVE  Spec => []LaunchedReachable
<1>1. Init => ReachInv
  BY DEF Init, ReachInv, ReachOf, Bare, Calm, NoGroup, Alive
<1>2. ASSUME LockInv, ReachInv, [Next]_vars PROVE ReachInv'
  <2>1. ASSUME \/ \E p \in Provs, a \in Allocs : JobSaved(p, a) \/ JobGone(p, a)
               \/ \E h \in Hosts : Deallocate(h)
               \/ \E v \in Visors : \/ CleanerStep(v) \/ GroupsEnd(v)
                                    \/ \E a \in Allocs : GroupKept(v, a)
               \/ UNCHANGED vars
        PROVE  ReachInv'
    <3>1. /\ UNCHANGED <<th, grp, ful>>
          /\ UNCHANGED inst \/ \E h \in Hosts : inst' = [inst EXCEPT ![h] = "gone"]
      BY <2>1 DEF JobSaved, JobGone, Deallocate, CleanerStep, CleanerWakes, CleanerList, CleanerEnd,
         CleanerDestroys, GroupsEnd, GroupKept, requests, cleaners, vars
    <3>2. inst \in [Hosts -> {"none", "pending", "running", "gone"}]
      BY <1>2 DEF LockInv, TypeOK
    <3>3. \A g \in Hosts : SameHost(g)
      BY <3>1, <3>2 DEF SameHost, Alive
    <3> QED
      BY <1>2, <3>1, <3>3, ReachStays
  <2> QED
    BY <1>2, <2>1, ReachHosts, ReachFulfils, ReachRestarts, ReachGroups DEF Next, GroupStep
<1>3. ReachInv => LaunchedReachable
  BY DEF ReachInv, ReachOf, LaunchedReachable, Ready
<1> QED
  BY <1>1, <1>2, <1>3, SameFulfil, LockAlways, PTL DEF Spec
==============================================================================
