---------------------------- MODULE HardvisorProofs ----------------------------
(***************************************************************************)
(* What Hardvisor guarantees for any number of allocations, machines and   *)
(* hosts: its types, that a machine read as available is still so when the *)
(* reservation is written, that the detailed handlers implement            *)
(* MachinePool, and that a failed fulfil keeps no machine.                 *)
(***************************************************************************)
EXTENDS Hardvisor, TLAPS

\* Each action leaves every variable in its type (all handlers of Hardvisor).
LEMMA TypeInductive == TypeOK /\ [Next]_vars => TypeOK'
<1> SUFFICES ASSUME TypeOK, [Next]_vars PROVE TypeOK'
  OBVIOUS
<1> USE HardvisorAssumption DEF TypeOK, Picks, Releases, Releasers, handlers, cleaner
<1>1. ASSUME NEW i \in Ids, JobSaved(i) \/ JobGone(i) PROVE TypeOK'
  BY <1>1 DEF JobSaved, JobGone
<1>2. ASSUME NEW i \in Ids, FulfillStart(i) PROVE TypeOK'
  BY <1>2 DEF FulfillStart
<1>3. ASSUME NEW i \in Ids, FulfillSucceeds(i) PROVE TypeOK'
  BY <1>3 DEF FulfillSucceeds, Return
<1>4. ASSUME NEW i \in Ids, FulfillFails(i) PROVE TypeOK'
  BY <1>4 DEF FulfillFails, ToRollBack
<1>5. ASSUME NEW i \in Ids, FulfillReplies(i) PROVE TypeOK'
  BY <1>5 DEF FulfillReplies, Return
<1>6. ASSUME NEW i \in Ids, NEW h \in Hosts, AllocatePick(i, h) PROVE TypeOK'
  <2>1. Available(h) \subseteq Machines
    BY DEF Available
  <2>2. picked' \subseteq Picks
    BY <1>6, <2>1 DEF AllocatePick
  <2>3. missed' \in [Ids -> BOOLEAN] /\ wait' \in [Ids -> SUBSET Hosts]
    BY <1>6 DEF AllocatePick
  <2> QED
    BY <1>6, <2>2, <2>3 DEF AllocatePick
<1>7. ASSUME NEW i \in Ids, NEW m \in Machines, RollbackRead(i, m) PROVE TypeOK'
  BY <1>7 DEF RollbackRead, ReleaseRead
<1>8. ASSUME NEW p \in picked, AllocateWrite(p) PROVE TypeOK'
  BY <1>8 DEF AllocateWrite, Reserved
<1>9. ASSUME NEW r \in rel, ReleaseWrite(r) PROVE TypeOK'
  BY <1>9 DEF ReleaseWrite
<1>10. ASSUME NEW m \in Machines, ApiRelease(m) PROVE TypeOK'
  BY <1>10 DEF ApiRelease, ReleaseRead
<1>11. CASE CleanerJobs
  BY <1>11 DEF CleanerJobs
<1>12. CASE CleanerList
  BY <1>12 DEF CleanerList
<1>13. CASE CleanerEnd
  BY <1>13 DEF CleanerEnd
<1>14. ASSUME NEW m \in Machines, CleanerRead(m) PROVE TypeOK'
  BY <1>14 DEF CleanerRead, ReleaseRead
<1>15. CASE Restart
  BY <1>15 DEF Restart
<1>16. CASE UNCHANGED vars
  BY <1>16 DEF vars
<1> QED
  BY <1>1, <1>2, <1>3, <1>4, <1>5, <1>6, <1>7, <1>8, <1>9, <1>10, <1>11, <1>12,
     <1>13, <1>14, <1>15, <1>16 DEF Next, CleanerStep

\* The variables of the hardvisor and of its handlers keep their types.
THEOREM Typing == Spec => []TypeOK
<1>1. Init => TypeOK
  BY HardvisorAssumption DEF Init, TypeOK
<1> QED
  BY <1>1, TypeInductive, PTL DEF Spec

------------------------------------------------------------------------------
(***************************************************************************)
(* The lock.  At most one allocate is between its read and its write, and  *)
(* the machine it picked is free: releases, which do not take the lock,    *)
(* only ever make machines free.                                           *)
(***************************************************************************)
OnePicked == \A p, q \in picked : p = q

LockInv == TypeOK /\ OnePicked /\ PickedIsFree

\* Only AllocatePick adds to picked, and only when picked is empty.
LEMMA LockInductive == LockInv /\ [Next]_vars => LockInv'
<1> SUFFICES ASSUME LockInv, [Next]_vars PROVE OnePicked' /\ PickedIsFree'
  BY TypeInductive DEF LockInv
<1> USE DEF LockInv, OnePicked, PickedIsFree
<1>1. ASSUME UNCHANGED <<owner, picked>> PROVE OnePicked' /\ PickedIsFree'
  BY <1>1
<1>2. ASSUME NEW i \in Ids, NEW h \in Hosts, AllocatePick(i, h)
      PROVE  OnePicked' /\ PickedIsFree'
  <2>1. CASE \E m \in Available(h) : picked' = picked \cup {[id |-> i, m |-> m]}
    <3>1. PICK m \in Available(h) : picked' = picked \cup {[id |-> i, m |-> m]}
      BY <2>1
    <3>2. picked' = {[id |-> i, m |-> m]}
      BY <1>2, <3>1 DEF AllocatePick, LockFree
    <3>3. owner' = owner /\ owner[m] = Free
      BY <1>2 DEF AllocatePick, Available
    <3> QED
      BY <3>2, <3>3
  <2>2. CASE UNCHANGED picked
    BY <1>2, <2>2 DEF AllocatePick
  <2> QED
    BY <1>2, <2>1, <2>2 DEF AllocatePick
<1>3. ASSUME NEW p \in picked, AllocateWrite(p) PROVE OnePicked' /\ PickedIsFree'
  <2>1. picked' = {}
    BY <1>3 DEF AllocateWrite
  <2> QED
    BY <2>1
<1>4. ASSUME NEW r \in rel, ReleaseWrite(r) PROVE OnePicked' /\ PickedIsFree'
  <2>1. picked' = picked
    BY <1>4 DEF ReleaseWrite, handlers
  <2>2. \A p \in picked : owner'[p.m] = owner[p.m] \/ owner'[p.m] = Free
    BY <1>4 DEF ReleaseWrite, TypeOK, Picks, Releases
  <2> QED
    BY <2>1, <2>2
<1>5. ASSUME Restart PROVE OnePicked' /\ PickedIsFree'
  BY <1>5 DEF Restart
<1>6. ASSUME NEW i \in Ids,
             \/ JobSaved(i) \/ JobGone(i) \/ FulfillStart(i)
             \/ FulfillSucceeds(i) \/ FulfillFails(i) \/ FulfillReplies(i)
      PROVE  UNCHANGED <<owner, picked>>
  BY <1>6 DEF JobSaved, JobGone, FulfillStart, FulfillSucceeds, FulfillFails, FulfillReplies
<1>7. ASSUME NEW i \in Ids, NEW m \in Machines, RollbackRead(i, m) \/ ApiRelease(m)
      PROVE  UNCHANGED <<owner, picked>>
  BY <1>7 DEF RollbackRead, ApiRelease
<1>8. ASSUME CleanerStep PROVE UNCHANGED <<owner, picked>>
  BY <1>8 DEF CleanerStep, CleanerJobs, CleanerList, CleanerEnd, CleanerRead
<1>9. ASSUME NEW m \in Machines, ApiRelease(m) PROVE UNCHANGED <<owner, picked>>
  BY <1>9 DEF ApiRelease
<1>10. ASSUME UNCHANGED vars PROVE UNCHANGED <<owner, picked>>
  BY <1>10 DEF vars
<1> QED
  BY <1>1, <1>2, <1>3, <1>4, <1>5, <1>6, <1>7, <1>8, <1>9, <1>10 DEF Next

LEMMA LockAlways == Spec => []LockInv
<1>1. Init => LockInv
  BY HardvisorAssumption DEF Init, LockInv, TypeOK, OnePicked, PickedIsFree
<1> QED
  BY <1>1, LockInductive, PTL DEF Spec

\* HardwareManager.allocate: whatever releases run beside it, the machine that
\* reserve_machine writes as in_use is available when it writes it.
THEOREM Locking == Spec => []PickedIsFree
<1>1. LockInv => PickedIsFree
  BY DEF LockInv
<1> QED
  BY <1>1, LockAlways, PTL

------------------------------------------------------------------------------
(* The promise                                                             *)

\* A step of the handlers is a Grant, a Release, or leaves the machines alone;
\* of a restart the machines notice nothing.
LEMMA PoolStep == LockInv /\ [Next]_vars => [Pool!Next]_owner
<1> SUFFICES ASSUME LockInv, [Next]_vars PROVE Pool!Next \/ UNCHANGED owner
  OBVIOUS
<1>1. ASSUME NEW p \in picked, AllocateWrite(p) PROVE Pool!Next
  <2>1. p.m \in Machines /\ p.id \in Ids /\ owner[p.m] = Free
    BY DEF LockInv, TypeOK, PickedIsFree, Picks
  <2>2. Pool!Grant(p.m, p.id)
    BY <1>1, <2>1 DEF Pool!Grant, AllocateWrite, Reserved
  <2> QED
    BY <2>1, <2>2 DEF Pool!Next
<1>2. ASSUME NEW r \in rel, ReleaseWrite(r) PROVE Pool!Next
  <2>1. r.m \in Machines
    BY DEF LockInv, TypeOK, Releases
  <2>2. Pool!Release(r.m)
    BY <1>2 DEF Pool!Release, ReleaseWrite
  <2> QED
    BY <2>1, <2>2 DEF Pool!Next
<1>3. ASSUME NEW i \in Ids,
             \/ JobSaved(i) \/ JobGone(i) \/ FulfillStart(i)
             \/ FulfillSucceeds(i) \/ FulfillFails(i) \/ FulfillReplies(i)
             \/ \E h \in Hosts : AllocatePick(i, h)
             \/ \E m \in Machines : RollbackRead(i, m)
      PROVE  UNCHANGED owner
  BY <1>3 DEF JobSaved, JobGone, FulfillStart, FulfillSucceeds, FulfillFails,
              FulfillReplies, AllocatePick, RollbackRead
<1>4. ASSUME NEW m \in Machines, ApiRelease(m) PROVE UNCHANGED owner
  BY <1>4 DEF ApiRelease
<1>5. ASSUME CleanerStep PROVE UNCHANGED owner
  BY <1>5 DEF CleanerStep, CleanerJobs, CleanerList, CleanerEnd, CleanerRead
<1>6. ASSUME Restart \/ UNCHANGED vars PROVE UNCHANGED owner
  BY <1>6 DEF Restart, vars
<1> QED
  BY <1>1, <1>2, <1>3, <1>4, <1>5, <1>6 DEF Next

\* The hardvisor with all its interleavings implements MachinePool: a machine is
\* reserved only when nobody has it.
THEOREM ImplementsPool == Spec => PoolSpec
<1>1. Init => Pool!Init
  BY DEF Init, Pool!Init
<1> QED
  BY <1>1, PoolStep, LockAlways, PTL DEF Spec, PoolSpec, Pool!Spec

------------------------------------------------------------------------------
(***************************************************************************)
(* All or nothing.  While a failed fulfil rolls back, each machine it got  *)
(* is no longer its own, or waits for its release, or its release is under *)
(* way; none of its allocates is left that could reserve one more.         *)
(***************************************************************************)
PicksAllocate == \A p \in picked : pc[p.id] = "allocating"

RollbackCovers ==
  \A i \in Ids : pc[i] = "rollback" =>
    \A m \in got[i] \ Broken :
      owner[m] # i \/ m \in todo[i] \/ [by |-> i, m |-> m] \in rel

RollbackInv == TypeOK /\ PicksAllocate /\ RollbackCovers

LEMMA RollbackInductive == RollbackInv /\ [Next]_vars => RollbackInv'
<1> SUFFICES ASSUME RollbackInv, [Next]_vars PROVE PicksAllocate' /\ RollbackCovers'
  BY TypeInductive DEF RollbackInv
<1>0. TypeOK'
  BY TypeInductive DEF RollbackInv
<1> USE HardvisorAssumption DEF RollbackInv, PicksAllocate, RollbackCovers, TypeOK,
        Picks, Releases, Releasers, handlers, cleaner
<1>1. ASSUME NEW i \in Ids, JobSaved(i) \/ JobGone(i)
      PROVE  PicksAllocate' /\ RollbackCovers'
  BY <1>1 DEF JobSaved, JobGone
<1>2. ASSUME NEW i \in Ids, FulfillStart(i) PROVE PicksAllocate' /\ RollbackCovers'
  BY <1>2 DEF FulfillStart
<1>3. ASSUME NEW i \in Ids, FulfillSucceeds(i) PROVE PicksAllocate' /\ RollbackCovers'
  BY <1>3 DEF FulfillSucceeds, Return, Gathered
<1>4. ASSUME NEW i \in Ids, FulfillFails(i) PROVE PicksAllocate' /\ RollbackCovers'
  BY <1>4 DEF FulfillFails, ToRollBack, Gathered
<1>5. ASSUME NEW i \in Ids, FulfillReplies(i) PROVE PicksAllocate' /\ RollbackCovers'
  BY <1>5 DEF FulfillReplies, Return, RolledBack
<1>6. ASSUME NEW i \in Ids, NEW h \in Hosts, AllocatePick(i, h)
      PROVE  PicksAllocate' /\ RollbackCovers'
  BY <1>6 DEF AllocatePick
<1>7. ASSUME NEW i \in Ids, NEW m \in Machines, RollbackRead(i, m)
      PROVE  PicksAllocate' /\ RollbackCovers'
  <2>1. PicksAllocate'
    BY <1>7 DEF RollbackRead
  <2>2. RollbackCovers'
    BY <1>7 DEF RollbackRead, ReleaseRead
  <2> QED
    BY <2>1, <2>2
<1>8. ASSUME NEW p \in picked, AllocateWrite(p) PROVE PicksAllocate' /\ RollbackCovers'
  BY <1>8 DEF AllocateWrite, Reserved
<1>9. ASSUME NEW r \in rel, ReleaseWrite(r) PROVE PicksAllocate' /\ RollbackCovers'
  BY <1>9 DEF ReleaseWrite
<1>10. ASSUME NEW m \in Machines, ApiRelease(m) PROVE PicksAllocate' /\ RollbackCovers'
  BY <1>10 DEF ApiRelease, ReleaseRead
<1>11. ASSUME CleanerStep PROVE PicksAllocate' /\ RollbackCovers'
  BY <1>11 DEF CleanerStep, CleanerJobs, CleanerList, CleanerEnd, CleanerRead, ReleaseRead
<1>12. ASSUME Restart \/ UNCHANGED vars PROVE PicksAllocate' /\ RollbackCovers'
  BY <1>12 DEF Restart, vars
<1> QED
  BY <1>1, <1>2, <1>3, <1>4, <1>5, <1>6, <1>7, <1>8, <1>9, <1>10, <1>11, <1>12
  DEF Next

\* Hardvisor.fulfill: when a fulfil answers with a failure, no machine that one of
\* its allocates returned is reserved for it, but those it could not release.
THEOREM FailedFulfilKeepsNothing == Spec => []AllOrNothing
<1>1. Init => RollbackInv
  BY HardvisorAssumption DEF Init, RollbackInv, TypeOK, PicksAllocate, RollbackCovers
<1>2. RollbackInv => AllOrNothing
  BY DEF RollbackInv, AllOrNothing, RolledBack, RollbackCovers
<1> QED
  BY <1>1, <1>2, RollbackInductive, PTL DEF Spec
================================================================================
