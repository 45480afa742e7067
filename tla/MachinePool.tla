----------------------------- MODULE MachinePool -----------------------------
(***************************************************************************)
(* What a resource manager promises about its machines: a machine is given *)
(* to an allocation only when nobody holds it, and goes from one           *)
(* allocation to another only by being freed in between.  Who may free a   *)
(* machine is not part of the promise: the resource managers do not ask.   *)
(***************************************************************************)
CONSTANTS Ids,       \* allocations
          Machines,
          Free       \* held by nobody

VARIABLE owner

Init == owner = [m \in Machines |-> Free]

Grant(m, i) ==
  /\ owner[m] = Free
  /\ owner' = [owner EXCEPT ![m] = i]

Release(m) == owner' = [owner EXCEPT ![m] = Free]

Next == \E m \in Machines : Release(m) \/ \E i \in Ids : Grant(m, i)

Spec == Init /\ [][Next]_owner
==============================================================================
