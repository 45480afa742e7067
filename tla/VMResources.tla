----------------------------- MODULE VMResources ------------------------------
(***************************************************************************)
(* What the hypervisor promises about its macs and GPUs: a VM gets what is *)
(* in the pool and nothing else, all at once, and keeps all of it until it *)
(* gives all of it back; nothing goes from one VM to another but through   *)
(* the pool.  A call that finds no serial port takes what it reserved out  *)
(* of the pool for good; a restart puts back what no restored VM has.      *)
(***************************************************************************)
CONSTANTS VMs,
          Res      \* macs and GPUs

VARIABLES pool,    \* what can be given out
          of       \* of[v]: what VM v has

Init ==
  /\ pool = Res
  /\ of = [v \in VMs |-> {}]

Allocate(v) ==
  /\ of[v] = {}
  /\ \E S \in SUBSET pool :
       /\ pool' = pool \ S
       /\ of' = [of EXCEPT ![v] = S]

Lose ==
  /\ \E S \in SUBSET pool : pool' = pool \ S
  /\ UNCHANGED of

GiveBack(v) ==
  /\ pool' = pool \cup of[v]
  /\ of' = [of EXCEPT ![v] = {}]

\* The VMs of K are restored, the others destroyed.
Restart(K) ==
  /\ pool' = Res \ UNION {of[v] : v \in K}
  /\ of' = [v \in VMs |-> IF v \in K THEN of[v] ELSE {}]

Next ==
  \/ \E v \in VMs : Allocate(v) \/ GiveBack(v)
  \/ Lose
  \/ \E K \in SUBSET VMs : Restart(K)

Spec == Init /\ [][Next]_<<pool, of>>
==============================================================================
