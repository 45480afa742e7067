---------------------- MODULE HypervisorAllocatorProofs ----------------------
(***************************************************************************)
(* What the hypervisor's allocator guarantees for any pools, any number of *)
(* VMs and any number of callers.  Everything but the types and the limit  *)
(* on VMs is proved where a name is not taken again before a destroy_vm    *)
(* that waits for it has run (NameReuse = FALSE): without that the second  *)
(* look of destroy_vm, which looks for the name, does not protect anything.*)
(***************************************************************************)
EXTENDS HypervisorAllocator, FiniteSetTheorems, TLAPS

\* What a call reserves comes out of the pools (_reserve_macs, _reserve_gpus).
LEMMA ChoicesInPools ==
  ASSUME NEW S \in Choices
  PROVE  S \subseteq Res /\ \A r \in S : free[r] > 0
<1>1. PICK s \in Shapes :
        S \in {ms \cup gs : ms \in {x \in SUBSET InPool(Macs) : Cardinality(x) = s.macs},
                            gs \in {x \in SUBSET InPool(Gpus) : Cardinality(x) = s.gpus}}
  BY DEF Choices
<1>2. PICK ms \in SUBSET InPool(Macs), gs \in SUBSET InPool(Gpus) : S = ms \cup gs
  BY <1>1
<1> QED
  BY <1>2 DEF InPool, Res

\* Each action leaves every variable in its type (allocate_vm, destroy_vm).
LEMMA TypeInductive == TypeOK /\ [Next]_vars => TypeOK'
<1> SUFFICES ASSUME TypeOK, [Next]_vars PROVE TypeOK'
  OBVIOUS
<1>0. 0 \in Names /\ Idle \in Destructions
  BY AllocatorAssumption DEF Names, Idle, Destructions
<1> USE AllocatorAssumption DEF TypeOK
<1>1. ASSUME NEW a \in Reqs, AllocateStart(a) PROVE TypeOK'
  <2>1. PICK S \in Choices, p \in Ports \ used, n \in Names :
          /\ Take(S)
          /\ used' = used \cup {p}
          /\ vms' = [vms EXCEPT ![n] = a]
          /\ name' = [name EXCEPT ![a] = n]
          /\ held' = [held EXCEPT ![a] = S]
          /\ port' = [port EXCEPT ![a] = p]
    BY <1>1 DEF AllocateStart
  <2>2. free' \in [Res -> Nat]
    BY <2>1, ChoicesInPools DEF Take
  <2>3. S \subseteq Res
    BY ChoicesInPools
  <2>4. pc' = [pc EXCEPT ![a] = "creating"] /\ UNCHANGED <<dst, dom, lost>>
    BY <1>1 DEF AllocateStart
  <2> QED
    BY <2>1, <2>2, <2>3, <2>4
<1>2. CASE AllocateNoPort
  <2>1. PICK S \in Choices : Take(S) /\ lost' = lost \cup S
    BY <1>2 DEF AllocateNoPort
  <2>2. free' \in [Res -> Nat]
    BY <2>1, ChoicesInPools DEF Take
  <2>3. lost' \subseteq Res
    BY <2>1, ChoicesInPools
  <2> QED
    BY <1>2, <2>2, <2>3 DEF AllocateNoPort
<1>3. ASSUME NEW a \in Reqs, AllocateOk(a) PROVE TypeOK'
  BY <1>3 DEF AllocateOk
<1>4. ASSUME NEW a \in Reqs, AllocateFails(a) PROVE TypeOK'
  <2>1. free' \in [Res -> Nat] /\ used' \subseteq Ports
    BY <1>4 DEF AllocateFails, FreeAll, GiveBack
  <2> QED
    BY <1>0, <1>4, <2>1 DEF AllocateFails, Unlist, Forget
<1>5. ASSUME NEW d \in Destroyers, NEW n \in Names, DestroyStart(d, n) PROVE TypeOK'
  <2>1. vms[n] \in Reqs
    BY <1>5 DEF DestroyStart
  <2> QED
    BY <1>5, <2>1 DEF DestroyStart, Destructions
<1>6. ASSUME NEW d \in Destroyers, DestroyLocked(d) \/ DestroyKill(d) \/ DestroyFails(d)
      PROVE  TypeOK'
  <2>1. \A st \in {"killing", "freeing"} : [dst[d] EXCEPT !.pc = st] \in Destructions
    BY DEF Destructions
  <2>2. dst[d].name \in Names
    BY DEF Destructions
  <2>3. CASE DestroyLocked(d)
    BY <1>0, <2>1, <2>3 DEF DestroyLocked
  <2>4. CASE DestroyKill(d)
    BY <2>1, <2>2, <2>4 DEF DestroyKill
  <2>5. CASE DestroyFails(d)
    BY <1>0, <2>5 DEF DestroyFails
  <2> QED
    BY <1>6, <2>3, <2>4, <2>5
<1>7. ASSUME NEW d \in Destroyers, DestroyEnds(d) PROVE TypeOK'
  <2>1. free' \in [Res -> Nat] /\ used' \subseteq Ports
    BY <1>7 DEF DestroyEnds, FreeAll, GiveBack
  <2> QED
    BY <1>0, <1>7, <2>1 DEF DestroyEnds, Unlist, Forget
<1>8. CASE UNCHANGED vars
  BY <1>8 DEF vars
<1> QED
  BY <1>1, <1>2, <1>3, <1>4, <1>5, <1>6, <1>7, <1>8 DEF Next

\* Whatever the callers do, pools are never cut below empty and the allocator's
\* records keep their types.
THEOREM Typing == Spec => []TypeOK
<1>1. Init => TypeOK
  BY AllocatorAssumption DEF Init, TypeOK, Destructions, Idle, Names
<1> QED
  BY <1>1, TypeInductive, PTL DEF Spec

------------------------------------------------------------------------------
(***************************************************************************)
(* The dictionary, the VM objects and the destroy_vm calls.                *)
(***************************************************************************)

\* A destroy_vm knows the VM that it looked up; the name of it is still this
\* VM's or nobody's.
Knows(x) ==
  /\ x.obj \in Reqs
  /\ vms[x.name] \in {x.obj, NoVM}
  /\ pc[x.obj] # "none" =>
       x.name = name[x.obj] /\ x.held = held[x.obj] /\ x.port = port[x.obj]

Waiters ==
  \A d \in Destroyers : IF dst[d].pc = "idle" THEN dst[d] = Idle ELSE Knows(dst[d])

InDestruction(d) == dst[d].pc \in {"killing", "freeing"}

\* The lock of a VM object that is being destroyed is held once.
Lockers ==
  /\ \A d \in Destroyers : InDestruction(d) => pc[dst[d].obj] = "created"
  /\ \A d, e \in Destroyers :
       InDestruction(d) /\ InDestruction(e) /\ dst[d].obj = dst[e].obj => d = e

\* A domain is that of a VM that is created and not yet killed.
Domains ==
  /\ \A n \in Names : dom[n] # NoVM => vms[n] = dom[n] /\ pc[dom[n]] = "created"
  /\ \A d \in Destroyers : dst[d].pc = "freeing" => dom[dst[d].name] = NoVM

DictInv ==
  TypeOK /\ ListedAreVMs /\ Waiters /\ Lockers /\ DoubleCheckHolds /\ Domains

LEMMA IdleIsOne == Idle \in Destructions /\ Idle.pc = "idle"
  BY AllocatorAssumption DEF Names, Idle, Destructions

\* The part of destroy_vm in which it only moves on itself.
LEMMA DestroyerMoves ==
  ASSUME DictInv, NEW d \in Destroyers, NEW x \in Destructions,
         dst' = [dst EXCEPT ![d] = x],
         UNCHANGED <<vms, pc, name, held, port>>,
         \A n \in Names : dom'[n] \in {dom[n], NoVM},
         IF x.pc = "idle" THEN x = Idle ELSE Knows(x),
         x.pc \in {"killing", "freeing"} =>
           /\ pc[x.obj] = "created" /\ vms[x.name] = x.obj
           /\ \A e \in Destroyers \ {d} : InDestruction(e) => dst[e].obj # x.obj,
         x.pc = "freeing" => dom'[x.name] = NoVM
  PROVE  ListedAreVMs' /\ Waiters' /\ Lockers' /\ DoubleCheckHolds' /\ Domains'
<1>1. dst'[d] = x /\ \A e \in Destroyers \ {d} : dst'[e] = dst[e]
  BY DEF DictInv, TypeOK
<1>2. \A e \in Destroyers : dst[e].name \in Names
  BY DEF DictInv, TypeOK, Destructions
<1>3. ListedAreVMs'
  BY DEF DictInv, ListedAreVMs
<1>4. Waiters'
  BY <1>1 DEF DictInv, Waiters, Knows
<1>5. Lockers'
  BY <1>1 DEF DictInv, Lockers, InDestruction
<1>6. DoubleCheckHolds'
  BY <1>1 DEF DictInv, DoubleCheckHolds
<1>7. Domains'
  BY <1>1, <1>2 DEF DictInv, Domains
<1> QED
  BY <1>3, <1>4, <1>5, <1>6, <1>7

\* Every step of allocate_vm and destroy_vm keeps the three in agreement.
LEMMA DictInductive ==
  ASSUME NameReuse = FALSE, DictInv, [Next]_vars
  PROVE  DictInv'
<1>0. TypeOK'
  BY TypeInductive DEF DictInv
<1> DEFINE Rest == ListedAreVMs /\ Waiters /\ Lockers /\ DoubleCheckHolds /\ Domains
<1> SUFFICES Rest'
  BY <1>0 DEF DictInv
<1> USE AllocatorAssumption
    DEF DictInv, TypeOK, Destructions, ListedAreVMs, Waiters, Lockers, InDestruction,
        DoubleCheckHolds, Domains, Idle, Knows
<1>1. ASSUME NEW a \in Reqs, AllocateStart(a) PROVE Rest'
  <2>1. PICK S \in Choices, p \in Ports \ used, n \in Names :
          /\ NextName(n)
          /\ NameReuse \/ ~Awaited(n)
          /\ Take(S)
          /\ used' = used \cup {p}
          /\ vms' = [vms EXCEPT ![n] = a]
          /\ name' = [name EXCEPT ![a] = n]
          /\ held' = [held EXCEPT ![a] = S]
          /\ pc' = [pc EXCEPT ![a] = "creating"]
          /\ port' = [port EXCEPT ![a] = p]
    BY <1>1, Zenon DEF AllocateStart
  <2>2. vms[n] = NoVM
    BY <2>1 DEF NextName, Listed
  <2>3. \A d \in Destroyers : dst[d].obj # a /\ (dst[d].pc # "idle" => dst[d].name # n)
    BY <1>1, <2>1 DEF AllocateStart, Awaited, Referenced
  <2>4. pc[a] = "none" /\ pc' = [pc EXCEPT ![a] = "creating"] /\ UNCHANGED <<dst, dom>>
    BY <1>1 DEF AllocateStart
  <2>5. ListedAreVMs'
    BY <2>1, <2>2, <2>4
  <2>6. Waiters'
    BY <2>1, <2>3, <2>4
  <2>7. Lockers'
    BY <2>3, <2>4
  <2>8. DoubleCheckHolds'
    BY <2>1, <2>3, <2>4
  <2>9. Domains'
    BY <2>1, <2>2, <2>4
  <2> QED
    BY <2>5, <2>6, <2>7, <2>8, <2>9
<1>2. CASE AllocateNoPort
  BY <1>2 DEF AllocateNoPort
<1>3. ASSUME NEW a \in Reqs, AllocateOk(a) PROVE Rest'
  <2>1. ListedAreVMs' /\ Waiters' /\ DoubleCheckHolds'
    BY <1>3 DEF AllocateOk
  <2>2. Lockers'
    BY <1>3 DEF AllocateOk
  <2>3. Domains'
    BY <1>3 DEF AllocateOk
  <2> QED
    BY <2>1, <2>2, <2>3
<1>4. ASSUME NEW a \in Reqs, AllocateFails(a) PROVE Rest'
  <2> USE DEF AllocateFails, Unlist, Forget
  <2>1. ListedAreVMs'
    BY <1>4
  <2>2. Waiters'
    BY <1>4
  <2>3. Lockers' /\ DoubleCheckHolds'
    BY <1>4
  <2>4. Domains'
    BY <1>4
  <2> QED
    BY <2>1, <2>2, <2>3, <2>4
<1>5. ASSUME NEW d \in Destroyers, NEW n \in Names, DestroyStart(d, n) PROVE Rest'
  <2> DEFINE x == [pc |-> "waiting", name |-> n, obj |-> vms[n],
                   held |-> held[vms[n]], port |-> port[vms[n]]]
  <2>1. vms[n] \in Reqs
    BY <1>5 DEF DestroyStart
  <2>2. x \in Destructions
    BY <2>1
  <2>3. Knows(x)
    BY <1>5, <2>1 DEF DestroyStart, Knows
  <2> QED
    BY <1>5, <2>2, <2>3, DestroyerMoves DEF DestroyStart
<1>6. ASSUME NEW d \in Destroyers, DestroyLocked(d) PROVE Rest'
  <2>1. CASE StillListed(d)
    <3> DEFINE x == [dst[d] EXCEPT !.pc = "killing"]
    <3>1. dst' = [dst EXCEPT ![d] = x] /\ UNCHANGED <<vms, pc, name, held, port, dom>>
      BY <1>6, <2>1 DEF DestroyLocked
    <3>2. x \in Destructions /\ Knows(x)
      BY <1>6 DEF DestroyLocked, Knows
    <3>3. vms[x.name] = x.obj /\ pc[x.obj] = "created"
      BY <1>6, <2>1 DEF DestroyLocked, StillListed, Locked, Knows
    <3>4. \A e \in Destroyers : InDestruction(e) => dst[e].obj # x.obj
      BY <1>6 DEF DestroyLocked, Locked
    <3>5. x.pc = "killing" /\ \A n \in Names : dom'[n] = dom[n]
      BY <3>1
    <3> HIDE DEF x, Waiters, Lockers, Domains, ListedAreVMs, DoubleCheckHolds, DictInv, Knows
    <3> QED
      BY <3>1, <3>2, <3>3, <3>4, <3>5, DestroyerMoves
  <2>2. CASE ~StillListed(d)
    BY <1>0, <1>6, <2>2, IdleIsOne, DestroyerMoves DEF DestroyLocked
  <2> QED
    BY <2>1, <2>2
<1>7. ASSUME NEW d \in Destroyers, DestroyKill(d) PROVE Rest'
  <2> DEFINE x == [dst[d] EXCEPT !.pc = "freeing"]
  <2>1. dst' = [dst EXCEPT ![d] = x] /\ UNCHANGED <<vms, pc, name, held, port>>
    BY <1>7 DEF DestroyKill
  <2>2. x \in Destructions /\ Knows(x)
    BY <1>7 DEF DestroyKill, Knows
  <2>3. /\ vms[x.name] = x.obj /\ pc[x.obj] = "created"
        /\ \A e \in Destroyers \ {d} : InDestruction(e) => dst[e].obj # x.obj
    BY <1>7 DEF DestroyKill
  <2>4. dom'[x.name] = NoVM /\ \A n \in Names : dom'[n] \in {dom[n], NoVM}
    BY <1>7 DEF DestroyKill
  <2> QED
    BY <2>1, <2>2, <2>3, <2>4, DestroyerMoves
<1>8. ASSUME NEW d \in Destroyers, DestroyFails(d) PROVE Rest'
  BY <1>8, IdleIsOne, DestroyerMoves DEF DestroyFails
<1>9. ASSUME NEW d \in Destroyers, DestroyEnds(d) PROVE Rest'
  <2> USE DEF DestroyEnds, Unlist, Forget
  <2>1. ListedAreVMs'
    BY <1>9
  <2>2. Waiters'
    <3>1. dst'[d] = Idle /\ \A e \in Destroyers \ {d} : dst'[e] = dst[e]
      BY <1>9
    <3>2. \A n \in Names : vms'[n] \in {vms[n], NoVM}
      BY <1>9
    <3>3. pc'[dst[d].obj] = "none"
      BY <1>9
    <3>4. \A a \in Reqs \ {dst[d].obj} :
            pc'[a] = pc[a] /\ name'[a] = name[a] /\ held'[a] = held[a] /\ port'[a] = port[a]
      BY <1>9
    <3>5. ASSUME NEW e \in Destroyers \ {d}, dst[e].pc # "idle" PROVE Knows(dst[e])'
      <4>1. dst[e].obj \in Reqs /\ dst[e].name \in Names /\ Knows(dst[e])
        BY <3>5
      <4>2. vms'[dst[e].name] \in {dst[e].obj, NoVM}
        BY <3>2, <4>1
      <4> QED
        BY <3>1, <3>3, <3>4, <4>1, <4>2
    <3>6. \A e \in Destroyers \ {d} : dst[e].pc = "idle" => dst'[e] = Idle
      BY <3>1
    <3>7. Idle.pc = "idle"
      OBVIOUS
    <3> HIDE DEF Knows, Idle, DictInv, Lockers, Domains, DoubleCheckHolds, ListedAreVMs
    <3> QED
      BY <3>1, <3>5, <3>6, <3>7
  <2>3. Lockers'
    BY <1>9
  <2>4. DoubleCheckHolds'
    BY <1>9
  <2>5. Domains'
    BY <1>9
  <2> QED
    BY <2>1, <2>2, <2>3, <2>4, <2>5
<1>10. CASE UNCHANGED vars
  BY <1>10 DEF vars
<1> QED
  BY <1>1, <1>2, <1>3, <1>4, <1>5, <1>6, <1>7, <1>8, <1>9, <1>10 DEF Next

LEMMA DictAlways ==
  ASSUME NameReuse = FALSE
  PROVE  Spec => []DictInv
<1>1. Init => DictInv
  BY AllocatorAssumption DEF Init, DictInv, TypeOK, Destructions, Names, ListedAreVMs,
     Waiters, Lockers, InDestruction, DoubleCheckHolds, Domains, Idle
<1>2. DictInv /\ [Next]_vars => DictInv'
  BY DictInductive
<1> QED
  BY <1>1, <1>2, PTL DEF Spec

\* destroy_vm: what goes on after the double check destroys the VM that it was
\* called for, and the dictionary lists exactly the VMs there are.
THEOREM DoubleCheck ==
  ASSUME NameReuse = FALSE
  PROVE  Spec => []DoubleCheckHolds /\ []ListedAreVMs
<1>1. DictInv => DoubleCheckHolds /\ ListedAreVMs
  BY DEF DictInv
<1> QED
  BY <1>1, DictAlways, PTL

------------------------------------------------------------------------------
(***************************************************************************)
(* The pools and the ports, one resource at a time.                        *)
(***************************************************************************)
Alive(a) == pc[a] # "none"

ResInv ==
  \A r \in Res :
    LET holds(a) == Alive(a) /\ r \in held[a] IN
    /\ \/ free[r] = 1 /\ r \notin lost /\ \A a \in Reqs : ~holds(a)
       \/ free[r] = 0 /\ r \notin lost /\ \E a \in Reqs : holds(a)
       \/ free[r] = 0 /\ r \in lost /\ \A a \in Reqs : ~holds(a)
    /\ \A a, b \in Reqs : holds(a) /\ holds(b) => a = b

PortInv ==
  \A p \in Ports :
    LET has(a) == Alive(a) /\ port[a] = p IN
    /\ p \in used <=> \E a \in Reqs : has(a)
    /\ \A a, b \in Reqs : has(a) /\ has(b) => a = b

\* _free_vm_resources, when the VM that had them goes at the same time.
LEMMA VMGoes ==
  ASSUME TypeOK, ResInv, PortInv, NEW a \in Reqs, Alive(a),
         FreeAll(held[a], port[a]), Forget(a), UNCHANGED lost
  PROVE  ResInv' /\ PortInv'
<1>1. ~Alive(a)' /\ \A b \in Reqs \ {a} :
                      Alive(b)' = Alive(b) /\ held'[b] = held[b] /\ port'[b] = port[b]
  BY DEF TypeOK, Forget, Alive
<1>2. \A r \in Res : free'[r] = IF r \in held[a] THEN free[r] + 1 ELSE free[r]
  BY DEF FreeAll, GiveBack
<1>3. ResInv'
  <2> SUFFICES ASSUME NEW r \in Res
               PROVE LET holds(b) == Alive(b)' /\ r \in held'[b] IN
                     /\ \/ free'[r] = 1 /\ r \notin lost' /\ \A b \in Reqs : ~holds(b)
                        \/ free'[r] = 0 /\ r \notin lost' /\ \E b \in Reqs : holds(b)
                        \/ free'[r] = 0 /\ r \in lost' /\ \A b \in Reqs : ~holds(b)
                     /\ \A b, c \in Reqs : holds(b) /\ holds(c) => b = c
    BY DEF ResInv
  <2>1. CASE r \in held[a]
    <3>1. free[r] = 0 /\ r \notin lost /\ \A b \in Reqs : Alive(b) /\ r \in held[b] => b = a
      BY <2>1 DEF ResInv
    <3> QED
      BY <1>1, <1>2, <2>1, <3>1
  <2>2. CASE r \notin held[a]
    BY <1>1, <1>2, <2>2 DEF ResInv
  <2> QED
    BY <2>1, <2>2
<1>4. PortInv'
  BY <1>1 DEF PortInv, FreeAll
<1> QED
  BY <1>3, <1>4

\* A step that takes nothing, gives nothing back, and makes or ends no VM.
LEMMA VMsStay ==
  ASSUME ResInv, PortInv, UNCHANGED <<free, used, held, port, lost>>,
         \A a \in Reqs : Alive(a)' = Alive(a)
  PROVE  ResInv' /\ PortInv'
BY DEF ResInv, PortInv

LEMMA ConservedInductive ==
  ASSUME DictInv, ResInv, PortInv, [Next]_vars
  PROVE  ResInv' /\ PortInv'
<1>0. TypeOK
  BY DEF DictInv
<1>1. ASSUME NEW a \in Reqs, AllocateStart(a) PROVE ResInv' /\ PortInv'
  <2>1. PICK S \in Choices, p \in Ports \ used, n \in Names :
          /\ NextName(n)
          /\ NameReuse \/ ~Awaited(n)
          /\ Take(S)
          /\ used' = used \cup {p}
          /\ vms' = [vms EXCEPT ![n] = a]
          /\ pc' = [pc EXCEPT ![a] = "creating"]
          /\ name' = [name EXCEPT ![a] = n]
          /\ held' = [held EXCEPT ![a] = S]
          /\ port' = [port EXCEPT ![a] = p]
    BY <1>1, Zenon DEF AllocateStart
  <2>2. /\ ~Alive(a) /\ Alive(a)' /\ held'[a] = S /\ port'[a] = p
        /\ \A b \in Reqs \ {a} :
             Alive(b)' = Alive(b) /\ held'[b] = held[b] /\ port'[b] = port[b]
    BY <1>0, <1>1, <2>1 DEF TypeOK, Alive, AllocateStart
  <2>3. \A r \in Res : free'[r] = IF r \in S THEN free[r] - 1 ELSE free[r]
    BY <2>1 DEF Take
  <2>4. \A r \in S : free[r] > 0
    BY ChoicesInPools
  <2>5. lost' = lost
    BY <1>1 DEF AllocateStart
  <2>6. ResInv'
    BY <2>2, <2>3, <2>4, <2>5 DEF ResInv
  <2>7. PortInv'
    BY <2>1, <2>2 DEF PortInv
  <2> QED
    BY <2>6, <2>7
<1>2. CASE AllocateNoPort
  <2>1. PICK S \in Choices : Take(S) /\ lost' = lost \cup S
    BY <1>2 DEF AllocateNoPort
  <2>2. \A r \in Res : free'[r] = IF r \in S THEN free[r] - 1 ELSE free[r]
    BY <2>1 DEF Take
  <2>3. \A r \in S : free[r] > 0
    BY ChoicesInPools
  <2>4. UNCHANGED <<used, held, port>> /\ \A a \in Reqs : Alive(a)' = Alive(a)
    BY <1>2 DEF AllocateNoPort, Alive
  <2>5. ResInv'
    BY <2>1, <2>2, <2>3, <2>4 DEF ResInv
  <2>6. PortInv'
    BY <2>4 DEF PortInv
  <2> QED
    BY <2>5, <2>6
<1>3. ASSUME NEW a \in Reqs, AllocateOk(a) PROVE ResInv' /\ PortInv'
  <2>1. \A b \in Reqs : Alive(b)' = Alive(b)
    BY <1>0, <1>3 DEF AllocateOk, Alive, TypeOK
  <2> QED
    BY <1>3, <2>1, VMsStay DEF AllocateOk
<1>4. ASSUME NEW a \in Reqs, AllocateFails(a) PROVE ResInv' /\ PortInv'
  <2>1. Alive(a)
    BY <1>4 DEF AllocateFails, Alive
  <2> QED
    BY <1>0, <1>4, <2>1, VMGoes DEF AllocateFails
<1>5. ASSUME NEW d \in Destroyers, NEW n \in Names, DestroyStart(d, n)
      PROVE  ResInv' /\ PortInv'
  BY <1>5, VMsStay DEF DestroyStart, Alive
<1>6. ASSUME NEW d \in Destroyers, DestroyLocked(d) \/ DestroyKill(d) \/ DestroyFails(d)
      PROVE  ResInv' /\ PortInv'
  BY <1>6, VMsStay DEF DestroyLocked, DestroyKill, DestroyFails, Alive
<1>7. ASSUME NEW d \in Destroyers, DestroyEnds(d) PROVE ResInv' /\ PortInv'
  <2>1. Knows(dst[d]) /\ pc[dst[d].obj] = "created"
    BY <1>7 DEF DictInv, Waiters, Lockers, InDestruction, DestroyEnds
  <2>2. dst[d].held = held[dst[d].obj] /\ dst[d].port = port[dst[d].obj] /\ dst[d].obj \in Reqs
    BY <2>1 DEF Knows
  <2>3. Alive(dst[d].obj)
    BY <2>1 DEF Alive
  <2>4. FreeAll(held[dst[d].obj], port[dst[d].obj]) /\ Forget(dst[d].obj) /\ lost' = lost
    BY <1>7, <2>2 DEF DestroyEnds
  <2> QED
    BY <1>0, <2>2, <2>3, <2>4, VMGoes
<1>8. CASE UNCHANGED vars
  BY <1>8, VMsStay DEF vars, Alive
<1> QED
  BY <1>1, <1>2, <1>3, <1>4, <1>5, <1>6, <1>7, <1>8 DEF Next

\* Of each mac and each GPU.
LEMMA ResOne == ResInv => ResourcesConserved
<1> SUFFICES ASSUME ResInv, NEW r \in Res
             PROVE LET holders == {a \in Reqs : pc[a] # "none" /\ r \in held[a]}
                   IN  \/ free[r] = 1 /\ holders = {} /\ r \notin lost
                       \/ free[r] = 0 /\ r \notin lost /\ \E a \in Reqs : holders = {a}
                       \/ free[r] = 0 /\ r \in lost /\ holders = {}
  BY DEF ResourcesConserved
<1> DEFINE holders == {a \in Reqs : pc[a] # "none" /\ r \in held[a]}
<1>1. ASSUME NEW a \in holders PROVE holders = {a}
  BY <1>1 DEF ResInv, Alive
<1> QED
  BY <1>1 DEF ResInv, Alive

\* Of each serial port.
LEMMA PortOne == PortInv => PortsConserved
<1> SUFFICES ASSUME PortInv, NEW p \in Ports
             PROVE LET holders == {a \in Reqs : pc[a] # "none" /\ port[a] = p}
                   IN  \/ p \notin used /\ holders = {}
                       \/ p \in used /\ \E a \in Reqs : holders = {a}
  BY DEF PortsConserved
<1> DEFINE holders == {a \in Reqs : pc[a] # "none" /\ port[a] = p}
<1>1. ASSUME NEW a \in holders PROVE holders = {a}
  BY <1>1 DEF PortInv, Alive
<1> QED
  BY <1>1 DEF PortInv, Alive

\* allocate_vm and destroy_vm: each mac, each GPU and each serial port is at any
\* time free, with one VM, or lost to a call that found no port.
THEOREM Conservation ==
  ASSUME NameReuse = FALSE
  PROVE  Spec => []ResourcesConserved /\ []PortsConserved
<1>1. Init => ResInv /\ PortInv
  BY DEF Init, ResInv, PortInv, Alive
<1>2. DictInv /\ ResInv /\ PortInv /\ [Next]_vars => ResInv' /\ PortInv'
  BY ConservedInductive
<1> QED
  BY <1>1, <1>2, ResOne, PortOne, DictAlways, PTL DEF Spec

------------------------------------------------------------------------------
(* The limit on VMs, and what a destroy_vm destroys                        *)

LEMMA ListedIsFinite == IsFiniteSet(Listed) /\ Cardinality(Listed) \in Nat
<1>1. IsFiniteSet(Names)
  BY FS_Interval, AllocatorAssumption DEF Names
<1>2. Listed \subseteq Names
  BY DEF Listed
<1> QED
  BY <1>1, <1>2, FS_Subset, FS_CardinalityType

LEMMA LimitShrinks ==
  ASSUME WithinMaxVMs, Listed' \subseteq Listed
  PROVE  WithinMaxVMs'
<1>1. Cardinality(Listed') <= Cardinality(Listed) /\ Cardinality(Listed') \in Nat
  BY ListedIsFinite, FS_Subset, FS_CardinalityType
<1> QED
  BY <1>1, ListedIsFinite, AllocatorAssumption DEF WithinMaxVMs

\* The dictionary grows by one VM at a time.
LEMMA LimitInductive ==
  ASSUME TypeOK, WithinMaxVMs, [Next]_vars
  PROVE  WithinMaxVMs'
<1>1. ASSUME NEW a \in Reqs, AllocateStart(a) PROVE WithinMaxVMs'
  <2>1. PICK n \in Names : NextName(n) /\ vms' = [vms EXCEPT ![n] = a]
    BY <1>1, Zenon DEF AllocateStart
  <2>2. n \notin Listed /\ Listed' = Listed \cup {n}
    BY <2>1, AllocatorAssumption DEF NextName, Listed, TypeOK
  <2>3. Cardinality(Listed') = Cardinality(Listed) + 1
    BY <2>2, ListedIsFinite, FS_AddElement
  <2>4. Cardinality(Listed) # MaxVMs
    BY <1>1 DEF AllocateStart, Room
  <2> QED
    BY <2>3, <2>4, ListedIsFinite, AllocatorAssumption DEF WithinMaxVMs
<1>2. ASSUME UNCHANGED vms PROVE Listed' \subseteq Listed
  BY <1>2 DEF Listed
<1>3. ASSUME NEW n \in Names, Unlist(n) PROVE Listed' \subseteq Listed
  BY <1>3 DEF Listed, Unlist, TypeOK
<1>4. ASSUME NEW a \in Reqs, AllocateOk(a) \/ AllocateFails(a) PROVE Listed' \subseteq Listed
  BY <1>2, <1>3, <1>4 DEF AllocateOk, AllocateFails, TypeOK
<1>5. ASSUME AllocateNoPort \/ UNCHANGED vars PROVE UNCHANGED vms
  BY <1>5 DEF AllocateNoPort, vars
<1>6. ASSUME NEW d \in Destroyers,
             \/ \E n \in Names : DestroyStart(d, n)
             \/ DestroyLocked(d) \/ DestroyKill(d) \/ DestroyFails(d)
      PROVE  UNCHANGED vms
  BY <1>6 DEF DestroyStart, DestroyLocked, DestroyKill, DestroyFails
<1>7. ASSUME NEW d \in Destroyers, DestroyEnds(d) PROVE Listed' \subseteq Listed
  BY <1>3, <1>7 DEF DestroyEnds, TypeOK, Destructions
<1> QED
  BY <1>1, <1>2, <1>4, <1>5, <1>6, <1>7, LimitShrinks DEF Next

LEMMA LimitInit ==
  ASSUME Init
  PROVE  TypeOK /\ WithinMaxVMs
<1>1. Listed = {}
  BY DEF Init, Listed
<1>2. TypeOK
  BY AllocatorAssumption DEF Init, TypeOK, Destructions, Idle, Names
<1> QED
  BY <1>1, <1>2, FS_EmptySet, AllocatorAssumption DEF WithinMaxVMs

\* `self.max_vms == len(self.vms)` is an equality, and enough: the dictionary
\* grows by one VM at a time, from empty.
THEOREM Limit == Spec => []WithinMaxVMs
  BY LimitInit, LimitInductive, Typing, PTL DEF Spec

\* The step kills a domain only in a destroy_vm that was called for its VM.
Killed ==
  \A n \in Names :
    dom[n] # NoVM /\ dom'[n] = NoVM /\ pc'[dom[n]] # "none"
      => \E d \in Destroyers : dst[d].pc = "killing" /\ dst[d].obj = dom[n]

LEMMA StepsKillTheirOwn ==
  ASSUME DictInv, [Next]_vars
  PROVE  Killed
<1> SUFFICES ASSUME NEW n \in Names, dom[n] # NoVM, dom'[n] = NoVM
             PROVE  \E d \in Destroyers : dst[d].pc = "killing" /\ dst[d].obj = dom[n]
  BY DEF Killed
<1>1. vms[n] = dom[n] /\ pc[dom[n]] = "created" /\ dom[n] \in Reqs
  BY DEF DictInv, Domains, TypeOK
<1>2. ASSUME NEW a \in Reqs, AllocateStart(a) \/ AllocateOk(a) \/ AllocateFails(a)
      PROVE  FALSE
  <2>1. CASE AllocateStart(a)
    BY <2>1 DEF AllocateStart
  <2>2. CASE AllocateOk(a)
    BY <2>2, AllocatorAssumption DEF AllocateOk, DictInv, TypeOK
  <2>3. CASE AllocateFails(a)
    <3>1. name[a] = n /\ pc[a] = "creating"
      BY <2>3 DEF AllocateFails, DictInv, TypeOK
    <3>2. vms[name[a]] = a
      BY <3>1 DEF DictInv, ListedAreVMs
    <3> QED
      BY <1>1, <3>1, <3>2
  <2> QED
    BY <1>2, <2>1, <2>2, <2>3
<1>3. ASSUME AllocateNoPort \/ UNCHANGED vars PROVE FALSE
  BY <1>3 DEF AllocateNoPort, vars
<1>4. ASSUME NEW d \in Destroyers,
             \/ \E k \in Names : DestroyStart(d, k)
             \/ DestroyLocked(d) \/ DestroyFails(d) \/ DestroyEnds(d)
      PROVE  FALSE
  BY <1>4 DEF DestroyStart, DestroyLocked, DestroyFails, DestroyEnds
<1>5. ASSUME NEW d \in Destroyers, DestroyKill(d)
      PROVE  dst[d].pc = "killing" /\ dst[d].obj = dom[n]
  <2>1. dst[d].name = n /\ dst[d].pc = "killing"
    BY <1>5 DEF DestroyKill, DictInv, TypeOK
  <2> QED
    BY <1>1, <2>1 DEF DictInv, DoubleCheckHolds
<1> QED
  BY <1>2, <1>3, <1>4, <1>5 DEF Next

\* destroy_vm, allocate_vm: the domain of a VM that is still there goes away
\* only in a destroy_vm that was called for this VM.
THEOREM Kills ==
  ASSUME NameReuse = FALSE
  PROVE  Spec => KillsItsOwn
<1>1. DictInv /\ [Next]_vars => [Killed]_vars
  BY StepsKillTheirOwn
<1>2. Spec => [][Killed]_vars
  BY <1>1, DictAlways, PTL DEF Spec
<1> QED
  BY <1>2 DEF KillsItsOwn, Killed
==============================================================================
