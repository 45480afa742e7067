------------------------ MODULE MCHypervisorAllocator ------------------------
(***************************************************************************)
(* Instances of HypervisorAllocator: VMs with one mac, with or without a   *)
(* GPU.                                                                    *)
(***************************************************************************)
EXTENDS HypervisorAllocator, TLC
CONSTANTS mac1, mac2, mac3, gpu1, p1, p2, p3, a1, a2, a3, d1, d2
MCShapes == {[macs |-> 1, gpus |-> 0], [macs |-> 1, gpus |-> 1], [macs |-> 2, gpus |-> 0]}
Symmetry ==
  Permutations(Macs) \cup Permutations(Gpus) \cup Permutations(Ports)
    \cup Permutations(Reqs) \cup Permutations(Destroyers)
==============================================================================
