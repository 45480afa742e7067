------------------------------ MODULE MCHypervisor ------------------------------
(***************************************************************************)
(* Instance of Hypervisor: a fulfil of two VMs beside single VMs, with one *)
(* or two macs and at most one GPU each.                                   *)
(***************************************************************************)
EXTENDS Hypervisor, TLC
CONSTANTS mac1, mac2, mac3, gpu1, a1, a2, a3, d1, u1, u2, f1
MCShapes == {[macs |-> 1, gpus |-> 0], [macs |-> 1, gpus |-> 1], [macs |-> 2, gpus |-> 0]}
MCPorts == (0..2) \X Kinds
MCFulfilOf == [a \in Reqs |-> IF a = a3 THEN NoFulfil ELSE f1]
MCUndoerOf == [a \in Reqs |-> IF a = a1 THEN u1 ELSE u2]
Symmetry == Permutations(Macs)
==============================================================================
