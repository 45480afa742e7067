----------------------------- MODULE MCHardvisor -----------------------------
(***************************************************************************)
(* Instances of Hardvisor: one allocation asks for two hosts, the other    *)
(* for h1 only, which needs the arch of m1; h2 can have any machine.       *)
(***************************************************************************)
EXTENDS Hardvisor
CONSTANTS i1, i2, m1, m2, h1, h2
MCDemands == [i \in Ids |-> IF i = i1 THEN Hosts ELSE {h1}]
MCFits == [h \in Hosts |-> IF h = h1 THEN {m1} ELSE Machines]
==============================================================================
