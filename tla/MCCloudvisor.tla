----------------------------- MODULE MCCloudvisor -----------------------------
(***************************************************************************)
(* Instances of Cloudvisor.  Cloud: one cloudvisor, an allocation of two   *)
(* hosts for which there are two instance types, and one of a host with    *)
(* one type.  Foreign: the cloudvisors of two developers, each with its    *)
(* own provisioner.                                                        *)
(***************************************************************************)
EXTENDS Cloudvisor
CONSTANTS p1, p2, v1, v2, a1, a2, f1, f2, h1, h2, h3
MCProvOf == [v \in Visors |-> IF v = v1 THEN p1 ELSE p2]
MCVisorOf == [f \in Fulfils |-> v1]
MCAllocOf == [f \in Fulfils |-> IF f = f1 THEN a1 ELSE a2]
MCFulfilOf == [h \in Hosts |-> IF h = h3 THEN f2 ELSE f1]
MCTypes == [h \in Hosts |-> IF h = h1 THEN 2 ELSE 1]
==============================================================================
