---------------------------- MODULE MCProvisioner ----------------------------
EXTENDS Provisioner, TLC
CONSTANTS i1, i2, r1, r2, m1, m2, m3, h1, h2
IdSymmetry == Permutations(Ids)
OneRM == {r1}
HomeOneRM == [m \in Machines |-> r1]
OneHost == <<h1>>
TwoHosts == <<h1, h2>>
EachAllHosts == [i \in Ids |-> Range(HostOrder)]
EachOneHost == [i \in Ids |-> {h1}]
Home2 == [m \in Machines |-> IF m = m1 THEN r1 ELSE r2]
ServeOneEach == [r \in RMs |-> IF r = r1 THEN {h1} ELSE {h2}]
ServeAll == [r \in RMs |-> Range(HostOrder)]
==============================================================================
