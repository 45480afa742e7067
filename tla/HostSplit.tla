------------------------------ MODULE HostSplit ------------------------------
(***************************************************************************)
(* How the provisioner shares the demanded hosts between the resource      *)
(* managers that said they could provision them                            *)
(* (hwallocator/provisioner/webapp/fulfiller.py, Fulfiller.fulfill).       *)
(*                                                                         *)
(* A plan is a sequence with one entry per potential fulfiller, in the     *)
(* order of the redis hash: the list of hosts it answered with.  Hosts in  *)
(* one list are distinct, they are keys of the request's demands.          *)
(***************************************************************************)
EXTENDS Integers, Sequences, SequencesExt, FiniteSets

\* Mutant: the copy of the plan keeps the fulfiller's own list.
OthersHostsAndOwn(plan, k) == UNION {Range(plan[j]) : j \in DOMAIN plan}

\* The hosts that some other fulfiller of the plan can provision.
OthersHosts(plan, k) == UNION {Range(plan[j]) : j \in DOMAIN plan \ {k}}

\* Mutant: the loop ends at the first host it removes.
DropSharedOnce(hosts, others) ==
  LET shared == {n \in DOMAIN hosts : hosts[n] \in others}
  IN  IF shared = {}
      THEN hosts
      ELSE RemoveAt(hosts, CHOOSE n \in shared : \A m \in shared : n <= m)

(***************************************************************************)
(* `for host in hosts: if host in ...: hosts.remove(host)`: the loop       *)
(* removes from the list it iterates over, so the iterator, which counts   *)
(* positions, skips the host that follows a removed one.  A scan is the    *)
(* list and the iterator's position; Inspect is a turn of the loop.        *)
(***************************************************************************)
Inspect(s, others) ==
  IF s.at > Len(s.left)
  THEN s
  ELSE [left |-> IF s.left[s.at] \in others THEN RemoveAt(s.left, s.at) ELSE s.left,
        at   |-> s.at + 1]

\* Scans(hosts, others)[n] is the scan after n turns.
Scans(hosts, others) ==
  LET scan[n \in 0..Len(hosts)] ==
        IF n = 0 THEN [left |-> hosts, at |-> 1] ELSE Inspect(scan[n - 1], others)
  IN  scan

DropShared(hosts, others) == Scans(hosts, others)[Len(hosts)].left

\* One turn of the outer loop: the k-th fulfiller gives up what others offer.
SplitOne(plan, k) == [plan EXCEPT ![k] = DropShared(@, OthersHosts(plan, k))]

\* Splits(plan)[k] is the plan after k turns.  The lists are changed in place,
\* so a later fulfiller compares with what the earlier ones have kept.
Splits(plan) ==
  LET turn[k \in 0..Len(plan)] ==
        IF k = 0 THEN plan ELSE SplitOne(turn[k - 1], k)
  IN  turn

\* The whole loop.
Split(plan) == Splits(plan)[Len(plan)]

(***************************************************************************)
(* A resource manager lists the hosts hs that it can provision in the      *)
(* order of the request.                                                   *)
(***************************************************************************)
InOrder(order, s) ==
  \A j, k \in DOMAIN s : j < k =>
    \E m, n \in DOMAIN order : m < n /\ order[m] = s[j] /\ order[n] = s[k]

Listing(order, hs) ==
  CHOOSE s \in [1..Cardinality(hs) -> hs] : Range(s) = hs /\ InOrder(order, s)

\* The hosts that the plan provisions at all.
Covered(plan) == UNION {Range(plan[k]) : k \in DOMAIN plan}

\* No host is asked of two fulfillers.
Disjoint(plan) ==
  \A j, k \in DOMAIN plan : j # k => Range(plan[j]) \cap Range(plan[k]) = {}
==============================================================================
