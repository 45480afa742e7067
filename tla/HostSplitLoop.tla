---------------------------- MODULE HostSplitLoop ----------------------------
(***************************************************************************)
(* HostSplit run as the loop runs it, one fulfiller after the other, on    *)
(* every set of answers that up to MaxRMs resource managers can give.      *)
(***************************************************************************)
EXTENDS HostSplit

CONSTANTS HostOrder,  \* the demanded hosts, in the order of the request
          MaxRMs      \* bound on the resource managers that answer

\* The hosts are the keys of the request's demands, each is listed once.
ASSUME LoopAssumption ==
  /\ HostOrder \in Seq(Range(HostOrder)) /\ IsInjective(HostOrder)
  /\ MaxRMs \in Nat

VARIABLES asked,      \* the plan as the resource managers answered
          plan,       \* the plan as the loop has changed it so far
          turn        \* the fulfiller whose turn it is

vars == <<asked, plan, turn>>

Hosts == Range(HostOrder)

Answers == {Listing(HostOrder, hs) : hs \in SUBSET Hosts \ {{}}}

\* `len(possible_machines) != len(demands)` has let the request pass.
Init ==
  /\ asked \in {p \in UNION {[1..n -> Answers] : n \in 1..MaxRMs} : Covered(p) = Hosts}
  /\ plan = asked
  /\ turn = 1

Turn ==
  /\ turn <= Len(plan)
  /\ plan' = SplitOne(plan, turn)
  /\ turn' = turn + 1
  /\ UNCHANGED asked

Next == Turn

Spec == Init /\ [][Next]_vars

\* Giving a host up never loses it: after every turn of the loop each demanded
\* host is still with some fulfiller (fulfiller.py:52-57).
EveryHostKept == Covered(plan) = Hosts

\* With one or two resource managers the loop leaves no host with both, although
\* it skips list positions: what the first skips the second gives up.
TwoShareNothing ==
  turn > Len(plan) /\ Len(plan) <= 2 => Disjoint(plan)
==============================================================================
