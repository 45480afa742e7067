-------------------------- MODULE HostSplitLoopProofs --------------------------
(***************************************************************************)
(* The loop over the fulfillers, for any number of resource managers and   *)
(* hosts and any answers that cover the demands.                           *)
(***************************************************************************)
EXTENDS HostSplitLoop, HostSplitProofs

\* With two resource managers the plan after each turn.
OfTwo ==
  Len(asked) = 2 =>
    plan = CASE turn = 1 -> asked
             [] turn = 2 -> SplitOne(asked, 1)
             [] turn = 3 -> SplitOne(SplitOne(asked, 1), 2)

Inv ==
  /\ asked \in Seq(Seq(Hosts))
  /\ \A k \in 1..Len(asked) : InOrder(HostOrder, asked[k])
  /\ plan \in Seq(Seq(Hosts))
  /\ Len(plan) = Len(asked)
  /\ turn \in 1..Len(plan) + 1
  /\ Covered(plan) = Hosts
  /\ OfTwo

LEMMA AnswersAre ==
  ASSUME LoopAssumption
  PROVE  \A s \in Answers : s \in Seq(Hosts) /\ InOrder(HostOrder, s)
<1> SUFFICES ASSUME NEW hs \in SUBSET Hosts
             PROVE  Listing(HostOrder, hs) \in Seq(Hosts) /\ InOrder(HostOrder, Listing(HostOrder, hs))
  BY DEF Answers
<1>1. HostOrder \in Seq(Hosts)
  BY DEF LoopAssumption, Hosts
<1>2. Listing(HostOrder, hs) \in Seq(hs) /\ InOrder(HostOrder, Listing(HostOrder, hs))
  BY <1>1, ListingIs DEF Hosts
<1> QED
  BY <1>2, SeqMonotonic

LEMMA InvInit ==
  ASSUME LoopAssumption, Init
  PROVE  Inv
<1>1. PICK n \in 1..MaxRMs : asked \in [1..n -> Answers]
  BY DEF Init
<1>2. n \in Nat /\ Len(asked) = n
  BY <1>1 DEF LoopAssumption
<1>3. asked \in [1..n -> Seq(Hosts)] /\ \A k \in 1..n : InOrder(HostOrder, asked[k])
  BY <1>1, AnswersAre
<1>4. asked \in Seq(Seq(Hosts))
  BY <1>2, <1>3, SeqDef
<1> QED
  BY <1>2, <1>3, <1>4 DEF Init, Inv, OfTwo

LEMMA InvNext ==
  ASSUME Inv, [Next]_vars
  PROVE  Inv'
<1>1. CASE UNCHANGED vars
  BY <1>1 DEF Inv, OfTwo, vars
<1>2. CASE Turn
  <2>1. turn \in 1..Len(plan) /\ Len(plan) \in Nat
    BY <1>2, LenProperties DEF Inv, Turn
  <2>2. /\ plan' \in Seq(Seq(Hosts)) /\ Len(plan') = Len(plan)
        /\ Covered(plan') = Covered(plan)
    BY <1>2, <2>1, SplitOneIs, SplitOneCovers DEF Turn, Inv
  <2>3. OfTwo'
    <3>1. SUFFICES ASSUME Len(asked) = 2
                   PROVE  plan' = CASE turn' = 1 -> asked
                                    [] turn' = 2 -> SplitOne(asked, 1)
                                    [] turn' = 3 -> SplitOne(SplitOne(asked, 1), 2)
      BY <1>2 DEF OfTwo, Turn
    <3>2. turn = 1 \/ turn = 2
      BY <2>1, <3>1 DEF Inv
    <3>3. CASE turn = 1
      BY <1>2, <3>1, <3>3 DEF Inv, OfTwo, Turn
    <3>4. CASE turn = 2
      BY <1>2, <3>1, <3>4 DEF Inv, OfTwo, Turn
    <3> QED
      BY <3>2, <3>3, <3>4
  <2> QED
    BY <1>2, <2>1, <2>2, <2>3 DEF Inv, Turn, Hosts
<1> QED
  BY <1>1, <1>2 DEF Next

\* Whatever is removed from the list that the loop iterates over, each demanded
\* host is with some fulfiller after every turn.
THEOREM NothingLost ==
  ASSUME LoopAssumption
  PROVE  Spec => []EveryHostKept
<1>1. Init => Inv
  BY InvInit
<1>2. Inv /\ [Next]_vars => Inv'
  BY InvNext
<1>3. Inv => EveryHostKept
  BY DEF Inv, EveryHostKept
<1> QED
  BY <1>1, <1>2, <1>3, PTL DEF Spec

\* Two lists at the end of the loop have no host in common.
LEMMA TwoAtEnd ==
  ASSUME LoopAssumption, Inv
  PROVE  TwoShareNothing
<1> SUFFICES ASSUME turn > Len(plan), Len(plan) <= 2 PROVE Disjoint(plan)
  BY DEF TwoShareNothing
<1>1. Len(plan) \in Nat /\ DOMAIN plan = 1..Len(plan)
  BY LenProperties DEF Inv
<1>2. CASE Len(plan) # 2
  BY <1>1, <1>2 DEF Disjoint
<1>3. CASE Len(plan) = 2
  <2>0. HostOrder \in Seq(Hosts) /\ IsInjective(HostOrder)
    BY DEF LoopAssumption, Hosts
  <2> DEFINE half == SplitOne(asked, 1)
  <2>1. plan = SplitOne(half, 2)
    BY <1>3 DEF Inv, OfTwo
  <2>2. /\ asked \in Seq(Seq(Hosts)) /\ Len(asked) = 2 /\ DOMAIN asked = 1..2
        /\ 1 \in 1..Len(asked) /\ 2 \in 1..Len(asked)
    <3>1. asked \in Seq(Seq(Hosts)) /\ Len(asked) = 2
      BY <1>3 DEF Inv
    <3>2. asked \in [1..2 -> Seq(Hosts)]
      BY <3>1, LenProperties
    <3> QED
      BY <3>1, <3>2
  <2>3. /\ half \in Seq(Seq(Hosts)) /\ Len(half) = 2 /\ DOMAIN half = 1..2
        /\ half[1] = DropShared(asked[1], OthersHosts(asked, 1)) /\ half[2] = asked[2]
        /\ 2 \in 1..Len(half)
    <3>1. /\ half \in Seq(Seq(Hosts)) /\ Len(half) = Len(asked)
          /\ half[1] = DropShared(asked[1], OthersHosts(asked, 1))
          /\ \A j \in 1..Len(asked) \ {1} : half[j] = asked[j]
      BY <2>2, SplitOneIs
    <3> HIDE DEF half
    <3> QED
      BY <2>2, <3>1, LenProperties
  <2> HIDE DEF half
  <2>4. plan[2] = DropShared(half[2], OthersHosts(half, 2)) /\ plan[1] = half[1]
    <3>1. /\ plan[2] = DropShared(half[2], OthersHosts(half, 2))
          /\ \A j \in 1..Len(half) \ {2} : plan[j] = half[j]
      BY <2>1, <2>3, SplitOneIs
    <3> QED
      BY <2>3, <3>1
  <2>5. OthersHosts(asked, 1) = Range(asked[2]) /\ OthersHosts(half, 2) = Range(half[1])
    <3>1. (1..2) \ {1} = {2} /\ (1..2) \ {2} = {1}
      OBVIOUS
    <3> QED
      BY <2>2, <2>3, <3>1 DEF OthersHosts
  <2>6. /\ asked[1] \in Seq(Hosts) /\ InOrder(HostOrder, asked[1])
        /\ asked[2] \in Seq(Hosts) /\ InOrder(HostOrder, asked[2])
    <3>1. asked \in [1..2 -> Seq(Hosts)]
      BY <2>2, LenProperties
    <3> QED
      BY <2>2, <3>1 DEF Inv
  <2>7. plan[1] = DropShared(asked[1], Range(asked[2])) /\ plan[2] = DropShared(asked[2], Range(plan[1]))
    BY <2>3, <2>4, <2>5
  <2>8. Range(plan[1]) \cap Range(plan[2]) = {}
    BY <2>0, <2>6, <2>7, TwoDisjoint
  <2> QED
    BY <1>1, <1>3, <2>8 DEF Disjoint
<1> QED
  BY <1>2, <1>3

\* What the iterator skips in the first of two lists is removed from the second.
THEOREM TwoDoNotShare ==
  ASSUME LoopAssumption
  PROVE  Spec => []TwoShareNothing
<1>1. Init => Inv
  BY InvInit
<1>2. Inv /\ [Next]_vars => Inv'
  BY InvNext
<1>3. Inv => TwoShareNothing
  BY TwoAtEnd
<1> QED
  BY <1>1, <1>2, <1>3, PTL DEF Spec
================================================================================
