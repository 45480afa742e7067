--------------------------- MODULE ProvisionerProofs ---------------------------
(***************************************************************************)
(* What the provisioner's records are worth, for any number of allocations,*)
(* machines and restarts and any times: with one resource manager, timely  *)
(* clients and passes that are over before the next tick, a success that   *)
(* has not run out has the machines it names and is disturbed by nobody,   *)
(* and a record that is removed leaves none of its machines behind.        *)
(***************************************************************************)
EXTENDS Provisioner, HostSplitProofs

\* The conditions of the run prov_reservation, and calls that are given up besides.
TimelyWorld ==
  /\ \A r, s \in RMs : r = s
  /\ Clients \subseteq {"heartbeat", "release"}
  /\ Faults \subseteq {"abandon", "lost", "crash"}
  /\ Slow \subseteq {"fulfil"}

------------------------------------------------------------------------------
(* Types                                                                   *)

FulPcs == {"idle", "save", "find", "giveup", "mark", "ask", "call", "reply", "done"}

Fulfils == [pc : FulPcs, plan : Plans, k : Nat]

\* The position in the plan is one of it, or behind it.
InPlan(f) ==
  /\ f.k <= Len(f.plan) + 1
  /\ f.pc \in {"mark", "ask", "call"} => f.k >= 1
  /\ f.pc = "call" => f.k <= Len(f.plan)

Releases == [pc : {"idle", "call", "delete"}, todo : SUBSET Machines]

Passes ==
  [pc : {"sleep", "loop", "check", "expire"}, cur : Ids \cup {NoId}, todo : SUBSET Ids,
   snap : [Ids -> Records \cup {NoRec}]]

Tasks == [st : {"none", "running", "failed"}, todo : SUBSET Machines]

FulTyped ==
  /\ ful \in [Ids -> Fulfils]
  /\ \A i \in Ids : InPlan(ful[i])

UpdTyped ==
  /\ upd \in [Coroutines -> Updates \cup {NoUpd}]
  /\ \A p \in Coroutines : Updating(p) /\ upd[p].copy = NoRec => upd[p].kw \in Arguments

DmnTyped ==
  /\ dmn \in Passes
  /\ dmn.pc \in {"check", "expire"} => dmn.cur \in dmn.todo
  /\ \A i \in dmn.todo : dmn.snap[i] \in Records

Typed ==
  /\ alloc \in [Ids -> Records \cup {NoRec}]
  /\ rms \subseteq RMs
  /\ owner \in [Machines -> Ids \cup {Free}]
  /\ FulTyped
  /\ rel \in [Ids -> Releases]
  /\ UpdTyped
  /\ DmnTyped
  /\ task \in [Ids -> Tasks]
  /\ orphans \subseteq SUBSET Machines
  /\ \A c \in detached : c.id \in Ids

\* What a step leaves alone keeps its type.
LEMMA SameTyped ==
  /\ FulTyped /\ UNCHANGED ful => FulTyped'
  /\ UpdTyped /\ UNCHANGED upd => UpdTyped'
  /\ DmnTyped /\ UNCHANGED dmn => DmnTyped'
  BY DEF FulTyped, UpdTyped, DmnTyped, Updating

\* update_status changes the fields it is given and no others.
LEMMA UpdatedIs ==
  ASSUME ConstantsAssumption, NEW rec \in Records, NEW kw \in Arguments
  PROVE  /\ Updated(rec, kw) \in Records
         /\ Updated(rec, kw).status = kw.status
         /\ kw.status = "success" =>
              Updated(rec, kw).hw = kw.hw /\ Updated(rec, kw).left = kw.left
<1>1. DOMAIN rec = {"status", "left", "rm", "hw"}
  BY DEF Records
<1>2. "status" \in DOMAIN kw
  BY DEF Arguments
<1>3. Updated(rec, kw) =
        [status |-> kw.status,
         left |-> IF "left" \in DOMAIN kw THEN kw.left ELSE rec.left,
         rm |-> IF "rm" \in DOMAIN kw THEN kw.rm ELSE rec.rm,
         hw |-> IF "hw" \in DOMAIN kw THEN kw.hw ELSE rec.hw]
  BY <1>1, <1>2 DEF Updated
<1>4. /\ kw.status \in Statuses
      /\ "left" \in DOMAIN kw => kw.left \in Oldest..TTL
      /\ "rm" \in DOMAIN kw => kw.rm \in RMs
      /\ "hw" \in DOMAIN kw => kw.hw \subseteq Machines
      /\ kw.status = "success" => "left" \in DOMAIN kw /\ "hw" \in DOMAIN kw
  BY DEF Arguments, Statuses
<1> QED
  BY <1>3, <1>4 DEF Records

\* A tick changes `left` only.
LEMMA AgedRecord ==
  ASSUME ConstantsAssumption, NEW rec \in Records
  PROVE  /\ Aged(rec) \in Records
         /\ Aged(rec).status = rec.status /\ Aged(rec).hw = rec.hw
<1>1. DOMAIN rec = {"status", "left", "rm", "hw"}
  BY DEF Records
<1>2. Aged(rec) = [status |-> rec.status, left |-> Older(rec.left), rm |-> rec.rm, hw |-> rec.hw]
  BY <1>1 DEF Aged
<1>3. Older(rec.left) \in Oldest..TTL
  BY DEF Older, Oldest, ConstantsAssumption, Records
<1> QED
  BY <1>2, <1>3 DEF Records

\* A heartbeat changes `left` only.
LEMMA RenewedRecord ==
  ASSUME ConstantsAssumption, NEW rec \in Records
  PROVE  /\ [rec EXCEPT !.left = TTL] \in Records
         /\ [rec EXCEPT !.left = TTL].status = rec.status
         /\ [rec EXCEPT !.left = TTL].hw = rec.hw
         /\ [rec EXCEPT !.left = TTL].left = TTL
  BY DEF Records, Oldest, ConstantsAssumption

LEMMA AgedArguments ==
  ASSUME ConstantsAssumption, NEW kw \in Arguments
  PROVE  /\ Aged(kw) \in Arguments
         /\ Aged(kw).status = kw.status
         /\ kw.status = "success" => Aged(kw).hw = kw.hw
<1>1. CASE kw \in [status : Statuses \ {"success"}]
  BY <1>1 DEF Aged, Arguments
<1>2. CASE kw \in [status : {"allocating"}, rm : RMs]
  <2>1. Aged(kw) = [status |-> kw.status, rm |-> kw.rm]
    BY <1>2 DEF Aged
  <2> QED
    BY <1>2, <2>1 DEF Arguments
<1>3. CASE kw \in [status : {"success"}, left : Oldest..TTL, hw : SUBSET Machines]
  <2>1. Aged(kw) = [status |-> kw.status, left |-> Older(kw.left), hw |-> kw.hw]
    BY <1>3 DEF Aged
  <2>2. Older(kw.left) \in Oldest..TTL
    BY <1>3 DEF Older, Oldest, ConstantsAssumption
  <2> QED
    BY <1>3, <2>1, <2>2 DEF Arguments
<1> QED
  BY <1>1, <1>2, <1>3 DEF Arguments

\* Every coroutine is that of a fulfil, of a release, of a heartbeat, or the daemon's.
LEMMA CoroutineNames ==
  ASSUME ConstantsAssumption
  PROVE  /\ Daemon \in Coroutines
         /\ \A i \in Ids : /\ <<"ful", i>> \in Coroutines
                           /\ <<"rel", i>> \in Coroutines
                           /\ <<"hb", i>> \in Coroutines
         /\ \A p \in Coroutines :
              p = Daemon \/ \E i \in Ids : p \in {<<"ful", i>>, <<"rel", i>>, <<"hb", i>>}
  BY DEF Coroutines, Daemon, ConstantsAssumption

LEMMA PlanIs ==
  ASSUME NEW plan \in Plans
  PROVE  /\ Len(plan) \in Nat
         /\ \A k \in Nat : 1 <= k /\ k <= Len(plan) => plan[k].rm \in RMs
<1>1. Len(plan) \in Nat /\ \A k \in 1..Len(plan) : plan[k] \in [rm : RMs, hosts : SUBSET Range(HostOrder)]
  BY LenProperties DEF Plans
<1> QED
  BY <1>1

LEMMA NoPlan == << >> \in Plans /\ Len(<< >>) = 0
  BY EmptySeq DEF Plans

LEMMA TypedInit ==
  ASSUME ConstantsAssumption, Init
  PROVE  Typed
<1>1. upd = [p \in Coroutines |-> NoUpd]
  BY DEF Init
<1>2. FulTyped
  BY NoPlan DEF Init, FulTyped, Fulfils, FulPcs, InPlan
<1> QED
  BY <1>1, <1>2 DEF Init, Typed, Updating, Releases, Passes, Tasks, Asleep, NoTask, UpdTyped, DmnTyped

\* What a resource manager answers is a list of demanded hosts.
LEMMA AnswerIs ==
  ASSUME ConstantsAssumption, NEW r \in RMs, NEW i \in Ids
  PROVE  Answer(r, i) \in Seq(Range(HostOrder))
<1>1. HostOrder \in Seq(Range(HostOrder)) /\ Demands[i] \cap CanServe[r] \subseteq Range(HostOrder)
  BY DEF ConstantsAssumption
<1>2. Listing(HostOrder, Demands[i] \cap CanServe[r]) \in Seq(Demands[i] \cap CanServe[r])
  BY <1>1, ListingIs
<1> QED
  BY <1>1, <1>2, SeqMonotonic DEF Answer

\* The plan names the resource managers that have answered, with what the
\* loop has left of their lists.
PlanOf(order, i) ==
  [k \in DOMAIN order |->
     [rm |-> order[k], hosts |-> Range(Split([j \in DOMAIN order |-> Answer(order[j], i)])[k])]]

LEMMA PlanOfIs ==
  ASSUME ConstantsAssumption, NEW i \in Ids, NEW live \in SUBSET RMs, NEW order \in Orders(live)
  PROVE  PlanOf(order, i) \in Plans /\ Len(PlanOf(order, i)) = Cardinality(live)
<1> DEFINE n == Cardinality(live)
           asked == [j \in DOMAIN order |-> Answer(order[j], i)]
<1>1. n \in Nat
  BY FS_Subset, FS_CardinalityType DEF ConstantsAssumption
<1>2. order \in [1..n -> live] /\ DOMAIN order = 1..n
  BY DEF Orders
<1> HIDE DEF n
<1>3. asked \in [1..n -> Seq(Range(HostOrder))]
  BY <1>2, AnswerIs
<1>4. asked \in Seq(Seq(Range(HostOrder))) /\ Len(asked) = n
  BY <1>1, <1>3, SeqDef
<1> HIDE DEF asked
<1>5. Split(asked) \in Seq(Seq(Range(HostOrder))) /\ Len(Split(asked)) = n
  BY <1>4, SplitCovers
<1>6. \A k \in 1..n : Range(Split(asked)[k]) \subseteq Range(HostOrder)
  BY <1>5, LenProperties, RangeIs
<1>7. PlanOf(order, i) = [k \in 1..n |-> [rm |-> order[k], hosts |-> Range(Split(asked)[k])]]
  BY <1>2 DEF PlanOf, asked
<1>8. PlanOf(order, i) \in [1..n -> [rm : RMs, hosts : SUBSET Range(HostOrder)]]
  BY <1>2, <1>6, <1>7
<1> DEFINE p == PlanOf(order, i)
           T == [rm : RMs, hosts : SUBSET Range(HostOrder)]
<1>9. p \in [1..n -> T]
  BY <1>8
<1> HIDE DEF p, T
<1>10. p \in Seq(T) /\ Len(p) = n
  BY <1>1, <1>9, SeqDef
<1> QED
  BY <1>10 DEF n, p, T, Plans

\* The two fields of a fulfil that its steps assign.
SetPc(f, pc) == [f EXCEPT !.pc = pc]
SetK(f, k) == [f EXCEPT !.k = k]

LEMMA SetPcIs ==
  ASSUME NEW f \in Fulfils, NEW pc \in FulPcs
  PROVE  SetPc(f, pc) \in Fulfils /\ SetPc(f, pc).pc = pc /\ SetPc(f, pc).k = f.k
         /\ SetPc(f, pc).plan = f.plan
  BY DEF Fulfils, SetPc

LEMMA SetKIs ==
  ASSUME NEW f \in Fulfils, NEW k \in Nat
  PROVE  SetK(f, k) \in Fulfils /\ SetK(f, k).pc = f.pc /\ SetK(f, k).k = k
         /\ SetK(f, k).plan = f.plan
  BY DEF Fulfils, SetK

\* Steps that leave the plan.
LEMMA SetPcKeeps ==
  ASSUME NEW f \in Fulfils, InPlan(f), NEW pc \in FulPcs \ {"mark", "ask", "call"}
  PROVE  SetPc(f, pc) \in Fulfils /\ InPlan(SetPc(f, pc))
  BY SetPcIs DEF InPlan

LEMMA FindIs ==
  ASSUME ConstantsAssumption, Typed, NEW i \in Ids, FulfillFind(i)
  PROVE  /\ ful \in [Ids -> Fulfils]
         /\ \/ \E live \in SUBSET RMs : \E order \in Orders(live) :
                 ful' = [ful EXCEPT ![i] = [pc |-> "mark", k |-> 1, plan |-> PlanOf(order, i)]]
            \/ GoTo(i, "giveup")
<1>1. PICK live \in SUBSET {r \in rms : Answer(r, i) # <<>> /\ ~Missing(i)} :
        \E order \in Orders(live) :
          LET asked == [k \in DOMAIN order |-> Answer(order[k], i)]
              split == Split(asked)
          IN  IF Possible(asked, i)
              THEN ful' = [ful EXCEPT ![i] =
                     [pc |-> "mark", k |-> 1,
                      plan |-> [k \in DOMAIN order |->
                                  [rm |-> order[k], hosts |-> Range(split[k])]]]]
              ELSE GoTo(i, "giveup")
  BY Zenon DEF FulfillFind
<1>2. live \in SUBSET RMs
  BY DEF Typed
<1>3. \/ \E order \in Orders(live) :
            ful' = [ful EXCEPT ![i] = [pc |-> "mark", k |-> 1, plan |-> PlanOf(order, i)]]
      \/ GoTo(i, "giveup")
  BY <1>1, Zenon DEF PlanOf
<1> QED
  BY <1>2, <1>3, Zenon DEF Typed, FulTyped

LEMMA FindTyped ==
  ASSUME ConstantsAssumption, Typed, NEW i \in Ids, FulfillFind(i)
  PROVE  FulTyped' /\ \A j \in Ids \ {i} : ful'[j] = ful[j]
<1>0. ful \in [Ids -> Fulfils] /\ \A j \in Ids : InPlan(ful[j])
  BY DEF Typed, FulTyped
<1>1. ASSUME NEW live \in SUBSET RMs, NEW order \in Orders(live),
             ful' = [ful EXCEPT ![i] = [pc |-> "mark", k |-> 1, plan |-> PlanOf(order, i)]]
      PROVE  FulTyped' /\ \A j \in Ids \ {i} : ful'[j] = ful[j]
  <2> DEFINE f == [pc |-> "mark", k |-> 1, plan |-> PlanOf(order, i)]
  <2>1. PlanOf(order, i) \in Plans /\ Len(PlanOf(order, i)) \in Nat
    BY PlanOfIs, PlanIs
  <2>2. f \in Fulfils /\ InPlan(f)
    BY <2>1 DEF Fulfils, FulPcs, InPlan
  <2>3. ful' = [ful EXCEPT ![i] = f]
    BY <1>1
  <2> HIDE DEF f
  <2> QED
    BY <1>0, <2>2, <2>3 DEF FulTyped
<1>2. CASE GoTo(i, "giveup")
  <2>1. ful' = [ful EXCEPT ![i].pc = "giveup"]
    BY <1>2 DEF GoTo
  <2>2. [ful[i] EXCEPT !.pc = "giveup"] \in Fulfils /\ InPlan([ful[i] EXCEPT !.pc = "giveup"])
    <3>1. SetPc(ful[i], "giveup") \in Fulfils /\ InPlan(SetPc(ful[i], "giveup"))
      BY <1>0, SetPcKeeps DEF FulPcs
    <3> QED
      BY <3>1 DEF SetPc
  <2> QED
    BY <1>0, <2>1, <2>2 DEF FulTyped
<1> QED
  BY <1>1, <1>2, FindIs

\* The values that steps assign.
LEMMA ValueTypes ==
  ASSUME ConstantsAssumption
  PROVE  /\ Request \in Records
         /\ NoTask \in Tasks
         /\ Asleep \in Passes /\ Asleep.pc = "sleep" /\ Asleep.todo = {}
         /\ [pc |-> "idle", todo |-> {}] \in Releases
         /\ \A pc \in {"done", "save"} :
              /\ [pc |-> pc, plan |-> <<>>, k |-> 0] \in Fulfils
              /\ InPlan([pc |-> pc, plan |-> <<>>, k |-> 0])
<1>1. << >> \in Plans /\ Len(<< >>) = 0
  BY NoPlan
<1>2. TTL \in Oldest..TTL
  BY DEF Oldest, ConstantsAssumption
<1>3. Request \in Records
  BY <1>2 DEF Request, Records, Statuses
<1> QED
  BY <1>1, <1>3 DEF NoTask, Tasks, Asleep, Passes, Releases, Fulfils, FulPcs, InPlan

LEMMA BeginTyped ==
  ASSUME ConstantsAssumption, Typed, NEW p \in Coroutines, NEW i \in Ids, NEW kw \in Arguments,
         Begin(p, i, kw)
  PROVE  UpdTyped'
  BY DEF Typed, Begin, Updates, Updating, UpdTyped

LEMMA FulfilTyped ==
  ASSUME Typed, NEW i \in Ids, NEW f \in Fulfils,
         InPlan(f), ful' = [ful EXCEPT ![i] = f]
  PROVE  FulTyped'
  BY DEF Typed, FulTyped

LEMMA FulfillTyped ==
  ASSUME ConstantsAssumption, NullAssumption, Typed, NEW i \in Ids, FulfillStep(i)
  PROVE  Typed'
<1> USE ValueTypes, CoroutineNames, SameTyped
<1>0. /\ ful \in [Ids -> Fulfils] /\ ful[i] \in Fulfils /\ InPlan(ful[i])
      /\ ful[i].plan \in Plans /\ ful[i].k \in Nat /\ Len(ful[i].plan) \in Nat
  BY PlanIs DEF Typed, FulTyped, Fulfils
<1>1. CASE FulfillStart(i)
  BY <1>1 DEF Typed, FulTyped, FulfillStart
<1>2. CASE FulfillSave(i)
  <2>1. ful' = [ful EXCEPT ![i] = SetPc(ful[i], "find")]
    BY <1>2 DEF FulfillSave, GoTo, SetPc
  <2>2. FulTyped'
    BY <1>0, <2>1, SetPcKeeps, FulfilTyped DEF FulPcs
  <2> QED
    BY <1>2, <2>2 DEF Typed, FulfillSave, Save
<1>3. CASE FulfillFind(i)
  <2>1. FulTyped'
    BY <1>3, FindTyped DEF Typed, FulTyped
  <2> QED
    BY <1>3, <2>1 DEF Typed, FulfillFind
<1>4. CASE FulfillGiveUp(i)
  BY <1>4 DEF Typed, FulfillGiveUp, FulDies, Delete, Save, FulTyped
<1>5. CASE FulfillMark(i)
  <2>1. CASE /\ ful[i].k <= Len(ful[i].plan)
             /\ Begin(<<"ful", i>>, i, [status |-> "allocating", rm |-> ful[i].plan[ful[i].k].rm])
             /\ ful' = [ful EXCEPT ![i].k = ful[i].k + 1]
    <3>1. ful[i].plan[ful[i].k].rm \in RMs
      BY <1>0, <1>5, <2>1, PlanIs DEF FulfillMark, At, InPlan
    <3>2. [status |-> "allocating", rm |-> ful[i].plan[ful[i].k].rm] \in Arguments
      BY <3>1 DEF Arguments
    <3>3. FulTyped'
      <4>1. ful[i].pc = "mark" /\ ful[i].k >= 1
        BY <1>0, <1>5 DEF FulfillMark, At, InPlan
      <4> DEFINE f == SetK(ful[i], ful[i].k + 1)
      <4>2. ful' = [ful EXCEPT ![i] = f]
        BY <2>1 DEF SetK
      <4>3. ful[i].k + 1 \in Nat /\ ful[i].k + 1 >= 1 /\ ful[i].k + 1 <= Len(ful[i].plan) + 1
        BY <1>0, <2>1
      <4>4. f \in Fulfils /\ InPlan(f)
        BY <1>0, <4>1, <4>3, SetKIs, ZenonT(40) DEF InPlan
      <4> HIDE DEF f
      <4> QED
        BY <4>2, <4>4, FulfilTyped
    <3> QED
      BY <1>5, <2>1, <3>2, <3>3, BeginTyped DEF Typed, FulfillMark
  <2>2. CASE ful' = [ful EXCEPT ![i].k = 1, ![i].pc = "ask"] /\ UNCHANGED upd
    <3>1. FulTyped'
      <4>1. ful[i] \in Fulfils
        BY DEF Typed, FulTyped
      <4> DEFINE f == SetPc(SetK(ful[i], 1), "ask")
      <4>2. ful' = [ful EXCEPT ![i] = f]
        BY <2>2, <4>1 DEF Typed, SetPc, SetK, FulTyped
      <4>3. /\ SetK(ful[i], 1) \in Fulfils /\ SetK(ful[i], 1).k = 1 /\ "ask" \in FulPcs
            /\ SetK(ful[i], 1).plan = ful[i].plan
        BY <4>1, SetKIs, 1 \in Nat DEF FulPcs
      <4>4. f \in Fulfils /\ InPlan(f)
        BY <1>0, <4>3, SetPcIs DEF InPlan
      <4> HIDE DEF f
      <4> QED
        BY <4>2, <4>4, FulfilTyped
    <3> QED
      BY <1>5, <2>2, <3>1 DEF Typed, FulfillMark
  <2> QED
    BY <1>5, <2>1, <2>2 DEF FulfillMark
<1>6. CASE FulfillAsk(i)
  <2>1. FulTyped'
    <3>1. ful[i].pc = "ask" /\ ful[i].k >= 1
      BY <1>0, <1>6 DEF FulfillAsk, At, InPlan
    <3>2. CASE FulDies(i)
      BY <3>2 DEF Typed, FulDies, FulTyped
    <3>3. CASE GoTo(i, "reply") \/ (GoTo(i, "call") /\ ful[i].k <= Len(ful[i].plan))
      <4>1. PICK pc \in {"reply", "call"} :
              /\ ful' = [ful EXCEPT ![i] = SetPc(ful[i], pc)]
              /\ pc = "call" => ful[i].k <= Len(ful[i].plan)
        BY <3>3 DEF GoTo, SetPc
      <4>2. SetPc(ful[i], pc) \in Fulfils /\ InPlan(SetPc(ful[i], pc))
        BY <1>0, <3>1, <4>1, SetPcIs DEF FulPcs, InPlan
      <4> QED
        BY <4>1, <4>2, FulfilTyped
    <3> QED
      BY <1>6, <3>2, <3>3 DEF FulfillAsk
  <2> QED
    BY <1>6, <2>1 DEF Typed, FulfillAsk
<1>7. CASE FulfillCall(i)
  <2> DEFINE to == ful[i].plan[ful[i].k]
             n  == Cardinality(to.hosts)
  <2>1. CASE \E ms \in Grants(to.rm, n) :
               Assign(ms, i) /\ Begin(<<"ful", i>>, i, Fulfilled(ms))
               /\ ful' = [ful EXCEPT ![i].pc = "ask", ![i].k = @ + 1] /\ UNCHANGED detached
    <3>1. PICK ms \in Grants(to.rm, n) :
               Assign(ms, i) /\ Begin(<<"ful", i>>, i, Fulfilled(ms))
               /\ ful' = [ful EXCEPT ![i].pc = "ask", ![i].k = @ + 1] /\ UNCHANGED detached
      BY <2>1
    <3>2. ms \subseteq Machines
      BY DEF Grants
    <3>3. Fulfilled(ms) \in Arguments
      BY <3>2 DEF Fulfilled, Arguments, Oldest, ConstantsAssumption
    <3>4. owner' \in [Machines -> Ids \cup {Free}]
      BY <3>1 DEF Assign, Typed
    <3>5. FulTyped'
      <4>1. ful[i].pc = "call" /\ ful[i].k <= Len(ful[i].plan)
        BY <1>0, <1>7 DEF FulfillCall, At, InPlan
      <4> DEFINE f == SetK(SetPc(ful[i], "ask"), ful[i].k + 1)
      <4>2. ful' = [ful EXCEPT ![i] = f]
        BY <3>1, <4>1 DEF Typed, SetPc, SetK, FulTyped
      <4>3. /\ ful[i].k + 1 \in Nat /\ ful[i].k + 1 >= 1 /\ "ask" \in FulPcs
            /\ ful[i].k + 1 <= Len(ful[i].plan) + 1
        BY <1>0, <4>1 DEF FulPcs
      <4>4. f \in Fulfils /\ InPlan(f)
        <5>1. /\ SetPc(ful[i], "ask") \in Fulfils /\ SetPc(ful[i], "ask").pc = "ask"
              /\ SetPc(ful[i], "ask").plan = ful[i].plan
          BY <1>0, <4>3, SetPcIs
        <5> QED
          BY <4>3, <5>1, SetKIs, ZenonT(40) DEF InPlan
      <4> HIDE DEF f
      <4> QED
        BY <4>2, <4>4, FulfilTyped
    <3> QED
      BY <1>7, <3>1, <3>3, <3>4, <3>5, BeginTyped DEF Typed, FulfillCall
  <2>2. CASE \E st \in {"cancelled", "exception"} :
               /\ Begin(<<"ful", i>>, i, [status |-> st]) /\ GoTo(i, "reply") /\ UNCHANGED owner
               /\ detached' \in {detached, detached \cup {[id |-> i, rm |-> to.rm, n |-> n]}}
    <3>1. PICK st \in {"cancelled", "exception"} :
               /\ Begin(<<"ful", i>>, i, [status |-> st]) /\ GoTo(i, "reply") /\ UNCHANGED owner
               /\ detached' \in {detached, detached \cup {[id |-> i, rm |-> to.rm, n |-> n]}}
      BY <2>2
    <3>2. [status |-> st] \in Arguments
      BY DEF Arguments, Statuses
    <3>3. FulTyped'
      <4>1. ful' = [ful EXCEPT ![i] = SetPc(ful[i], "reply")]
        BY <3>1 DEF GoTo, SetPc
      <4> QED
        BY <1>0, <4>1, SetPcKeeps, FulfilTyped DEF FulPcs
    <3>4. \A c \in detached' : c.id \in Ids
      BY <3>1 DEF Typed
    <3> QED
      BY <1>7, <3>1, <3>2, <3>3, <3>4, BeginTyped DEF Typed, FulfillCall
  <2> QED
    BY <1>7, <2>1, <2>2 DEF FulfillCall
<1>8. CASE FulfillReply(i)
  BY <1>8 DEF Typed, FulfillReply, FulDies, FulTyped
<1>9. CASE FulfillCancelled(i)
  BY <1>9 DEF Typed, FulfillCancelled, FulDies, FulTyped, UpdTyped, Updating
<1> QED
  BY <1>1, <1>2, <1>3, <1>4, <1>5, <1>6, <1>7, <1>8, <1>9 DEF FulfillStep

LEMMA ReleaseTyped ==
  ASSUME ConstantsAssumption, NullAssumption, Typed, NEW i \in Ids,
         ReleaseStep(i) \/ HeartbeatRead(i)
  PROVE  Typed'
<1> USE ValueTypes, CoroutineNames, SameTyped
<1>1. CASE ReleaseStart(i)
  <2>1. alloc[i].hw \subseteq Machines
    BY <1>1 DEF Typed, ReleaseStart, Missing, Records
  <2>2. rel' \in [Ids -> Releases]
    BY <1>1, <2>1 DEF Typed, ReleaseStart, Releases
  <2> QED
    BY <1>1, <2>2 DEF Typed, ReleaseStart
<1>2. CASE ReleaseCall(i)
  <2>1. PICK m \in rel[i].todo :
          /\ FreeMachine(m) \/ UNCHANGED owner
          /\ rel' = [rel EXCEPT ![i].todo = @ \ {m}] \/ RelEnds(i)
    BY <1>2 DEF ReleaseCall
  <2>2. rel' \in [Ids -> Releases]
    <3>1. CASE rel' = [rel EXCEPT ![i].todo = @ \ {m}]
      BY <3>1, SMTT(30) DEF Typed, Releases
    <3>2. CASE RelEnds(i)
      BY <3>2 DEF Typed, RelEnds
    <3> QED
      BY <2>1, <3>1, <3>2
  <2>3. owner' \in [Machines -> Ids \cup {Free}]
    BY <2>1 DEF Typed, FreeMachine
  <2> QED
    BY <1>2, <2>2, <2>3 DEF Typed, ReleaseCall
<1>3. CASE ReleaseMark(i)
  <2>1. rel' \in [Ids -> Releases]
    BY <1>3 DEF Typed, Releases, ReleaseMark
  <2>2. [status |-> "deallocated"] \in Arguments
    BY DEF Arguments, Statuses
  <2> QED
    BY <1>3, <2>1, <2>2, BeginTyped DEF Typed, ReleaseMark
<1>4. CASE ReleaseDelete(i)
  BY <1>4 DEF Typed, ReleaseDelete, Delete, Save, RelEnds
<1>5. CASE HeartbeatRead(i)
  <2>1. [alloc[i] EXCEPT !.left = TTL] \in Records
    BY <1>5, RenewedRecord DEF Typed, HeartbeatRead, Missing
  <2>2. UpdTyped'
    BY <1>5, <2>1 DEF Typed, UpdTyped, HeartbeatRead, Updates, Updating, NullAssumption
  <2> QED
    BY <1>5, <2>2 DEF Typed, HeartbeatRead
<1> QED
  BY <1>1, <1>2, <1>3, <1>4, <1>5 DEF ReleaseStep

LEMMA UpdateTyped ==
  ASSUME ConstantsAssumption, NullAssumption, Typed, NEW p \in Coroutines,
         UpdateRead(p) \/ UpdateWrite(p)
  PROVE  Typed'
<1> USE ValueTypes, CoroutineNames, SameTyped
<1> DEFINE i == upd[p].id
<1>0. Updating(p) /\ i \in Ids /\ upd[p] \in Updates
  BY DEF UpdateRead, UpdateWrite, Updating, Typed, Updates, UpdTyped
<1>1. CASE UpdateRead(p) /\ Missing(i)
  <2>1. UpdTyped' /\ Dies(p)
    <3>1. upd' = [upd EXCEPT ![p] = NoUpd] /\ Dies(p)
      BY <1>1 DEF UpdateRead
    <3>2. UpdTyped'
      BY <3>1 DEF Typed, UpdTyped, Updating
    <3> QED
      BY <3>1, <3>2
  <2>2. FulTyped'
    <3>1. CASE UNCHANGED ful
      BY <3>1 DEF Typed, FulTyped
    <3>2. CASE FulDies(p[2])
      BY <3>2 DEF Typed, FulDies, FulTyped
    <3> QED
      BY <2>1, <3>1, <3>2 DEF Dies
  <2>3. rel' \in [Ids -> Releases]
    BY <2>1 DEF Dies, Typed, RelEnds
  <2>4. dmn' \in {dmn, Asleep} /\ task' \in [Ids -> Tasks] /\ orphans' \subseteq SUBSET Machines
    <3>1. \A j \in Ids : task[j].todo \subseteq Machines
      BY DEF Typed, Tasks
    <3> QED
      BY <2>1, <3>1 DEF Dies, Typed, PassAborts
  <2>5. DmnTyped'
    BY <2>4 DEF Typed, DmnTyped
  <2> QED
    BY <1>1, <2>1, <2>2, <2>3, <2>4, <2>5 DEF UpdateRead, Typed
<1>2. CASE UpdateRead(p) /\ ~Missing(i)
  <2>1. upd[p].kw \in Arguments /\ upd[p].copy = NoRec
    BY <1>0, <1>2 DEF UpdateRead, Typed, UpdTyped
  <2>2. Updated(alloc[i], upd[p].kw) \in Records
    BY <1>0, <1>2, <2>1, UpdatedIs DEF Typed, Missing
  <2>3. upd' = [upd EXCEPT ![p] = [id |-> i, kw |-> << >>, copy |-> Updated(alloc[i], upd[p].kw)]]
    BY <1>0, <1>2 DEF UpdateRead, Typed
  <2>4. UpdTyped'
    BY <1>0, <2>2, <2>3 DEF Typed, UpdTyped, Updates, Updating, NullAssumption
  <2> QED
    BY <1>2, <2>4 DEF UpdateRead, Typed
<1>3. CASE UpdateWrite(p)
  <2>1. upd[p].copy \in Records
    BY <1>0, <1>3 DEF UpdateWrite, Updates
  <2>2. alloc' \in [Ids -> Records \cup {NoRec}]
    BY <1>0, <1>3, <2>1 DEF UpdateWrite, Save, Typed
  <2>3. UpdTyped'
    BY <1>3 DEF UpdateWrite, Typed, UpdTyped, Updating
  <2> QED
    BY <1>3, <2>2, <2>3 DEF UpdateWrite, Typed
<1> QED
  BY <1>1, <1>2, <1>3

LEMMA PassTyped ==
  ASSUME ConstantsAssumption, NullAssumption, Typed, PassStep
  PROVE  Typed'
<1> USE ValueTypes, CoroutineNames, SameTyped
<1>1. CASE PassStart
  <2>1. DmnTyped'
    BY <1>1 DEF Typed, PassStart, Passes, Missing, DmnTyped
  <2> QED
    BY <1>1, <2>1 DEF Typed, PassStart
<1>2. ASSUME NEW i \in dmn.todo, Through(i)
      PROVE  DmnTyped'
  BY <1>2 DEF Typed, Through, Passes, DmnTyped
<1>3. ASSUME NEW i \in dmn.todo, NEW pc \in {"check", "expire"}, Stay(i, pc)
      PROVE  DmnTyped'
  BY <1>3 DEF Typed, Stay, Passes, DmnTyped
<1>4. ASSUME NEW i \in Ids, PassLook(i)
      PROVE  Typed'
  <2>1. i \in dmn.todo
    BY <1>4 DEF PassLook
  <2>2. DmnTyped'
    BY <1>2, <1>3, <1>4, <2>1 DEF PassLook
  <2>3. alloc' \in [Ids -> Records \cup {NoRec}]
    BY <1>4 DEF PassLook, Typed, Delete, Save
  <2> QED
    BY <1>4, <2>2, <2>3 DEF Typed, PassLook
<1>5. CASE PassCheck
  <2> DEFINE i == dmn.cur
             held == {m \in OwnedBy(i) : Home[m] = dmn.snap[i].rm}
  <2>1. i \in dmn.todo /\ i \in Ids
    BY <1>5 DEF PassCheck, DmnAt, Typed, Passes, DmnTyped
  <2>2. DmnTyped'
    BY <1>2, <1>3, <1>5, <2>1 DEF PassCheck
  <2>3. Fulfilled(held) \in Arguments /\ [status |-> "unknown"] \in Arguments
    BY DEF Fulfilled, Arguments, Statuses, Oldest, ConstantsAssumption, OwnedBy
  <2>4. UpdTyped'
    <3>1. CASE UNCHANGED upd
      BY <3>1 DEF Typed
    <3>2. CASE \E kw \in Arguments : Begin(Daemon, i, kw)
      BY <2>1, <3>2, BeginTyped
    <3> QED
      BY <1>5, <2>3, <3>1, <3>2 DEF PassCheck
  <2> QED
    BY <1>5, <2>2, <2>4 DEF Typed, PassCheck
<1>6. CASE PassExpire
  <2> DEFINE i == dmn.cur
             s == dmn.snap[i]
  <2>1. i \in dmn.todo /\ i \in Ids /\ s \in Records
    BY <1>6 DEF PassExpire, DmnAt, Typed, Passes, DmnTyped
  <2>2. DmnTyped'
    BY <1>2, <1>6, <2>1 DEF PassExpire
  <2>3. /\ [s EXCEPT !.status = "deallocating"] \in Records
        /\ [st |-> "running", todo |-> s.hw] \in Tasks
    BY <2>1 DEF Records, Statuses, Tasks
  <2>4. alloc' \in [Ids -> Records \cup {NoRec}]
    BY <1>6, <2>3 DEF PassExpire, Typed, RemoveImproper, Delete, Save
  <2>5. task' \in [Ids -> Tasks]
    BY <1>6, <2>3 DEF PassExpire, Typed
  <2> QED
    BY <1>6, <2>2, <2>4, <2>5 DEF Typed, PassExpire
<1>7. ASSUME NEW i \in Ids, PassAwait(i)
      PROVE  Typed'
  <2>1. [status |-> "error_deallocating"] \in Arguments
    BY DEF Arguments, Statuses
  <2>2. UpdTyped'
    <3>1. CASE UNCHANGED upd
      BY <3>1 DEF Typed
    <3>2. CASE Begin(Daemon, i, [status |-> "error_deallocating"])
      BY <2>1, <3>2, BeginTyped
    <3> QED
      BY <1>7, <3>1, <3>2 DEF PassAwait
  <2>3. alloc' \in [Ids -> Records \cup {NoRec}]
    BY <1>7 DEF PassAwait, Typed, Delete, Save
  <2> QED
    BY <1>7, <2>2, <2>3 DEF Typed, PassAwait
<1>8. CASE PassEnd
  <2>1. DmnTyped'
    BY <1>8 DEF Typed, PassEnd, DmnTyped
  <2> QED
    BY <1>8, <2>1 DEF Typed, PassEnd
<1> QED
  BY <1>1, <1>4, <1>5, <1>6, <1>7, <1>8 DEF PassStep

LEMMA TaskTyped ==
  ASSUME ConstantsAssumption, Typed,
         \/ \E i \in Ids : TaskFrees(i) \/ TaskFails(i)
         \/ \E ms \in orphans : OrphanRuns(ms)
         \/ \E c \in detached : DetachedRuns(c)
         \/ \E r \in RMs : Register(r)
  PROVE  Typed'
<1> USE SameTyped
<1>0. ASSUME NEW m, FreeMachine(m)
      PROVE  owner' \in [Machines -> Ids \cup {Free}]
  BY <1>0 DEF FreeMachine, Typed
<1>1. ASSUME NEW i \in Ids, TaskFrees(i)
      PROVE  Typed'
  <2>1. task' \in [Ids -> Tasks]
    BY <1>1 DEF Typed, TaskFrees, Tasks
  <2> QED
    BY <1>0, <1>1, <2>1 DEF Typed, TaskFrees
<1>2. ASSUME NEW i \in Ids, TaskFails(i)
      PROVE  Typed'
  <2>1. task' \in [Ids -> Tasks]
    BY <1>2 DEF Typed, TaskFails, Tasks
  <2>2. owner' \in [Machines -> Ids \cup {Free}]
    BY <1>0, <1>2 DEF Typed, TaskFails
  <2> QED
    BY <1>2, <2>1, <2>2 DEF Typed, TaskFails
<1>3. ASSUME NEW ms \in orphans, OrphanRuns(ms)
      PROVE  Typed'
  <2>1. orphans' \subseteq SUBSET Machines
    BY <1>3 DEF Typed, OrphanRuns
  <2>2. owner' \in [Machines -> Ids \cup {Free}]
    BY <1>0, <1>3 DEF Typed, OrphanRuns
  <2> QED
    BY <1>3, <2>1, <2>2 DEF Typed, OrphanRuns
<1>4. ASSUME NEW c \in detached, DetachedRuns(c)
      PROVE  Typed'
  <2>1. owner' \in [Machines -> Ids \cup {Free}]
    BY <1>4 DEF Typed, DetachedRuns, Assign
  <2> QED
    BY <1>4, <2>1 DEF Typed, DetachedRuns
<1>5. ASSUME NEW r \in RMs, Register(r)
      PROVE  Typed'
  BY <1>5 DEF Typed, Register
<1> QED
  BY <1>1, <1>2, <1>3, <1>4, <1>5

\* A write under way, one tick later.
AgedUpdate(u) == [u EXCEPT !.kw = Aged(u.kw), !.copy = AgedRec(u.copy)]

LEMMA AgedUpdateIs ==
  ASSUME ConstantsAssumption, NullAssumption, NEW u \in Updates,
         u.copy = NoRec => u.kw \in Arguments
  PROVE  /\ AgedUpdate(u) \in Updates
         /\ AgedUpdate(u).id = u.id
         /\ AgedUpdate(u).copy = AgedRec(u.copy)
         /\ AgedUpdate(u).copy = NoRec <=> u.copy = NoRec
         /\ u.copy = NoRec => AgedUpdate(u).kw = Aged(u.kw) /\ AgedUpdate(u).kw \in Arguments
<1>1. Aged(u.kw) \in Arguments \cup {<< >>}
  <2>1. CASE u.kw \in Arguments
    BY <2>1, AgedArguments
  <2>2. CASE u.kw = << >>
    BY <2>2 DEF Aged
  <2> QED
    BY <2>1, <2>2 DEF Updates
<1>2. /\ AgedRec(u.copy) \in Records \cup {NoRec}
      /\ AgedRec(u.copy) = NoRec <=> u.copy = NoRec
  BY AgedRecord DEF AgedRec, Updates, NullAssumption
<1>3. AgedUpdate(u) = [id |-> u.id, kw |-> Aged(u.kw), copy |-> AgedRec(u.copy)]
  <2> DEFINE v == [u EXCEPT !.kw = Aged(u.kw)]
  <2>1. v = [id |-> u.id, kw |-> Aged(u.kw), copy |-> u.copy]
    BY DEF Updates
  <2>2. AgedUpdate(u) = [v EXCEPT !.copy = AgedRec(u.copy)]
    BY DEF AgedUpdate
  <2>3. v \in [id : Ids, kw : {Aged(u.kw)}, copy : Records \cup {NoRec}]
    BY <2>1 DEF Updates
  <2>4. v.id = u.id /\ v.kw = Aged(u.kw)
    BY <2>1
  <2> HIDE DEF v
  <2> QED
    BY <2>2, <2>3, <2>4
<1>4. u.id \in Ids
  BY DEF Updates
<1>5. u.copy = NoRec => Aged(u.kw) \in Arguments
  BY AgedArguments
<1> QED
  BY <1>1, <1>2, <1>3, <1>4, <1>5 DEF Updates

LEMMA TickTyped ==
  ASSUME ConstantsAssumption, NullAssumption, Typed, Tick
  PROVE  Typed'
<1>1. \A r \in Records \cup {NoRec} : AgedRec(r) \in Records \cup {NoRec}
  BY AgedRecord DEF AgedRec
<1>2. alloc' \in [Ids -> Records \cup {NoRec}]
  BY <1>1 DEF Typed, Tick
<1>3. DmnTyped'
  <2>1. [i \in Ids |-> AgedRec(dmn.snap[i])] \in [Ids -> Records \cup {NoRec}]
    BY <1>1 DEF Typed, DmnTyped, Passes
  <2>2. dmn' = [dmn EXCEPT !.snap = [i \in Ids |-> AgedRec(dmn.snap[i])]]
    BY DEF Tick
  <2>3. \A i \in dmn.todo : AgedRec(dmn.snap[i]) \in Records
    BY AgedRecord DEF AgedRec, Typed, DmnTyped, NullAssumption
  <2>4. dmn.todo \subseteq Ids
    BY DEF Typed, DmnTyped, Passes
  <2> HIDE DEF Tick
  <2> QED
    BY <2>1, <2>2, <2>3, <2>4 DEF Typed, DmnTyped, Passes
<1>4. UpdTyped'
  <2>1. upd' = [p \in Coroutines |-> IF upd[p] = NoUpd THEN NoUpd ELSE AgedUpdate(upd[p])]
    BY DEF Tick, AgedUpdate
  <2>2. ASSUME NEW p \in Coroutines
        PROVE  /\ upd'[p] \in Updates \cup {NoUpd}
               /\ upd'[p] # NoUpd /\ upd'[p].copy = NoRec => upd'[p].kw \in Arguments
    <3>1. upd[p] = NoUpd \/ (upd[p] \in Updates /\ (upd[p].copy = NoRec => upd[p].kw \in Arguments))
      <4>1. upd \in [Coroutines -> Updates \cup {NoUpd}]
        BY DEF Typed, UpdTyped
      <4>2. upd[p] # NoUpd /\ upd[p].copy = NoRec => upd[p].kw \in Arguments
        BY DEF Typed, UpdTyped, Updating
      <4> QED
        BY <4>1, <4>2
    <3> QED
      BY <2>1, <3>1, AgedUpdateIs
  <2>3. DOMAIN upd' = Coroutines /\ upd' = [p \in Coroutines |-> upd'[p]]
    BY <2>1
  <2> QED
    BY <2>2, <2>3 DEF UpdTyped, Updating
<1> QED
  BY <1>2, <1>3, <1>4, SameTyped DEF Typed, Tick

LEMMA CrashTyped ==
  ASSUME ConstantsAssumption, NullAssumption, Typed, Crash
  PROVE  Typed'
<1>1. FulTyped'
  BY ValueTypes DEF Typed, FulTyped, Crash
<1>2. UpdTyped'
  BY DEF Typed, UpdTyped, Crash, Updating
<1>3. DmnTyped'
  BY ValueTypes DEF DmnTyped, Crash
<1>4. rel' \in [Ids -> Releases] /\ task' \in [Ids -> Tasks]
  BY ValueTypes DEF Crash
<1>5. \A c \in detached' : c.id \in Ids
  BY DEF Typed, Crash
<1> QED
  BY <1>1, <1>2, <1>3, <1>4, <1>5 DEF Typed, Crash

LEMMA TypedNext ==
  ASSUME ConstantsAssumption, NullAssumption, Typed, [Next]_vars
  PROVE  Typed'
<1>1. CASE UNCHANGED vars
  BY <1>1, SameTyped DEF vars, Typed
<1>2. CASE Next
  BY <1>2, FulfillTyped, ReleaseTyped, UpdateTyped, PassTyped, TaskTyped, CrashTyped, TickTyped
  DEF Next
<1> QED
  BY <1>1, <1>2

------------------------------------------------------------------------------
(* The inductive invariant                                                 *)

\* One resource manager makes short plans.
Short == \A i \in Ids : Len(ful[i].plan) <= 1

\* Advancing in a plan, or in its loops, leaves the plan alone.
LEMMA PlanKept ==
  ASSUME ful \in [Ids -> Fulfils], NEW i \in Ids, NEW f \in Fulfils, f.plan = ful[i].plan,
         ful' = [ful EXCEPT ![i] = f]
  PROVE  \A j \in Ids : ful'[j].plan = ful[j].plan
<1>1. ASSUME NEW j \in Ids
      PROVE  ful'[j] = IF j = i THEN f ELSE ful[j]
  OBVIOUS
<1> QED
  BY <1>1

LEMMA ShortNext ==
  ASSUME ConstantsAssumption, TimelyWorld, Typed, Short, [Next]_vars
  PROVE  Short'
<1>0. ful \in [Ids -> Fulfils]
  BY DEF Typed, FulTyped
<1>1. ASSUME NEW i \in Ids, FulfillFind(i)
      PROVE  Short'
  <2>1. ASSUME NEW live \in SUBSET RMs, NEW order \in Orders(live),
               ful' = [ful EXCEPT ![i] = [pc |-> "mark", k |-> 1, plan |-> PlanOf(order, i)]]
        PROVE  Short'
    <3>1. Cardinality(live) <= 1
      <4>1. live = {} \/ \E r \in live : live = {r}
        BY DEF TimelyWorld
      <4>2. Cardinality(live) = 0 \/ Cardinality(live) = 1
        BY <4>1, FS_EmptySet, FS_Singleton
      <4> QED
        BY <4>2
    <3>2. Len(PlanOf(order, i)) <= 1
      BY <3>1, PlanOfIs
    <3> QED
      BY <1>0, <2>1, <3>2 DEF Short
  <2>2. CASE GoTo(i, "giveup")
    BY <1>0, <2>2 DEF Short, GoTo
  <2> QED
    BY <1>1, <2>1, <2>2, FindIs
<1>2. ASSUME NEW i \in Ids, FulfillMark(i) \/ FulfillAsk(i) \/ FulfillCall(i) \/ FulfillSave(i)
      PROVE  Short'
  <2>1. ASSUME NEW j \in Ids
        PROVE  ful'[j].plan = ful[j].plan \/ ful'[j].plan = << >>
    <3>1. CASE FulfillMark(i)
      <4>1. \/ ful' = [ful EXCEPT ![i] = SetK(ful[i], ful[i].k + 1)]
            \/ ful' = [ful EXCEPT ![i] = SetPc(SetK(ful[i], 1), "ask")]
        BY <1>0, <3>1 DEF FulfillMark, SetK, SetPc
      <4>2. ful[i] \in Fulfils /\ ful[i].k + 1 \in Nat /\ "ask" \in FulPcs
        BY <1>0 DEF Fulfils, FulPcs
      <4>3. /\ SetK(ful[i], ful[i].k + 1) \in Fulfils
            /\ SetK(ful[i], ful[i].k + 1).plan = ful[i].plan
        BY <4>2, SetKIs
      <4>4. SetK(ful[i], 1) \in Fulfils /\ SetK(ful[i], 1).plan = ful[i].plan
        BY <4>2, SetKIs, 1 \in Nat
      <4>5. /\ SetPc(SetK(ful[i], 1), "ask") \in Fulfils
            /\ SetPc(SetK(ful[i], 1), "ask").plan = ful[i].plan
        BY <4>2, <4>4, SetPcIs
      <4> QED
        BY <1>0, <4>1, <4>3, <4>5, PlanKept
    <3>2. CASE FulfillAsk(i)
      BY <1>0, <3>2 DEF FulfillAsk, GoTo, FulDies, Fulfils
    <3>3. CASE FulfillCall(i)
      <4>1. \/ ful' = [ful EXCEPT ![i] = SetK(SetPc(ful[i], "ask"), ful[i].k + 1)]
            \/ ful' = [ful EXCEPT ![i] = SetPc(ful[i], "reply")]
        BY <1>0, <3>3 DEF FulfillCall, GoTo, SetK, SetPc
      <4>2. ful[i] \in Fulfils /\ ful[i].k + 1 \in Nat /\ "ask" \in FulPcs /\ "reply" \in FulPcs
        BY <1>0 DEF Fulfils, FulPcs
      <4>3. /\ SetPc(ful[i], "ask") \in Fulfils /\ SetPc(ful[i], "ask").plan = ful[i].plan
            /\ SetPc(ful[i], "reply") \in Fulfils /\ SetPc(ful[i], "reply").plan = ful[i].plan
        BY <4>2, SetPcIs
      <4>4. /\ SetK(SetPc(ful[i], "ask"), ful[i].k + 1) \in Fulfils
            /\ SetK(SetPc(ful[i], "ask"), ful[i].k + 1).plan = ful[i].plan
        BY <4>2, <4>3, SetKIs
      <4> QED
        BY <1>0, <4>1, <4>3, <4>4, PlanKept
    <3>4. CASE FulfillSave(i)
      BY <1>0, <3>4 DEF FulfillSave, GoTo, Fulfils
    <3> QED
      BY <1>2, <3>1, <3>2, <3>3, <3>4
  <2> QED
    BY <2>1, NoPlan DEF Short
<1>3. ASSUME ful' = ful \/ \A j \in Ids : ful'[j] = ful[j] \/ ful'[j].plan = << >>
      PROVE  Short'
  BY <1>3, NoPlan DEF Short
<1>4. ASSUME NEW i \in Ids,
             FulfillStart(i) \/ FulfillGiveUp(i) \/ FulfillReply(i) \/ FulfillCancelled(i)
      PROVE  Short'
  BY <1>0, <1>3, <1>4 DEF FulfillStart, FulfillGiveUp, FulfillReply, FulfillCancelled, FulDies
<1>5. ASSUME NEW p \in Coroutines, UpdateRead(p) \/ UpdateWrite(p)
      PROVE  Short'
  BY <1>0, <1>3, <1>5 DEF UpdateRead, UpdateWrite, Dies, FulDies
<1>6. CASE Crash
  BY <1>0, <1>3, <1>6 DEF Crash
<1>7. ASSUME UNCHANGED ful
      PROVE  Short'
  BY <1>7 DEF Short
<1> QED
  BY <1>1, <1>2, <1>4, <1>5, <1>6, <1>7
  DEF Next, vars, FulfillStep, ReleaseStep, ReleaseStart, ReleaseCall, ReleaseMark, ReleaseDelete,
      HeartbeatRead, PassStep, PassStart, PassCheck, PassExpire, PassEnd, PassLook, PassAwait,
      TaskFrees, TaskFails, OrphanRuns, DetachedRuns, Register, Tick

\* Statuses of a request that is being served, and those that a pass checks.
Open == {"received", "allocating"}
Checked == Statuses \ {"received", "allocating", "success"}

Holds(i) == ~Missing(i) /\ alloc[i].status = "success"

\* The fulfil coroutine has no call left to make, and nothing left to write.
PastCall(i) ==
  \/ ful[i].pc \in {"reply", "done"}
  \/ ful[i].pc = "ask" /\ ful[i].k > Len(ful[i].plan)
Over(i) == PastCall(i) /\ ~Updating(<<"ful", i>>)

Beats(i) == Updating(<<"hb", i>>)
Idle(i) == rel[i].pc = "idle"

\* Nobody but the daemon still works on the record of i.
Quiet(i) ==
  /\ Over(i) /\ ~Beats(i) /\ rel[i].todo = {}
  /\ Missing(i) \/ alloc[i].status \in Checked

\* What a coroutine in update_status is going to write.
Intent(p) == IF upd[p].copy = NoRec THEN upd[p].kw ELSE upd[p].copy

ServedByFulfil(i) == ~Missing(i) /\ alloc[i].status \notin Open => Over(i)

SuccessHeld(i) == Holds(i) /\ Idle(i) => alloc[i].hw \subseteq OwnedBy(i)

FulfilWrites(i) ==
  LET p == <<"ful", i>> IN
  Updating(p) =>
    /\ upd[p].id = i
    /\ Intent(p).status = "success" => Intent(p).hw \subseteq OwnedBy(i)
    /\ Intent(p).status # "allocating" => PastCall(i)

HeartbeatWrites(i) ==
  LET u == upd[<<"hb", i>>] IN
  Beats(i) =>
    /\ u.id = i
    /\ u.copy \in Records /\ u.copy.status = "success" /\ u.copy.left > 0
    /\ u.copy.hw \subseteq OwnedBy(i)
    /\ Over(i) /\ Idle(i) /\ task[i].st = "none"
    /\ Holds(i) => alloc[i].left > 0
    /\ Missing(i) \/ Holds(i)

ReleaseWrites(i) ==
  LET p == <<"rel", i>> IN
  /\ ~Idle(i) => Over(i) /\ ~Beats(i) /\ (Holds(i) => alloc[i].left > 0)
  /\ rel[i].todo \subseteq OwnedBy(i)
  /\ rel[i].todo # {} => rel[i].pc = "call" /\ (Missing(i) \/ Holds(i))
  /\ Updating(p) => rel[i].pc = "delete" /\ upd[p].id = i /\ Intent(p).status = "deallocated"

TaskFreesOwn(i) ==
  /\ task[i].st # "none" => Quiet(i) /\ Idle(i) /\ i \notin dmn.todo /\ dmn.pc # "sleep"
  /\ task[i].todo \subseteq OwnedBy(i)
  /\ task[i].todo # {} => task[i].st = "running"

SnapshotStands(i) ==
  LET s == dmn.snap[i] IN
  i \in dmn.todo =>
    /\ dmn.pc # "sleep"
    /\ s.status = "success" /\ Due(s) => alloc[i] = s /\ Idle(i) /\ ~Beats(i)
    /\ s.status \in Checked => Quiet(i)

Stands(i) ==
  /\ ServedByFulfil(i) /\ SuccessHeld(i) /\ FulfilWrites(i) /\ HeartbeatWrites(i)
  /\ ReleaseWrites(i) /\ TaskFreesOwn(i) /\ SnapshotStands(i)

PassWrites ==
  LET i == upd[Daemon].id IN
  Updating(Daemon) =>
    /\ Quiet(i) /\ i \notin dmn.todo /\ task[i].st = "none" /\ dmn.pc = "loop"
    /\ Intent(Daemon).status \notin Open
    /\ Intent(Daemon).status = "success" =>
         Intent(Daemon).hw \subseteq OwnedBy(i) /\ Intent(Daemon).left > 0

PassChecks == dmn.pc = "check" => dmn.snap[dmn.cur].status \in Checked

OrphansFreeOwn ==
  /\ orphans # {} => dmn.pc = "sleep"
  /\ \A ms \in orphans : ms # {} => \E i \in Ids : Quiet(i) /\ Idle(i) /\ ms \subseteq OwnedBy(i)
  /\ \A ms, ns \in orphans : ms # ns => ms \cap ns = {}

Inv == (\A i \in Ids : Stands(i)) /\ PassWrites /\ PassChecks /\ OrphansFreeOwn

LEMMA InvInit ==
  ASSUME ConstantsAssumption, Init
  PROVE  Inv
<1>1. \A p \in Coroutines : ~Updating(p)
  BY DEF Init, Updating
<1>2. \A i \in Ids : Missing(i) /\ rel[i].todo = {} /\ Idle(i) /\ task[i] = NoTask
  BY DEF Init, Missing, Idle
<1>3. dmn = Asleep /\ orphans = {}
  BY DEF Init
<1>4. ASSUME NEW i \in Ids
      PROVE  Stands(i)
  <2>1. ~Updating(<<"ful", i>>) /\ ~Updating(<<"rel", i>>) /\ ~Updating(<<"hb", i>>)
    BY <1>1, CoroutineNames
  <2>2. ServedByFulfil(i) /\ SuccessHeld(i)
    BY <1>2 DEF ServedByFulfil, SuccessHeld, Holds
  <2>3. FulfilWrites(i) /\ HeartbeatWrites(i)
    BY <2>1 DEF FulfilWrites, HeartbeatWrites, Beats
  <2>4. ReleaseWrites(i)
    BY <1>2, <2>1 DEF ReleaseWrites
  <2>5. TaskFreesOwn(i) /\ SnapshotStands(i)
    BY <1>2, <1>3 DEF TaskFreesOwn, SnapshotStands, NoTask, Asleep
  <2> QED
    BY <2>2, <2>3, <2>4, <2>5 DEF Stands
<1> QED
  BY <1>1, <1>3, <1>4, CoroutineNames DEF Inv, PassWrites, PassChecks, OrphansFreeOwn, Asleep

------------------------------------------------------------------------------
(* Steps of one allocation do not disturb another                          *)

\* Nothing of allocation i changes, but it may get machines.
Untouched(i) ==
  /\ alloc'[i] = alloc[i] /\ ful'[i] = ful[i] /\ rel'[i] = rel[i]
  /\ \A a \in {"ful", "rel", "hb"} : upd'[<<a, i>>] = upd[<<a, i>>]
  /\ OwnedBy(i) \subseteq OwnedBy(i)'

LEMMA UntouchedSame ==
  ASSUME NEW i \in Ids, Untouched(i)
  PROVE  /\ Missing(i)' <=> Missing(i)
         /\ Holds(i)' <=> Holds(i)
         /\ PastCall(i)' <=> PastCall(i)
         /\ Over(i)' <=> Over(i)
         /\ Beats(i)' <=> Beats(i)
         /\ Idle(i)' <=> Idle(i)
         /\ Quiet(i)' <=> Quiet(i)
         /\ Intent(<<"ful", i>>)' = Intent(<<"ful", i>>)
         /\ Intent(<<"rel", i>>)' = Intent(<<"rel", i>>)
         /\ Updating(<<"ful", i>>)' <=> Updating(<<"ful", i>>)
         /\ Updating(<<"rel", i>>)' <=> Updating(<<"rel", i>>)
  BY DEF Untouched, Missing, Holds, PastCall, Over, Beats, Idle, Quiet, Intent, Updating

\* The daemon goes on without it.
PassLeaves(i) ==
  /\ task'[i] = task[i] \/ task'[i] = NoTask
  /\ task'[i].st # "none" => dmn'.pc # "sleep" /\ i \notin dmn'.todo
  /\ i \in dmn'.todo => i \in dmn.todo /\ dmn'.snap[i] = dmn.snap[i] /\ dmn'.pc # "sleep"

LEMMA OtherStands ==
  ASSUME NEW i \in Ids, Stands(i), Untouched(i), PassLeaves(i)
  PROVE  Stands(i)'
<1> USE UntouchedSame
<1>0. alloc'[i] = alloc[i] /\ rel'[i] = rel[i] /\ OwnedBy(i) \subseteq OwnedBy(i)'
      /\ upd'[<<"ful", i>>] = upd[<<"ful", i>>]
      /\ upd'[<<"rel", i>>] = upd[<<"rel", i>>] /\ upd'[<<"hb", i>>] = upd[<<"hb", i>>]
  BY DEF Untouched
<1>1. ServedByFulfil(i)' /\ SuccessHeld(i)'
  BY <1>0 DEF Stands, ServedByFulfil, SuccessHeld
<1>2. FulfilWrites(i)'
  BY <1>0 DEF Stands, FulfilWrites
<1>3. HeartbeatWrites(i)'
  BY <1>0 DEF Stands, HeartbeatWrites, PassLeaves, NoTask
<1>4. ReleaseWrites(i)'
  BY <1>0 DEF Stands, ReleaseWrites
<1>5. TaskFreesOwn(i)'
  BY <1>0 DEF Stands, TaskFreesOwn, PassLeaves, NoTask
<1>6. SnapshotStands(i)'
  BY <1>0 DEF Stands, SnapshotStands, PassLeaves, Due
<1> QED
  BY <1>1, <1>2, <1>3, <1>4, <1>5, <1>6 DEF Stands

\* The daemon relies on a quiet allocation's staying quiet.
Spares(i) ==
  Quiet(i) /\ task[i].st = "none" =>
    /\ Quiet(i)' /\ task'[i].st = "none"
    /\ OwnedBy(i) \subseteq OwnedBy(i)'
    /\ Idle(i) => Idle(i)'

\* A step of one allocation, with the daemon at rest.
LEMMA OneSteps ==
  ASSUME Typed, Inv, NEW i \in Ids,
         \A j \in Ids \ {i} : Untouched(j) /\ task'[j] = task[j],
         dmn' = dmn, orphans' = orphans, upd'[Daemon] = upd[Daemon],
         Stands(i)', Spares(i)
  PROVE  Inv'
<1>1. ASSUME NEW j \in Ids
      PROVE  Stands(j)'
  <2>1. CASE j = i
    BY <2>1
  <2>2. CASE j # i
    <3>1. Stands(j)
      BY DEF Inv
    <3>2. Untouched(j) /\ task'[j] = task[j]
      BY <2>2
    <3>3. PassLeaves(j)
      BY <3>1, <3>2 DEF PassLeaves, Stands, TaskFreesOwn, SnapshotStands
    <3> QED
      BY <3>1, <3>2, <3>3, OtherStands
  <2> QED
    BY <2>1, <2>2
<1>2. ASSUME NEW j \in Ids, Quiet(j), task[j].st = "none"
      PROVE  /\ Quiet(j)' /\ task'[j].st = "none"
             /\ OwnedBy(j) \subseteq OwnedBy(j)'
             /\ Idle(j) => Idle(j)'
  <2>1. CASE j = i
    BY <1>2, <2>1 DEF Spares
  <2>2. CASE j # i
    <3>1. Untouched(j) /\ task'[j] = task[j]
      BY <2>2
    <3> QED
      BY <1>2, <3>1, UntouchedSame DEF Untouched
  <2> QED
    BY <2>1, <2>2
<1>3. PassWrites'
  <2> DEFINE d == upd[Daemon].id
  <2>1. Updating(Daemon)' <=> Updating(Daemon)
    BY DEF Updating
  <2>2. Intent(Daemon)' = Intent(Daemon)
    BY DEF Intent
  <2>3. Updating(Daemon) => d \in Ids
    BY CoroutineNames DEF Typed, UpdTyped, Updating, Updates, Daemon, Coroutines
  <2>4. Updating(Daemon) => Quiet(d) /\ task[d].st = "none"
    BY DEF Inv, PassWrites
  <2>5. Updating(Daemon) => Quiet(d)' /\ task'[d].st = "none" /\ OwnedBy(d) \subseteq OwnedBy(d)'
    BY <1>2, <2>3, <2>4
  <2> QED
    BY <2>1, <2>2, <2>5 DEF Inv, PassWrites
<1>4. PassChecks'
  BY DEF Inv, PassChecks
<1>5. OrphansFreeOwn'
  <2>1. ASSUME NEW ms \in orphans, ms # {}
        PROVE  \E j \in Ids : Quiet(j)' /\ Idle(j)' /\ ms \subseteq OwnedBy(j)'
    <3>1. PICK j \in Ids : Quiet(j) /\ Idle(j) /\ ms \subseteq OwnedBy(j)
      BY <2>1 DEF Inv, OrphansFreeOwn
    <3>2. dmn.pc = "sleep"
      BY DEF Inv, OrphansFreeOwn
    <3>3. task[j].st = "none"
      BY <3>2 DEF Inv, Stands, TaskFreesOwn
    <3>4. Quiet(j)' /\ Idle(j)' /\ OwnedBy(j) \subseteq OwnedBy(j)'
      BY <1>2, <3>1, <3>3
    <3> QED
      BY <3>1, <3>4
  <2> QED
    BY <2>1 DEF Inv, OrphansFreeOwn
<1> QED
  BY <1>1, <1>3, <1>4, <1>5 DEF Inv

\* While a fulfil is not over nobody else has to do with its allocation.
Young(i) ==
  /\ Missing(i) \/ alloc[i].status \in Open
  /\ ~Beats(i) /\ Idle(i) /\ rel[i].todo = {} /\ ~Updating(<<"rel", i>>)
  /\ task[i].st = "none" /\ task[i].todo = {}
  /\ i \in dmn.todo => /\ dmn.pc # "sleep"
                       /\ ~(dmn.snap[i].status = "success" /\ Due(dmn.snap[i]))
                       /\ dmn.snap[i].status \notin Checked

LEMMA NotOverYoung ==
  ASSUME Typed, NullAssumption, NEW i \in Ids, Stands(i), ~Over(i)
  PROVE  Young(i)
<1>1. Missing(i) \/ alloc[i].status \in Open
  BY DEF Stands, ServedByFulfil
<1>2. ~Beats(i) /\ Idle(i) /\ ~Quiet(i)
  BY DEF Stands, HeartbeatWrites, ReleaseWrites, Quiet
<1>3. rel[i].todo = {} /\ ~Updating(<<"rel", i>>)
  BY <1>2 DEF Stands, ReleaseWrites, Idle
<1>4. task[i].st = "none" /\ task[i].todo = {}
  BY <1>2 DEF Stands, TaskFreesOwn
<1>5. i \in dmn.todo => dmn.pc # "sleep" /\ dmn.snap[i].status \notin Checked
  BY <1>2 DEF Stands, SnapshotStands
<1>6. ASSUME i \in dmn.todo, dmn.snap[i].status = "success", Due(dmn.snap[i])
      PROVE  FALSE
  <2>1. alloc[i] = dmn.snap[i] /\ dmn.snap[i] \in Records
    BY <1>6 DEF Stands, SnapshotStands, Typed, DmnTyped
  <2> QED
    BY <1>1, <1>6, <2>1 DEF Missing, NullAssumption, Open
<1> QED
  BY <1>1, <1>2, <1>3, <1>4, <1>5, <1>6 DEF Young

\* What is left to show of a step of a fulfil that is not over.
LEMMA YoungStands ==
  ASSUME NEW i \in Ids, Young(i),
         rel'[i] = rel[i], task'[i] = task[i], dmn' = dmn,
         \A a \in {"rel", "hb"} : upd'[<<a, i>>] = upd[<<a, i>>],
         ServedByFulfil(i)', SuccessHeld(i)', FulfilWrites(i)'
  PROVE  Stands(i)'
<1>1. ~Beats(i)' /\ ~Updating(<<"rel", i>>)'
  BY DEF Young, Beats, Updating
<1>2. HeartbeatWrites(i)'
  BY <1>1 DEF HeartbeatWrites
<1>3. ReleaseWrites(i)'
  BY <1>1 DEF ReleaseWrites, Young, Idle
<1>4. TaskFreesOwn(i)' /\ SnapshotStands(i)'
  BY DEF TaskFreesOwn, SnapshotStands, Young
<1> QED
  BY <1>2, <1>3, <1>4 DEF Stands

\* Machines are granted that were free, and freed by the allocation that has them.
LEMMA SameOwners ==
  ASSUME UNCHANGED owner
  PROVE  \A i \in Ids : OwnedBy(i)' = OwnedBy(i)
  BY DEF OwnedBy

LEMMA GrantKeeps ==
  ASSUME ConstantsAssumption, Typed, NEW i \in Ids, NEW r, NEW n, NEW ms \in Grants(r, n),
         Assign(ms, i)
  PROVE  /\ \A j \in Ids : OwnedBy(j) \subseteq OwnedBy(j)'
         /\ ms \subseteq OwnedBy(i)'
  BY DEF Typed, Grants, Assign, OwnedBy, ConstantsAssumption

LEMMA FreeKeeps ==
  ASSUME ConstantsAssumption, Typed, NEW i \in Ids, NEW m \in OwnedBy(i), FreeMachine(m)
  PROVE  /\ \A j \in Ids \ {i} : OwnedBy(j)' = OwnedBy(j)
         /\ OwnedBy(i)' = OwnedBy(i) \ {m}
  BY DEF Typed, FreeMachine, OwnedBy, ConstantsAssumption

\* A step of one coroutine of allocation i.
OneCoroutine(a, i) ==
  /\ \A p \in Coroutines \ {<<a, i>>} : upd'[p] = upd[p]
  /\ \A j \in Ids \ {i} :
       /\ alloc'[j] = alloc[j] /\ ful'[j] = ful[j] /\ rel'[j] = rel[j]
       /\ OwnedBy(j) \subseteq OwnedBy(j)'

LEMMA OneFrame ==
  ASSUME ConstantsAssumption, NEW i \in Ids, NEW a \in {"ful", "rel", "hb"}, OneCoroutine(a, i)
  PROVE  /\ \A j \in Ids \ {i} : Untouched(j)
         /\ upd'[Daemon] = upd[Daemon]
         /\ \A b \in {"ful", "rel", "hb"} \ {a} : upd'[<<b, i>>] = upd[<<b, i>>]
<1>1. ASSUME NEW b \in {"ful", "rel", "hb"}, NEW j \in Ids, b # a \/ j # i
      PROVE  upd'[<<b, j>>] = upd[<<b, j>>]
  <2>1. <<b, j>> \in Coroutines /\ <<b, j>> # <<a, i>>
    BY <1>1, CoroutineNames
  <2> QED
    BY <2>1 DEF OneCoroutine
<1>2. Daemon \in Coroutines /\ Daemon # <<a, i>>
  BY CoroutineNames DEF Daemon
<1> QED
  BY <1>1, <1>2 DEF OneCoroutine, Untouched

\* A step of a fulfil that is not over.
LEMMA FulfilSteps ==
  ASSUME ConstantsAssumption, NullAssumption, Typed, Inv, NEW i \in Ids, ~Over(i),
         OneCoroutine("ful", i), UNCHANGED <<rel, task, dmn, orphans>>,
         ServedByFulfil(i)', SuccessHeld(i)', FulfilWrites(i)'
  PROVE  Inv'
<1>1. Young(i)
  BY NotOverYoung DEF Inv
<1>2. /\ \A j \in Ids \ {i} : Untouched(j) /\ task'[j] = task[j]
      /\ upd'[Daemon] = upd[Daemon]
      /\ \A a \in {"rel", "hb"} : upd'[<<a, i>>] = upd[<<a, i>>]
  BY OneFrame
<1>3. Stands(i)'
  BY <1>1, <1>2, YoungStands
<1>4. Spares(i)
  BY DEF Spares, Quiet
<1> QED
  BY <1>2, <1>3, <1>4, OneSteps

\* A step of a fulfil that is over, or that ends it, and leaves the record alone.
LEMMA FulfilEnds ==
  ASSUME ConstantsAssumption, NullAssumption, Typed, Inv, NEW i \in Ids,
         OneCoroutine("ful", i), UNCHANGED <<alloc, owner, rel, task, dmn, orphans>>,
         Over(i)'
  PROVE  Inv'
<1>1. /\ \A j \in Ids \ {i} : Untouched(j) /\ task'[j] = task[j]
      /\ upd'[Daemon] = upd[Daemon]
      /\ \A a \in {"rel", "hb"} : upd'[<<a, i>>] = upd[<<a, i>>]
  BY OneFrame
<1>2. Stands(i) /\ OwnedBy(i)' = OwnedBy(i)
  BY SameOwners DEF Inv
<1>3. /\ Missing(i)' <=> Missing(i)
      /\ Holds(i)' <=> Holds(i)
      /\ Beats(i)' <=> Beats(i)
      /\ Idle(i)' <=> Idle(i)
      /\ Updating(<<"rel", i>>)' <=> Updating(<<"rel", i>>)
      /\ Intent(<<"rel", i>>)' = Intent(<<"rel", i>>)
      /\ Quiet(i) => Quiet(i)'
  BY <1>1 DEF Missing, Holds, Beats, Idle, Updating, Intent, Quiet
<1>4. ServedByFulfil(i)' /\ SuccessHeld(i)' /\ FulfilWrites(i)'
  BY <1>2, <1>3 DEF Stands, ServedByFulfil, SuccessHeld, FulfilWrites, Over
<1>5. HeartbeatWrites(i)' /\ ReleaseWrites(i)'
  BY <1>1, <1>2, <1>3 DEF Stands, HeartbeatWrites, ReleaseWrites
<1>6. TaskFreesOwn(i)' /\ SnapshotStands(i)'
  BY <1>1, <1>2, <1>3 DEF Stands, TaskFreesOwn, SnapshotStands, Due
<1>7. Stands(i)'
  BY <1>4, <1>5, <1>6 DEF Stands
<1>8. Spares(i)
  BY <1>2, <1>3 DEF Spares
<1> QED
  BY <1>1, <1>7, <1>8, OneSteps

LEMMA FulfillKeeps ==
  ASSUME ConstantsAssumption, NullAssumption, TimelyWorld, Typed, Short, Inv, NEW i \in Ids,
         FulfillStep(i)
  PROVE  Inv'
<1> USE SameOwners
<1>0. /\ ful \in [Ids -> Fulfils] /\ ful[i] \in Fulfils
      /\ alloc \in [Ids -> Records \cup {NoRec}]
      /\ upd \in [Coroutines -> Updates \cup {NoUpd}]
      /\ <<"ful", i>> \in Coroutines
      /\ Stands(i)
  BY CoroutineNames DEF Typed, FulTyped, UpdTyped, Inv
<1>1. CASE FulfillStart(i)
  <2>1. ful[i].pc = "idle" /\ ~PastCall(i) /\ ~Over(i) /\ Missing(i)
    BY <1>1 DEF FulfillStart, TimelyWorld, Over, PastCall
  <2>2. OneCoroutine("ful", i)
    BY <1>0, <1>1 DEF FulfillStart, OneCoroutine
  <2>3. Missing(i)'
    BY <1>1, <2>1 DEF FulfillStart, Missing
  <2>4. FulfilWrites(i)'
    BY <1>0, <1>1, <2>1 DEF FulfillStart, FulfilWrites, Stands, Updating, Intent
  <2> QED
    BY <1>1, <2>1, <2>2, <2>3, <2>4, FulfilSteps
    DEF FulfillStart, ServedByFulfil, SuccessHeld, Holds
<1>2. CASE FulfillSave(i)
  <2>1. ~Over(i) /\ ~Updating(<<"ful", i>>)
    BY <1>2 DEF FulfillSave, At, Over, PastCall
  <2>2. OneCoroutine("ful", i)
    BY <1>0, <1>2 DEF FulfillSave, OneCoroutine, Save, GoTo
  <2>3. alloc'[i].status = "received"
    BY <1>0, <1>2 DEF FulfillSave, Save, Request
  <2>4. FulfilWrites(i)'
    BY <1>2, <2>1 DEF FulfillSave, FulfilWrites, Updating
  <2> QED
    BY <1>2, <2>1, <2>2, <2>3, <2>4, FulfilSteps
    DEF FulfillSave, ServedByFulfil, SuccessHeld, Holds, Open
<1>3. CASE FulfillFind(i)
  <2>1. ~Over(i) /\ ~Updating(<<"ful", i>>)
    BY <1>3 DEF FulfillFind, At, Over, PastCall
  <2>2. OneCoroutine("ful", i)
    BY <1>3, FindTyped DEF FulfillFind, OneCoroutine
  <2>3. Missing(i) \/ alloc[i].status \in Open
    BY <1>0, <2>1 DEF Stands, ServedByFulfil
  <2>4. ServedByFulfil(i)' /\ SuccessHeld(i)'
    BY <1>3, <2>3 DEF FulfillFind, ServedByFulfil, SuccessHeld, Holds, Missing, Open
  <2>5. FulfilWrites(i)'
    BY <1>3, <2>1 DEF FulfillFind, FulfilWrites, Updating
  <2> QED
    BY <1>3, <2>1, <2>2, <2>4, <2>5, FulfilSteps DEF FulfillFind
<1>4. CASE FulfillGiveUp(i)
  <2>1. ~Over(i) /\ ~Updating(<<"ful", i>>)
    BY <1>4 DEF FulfillGiveUp, At, Over, PastCall
  <2>2. OneCoroutine("ful", i)
    BY <1>0, <1>4 DEF FulfillGiveUp, OneCoroutine, Delete, Save, FulDies
  <2>3. Missing(i)'
    BY <1>0, <1>4 DEF FulfillGiveUp, Delete, Save, Missing
  <2>4. FulfilWrites(i)'
    BY <1>4, <2>1 DEF FulfillGiveUp, FulfilWrites, Updating
  <2> QED
    BY <1>4, <2>1, <2>2, <2>3, <2>4, FulfilSteps
    DEF FulfillGiveUp, ServedByFulfil, SuccessHeld, Holds
<1>5. CASE FulfillMark(i)
  <2>1. ~Over(i) /\ ~Updating(<<"ful", i>>)
    BY <1>5 DEF FulfillMark, At, Over, PastCall
  <2>2. OneCoroutine("ful", i)
    <3>1. \A p \in Coroutines \ {<<"ful", i>>} : upd'[p] = upd[p]
      BY <1>0, <1>5 DEF FulfillMark, Begin
    <3>2. \A j \in Ids \ {i} : ful'[j] = ful[j]
      BY <1>0, <1>5 DEF FulfillMark
    <3> QED
      BY <1>5, <3>1, <3>2 DEF FulfillMark, OneCoroutine
  <2>3. Missing(i) \/ alloc[i].status \in Open
    BY <1>0, <2>1 DEF Stands, ServedByFulfil
  <2>4. ServedByFulfil(i)' /\ SuccessHeld(i)'
    BY <1>5, <2>3 DEF FulfillMark, ServedByFulfil, SuccessHeld, Holds, Missing, Open
  <2>5. FulfilWrites(i)'
    <3>1. CASE upd' = upd
      BY <2>1, <3>1 DEF FulfilWrites, Updating
    <3>2. ASSUME NEW rm, Begin(<<"ful", i>>, i, [status |-> "allocating", rm |-> rm])
          PROVE  FulfilWrites(i)'
      <4>1. upd'[<<"ful", i>>] =
              [id |-> i, kw |-> [status |-> "allocating", rm |-> rm], copy |-> NoRec]
        BY <1>0, <3>2 DEF Begin
      <4>2. Intent(<<"ful", i>>)'.status = "allocating"
        BY <4>1 DEF Intent
      <4> QED
        BY <4>1, <4>2 DEF FulfilWrites
    <3> QED
      BY <1>5, <3>1, <3>2 DEF FulfillMark
  <2> QED
    BY <1>5, <2>1, <2>2, <2>4, <2>5, FulfilSteps DEF FulfillMark
<1>6. CASE FulfillAsk(i)
  <2>0. ful[i].pc = "ask" /\ ~Updating(<<"ful", i>>)
    BY <1>6 DEF FulfillAsk, At
  <2>1. OneCoroutine("ful", i)
    <3>1. \A j \in Ids \ {i} : ful'[j] = ful[j]
      BY <1>0, <1>6 DEF FulfillAsk, GoTo, FulDies
    <3> QED
      BY <1>6, <3>1 DEF FulfillAsk, OneCoroutine
  <2>2. CASE GoTo(i, "reply") \/ FulDies(i)
    <3>1. ful'[i].pc \in {"reply", "done"}
      BY <1>0, <2>2 DEF GoTo, FulDies, Fulfils
    <3>2. Over(i)'
      BY <1>6, <2>0, <3>1 DEF FulfillAsk, Over, PastCall, Updating
    <3> QED
      BY <1>6, <2>1, <3>2, FulfilEnds DEF FulfillAsk
  <2>3. CASE ful[i].k <= Len(ful[i].plan) /\ GoTo(i, "call")
    <3>0. ful[i].k \in Nat /\ Len(ful[i].plan) \in Nat
      BY <1>0, PlanIs DEF Fulfils
    <3>1. ~Over(i)
      BY <2>0, <2>3, <3>0 DEF Over, PastCall
    <3>2. Missing(i) \/ alloc[i].status \in Open
      BY <1>0, <3>1 DEF Stands, ServedByFulfil
    <3>3. ServedByFulfil(i)' /\ SuccessHeld(i)'
      BY <1>6, <3>2 DEF FulfillAsk, ServedByFulfil, SuccessHeld, Holds, Missing, Open
    <3>4. FulfilWrites(i)'
      BY <1>6, <2>0 DEF FulfillAsk, FulfilWrites, Updating
    <3> QED
      BY <1>6, <2>1, <3>1, <3>3, <3>4, FulfilSteps DEF FulfillAsk
  <2> QED
    BY <1>6, <2>2, <2>3 DEF FulfillAsk
<1>7. CASE FulfillCall(i)
  <2> DEFINE to == ful[i].plan[ful[i].k]
             n  == Cardinality(to.hosts)
             p  == <<"ful", i>>
  <2>0. ful[i].pc = "call" /\ ~Over(i) /\ UNCHANGED <<alloc, rel, dmn, task, orphans>>
    BY <1>7 DEF FulfillCall, At, Over, PastCall
  <2>1. Missing(i) \/ alloc[i].status \in Open
    BY <1>0, <2>0 DEF Stands, ServedByFulfil
  <2>2. ServedByFulfil(i)' /\ SuccessHeld(i)'
    BY <2>0, <2>1 DEF ServedByFulfil, SuccessHeld, Holds, Missing, Open
  <2>3. ASSUME NEW ms \in Grants(to.rm, n), Assign(ms, i), Begin(p, i, Fulfilled(ms)),
               ful' = [ful EXCEPT ![i].pc = "ask", ![i].k = @ + 1]
        PROVE  Inv'
    <3>1. /\ \A j \in Ids : OwnedBy(j) \subseteq OwnedBy(j)'
          /\ ms \subseteq OwnedBy(i)'
      BY <2>3, GrantKeeps
    <3>2. upd'[p] = [id |-> i, kw |-> Fulfilled(ms), copy |-> NoRec]
      BY <1>0, <2>3 DEF Begin
    <3>3. Intent(p)' = Fulfilled(ms)
      BY <3>2 DEF Intent
    <3>4. PastCall(i)'
      <4>1. /\ ful[i].k \in Nat /\ ful[i].k >= 1
            /\ Len(ful[i].plan) \in Nat /\ Len(ful[i].plan) <= 1
        BY <1>0, <2>0, PlanIs DEF Fulfils, Typed, FulTyped, InPlan, Short
      <4>2. ful'[i].pc = "ask" /\ ful'[i].k = ful[i].k + 1 /\ ful'[i].plan = ful[i].plan
        BY <1>0, <2>3 DEF Fulfils
      <4>3. ful[i].k + 1 > Len(ful[i].plan)
        BY <4>1
      <4> QED
        BY <4>2, <4>3 DEF PastCall
    <3>5. FulfilWrites(i)'
      BY <3>1, <3>2, <3>3, <3>4 DEF FulfilWrites, Fulfilled
    <3>6. OneCoroutine("ful", i)
      <4>1. \A q \in Coroutines \ {p} : upd'[q] = upd[q]
        BY <1>0, <2>3 DEF Begin
      <4>2. \A j \in Ids \ {i} : ful'[j] = ful[j]
        BY <1>0, <2>3
      <4> QED
        BY <2>0, <3>1, <4>1, <4>2 DEF OneCoroutine
    <3> QED
      BY <2>0, <2>2, <3>5, <3>6, FulfilSteps
  <2>4. ASSUME NEW st \in {"cancelled", "exception"}, Begin(p, i, [status |-> st]),
               GoTo(i, "reply"), UNCHANGED owner
        PROVE  Inv'
    <3>1. upd'[p] = [id |-> i, kw |-> [status |-> st], copy |-> NoRec]
      BY <1>0, <2>4 DEF Begin
    <3>2. Intent(p)'.status = st
      BY <3>1 DEF Intent
    <3>3. PastCall(i)'
      BY <1>0, <2>4 DEF GoTo, PastCall, Fulfils
    <3>4. FulfilWrites(i)'
      BY <3>1, <3>2, <3>3 DEF FulfilWrites
    <3>5. OneCoroutine("ful", i)
      <4>1. \A q \in Coroutines \ {p} : upd'[q] = upd[q]
        BY <1>0, <2>4 DEF Begin
      <4>2. \A j \in Ids \ {i} : ful'[j] = ful[j]
        BY <1>0, <2>4 DEF GoTo
      <4> QED
        BY <2>0, <2>4, <4>1, <4>2 DEF OneCoroutine
    <3> QED
      BY <2>0, <2>2, <3>4, <3>5, FulfilSteps
  <2> QED
    BY <1>7, <2>3, <2>4 DEF FulfillCall
<1>8. CASE FulfillReply(i)
  <2>1. OneCoroutine("ful", i)
    BY <1>0, <1>8 DEF FulfillReply, FulDies, OneCoroutine
  <2>2. Over(i)'
    BY <1>0, <1>8 DEF FulfillReply, FulDies, At, Over, PastCall, Updating
  <2> QED
    BY <1>8, <2>1, <2>2, FulfilEnds DEF FulfillReply
<1>9. CASE FulfillCancelled(i)
  <2>1. OneCoroutine("ful", i)
    BY <1>0, <1>9 DEF FulfillCancelled, FulDies, OneCoroutine
  <2>2. Over(i)'
    BY <1>0, <1>9 DEF FulfillCancelled, FulDies, Over, PastCall, Updating
  <2> QED
    BY <1>9, <2>1, <2>2, FulfilEnds DEF FulfillCancelled
<1> QED
  BY <1>1, <1>2, <1>3, <1>4, <1>5, <1>6, <1>7, <1>8, <1>9 DEF FulfillStep

\* A step of a release or a heartbeat, with the fulfil over.
LEMMA OwnerSteps ==
  ASSUME ConstantsAssumption, NullAssumption, Typed, Inv, NEW i \in Ids,
         NEW a \in {"ful", "rel", "hb"},
         OneCoroutine(a, i), UNCHANGED <<task, dmn, orphans>>,
         Over(i)', SuccessHeld(i)', HeartbeatWrites(i)', ReleaseWrites(i)',
         TaskFreesOwn(i)', SnapshotStands(i)', Spares(i)
  PROVE  Inv'
<1>1. /\ \A j \in Ids \ {i} : Untouched(j) /\ task'[j] = task[j]
      /\ upd'[Daemon] = upd[Daemon]
  BY OneFrame
<1>2. ServedByFulfil(i)' /\ FulfilWrites(i)'
  BY DEF ServedByFulfil, FulfilWrites, Over
<1>3. Stands(i)'
  BY <1>2 DEF Stands
<1> QED
  BY <1>1, <1>3, OneSteps

LEMMA ReleaseKeeps ==
  ASSUME ConstantsAssumption, NullAssumption, TimelyWorld, Typed, Inv, NEW i \in Ids,
         ReleaseStep(i)
  PROVE  Inv'
<1> USE SameOwners
<1>0. /\ rel \in [Ids -> Releases] /\ rel[i] \in Releases
      /\ alloc \in [Ids -> Records \cup {NoRec}]
      /\ upd \in [Coroutines -> Updates \cup {NoUpd}]
      /\ <<"rel", i>> \in Coroutines
      /\ Stands(i)
  BY CoroutineNames DEF Typed, UpdTyped, Inv
<1>1. CASE ReleaseStart(i)
  <2>1. /\ ~Missing(i) /\ alloc[i].status = "success" /\ alloc[i].left > 0
        /\ Idle(i) /\ ~Beats(i) /\ Holds(i) /\ ~Updating(<<"rel", i>>)
    BY <1>1 DEF ReleaseStart, Timely, TimelyWorld, RelAt, Idle, Beats, Holds
  <2>2. Over(i) /\ alloc[i].hw \subseteq OwnedBy(i)
    BY <1>0, <2>1 DEF Stands, ServedByFulfil, SuccessHeld, Open
  <2>3. alloc[i] \in Records /\ ~Quiet(i)
    BY <1>0, <2>1 DEF Missing, Quiet, Checked
  <2>4. task[i].st = "none" /\ task[i].todo = {}
    BY <1>0, <2>3 DEF Stands, TaskFreesOwn
  <2>5. OneCoroutine("rel", i)
    BY <1>0, <1>1 DEF ReleaseStart, OneCoroutine
  <2>6. rel'[i] = [pc |-> "call", todo |-> alloc[i].hw]
    BY <1>0, <1>1 DEF ReleaseStart
  <2>7. Over(i)' /\ ~Beats(i)' /\ ~Idle(i)' /\ Holds(i)' /\ ~Updating(<<"rel", i>>)'
    BY <1>1, <2>1, <2>2, <2>6
    DEF ReleaseStart, Over, PastCall, Beats, Idle, Holds, Missing, Updating
  <2>8. SuccessHeld(i)' /\ HeartbeatWrites(i)' /\ TaskFreesOwn(i)'
    BY <1>1, <2>4, <2>7 DEF ReleaseStart, SuccessHeld, HeartbeatWrites, TaskFreesOwn
  <2>9. ReleaseWrites(i)'
    BY <1>1, <2>1, <2>2, <2>6, <2>7 DEF ReleaseStart, ReleaseWrites
  <2>10. SnapshotStands(i)'
    <3>1. ASSUME i \in dmn.todo
          PROVE  /\ dmn.pc # "sleep" /\ dmn.snap[i].status \notin Checked
                 /\ ~(dmn.snap[i].status = "success" /\ Due(dmn.snap[i]))
      BY <1>0, <2>1, <2>3, <3>1 DEF Stands, SnapshotStands, Due, Records, Oldest, ConstantsAssumption
    <3> QED
      BY <1>1, <3>1 DEF ReleaseStart, SnapshotStands
  <2>11. Spares(i)
    BY <2>3 DEF Spares
  <2> QED
    BY <1>1, <2>5, <2>7, <2>8, <2>9, <2>10, <2>11, OwnerSteps DEF ReleaseStart
<1>2. ASSUME rel[i].pc # "idle", UNCHANGED <<ful, task, dmn, orphans>>,
             OneCoroutine("rel", i)
      PROVE  /\ Over(i) /\ Over(i)' /\ ~Beats(i) /\ ~Beats(i)'
             /\ task[i].st = "none" /\ task[i].todo = {}
             /\ HeartbeatWrites(i)' /\ TaskFreesOwn(i)'
             /\ (Quiet(i) => Quiet(i)') => SnapshotStands(i)'
             /\ (Quiet(i) => Quiet(i)' /\ OwnedBy(i) \subseteq OwnedBy(i)') => Spares(i)
  <2>1. ~Idle(i)
    BY <1>2 DEF Idle
  <2>2. Over(i) /\ ~Beats(i)
    BY <1>0, <2>1 DEF Stands, ReleaseWrites
  <2>3. task[i].st = "none" /\ task[i].todo = {}
    BY <1>0, <2>1 DEF Stands, TaskFreesOwn
  <2>4. \A b \in {"ful", "hb"} : upd'[<<b, i>>] = upd[<<b, i>>]
    BY <1>2, OneFrame
  <2>5. Over(i)' /\ ~Beats(i)'
    BY <1>2, <2>2, <2>4 DEF Over, PastCall, Beats, Updating
  <2>6. HeartbeatWrites(i)' /\ TaskFreesOwn(i)'
    BY <1>2, <2>3, <2>5 DEF HeartbeatWrites, TaskFreesOwn
  <2>7. (Quiet(i) => Quiet(i)') => SnapshotStands(i)'
    BY <1>0, <1>2, <2>1 DEF Stands, SnapshotStands, Due
  <2>8. (Quiet(i) => Quiet(i)' /\ OwnedBy(i) \subseteq OwnedBy(i)') => Spares(i)
    BY <1>2, <2>1 DEF Spares
  <2> QED
    BY <2>2, <2>3, <2>5, <2>6, <2>7, <2>8
<1>3. CASE ReleaseCall(i)
  <2>1. PICK m \in rel[i].todo : FreeMachine(m) /\ rel' = [rel EXCEPT ![i].todo = @ \ {m}]
    BY <1>3 DEF ReleaseCall, TimelyWorld
  <2>2. /\ rel[i].pc = "call" /\ ~Updating(<<"rel", i>>) /\ ~Idle(i)
        /\ UNCHANGED <<alloc, ful, upd, task, dmn, orphans>>
    BY <1>3 DEF ReleaseCall, RelAt, Idle
  <2>3. m \in OwnedBy(i) /\ rel[i].todo \subseteq OwnedBy(i)
    BY <1>0 DEF Stands, ReleaseWrites
  <2>4. /\ \A j \in Ids \ {i} : OwnedBy(j)' = OwnedBy(j)
        /\ OwnedBy(i)' = OwnedBy(i) \ {m}
    BY <2>1, <2>3, FreeKeeps
  <2>5. OneCoroutine("rel", i)
    BY <1>0, <2>1, <2>2, <2>4 DEF OneCoroutine
  <2>6. rel'[i].pc = "call" /\ rel'[i].todo = rel[i].todo \ {m}
    BY <1>0, <2>1, <2>2 DEF Releases
  <2>7. ~Quiet(i)
    BY DEF Quiet
  <2>8. SuccessHeld(i)'
    BY <2>6 DEF SuccessHeld, Idle
  <2>9. ~Updating(<<"rel", i>>)' /\ (Holds(i)' <=> Holds(i)) /\ (Missing(i)' <=> Missing(i))
    BY <2>2 DEF Updating, Holds, Missing
  <2>10. rel[i].pc # "idle"
    BY <2>2
  <2>11. Over(i)' /\ ~Beats(i)'
    BY <1>2, <2>2, <2>5, <2>10
  <2>12. ReleaseWrites(i)'
    BY <1>0, <2>2, <2>3, <2>4, <2>6, <2>9, <2>11 DEF Stands, ReleaseWrites
  <2> QED
    BY <1>2, <2>2, <2>5, <2>7, <2>8, <2>10, <2>12, OwnerSteps
<1>4. CASE ReleaseMark(i)
  <2>1. /\ rel[i].pc = "call" /\ rel[i].todo = {} /\ ~Idle(i)
        /\ UNCHANGED <<alloc, owner, ful, task, dmn, orphans>>
    BY <1>4 DEF ReleaseMark, RelAt, Idle
  <2>2. upd'[<<"rel", i>>] = [id |-> i, kw |-> [status |-> "deallocated"], copy |-> NoRec]
    BY <1>0, <1>4 DEF ReleaseMark, Begin
  <2>3. rel'[i].pc = "delete" /\ rel'[i].todo = {}
    BY <1>0, <1>4, <2>1 DEF ReleaseMark, Releases
  <2>4. OneCoroutine("rel", i)
    <3>1. \A p \in Coroutines \ {<<"rel", i>>} : upd'[p] = upd[p]
      BY <1>0, <1>4 DEF ReleaseMark, Begin
    <3>2. \A j \in Ids \ {i} : rel'[j] = rel[j]
      BY <1>0, <1>4 DEF ReleaseMark
    <3> QED
      BY <2>1, <3>1, <3>2 DEF OneCoroutine
  <2>5. rel[i].pc # "idle"
    BY <2>1
  <2>6. Over(i)' /\ ~Beats(i)' /\ ~Beats(i)
    BY <1>2, <2>1, <2>4, <2>5
  <2>7. /\ Holds(i)' <=> Holds(i)
        /\ Missing(i)' <=> Missing(i)
        /\ ~Idle(i)'
    BY <2>1, <2>3 DEF Holds, Missing, Idle
  <2>8. Quiet(i) => Quiet(i)'
    BY <2>1, <2>3, <2>6, <2>7 DEF Quiet
  <2>9. SuccessHeld(i)'
    BY <2>7 DEF SuccessHeld
  <2>10. Intent(<<"rel", i>>)'.status = "deallocated"
    BY <2>2 DEF Intent
  <2>11. ReleaseWrites(i)'
    BY <1>0, <2>1, <2>2, <2>3, <2>6, <2>7, <2>10 DEF Stands, ReleaseWrites
  <2> QED
    BY <1>2, <2>1, <2>4, <2>5, <2>6, <2>8, <2>9, <2>11, OwnerSteps
<1>5. CASE ReleaseDelete(i)
  <2>1. /\ rel[i].pc = "delete" /\ ~Updating(<<"rel", i>>)
        /\ UNCHANGED <<owner, ful, upd, task, dmn, orphans>>
    BY <1>5 DEF ReleaseDelete, RelAt
  <2>2. Missing(i)' /\ rel'[i] = [pc |-> "idle", todo |-> {}]
    BY <1>0, <1>5 DEF ReleaseDelete, Delete, Save, RelEnds, Missing
  <2>3. OneCoroutine("rel", i)
    BY <1>0, <1>5, <2>1 DEF ReleaseDelete, Delete, Save, RelEnds, OneCoroutine
  <2>4. rel[i].pc # "idle"
    BY <2>1
  <2>5. Over(i)' /\ ~Beats(i)'
    BY <1>2, <2>1, <2>3, <2>4
  <2>6. Quiet(i)'
    BY <2>2, <2>5 DEF Quiet
  <2>7. SuccessHeld(i)'
    BY <2>2 DEF SuccessHeld, Holds
  <2>8. ReleaseWrites(i)'
    BY <2>1, <2>2 DEF ReleaseWrites, Idle, Updating
  <2> QED
    BY <1>2, <2>1, <2>3, <2>4, <2>5, <2>6, <2>7, <2>8, OwnerSteps
<1> QED
  BY <1>1, <1>3, <1>4, <1>5 DEF ReleaseStep

LEMMA HeartbeatKeeps ==
  ASSUME ConstantsAssumption, NullAssumption, TimelyWorld, Typed, Inv, NEW i \in Ids,
         HeartbeatRead(i)
  PROVE  Inv'
<1> USE SameOwners
<1> DEFINE p == <<"hb", i>>
           new == [alloc[i] EXCEPT !.left = TTL]
<1>0. /\ upd \in [Coroutines -> Updates \cup {NoUpd}]
      /\ p \in Coroutines
      /\ Stands(i)
      /\ UNCHANGED <<alloc, owner, ful, rel, dmn, task, orphans>>
  BY CoroutineNames DEF Typed, UpdTyped, Inv, HeartbeatRead
<1>1. /\ ~Missing(i) /\ alloc[i].status = "success" /\ alloc[i].left > 0
      /\ Idle(i) /\ Holds(i) /\ alloc[i] \in Records
  BY DEF HeartbeatRead, Timely, TimelyWorld, Idle, Holds, Missing, Typed
<1>2. Over(i) /\ alloc[i].hw \subseteq OwnedBy(i) /\ ~Quiet(i)
  BY <1>0, <1>1 DEF Stands, ServedByFulfil, SuccessHeld, Open, Quiet, Checked
<1>3. task[i].st = "none" /\ task[i].todo = {}
  BY <1>0, <1>2 DEF Stands, TaskFreesOwn
<1>4. upd' = [upd EXCEPT ![p] = [id |-> i, kw |-> << >>, copy |-> new]]
  BY DEF HeartbeatRead
<1>5. OneCoroutine("hb", i)
  BY <1>0, <1>4 DEF OneCoroutine
<1>6. /\ new \in Records /\ new.status = "success" /\ new.left > 0
      /\ new.hw \subseteq OwnedBy(i)
  <2>1. new \in Records /\ new.status = "success" /\ new.left = TTL /\ new.hw = alloc[i].hw
    BY <1>1, RenewedRecord
  <2> QED
    BY <1>2, <2>1 DEF ConstantsAssumption
<1>7. upd'[p].id = i /\ upd'[p].copy = new
  BY <1>0, <1>4
<1>8. \A b \in {"ful", "rel"} : upd'[<<b, i>>] = upd[<<b, i>>]
  BY <1>5, OneFrame
<1>9. /\ Over(i)'
      /\ Holds(i)' /\ ~Missing(i)' /\ Idle(i)'
      /\ Updating(<<"rel", i>>)' <=> Updating(<<"rel", i>>)
  BY <1>0, <1>1, <1>2, <1>8 DEF Over, PastCall, Updating, Holds, Missing, Idle
<1>10. SuccessHeld(i)' /\ TaskFreesOwn(i)'
  BY <1>0, <1>2, <1>3 DEF SuccessHeld, TaskFreesOwn
<1> HIDE DEF new
<1>11. HeartbeatWrites(i)'
  BY <1>0, <1>1, <1>3, <1>6, <1>7, <1>9 DEF HeartbeatWrites
<1>12. ReleaseWrites(i)'
  BY <1>0, <1>1, <1>9 DEF Stands, ReleaseWrites, Idle
<1>13. SnapshotStands(i)'
  <2>1. ASSUME i \in dmn.todo
        PROVE  /\ dmn.pc # "sleep" /\ dmn.snap[i].status \notin Checked
               /\ ~(dmn.snap[i].status = "success" /\ Due(dmn.snap[i]))
    BY <1>0, <1>1, <1>2, <2>1 DEF Stands, SnapshotStands, Due, Records, Oldest, ConstantsAssumption
  <2> QED
    BY <1>0, <2>1 DEF SnapshotStands
<1>14. Spares(i)
  BY <1>2 DEF Spares
<1> QED
  BY <1>0, <1>5, <1>9, <1>10, <1>11, <1>12, <1>13, <1>14, OwnerSteps

\* update_status in a fulfil.
LEMMA FulfilUpdateKeeps ==
  ASSUME ConstantsAssumption, NullAssumption, Typed, Inv, NEW i \in Ids,
         UpdateRead(<<"ful", i>>) \/ UpdateWrite(<<"ful", i>>)
  PROVE  Inv'
<1> USE SameOwners
<1> DEFINE p == <<"ful", i>>
<1>0. /\ upd \in [Coroutines -> Updates \cup {NoUpd}]
      /\ ful \in [Ids -> Fulfils]
      /\ alloc \in [Ids -> Records \cup {NoRec}]
      /\ p \in Coroutines /\ p # Daemon
      /\ Stands(i)
      /\ UNCHANGED owner
  BY CoroutineNames DEF Typed, UpdTyped, FulTyped, Inv, UpdateRead, UpdateWrite, Daemon
<1>1. Updating(p) /\ ~Over(i) /\ upd[p] \in Updates
  BY <1>0 DEF UpdateRead, UpdateWrite, Over, Updating
<1>2. /\ upd[p].id = i
      /\ Intent(p).status = "success" => Intent(p).hw \subseteq OwnedBy(i)
      /\ Intent(p).status # "allocating" => PastCall(i)
  BY <1>0, <1>1 DEF Stands, FulfilWrites
<1>3. Missing(i) \/ alloc[i].status \in Open
  BY <1>0, <1>1 DEF Stands, ServedByFulfil
<1>4. CASE UpdateRead(p) /\ Missing(i)
  <2>1. upd' = [upd EXCEPT ![p] = NoUpd] /\ FulDies(i) /\ UNCHANGED <<alloc, rel, dmn, task, orphans>>
    BY <1>0, <1>2, <1>4 DEF UpdateRead, Dies
  <2>2. OneCoroutine("ful", i)
    BY <1>0, <2>1 DEF OneCoroutine, FulDies
  <2>3. Over(i)'
    BY <1>0, <2>1 DEF Over, PastCall, FulDies, Updating
  <2> QED
    BY <1>0, <2>1, <2>2, <2>3, FulfilEnds
<1>5. CASE UpdateRead(p) /\ ~Missing(i)
  <2>1. upd[p].copy = NoRec /\ upd[p].kw \in Arguments /\ Intent(p) = upd[p].kw
    BY <1>0, <1>1, <1>5 DEF UpdateRead, Intent, Typed, UpdTyped
  <2> DEFINE new == Updated(alloc[i], upd[p].kw)
  <2>2. /\ new \in Records /\ new.status = upd[p].kw.status
        /\ new.status = "success" => new.hw = upd[p].kw.hw
    BY <1>0, <1>5, <2>1, UpdatedIs DEF Missing
  <2>3. /\ upd' = [upd EXCEPT ![p] = [id |-> i, kw |-> << >>, copy |-> new]]
        /\ UNCHANGED <<alloc, ful, rel, dmn, task, orphans>>
    BY <1>0, <1>2, <1>5 DEF UpdateRead
  <2> HIDE DEF new
  <2>4. upd'[p] = [id |-> i, kw |-> << >>, copy |-> new]
    BY <1>0, <2>3
  <2>5. Intent(p)' = new
    BY <2>2, <2>4 DEF Intent, NullAssumption
  <2>6. FulfilWrites(i)'
    BY <1>0, <1>2, <2>1, <2>2, <2>3, <2>4, <2>5 DEF FulfilWrites, PastCall
  <2>7. ServedByFulfil(i)' /\ SuccessHeld(i)'
    BY <1>3, <2>3 DEF ServedByFulfil, SuccessHeld, Holds, Missing, Open
  <2>8. OneCoroutine("ful", i)
    BY <1>0, <2>3 DEF OneCoroutine
  <2> QED
    BY <1>0, <1>1, <2>3, <2>6, <2>7, <2>8, FulfilSteps
<1>6. CASE UpdateWrite(p)
  <2>1. upd[p].copy \in Records /\ Intent(p) = upd[p].copy
    BY <1>1, <1>6 DEF UpdateWrite, Intent, Updates
  <2>2. /\ alloc' = [alloc EXCEPT ![i] = upd[p].copy]
        /\ upd' = [upd EXCEPT ![p] = NoUpd]
        /\ UNCHANGED <<ful, rel, dmn, task, orphans>>
    BY <1>2, <1>6 DEF UpdateWrite, Save
  <2>3. alloc'[i] = upd[p].copy /\ ~Updating(p)'
    BY <1>0, <2>2 DEF Updating
  <2>4. ServedByFulfil(i)' /\ SuccessHeld(i)'
    BY <1>0, <1>2, <2>1, <2>2, <2>3 DEF ServedByFulfil, SuccessHeld, Holds, Over, PastCall, Open
  <2>5. FulfilWrites(i)'
    BY <2>3 DEF FulfilWrites
  <2>6. OneCoroutine("ful", i)
    BY <1>0, <2>2 DEF OneCoroutine
  <2> QED
    BY <1>0, <1>1, <2>2, <2>4, <2>5, <2>6, FulfilSteps
<1> QED
  BY <1>2, <1>4, <1>5, <1>6

\* update_status in a release.
LEMMA ReleaseUpdateKeeps ==
  ASSUME ConstantsAssumption, NullAssumption, Typed, Inv, NEW i \in Ids,
         UpdateRead(<<"rel", i>>) \/ UpdateWrite(<<"rel", i>>)
  PROVE  Inv'
<1> USE SameOwners
<1> DEFINE p == <<"rel", i>>
<1>0. /\ upd \in [Coroutines -> Updates \cup {NoUpd}]
      /\ rel \in [Ids -> Releases]
      /\ alloc \in [Ids -> Records \cup {NoRec}]
      /\ p \in Coroutines /\ p # Daemon
      /\ Stands(i)
      /\ UNCHANGED owner
  BY CoroutineNames DEF Typed, UpdTyped, Inv, UpdateRead, UpdateWrite, Daemon
<1>1. Updating(p) /\ upd[p] \in Updates
  BY <1>0 DEF UpdateRead, UpdateWrite, Updating
<1>2. rel[i].pc = "delete" /\ upd[p].id = i /\ Intent(p).status = "deallocated"
  BY <1>0, <1>1 DEF Stands, ReleaseWrites
<1>3. ~Idle(i) /\ rel[i].todo = {}
  BY <1>0, <1>2 DEF Stands, ReleaseWrites, Idle
<1>4. Over(i) /\ ~Beats(i) /\ task[i].st = "none" /\ task[i].todo = {}
  BY <1>0, <1>3 DEF Stands, ReleaseWrites, TaskFreesOwn
<1>5. ASSUME OneCoroutine("rel", i), UNCHANGED <<ful, task, dmn, orphans>>,
             SuccessHeld(i)', ReleaseWrites(i)', rel'[i].todo = {},
             Missing(i)' \/ alloc'[i].status = "deallocated" \/ alloc' = alloc
      PROVE  Inv'
  <2>1. \A b \in {"ful", "hb"} : upd'[<<b, i>>] = upd[<<b, i>>]
    BY <1>5, OneFrame
  <2>2. Over(i)' /\ ~Beats(i)'
    BY <1>4, <1>5, <2>1 DEF Over, PastCall, Beats, Updating
  <2>3. HeartbeatWrites(i)' /\ TaskFreesOwn(i)'
    BY <1>4, <1>5, <2>2 DEF HeartbeatWrites, TaskFreesOwn
  <2>4. Quiet(i) => Quiet(i)'
    BY <1>5, <2>2 DEF Quiet, Checked, Statuses, Missing
  <2>5. SnapshotStands(i)'
    BY <1>0, <1>3, <1>5, <2>4 DEF Stands, SnapshotStands, Due
  <2>6. Spares(i)
    BY <1>0, <1>3, <1>5, <2>4 DEF Spares
  <2> QED
    BY <1>5, <2>2, <2>3, <2>5, <2>6, OwnerSteps
<1>6. CASE UpdateRead(p) /\ Missing(i)
  <2>1. upd' = [upd EXCEPT ![p] = NoUpd] /\ RelEnds(i) /\ UNCHANGED <<alloc, ful, dmn, task, orphans>>
    BY <1>0, <1>2, <1>6 DEF UpdateRead, Dies
  <2>2. OneCoroutine("rel", i)
    BY <1>0, <2>1 DEF OneCoroutine, RelEnds
  <2>3. rel'[i] = [pc |-> "idle", todo |-> {}] /\ ~Updating(p)' /\ Missing(i)'
    BY <1>0, <1>6, <2>1 DEF RelEnds, Updating, Missing
  <2>4. SuccessHeld(i)' /\ ReleaseWrites(i)'
    BY <2>3 DEF SuccessHeld, ReleaseWrites, Holds, Idle
  <2> QED
    BY <1>5, <2>1, <2>2, <2>3, <2>4
<1>7. CASE UpdateRead(p) /\ ~Missing(i)
  <2>1. upd[p].copy = NoRec /\ upd[p].kw \in Arguments /\ Intent(p) = upd[p].kw
    BY <1>0, <1>1, <1>7 DEF UpdateRead, Intent, Typed, UpdTyped
  <2> DEFINE new == Updated(alloc[i], upd[p].kw)
  <2>2. new \in Records /\ new.status = upd[p].kw.status
    BY <1>0, <1>7, <2>1, UpdatedIs DEF Missing
  <2>3. /\ upd' = [upd EXCEPT ![p] = [id |-> i, kw |-> << >>, copy |-> new]]
        /\ UNCHANGED <<alloc, ful, rel, dmn, task, orphans>>
    BY <1>0, <1>2, <1>7 DEF UpdateRead
  <2> HIDE DEF new
  <2>4. upd'[p] = [id |-> i, kw |-> << >>, copy |-> new]
    BY <1>0, <2>3
  <2>5. Intent(p)' = new
    BY <2>2, <2>4 DEF Intent, NullAssumption
  <2>6. OneCoroutine("rel", i)
    BY <1>0, <2>3 DEF OneCoroutine
  <2>7. \A b \in {"ful", "hb"} : upd'[<<b, i>>] = upd[<<b, i>>]
    BY <2>6, OneFrame
  <2>8. Over(i)' /\ ~Beats(i)' /\ ~Idle(i)'
    BY <1>3, <1>4, <2>3, <2>7 DEF Over, PastCall, Beats, Updating, Idle
  <2>9. SuccessHeld(i)'
    BY <2>8 DEF SuccessHeld
  <2>10. Holds(i)' <=> Holds(i)
    BY <2>3 DEF Holds, Missing
  <2>11. ReleaseWrites(i)'
    BY <1>0, <1>2, <1>3, <2>1, <2>2, <2>3, <2>4, <2>5, <2>8, <2>10 DEF Stands, ReleaseWrites
  <2> QED
    BY <1>3, <1>5, <2>3, <2>6, <2>9, <2>11 DEF Missing
<1>8. CASE UpdateWrite(p)
  <2>1. upd[p].copy \in Records /\ upd[p].copy.status = "deallocated"
    BY <1>1, <1>2, <1>8 DEF UpdateWrite, Intent, Updates
  <2>2. /\ alloc' = [alloc EXCEPT ![i] = upd[p].copy]
        /\ upd' = [upd EXCEPT ![p] = NoUpd]
        /\ UNCHANGED <<ful, rel, dmn, task, orphans>>
    BY <1>2, <1>8 DEF UpdateWrite, Save
  <2>3. alloc'[i].status = "deallocated" /\ ~Updating(p)' /\ ~Holds(i)'
    BY <1>0, <2>1, <2>2 DEF Updating, Holds
  <2>4. OneCoroutine("rel", i)
    BY <1>0, <2>2 DEF OneCoroutine
  <2>5. \A b \in {"ful", "hb"} : upd'[<<b, i>>] = upd[<<b, i>>]
    BY <2>4, OneFrame
  <2>6. Over(i)' /\ ~Beats(i)'
    BY <1>4, <2>2, <2>5 DEF Over, PastCall, Beats, Updating
  <2>7. SuccessHeld(i)' /\ ReleaseWrites(i)'
    BY <1>3, <2>2, <2>3, <2>6 DEF SuccessHeld, ReleaseWrites
  <2> QED
    BY <1>3, <1>5, <2>2, <2>3, <2>4, <2>7
<1> QED
  BY <1>2, <1>6, <1>7, <1>8

\* update_status in a heartbeat, and the one in the daemon.
LEMMA HeartbeatUpdateKeeps ==
  ASSUME ConstantsAssumption, NullAssumption, Typed, Inv, NEW i \in Ids,
         UpdateRead(<<"hb", i>>) \/ UpdateWrite(<<"hb", i>>)
  PROVE  Inv'
<1> USE SameOwners
<1> DEFINE p == <<"hb", i>>
<1>0. /\ upd \in [Coroutines -> Updates \cup {NoUpd}]
      /\ alloc \in [Ids -> Records \cup {NoRec}]
      /\ p \in Coroutines
      /\ Stands(i)
  BY CoroutineNames DEF Typed, UpdTyped, Inv
<1>1. Updating(p) /\ Beats(i)
  BY DEF UpdateRead, UpdateWrite, Beats
<1>2. /\ upd[p].id = i
      /\ upd[p].copy \in Records /\ upd[p].copy.status = "success" /\ upd[p].copy.left > 0
      /\ upd[p].copy.hw \subseteq OwnedBy(i)
      /\ Over(i) /\ Idle(i) /\ task[i].st = "none"
  BY <1>0, <1>1 DEF Stands, HeartbeatWrites
<1>3. UpdateWrite(p)
  BY <1>2 DEF UpdateRead, NullAssumption
<1>4. /\ alloc' = [alloc EXCEPT ![i] = upd[p].copy]
      /\ upd' = [upd EXCEPT ![p] = NoUpd]
      /\ UNCHANGED <<owner, ful, rel, dmn, task, orphans>>
  BY <1>2, <1>3 DEF UpdateWrite, Save
<1>5. OneCoroutine("hb", i)
  BY <1>0, <1>4 DEF OneCoroutine
<1>6. \A b \in {"ful", "rel"} : upd'[<<b, i>>] = upd[<<b, i>>]
  BY <1>5, OneFrame
<1>7. alloc'[i] = upd[p].copy /\ ~Beats(i)' /\ Over(i)' /\ Idle(i)' /\ ~Quiet(i)
  BY <1>0, <1>1, <1>2, <1>4, <1>6 DEF Beats, Updating, Over, PastCall, Idle, Quiet
<1>8. SuccessHeld(i)' /\ HeartbeatWrites(i)'
  BY <1>2, <1>4, <1>7 DEF SuccessHeld, HeartbeatWrites
<1>9. ReleaseWrites(i)'
  BY <1>0, <1>2, <1>4, <1>6, <1>7 DEF Stands, ReleaseWrites, Idle, Updating
<1>10. TaskFreesOwn(i)'
  BY <1>0, <1>2, <1>4 DEF Stands, TaskFreesOwn
<1>11. SnapshotStands(i)'
  BY <1>0, <1>1, <1>4, <1>7 DEF Stands, SnapshotStands
<1>12. Spares(i)
  BY <1>7 DEF Spares
<1> QED
  BY <1>4, <1>5, <1>7, <1>8, <1>9, <1>10, <1>11, <1>12, OwnerSteps

\* A pass that ends in an exception leaves its tasks behind.
LEMMA AbortKeeps ==
  ASSUME ConstantsAssumption, NullAssumption, Typed, Inv, Updating(Daemon),
         PassAborts, upd' = [upd EXCEPT ![Daemon] = NoUpd],
         UNCHANGED <<alloc, owner, ful, rel>>
  PROVE  Inv'
<1> USE SameOwners
<1>0. /\ dmn' = Asleep /\ task' = [i \in Ids |-> NoTask]
      /\ orphans' = orphans \cup {task[i].todo : i \in {j \in Ids : task[j].st = "running"}}
  BY DEF PassAborts
<1>1. orphans = {} /\ ~Updating(Daemon)'
  BY CoroutineNames DEF Inv, PassWrites, OrphansFreeOwn, Updating, Typed, UpdTyped
<1>2. ASSUME NEW i \in Ids
      PROVE  Untouched(i)
  <2>1. \A a \in {"ful", "rel", "hb"} : <<a, i>> \in Coroutines /\ <<a, i>> # Daemon
    BY CoroutineNames DEF Daemon
  <2> QED
    BY <2>1 DEF Untouched, Typed, UpdTyped
<1>3. ASSUME NEW i \in Ids
      PROVE  Stands(i)'
  <2>1. PassLeaves(i)
    BY <1>0 DEF PassLeaves, Asleep, NoTask
  <2> QED
    BY <1>2, <2>1, OtherStands DEF Inv
<1>4. ASSUME NEW ms \in orphans'
      PROVE  \E i \in Ids : ms = task[i].todo /\ Quiet(i)' /\ Idle(i)' /\ ms \subseteq OwnedBy(i)'
  <2>1. PICK i \in Ids : task[i].st = "running" /\ ms = task[i].todo
    BY <1>0, <1>1
  <2>2. Quiet(i) /\ Idle(i) /\ ms \subseteq OwnedBy(i)
    BY <2>1 DEF Inv, Stands, TaskFreesOwn
  <2>3. Quiet(i)' /\ Idle(i)' /\ ms \subseteq OwnedBy(i)'
    BY <1>2, <2>2, UntouchedSame
  <2> QED
    BY <2>1, <2>3
<1>5. ASSUME NEW ms \in orphans', NEW ns \in orphans', ms # ns
      PROVE  ms \cap ns = {}
  <2>1. PICK i \in Ids : ms = task[i].todo /\ ms \subseteq OwnedBy(i)'
    BY <1>4
  <2>2. PICK j \in Ids : ns = task[j].todo /\ ns \subseteq OwnedBy(j)'
    BY <1>4
  <2>3. i # j
    BY <1>5, <2>1, <2>2
  <2>4. OwnedBy(i)' \cap OwnedBy(j)' = {}
    BY <2>3 DEF OwnedBy
  <2> QED
    BY <2>1, <2>2, <2>4
<1>6. OrphansFreeOwn'
  BY <1>0, <1>4, <1>5 DEF OrphansFreeOwn, Asleep
<1>7. PassWrites' /\ PassChecks'
  BY <1>0, <1>1 DEF PassWrites, PassChecks, Asleep
<1> QED
  BY <1>3, <1>6, <1>7 DEF Inv

LEMMA DaemonUpdateKeeps ==
  ASSUME ConstantsAssumption, NullAssumption, Typed, Inv,
         UpdateRead(Daemon) \/ UpdateWrite(Daemon)
  PROVE  Inv'
<1> USE SameOwners
<1>0. /\ upd \in [Coroutines -> Updates \cup {NoUpd}]
      /\ alloc \in [Ids -> Records \cup {NoRec}]
      /\ Daemon \in Coroutines
      /\ \A j \in Ids, a \in {"ful", "rel", "hb"} : <<a, j>> \in Coroutines /\ <<a, j>> # Daemon
      /\ Updating(Daemon)
  BY CoroutineNames DEF Typed, UpdTyped, Daemon, UpdateRead, UpdateWrite
<1>1. upd[Daemon] \in Updates
  BY <1>0 DEF Updating
<1>1a. PICK i \in Ids : i = upd[Daemon].id
  BY <1>1 DEF Updates
<1>2. /\ Quiet(i) /\ i \notin dmn.todo /\ task[i].st = "none" /\ dmn.pc = "loop"
      /\ Intent(Daemon).status \notin Open
      /\ Intent(Daemon).status = "success" =>
           Intent(Daemon).hw \subseteq OwnedBy(i) /\ Intent(Daemon).left > 0
  BY <1>0, <1>1a DEF Inv, PassWrites
<1>3. CASE UpdateRead(Daemon) /\ Missing(i)
  <2>1. Daemon[1] # "ful" /\ Daemon[1] # "rel"
    BY DEF Daemon
  <2>2. PassAborts /\ upd' = [upd EXCEPT ![Daemon] = NoUpd] /\ UNCHANGED <<alloc, owner, ful, rel>>
    BY <1>3, <1>1a, <2>1 DEF UpdateRead, Dies
  <2> QED
    BY <1>0, <2>2, AbortKeeps
<1>4. ASSUME UNCHANGED <<owner, ful, rel, dmn, task, orphans>>,
             \A p \in Coroutines \ {Daemon} : upd'[p] = upd[p],
             \A j \in Ids \ {i} : alloc'[j] = alloc[j],
             Stands(i)', PassWrites'
      PROVE  Inv'
  <2>1. ASSUME NEW j \in Ids
        PROVE  Stands(j)'
    <3>1. CASE j = i
      BY <1>4, <3>1
    <3>2. CASE j # i
      <4>1. Untouched(j)
        BY <1>0, <1>4, <3>2 DEF Untouched
      <4>2. PassLeaves(j) /\ Stands(j)
        BY <1>4 DEF PassLeaves, Inv, Stands, TaskFreesOwn, SnapshotStands
      <4> QED
        BY <4>1, <4>2, OtherStands
    <3> QED
      BY <3>1, <3>2
  <2>2. orphans = {}
    BY <1>2 DEF Inv, OrphansFreeOwn
  <2>3. PassChecks' /\ OrphansFreeOwn'
    BY <1>2, <1>4, <2>2 DEF Inv, PassChecks, OrphansFreeOwn
  <2> QED
    BY <1>4, <2>1, <2>3 DEF Inv
<1>5. CASE UpdateRead(Daemon) /\ ~Missing(i)
  <2>1. upd[Daemon].copy = NoRec /\ upd[Daemon].kw \in Arguments /\ Intent(Daemon) = upd[Daemon].kw
    BY <1>0, <1>5, <1>1a DEF UpdateRead, Intent, Typed, UpdTyped
  <2> DEFINE new == Updated(alloc[i], upd[Daemon].kw)
  <2>2. /\ new \in Records /\ new.status = upd[Daemon].kw.status
        /\ new.status = "success" => new.hw = upd[Daemon].kw.hw /\ new.left = upd[Daemon].kw.left
    BY <1>0, <1>1, <1>5, <2>1, UpdatedIs DEF Missing
  <2>3. /\ upd' = [upd EXCEPT ![Daemon] = [id |-> i, kw |-> << >>, copy |-> new]]
        /\ UNCHANGED <<alloc, owner, ful, rel, dmn, task, orphans>>
    BY <1>0, <1>5, <1>1a DEF UpdateRead
  <2> HIDE DEF new
  <2>4. upd'[Daemon] = [id |-> i, kw |-> << >>, copy |-> new]
    BY <1>0, <2>3
  <2>5. Intent(Daemon)' = new
    BY <2>2, <2>4 DEF Intent, NullAssumption
  <2>6. \A p \in Coroutines \ {Daemon} : upd'[p] = upd[p]
    BY <1>0, <2>3
  <2>7. Untouched(i)
    BY <1>0, <1>1, <2>3, <2>6 DEF Untouched
  <2>8. Stands(i)'
    <3>1. PassLeaves(i) /\ Stands(i)
      BY <1>1, <1>2, <2>3 DEF PassLeaves, Inv
    <3> QED
      BY <1>1, <2>7, <3>1, OtherStands
  <2>9. PassWrites'
    <3>1. Quiet(i)' /\ OwnedBy(i)' = OwnedBy(i)
      BY <1>1, <1>2, <2>3, <2>7, UntouchedSame
    <3> QED
      BY <1>2, <2>1, <2>2, <2>3, <2>4, <2>5, <3>1 DEF PassWrites
  <2> QED
    BY <1>4, <2>3, <2>6, <2>8, <2>9
<1>6. CASE UpdateWrite(Daemon)
  <2>1. upd[Daemon].copy \in Records /\ Intent(Daemon) = upd[Daemon].copy
    BY <1>1, <1>6 DEF UpdateWrite, Intent, Updates
  <2> DEFINE new == upd[Daemon].copy
  <2>2. /\ alloc' = [alloc EXCEPT ![i] = new]
        /\ upd' = [upd EXCEPT ![Daemon] = NoUpd]
        /\ UNCHANGED <<owner, ful, rel, dmn, task, orphans>>
    BY <1>6, <1>1a DEF UpdateWrite, Save
  <2>3. /\ alloc'[i] = new /\ ~Updating(Daemon)'
        /\ \A p \in Coroutines \ {Daemon} : upd'[p] = upd[p]
    BY <1>0, <1>1, <2>2 DEF Updating
  <2>4. \A a \in {"ful", "rel", "hb"} : upd'[<<a, i>>] = upd[<<a, i>>]
    BY <1>0, <1>1, <2>3
  <2>5. /\ Over(i)' /\ ~Beats(i)' /\ rel[i].todo = {} /\ Stands(i)
        /\ Updating(<<"rel", i>>)' <=> Updating(<<"rel", i>>)
        /\ Intent(<<"rel", i>>)' = Intent(<<"rel", i>>)
        /\ Idle(i)' <=> Idle(i)
    BY <1>1, <1>2, <2>2, <2>4 DEF Quiet, Over, PastCall, Beats, Idle, Updating, Intent, Inv
  <2>6. Holds(i)' => new.hw \subseteq OwnedBy(i) /\ new.left > 0
    BY <1>2, <2>1, <2>3 DEF Holds
  <2>7. ServedByFulfil(i)' /\ SuccessHeld(i)' /\ FulfilWrites(i)' /\ HeartbeatWrites(i)'
    BY <2>2, <2>3, <2>5, <2>6
    DEF ServedByFulfil, SuccessHeld, FulfilWrites, HeartbeatWrites, Over
  <2>8. ReleaseWrites(i)'
    BY <2>2, <2>3, <2>4, <2>5, <2>6 DEF Stands, ReleaseWrites
  <2>9. TaskFreesOwn(i)' /\ SnapshotStands(i)'
    BY <1>2, <2>2, <2>5 DEF Stands, TaskFreesOwn, SnapshotStands
  <2>10. Stands(i)'
    BY <2>7, <2>8, <2>9 DEF Stands
  <2>11. PassWrites'
    BY <2>3 DEF PassWrites
  <2> QED
    BY <1>0, <1>4, <2>2, <2>3, <2>10, <2>11
<1> QED
  BY <1>3, <1>5, <1>6

\* A deallocation task frees machines of its own allocation.
LEMMA TaskKeeps ==
  ASSUME ConstantsAssumption, NullAssumption, Typed, Inv, NEW i \in Ids,
         TaskFrees(i) \/ TaskFails(i)
  PROVE  Inv'
<1>0. /\ UNCHANGED <<alloc, ful, rel, upd, dmn, orphans>>
      /\ Stands(i) /\ task \in [Ids -> Tasks] /\ task[i] \in Tasks
      /\ task[i].st = "running"
  BY DEF TaskFrees, TaskFails, Inv, Typed
<1>1. /\ Quiet(i) /\ Idle(i) /\ i \notin dmn.todo /\ dmn.pc # "sleep"
      /\ task[i].todo \subseteq OwnedBy(i)
  BY <1>0 DEF Stands, TaskFreesOwn
<1>2. /\ \A j \in Ids \ {i} : OwnedBy(j) \subseteq OwnedBy(j)'
      /\ task'[i].st \in {"running", "failed"}
      /\ task'[i].todo \subseteq OwnedBy(i)'
      /\ task'[i].todo # {} => task'[i].st = "running"
      /\ \A j \in Ids \ {i} : task'[j] = task[j]
  <2>1. CASE TaskFrees(i)
    <3>1. PICK m \in task[i].todo : FreeMachine(m) /\ task' = [task EXCEPT ![i].todo = @ \ {m}]
      BY <2>1 DEF TaskFrees
    <3>2. /\ \A j \in Ids \ {i} : OwnedBy(j)' = OwnedBy(j)
          /\ OwnedBy(i)' = OwnedBy(i) \ {m}
      BY <1>1, <3>1, FreeKeeps
    <3>3. /\ task'[i].st = "running" /\ task'[i].todo = task[i].todo \ {m}
          /\ \A j \in Ids \ {i} : task'[j] = task[j]
      BY <1>0, <3>1 DEF Tasks
    <3> QED
      BY <1>1, <3>2, <3>3
  <2>2. CASE TaskFails(i)
    <3>1. \A j \in Ids \ {i} : OwnedBy(j) \subseteq OwnedBy(j)'
      BY <1>1, <2>2, FreeKeeps, SameOwners DEF TaskFails
    <3> QED
      BY <1>0, <2>2, <3>1 DEF TaskFails
  <2> QED
    BY <2>1, <2>2
<1>3. OneCoroutine("ful", i)
  BY <1>0, <1>2 DEF OneCoroutine
<1>4. /\ Quiet(i)' /\ Over(i)' /\ ~Beats(i)' /\ Idle(i)' /\ ~Holds(i)'
      /\ ~Updating(<<"rel", i>>)' /\ rel'[i].todo = {}
  BY <1>0, <1>1
  DEF Stands, ReleaseWrites, Quiet, Over, PastCall, Beats, Idle, Holds, Missing, Updating, Checked
<1>5. SuccessHeld(i)' /\ HeartbeatWrites(i)' /\ ReleaseWrites(i)'
  BY <1>4 DEF SuccessHeld, HeartbeatWrites, ReleaseWrites
<1>6. TaskFreesOwn(i)' /\ SnapshotStands(i)'
  BY <1>0, <1>1, <1>2, <1>4 DEF TaskFreesOwn, SnapshotStands
<1>7. Spares(i)
  BY <1>0 DEF Spares
<1>8. /\ \A j \in Ids \ {i} : Untouched(j) /\ task'[j] = task[j]
      /\ upd'[Daemon] = upd[Daemon]
  BY <1>2, <1>3, OneFrame
<1>9. ServedByFulfil(i)' /\ FulfilWrites(i)'
  BY <1>4 DEF ServedByFulfil, FulfilWrites, Over
<1>10. Stands(i)'
  BY <1>5, <1>6, <1>9 DEF Stands
<1> QED
  BY <1>0, <1>7, <1>8, <1>10, OneSteps

\* A call that runs on grants free machines, a registration changes nothing here.
LEMMA DetachedKeeps ==
  ASSUME ConstantsAssumption, NullAssumption, Typed, Inv,
         (\E c \in detached : DetachedRuns(c)) \/ (\E r \in RMs : Register(r))
  PROVE  Inv'
<1>1. UNCHANGED <<alloc, ful, rel, upd, dmn, task, orphans>>
  BY DEF DetachedRuns, Register
<1>2. \A j \in Ids : OwnedBy(j) \subseteq OwnedBy(j)'
  <2>1. ASSUME NEW c \in detached, DetachedRuns(c)
        PROVE  \A j \in Ids : OwnedBy(j) \subseteq OwnedBy(j)'
    <3>1. c.id \in Ids
      BY DEF Typed
    <3> QED
      BY <2>1, <3>1, GrantKeeps, SameOwners DEF DetachedRuns
  <2>2. ASSUME NEW r \in RMs, Register(r)
        PROVE  \A j \in Ids : OwnedBy(j) \subseteq OwnedBy(j)'
    BY <2>2, SameOwners DEF Register
  <2> QED
    BY <2>1, <2>2
<1>3. ASSUME NEW j \in Ids
      PROVE  Untouched(j) /\ Stands(j)'
  <2>1. Untouched(j)
    BY <1>1, <1>2 DEF Untouched
  <2>2. Stands(j)
    BY DEF Inv
  <2>3. PassLeaves(j)
    BY <1>1, <2>2 DEF PassLeaves, Stands, TaskFreesOwn, SnapshotStands
  <2> QED
    BY <2>1, <2>2, <2>3, OtherStands
<1>4. \A j \in Ids : (Quiet(j)' <=> Quiet(j)) /\ (Idle(j)' <=> Idle(j))
  BY <1>3, UntouchedSame
<1>5. PassWrites'
  <2>1. /\ Updating(Daemon)' <=> Updating(Daemon)
        /\ Intent(Daemon)' = Intent(Daemon)
    BY <1>1 DEF Updating, Intent
  <2>2. Updating(Daemon) => upd[Daemon].id \in Ids
    BY CoroutineNames DEF Typed, UpdTyped, Updating, Updates
  <2> QED
    BY <1>1, <1>2, <1>4, <2>1, <2>2 DEF Inv, PassWrites
<1>6. PassChecks' /\ OrphansFreeOwn'
  BY <1>1, <1>2, <1>4 DEF Inv, PassChecks, OrphansFreeOwn
<1> QED
  BY <1>3, <1>5, <1>6 DEF Inv

\* What an orphaned task frees is its allocation's own, and nobody else's concern.
LEMMA OrphanKeeps ==
  ASSUME ConstantsAssumption, NullAssumption, Typed, Inv, NEW ms \in orphans, OrphanRuns(ms)
  PROVE  Inv'
<1>0. /\ UNCHANGED <<alloc, ful, rel, upd, dmn, task>>
      /\ dmn.pc = "sleep" /\ ~Updating(Daemon)
  BY DEF OrphanRuns, Inv, OrphansFreeOwn, PassWrites
<1>1. PassWrites' /\ PassChecks'
  BY <1>0 DEF Updating, PassWrites, PassChecks
<1>2. CASE orphans' = orphans \ {ms} /\ UNCHANGED owner
  <2>1. ASSUME NEW j \in Ids
        PROVE  Untouched(j) /\ Stands(j)'
    <3>1. Untouched(j)
      BY <1>0, <1>2, SameOwners DEF Untouched
    <3>2. Stands(j)
      BY DEF Inv
    <3>3. PassLeaves(j)
      BY <1>0, <3>2 DEF PassLeaves, Stands, TaskFreesOwn, SnapshotStands
    <3> QED
      BY <3>1, <3>2, <3>3, OtherStands
  <2>2. \A j \in Ids : (Quiet(j)' <=> Quiet(j)) /\ (Idle(j)' <=> Idle(j)) /\ OwnedBy(j)' = OwnedBy(j)
    BY <1>2, <2>1, UntouchedSame, SameOwners
  <2>3. OrphansFreeOwn'
    BY <1>0, <1>2, <2>2 DEF Inv, OrphansFreeOwn
  <2> QED
    BY <1>1, <2>1, <2>3 DEF Inv
<1>3. ASSUME NEW m \in ms, FreeMachine(m), orphans' = (orphans \ {ms}) \cup {ms \ {m}}
      PROVE  Inv'
  <2>1. PICK i \in Ids : Quiet(i) /\ Idle(i) /\ ms \subseteq OwnedBy(i)
    BY <1>3 DEF Inv, OrphansFreeOwn
  <2>2. /\ \A j \in Ids \ {i} : OwnedBy(j)' = OwnedBy(j)
        /\ OwnedBy(i)' = OwnedBy(i) \ {m}
    BY <1>3, <2>1, FreeKeeps
  <2>3. /\ Quiet(i)' /\ Over(i)' /\ ~Beats(i)' /\ Idle(i)' /\ ~Holds(i)'
        /\ ~Updating(<<"rel", i>>)' /\ rel'[i].todo = {}
    BY <1>0, <2>1
    DEF Inv, Stands, ReleaseWrites, Quiet, Over, PastCall, Beats, Idle, Holds, Missing,
        Updating, Checked
  <2>4. ASSUME NEW j \in Ids
        PROVE  Stands(j)'
    <3>1. Stands(j)
      BY DEF Inv
    <3>2. task[j].st = "none" /\ task[j].todo = {} /\ j \notin dmn.todo
      BY <1>0, <3>1 DEF Stands, TaskFreesOwn, SnapshotStands
    <3>3. CASE j = i
      <4>1. ServedByFulfil(i)' /\ SuccessHeld(i)' /\ FulfilWrites(i)' /\ HeartbeatWrites(i)'
        BY <2>3 DEF ServedByFulfil, SuccessHeld, FulfilWrites, HeartbeatWrites, Over
      <4>2. ReleaseWrites(i)'
        BY <2>3 DEF ReleaseWrites
      <4>3. TaskFreesOwn(i)' /\ SnapshotStands(i)'
        BY <1>0, <3>2, <3>3 DEF TaskFreesOwn, SnapshotStands
      <4> QED
        BY <3>3, <4>1, <4>2, <4>3 DEF Stands
    <3>4. CASE j # i
      <4>1. Untouched(j)
        BY <1>0, <2>2, <3>4 DEF Untouched
      <4>2. PassLeaves(j)
        BY <1>0, <3>2 DEF PassLeaves
      <4> QED
        BY <3>1, <4>1, <4>2, OtherStands
    <3> QED
      BY <3>3, <3>4
  <2>5. ASSUME NEW j \in Ids, Quiet(j), Idle(j)
        PROVE  Quiet(j)' /\ Idle(j)'
    <3>1. CASE j # i
      <4>1. Untouched(j)
        BY <1>0, <2>2, <3>1 DEF Untouched
      <4> QED
        BY <2>5, <4>1, UntouchedSame
    <3> QED
      BY <2>3, <3>1
  <2>6. ASSUME NEW ns \in orphans', ns # {}
        PROVE  \E j \in Ids : Quiet(j)' /\ Idle(j)' /\ ns \subseteq OwnedBy(j)'
    <3>1. CASE ns = ms \ {m}
      BY <2>1, <2>2, <2>3, <3>1
    <3>2. CASE ns # ms \ {m}
      <4>1. ns \in orphans /\ ns # ms
        BY <1>3, <3>2
      <4>2. m \notin ns
        BY <4>1 DEF Inv, OrphansFreeOwn
      <4>3. PICK j \in Ids : Quiet(j) /\ Idle(j) /\ ns \subseteq OwnedBy(j)
        BY <2>6, <4>1 DEF Inv, OrphansFreeOwn
      <4>4. ns \subseteq OwnedBy(j)'
        BY <2>2, <4>2, <4>3
      <4> QED
        BY <2>5, <4>3, <4>4
    <3> QED
      BY <3>1, <3>2
  <2>7. ASSUME NEW ns \in orphans', NEW os \in orphans', ns # os
        PROVE  ns \cap os = {}
    <3>1. \A xs, ys \in orphans : xs # ys => xs \cap ys = {}
      BY DEF Inv, OrphansFreeOwn
    <3>2. /\ ns \in orphans \ {ms} \/ ns = ms \ {m}
          /\ os \in orphans \ {ms} \/ os = ms \ {m}
      BY <1>3
    <3>3. \A xs \in orphans \ {ms} : xs \cap ms = {}
      BY <3>1
    <3> QED
      BY <2>7, <3>1, <3>2, <3>3
  <2>8. OrphansFreeOwn'
    BY <1>0, <2>6, <2>7 DEF OrphansFreeOwn
  <2> QED
    BY <1>1, <2>4, <2>8 DEF Inv
<1> QED
  BY <1>2, <1>3 DEF OrphanRuns

\* A step of a pass that deals with allocation i.
LEMMA PassSteps ==
  ASSUME ConstantsAssumption, Typed, Inv, NEW i \in Ids,
         dmn.pc # "sleep", UNCHANGED <<owner, ful, rel, orphans>>,
         \A p \in Coroutines \ {Daemon} : upd'[p] = upd[p],
         \A j \in Ids \ {i} : alloc'[j] = alloc[j] /\ PassLeaves(j),
         Stands(i)', PassWrites', PassChecks'
  PROVE  Inv'
<1>1. ASSUME NEW j \in Ids
      PROVE  Stands(j)'
  <2>1. CASE j = i
    BY <2>1
  <2>2. CASE j # i
    <3>1. \A a \in {"ful", "rel", "hb"} : <<a, j>> \in Coroutines \ {Daemon}
      BY CoroutineNames DEF Daemon
    <3>2. Untouched(j)
      BY <2>2, <3>1, SameOwners DEF Untouched
    <3> QED
      BY <2>2, <3>2, OtherStands DEF Inv
  <2> QED
    BY <2>1, <2>2
<1>2. orphans = {}
  BY DEF Inv, OrphansFreeOwn
<1>3. OrphansFreeOwn'
  BY <1>2 DEF OrphansFreeOwn
<1> QED
  BY <1>1, <1>3 DEF Inv

\* The allocation itself, when the daemon drops or forgets its record.
LEMMA PassedStands ==
  ASSUME ConstantsAssumption, NEW i \in Ids, Stands(i),
         UNCHANGED <<owner, ful, rel>>,
         \A p \in Coroutines \ {Daemon} : upd'[p] = upd[p],
         alloc'[i] = alloc[i] \/ (alloc'[i] = NoRec /\ i \notin dmn'.todo), PassLeaves(i)
  PROVE  Stands(i)'
<1>0. \A a \in {"ful", "rel", "hb"} : <<a, i>> \in Coroutines \ {Daemon}
  BY CoroutineNames DEF Daemon
<1>1. CASE alloc'[i] = alloc[i]
  BY <1>0, <1>1, SameOwners, OtherStands DEF Untouched
<1>2. CASE alloc'[i] = NoRec /\ i \notin dmn'.todo
  <2>1. /\ Missing(i)' /\ ~Holds(i)' /\ OwnedBy(i)' = OwnedBy(i)
        /\ rel'[i] = rel[i]
        /\ \A a \in {"ful", "rel", "hb"} : upd'[<<a, i>>] = upd[<<a, i>>]
    BY <1>0, <1>2, SameOwners DEF Missing, Holds
  <2>2. /\ PastCall(i)' <=> PastCall(i)
        /\ Over(i)' <=> Over(i)
        /\ Beats(i)' <=> Beats(i)
        /\ Idle(i)' <=> Idle(i)
        /\ \A a \in {"ful", "rel"} : /\ Updating(<<a, i>>)' <=> Updating(<<a, i>>)
                                     /\ Intent(<<a, i>>)' = Intent(<<a, i>>)
    BY <2>1 DEF PastCall, Over, Beats, Idle, Updating, Intent
  <2>3. Quiet(i) => Quiet(i)'
    BY <2>1, <2>2 DEF Quiet
  <2>4. ServedByFulfil(i)' /\ SuccessHeld(i)'
    BY <2>1 DEF ServedByFulfil, SuccessHeld
  <2>5. FulfilWrites(i)'
    BY <2>1, <2>2 DEF Stands, FulfilWrites
  <2>6. HeartbeatWrites(i)'
    BY <2>1, <2>2 DEF Stands, HeartbeatWrites, PassLeaves, NoTask
  <2>7. ReleaseWrites(i)'
    BY <2>1, <2>2 DEF Stands, ReleaseWrites
  <2>8. TaskFreesOwn(i)'
    BY <2>1, <2>2, <2>3 DEF Stands, TaskFreesOwn, PassLeaves, NoTask
  <2>9. SnapshotStands(i)'
    BY <1>2 DEF SnapshotStands
  <2> QED
    BY <2>4, <2>5, <2>6, <2>7, <2>8, <2>9 DEF Stands
<1> QED
  BY <1>1, <1>2

\* What the loop does to its snapshot.
LEMMA ThroughIs ==
  ASSUME Typed, Inv, NEW i \in Ids, dmn.pc # "sleep", Through(i)
  PROVE  /\ dmn'.pc = "loop" /\ i \notin dmn'.todo
         /\ \A j \in Ids \ {i} : task'[j] = task[j] => PassLeaves(j)
<1>1. /\ dmn'.pc = "loop" /\ dmn'.todo = dmn.todo \ {i}
      /\ dmn'.snap = [dmn.snap EXCEPT ![i] = NoRec]
  BY DEF Through
<1>2. dmn.snap \in [Ids -> Records \cup {NoRec}]
  BY DEF Typed, DmnTyped, Passes
<1>3. \A j \in Ids \ {i} : dmn'.snap[j] = dmn.snap[j]
  BY <1>1, <1>2
<1>4. ASSUME NEW j \in Ids \ {i}, task'[j] = task[j]
      PROVE  PassLeaves(j)
  BY <1>1, <1>3, <1>4 DEF PassLeaves, Inv, Stands, TaskFreesOwn
<1> QED
  BY <1>1, <1>4

LEMMA StayIs ==
  ASSUME Typed, Inv, NEW i \in Ids, NEW pc \in {"check", "expire"}, dmn.pc # "sleep", Stay(i, pc)
  PROVE  /\ dmn'.pc = pc /\ dmn'.cur = i /\ dmn'.todo = dmn.todo /\ dmn'.snap = dmn.snap
         /\ \A j \in Ids : task'[j] = task[j] => PassLeaves(j)
<1>1. dmn'.pc = pc /\ dmn'.cur = i /\ dmn'.todo = dmn.todo /\ dmn'.snap = dmn.snap
  BY DEF Stay, Typed, DmnTyped, Passes
<1>2. ASSUME NEW j \in Ids, task'[j] = task[j]
      PROVE  PassLeaves(j)
  BY <1>1, <1>2 DEF PassLeaves, Inv, Stands, TaskFreesOwn
<1> QED
  BY <1>1, <1>2

LEMMA PassLookKeeps ==
  ASSUME ConstantsAssumption, NullAssumption, Typed, Inv, NEW i \in Ids, PassLook(i)
  PROVE  Inv'
<1> DEFINE s == dmn.snap[i]
<1>0. /\ UNCHANGED <<owner, ful, rel, upd, task, orphans>>
      /\ dmn.pc = "loop" /\ dmn.pc # "sleep" /\ ~Updating(Daemon) /\ ~Updating(Daemon)'
      /\ i \in dmn.todo /\ s \in Records /\ Stands(i)
      /\ alloc \in [Ids -> Records \cup {NoRec}]
  BY DEF PassLook, DmnAt, Updating, Typed, DmnTyped, Inv
<1>1. PassWrites'
  BY <1>0 DEF PassWrites
<1>2. task[i].st = "none"
  BY <1>0 DEF Stands, TaskFreesOwn
<1>3. ASSUME NEW pc \in {"check", "expire"}, Stay(i, pc), UNCHANGED alloc,
             pc = "check" => s.status \in Checked
      PROVE  Inv'
  <2>1. /\ \A j \in Ids : PassLeaves(j)
        /\ dmn'.pc = pc /\ dmn'.cur = i /\ dmn'.snap = dmn.snap
    BY <1>0, <1>3, StayIs
  <2>2. PassChecks'
    BY <1>3, <2>1 DEF PassChecks
  <2>3. Stands(i)'
    BY <1>0, <1>3, <2>1, PassedStands
  <2> QED
    BY <1>0, <1>1, <1>3, <2>1, <2>2, <2>3, PassSteps
<1>4. CASE Delete(i) /\ Through(i)
  <2>1. /\ \A j \in Ids \ {i} : PassLeaves(j)
        /\ dmn'.pc = "loop" /\ i \notin dmn'.todo
    BY <1>0, <1>4, ThroughIs
  <2>2. PassChecks' /\ PassLeaves(i)
    BY <1>0, <1>2, <2>1 DEF PassChecks, PassLeaves
  <2>3. alloc'[i] = NoRec /\ \A j \in Ids \ {i} : alloc'[j] = alloc[j]
    BY <1>0, <1>4 DEF Delete, Save
  <2>4. Stands(i)'
    BY <1>0, <2>1, <2>2, <2>3, PassedStands
  <2> QED
    BY <1>0, <1>1, <2>1, <2>2, <2>3, <2>4, PassSteps
<1>5. s.status \notin {"received", "allocating", "success"} => s.status \in Checked
  BY <1>0 DEF Checked, Records
<1> QED
  BY <1>3, <1>4, <1>5 DEF PassLook

LEMMA PassCheckKeeps ==
  ASSUME ConstantsAssumption, NullAssumption, Typed, Inv, PassCheck
  PROVE  Inv'
<1>1. PICK i \in Ids : i = dmn.cur /\ i \in dmn.todo
  BY DEF PassCheck, DmnAt, Typed, DmnTyped, Passes
<1> DEFINE held == {m \in OwnedBy(i) : Home[m] = dmn.snap[i].rm}
<1>2. /\ UNCHANGED <<alloc, owner, ful, rel, task, orphans>>
      /\ dmn.pc = "check" /\ dmn.pc # "sleep" /\ ~Updating(Daemon) /\ Stands(i)
      /\ upd \in [Coroutines -> Updates \cup {NoUpd}] /\ Daemon \in Coroutines
  BY CoroutineNames DEF PassCheck, DmnAt, Typed, UpdTyped, Inv
<1>3. Quiet(i) /\ task[i].st = "none"
  BY <1>1, <1>2 DEF Inv, PassChecks, Stands, SnapshotStands, TaskFreesOwn
<1>4. Quiet(i)' <=> Quiet(i)
  <2>1. <<"ful", i>> \in Coroutines \ {Daemon} /\ <<"hb", i>> \in Coroutines \ {Daemon}
    BY CoroutineNames DEF Daemon
  <2>2. \A p \in Coroutines \ {Daemon} : upd'[p] = upd[p]
    BY <1>2 DEF PassCheck, Begin
  <2> QED
    BY <1>2, <2>1, <2>2 DEF Quiet, Over, PastCall, Beats, Missing, Updating
<1>5. CASE Stay(i, "expire") /\ UNCHANGED upd
  <2>1. /\ \A j \in Ids : PassLeaves(j)
        /\ dmn'.pc = "expire"
    BY <1>2, <1>5, StayIs
  <2>2. PassWrites' /\ PassChecks'
    BY <1>2, <1>5, <2>1 DEF PassWrites, PassChecks, Updating
  <2>3. Stands(i)'
    BY <1>2, <1>5, <2>1, PassedStands
  <2> QED
    BY <1>2, <1>5, <2>1, <2>2, <2>3, PassSteps
<1>6. ASSUME Through(i), NEW kw \in {Fulfilled(held), [status |-> "unknown"]},
             Begin(Daemon, i, kw)
      PROVE  Inv'
  <2>1. /\ \A j \in Ids \ {i} : PassLeaves(j)
        /\ dmn'.pc = "loop" /\ i \notin dmn'.todo
    BY <1>2, <1>6, ThroughIs
  <2>2. PassChecks' /\ PassLeaves(i)
    BY <1>2, <1>3, <2>1 DEF PassChecks, PassLeaves
  <2>3. /\ upd'[Daemon] = [id |-> i, kw |-> kw, copy |-> NoRec]
        /\ \A p \in Coroutines \ {Daemon} : upd'[p] = upd[p]
    BY <1>2, <1>6 DEF Begin
  <2>4. Stands(i)'
    BY <1>2, <2>2, <2>3, PassedStands
  <2>5. Intent(Daemon)' = kw
    BY <2>3 DEF Intent
  <2>6. /\ kw.status \notin Open
        /\ kw.status = "success" => kw.hw \subseteq OwnedBy(i) /\ kw.left > 0
    BY <1>6 DEF Fulfilled, Open, ConstantsAssumption
  <2>7. OwnedBy(i)' = OwnedBy(i)
    BY <1>2, SameOwners
  <2>8. PassWrites'
    BY <1>2, <1>3, <1>4, <2>1, <2>3, <2>5, <2>6, <2>7 DEF PassWrites
  <2> QED
    BY <1>2, <2>1, <2>2, <2>3, <2>4, <2>8, PassSteps
<1> QED
  BY <1>1, <1>5, <1>6 DEF PassCheck

LEMMA PassExpireKeeps ==
  ASSUME ConstantsAssumption, NullAssumption, Typed, Inv, PassExpire
  PROVE  Inv'
<1>1. PICK i \in Ids : i = dmn.cur /\ i \in dmn.todo
  BY DEF PassExpire, DmnAt, Typed, DmnTyped, Passes
<1> DEFINE s == dmn.snap[i]
<1>2. /\ UNCHANGED <<owner, ful, rel, upd, orphans>> /\ Through(i)
      /\ dmn.pc # "sleep" /\ ~Updating(Daemon) /\ ~Updating(Daemon)'
      /\ s \in Records /\ Stands(i)
      /\ alloc \in [Ids -> Records \cup {NoRec}] /\ task \in [Ids -> Tasks]
  BY <1>1 DEF PassExpire, DmnAt, Updating, Typed, DmnTyped, Inv
<1>3. PassWrites' /\ task[i].st = "none" /\ task[i].todo = {}
  BY <1>1, <1>2 DEF PassWrites, Stands, TaskFreesOwn
<1>4. /\ dmn'.pc = "loop" /\ i \notin dmn'.todo
      /\ \A j \in Ids \ {i} : task'[j] = task[j] => PassLeaves(j)
      /\ PassChecks'
  BY <1>2, ThroughIs DEF PassChecks
<1>5. CASE UNCHANGED task /\ (UNCHANGED alloc \/ Delete(i))
  <2>1. PassLeaves(i) /\ \A j \in Ids \ {i} : PassLeaves(j)
    BY <1>3, <1>4, <1>5 DEF PassLeaves
  <2>2. /\ \A j \in Ids \ {i} : alloc'[j] = alloc[j]
        /\ alloc'[i] = alloc[i] \/ alloc'[i] = NoRec
    BY <1>2, <1>5 DEF Delete, Save
  <2>3. Stands(i)'
    BY <1>2, <1>4, <2>1, <2>2, PassedStands
  <2> QED
    BY <1>2, <1>3, <1>4, <2>1, <2>2, <2>3, PassSteps
<1>6. CASE /\ Due(s) /\ s.status = "success"
           /\ Save(i, [s EXCEPT !.status = "deallocating"])
           /\ task' = [task EXCEPT ![i] = [st |-> "running", todo |-> s.hw]]
  <2>1. alloc[i] = s /\ Idle(i) /\ ~Beats(i)
    BY <1>1, <1>2, <1>6 DEF Stands, SnapshotStands
  <2>2. ~Missing(i) /\ Over(i) /\ s.hw \subseteq OwnedBy(i)
    BY <1>2, <1>6, <2>1
    DEF Missing, NullAssumption, Stands, ServedByFulfil, SuccessHeld, Holds, Open
  <2>3. rel[i].todo = {} /\ ~Updating(<<"rel", i>>)
    BY <1>2, <2>1 DEF Stands, ReleaseWrites, Idle
  <2>4. /\ \A j \in Ids \ {i} : alloc'[j] = alloc[j] /\ PassLeaves(j)
        /\ task'[i] = [st |-> "running", todo |-> s.hw]
    BY <1>2, <1>4, <1>6 DEF Save
  <2>5. alloc'[i].status = "deallocating"
    BY <1>2, <1>6 DEF Save, Records
  <2>6. /\ Over(i)' /\ ~Beats(i)' /\ Idle(i)' /\ ~Holds(i)' /\ ~Updating(<<"rel", i>>)'
        /\ rel'[i].todo = {}
    BY <1>2, <2>1, <2>2, <2>3, <2>5 DEF Over, PastCall, Beats, Idle, Holds, Updating
  <2>7. Quiet(i)'
    BY <2>5, <2>6 DEF Quiet, Checked, Statuses
  <2>8. ServedByFulfil(i)' /\ SuccessHeld(i)' /\ FulfilWrites(i)' /\ HeartbeatWrites(i)'
    BY <2>6 DEF ServedByFulfil, SuccessHeld, FulfilWrites, HeartbeatWrites, Over
  <2>9. ReleaseWrites(i)' /\ SnapshotStands(i)'
    BY <1>4, <2>6 DEF ReleaseWrites, SnapshotStands
  <2>10. TaskFreesOwn(i)'
    BY <1>2, <1>4, <2>2, <2>4, <2>6, <2>7, SameOwners DEF TaskFreesOwn
  <2>11. Stands(i)'
    BY <2>8, <2>9, <2>10 DEF Stands
  <2> QED
    BY <1>2, <1>3, <1>4, <2>4, <2>11, PassSteps
<1> QED
  BY <1>1, <1>5, <1>6 DEF PassExpire, RemoveImproper

LEMMA PassAwaitKeeps ==
  ASSUME ConstantsAssumption, NullAssumption, Typed, Inv, NEW i \in Ids, PassAwait(i)
  PROVE  Inv'
<1>1. /\ UNCHANGED <<owner, ful, rel, dmn, orphans>>
      /\ dmn.pc = "loop" /\ dmn.pc # "sleep" /\ dmn.todo = {} /\ ~Updating(Daemon) /\ Stands(i)
      /\ task' = [task EXCEPT ![i] = NoTask] /\ task[i].st # "none"
      /\ task \in [Ids -> Tasks] /\ alloc \in [Ids -> Records \cup {NoRec}]
      /\ upd \in [Coroutines -> Updates \cup {NoUpd}] /\ Daemon \in Coroutines
  BY CoroutineNames DEF PassAwait, DmnAt, Deallocated, Typed, UpdTyped, Inv
<1>2. Quiet(i) /\ PassChecks'
  BY <1>1 DEF Stands, TaskFreesOwn, PassChecks
<1>3. \A j \in Ids : PassLeaves(j)
  BY <1>1 DEF PassLeaves, NoTask
<1>4. CASE Delete(i) /\ UNCHANGED upd
  <2>1. alloc'[i] = NoRec /\ \A j \in Ids \ {i} : alloc'[j] = alloc[j]
    BY <1>1, <1>4 DEF Delete, Save
  <2>2. Stands(i)'
    BY <1>1, <1>3, <1>4, <2>1, PassedStands
  <2>3. PassWrites'
    BY <1>1, <1>4 DEF PassWrites, Updating
  <2> QED
    BY <1>1, <1>2, <1>3, <1>4, <2>1, <2>2, <2>3, PassSteps
<1>5. CASE Begin(Daemon, i, [status |-> "error_deallocating"]) /\ UNCHANGED alloc
  <2>1. /\ upd'[Daemon] = [id |-> i, kw |-> [status |-> "error_deallocating"], copy |-> NoRec]
        /\ \A p \in Coroutines \ {Daemon} : upd'[p] = upd[p]
    BY <1>1, <1>5 DEF Begin
  <2>2. Stands(i)'
    BY <1>1, <1>3, <1>5, <2>1, PassedStands
  <2>3. <<"ful", i>> \in Coroutines \ {Daemon} /\ <<"hb", i>> \in Coroutines \ {Daemon}
    BY CoroutineNames DEF Daemon
  <2>4. Quiet(i)'
    BY <1>1, <1>2, <1>5, <2>1, <2>3 DEF Quiet, Over, PastCall, Beats, Missing, Updating
  <2>5. Intent(Daemon)'.status = "error_deallocating" /\ task'[i].st = "none"
    BY <1>1, <2>1 DEF Intent, NoTask
  <2>6. PassWrites'
    BY <1>1, <2>1, <2>4, <2>5 DEF PassWrites, Open
  <2> QED
    BY <1>1, <1>2, <1>3, <1>5, <2>1, <2>2, <2>6, PassSteps
<1> QED
  BY <1>4, <1>5 DEF PassAwait

LEMMA PassEndKeeps ==
  ASSUME ConstantsAssumption, NullAssumption, Typed, Inv, PassEnd
  PROVE  Inv'
<1>1. /\ UNCHANGED <<alloc, owner, ful, rel, upd, task, orphans>>
      /\ dmn.pc = "loop" /\ dmn' = Asleep /\ ~Updating(Daemon)
      /\ \A i \in Ids : task[i] = NoTask
  BY DEF PassEnd, DmnAt
<1>2. ASSUME NEW i \in Ids
      PROVE  Stands(i)'
  <2>1. Untouched(i)
    BY <1>1, SameOwners DEF Untouched
  <2>2. PassLeaves(i)
    BY <1>1 DEF PassLeaves, Asleep, NoTask
  <2> QED
    BY <2>1, <2>2, OtherStands DEF Inv
<1>3. orphans = {}
  BY <1>1 DEF Inv, OrphansFreeOwn
<1>4. PassWrites' /\ PassChecks' /\ OrphansFreeOwn'
  BY <1>1, <1>3 DEF PassWrites, PassChecks, OrphansFreeOwn, Updating, Asleep
<1> QED
  BY <1>2, <1>4 DEF Inv

\* A pass starts from records that nobody is about to extend or release.
LEMMA PassStartKeeps ==
  ASSUME ConstantsAssumption, NullAssumption, TimelyWorld, Typed, Inv, PassStart
  PROVE  Inv'
<1>1. /\ UNCHANGED <<alloc, owner, ful, rel, upd, task, orphans>>
      /\ dmn.pc = "sleep" /\ ~Updating(Daemon) /\ orphans = {}
      /\ dmn' = [pc |-> "loop", cur |-> NoId, todo |-> {i \in Ids : ~Missing(i)}, snap |-> alloc]
  BY DEF PassStart, DmnAt, TimelyWorld
<1>2. ASSUME NEW i \in Ids
      PROVE  Stands(i)'
  <2>1. Untouched(i) /\ Stands(i)
    BY <1>1, SameOwners DEF Untouched, Inv
  <2>2. task[i].st = "none" /\ task[i].todo = {}
    BY <1>1, <2>1 DEF Stands, TaskFreesOwn
  <2>3. SnapshotStands(i)'
    <3>1. ASSUME ~Missing(i)
          PROVE  /\ alloc[i].status = "success" /\ Due(alloc[i]) => Idle(i) /\ ~Beats(i)
                 /\ alloc[i].status \in Checked => Quiet(i)
      <4>1. alloc[i] \in Records
        BY <3>1 DEF Typed, Missing
      <4>2. ASSUME alloc[i].status = "success", Due(alloc[i])
            PROVE  Idle(i) /\ ~Beats(i)
        BY <2>1, <3>1, <4>1, <4>2
        DEF Stands, HeartbeatWrites, ReleaseWrites, Holds, Due, Records, Oldest, ConstantsAssumption
      <4>3. ASSUME alloc[i].status \in Checked
            PROVE  Quiet(i)
        <5>1. Over(i)
          BY <2>1, <3>1, <4>3 DEF Stands, ServedByFulfil, Checked, Open
        <5>2. ~Beats(i) /\ rel[i].todo = {}
          BY <2>1, <3>1, <4>3 DEF Stands, HeartbeatWrites, ReleaseWrites, Holds, Checked
        <5> QED
          BY <4>3, <5>1, <5>2 DEF Quiet
      <4> QED
        BY <4>2, <4>3
    <3>2. (Quiet(i)' <=> Quiet(i)) /\ (Idle(i)' <=> Idle(i)) /\ (Beats(i)' <=> Beats(i))
      BY <2>1, UntouchedSame
    <3> QED
      BY <1>1, <3>1, <3>2 DEF SnapshotStands, Due
  <2>4. ServedByFulfil(i)' /\ SuccessHeld(i)' /\ FulfilWrites(i)'
    BY <1>1, <2>1, UntouchedSame DEF Untouched, Stands, ServedByFulfil, SuccessHeld, FulfilWrites
  <2>5. HeartbeatWrites(i)' /\ ReleaseWrites(i)'
    BY <1>1, <2>1, UntouchedSame DEF Untouched, Stands, HeartbeatWrites, ReleaseWrites
  <2>6. TaskFreesOwn(i)'
    BY <1>1, <2>2 DEF TaskFreesOwn
  <2> QED
    BY <2>3, <2>4, <2>5, <2>6 DEF Stands
<1>3. PassWrites' /\ PassChecks' /\ OrphansFreeOwn'
  BY <1>1 DEF PassWrites, PassChecks, OrphansFreeOwn, Updating
<1> QED
  BY <1>2, <1>3 DEF Inv

\* Redis, the heartbeat server and the resource managers outlive the provisioner.
LEMMA CrashKeeps ==
  ASSUME ConstantsAssumption, NullAssumption, TimelyWorld, Typed, Inv, Crash
  PROVE  Inv'
<1>1. /\ UNCHANGED <<alloc, owner>> /\ orphans' = {}
      /\ dmn' = Asleep /\ task' = [i \in Ids |-> NoTask]
      /\ \A i \in Ids : /\ rel[i].pc = "idle"
                        /\ rel'[i] = [pc |-> "idle", todo |-> {}]
                        /\ ful[i].pc # "idle" => ful'[i].pc = "done"
  BY DEF Crash, TimelyWorld
<1>2. \A i \in Ids : /\ ~Updating(<<"ful", i>>)' /\ ~Updating(<<"rel", i>>)'
                     /\ upd'[<<"hb", i>>] = upd[<<"hb", i>>]
  BY CoroutineNames DEF Crash, Updating
<1>3. ~Updating(Daemon)'
  BY CoroutineNames DEF Crash, Updating, Daemon
<1>4. ASSUME NEW i \in Ids
      PROVE  Stands(i)'
  <2>1. Stands(i) /\ OwnedBy(i)' = OwnedBy(i)
    BY <1>1, SameOwners DEF Inv
  <2>0. /\ rel[i].pc = "idle" /\ rel'[i] = [pc |-> "idle", todo |-> {}]
        /\ ful[i].pc # "idle" => ful'[i].pc = "done"
        /\ ~Updating(<<"ful", i>>)' /\ ~Updating(<<"rel", i>>)'
    BY <1>1, <1>2
  <2>2. /\ Missing(i)' <=> Missing(i)
        /\ Holds(i)' <=> Holds(i)
        /\ Beats(i)' <=> Beats(i)
        /\ Idle(i) /\ Idle(i)'
        /\ Over(i) => Over(i)'
    <3>1. /\ Missing(i)' <=> Missing(i)
          /\ Holds(i)' <=> Holds(i)
      BY <1>1 DEF Missing, Holds
    <3>2. Beats(i)' <=> Beats(i)
      BY <1>2 DEF Beats, Updating
    <3>3. Idle(i) /\ Idle(i)'
      BY <2>0 DEF Idle
    <3>4. Over(i) => Over(i)'
      BY <2>0 DEF Over, PastCall
    <3> QED
      BY <3>1, <3>2, <3>3, <3>4
  <2>3. ServedByFulfil(i)' /\ SuccessHeld(i)' /\ FulfilWrites(i)'
    BY <1>1, <1>2, <2>1, <2>2 DEF Stands, ServedByFulfil, SuccessHeld, FulfilWrites
  <2>4. task'[i] = NoTask
    BY <1>1
  <2>5. HeartbeatWrites(i)'
    BY <1>1, <1>2, <2>1, <2>2, <2>4 DEF Stands, HeartbeatWrites, NoTask
  <2>6. ReleaseWrites(i)'
    BY <2>0, <2>2 DEF ReleaseWrites
  <2>7. TaskFreesOwn(i)' /\ SnapshotStands(i)'
    BY <1>1, <2>4 DEF TaskFreesOwn, SnapshotStands, NoTask, Asleep
  <2> QED
    BY <2>3, <2>5, <2>6, <2>7 DEF Stands
<1>5. PassWrites' /\ PassChecks' /\ OrphansFreeOwn'
  BY <1>1, <1>3 DEF PassWrites, PassChecks, OrphansFreeOwn, Asleep
<1> QED
  BY <1>4, <1>5 DEF Inv

\* Only a fulfil is under way at a tick, and a tick changes neither status nor hosts.
LEMMA TickKeeps ==
  ASSUME ConstantsAssumption, NullAssumption, TimelyWorld, Typed, Inv, Tick
  PROVE  Inv'
<1>1. ~Busy("pass") /\ ~Busy("heartbeat") /\ ~Busy("release")
  BY DEF Tick, TimelyWorld, Activities
<1>2. /\ dmn.pc = "sleep" /\ ~Updating(Daemon) /\ orphans = {}
      /\ \A i \in Ids : ~Beats(i) /\ Idle(i)
  BY <1>1 DEF Busy, Beats, Idle
<1>3. /\ UNCHANGED <<owner, ful, rel, task, orphans>>
      /\ \A i \in Ids : alloc'[i] = AgedRec(alloc[i])
      /\ \A p \in Coroutines : upd'[p] = IF upd[p] = NoUpd THEN NoUpd ELSE AgedUpdate(upd[p])
  BY DEF Tick, AgedUpdate
<1>4. dmn'.pc = "sleep" /\ dmn'.todo = dmn.todo
  BY <1>2 DEF Tick, Typed, DmnTyped, Passes
<1>5. ASSUME NEW p \in Coroutines
      PROVE  /\ Updating(p)' <=> Updating(p)
             /\ Updating(p) => /\ upd'[p].id = upd[p].id
                               /\ Intent(p)'.status = Intent(p).status
                               /\ Intent(p).status = "success" => Intent(p)'.hw = Intent(p).hw
  <2>1. CASE upd[p] = NoUpd
    BY <1>3, <2>1 DEF Updating
  <2>2. CASE upd[p] # NoUpd
    <3>1. upd[p] \in Updates /\ (upd[p].copy = NoRec => upd[p].kw \in Arguments)
      BY <2>2 DEF Typed, UpdTyped, Updating
    <3>2. upd'[p] = AgedUpdate(upd[p])
      BY <1>3, <2>2
    <3>3. /\ upd'[p] \in Updates /\ upd'[p].id = upd[p].id
          /\ upd'[p].copy = AgedRec(upd[p].copy)
          /\ upd'[p].copy = NoRec <=> upd[p].copy = NoRec
          /\ upd[p].copy = NoRec => upd'[p].kw = Aged(upd[p].kw)
      BY <3>1, <3>2, AgedUpdateIs
    <3>4. CASE upd[p].copy = NoRec
      <4>1. Intent(p)' = Aged(upd[p].kw) /\ Intent(p) = upd[p].kw
        BY <3>3, <3>4 DEF Intent
      <4>2. /\ Aged(upd[p].kw).status = upd[p].kw.status
            /\ upd[p].kw.status = "success" => Aged(upd[p].kw).hw = upd[p].kw.hw
        BY <3>1, <3>4, AgedArguments
      <4> QED
        BY <2>2, <3>3, <4>1, <4>2 DEF Updating, NullAssumption
    <3>5. CASE upd[p].copy # NoRec
      <4>1. upd[p].copy \in Records
        BY <3>1, <3>5 DEF Updates
      <4>2. Intent(p)' = Aged(upd[p].copy) /\ Intent(p) = upd[p].copy
        BY <3>3, <3>5 DEF Intent, AgedRec
      <4>3. /\ Aged(upd[p].copy).status = upd[p].copy.status
            /\ Aged(upd[p].copy).hw = upd[p].copy.hw
        BY <4>1, AgedRecord
      <4> QED
        BY <2>2, <3>3, <4>2, <4>3 DEF Updating, NullAssumption
    <3> QED
      BY <3>4, <3>5
  <2> QED
    BY <2>1, <2>2
<1>6. ASSUME NEW i \in Ids
      PROVE  Stands(i)'
  <2>1. /\ Stands(i) /\ OwnedBy(i)' = OwnedBy(i) /\ ~Beats(i) /\ Idle(i)
        /\ <<"ful", i>> \in Coroutines /\ <<"rel", i>> \in Coroutines /\ <<"hb", i>> \in Coroutines
    BY <1>2, <1>3, SameOwners, CoroutineNames DEF Inv
  <2>2. /\ Missing(i)' <=> Missing(i)
        /\ ~Missing(i) => alloc'[i].status = alloc[i].status /\ alloc'[i].hw = alloc[i].hw
    <3>1. CASE Missing(i)
      BY <1>3, <3>1 DEF Missing, AgedRec
    <3>2. CASE ~Missing(i)
      <4>1. alloc[i] \in Records /\ alloc'[i] = Aged(alloc[i])
        BY <1>3, <3>2 DEF Missing, AgedRec, Typed
      <4> QED
        BY <3>2, <4>1, AgedRecord DEF Missing, NullAssumption
    <3> QED
      BY <3>1, <3>2
  <2>3. /\ Holds(i)' <=> Holds(i)
        /\ PastCall(i)' <=> PastCall(i)
        /\ ~Beats(i)' /\ Idle(i)'
    BY <1>3, <1>5, <2>1, <2>2 DEF Holds, PastCall, Beats, Idle
  <2>4. Over(i)' <=> Over(i)
    BY <1>5, <2>1, <2>3 DEF Over
  <2>5. ServedByFulfil(i)' /\ SuccessHeld(i)'
    BY <2>1, <2>2, <2>3, <2>4 DEF Stands, ServedByFulfil, SuccessHeld, Holds
  <2>6. FulfilWrites(i)'
    BY <1>5, <2>1, <2>3 DEF Stands, FulfilWrites
  <2>7. rel[i].todo = {} /\ ~Updating(<<"rel", i>>)
    BY <2>1 DEF Stands, ReleaseWrites, Idle
  <2>8. HeartbeatWrites(i)' /\ ReleaseWrites(i)'
    BY <1>3, <1>5, <2>1, <2>3, <2>7 DEF HeartbeatWrites, ReleaseWrites
  <2>9. task[i].st = "none" /\ task[i].todo = {} /\ i \notin dmn.todo
    BY <1>2, <2>1 DEF Stands, TaskFreesOwn, SnapshotStands
  <2>10. TaskFreesOwn(i)' /\ SnapshotStands(i)'
    BY <1>3, <1>4, <2>9 DEF TaskFreesOwn, SnapshotStands
  <2> QED
    BY <2>5, <2>6, <2>8, <2>10 DEF Stands
<1>7. ~Updating(Daemon)'
  BY <1>2, <1>5, CoroutineNames
<1>8. PassWrites' /\ PassChecks' /\ OrphansFreeOwn'
  BY <1>2, <1>3, <1>4, <1>7 DEF PassWrites, PassChecks, OrphansFreeOwn
<1> QED
  BY <1>6, <1>8 DEF Inv

LEMMA StutterKeeps ==
  ASSUME ConstantsAssumption, Typed, Inv, UNCHANGED vars
  PROVE  Inv'
<1>1. ASSUME NEW i \in Ids
      PROVE  Stands(i)'
  <2>1. Untouched(i)
    BY SameOwners DEF vars, Untouched
  <2>2. PassLeaves(i)
    BY DEF vars, PassLeaves, Inv, Stands, TaskFreesOwn, SnapshotStands
  <2> QED
    BY <2>1, <2>2, OtherStands DEF Inv
<1>2. \A i \in Ids : /\ Quiet(i)' <=> Quiet(i)
                     /\ Idle(i)' <=> Idle(i)
                     /\ OwnedBy(i)' = OwnedBy(i)
  BY SameOwners DEF vars, Quiet, Idle, Over, PastCall, Beats, Updating, Missing
<1>3. Updating(Daemon) => upd[Daemon].id \in Ids
  BY CoroutineNames DEF Typed, UpdTyped, Updating, Updates
<1>4. PassWrites'
  BY <1>2, <1>3 DEF vars, Inv, PassWrites, Updating, Intent
<1>5. PassChecks' /\ OrphansFreeOwn'
  BY <1>2 DEF vars, Inv, PassChecks, OrphansFreeOwn
<1> QED
  BY <1>1, <1>4, <1>5 DEF Inv

LEMMA InvNext ==
  ASSUME ConstantsAssumption, NullAssumption, TimelyWorld, Typed, Short, Inv, [Next]_vars
  PROVE  Inv'
<1>1. ASSUME NEW p \in Coroutines, UpdateRead(p) \/ UpdateWrite(p)
      PROVE  Inv'
  <2>1. p = Daemon \/ \E i \in Ids : p \in {<<"ful", i>>, <<"rel", i>>, <<"hb", i>>}
    BY CoroutineNames
  <2> QED
    BY <1>1, <2>1, FulfilUpdateKeeps, ReleaseUpdateKeeps, HeartbeatUpdateKeeps, DaemonUpdateKeeps
<1>2. CASE PassStep
  BY <1>2, PassStartKeeps, PassLookKeeps, PassCheckKeeps, PassExpireKeeps, PassAwaitKeeps,
     PassEndKeeps
  DEF PassStep
<1>3. CASE \E i \in Ids : FulfillStep(i) \/ ReleaseStep(i) \/ HeartbeatRead(i)
  BY <1>3, FulfillKeeps, ReleaseKeeps, HeartbeatKeeps
<1>4. CASE \E i \in Ids : TaskFrees(i) \/ TaskFails(i)
  BY <1>4, TaskKeeps
<1>5. CASE \E ms \in orphans : OrphanRuns(ms)
  BY <1>5, OrphanKeeps
<1>6. CASE (\E c \in detached : DetachedRuns(c)) \/ (\E r \in RMs : Register(r))
  BY <1>6, DetachedKeeps
<1>7. CASE UNCHANGED vars
  BY <1>7, StutterKeeps
<1> QED
  BY <1>1, <1>2, <1>3, <1>4, <1>5, <1>6, <1>7, CrashKeeps, TickKeeps DEF Next

------------------------------------------------------------------------------
(* What a removal relies on: nobody is about to write the record of an       *)
(* allocation that still holds machines as if it held none                   *)

\* The fulfil has a call to make, or one that was given up is still at work.
GrantLeft(i) == ~PastCall(i) \/ \E c \in detached : c.id = i

\* Each allocation has at most one call, and it is not repeated.
OneGrant(i) ==
  /\ ~PastCall(i) => \A c \in detached : c.id # i
  /\ \A c, d \in detached : c.id = i /\ d.id = i => c = d

\* The coroutines that may write the record of i, and the machines in what p writes.
Writers(i) == {<<"ful", i>>, <<"rel", i>>, <<"hb", i>>, Daemon}
Writes(p, i) == Updating(p) /\ upd[p].id = i
Names(p) ==
  IF upd[p].copy = NoRec /\ upd[p].kw.status # "success" THEN {} ELSE Intent(p).hw

\* Before the call nobody holds or names machines.
EmptyHanded(i) ==
  GrantLeft(i) =>
    /\ OwnedBy(i) = {}
    /\ Missing(i) \/ alloc[i].hw = {}
    /\ \A p \in Writers(i) : Writes(p, i) => Names(p) = {}

\* save_request's record has no resource manager yet; from the first loop on it has.
Marked(i) ==
  LET u == upd[<<"ful", i>>] IN
  \/ ful[i].pc \in {"ask", "call"} /\ ful[i].k <= Len(ful[i].plan)
  \/ ful[i].pc = "mark" /\ ful[i].k >= 2 /\ ~Updating(<<"ful", i>>)
  \/ Updating(<<"ful", i>>) /\ u.copy = NoRec /\ "rm" \notin DOMAIN u.kw

\* A record that a pass can come upon names its resource manager.
Named(i) ==
  /\ ~Missing(i) /\ alloc[i].rm = NoRM => alloc[i].status = "received"
  /\ Marked(i) /\ ~Missing(i) => alloc[i].rm # NoRM
  /\ \A p \in Writers(i) : Writes(p, i) /\ upd[p].copy # NoRec => upd[p].copy.rm # NoRM

\* Machines are named with a success only.
OpenBare(i) ==
  LET p == <<"ful", i>> IN
  /\ ~Missing(i) /\ alloc[i].status \in Open => alloc[i].hw = {}
  /\ Updating(p) /\ Intent(p).status # "success" => Names(p) = {}

Freed(i) == alloc[i].hw \cap OwnedBy(i) = {}
Releasing(i) == rel[i].pc = "call" \/ Updating(<<"rel", i>>)

\* A release frees what the record names before it marks and removes it.
ReleaseFrees(i) ==
  LET p == <<"rel", i>> IN
  /\ Releasing(i) => Missing(i) \/ Holds(i)
  /\ rel[i].pc = "call" /\ ~Missing(i) => alloc[i].hw \cap OwnedBy(i) \subseteq rel[i].todo
  /\ Updating(p) => (Missing(i) \/ Freed(i)) /\ Names(p) \cap OwnedBy(i) = {}
  /\ rel[i].pc = "delete" /\ ~Missing(i) /\ ~Holds(i) => Freed(i)

\* What the snapshot of a pass still tells of the record.
PassKnows(i) ==
  LET s == dmn.snap[i] IN
  i \in dmn.todo =>
    /\ s.status \in Open /\ ~Missing(i) /\ ~Holds(i) => Freed(i)
    /\ s.status \in Checked => (Missing(i) \/ alloc[i] = s) /\ ~Releasing(i)
    /\ dmn.cur = i /\ dmn.pc = "check" => s.rm # NoRM
    /\ dmn.cur = i /\ dmn.pc = "expire" /\ s.status \in Checked => Missing(i) \/ Freed(i)

\* A deallocation task has what is still to be freed.
TaskFreesAll(i) ==
  task[i].st = "running" /\ ~Missing(i) => alloc[i].hw \cap OwnedBy(i) \subseteq task[i].todo

\* A pass does not write a record that is being released.
PassSpares(i) ==
  Writes(Daemon, i) =>
    /\ ~Releasing(i)
    /\ rel[i].pc = "delete" /\ Intent(Daemon).status # "success" =>
         Names(Daemon) \cap OwnedBy(i) = {}

Clean(i) ==
  /\ OneGrant(i) /\ EmptyHanded(i) /\ Named(i) /\ OpenBare(i)
  /\ ReleaseFrees(i) /\ PassKnows(i) /\ TaskFreesAll(i) /\ PassSpares(i)

LEMMA CleanInit ==
  ASSUME ConstantsAssumption, Init, NEW i \in Ids
  PROVE  Clean(i)
<1>1. \A p \in Writers(i) : ~Updating(p)
  BY CoroutineNames DEF Init, Updating, Writers
<1>2. Missing(i) /\ rel[i].pc = "idle" /\ task[i].st = "none" /\ detached = {} /\ dmn.todo = {}
  BY DEF Init, Missing, NoTask, Asleep
<1>3. OwnedBy(i) = {}
  BY DEF Init, OwnedBy, ConstantsAssumption
<1>4. OneGrant(i) /\ EmptyHanded(i)
  BY <1>1, <1>2, <1>3 DEF OneGrant, EmptyHanded, Writes
<1>5. Named(i) /\ OpenBare(i) /\ ReleaseFrees(i)
  BY <1>1, <1>2 DEF Named, OpenBare, ReleaseFrees, Releasing, Writes, Writers
<1>6. PassKnows(i) /\ TaskFreesAll(i) /\ PassSpares(i)
  BY <1>1, <1>2 DEF PassKnows, TaskFreesAll, PassSpares, Writes, Writers
<1> QED
  BY <1>4, <1>5, <1>6 DEF Clean

------------------------------------------------------------------------------
\* What the fulfil, the release and the heartbeat of allocation i have is theirs
\* still; the record may be gone, machines may be lost.
LosesOnly(i) ==
  /\ alloc'[i] \in {alloc[i], NoRec} /\ ful'[i] = ful[i] /\ rel'[i] = rel[i]
  /\ \A a \in {"ful", "rel", "hb"} : upd'[<<a, i>>] = upd[<<a, i>>]
  /\ OwnedBy(i)' \subseteq OwnedBy(i)
  /\ \A c \in detached' : c.id = i => c \in detached
  /\ upd'[Daemon] = upd[Daemon] \/ ~Writes(Daemon, i)'

\* The daemon and its tasks go on as they were with it, or leave it behind.
PassGoesOn(i) ==
  i \in dmn'.todo =>
    /\ i \in dmn.todo /\ dmn'.snap[i] = dmn.snap[i]
    /\ dmn'.cur = i => dmn'.cur = dmn.cur /\ dmn'.pc = dmn.pc

TaskGoesOn(i) == task'[i] = task[i] \/ task'[i].st # "running"

Elsewhere(i) == alloc'[i] = alloc[i] /\ LosesOnly(i) /\ PassGoesOn(i) /\ TaskGoesOn(i)

LEMMA LosesOnlySame ==
  ASSUME NEW i \in Ids, LosesOnly(i)
  PROVE  /\ ~Missing(i)' => ~Missing(i) /\ alloc'[i] = alloc[i]
         /\ Holds(i)' => Holds(i)
         /\ ~Missing(i)' /\ Holds(i) => Holds(i)'
         /\ PastCall(i)' <=> PastCall(i)
         /\ Releasing(i)' <=> Releasing(i)
         /\ Marked(i)' <=> Marked(i)
         /\ Freed(i) => Missing(i)' \/ Freed(i)'
         /\ GrantLeft(i)' => GrantLeft(i)
<1>1. /\ alloc'[i] \in {alloc[i], NoRec} /\ ful'[i] = ful[i] /\ rel'[i] = rel[i]
      /\ upd'[<<"ful", i>>] = upd[<<"ful", i>>] /\ upd'[<<"rel", i>>] = upd[<<"rel", i>>]
      /\ OwnedBy(i)' \subseteq OwnedBy(i)
      /\ \A c \in detached' : c.id = i => c \in detached
  BY DEF LosesOnly
<1>2. /\ PastCall(i)' <=> PastCall(i)
      /\ Releasing(i)' <=> Releasing(i)
      /\ Marked(i)' <=> Marked(i)
  BY <1>1 DEF PastCall, Releasing, Marked, Updating
<1>3. /\ ~Missing(i)' => ~Missing(i) /\ alloc'[i] = alloc[i]
      /\ Holds(i)' => Holds(i)
      /\ ~Missing(i)' /\ Holds(i) => Holds(i)'
      /\ Freed(i) => Missing(i)' \/ Freed(i)'
  BY <1>1 DEF Missing, Holds, Freed
<1>4. GrantLeft(i)' => GrantLeft(i)
  BY <1>1, <1>2 DEF GrantLeft
<1> QED
  BY <1>2, <1>3, <1>4

LEMMA LosesOnlyClean ==
  ASSUME NEW i \in Ids, Clean(i), LosesOnly(i)
  PROVE  OneGrant(i)' /\ EmptyHanded(i)' /\ Named(i)' /\ OpenBare(i)' /\ ReleaseFrees(i)' /\ PassSpares(i)'
<1> USE LosesOnlySame
<1>1. /\ rel'[i] = rel[i] /\ OwnedBy(i)' \subseteq OwnedBy(i)
      /\ \A c \in detached' : c.id = i => c \in detached
  BY DEF LosesOnly
<1>3. ASSUME NEW p \in {<<"ful", i>>, <<"rel", i>>, <<"hb", i>>}
      PROVE  /\ upd'[p] = upd[p]
             /\ Updating(p)' <=> Updating(p)
             /\ Writes(p, i)' <=> Writes(p, i)
             /\ Names(p)' = Names(p) /\ Intent(p)' = Intent(p)
  BY <1>3 DEF LosesOnly, Updating, Writes, Names, Intent
<1>4. Writes(Daemon, i)' => /\ Writes(Daemon, i)
                            /\ upd'[Daemon] = upd[Daemon]
                            /\ Names(Daemon)' = Names(Daemon) /\ Intent(Daemon)' = Intent(Daemon)
  BY DEF LosesOnly, Updating, Writes, Names, Intent
<1>6. OneGrant(i)'
  BY <1>1 DEF Clean, OneGrant
<1>7. EmptyHanded(i)'
  <2>1. GrantLeft(i)' => \A p \in Writers(i) : Writes(p, i)' => Names(p)' = {}
    BY <1>3, <1>4 DEF Clean, EmptyHanded, Writers
  <2> QED
    BY <1>1, <2>1 DEF Clean, EmptyHanded, Writers
<1>8. Named(i)'
  <2>1. \A p \in Writers(i) : (Writes(p, i) /\ upd[p].copy # NoRec)' => upd'[p].copy.rm # NoRM
    BY <1>3, <1>4 DEF Clean, Named, Writers
  <2> QED
    BY <2>1 DEF Clean, Named, Writers
<1>9. OpenBare(i)'
  BY <1>3 DEF Clean, OpenBare
<1>10. ReleaseFrees(i)'
  <2>1. Updating(<<"rel", i>>)' => Updating(<<"rel", i>>) /\ Names(<<"rel", i>>)' = Names(<<"rel", i>>)
    BY <1>3
  <2> QED
    BY <1>1, <2>1 DEF Clean, ReleaseFrees
<1>13. PassSpares(i)'
  BY <1>1, <1>4 DEF Clean, PassSpares
<1> QED
  BY <1>6, <1>7, <1>8, <1>9, <1>10, <1>13

LEMMA ElsewhereClean ==
  ASSUME NEW i \in Ids, Clean(i), LosesOnly(i), PassGoesOn(i), TaskGoesOn(i)
  PROVE  Clean(i)'
<1> USE LosesOnlySame
<1>1. OwnedBy(i)' \subseteq OwnedBy(i)
  BY DEF LosesOnly
<1>2. PassKnows(i)'
  BY DEF Clean, PassKnows, PassGoesOn
<1>3. TaskFreesAll(i)'
  BY <1>1 DEF Clean, TaskFreesAll, TaskGoesOn
<1> QED
  BY <1>2, <1>3, LosesOnlyClean DEF Clean

------------------------------------------------------------------------------
(* Steps that have nothing to do with allocation i                         *)

\* A machine that is freed is nobody's, one that is granted was nobody's.
LEMMA FreeLess ==
  ASSUME ConstantsAssumption, Typed, NEW m, FreeMachine(m), NEW i \in Ids
  PROVE  OwnedBy(i)' \subseteq OwnedBy(i) \ {m}
  BY DEF Typed, FreeMachine, OwnedBy, ConstantsAssumption

LEMMA GrantElsewhere ==
  ASSUME ConstantsAssumption, Typed, NEW j, NEW ms, Assign(ms, j), NEW i \in Ids, i # j
  PROVE  OwnedBy(i)' \subseteq OwnedBy(i)
  BY DEF Typed, Assign, OwnedBy, ConstantsAssumption

LEMMA OtherFulfill ==
  ASSUME ConstantsAssumption, Typed, NEW i \in Ids, NEW j \in Ids \ {i}, FulfillStep(j)
  PROVE  Elsewhere(i)
<1>1. UNCHANGED <<rel, task, dmn>>
  BY DEF FulfillStep, FulfillStart, FulfillSave, FulfillFind, FulfillGiveUp, FulfillMark, FulfillAsk,
         FulfillCall, FulfillReply, FulfillCancelled
<1>2. \A p \in Coroutines \ {<<"ful", j>>} : upd'[p] = upd[p]
  <2>1. upd \in [Coroutines -> Updates \cup {NoUpd}]
    BY DEF Typed, UpdTyped
  <2> QED
    BY <2>1 DEF FulfillStep, FulfillStart, FulfillSave, FulfillFind, FulfillGiveUp, FulfillMark, FulfillAsk,
         FulfillCall, FulfillReply, FulfillCancelled, Begin
<1>3. /\ upd'[Daemon] = upd[Daemon]
      /\ \A a \in {"ful", "rel", "hb"} : upd'[<<a, i>>] = upd[<<a, i>>]
  BY <1>2, CoroutineNames DEF Daemon
<1>4. alloc'[i] = alloc[i]
  BY DEF Typed, FulfillStep, FulfillStart, FulfillSave, FulfillFind, FulfillGiveUp, FulfillMark, FulfillAsk,
         FulfillCall, FulfillReply, FulfillCancelled, Save, Delete
<1>5. ful'[i] = ful[i]
  <2>1. CASE FulfillFind(j)
    BY <2>1, FindTyped
  <2>2. CASE ~FulfillFind(j)
    BY <2>2 DEF Typed, FulTyped, FulfillStep, FulfillStart, FulfillSave, FulfillGiveUp, FulfillMark,
                FulfillAsk, FulfillCall, FulfillReply, FulfillCancelled, GoTo, FulDies
  <2> QED
    BY <2>1, <2>2
<1>6. /\ OwnedBy(i)' \subseteq OwnedBy(i)
      /\ \A c \in detached' : c.id = i => c \in detached
  <2>1. CASE FulfillCall(j)
    <3>1. UNCHANGED owner \/ \E ms : Assign(ms, j)
      BY <2>1 DEF FulfillCall
    <3>2. OwnedBy(i)' \subseteq OwnedBy(i)
      BY <3>1, GrantElsewhere, SameOwners
    <3>3. \A c \in detached' : c \in detached \/ c.id = j
      BY <2>1 DEF FulfillCall
    <3> QED
      BY <3>2, <3>3
  <2>2. CASE ~FulfillCall(j)
    BY <2>2, SameOwners
    DEF FulfillStep, FulfillStart, FulfillSave, FulfillFind, FulfillGiveUp, FulfillMark, FulfillAsk,
        FulfillReply, FulfillCancelled
  <2> QED
    BY <2>1, <2>2
<1> QED
  BY <1>1, <1>3, <1>4, <1>5, <1>6 DEF Elsewhere, LosesOnly, PassGoesOn, TaskGoesOn

LEMMA OtherRelease ==
  ASSUME ConstantsAssumption, Typed, NEW i \in Ids, NEW j \in Ids \ {i},
         ReleaseStep(j) \/ HeartbeatRead(j)
  PROVE  Elsewhere(i)
<1>1. UNCHANGED <<ful, task, dmn, detached>>
  BY DEF ReleaseStep, ReleaseStart, ReleaseCall, ReleaseMark, ReleaseDelete, HeartbeatRead
<1>2. \A p \in Coroutines \ {<<"rel", j>>, <<"hb", j>>} : upd'[p] = upd[p]
  <2>1. upd \in [Coroutines -> Updates \cup {NoUpd}]
    BY DEF Typed, UpdTyped
  <2> QED
    BY <2>1 DEF ReleaseStep, ReleaseStart, ReleaseCall, ReleaseMark, ReleaseDelete, HeartbeatRead, Begin
<1>3. /\ upd'[Daemon] = upd[Daemon]
      /\ \A a \in {"ful", "rel", "hb"} : upd'[<<a, i>>] = upd[<<a, i>>]
  BY <1>2, CoroutineNames DEF Daemon
<1>4. alloc'[i] = alloc[i] /\ rel'[i] = rel[i]
  BY DEF Typed, ReleaseStep, ReleaseStart, ReleaseCall, ReleaseMark, ReleaseDelete, HeartbeatRead,
         Save, Delete, RelEnds
<1>5. OwnedBy(i)' \subseteq OwnedBy(i)
  <2>1. UNCHANGED owner \/ \E m : FreeMachine(m)
    BY DEF ReleaseStep, ReleaseStart, ReleaseCall, ReleaseMark, ReleaseDelete, HeartbeatRead
  <2> QED
    BY <2>1, FreeLess, SameOwners
<1> QED
  BY <1>1, <1>3, <1>4, <1>5 DEF Elsewhere, LosesOnly, PassGoesOn, TaskGoesOn

\* Whose record a coroutine's update_status changes.
LEMMA WrittenFor ==
  ASSUME Typed, Inv, NEW j \in Ids, NEW a \in {"ful", "rel", "hb"}, Updating(<<a, j>>)
  PROVE  upd[<<a, j>>].id = j
  BY DEF Inv, Stands, FulfilWrites, ReleaseWrites, HeartbeatWrites, Beats

LEMMA OtherUpdate ==
  ASSUME ConstantsAssumption, Typed, Inv, NEW i \in Ids, NEW j \in Ids \ {i},
         NEW a \in {"ful", "rel", "hb"}, UpdateRead(<<a, j>>) \/ UpdateWrite(<<a, j>>)
  PROVE  Elsewhere(i)
<1> DEFINE q == <<a, j>>
<1>0. /\ q \in Coroutines /\ q # Daemon /\ q[1] = a /\ q[2] = j /\ j \in Ids
      /\ upd \in [Coroutines -> Updates \cup {NoUpd}]
  BY CoroutineNames DEF Daemon, Typed, UpdTyped
<1>1. upd[q].id = j
  BY WrittenFor DEF UpdateRead, UpdateWrite
<1>2. \A p \in Coroutines \ {q} : upd'[p] = upd[p]
  BY <1>0 DEF UpdateRead, UpdateWrite
<1>3. /\ upd'[Daemon] = upd[Daemon]
      /\ \A b \in {"ful", "rel", "hb"} : upd'[<<b, i>>] = upd[<<b, i>>]
  BY <1>2, CoroutineNames DEF Daemon
<1>4. UNCHANGED <<task, dmn, detached, owner>>
  BY <1>0 DEF UpdateRead, UpdateWrite, Dies
<1>5. alloc'[i] = alloc[i]
  BY <1>1 DEF UpdateRead, UpdateWrite, Save, Typed
<1>6. ful'[i] = ful[i] /\ rel'[i] = rel[i]
  <2>1. CASE UNCHANGED <<ful, rel>>
    BY <2>1
  <2>2. CASE Dies(q)
    BY <1>0, <2>2 DEF Dies, FulDies, RelEnds, Typed, FulTyped
  <2> QED
    BY <2>1, <2>2 DEF UpdateRead, UpdateWrite
<1> QED
  BY <1>3, <1>4, <1>5, <1>6, SameOwners DEF Elsewhere, LosesOnly, PassGoesOn, TaskGoesOn

LEMMA OtherDaemonUpdate ==
  ASSUME ConstantsAssumption, NullAssumption, Typed, NEW i \in Ids,
         \/ UpdateRead(Daemon) /\ (upd[Daemon].id # i \/ Missing(i))
         \/ UpdateWrite(Daemon) /\ upd[Daemon].id # i
  PROVE  Elsewhere(i)
<1>0. /\ upd \in [Coroutines -> Updates \cup {NoUpd}] /\ Daemon \in Coroutines
      /\ \A a \in {"ful", "rel", "hb"} : <<a, i>> \in Coroutines \ {Daemon}
      /\ Daemon[1] = "dmn"
  BY CoroutineNames DEF Daemon, Typed, UpdTyped
<1>1. \A a \in {"ful", "rel", "hb"} : upd'[<<a, i>>] = upd[<<a, i>>]
  BY <1>0 DEF UpdateRead, UpdateWrite
<1>2. alloc'[i] = alloc[i] /\ UNCHANGED <<ful, rel, detached, owner>>
  BY <1>0 DEF UpdateRead, UpdateWrite, Dies, Save, Typed
<1>3. upd'[Daemon] = NoUpd \/ upd'[Daemon].id # i
  BY <1>0 DEF UpdateRead, UpdateWrite
<1>4. UNCHANGED <<dmn, task>> \/ (dmn' = Asleep /\ task' = [j \in Ids |-> NoTask])
  BY <1>0 DEF UpdateRead, UpdateWrite, Dies, PassAborts
<1>5. task'[i] = task[i] \/ task'[i].st # "running"
  BY <1>4 DEF NoTask
<1>6. i \in dmn'.todo =>
        /\ i \in dmn.todo /\ dmn'.snap[i] = dmn.snap[i]
        /\ dmn'.cur = i => dmn'.cur = dmn.cur /\ dmn'.pc = dmn.pc
  BY <1>4 DEF Asleep
<1> QED
  BY <1>1, <1>2, <1>3, <1>5, <1>6, SameOwners DEF Elsewhere, LosesOnly, PassGoesOn, TaskGoesOn, Writes, Updating

LEMMA OtherPass ==
  ASSUME ConstantsAssumption, Typed, NEW i \in Ids,
         \/ PassEnd
         \/ (PassCheck \/ PassExpire) /\ dmn.cur # i
         \/ \E j \in Ids \ {i} : PassLook(j) \/ PassAwait(j)
  PROVE  Elsewhere(i)
<1>0. /\ upd \in [Coroutines -> Updates \cup {NoUpd}] /\ Daemon \in Coroutines
      /\ \A a \in {"ful", "rel", "hb"} : <<a, i>> \in Coroutines \ {Daemon}
  BY CoroutineNames DEF Daemon, Typed, UpdTyped
<1>1. /\ UNCHANGED <<owner, ful, rel, detached>>
      /\ alloc'[i] = alloc[i]
  BY DEF PassEnd, PassCheck, PassExpire, PassLook, PassAwait, Save, Delete, RemoveImproper, Typed
<1>2. /\ \A a \in {"ful", "rel", "hb"} : upd'[<<a, i>>] = upd[<<a, i>>]
      /\ upd'[Daemon] = upd[Daemon] \/ upd'[Daemon].id # i
  BY <1>0 DEF PassEnd, PassCheck, PassExpire, PassLook, PassAwait, Begin
<1>3. task'[i] = task[i]
  BY DEF PassEnd, PassCheck, PassExpire, PassLook, PassAwait, Typed
<1>4. \/ dmn' = Asleep
      \/ UNCHANGED dmn
      \/ \E j \in Ids \ {i}, pc \in {"check", "expire"} : Stay(j, pc)
      \/ \E j \in Ids \ {i} : Through(j)
  <2>1. PassCheck \/ PassExpire => dmn.cur \in Ids
    BY DEF PassCheck, PassExpire, DmnAt, Typed, DmnTyped, Passes
  <2> QED
    BY <2>1 DEF PassEnd, PassCheck, PassExpire, PassLook, PassAwait
<1>5. i \in dmn'.todo =>
        /\ i \in dmn.todo /\ dmn'.snap[i] = dmn.snap[i]
        /\ dmn'.cur = i => dmn'.cur = dmn.cur /\ dmn'.pc = dmn.pc
  <2>1. dmn \in Passes /\ NoId # i
    BY DEF Typed, DmnTyped, ConstantsAssumption
  <2>2. ASSUME NEW j \in Ids \ {i}, NEW pc \in {"check", "expire"}, Stay(j, pc)
        PROVE  dmn'.cur # i /\ dmn'.todo = dmn.todo /\ dmn'.snap = dmn.snap
    BY <2>1, <2>2 DEF Stay, Passes
  <2>3. ASSUME NEW j \in Ids \ {i}, Through(j)
        PROVE  dmn'.cur # i /\ dmn'.todo \subseteq dmn.todo /\ dmn'.snap[i] = dmn.snap[i]
    BY <2>1, <2>3 DEF Through, Passes
  <2> QED
    BY <1>4, <2>2, <2>3 DEF Asleep
<1> QED
  BY <1>1, <1>2, <1>3, <1>5, SameOwners DEF Elsewhere, LosesOnly, PassGoesOn, TaskGoesOn, Writes

LEMMA OtherTask ==
  ASSUME ConstantsAssumption, Typed, NEW i \in Ids,
         \/ \E j \in Ids : TaskFails(j)
         \/ \E j \in Ids \ {i} : TaskFrees(j)
         \/ \E ms \in orphans : OrphanRuns(ms)
         \/ \E c \in detached : c.id # i /\ DetachedRuns(c)
         \/ \E r \in RMs : Register(r)
  PROVE  Elsewhere(i)
<1>1. UNCHANGED <<alloc, ful, rel, upd, dmn>> /\ detached' \subseteq detached
  BY DEF TaskFails, TaskFrees, OrphanRuns, DetachedRuns, Register
<1>2. task'[i] = task[i] \/ task'[i].st # "running"
  <2>1. task \in [Ids -> Tasks]
    BY DEF Typed
  <2>2. ASSUME NEW j \in Ids, TaskFails(j)
        PROVE  task'[i] = task[i] \/ task'[i].st # "running"
    BY <2>1, <2>2 DEF TaskFails
  <2> QED
    BY <2>1, <2>2 DEF TaskFrees, OrphanRuns, DetachedRuns, Register
<1>3. OwnedBy(i)' \subseteq OwnedBy(i)
  <2>1. UNCHANGED owner \/ (\E m : FreeMachine(m)) \/ (\E c, ms : c.id # i /\ Assign(ms, c.id))
    BY DEF TaskFails, TaskFrees, OrphanRuns, DetachedRuns, Register
  <2> QED
    BY <2>1, FreeLess, GrantElsewhere, SameOwners
<1> QED
  BY <1>1, <1>2, <1>3 DEF Elsewhere, LosesOnly, PassGoesOn, TaskGoesOn

\* What a step can have to do with allocation i.
Own(i) ==
  \/ FulfillStep(i) \/ ReleaseStep(i) \/ HeartbeatRead(i)
  \/ \E a \in {"ful", "rel", "hb"} : UpdateRead(<<a, i>>) \/ UpdateWrite(<<a, i>>)
  \/ upd[Daemon].id = i /\ (UpdateWrite(Daemon) \/ (UpdateRead(Daemon) /\ ~Missing(i)))
  \/ PassStart \/ PassLook(i) \/ PassAwait(i)
  \/ dmn.cur = i /\ (PassCheck \/ PassExpire)
  \/ TaskFrees(i)
  \/ \E c \in detached : c.id = i /\ DetachedRuns(c)
  \/ Crash \/ Tick

LEMMA Locality ==
  ASSUME ConstantsAssumption, NullAssumption, Typed, Inv, [Next]_vars, NEW i \in Ids
  PROVE  Elsewhere(i) \/ Own(i)
<1>1. CASE UNCHANGED vars
  BY <1>1, SameOwners DEF vars, Elsewhere, LosesOnly, PassGoesOn, TaskGoesOn
<1>2. ASSUME NEW j \in Ids, FulfillStep(j) \/ ReleaseStep(j) \/ HeartbeatRead(j)
      PROVE  Elsewhere(i) \/ Own(i)
  BY <1>2, OtherFulfill, OtherRelease DEF Own
<1>3. ASSUME NEW p \in Coroutines, UpdateRead(p) \/ UpdateWrite(p)
      PROVE  Elsewhere(i) \/ Own(i)
  <2>1. CASE p = Daemon
    BY <1>3, <2>1, OtherDaemonUpdate DEF Own
  <2>2. ASSUME NEW j \in Ids, NEW a \in {"ful", "rel", "hb"}, p = <<a, j>>
        PROVE  Elsewhere(i) \/ Own(i)
    BY <1>3, <2>2, OtherUpdate DEF Own
  <2> QED
    BY <2>1, <2>2, CoroutineNames
<1>4. CASE PassStep
  BY <1>4, OtherPass DEF PassStep, Own
<1>5. CASE \E j \in Ids : TaskFrees(j) \/ TaskFails(j)
  BY <1>5, OtherTask DEF Own
<1>6. CASE \E ms \in orphans : OrphanRuns(ms)
  BY <1>6, OtherTask
<1>7. CASE (\E c \in detached : DetachedRuns(c)) \/ (\E r \in RMs : Register(r))
  BY <1>7, OtherTask DEF Own
<1>8. CASE Crash \/ Tick
  BY <1>8 DEF Own
<1> QED
  BY <1>1, <1>2, <1>3, <1>4, <1>5, <1>6, <1>7, <1>8 DEF Next

------------------------------------------------------------------------------
(* Steps of allocation i                                                   *)

\* What does not depend on the fulfil or on a heartbeat.
LEMMA RestSame ==
  ASSUME NEW i \in Ids, Clean(i),
         alloc'[i] = alloc[i], rel'[i] = rel[i], OwnedBy(i)' \subseteq OwnedBy(i),
         task'[i] = task[i], dmn' = dmn,
         upd'[<<"rel", i>>] = upd[<<"rel", i>>], upd'[Daemon] = upd[Daemon]
  PROVE  ReleaseFrees(i)' /\ PassKnows(i)' /\ TaskFreesAll(i)' /\ PassSpares(i)'
<1>1. /\ Missing(i)' <=> Missing(i)
      /\ Holds(i)' <=> Holds(i)
      /\ Releasing(i)' <=> Releasing(i)
      /\ Freed(i) => Freed(i)'
  BY DEF Missing, Holds, Releasing, Freed, Updating
<1>2. /\ Updating(<<"rel", i>>)' <=> Updating(<<"rel", i>>)
      /\ Names(<<"rel", i>>)' = Names(<<"rel", i>>)
      /\ Writes(Daemon, i)' <=> Writes(Daemon, i)
      /\ Names(Daemon)' = Names(Daemon) /\ Intent(Daemon)' = Intent(Daemon)
  BY DEF Updating, Writes, Names, Intent
<1>3. ReleaseFrees(i)'
  BY <1>1, <1>2 DEF Clean, ReleaseFrees
<1>4. PassKnows(i)' /\ TaskFreesAll(i)'
  BY <1>1 DEF Clean, PassKnows, TaskFreesAll
<1>5. PassSpares(i)'
  BY <1>1, <1>2 DEF Clean, PassSpares
<1> QED
  BY <1>3, <1>4, <1>5

\* A step of the fulfil that neither writes a record nor is granted machines.
LEMMA FulfilGoesOn ==
  ASSUME NEW i \in Ids, Clean(i),
         alloc'[i] = alloc[i], rel'[i] = rel[i], OwnedBy(i)' = OwnedBy(i),
         task'[i] = task[i], dmn' = dmn, upd'[Daemon] = upd[Daemon],
         \A a \in {"rel", "hb"} : upd'[<<a, i>>] = upd[<<a, i>>],
         OneGrant(i)', GrantLeft(i)' => GrantLeft(i), Marked(i)' /\ ~Missing(i) => Marked(i),
         \/ upd'[<<"ful", i>>] = upd[<<"ful", i>>]
         \/ upd'[<<"ful", i>>] = NoUpd
         \/ upd'[<<"ful", i>>].copy = NoRec /\ upd'[<<"ful", i>>].kw.status # "success"
  PROVE  Clean(i)'
<1>1. ReleaseFrees(i)' /\ PassKnows(i)' /\ TaskFreesAll(i)' /\ PassSpares(i)'
  BY RestSame
<1>2. (Missing(i)' <=> Missing(i))
  BY DEF Missing
<1>3. ASSUME NEW p \in {<<"rel", i>>, <<"hb", i>>, Daemon}
      PROVE  upd'[p] = upd[p] /\ (Writes(p, i)' <=> Writes(p, i)) /\ Names(p)' = Names(p)
  BY <1>3 DEF Updating, Writes, Names, Intent
<1>4. LET p == <<"ful", i>> IN
      \/ /\ Updating(p)' <=> Updating(p)
         /\ upd'[p] = upd[p] /\ (Writes(p, i)' <=> Writes(p, i)) /\ Names(p)' = Names(p)
         /\ Intent(p)' = Intent(p)
      \/ ~Updating(p)' /\ ~Writes(p, i)'
      \/ upd'[p].copy = NoRec /\ Names(p)' = {}
  BY DEF Updating, Writes, Names, Intent
<1>5. EmptyHanded(i)'
  <2>1. GrantLeft(i)' => \A p \in Writers(i) : Writes(p, i)' => Names(p)' = {}
    BY <1>3, <1>4 DEF Clean, EmptyHanded, Writers
  <2> QED
    BY <1>2, <2>1 DEF Clean, EmptyHanded, Writers
<1>6. Named(i)'
  <2>1. \A p \in Writers(i) : (Writes(p, i) /\ upd[p].copy # NoRec)' => upd'[p].copy.rm # NoRM
    BY <1>3, <1>4 DEF Clean, Named, Writers
  <2> QED
    BY <1>2, <2>1 DEF Clean, Named, Writers
<1>7. OpenBare(i)'
  BY <1>2, <1>4 DEF Clean, OpenBare
<1> QED
  BY <1>1, <1>5, <1>6, <1>7 DEF Clean

LEMMA FulfilFrame ==
  ASSUME ConstantsAssumption, Typed, NEW i \in Ids, FulfillStep(i)
  PROVE  /\ UNCHANGED <<rel, task, dmn>>
         /\ upd'[Daemon] = upd[Daemon]
         /\ \A a \in {"rel", "hb"} : upd'[<<a, i>>] = upd[<<a, i>>]
<1>1. UNCHANGED <<rel, task, dmn>>
  BY DEF FulfillStep, FulfillStart, FulfillSave, FulfillFind, FulfillGiveUp, FulfillMark, FulfillAsk,
         FulfillCall, FulfillReply, FulfillCancelled
<1>2. upd \in [Coroutines -> Updates \cup {NoUpd}]
  BY DEF Typed, UpdTyped
<1>3. \A p \in Coroutines \ {<<"ful", i>>} : upd'[p] = upd[p]
  BY <1>2 DEF FulfillStep, FulfillStart, FulfillSave, FulfillFind, FulfillGiveUp, FulfillMark, FulfillAsk,
         FulfillCall, FulfillReply, FulfillCancelled, Begin
<1> QED
  BY <1>1, <1>3, CoroutineNames DEF Daemon

\* What is left of a fulfil's plan, and that it goes through it once.
LEMMA FulfilMoves ==
  ASSUME ConstantsAssumption, NullAssumption, TimelyWorld, Typed, Short, NEW i \in Ids, Named(i),
         \/ FulfillStart(i) \/ FulfillFind(i) \/ FulfillMark(i) \/ FulfillAsk(i)
         \/ FulfillReply(i) \/ FulfillCancelled(i)
  PROVE  /\ PastCall(i) => PastCall(i)'
         /\ Marked(i)' /\ ~Missing(i) => Marked(i)
         /\ \/ upd'[<<"ful", i>>] = upd[<<"ful", i>>]
            \/ upd'[<<"ful", i>>] = NoUpd
            \/ upd'[<<"ful", i>>].copy = NoRec /\ upd'[<<"ful", i>>].kw.status # "success"
<1> DEFINE p == <<"ful", i>>
<1>0. /\ ful \in [Ids -> Fulfils] /\ ful[i] \in Fulfils /\ InPlan(ful[i])
      /\ Len(ful[i].plan) \in Nat /\ ful[i].k \in Nat
      /\ upd \in [Coroutines -> Updates \cup {NoUpd}] /\ p \in Coroutines
  BY CoroutineNames, PlanIs DEF Typed, FulTyped, UpdTyped, Fulfils
<1>1. CASE FulfillStart(i)
  BY <1>0, <1>1 DEF FulfillStart, TimelyWorld, PastCall, Missing
<1>2. CASE FulfillFind(i)
  <2>1. ful'[i].pc \in {"mark", "giveup"} /\ (ful'[i].pc = "mark" => ful'[i].k = 1)
    <3>1. CASE GoTo(i, "giveup")
      BY <1>0, <3>1 DEF GoTo, Fulfils
    <3> QED
      BY <1>2, <3>1, FindIs
  <2> QED
    BY <1>2, <2>1 DEF FulfillFind, At, PastCall, Marked, Updating
<1>3. CASE FulfillMark(i)
  <2>1. CASE ful[i].k <= Len(ful[i].plan)
    <3>1. /\ upd'[p] = [id |-> i, kw |-> [status |-> "allocating", rm |-> ful[i].plan[ful[i].k].rm],
                        copy |-> NoRec]
          /\ ful' = [ful EXCEPT ![i].k = ful[i].k + 1] /\ ful[i].pc = "mark"
      BY <1>0, <1>3, <2>1 DEF FulfillMark, Begin, At
    <3>2. ful'[i].pc = "mark" /\ "rm" \in DOMAIN upd'[p].kw
      BY <1>0, <3>1 DEF Fulfils
    <3>3. Updating(p)'
      <4>1. upd'[p] \in Updates
        <5>1. ful[i].plan[ful[i].k].rm \in RMs
          BY <1>0, <2>1, <3>1, PlanIs DEF InPlan, Fulfils
        <5> QED
          BY <3>1, <5>1 DEF Updates, Arguments
      <4> QED
        BY <4>1, NullAssumption DEF Updating, NullAssumption
    <3> QED
      BY <3>1, <3>2, <3>3 DEF PastCall, Marked
  <2>2. CASE ful[i].k > Len(ful[i].plan)
    <3>1. /\ upd' = upd /\ ful' = [ful EXCEPT ![i].k = 1, ![i].pc = "ask"]
          /\ ful[i].pc = "mark" /\ ~Updating(p)
      BY <1>0, <1>3, <2>2 DEF FulfillMark, At
    <3>2. ful'[i].pc = "ask" /\ ful'[i].k = 1 /\ ful'[i].plan = ful[i].plan
      BY <1>0, <3>1 DEF Fulfils
    <3> QED
      BY <1>0, <2>2, <3>1, <3>2 DEF PastCall, Marked, Updating
  <2> QED
    BY <1>0, <2>1, <2>2
<1>4. CASE FulfillAsk(i)
  <2>1. upd' = upd /\ ful[i].pc = "ask" /\ ~Updating(p)
    BY <1>4 DEF FulfillAsk, At
  <2>2. \/ ful[i].k > Len(ful[i].plan) /\ ful'[i].pc = "reply"
        \/ ful[i].k <= Len(ful[i].plan) /\ ful'[i].pc = "done"
        \/ /\ ful[i].k <= Len(ful[i].plan)
           /\ ful'[i].pc = "call" /\ ful'[i].k = ful[i].k /\ ful'[i].plan = ful[i].plan
    BY <1>0, <1>4 DEF FulfillAsk, GoTo, FulDies, Fulfils
  <2> QED
    BY <1>0, <2>1, <2>2 DEF PastCall, Marked, Updating
<1>5. CASE FulfillReply(i)
  BY <1>0, <1>5 DEF FulfillReply, FulDies, PastCall, Marked, Updating, At
<1>6. CASE FulfillCancelled(i)
  BY <1>0, <1>6 DEF FulfillCancelled, FulDies, PastCall, Marked, Updating
<1> QED
  BY <1>1, <1>2, <1>3, <1>4, <1>5, <1>6

\* A step of a fulfil that is not over: only it can be writing the record.
LEMMA YoungClean ==
  ASSUME ConstantsAssumption, NullAssumption, Typed, Inv, NEW i \in Ids, Clean(i), ~Over(i),
         rel'[i] = rel[i], task'[i] = task[i], dmn' = dmn, upd'[Daemon] = upd[Daemon],
         \A a \in {"rel", "hb"} : upd'[<<a, i>>] = upd[<<a, i>>],
         OneGrant(i)',
         GrantLeft(i)' => /\ OwnedBy(i)' = {} /\ (Missing(i)' \/ alloc'[i].hw = {})
                          /\ Updating(<<"ful", i>>)' => Names(<<"ful", i>>)' = {},
         \/ Missing(i)'
         \/ alloc'[i].rm # NoRM
         \/ alloc'[i].status = "received" /\ ~Marked(i)',
         ~Missing(i)' /\ ~Holds(i)' => alloc'[i].hw = {},
         Updating(<<"ful", i>>)' =>
           /\ upd'[<<"ful", i>>].copy # NoRec => upd'[<<"ful", i>>].copy.rm # NoRM
           /\ Intent(<<"ful", i>>)'.status # "success" => Names(<<"ful", i>>)' = {}
  PROVE  Clean(i)'
<1> DEFINE f == <<"ful", i>>
<1>1. Young(i) /\ ~Quiet(i)
  BY NotOverYoung DEF Inv, Quiet
<1>2. ~Writes(<<"rel", i>>, i)' /\ ~Writes(<<"hb", i>>, i)' /\ ~Updating(<<"rel", i>>)'
  BY <1>1 DEF Young, Beats, Writes, Updating
<1>3. ~Writes(Daemon, i)'
  BY <1>1 DEF Inv, PassWrites, Writes, Updating
<1>4. ASSUME NEW p \in Writers(i), Writes(p, i)'
      PROVE  p = f /\ Updating(f)'
  BY <1>2, <1>3, <1>4 DEF Writers, Writes
<1>5. EmptyHanded(i)'
  <2>1. GrantLeft(i)' => \A p \in Writers(i) : Writes(p, i)' => Names(p)' = {}
    BY <1>4
  <2> QED
    BY <2>1 DEF EmptyHanded, Writers
<1>6. Named(i)'
  <2>1. \A p \in Writers(i) : (Writes(p, i) /\ upd[p].copy # NoRec)' => upd'[p].copy.rm # NoRM
    BY <1>4
  <2> QED
    BY <2>1 DEF Named, Writers
<1>7. OpenBare(i)'
  BY DEF OpenBare, Holds, Open
<1>8. ReleaseFrees(i)' /\ PassSpares(i)'
  BY <1>1, <1>2, <1>3 DEF ReleaseFrees, PassSpares, Releasing, Young, Idle
<1>9. TaskFreesAll(i)'
  BY <1>1 DEF TaskFreesAll, Young
<1>10. PassKnows(i)'
  BY <1>1 DEF PassKnows, Young, Freed, Clean
<1> QED
  BY <1>5, <1>6, <1>7, <1>8, <1>9, <1>10 DEF Clean

\* A step, not of the fulfil, of an allocation whose fulfil is over.
LEMMA OverClean ==
  ASSUME Typed, NEW i \in Ids, Clean(i), Over(i),
         ful'[i] = ful[i], upd'[<<"ful", i>>] = upd[<<"ful", i>>],
         \A c \in detached' : c.id = i => c \in detached,
         GrantLeft(i) =>
           /\ OwnedBy(i)' = {} /\ (Missing(i)' \/ alloc'[i].hw = {})
           /\ \A p \in Writers(i) \ {<<"ful", i>>} : Writes(p, i)' => Names(p)' = {},
         ~Missing(i)' /\ alloc'[i].rm = NoRM => alloc'[i].status = "received",
         \A p \in Writers(i) \ {<<"ful", i>>} :
           (Writes(p, i) /\ upd[p].copy # NoRec)' => upd'[p].copy.rm # NoRM,
         ~Missing(i)' /\ alloc'[i].status \in Open => alloc'[i].hw = {},
         ReleaseFrees(i)', PassKnows(i)', TaskFreesAll(i)', PassSpares(i)'
  PROVE  Clean(i)'
<1>1. (PastCall(i)' <=> PastCall(i)) /\ ~Updating(<<"ful", i>>)' /\ PastCall(i)
  BY DEF PastCall, Over, Updating
<1>2. ~Marked(i)'
  <2>1. Len(ful[i].plan) \in Nat /\ ful[i].k \in Nat
    BY PlanIs DEF Typed, FulTyped, Fulfils
  <2> QED
    BY <1>1, <2>1 DEF Marked, PastCall, Updating
<1>3. OneGrant(i)' /\ (GrantLeft(i)' => GrantLeft(i))
  BY <1>1 DEF OneGrant, GrantLeft, Clean
<1>4. ~Writes(<<"ful", i>>, i)'
  BY <1>1 DEF Writes
<1>5. EmptyHanded(i)'
  <2>1. GrantLeft(i)' => \A p \in Writers(i) : Writes(p, i)' => Names(p)' = {}
    BY <1>3, <1>4
  <2> QED
    BY <1>3, <2>1 DEF EmptyHanded, Writers
<1>6. Named(i)'
  <2>1. \A p \in Writers(i) : (Writes(p, i) /\ upd[p].copy # NoRec)' => upd'[p].copy.rm # NoRM
    BY <1>4
  <2> QED
    BY <1>2, <2>1 DEF Named, Writers
<1>7. OpenBare(i)'
  BY <1>1 DEF OpenBare
<1> QED
  BY <1>3, <1>5, <1>6, <1>7 DEF Clean

\* update_status changes neither the machines nor the resource manager of a
\* record unless it is told to.
LEMMA UpdatedFields ==
  ASSUME ConstantsAssumption, NEW rec \in Records, NEW kw \in Arguments
  PROVE  /\ kw.status # "success" => Updated(rec, kw).hw = rec.hw
         /\ Updated(rec, kw).rm = NoRM => rec.rm = NoRM /\ "rm" \notin DOMAIN kw
<1>1. DOMAIN rec = {"status", "left", "rm", "hw"}
  BY DEF Records
<1>2. /\ Updated(rec, kw).hw = IF "hw" \in DOMAIN kw THEN kw.hw ELSE rec.hw
      /\ Updated(rec, kw).rm = IF "rm" \in DOMAIN kw THEN kw.rm ELSE rec.rm
  BY <1>1 DEF Updated
<1>3. kw.status # "success" => "hw" \notin DOMAIN kw
  BY DEF Arguments
<1>4. "rm" \in DOMAIN kw => kw.rm \in RMs
  BY DEF Arguments
<1> QED
  BY <1>2, <1>3, <1>4 DEF ConstantsAssumption

LEMMA OnlyOne ==
  ASSUME NEW k \in Nat, NEW n \in Nat, 1 <= k, k <= n, n <= 1
  PROVE  k = 1 /\ n = 1
  OBVIOUS

LEMMA FulfilClean ==
  ASSUME ConstantsAssumption, NullAssumption, TimelyWorld, Typed, Short, Inv, NEW i \in Ids, Clean(i),
         FulfillStep(i)
  PROVE  Clean(i)'
<1> DEFINE p == <<"ful", i>>
<1>0. /\ ful \in [Ids -> Fulfils] /\ ful[i] \in Fulfils /\ InPlan(ful[i])
      /\ Len(ful[i].plan) \in Nat /\ ful[i].k \in Nat /\ Len(ful[i].plan) <= 1
      /\ upd \in [Coroutines -> Updates \cup {NoUpd}] /\ p \in Coroutines
      /\ alloc \in [Ids -> Records \cup {NoRec}] /\ Stands(i)
  BY CoroutineNames, PlanIs DEF Typed, FulTyped, UpdTyped, Fulfils, Short, Inv
<1>1. /\ rel'[i] = rel[i] /\ task'[i] = task[i] /\ dmn' = dmn
      /\ upd'[Daemon] = upd[Daemon]
      /\ \A a \in {"rel", "hb"} : upd'[<<a, i>>] = upd[<<a, i>>]
  BY FulfilFrame
<1>2. ~Over(i) => Missing(i) \/ alloc[i].status \in Open
  BY <1>0 DEF Stands, ServedByFulfil
<1>3. CASE \/ FulfillStart(i) \/ FulfillFind(i) \/ FulfillMark(i) \/ FulfillAsk(i)
           \/ FulfillReply(i) \/ FulfillCancelled(i)
  <2>1. UNCHANGED <<alloc, owner, detached>>
    BY <1>3 DEF FulfillStart, FulfillFind, FulfillMark, FulfillAsk, FulfillReply, FulfillCancelled
  <2>2. /\ PastCall(i) => PastCall(i)'
        /\ Marked(i)' /\ ~Missing(i) => Marked(i)
        /\ \/ upd'[p] = upd[p]
           \/ upd'[p] = NoUpd
           \/ upd'[p].copy = NoRec /\ upd'[p].kw.status # "success"
    BY <1>3, FulfilMoves DEF Clean
  <2>3. OneGrant(i)' /\ (GrantLeft(i)' => GrantLeft(i))
    BY <2>1, <2>2 DEF Clean, OneGrant, GrantLeft
  <2> QED
    BY <1>1, <2>1, <2>2, <2>3, SameOwners, FulfilGoesOn
<1>4. CASE FulfillSave(i)
  <2>1. ~Over(i) /\ ~PastCall(i) /\ ~Updating(p) /\ UNCHANGED <<upd, owner, detached>>
    BY <1>4 DEF FulfillSave, At, Over, PastCall
  <2>2. alloc'[i] = Request /\ ful'[i].pc = "find"
    BY <1>0, <1>4 DEF FulfillSave, Save, GoTo, Fulfils
  <2>3. alloc'[i].hw = {} /\ alloc'[i].status = "received" /\ ~Marked(i)' /\ ~Updating(p)' /\ ~PastCall(i)'
    BY <2>1, <2>2 DEF Request, Marked, Updating, PastCall
  <2>4. OwnedBy(i)' = {}
    BY <2>1, SameOwners DEF Clean, EmptyHanded, GrantLeft
  <2>5. OneGrant(i)'
    BY <2>1, <2>3 DEF Clean, OneGrant
  <2> QED
    BY <1>1, <2>1, <2>3, <2>4, <2>5, YoungClean
<1>5. CASE FulfillGiveUp(i)
  <2>1. ~Over(i) /\ ~PastCall(i) /\ ~Updating(p) /\ UNCHANGED <<upd, owner, detached>>
    BY <1>5 DEF FulfillGiveUp, At, Over, PastCall
  <2>2. Missing(i)' /\ ful'[i].pc = "done"
    BY <1>0, <1>5 DEF FulfillGiveUp, Delete, Save, FulDies, Missing
  <2>3. ~Updating(p)' /\ PastCall(i)'
    BY <2>1, <2>2 DEF Updating, PastCall
  <2>4. OwnedBy(i)' = {}
    BY <2>1, SameOwners DEF Clean, EmptyHanded, GrantLeft
  <2>5. OneGrant(i)'
    BY <2>1, <2>3 DEF Clean, OneGrant
  <2> QED
    BY <1>1, <2>1, <2>2, <2>3, <2>4, <2>5, YoungClean
<1>6. CASE FulfillCall(i)
  <2>1. /\ ful[i].pc = "call" /\ ~Updating(p) /\ UNCHANGED alloc
        /\ ~PastCall(i) /\ ~Over(i)
    BY <1>6 DEF FulfillCall, At, PastCall, Over
  <2>2. /\ OwnedBy(i) = {} /\ (Missing(i) \/ alloc[i].hw = {})
        /\ \A c \in detached : c.id # i
    BY <2>1 DEF Clean, EmptyHanded, OneGrant, GrantLeft
  <2>3. ful[i].k = 1 /\ Len(ful[i].plan) = 1
    <3>1. 1 <= ful[i].k /\ ful[i].k <= Len(ful[i].plan)
      BY <1>0, <2>1 DEF InPlan
    <3>2. Len(ful[i].plan) \in Nat /\ ful[i].k \in Nat /\ Len(ful[i].plan) <= 1
      BY <1>0
    <3> QED
      BY <3>1, <3>2, OnlyOne
  <2>4. ~Missing(i) => alloc[i].rm # NoRM
    BY <2>1, <2>3 DEF Clean, Named, Marked
  <2>5. (Missing(i)' <=> Missing(i)) /\ alloc'[i] = alloc[i]
    BY <2>1 DEF Missing
  <2>6. ASSUME NEW to, NEW n, NEW ms \in Grants(to, n), Assign(ms, i), Begin(p, i, Fulfilled(ms)),
               ful' = [ful EXCEPT ![i].pc = "ask", ![i].k = @ + 1], UNCHANGED detached
        PROVE  Clean(i)'
    <3>1. upd'[p] = [id |-> i, kw |-> Fulfilled(ms), copy |-> NoRec]
      BY <1>0, <2>6 DEF Begin
    <3>2. ful'[i].pc = "ask" /\ ful'[i].k = 2 /\ ful'[i].plan = ful[i].plan
      BY <1>0, <2>3, <2>6 DEF Fulfils
    <3>3. PastCall(i)'
      <4>1. Len(ful'[i].plan) = 1 /\ ful'[i].k = 2
        BY <2>3, <3>2
      <4>2. ful'[i].k > Len(ful'[i].plan)
        BY <4>1
      <4> QED
        BY <3>2, <4>2 DEF PastCall
    <3>4. OneGrant(i)' /\ ~GrantLeft(i)'
      BY <2>2, <2>6, <3>3 DEF OneGrant, GrantLeft
    <3>5. upd'[p].copy = NoRec /\ Intent(p)'.status = "success"
      BY <3>1 DEF Intent, Fulfilled
    <3> QED
      BY <1>1, <2>1, <2>2, <2>4, <2>5, <3>4, <3>5, YoungClean
  <2>7. ASSUME NEW st \in Statuses \ {"success"}, Begin(p, i, [status |-> st]), GoTo(i, "reply"), UNCHANGED owner,
               NEW to, NEW n, detached' \subseteq detached \cup {[id |-> i, rm |-> to, n |-> n]}
        PROVE  Clean(i)'
    <3>1. upd'[p] = [id |-> i, kw |-> [status |-> st], copy |-> NoRec]
      BY <1>0, <2>7 DEF Begin
    <3>2. PastCall(i)'
      BY <1>0, <2>7 DEF GoTo, PastCall, Fulfils
    <3>3. OneGrant(i)'
      BY <2>2, <2>7, <3>2 DEF OneGrant
    <3>4. upd'[p].copy = NoRec /\ Names(p)' = {}
      BY <3>1 DEF Names
    <3> QED
      BY <1>1, <2>1, <2>2, <2>4, <2>5, <2>7, <3>3, <3>4, SameOwners, YoungClean
  <2> QED
    BY <1>6, <2>6, <2>7 DEF FulfillCall, Statuses
<1> QED
  BY <1>3, <1>4, <1>5, <1>6 DEF FulfillStep

\* update_status in a fulfil.
LEMMA FulfilUpdateClean ==
  ASSUME ConstantsAssumption, NullAssumption, Typed, Inv, NEW i \in Ids, Clean(i),
         UpdateRead(<<"ful", i>>) \/ UpdateWrite(<<"ful", i>>)
  PROVE  Clean(i)'
<1> DEFINE p == <<"ful", i>>
<1>0. /\ upd \in [Coroutines -> Updates \cup {NoUpd}] /\ ful \in [Ids -> Fulfils]
      /\ alloc \in [Ids -> Records \cup {NoRec}]
      /\ p \in Coroutines /\ p # Daemon /\ p[1] = "ful" /\ p[2] = i
      /\ UNCHANGED <<owner, detached>> /\ OwnedBy(i)' = OwnedBy(i)
  <2>1. upd \in [Coroutines -> Updates \cup {NoUpd}] /\ ful \in [Ids -> Fulfils]
        /\ alloc \in [Ids -> Records \cup {NoRec}]
    BY DEF Typed, UpdTyped, FulTyped
  <2>2. p \in Coroutines /\ p # Daemon /\ p[1] = "ful" /\ p[2] = i
    BY CoroutineNames DEF Daemon
  <2>3. UNCHANGED <<owner, detached>>
    BY DEF UpdateRead, UpdateWrite
  <2>4. OwnedBy(i)' = OwnedBy(i)
    BY <2>3, SameOwners
  <2> HIDE DEF p
  <2> QED
    BY <2>1, <2>2, <2>3, <2>4
<1>1. Updating(p) /\ upd[p] \in Updates /\ ~Over(i) /\ upd[p].id = i /\ Writes(p, i)
  <2>1. Updating(p)
    BY DEF UpdateRead, UpdateWrite
  <2>2. upd[p].id = i
    BY <2>1, WrittenFor
  <2> QED
    BY <1>0, <2>1, <2>2 DEF Updating, Over, Writes
<1>2. /\ rel'[i] = rel[i] /\ task'[i] = task[i] /\ dmn' = dmn
      /\ upd'[Daemon] = upd[Daemon]
      /\ \A a \in {"rel", "hb"} : upd'[<<a, i>>] = upd[<<a, i>>]
  <2>1. \A q \in Coroutines \ {p} : upd'[q] = upd[q]
    BY <1>0 DEF UpdateRead, UpdateWrite
  <2>2. UNCHANGED <<rel, task, dmn>>
    BY <1>0 DEF UpdateRead, UpdateWrite, Dies
  <2> QED
    BY <1>0, <2>1, <2>2, CoroutineNames
<1>3. Missing(i) \/ alloc[i].status \in Open
  BY <1>1 DEF Inv, Stands, ServedByFulfil
<1>4. CASE UpdateRead(p) /\ Missing(i)
  <2>1. upd'[p] = NoUpd /\ ful'[i].pc = "done" /\ alloc' = alloc
    BY <1>0, <1>1, <1>4 DEF UpdateRead, Dies, FulDies
  <2>2. ~Updating(p)' /\ PastCall(i)' /\ Missing(i)'
    BY <1>4, <2>1 DEF Updating, PastCall, Missing
  <2>3. OneGrant(i)' /\ (GrantLeft(i)' => GrantLeft(i))
    BY <1>0, <2>2 DEF Clean, OneGrant, GrantLeft
  <2> QED
    BY <1>0, <1>1, <1>2, <2>2, <2>3, YoungClean DEF Clean, EmptyHanded
<1>5. CASE UpdateRead(p) /\ ~Missing(i)
  <2> DEFINE kw == upd[p].kw
             new == Updated(alloc[i], kw)
  <2>1. /\ upd' = [upd EXCEPT ![p] = [id |-> i, kw |-> << >>, copy |-> new]]
        /\ UNCHANGED <<alloc, ful>>
        /\ upd[p].copy = NoRec /\ kw \in Arguments
    BY <1>0, <1>1, <1>5 DEF UpdateRead, Typed, UpdTyped
  <2>2. /\ new \in Records /\ new.status = kw.status
        /\ kw.status # "success" => new.hw = alloc[i].hw
        /\ kw.status = "success" => new.hw = kw.hw
        /\ new.rm = NoRM => alloc[i].rm = NoRM /\ "rm" \notin DOMAIN kw
    BY <1>0, <1>5, <2>1, UpdatedIs, UpdatedFields DEF Missing
  <2> HIDE DEF new
  <2>3. upd'[p] = [id |-> i, kw |-> << >>, copy |-> new]
    BY <1>0, <2>1
  <2>4. Intent(p)' = new /\ Names(p)' = new.hw /\ upd'[p].copy = new /\ new # NoRec
    BY <2>2, <2>3 DEF Intent, Names, NullAssumption
  <2>5. /\ PastCall(i)' <=> PastCall(i)
        /\ OneGrant(i)' /\ (GrantLeft(i)' => GrantLeft(i))
    BY <1>0, <2>1 DEF Clean, OneGrant, GrantLeft, PastCall
  <2>6. (Missing(i)' <=> Missing(i)) /\ alloc'[i] = alloc[i] /\ (Holds(i)' <=> Holds(i))
    BY <2>1 DEF Missing, Holds
  <2>7. alloc[i].hw = {}
    BY <1>3, <1>5 DEF Clean, OpenBare
  <2>8. new.rm # NoRM
    <3>1. "rm" \notin DOMAIN kw => Marked(i)
      BY <1>1, <2>1 DEF Marked
    <3> QED
      BY <1>5, <2>2, <3>1 DEF Clean, Named
  <2>9. GrantLeft(i) => new.hw = {}
    <3>1. GrantLeft(i) /\ kw.status = "success" => kw.hw = {}
      <4>1. kw.status = "success" => Names(p) = kw.hw
        BY <2>1 DEF Names, Intent
      <4> QED
        BY <1>1, <4>1 DEF Clean, EmptyHanded, Writers
    <3> QED
      BY <2>2, <2>7, <3>1
  <2>10. alloc'[i].rm # NoRM \/ (alloc'[i].status = "received" /\ ~Marked(i)')
    <3>1. Marked(i)' => Marked(i)
      <4>1. Updating(p)'
        BY <1>1, <2>2, <2>3 DEF Updating, Updates, NullAssumption
      <4> QED
        BY <2>1, <2>4, <4>1 DEF Marked
    <3> QED
      BY <1>5, <2>6, <3>1 DEF Clean, Named
  <2>11. GrantLeft(i)' => /\ OwnedBy(i)' = {} /\ (Missing(i)' \/ alloc'[i].hw = {})
                          /\ Updating(p)' => Names(p)' = {}
    BY <1>0, <2>4, <2>5, <2>6, <2>7, <2>9 DEF Clean, EmptyHanded
  <2>12. ~Missing(i)' /\ ~Holds(i)' => alloc'[i].hw = {}
    BY <2>6, <2>7
  <2>13. Updating(p)' => /\ upd'[p].copy # NoRec => upd'[p].copy.rm # NoRM
                         /\ Intent(p)'.status # "success" => Names(p)' = {}
    BY <2>2, <2>4, <2>7, <2>8
  <2> QED
    BY <1>1, <1>2, <2>5, <2>10, <2>11, <2>12, <2>13, YoungClean
<1>6. CASE UpdateWrite(p)
  <2> DEFINE new == upd[p].copy
  <2>1. /\ alloc'[i] = new /\ new \in Records /\ new # NoRec
        /\ upd'[p] = NoUpd /\ ful' = ful
    BY <1>0, <1>1, <1>6 DEF UpdateWrite, Save, Updates
  <2> HIDE DEF new
  <2>2. Intent(p) = new /\ Names(p) = new.hw /\ new.rm # NoRM
    BY <1>1, <2>1 DEF Intent, Names, new, Clean, Named, Writers
  <2>3. ~Updating(p)' /\ ~Missing(i)'
    BY <2>1 DEF Updating, Missing
  <2>4. /\ PastCall(i)' <=> PastCall(i)
        /\ OneGrant(i)' /\ (GrantLeft(i)' => GrantLeft(i))
    BY <1>0, <2>1 DEF Clean, OneGrant, GrantLeft, PastCall
  <2>5. GrantLeft(i) => new.hw = {}
    BY <1>1, <2>2 DEF Clean, EmptyHanded, Writers
  <2>6. new.status # "success" => new.hw = {}
    BY <1>1, <2>2 DEF Clean, OpenBare
  <2> QED
    BY <1>0, <1>1, <1>2, <2>1, <2>2, <2>3, <2>4, <2>5, <2>6, YoungClean
    DEF Clean, EmptyHanded, Holds
<1> QED
  BY <1>4, <1>5, <1>6

LEMMA ReleaseFrame ==
  ASSUME ConstantsAssumption, Typed, NEW i \in Ids, ReleaseStep(i) \/ HeartbeatRead(i)
  PROVE  /\ UNCHANGED <<ful, task, dmn, detached>>
         /\ upd'[Daemon] = upd[Daemon] /\ upd'[<<"ful", i>>] = upd[<<"ful", i>>]
         /\ ReleaseStep(i) => upd'[<<"hb", i>>] = upd[<<"hb", i>>]
         /\ HeartbeatRead(i) => upd'[<<"rel", i>>] = upd[<<"rel", i>>]
<1>1. upd \in [Coroutines -> Updates \cup {NoUpd}]
  BY DEF Typed, UpdTyped
<1>2. /\ \A p \in Coroutines \ {<<"rel", i>>, <<"hb", i>>} : upd'[p] = upd[p]
      /\ ReleaseStep(i) => \A p \in Coroutines \ {<<"rel", i>>} : upd'[p] = upd[p]
      /\ HeartbeatRead(i) => \A p \in Coroutines \ {<<"hb", i>>} : upd'[p] = upd[p]
  BY <1>1 DEF ReleaseStep, ReleaseStart, ReleaseCall, ReleaseMark, ReleaseDelete, HeartbeatRead, Begin
<1>3. UNCHANGED <<ful, task, dmn, detached>>
  BY DEF ReleaseStep, ReleaseStart, ReleaseCall, ReleaseMark, ReleaseDelete, HeartbeatRead
<1>4. /\ Daemon \in Coroutines /\ <<"ful", i>> \in Coroutines
      /\ <<"rel", i>> \in Coroutines /\ <<"hb", i>> \in Coroutines
      /\ Daemon \notin {<<"rel", i>>, <<"hb", i>>}
  BY CoroutineNames DEF Daemon
<1> QED
  BY <1>2, <1>3, <1>4

\* While a client releases nobody else has to do with its allocation.
LEMMA ReleasingAlone ==
  ASSUME Typed, Inv, NEW i \in Ids, Clean(i), Releasing(i)
  PROVE  /\ Over(i) /\ ~Beats(i) /\ ~Idle(i) /\ task[i].st = "none"
         /\ ~Writes(Daemon, i)
         /\ i \in dmn.todo => dmn.snap[i].status \notin Checked
<1>1. ~Idle(i)
  BY DEF Inv, Stands, ReleaseWrites, Releasing, Idle
<1>2. Over(i) /\ ~Beats(i) /\ task[i].st = "none"
  BY <1>1 DEF Inv, Stands, ReleaseWrites, TaskFreesOwn
<1> QED
  BY <1>1, <1>2 DEF Clean, PassSpares, PassKnows

LEMMA ReleaseClean ==
  ASSUME ConstantsAssumption, NullAssumption, TimelyWorld, Typed, Inv, NEW i \in Ids, Clean(i),
         ReleaseStep(i)
  PROVE  Clean(i)'
<1> DEFINE p == <<"rel", i>>
<1>0. /\ UNCHANGED <<ful, task, dmn, detached>>
      /\ upd'[Daemon] = upd[Daemon] /\ upd'[<<"ful", i>>] = upd[<<"ful", i>>]
      /\ upd'[<<"hb", i>>] = upd[<<"hb", i>>]
      /\ rel \in [Ids -> Releases] /\ alloc \in [Ids -> Records \cup {NoRec}] /\ Stands(i)
      /\ upd \in [Coroutines -> Updates \cup {NoUpd}] /\ p \in Coroutines
  BY ReleaseFrame, CoroutineNames DEF Typed, UpdTyped, Inv
<1>1. ASSUME NEW q \in {<<"ful", i>>, <<"hb", i>>, Daemon}
      PROVE  /\ upd'[q] = upd[q]
             /\ Writes(q, i)' <=> Writes(q, i)
             /\ Names(q)' = Names(q) /\ Intent(q)' = Intent(q)
  BY <1>0, <1>1 DEF Updating, Writes, Names, Intent
<1>2. CASE ReleaseStart(i)
  <2>1. /\ Holds(i) /\ Holds(i)' /\ ~Missing(i) /\ ~Missing(i)' /\ alloc' = alloc
        /\ ~Updating(p) /\ ~Updating(p)' /\ UNCHANGED owner /\ OwnedBy(i)' = OwnedBy(i)
        /\ alloc[i].status = "success"
    BY <1>2, SameOwners DEF ReleaseStart, RelAt, Timely, TimelyWorld, Holds, Missing, Updating
  <2>2. rel'[i].pc = "call" /\ rel'[i].todo = alloc[i].hw
    BY <1>0, <1>2 DEF ReleaseStart
  <2>3. Over(i) /\ ~Writes(Daemon, i) /\ ~Writes(p, i)'
    BY <1>0, <2>1 DEF Stands, ServedByFulfil, Open, Inv, PassWrites, Quiet, Checked, Writes
  <2>4. ReleaseFrees(i)'
    BY <2>1, <2>2 DEF ReleaseFrees
  <2>5. PassKnows(i)'
    <3>1. i \in dmn.todo => dmn.snap[i].status \notin Checked
      BY <2>1 DEF Clean, PassKnows, Checked
    <3> QED
      BY <1>0, <2>1, <3>1 DEF Clean, PassKnows
  <2>6. TaskFreesAll(i)' /\ PassSpares(i)'
    BY <1>0, <1>1, <2>1, <2>3 DEF TaskFreesAll, PassSpares, Clean
  <2>7. \A q \in Writers(i) \ {<<"ful", i>>} : Writes(q, i)' => Writes(q, i) /\ upd'[q] = upd[q] /\ Names(q)' = Names(q)
    BY <1>1, <2>3 DEF Writers
  <2>8. \A q \in Writers(i) \ {<<"ful", i>>} :
          /\ (Writes(q, i) /\ upd[q].copy # NoRec)' => upd'[q].copy.rm # NoRM
          /\ GrantLeft(i) /\ Writes(q, i)' => Names(q)' = {}
    BY <2>7 DEF Clean, EmptyHanded, Named
  <2>9. /\ GrantLeft(i) => OwnedBy(i)' = {} /\ alloc'[i].hw = {}
        /\ alloc'[i].rm # NoRM /\ alloc'[i].status \notin Open
    BY <2>1 DEF Clean, EmptyHanded, Named, Open
  <2> QED
    BY <1>0, <2>3, <2>4, <2>5, <2>6, <2>8, <2>9, OverClean
<1>3. ASSUME Releasing(i), OwnedBy(i)' \subseteq OwnedBy(i), alloc' = alloc,
             ReleaseFrees(i)', Updating(p)' => Names(p)' = {} /\ upd'[p].copy = NoRec
      PROVE  Clean(i)'
  <2>1. /\ Over(i) /\ task[i].st = "none" /\ ~Writes(Daemon, i)
        /\ i \in dmn.todo => dmn.snap[i].status \notin Checked
    BY <1>3, ReleasingAlone
  <2>2. (Missing(i)' <=> Missing(i)) /\ (Holds(i)' <=> Holds(i)) /\ (Freed(i) => Freed(i)')
    BY <1>3 DEF Missing, Holds, Freed
  <2>3. PassKnows(i)'
    BY <1>0, <2>1, <2>2 DEF Clean, PassKnows
  <2>4. TaskFreesAll(i)' /\ PassSpares(i)'
    BY <1>0, <1>1, <2>1 DEF TaskFreesAll, PassSpares
  <2>5. \A q \in Writers(i) \ {<<"ful", i>>} :
          Writes(q, i)' => \/ Writes(q, i) /\ upd'[q] = upd[q] /\ Names(q)' = Names(q)
                           \/ Names(q)' = {} /\ upd'[q].copy = NoRec
    BY <1>1, <1>3 DEF Writers, Writes
  <2> QED
    BY <1>0, <1>3, <2>1, <2>2, <2>3, <2>4, <2>5, OverClean DEF Clean, EmptyHanded, Named, OpenBare
<1>4. CASE ReleaseCall(i)
  <2>1. rel[i].pc = "call" /\ ~Updating(p) /\ alloc' = alloc /\ upd' = upd
    BY <1>4 DEF ReleaseCall, RelAt
  <2>2. PICK m \in rel[i].todo : FreeMachine(m) /\ rel' = [rel EXCEPT ![i].todo = @ \ {m}]
    BY <1>4 DEF ReleaseCall, TimelyWorld
  <2>3. OwnedBy(i)' \subseteq OwnedBy(i) \ {m}
    BY <2>2, FreeLess
  <2>4. rel'[i].pc = "call" /\ rel'[i].todo = rel[i].todo \ {m}
    BY <1>0, <2>1, <2>2 DEF Releases
  <2>5. (Missing(i)' <=> Missing(i)) /\ (Holds(i)' <=> Holds(i)) /\ ~Updating(p)'
    BY <2>1 DEF Missing, Holds, Updating
  <2>6. ReleaseFrees(i)'
    BY <2>1, <2>3, <2>4, <2>5 DEF Clean, ReleaseFrees, Releasing
  <2> QED
    BY <1>3, <2>1, <2>3, <2>5, <2>6 DEF Releasing
<1>5. CASE ReleaseMark(i)
  <2>1. rel[i].pc = "call" /\ rel[i].todo = {} /\ alloc' = alloc /\ UNCHANGED owner /\ Releasing(i)
    BY <1>5 DEF ReleaseMark, RelAt, Releasing
  <2>2. rel'[i].pc = "delete" /\ upd'[p] = [id |-> i, kw |-> [status |-> "deallocated"], copy |-> NoRec]
    BY <1>0, <1>5 DEF ReleaseMark, Begin, Releases
  <2>3. /\ (Missing(i)' <=> Missing(i)) /\ (Holds(i)' <=> Holds(i)) /\ OwnedBy(i)' = OwnedBy(i)
        /\ upd'[p].copy = NoRec /\ Names(p)' = {}
    BY <2>1, <2>2, SameOwners DEF Missing, Holds, Names
  <2>4. Missing(i) \/ (Freed(i)' /\ Holds(i))
    BY <2>1, <2>3 DEF Clean, ReleaseFrees, Releasing, Freed
  <2>5. ReleaseFrees(i)'
    BY <2>2, <2>3, <2>4 DEF ReleaseFrees
  <2> QED
    BY <1>3, <2>1, <2>3, <2>5
<1>6. CASE ReleaseDelete(i)
  <2>1. rel[i].pc = "delete" /\ ~Updating(p) /\ upd' = upd /\ UNCHANGED owner
    BY <1>6 DEF ReleaseDelete, RelAt
  <2>2. Missing(i)' /\ rel'[i].pc = "idle" /\ ~Updating(p)' /\ OwnedBy(i)' = OwnedBy(i)
    BY <1>0, <1>6, <2>1, SameOwners DEF ReleaseDelete, Delete, Save, RelEnds, Missing, Updating
  <2>3. Over(i) /\ ~Releasing(i)'
    BY <1>0, <2>1, <2>2 DEF Stands, ReleaseWrites, Idle, Releasing
  <2>4. ReleaseFrees(i)' /\ PassKnows(i)' /\ TaskFreesAll(i)' /\ PassSpares(i)'
    BY <1>0, <2>2, <2>3 DEF ReleaseFrees, PassKnows, TaskFreesAll, PassSpares, Clean, Due
  <2>5. \A q \in Writers(i) \ {<<"ful", i>>} : Writes(q, i)' => Writes(q, i) /\ upd'[q] = upd[q] /\ Names(q)' = Names(q)
    BY <1>1, <2>2 DEF Writers, Writes
  <2> QED
    BY <1>0, <2>2, <2>3, <2>4, <2>5, OverClean DEF Clean, EmptyHanded, Named
<1> QED
  BY <1>2, <1>4, <1>5, <1>6 DEF ReleaseStep

\* update_status in a release.
LEMMA ReleaseUpdateClean ==
  ASSUME ConstantsAssumption, NullAssumption, Typed, Inv, NEW i \in Ids, Clean(i),
         UpdateRead(<<"rel", i>>) \/ UpdateWrite(<<"rel", i>>)
  PROVE  Clean(i)'
<1> DEFINE p == <<"rel", i>>
<1>0. /\ upd \in [Coroutines -> Updates \cup {NoUpd}] /\ rel \in [Ids -> Releases]
      /\ alloc \in [Ids -> Records \cup {NoRec}]
      /\ p \in Coroutines /\ p # Daemon /\ p[1] = "rel" /\ p[2] = i
      /\ UNCHANGED <<owner, detached>> /\ OwnedBy(i)' = OwnedBy(i)
  BY CoroutineNames, SameOwners DEF Typed, UpdTyped, UpdateRead, UpdateWrite, Daemon
<1>1. /\ Updating(p) /\ upd[p] \in Updates /\ upd[p].id = i /\ Writes(p, i) /\ Releasing(i)
      /\ rel[i].pc = "delete" /\ Intent(p).status = "deallocated"
  BY <1>0, WrittenFor DEF UpdateRead, UpdateWrite, Updating, Writes, Releasing, Inv, Stands, ReleaseWrites
<1>2. /\ UNCHANGED <<ful, task, dmn>>
      /\ \A q \in {<<"ful", i>>, <<"hb", i>>, Daemon} : upd'[q] = upd[q]
  <2>1. \A q \in Coroutines \ {p} : upd'[q] = upd[q]
    BY <1>0 DEF UpdateRead, UpdateWrite
  <2>2. UNCHANGED <<ful, task, dmn>>
    BY <1>0 DEF UpdateRead, UpdateWrite, Dies
  <2> QED
    BY <1>0, <2>1, <2>2, CoroutineNames
<1>3. /\ Over(i) /\ task[i].st = "none" /\ ~Writes(Daemon, i)
      /\ i \in dmn.todo => dmn.snap[i].status \notin Checked
  BY <1>1, ReleasingAlone
<1>4. ~Writes(Daemon, i)' /\ TaskFreesAll(i)' /\ PassSpares(i)'
  BY <1>2, <1>3 DEF Writes, Updating, TaskFreesAll, PassSpares
<1>5. (Missing(i) \/ Freed(i)) /\ Names(p) \cap OwnedBy(i) = {}
  BY <1>1 DEF Clean, ReleaseFrees
<1>6. ASSUME NEW q \in Writers(i) \ {<<"ful", i>>, p}, Writes(q, i)'
      PROVE  /\ GrantLeft(i) => Names(q)' = {}
             /\ upd'[q].copy # NoRec => upd'[q].copy.rm # NoRM
  <2>1. Writes(q, i) /\ upd'[q] = upd[q] /\ Names(q)' = Names(q)
    BY <1>2, <1>6 DEF Writes, Updating, Names, Intent, Writers
  <2> QED
    BY <2>1 DEF Clean, EmptyHanded, Named
<1>7. CASE UpdateRead(p) /\ Missing(i)
  <2>1. upd'[p] = NoUpd /\ rel'[i].pc = "idle" /\ alloc' = alloc
    BY <1>0, <1>1, <1>7 DEF UpdateRead, Dies, RelEnds
  <2>2. ~Updating(p)' /\ ~Writes(p, i)' /\ Missing(i)' /\ ~Releasing(i)'
    BY <1>7, <2>1 DEF Updating, Writes, Missing, Releasing
  <2>3. ReleaseFrees(i)' /\ PassKnows(i)'
    BY <1>2, <1>3, <2>1, <2>2 DEF ReleaseFrees, PassKnows, Clean
  <2>4. \A q \in Writers(i) \ {<<"ful", i>>} :
          /\ (Writes(q, i) /\ upd[q].copy # NoRec)' => upd'[q].copy.rm # NoRM
          /\ GrantLeft(i) /\ Writes(q, i)' => Names(q)' = {}
    BY <1>6, <2>2
  <2>5. GrantLeft(i) => OwnedBy(i)' = {}
    BY <1>0 DEF Clean, EmptyHanded
  <2> QED
    BY <1>0, <1>2, <1>3, <1>4, <2>2, <2>3, <2>4, <2>5, OverClean
<1>8. CASE UpdateRead(p) /\ ~Missing(i)
  <2> DEFINE kw == upd[p].kw
             new == Updated(alloc[i], kw)
  <2>1. /\ upd' = [upd EXCEPT ![p] = [id |-> i, kw |-> << >>, copy |-> new]]
        /\ UNCHANGED <<alloc, rel>>
        /\ upd[p].copy = NoRec /\ kw \in Arguments /\ kw.status = "deallocated"
    BY <1>0, <1>1, <1>8 DEF UpdateRead, Typed, UpdTyped, Intent
  <2>2. /\ new \in Records /\ new.hw = alloc[i].hw
        /\ new.rm = NoRM => alloc[i].rm = NoRM
    BY <1>0, <1>8, <2>1, UpdatedIs, UpdatedFields DEF Missing
  <2> HIDE DEF new
  <2>3. upd'[p] = [id |-> i, kw |-> << >>, copy |-> new]
    BY <1>0, <2>1
  <2>4. Names(p)' = alloc[i].hw /\ upd'[p].copy = new
    BY <2>2, <2>3 DEF Intent, Names, NullAssumption
  <2>5. (Missing(i)' <=> Missing(i)) /\ alloc'[i] = alloc[i] /\ (Holds(i)' <=> Holds(i))
        /\ (Freed(i)' <=> Freed(i))
    BY <1>0, <2>1 DEF Missing, Holds, Freed
  <2>6. Holds(i) /\ alloc[i].rm # NoRM
    BY <1>1, <1>8 DEF Clean, ReleaseFrees, Named, Holds
  <2>7. Freed(i) /\ Names(p)' \cap OwnedBy(i)' = {}
    BY <1>0, <1>5, <1>8, <2>4 DEF Freed
  <2>8. ReleaseFrees(i)'
    BY <1>1, <2>1, <2>5, <2>6, <2>7 DEF ReleaseFrees
  <2>9. PassKnows(i)'
    BY <1>2, <1>3, <2>5 DEF PassKnows, Clean
  <2>10. \A q \in Writers(i) \ {<<"ful", i>>} :
          /\ (Writes(q, i) /\ upd[q].copy # NoRec)' => upd'[q].copy.rm # NoRM
          /\ GrantLeft(i) /\ Writes(q, i)' => Names(q)' = {}
    BY <1>6, <1>8, <2>2, <2>4, <2>6 DEF Clean, EmptyHanded
  <2>11. GrantLeft(i) => OwnedBy(i)' = {} /\ alloc'[i].hw = {}
    BY <1>0, <1>8, <2>5 DEF Clean, EmptyHanded
  <2>12. alloc'[i].rm # NoRM /\ alloc'[i].status \notin Open
    BY <2>5, <2>6 DEF Holds, Open
  <2> QED
    BY <1>0, <1>2, <1>3, <1>4, <2>8, <2>9, <2>10, <2>11, <2>12, OverClean
<1>9. CASE UpdateWrite(p)
  <2> DEFINE new == upd[p].copy
  <2>1. /\ alloc'[i] = new /\ new \in Records /\ new # NoRec
        /\ upd'[p] = NoUpd /\ rel' = rel
    BY <1>0, <1>1, <1>9 DEF UpdateWrite, Save, Updates
  <2> HIDE DEF new
  <2>2. /\ new.status = "deallocated" /\ Names(p) = new.hw /\ new.rm # NoRM
        /\ GrantLeft(i) => new.hw = {}
    BY <1>1, <2>1 DEF Intent, Names, new, Clean, EmptyHanded, Named, Writers
  <2>3. ~Updating(p)' /\ ~Writes(p, i)' /\ ~Missing(i)' /\ ~Holds(i)' /\ Freed(i)' /\ ~Releasing(i)'
    BY <1>0, <1>1, <1>5, <2>1, <2>2 DEF Updating, Writes, Missing, Holds, Freed, Releasing
  <2>4. ReleaseFrees(i)'
    BY <1>1, <2>1, <2>3 DEF ReleaseFrees
  <2>5. PassKnows(i)'
    BY <1>2, <1>3, <2>3 DEF PassKnows, Clean
  <2>6. \A q \in Writers(i) \ {<<"ful", i>>} :
          /\ (Writes(q, i) /\ upd[q].copy # NoRec)' => upd'[q].copy.rm # NoRM
          /\ GrantLeft(i) /\ Writes(q, i)' => Names(q)' = {}
    BY <1>6, <2>3
  <2>7. GrantLeft(i) => OwnedBy(i)' = {} /\ alloc'[i].hw = {}
    BY <1>0, <2>1, <2>2 DEF Clean, EmptyHanded
  <2>8. alloc'[i].rm # NoRM /\ alloc'[i].status \notin Open
    BY <2>1, <2>2 DEF Open
  <2> QED
    BY <1>0, <1>2, <1>3, <1>4, <2>4, <2>5, <2>6, <2>7, <2>8, OverClean
<1> QED
  BY <1>7, <1>8, <1>9

LEMMA HeartbeatClean ==
  ASSUME ConstantsAssumption, NullAssumption, Typed, Inv, NEW i \in Ids, Clean(i), HeartbeatRead(i)
  PROVE  Clean(i)'
<1> DEFINE p == <<"hb", i>>
<1>0. /\ UNCHANGED <<ful, task, dmn, detached, alloc, rel, owner>>
      /\ upd'[Daemon] = upd[Daemon] /\ upd'[<<"ful", i>>] = upd[<<"ful", i>>]
      /\ upd'[<<"rel", i>>] = upd[<<"rel", i>>]
      /\ upd \in [Coroutines -> Updates \cup {NoUpd}] /\ p \in Coroutines
      /\ OwnedBy(i)' = OwnedBy(i)
  BY ReleaseFrame, CoroutineNames, SameOwners DEF Typed, UpdTyped, HeartbeatRead
<1>1. /\ upd'[p] = [id |-> i, kw |-> << >>, copy |-> [alloc[i] EXCEPT !.left = TTL]]
      /\ alloc[i] \in Records /\ ~Missing(i) /\ alloc[i].status = "success"
  BY <1>0 DEF HeartbeatRead, Typed, Missing
<1> DEFINE new == [alloc[i] EXCEPT !.left = TTL]
<1>2. new \in Records /\ new.hw = alloc[i].hw /\ new.rm = alloc[i].rm /\ new # NoRec
  BY <1>1, RenewedRecord DEF Records, NullAssumption
<1> HIDE DEF new
<1>3. upd'[p].copy.rm = alloc[i].rm /\ Names(p)' = alloc[i].hw
  <2>1. upd'[p].copy = new
    BY <1>1 DEF new
  <2> QED
    BY <1>2, <2>1 DEF Names, Intent
<1>4. Over(i)
  BY <1>1 DEF Inv, Stands, ServedByFulfil, Open
<1>5. alloc[i].rm # NoRM
  BY <1>1 DEF Clean, Named
<1>6. \A q \in Writers(i) \ {<<"ful", i>>} :
        /\ (Writes(q, i) /\ upd[q].copy # NoRec)' => upd'[q].copy.rm # NoRM
        /\ GrantLeft(i) /\ Writes(q, i)' => Names(q)' = {}
  <2>1. ASSUME NEW q \in {<<"rel", i>>, Daemon}
        PROVE  (Writes(q, i)' <=> Writes(q, i)) /\ upd'[q] = upd[q] /\ Names(q)' = Names(q)
    BY <1>0, <2>1 DEF Writes, Updating, Names, Intent
  <2> QED
    BY <1>1, <1>3, <1>5, <2>1 DEF Writers, Clean, EmptyHanded, Named
<1>7. ReleaseFrees(i)' /\ PassKnows(i)' /\ TaskFreesAll(i)' /\ PassSpares(i)'
  BY <1>0, RestSame
<1>8. /\ GrantLeft(i) => OwnedBy(i)' = {} /\ alloc'[i].hw = {}
      /\ alloc'[i].rm # NoRM /\ alloc'[i].status \notin Open
  BY <1>0, <1>1, <1>5 DEF Clean, EmptyHanded, Open
<1> QED
  BY <1>0, <1>4, <1>6, <1>7, <1>8, OverClean

LEMMA HeartbeatUpdateClean ==
  ASSUME ConstantsAssumption, NullAssumption, Typed, Inv, NEW i \in Ids, Clean(i),
         UpdateRead(<<"hb", i>>) \/ UpdateWrite(<<"hb", i>>)
  PROVE  Clean(i)'
<1> DEFINE p == <<"hb", i>>
           new == upd[p].copy
<1>0. /\ upd \in [Coroutines -> Updates \cup {NoUpd}]
      /\ alloc \in [Ids -> Records \cup {NoRec}]
      /\ p \in Coroutines /\ p # Daemon
  BY CoroutineNames DEF Typed, UpdTyped, Daemon
<1>1. Beats(i) /\ upd[p].id = i /\ Writes(p, i)
  BY WrittenFor DEF UpdateRead, UpdateWrite, Beats, Writes, Updating
<1>2. /\ new \in Records /\ new.status = "success" /\ new # NoRec
      /\ Over(i) /\ Idle(i) /\ task[i].st = "none" /\ ~Quiet(i)
  BY <1>1 DEF Inv, Stands, HeartbeatWrites, NullAssumption, Quiet
<1>3. UpdateWrite(p)
  BY <1>2 DEF UpdateRead
<1> HIDE DEF new
<1>4. /\ alloc'[i] = new /\ upd'[p] = NoUpd
      /\ UNCHANGED <<owner, ful, rel, dmn, task, detached>> /\ OwnedBy(i)' = OwnedBy(i)
  BY <1>0, <1>1, <1>3, SameOwners DEF UpdateWrite, Save, new
<1>5. \A q \in {<<"ful", i>>, <<"rel", i>>, Daemon} : upd'[q] = upd[q]
  <2>1. \A q \in Coroutines \ {p} : upd'[q] = upd[q]
    BY <1>0, <1>3 DEF UpdateWrite
  <2> QED
    BY <1>0, <2>1, CoroutineNames
<1>6. ~Writes(Daemon, i)' /\ ~Updating(<<"rel", i>>)' /\ ~Releasing(i)' /\ rel'[i].pc = "idle"
  BY <1>2, <1>4, <1>5
  DEF Inv, Stands, PassWrites, ReleaseWrites, Idle, Writes, Updating, Releasing
<1>7. ~Missing(i)' /\ Holds(i)' /\ ~Writes(p, i)'
  BY <1>2, <1>4 DEF Missing, Holds, Writes, Updating
<1>8. /\ new.rm # NoRM
      /\ GrantLeft(i) => new.hw = {}
  BY <1>1, <1>2 DEF Clean, EmptyHanded, Named, Writers, Names, Intent, new
<1>9. ReleaseFrees(i)' /\ TaskFreesAll(i)' /\ PassSpares(i)'
  BY <1>2, <1>4, <1>6 DEF ReleaseFrees, TaskFreesAll, PassSpares
<1>10. PassKnows(i)'
  <2>1. i \in dmn.todo => dmn.snap[i].status \notin Checked
    BY <1>2 DEF Inv, Stands, SnapshotStands
  <2> QED
    BY <1>4, <1>7, <2>1 DEF PassKnows, Clean
<1>11. \A q \in Writers(i) \ {<<"ful", i>>} : ~Writes(q, i)'
  BY <1>6, <1>7 DEF Writers, Writes
<1>12. /\ GrantLeft(i) => OwnedBy(i)' = {} /\ alloc'[i].hw = {}
       /\ alloc'[i].rm # NoRM /\ alloc'[i].status \notin Open
  BY <1>2, <1>4, <1>8 DEF Clean, EmptyHanded, Open
<1> QED
  BY <1>2, <1>4, <1>5, <1>9, <1>10, <1>11, <1>12, OverClean

LEMMA OwnCoroutines ==
  ASSUME ConstantsAssumption, NEW i \in Ids
  PROVE  \A q \in {<<"ful", i>>, <<"rel", i>>, <<"hb", i>>} : q \in Coroutines \ {Daemon}
<1>1. <<"ful", i>> \in Coroutines /\ <<"rel", i>> \in Coroutines /\ <<"hb", i>> \in Coroutines
  BY CoroutineNames
<1>2. <<"ful", i>> # Daemon /\ <<"rel", i>> # Daemon /\ <<"hb", i>> # Daemon
  BY DEF Daemon
<1> QED
  BY <1>1, <1>2

\* update_status in a pass, of a record that is there.
LEMMA DaemonUpdateClean ==
  ASSUME ConstantsAssumption, NullAssumption, Typed, Inv, NEW i \in Ids, Clean(i),
         upd[Daemon].id = i, UpdateWrite(Daemon) \/ (UpdateRead(Daemon) /\ ~Missing(i))
  PROVE  Clean(i)'
<1> DEFINE p == Daemon
<1>0. /\ upd \in [Coroutines -> Updates \cup {NoUpd}]
      /\ alloc \in [Ids -> Records \cup {NoRec}]
      /\ p \in Coroutines
      /\ UNCHANGED <<owner, detached, ful, rel, dmn, task>> /\ OwnedBy(i)' = OwnedBy(i)
  BY CoroutineNames, SameOwners DEF Typed, UpdTyped, UpdateRead, UpdateWrite
<1>1. /\ Updating(p) /\ upd[p] \in Updates /\ Writes(p, i)
      /\ Over(i) /\ i \notin dmn.todo /\ task[i].st = "none"
      /\ Missing(i) \/ alloc[i].status \in Checked
      /\ Intent(p).status \notin Open
  BY <1>0 DEF UpdateRead, UpdateWrite, Updating, Writes, Inv, PassWrites, Quiet
<1>2. \A q \in {<<"ful", i>>, <<"rel", i>>, <<"hb", i>>} :
        /\ upd'[q] = upd[q] /\ (Updating(q)' <=> Updating(q)) /\ (Writes(q, i)' <=> Writes(q, i))
        /\ Names(q)' = Names(q)
  <2>1. \A q \in {<<"ful", i>>, <<"rel", i>>, <<"hb", i>>} : q \in Coroutines \ {p}
    BY OwnCoroutines
  <2>2. \A q \in {<<"ful", i>>, <<"rel", i>>, <<"hb", i>>} : upd'[q] = upd[q]
    BY <1>0, <2>1 DEF UpdateRead, UpdateWrite
  <2> QED
    BY <2>2 DEF Updating, Writes, Names, Intent
<1>3. ~Releasing(i) /\ ~Releasing(i)'
  BY <1>0, <1>1, <1>2 DEF Clean, PassSpares, Releasing
<1>4. TaskFreesAll(i)' /\ PassKnows(i)'
  BY <1>0, <1>1 DEF TaskFreesAll, PassKnows
<1>5. ASSUME NEW q \in {<<"rel", i>>, <<"hb", i>>}
      PROVE  /\ (Writes(q, i) /\ upd[q].copy # NoRec)' => upd'[q].copy.rm # NoRM
             /\ GrantLeft(i) /\ Writes(q, i)' => Names(q)' = {}
  BY <1>2, <1>5 DEF Clean, EmptyHanded, Named, Writers
<1>6. CASE UpdateRead(p) /\ ~Missing(i)
  <2> DEFINE kw == upd[p].kw
             new == Updated(alloc[i], kw)
  <2>1. /\ upd' = [upd EXCEPT ![p] = [id |-> i, kw |-> << >>, copy |-> new]]
        /\ UNCHANGED alloc
        /\ upd[p].copy = NoRec /\ kw \in Arguments
    BY <1>0, <1>1, <1>6 DEF UpdateRead, Typed, UpdTyped
  <2>2. /\ new \in Records /\ new.status = kw.status
        /\ kw.status # "success" => new.hw = alloc[i].hw
        /\ kw.status = "success" => new.hw = kw.hw
        /\ new.rm = NoRM => alloc[i].rm = NoRM
    BY <1>0, <1>6, <2>1, UpdatedIs, UpdatedFields DEF Missing
  <2> HIDE DEF new
  <2>3. upd'[p] = [id |-> i, kw |-> << >>, copy |-> new]
    BY <1>0, <2>1
  <2>4. Names(p)' = new.hw /\ upd'[p].copy = new /\ Intent(p)' = new
    BY <2>2, <2>3 DEF Intent, Names, NullAssumption
  <2>5. (Missing(i)' <=> Missing(i)) /\ alloc'[i] = alloc[i] /\ (Holds(i)' <=> Holds(i))
        /\ (Freed(i)' <=> Freed(i))
    BY <1>0, <2>1 DEF Missing, Holds, Freed
  <2>6. ~Holds(i) /\ alloc[i].rm # NoRM /\ alloc[i].status \notin Open
    BY <1>1, <1>6 DEF Holds, Checked, Clean, Named, Open
  <2>7. GrantLeft(i) => new.hw = {} /\ OwnedBy(i) = {} /\ alloc[i].hw = {}
    <3>1. GrantLeft(i) /\ kw.status = "success" => kw.hw = {}
      <4>1. kw.status = "success" => Names(p) = kw.hw
        BY <2>1 DEF Names, Intent
      <4> QED
        BY <1>1, <4>1 DEF Clean, EmptyHanded, Writers
    <3> QED
      BY <1>6, <2>2, <3>1 DEF Clean, EmptyHanded
  <2>8. ReleaseFrees(i)'
    BY <1>0, <1>2, <1>3, <2>5 DEF ReleaseFrees, Clean, Releasing
  <2>9. PassSpares(i)'
    <3>1. rel[i].pc = "delete" => Freed(i)
      BY <1>6, <2>6 DEF Clean, ReleaseFrees
    <3>2. rel[i].pc = "delete" /\ new.status # "success" => new.hw \cap OwnedBy(i) = {}
      BY <2>2, <3>1 DEF Freed
    <3> QED
      BY <1>0, <1>3, <2>4, <3>2 DEF PassSpares
  <2>10. \A q \in Writers(i) \ {<<"ful", i>>} :
          /\ (Writes(q, i) /\ upd[q].copy # NoRec)' => upd'[q].copy.rm # NoRM
          /\ GrantLeft(i) /\ Writes(q, i)' => Names(q)' = {}
    BY <1>5, <2>2, <2>4, <2>6, <2>7 DEF Writers
  <2> QED
    BY <1>0, <1>1, <1>2, <1>4, <2>5, <2>6, <2>7, <2>8, <2>9, <2>10, OverClean
<1>7. CASE UpdateWrite(p)
  <2> DEFINE new == upd[p].copy
  <2>1. /\ alloc'[i] = new /\ new \in Records /\ new # NoRec /\ upd'[p] = NoUpd
    BY <1>0, <1>1, <1>7 DEF UpdateWrite, Save, Updates
  <2> HIDE DEF new
  <2>2. /\ Intent(p) = new /\ Names(p) = new.hw /\ new.rm # NoRM /\ new.status \notin Open
        /\ GrantLeft(i) => new.hw = {} /\ OwnedBy(i) = {}
    BY <1>1, <2>1 DEF Intent, Names, new, Clean, EmptyHanded, Named, Writers
  <2>3. ~Writes(p, i)' /\ ~Missing(i)' /\ (Holds(i)' <=> new.status = "success")
    BY <2>1 DEF Updating, Writes, Missing, Holds
  <2>4. ReleaseFrees(i)'
    <3>1. rel[i].pc = "delete" /\ new.status # "success" => Freed(i)'
      BY <1>0, <1>1, <1>3, <2>1, <2>2 DEF Clean, PassSpares, Freed
    <3> QED
      BY <1>0, <1>3, <2>3, <3>1 DEF ReleaseFrees, Releasing
  <2>5. PassSpares(i)'
    BY <2>3 DEF PassSpares
  <2>6. \A q \in Writers(i) \ {<<"ful", i>>} :
          /\ (Writes(q, i) /\ upd[q].copy # NoRec)' => upd'[q].copy.rm # NoRM
          /\ GrantLeft(i) /\ Writes(q, i)' => Names(q)' = {}
    BY <1>5, <2>3 DEF Writers
  <2> QED
    BY <1>0, <1>1, <1>2, <1>4, <2>1, <2>2, <2>4, <2>5, <2>6, OverClean
<1> QED
  BY <1>6, <1>7

\* The loop goes on with allocation i.
LEMMA PassMovesClean ==
  ASSUME NEW i \in Ids, Clean(i), PassKnows(i)',
         UNCHANGED <<alloc, ful, rel, upd, owner, detached, task>>
  PROVE  Clean(i)'
<1>1. LosesOnly(i)
  BY SameOwners DEF LosesOnly
<1>2. TaskFreesAll(i)'
  BY SameOwners DEF Clean, TaskFreesAll, Missing
<1> QED
  BY <1>1, <1>2, LosesOnlyClean DEF Clean

\* The loop is through with an allocation, it dropped its record, or left it.
LEMMA PassDropsClean ==
  ASSUME NEW i \in Ids, Clean(i), alloc'[i] \in {alloc[i], NoRec}, i \notin dmn'.todo,
         TaskGoesOn(i), UNCHANGED <<ful, rel, upd, owner, detached>>
  PROVE  Clean(i)'
<1>1. LosesOnly(i) /\ PassGoesOn(i)
  BY SameOwners DEF LosesOnly, PassGoesOn
<1> QED
  BY <1>1, ElsewhereClean

LEMMA PassStartClean ==
  ASSUME ConstantsAssumption, Typed, Inv, NEW i \in Ids, Clean(i), PassStart
  PROVE  Clean(i)'
<1>1. /\ UNCHANGED <<alloc, owner, ful, rel, upd, task, detached>>
      /\ dmn' = [pc |-> "loop", cur |-> NoId, todo |-> {j \in Ids : ~Missing(j)}, snap |-> alloc]
  BY DEF PassStart
<1>2. /\ Missing(i)' <=> Missing(i)
      /\ Holds(i)' <=> Holds(i)
      /\ Freed(i)' <=> Freed(i)
      /\ Releasing(i)' <=> Releasing(i)
  BY <1>1, SameOwners DEF Missing, Holds, Freed, Releasing, Updating
<1>3. ~Missing(i) /\ alloc[i].status \in Open => Freed(i)
  BY DEF Clean, OpenBare, Freed
<1>4. ~Missing(i) /\ alloc[i].status \in Checked => ~Releasing(i)
  BY DEF Clean, ReleaseFrees, Holds, Checked
<1>5. PassKnows(i)'
  <2>1. dmn'.cur # i /\ (i \in dmn'.todo => ~Missing(i)) /\ dmn'.snap[i] = alloc[i] /\ alloc'[i] = alloc[i]
    BY <1>1 DEF ConstantsAssumption
  <2> QED
    BY <1>2, <1>3, <1>4, <2>1 DEF PassKnows
<1> QED
  BY <1>1, <1>5, PassMovesClean

LEMMA PassLookClean ==
  ASSUME ConstantsAssumption, Typed, Inv, NEW i \in Ids, Clean(i), PassLook(i)
  PROVE  Clean(i)'
<1> DEFINE s == dmn.snap[i]
<1>0. /\ UNCHANGED <<owner, ful, rel, upd, task, detached>> /\ dmn \in Passes
      /\ alloc \in [Ids -> Records \cup {NoRec}]
      /\ i \in dmn.todo
  BY DEF PassLook, Typed, DmnTyped
<1>1. ASSUME NEW pc \in {"check", "expire"}, Stay(i, pc), UNCHANGED alloc,
             pc = "check" => s.rm # NoRM, pc = "expire" => s.status \notin Checked
      PROVE  Clean(i)'
  <2>1. dmn'.pc = pc /\ dmn'.cur = i /\ dmn'.todo = dmn.todo /\ dmn'.snap = dmn.snap
    BY <1>0, <1>1 DEF Stay, Passes
  <2>2. /\ Missing(i)' <=> Missing(i)
        /\ Holds(i)' <=> Holds(i)
        /\ Freed(i)' <=> Freed(i)
        /\ Releasing(i)' <=> Releasing(i)
    BY <1>0, <1>1, SameOwners DEF Missing, Holds, Freed, Releasing, Updating
  <2>3. PassKnows(i)'
    BY <1>0, <1>1, <2>1, <2>2 DEF Clean, PassKnows
  <2> QED
    BY <1>0, <1>1, <2>3, PassMovesClean
<1>2. CASE Delete(i) /\ Through(i)
  <2>1. alloc'[i] = NoRec /\ i \notin dmn'.todo
    BY <1>0, <1>2 DEF Delete, Save, Through
  <2> QED
    BY <1>0, <2>1, PassDropsClean DEF TaskGoesOn
<1> QED
  BY <1>1, <1>2 DEF PassLook, Checked

\* The resource manager has listed what it holds.
LEMMA PassCheckClean ==
  ASSUME ConstantsAssumption, NullAssumption, TimelyWorld, Typed, Inv, NEW i \in Ids, Clean(i),
         dmn.cur = i, PassCheck
  PROVE  Clean(i)'
<1> DEFINE s == dmn.snap[i]
           held == {m \in OwnedBy(i) : Home[m] = s.rm}
<1>0. /\ UNCHANGED <<alloc, owner, ful, rel, task, detached>> /\ dmn \in Passes
      /\ dmn.pc = "check" /\ ~Updating(Daemon) /\ i \in dmn.todo /\ s \in Records
      /\ s.status \in Checked
      /\ upd \in [Coroutines -> Updates \cup {NoUpd}] /\ Daemon \in Coroutines
      /\ OwnedBy(i)' = OwnedBy(i)
  BY SameOwners, CoroutineNames DEF PassCheck, DmnAt, Typed, UpdTyped, DmnTyped, Inv, PassChecks
<1>1. Over(i) /\ (Missing(i) \/ alloc[i] = s) /\ ~Releasing(i) /\ s.rm # NoRM
  BY <1>0 DEF Inv, Stands, SnapshotStands, Quiet, Clean, PassKnows
<1>2. /\ Missing(i)' <=> Missing(i)
      /\ Holds(i)' <=> Holds(i)
      /\ Freed(i)' <=> Freed(i)
  BY <1>0 DEF Missing, Holds, Freed
<1>3. CASE held = {} /\ Stay(i, "expire") /\ UNCHANGED upd
  <2>1. dmn'.pc = "expire" /\ dmn'.cur = i /\ dmn'.todo = dmn.todo /\ dmn'.snap = dmn.snap
    BY <1>0, <1>3 DEF Stay, Passes
  <2>2. OwnedBy(i) = {}
    <3>1. s.rm \in RMs
      BY <1>0, <1>1 DEF Records
    <3>2. \A m \in OwnedBy(i) : Home[m] = s.rm
      BY <3>1 DEF OwnedBy, TimelyWorld, ConstantsAssumption
    <3> QED
      BY <1>3, <3>2
  <2>3. Freed(i)
    BY <2>2 DEF Freed
  <2>4. Releasing(i)' <=> Releasing(i)
    BY <1>0, <1>3 DEF Releasing, Updating
  <2>5. PassKnows(i)'
    BY <1>0, <1>2, <2>1, <2>3, <2>4 DEF Clean, PassKnows
  <2> QED
    BY <1>0, <1>3, <2>5, PassMovesClean
<1>4. ASSUME Through(i), NEW kw, Begin(Daemon, i, kw),
             kw.status # "success" \/ kw = Fulfilled(held)
      PROVE  Clean(i)'
  <2>1. upd'[Daemon] = [id |-> i, kw |-> kw, copy |-> NoRec] /\ i \notin dmn'.todo
    BY <1>0, <1>4 DEF Begin, Through
  <2>2. \A q \in {<<"ful", i>>, <<"rel", i>>, <<"hb", i>>} :
          /\ upd'[q] = upd[q] /\ (Updating(q)' <=> Updating(q)) /\ (Writes(q, i)' <=> Writes(q, i))
          /\ Names(q)' = Names(q)
    <3>1. \A q \in {<<"ful", i>>, <<"rel", i>>, <<"hb", i>>} : q \in Coroutines \ {Daemon}
      BY OwnCoroutines
    <3>2. \A q \in {<<"ful", i>>, <<"rel", i>>, <<"hb", i>>} : upd'[q] = upd[q]
      BY <1>0, <1>4, <3>1 DEF Begin
    <3> QED
      BY <3>2 DEF Updating, Writes, Names, Intent
  <2>3. Intent(Daemon)' = kw /\ upd'[Daemon].copy = NoRec
    BY <2>1 DEF Intent
  <2>4. kw.status # "success" => Names(Daemon)' = {}
    BY <2>1 DEF Names
  <2>5. OwnedBy(i) = {} => Names(Daemon)' = {}
    <3>1. CASE kw = Fulfilled(held)
      BY <2>1, <3>1 DEF Names, Intent, Fulfilled
    <3> QED
      BY <1>4, <2>4, <3>1
  <2>6. ~Releasing(i)'
    BY <1>0, <1>1, <2>2 DEF Releasing
  <2>7. ReleaseFrees(i)' /\ PassKnows(i)' /\ TaskFreesAll(i)'
    BY <1>0, <1>2, <2>1, <2>6 DEF Clean, ReleaseFrees, PassKnows, TaskFreesAll, Releasing
  <2>8. PassSpares(i)'
    BY <2>3, <2>4, <2>6 DEF PassSpares
  <2>9. \A q \in Writers(i) \ {<<"ful", i>>} :
          /\ (Writes(q, i) /\ upd[q].copy # NoRec)' => upd'[q].copy.rm # NoRM
          /\ GrantLeft(i) /\ Writes(q, i)' => Names(q)' = {}
    BY <2>2, <2>3, <2>5 DEF Writers, Clean, EmptyHanded, Named
  <2>10. /\ GrantLeft(i) => OwnedBy(i)' = {} /\ (Missing(i)' \/ alloc'[i].hw = {})
         /\ ~Missing(i)' /\ alloc'[i].rm = NoRM => alloc'[i].status = "received"
         /\ ~Missing(i)' /\ alloc'[i].status \in Open => alloc'[i].hw = {}
    BY <1>0, <1>2 DEF Clean, EmptyHanded, Named, OpenBare
  <2> QED
    BY <1>0, <1>1, <2>2, <2>7, <2>8, <2>9, <2>10, OverClean
<1> QED
  BY <1>3, <1>4 DEF PassCheck

LEMMA PassExpireClean ==
  ASSUME ConstantsAssumption, NullAssumption, Typed, Inv, NEW i \in Ids, Clean(i),
         dmn.cur = i, PassExpire
  PROVE  Clean(i)'
<1> DEFINE s == dmn.snap[i]
<1>0. /\ UNCHANGED <<owner, ful, rel, upd, detached>> /\ dmn \in Passes
      /\ dmn.pc = "expire" /\ ~Updating(Daemon) /\ i \in dmn.todo /\ s \in Records
      /\ alloc \in [Ids -> Records \cup {NoRec}] /\ task \in [Ids -> Tasks]
      /\ OwnedBy(i)' = OwnedBy(i)
  BY SameOwners DEF PassExpire, DmnAt, Typed, DmnTyped
<1>1. i \notin dmn'.todo
  BY <1>0 DEF PassExpire, Through
<1>2. CASE Due(s) /\ s.status = "success"
  <2>1. alloc[i] = s /\ Idle(i) /\ ~Missing(i)
    BY <1>0, <1>2 DEF Inv, Stands, SnapshotStands, Missing, NullAssumption
  <2> DEFINE new == [s EXCEPT !.status = "deallocating"]
  <2>2. /\ new \in Records /\ new.status = "deallocating" /\ new.hw = s.hw /\ new.rm = s.rm
        /\ new # NoRec
    BY <1>0 DEF Records, Statuses, NullAssumption
  <2>3. alloc'[i] = new /\ task'[i].todo = s.hw
    BY <1>0, <1>2 DEF PassExpire, Save
  <2> HIDE DEF new
  <2>4. Over(i) /\ ~Updating(<<"rel", i>>)
    BY <1>2, <2>1 DEF Inv, Stands, ServedByFulfil, ReleaseWrites, Idle, Open
  <2>5. ~Releasing(i)' /\ rel'[i].pc = "idle" /\ ~Updating(<<"rel", i>>)' /\ ~Writes(Daemon, i)'
    BY <1>0, <2>1, <2>4 DEF Releasing, Idle, Updating, Writes
  <2>6. ReleaseFrees(i)' /\ PassKnows(i)' /\ PassSpares(i)'
    BY <1>1, <2>5 DEF ReleaseFrees, PassKnows, PassSpares
  <2>7. TaskFreesAll(i)'
    BY <2>2, <2>3 DEF TaskFreesAll
  <2>8. \A q \in Writers(i) \ {<<"ful", i>>} :
          /\ (Writes(q, i) /\ upd[q].copy # NoRec)' => upd'[q].copy.rm # NoRM
          /\ GrantLeft(i) /\ Writes(q, i)' => Names(q)' = {}
    <3>1. ASSUME NEW q
          PROVE  (Writes(q, i)' <=> Writes(q, i)) /\ Names(q)' = Names(q) /\ upd'[q] = upd[q]
      BY <1>0 DEF Writes, Updating, Names, Intent
    <3> QED
      BY <3>1 DEF Clean, EmptyHanded, Named
  <2>9. /\ GrantLeft(i) => OwnedBy(i)' = {} /\ alloc'[i].hw = {}
        /\ alloc'[i].rm # NoRM /\ alloc'[i].status \notin Open
    BY <1>0, <1>2, <2>1, <2>2, <2>3 DEF Clean, EmptyHanded, Named, Open
  <2> QED
    BY <1>0, <2>4, <2>6, <2>7, <2>8, <2>9, OverClean
<1>3. CASE ~(Due(s) /\ s.status = "success")
  <2>1. task' = task /\ alloc'[i] \in {alloc[i], NoRec}
    BY <1>0, <1>3 DEF PassExpire, RemoveImproper, Delete, Save
  <2> QED
    BY <1>0, <1>1, <2>1, PassDropsClean DEF TaskGoesOn
<1> QED
  BY <1>2, <1>3

LEMMA PassAwaitClean ==
  ASSUME ConstantsAssumption, NullAssumption, Typed, Inv, NEW i \in Ids, Clean(i), PassAwait(i)
  PROVE  Clean(i)'
<1>0. /\ UNCHANGED <<owner, ful, rel, dmn, detached>>
      /\ alloc \in [Ids -> Records \cup {NoRec}] /\ task'[i] = NoTask
      /\ upd \in [Coroutines -> Updates \cup {NoUpd}] /\ Daemon \in Coroutines
      /\ OwnedBy(i)' = OwnedBy(i)
  BY SameOwners, CoroutineNames DEF PassAwait, Typed, UpdTyped
<1>1. Over(i) /\ Idle(i) /\ i \notin dmn.todo
  BY DEF PassAwait, Deallocated, Inv, Stands, TaskFreesOwn, Quiet
<1>2. CASE Delete(i) /\ UNCHANGED upd
  BY <1>0, <1>1, <1>2, PassDropsClean DEF TaskGoesOn, NoTask, Delete, Save
<1>3. CASE Begin(Daemon, i, [status |-> "error_deallocating"]) /\ UNCHANGED alloc
  <2>1. upd'[Daemon] = [id |-> i, kw |-> [status |-> "error_deallocating"], copy |-> NoRec]
    BY <1>0, <1>3 DEF Begin
  <2>2. \A q \in {<<"ful", i>>, <<"rel", i>>, <<"hb", i>>} :
          /\ upd'[q] = upd[q] /\ (Updating(q)' <=> Updating(q)) /\ (Writes(q, i)' <=> Writes(q, i))
          /\ Names(q)' = Names(q)
    <3>1. \A q \in {<<"ful", i>>, <<"rel", i>>, <<"hb", i>>} : q \in Coroutines \ {Daemon}
      BY OwnCoroutines
    <3>2. \A q \in {<<"ful", i>>, <<"rel", i>>, <<"hb", i>>} : upd'[q] = upd[q]
      BY <1>0, <1>3, <3>1 DEF Begin
    <3> QED
      BY <3>2 DEF Updating, Writes, Names, Intent
  <2>3. Names(Daemon)' = {} /\ upd'[Daemon].copy = NoRec
    BY <2>1 DEF Names
  <2>4. ~Updating(<<"rel", i>>)
    BY <1>1 DEF Inv, Stands, ReleaseWrites, Idle
  <2>5. ~Releasing(i)' /\ rel'[i].pc = "idle" /\ ~Updating(<<"rel", i>>)'
    BY <1>0, <1>1, <2>2, <2>4 DEF Releasing, Idle
  <2>6. ReleaseFrees(i)' /\ PassKnows(i)' /\ PassSpares(i)' /\ TaskFreesAll(i)'
    BY <1>0, <1>1, <2>5 DEF ReleaseFrees, PassKnows, PassSpares, TaskFreesAll, NoTask
  <2>7. \A q \in Writers(i) \ {<<"ful", i>>} :
          /\ (Writes(q, i) /\ upd[q].copy # NoRec)' => upd'[q].copy.rm # NoRM
          /\ GrantLeft(i) /\ Writes(q, i)' => Names(q)' = {}
    BY <2>2, <2>3 DEF Writers, Clean, EmptyHanded, Named
  <2>8. /\ GrantLeft(i) => OwnedBy(i)' = {} /\ (Missing(i)' \/ alloc'[i].hw = {})
        /\ ~Missing(i)' /\ alloc'[i].rm = NoRM => alloc'[i].status = "received"
        /\ ~Missing(i)' /\ alloc'[i].status \in Open => alloc'[i].hw = {}
    BY <1>0, <1>3 DEF Clean, EmptyHanded, Named, OpenBare, Missing
  <2> QED
    BY <1>0, <1>1, <2>2, <2>6, <2>7, <2>8, OverClean
<1> QED
  BY <1>2, <1>3 DEF PassAwait

LEMMA TaskClean ==
  ASSUME ConstantsAssumption, Typed, NEW i \in Ids, Clean(i), TaskFrees(i)
  PROVE  Clean(i)'
<1>1. UNCHANGED <<alloc, ful, rel, upd, dmn, detached>> /\ task[i].st = "running"
  BY DEF TaskFrees
<1>2. PICK m \in task[i].todo : FreeMachine(m) /\ task' = [task EXCEPT ![i].todo = @ \ {m}]
  BY DEF TaskFrees
<1>3. OwnedBy(i)' \subseteq OwnedBy(i) \ {m}
  BY <1>2, FreeLess
<1>4. task'[i].st = "running" /\ task'[i].todo = task[i].todo \ {m}
  BY <1>1, <1>2 DEF Typed, Tasks
<1>5. LosesOnly(i)
  BY <1>1, <1>3 DEF LosesOnly
<1>6. TaskFreesAll(i)'
  BY <1>1, <1>3, <1>4 DEF Clean, TaskFreesAll, Missing
<1>7. PassKnows(i)'
  BY <1>1, <1>5, LosesOnlySame DEF Clean, PassKnows
<1> QED
  BY <1>5, <1>6, <1>7, LosesOnlyClean DEF Clean

\* A call that was given up grants machines at most once, and nobody names others.
LEMMA DetachedClean ==
  ASSUME ConstantsAssumption, Typed, Inv, NEW i \in Ids, Clean(i), NEW c \in detached, c.id = i,
         DetachedRuns(c)
  PROVE  Clean(i)'
<1>1. UNCHANGED <<alloc, ful, rel, upd, dmn, task>> /\ detached' = detached \ {c}
  BY DEF DetachedRuns
<1>2. /\ Missing(i)' <=> Missing(i)
      /\ Holds(i)' <=> Holds(i)
      /\ PastCall(i)' <=> PastCall(i)
      /\ Releasing(i)' <=> Releasing(i)
      /\ Marked(i)' <=> Marked(i)
  BY <1>1 DEF Missing, Holds, PastCall, Releasing, Marked, Updating
<1>3. /\ PastCall(i)
      /\ Missing(i) \/ alloc[i].hw = {}
      /\ \A p \in Writers(i) : Writes(p, i) => Names(p) = {}
  BY DEF Clean, OneGrant, EmptyHanded, GrantLeft
<1>4. OneGrant(i)' /\ ~GrantLeft(i)'
  BY <1>1, <1>2, <1>3 DEF Clean, OneGrant, GrantLeft
<1>5. ASSUME NEW p
      PROVE  /\ (Writes(p, i)' <=> Writes(p, i)) /\ (Updating(p)' <=> Updating(p))
             /\ Names(p)' = Names(p) /\ Intent(p)' = Intent(p)
  BY <1>1 DEF Writes, Updating, Names, Intent
<1>6. EmptyHanded(i)' /\ Named(i)' /\ OpenBare(i)'
  BY <1>1, <1>2, <1>4, <1>5 DEF Clean, EmptyHanded, Named, OpenBare, Writers
<1>7. Missing(i)' \/ (Freed(i)' /\ alloc'[i].hw = {})
  BY <1>1, <1>2, <1>3 DEF Freed
<1>8. Updating(<<"rel", i>>) => Names(<<"rel", i>>)' = {}
  BY <1>3, <1>5, WrittenFor DEF Writers, Writes
<1>9. ReleaseFrees(i)'
  BY <1>1, <1>2, <1>5, <1>7, <1>8 DEF Clean, ReleaseFrees
<1>10. PassKnows(i)' /\ TaskFreesAll(i)'
  BY <1>1, <1>2, <1>7 DEF Clean, PassKnows, TaskFreesAll
<1>11. PassSpares(i)'
  BY <1>2, <1>3, <1>5 DEF Clean, PassSpares, Writers
<1> QED
  BY <1>4, <1>6, <1>9, <1>10, <1>11 DEF Clean

LEMMA CrashClean ==
  ASSUME ConstantsAssumption, TimelyWorld, Typed, Inv, NEW i \in Ids, Clean(i), Crash
  PROVE  Clean(i)'
<1>1. /\ UNCHANGED <<alloc, owner>> /\ dmn'.todo = {} /\ task'[i].st = "none"
      /\ rel'[i].pc = "idle"
      /\ ful'[i].pc \in {"idle", "done"}
      /\ ful[i].pc # "idle" => ful'[i].pc = "done"
      /\ ful[i].pc = "idle" <=> ful'[i].pc = "idle"
  BY DEF Crash, Asleep, NoTask
<1>2. /\ ~Updating(<<"ful", i>>)' /\ ~Updating(<<"rel", i>>)' /\ ~Updating(Daemon)'
      /\ upd'[<<"hb", i>>] = upd[<<"hb", i>>]
  BY CoroutineNames DEF Crash, Updating, Daemon
<1>3. /\ \A c \in detached' : c.id = i => c \in detached \/ ful[i].pc = "call"
      /\ \A c, d \in detached' : c.id = i /\ d.id = i /\ c \notin detached /\ d \notin detached => c = d
  <2> DEFINE call(j) == [id |-> j, rm |-> ful[j].plan[ful[j].k].rm,
                         n |-> Cardinality(ful[j].plan[ful[j].k].hosts)]
  <2>1. PICK ran \in SUBSET {j \in Ids : At(j, "call")} : detached' = detached \cup {call(j) : j \in ran}
    BY DEF Crash
  <2>2. \A c \in detached' : c.id = i => c \in detached \/ (c = call(i) /\ i \in ran)
    <3>1. \A j : call(j).id = j
      OBVIOUS
    <3> HIDE DEF call
    <3> QED
      BY <2>1, <3>1
  <2> HIDE DEF call
  <2> QED
    BY <2>1, <2>2 DEF At
<1>4. /\ ful[i].pc \in {"idle", "call"} => ~PastCall(i)
      /\ PastCall(i)' <=> ful'[i].pc = "done"
  BY <1>1 DEF PastCall
<1>5. OneGrant(i)' /\ (GrantLeft(i)' => GrantLeft(i))
  BY <1>1, <1>3, <1>4 DEF Clean, OneGrant, GrantLeft
<1>6. /\ Missing(i)' <=> Missing(i)
      /\ OwnedBy(i)' = OwnedBy(i)
  BY <1>1, SameOwners DEF Missing
<1>7. ASSUME NEW p \in Writers(i), Writes(p, i)'
      PROVE  Writes(p, i) /\ upd'[p] = upd[p] /\ Names(p)' = Names(p)
  <2>1. p = <<"hb", i>>
    BY <1>2, <1>7 DEF Writers, Writes
  <2> QED
    BY <1>2, <1>7, <2>1 DEF Writes, Updating, Names, Intent
<1>8. EmptyHanded(i)'
  <2>1. GrantLeft(i)' => \A p \in Writers(i) : Writes(p, i)' => Names(p)' = {}
    BY <1>5, <1>7 DEF Clean, EmptyHanded
  <2> QED
    BY <1>1, <1>5, <1>6, <2>1 DEF Clean, EmptyHanded, Writers
<1>9. Named(i)'
  <2>1. \A p \in Writers(i) : (Writes(p, i) /\ upd[p].copy # NoRec)' => upd'[p].copy.rm # NoRM
    BY <1>7 DEF Clean, Named
  <2>2. ~Marked(i)'
    BY <1>1, <1>2 DEF Marked, Updating
  <2> QED
    BY <1>1, <1>6, <2>1, <2>2 DEF Clean, Named, Writers
<1>10. OpenBare(i)'
  BY <1>1, <1>2, <1>6 DEF Clean, OpenBare
<1>11. ReleaseFrees(i)' /\ PassKnows(i)' /\ TaskFreesAll(i)' /\ PassSpares(i)'
  BY <1>1, <1>2 DEF ReleaseFrees, PassKnows, TaskFreesAll, PassSpares, Releasing, Writes, Updating
<1> QED
  BY <1>5, <1>8, <1>9, <1>10, <1>11 DEF Clean

LEMMA AgedFields ==
  ASSUME NEW rec
  PROVE  /\ DOMAIN Aged(rec) = DOMAIN rec
         /\ "rm" \in DOMAIN rec => Aged(rec).rm = rec.rm
  BY DEF Aged

LEMMA TickClean ==
  ASSUME ConstantsAssumption, NullAssumption, TimelyWorld, Typed, Inv, NEW i \in Ids, Clean(i), Tick
  PROVE  Clean(i)'
<1> DEFINE p == <<"ful", i>>
<1>1. ~Busy("pass") /\ ~Busy("heartbeat") /\ ~Busy("release")
  BY DEF Tick, TimelyWorld, Activities
<1>2. dmn.pc = "sleep" /\ ~Updating(Daemon) /\ ~Updating(<<"hb", i>>) /\ rel[i].pc = "idle"
  BY <1>1 DEF Busy
<1>3. ~Updating(<<"rel", i>>) /\ i \notin dmn.todo /\ task[i].st = "none"
  BY <1>2 DEF Inv, Stands, ReleaseWrites, SnapshotStands, TaskFreesOwn
<1>4. /\ UNCHANGED <<owner, ful, rel, task, detached>> /\ OwnedBy(i)' = OwnedBy(i)
      /\ alloc'[i] = AgedRec(alloc[i])
      /\ \A q \in Coroutines : upd'[q] = IF upd[q] = NoUpd THEN NoUpd ELSE AgedUpdate(upd[q])
      /\ dmn'.todo = dmn.todo
  BY SameOwners DEF Tick, AgedUpdate, Typed, DmnTyped, Passes
<1>5. /\ Missing(i)' <=> Missing(i)
      /\ ~Missing(i) => /\ alloc'[i].status = alloc[i].status /\ alloc'[i].hw = alloc[i].hw
                        /\ alloc'[i].rm = alloc[i].rm
  <2>1. CASE Missing(i)
    BY <1>4, <2>1 DEF Missing, AgedRec
  <2>2. CASE ~Missing(i)
    <3>1. alloc[i] \in Records /\ alloc'[i] = Aged(alloc[i]) /\ "rm" \in DOMAIN alloc[i]
      BY <1>4, <2>2 DEF Missing, AgedRec, Typed, Records
    <3> QED
      BY <2>2, <3>1, AgedRecord, AgedFields DEF Missing, NullAssumption
  <2> QED
    BY <2>1, <2>2
<1>6. /\ p \in Coroutines
      /\ \A q \in {<<"rel", i>>, <<"hb", i>>, Daemon} : q \in Coroutines /\ ~Updating(q)'
  <2>1. \A q \in {<<"rel", i>>, <<"hb", i>>, Daemon} : q \in Coroutines /\ ~Updating(q)
    BY <1>2, <1>3, CoroutineNames
  <2> QED
    BY <1>4, <2>1, CoroutineNames DEF Updating
<1>7. ~Updating(p) => ~Updating(p)'
  BY <1>4, <1>6 DEF Updating
<1>8. ASSUME Updating(p)
      PROVE  /\ Updating(p)' /\ upd'[p].id = upd[p].id
             /\ upd'[p].copy = NoRec <=> upd[p].copy = NoRec
             /\ upd[p].copy = NoRec => DOMAIN upd'[p].kw = DOMAIN upd[p].kw
             /\ upd[p].copy # NoRec => upd'[p].copy.rm = upd[p].copy.rm
             /\ Names(p)' = Names(p)
             /\ Intent(p)'.status = Intent(p).status
  <2>1. upd[p] \in Updates /\ (upd[p].copy = NoRec => upd[p].kw \in Arguments)
    BY <1>6, <1>8 DEF Typed, UpdTyped, Updating
  <2>2. upd'[p] = AgedUpdate(upd[p])
    BY <1>4, <1>6, <1>8 DEF Updating
  <2>3. /\ upd'[p] \in Updates /\ upd'[p].id = upd[p].id
        /\ upd'[p].copy = AgedRec(upd[p].copy)
        /\ upd'[p].copy = NoRec <=> upd[p].copy = NoRec
        /\ upd[p].copy = NoRec => upd'[p].kw = Aged(upd[p].kw)
    BY <2>1, <2>2, AgedUpdateIs
  <2>4. Updating(p)'
    BY <2>3 DEF Updating, NullAssumption
  <2>5. CASE upd[p].copy = NoRec
    <3>1. Intent(p)' = Aged(upd[p].kw) /\ Intent(p) = upd[p].kw
      BY <2>3, <2>5 DEF Intent
    <3>2. /\ Aged(upd[p].kw).status = upd[p].kw.status
          /\ upd[p].kw.status = "success" => Aged(upd[p].kw).hw = upd[p].kw.hw
      BY <2>1, <2>5, AgedArguments
    <3> QED
      BY <2>3, <2>4, <2>5, <3>1, <3>2, AgedFields DEF Names
  <2>6. CASE upd[p].copy # NoRec
    <3>1. upd[p].copy \in Records /\ "rm" \in DOMAIN upd[p].copy
      BY <2>1, <2>6 DEF Updates, Records
    <3>2. upd'[p].copy = Aged(upd[p].copy) /\ Intent(p)' = Aged(upd[p].copy) /\ Intent(p) = upd[p].copy
      BY <2>3, <2>6 DEF Intent, AgedRec
    <3>3. /\ Aged(upd[p].copy).status = upd[p].copy.status
          /\ Aged(upd[p].copy).hw = upd[p].copy.hw /\ Aged(upd[p].copy).rm = upd[p].copy.rm
      BY <3>1, AgedRecord, AgedFields
    <3> QED
      BY <2>3, <2>4, <2>6, <3>2, <3>3 DEF Names
  <2> QED
    BY <2>5, <2>6
<1>9. /\ PastCall(i)' <=> PastCall(i)
      /\ OneGrant(i)' /\ (GrantLeft(i)' => GrantLeft(i))
  BY <1>4 DEF Clean, OneGrant, GrantLeft, PastCall
<1>10. Marked(i)' => Marked(i)
  <2>1. Updating(p)' => Updating(p) /\ (upd'[p].copy = NoRec => upd[p].copy = NoRec)
                        /\ (upd[p].copy = NoRec => DOMAIN upd'[p].kw = DOMAIN upd[p].kw)
    BY <1>7, <1>8
  <2>2. ~Updating(p)' => ~Updating(p)
    BY <1>8
  <2> QED
    BY <1>4, <2>1, <2>2 DEF Marked
<1>11. ASSUME NEW q \in Writers(i), Writes(q, i)'
       PROVE  q = p /\ Updating(p)' /\ Updating(p) /\ Writes(p, i)
  BY <1>6, <1>7, <1>8, <1>11 DEF Writers, Writes
<1>12. EmptyHanded(i)'
  <2>1. GrantLeft(i)' => \A q \in Writers(i) : Writes(q, i)' => Names(q)' = {}
    BY <1>8, <1>9, <1>11 DEF Clean, EmptyHanded, Writers
  <2> QED
    BY <1>4, <1>5, <1>9, <2>1 DEF Clean, EmptyHanded, Writers
<1>13. Named(i)'
  <2>1. \A q \in Writers(i) : (Writes(q, i) /\ upd[q].copy # NoRec)' => upd'[q].copy.rm # NoRM
    BY <1>8, <1>11 DEF Clean, Named, Writers
  <2> QED
    BY <1>5, <1>10, <2>1 DEF Clean, Named, Writers
<1>14. OpenBare(i)'
  BY <1>5, <1>7, <1>8 DEF Clean, OpenBare
<1>15. ReleaseFrees(i)' /\ PassKnows(i)' /\ TaskFreesAll(i)' /\ PassSpares(i)'
  BY <1>2, <1>3, <1>4, <1>6 DEF ReleaseFrees, PassKnows, TaskFreesAll, PassSpares, Releasing, Writes
<1> QED
  BY <1>9, <1>12, <1>13, <1>14, <1>15 DEF Clean

LEMMA OwnClean ==
  ASSUME ConstantsAssumption, NullAssumption, TimelyWorld, Typed, Short, Inv, NEW i \in Ids, Clean(i),
         Own(i)
  PROVE  Clean(i)'
<1>1. CASE FulfillStep(i) \/ ReleaseStep(i) \/ HeartbeatRead(i)
  BY <1>1, FulfilClean, ReleaseClean, HeartbeatClean
<1>2. CASE \E a \in {"ful", "rel", "hb"} : UpdateRead(<<a, i>>) \/ UpdateWrite(<<a, i>>)
  BY <1>2, FulfilUpdateClean, ReleaseUpdateClean, HeartbeatUpdateClean
<1>3. CASE upd[Daemon].id = i /\ (UpdateWrite(Daemon) \/ (UpdateRead(Daemon) /\ ~Missing(i)))
  BY <1>3, DaemonUpdateClean
<1>4. CASE PassStart \/ PassLook(i) \/ PassAwait(i)
  BY <1>4, PassStartClean, PassLookClean, PassAwaitClean
<1>5. CASE dmn.cur = i /\ (PassCheck \/ PassExpire)
  BY <1>5, PassCheckClean, PassExpireClean
<1>6. CASE TaskFrees(i) \/ \E c \in detached : c.id = i /\ DetachedRuns(c)
  BY <1>6, TaskClean, DetachedClean
<1>7. CASE Crash \/ Tick
  BY <1>7, CrashClean, TickClean
<1> QED
  BY <1>1, <1>2, <1>3, <1>4, <1>5, <1>6, <1>7 DEF Own

LEMMA CleanNext ==
  ASSUME ConstantsAssumption, NullAssumption, TimelyWorld, Typed, Short, Inv, NEW i \in Ids, Clean(i),
         [Next]_vars
  PROVE  Clean(i)'
  BY Locality, OwnClean, ElsewhereClean DEF Elsewhere

\* A record that a step removes.
LEMMA RemovalFreed ==
  ASSUME ConstantsAssumption, NullAssumption, TimelyWorld, Typed, Short, Inv, NEW i \in Ids, Clean(i),
         [Next]_vars, ~Missing(i), Missing(i)', alloc[i].status # "success", alloc[i].left >= -Grace
  PROVE  Freed(i)
<1>0. alloc \in [Ids -> Records \cup {NoRec}] /\ alloc[i] \in Records /\ NoRec \notin Records /\ ~Holds(i)
  BY DEF Typed, Missing, NullAssumption, Holds
<1>1. Own(i)
  BY Locality DEF Elsewhere, Missing
<1>2. CASE FulfillStep(i)
  <2>1. FulfillGiveUp(i)
    <3>1. ~FulfillSave(i)
      BY <1>0, ValueTypes DEF FulfillSave, Save, Missing
    <3> QED
      BY <1>2, <3>1 DEF FulfillStep, FulfillStart, FulfillFind, FulfillMark, FulfillAsk, FulfillCall,
                        FulfillReply, FulfillCancelled, Missing
  <2>2. ~Over(i)
    BY <2>1 DEF FulfillGiveUp, At, Over, PastCall
  <2>3. alloc[i].status \in Open
    BY <2>2 DEF Inv, Stands, ServedByFulfil
  <2> QED
    BY <2>3 DEF Clean, OpenBare, Freed
<1>3. CASE ReleaseStep(i) \/ HeartbeatRead(i)
  <2>1. ReleaseDelete(i)
    BY <1>3 DEF ReleaseStep, ReleaseStart, ReleaseCall, ReleaseMark, HeartbeatRead, Missing
  <2> QED
    BY <1>0, <2>1 DEF ReleaseDelete, RelAt, Clean, ReleaseFrees
<1>4. ASSUME NEW p \in Coroutines, UpdateRead(p) \/ UpdateWrite(p)
      PROVE  FALSE
  <2>1. UpdateWrite(p) /\ upd[p].id = i
    BY <1>0, <1>4 DEF UpdateRead, UpdateWrite, Save, Missing
  <2>2. upd[p].copy # NoRec
    BY <2>1 DEF UpdateWrite
  <2> QED
    BY <1>0, <2>1, <2>2 DEF UpdateWrite, Save, Missing
<1>5. CASE PassStart \/ PassLook(i)
  <2> DEFINE s == dmn.snap[i]
  <2>1. /\ i \in dmn.todo /\ s.status \in Checked
        /\ s.rm = NoRM \/ s.left < -Grace
    BY <1>5 DEF PassStart, PassLook, Missing, Checked, Typed, DmnTyped, Records
  <2>2. alloc[i] = s
    BY <2>1 DEF Clean, PassKnows
  <2>3. s.rm # NoRM
    BY <2>1, <2>2 DEF Clean, Named, Checked
  <2>4. ~(s.left < -Grace)
    BY <1>0, <2>2 DEF Records, Oldest, ConstantsAssumption
  <2> QED
    BY <2>1, <2>3, <2>4
<1>6. CASE PassAwait(i)
  <2>1. Deallocated(task[i])
    BY <1>6 DEF PassAwait, Missing
  <2> QED
    BY <2>1 DEF Deallocated, Clean, TaskFreesAll, Freed
<1>7. CASE dmn.cur = i /\ (PassCheck \/ PassExpire)
  <2> DEFINE s == dmn.snap[i]
  <2>1. PassExpire /\ dmn.pc = "expire" /\ i \in dmn.todo /\ s \in Records
    BY <1>7 DEF PassCheck, PassExpire, DmnAt, Missing, Typed, DmnTyped
  <2>2. ~(Due(s) /\ s.status = "success")
    <3>1. [s EXCEPT !.status = "deallocating"] \in Records
      BY <2>1 DEF Records, Statuses
    <3> QED
      BY <1>0, <1>7, <2>1, <3>1 DEF PassExpire, Save, Missing
  <2>3. s.status # "success"
    BY <1>7, <2>1, <2>2 DEF PassExpire, Missing
  <2>4. s.status \in Open \/ s.status \in Checked
    BY <2>1, <2>3 DEF Open, Checked, Records
  <2> QED
    BY <1>0, <1>7, <2>1, <2>4 DEF Clean, PassKnows
<1>8. CASE TaskFrees(i) \/ (\E c \in detached : c.id = i /\ DetachedRuns(c)) \/ Crash
  BY <1>8 DEF TaskFrees, DetachedRuns, Crash, Missing
<1>9. CASE Tick
  BY <1>0, <1>9, AgedRecord DEF Tick, AgedRec, Missing
<1>10. <<"ful", i>> \in Coroutines /\ <<"rel", i>> \in Coroutines /\ <<"hb", i>> \in Coroutines
       /\ Daemon \in Coroutines
  BY CoroutineNames
<1> QED
  BY <1>1, <1>2, <1>3, <1>4, <1>5, <1>6, <1>7, <1>8, <1>9, <1>10 DEF Own

------------------------------------------------------------------------------
(* A reservation that is live                                              *)

Live(i) == Holds(i) /\ alloc[i].left > 0 /\ Idle(i)

\* What a heartbeat is going to write is the record, with its time renewed.
Renews(i) ==
  Beats(i) /\ Holds(i) => upd[<<"hb", i>>].copy = [alloc[i] EXCEPT !.left = TTL]

\* Who can write the record of a live reservation, or one that a heartbeat has read
\* before it was removed.
LEMMA LiveMoves ==
  ASSUME ConstantsAssumption, NullAssumption, TimelyWorld, Typed, Inv, NEW i \in Ids,
         [Next]_vars, Live(i) \/ (Missing(i) /\ Beats(i))
  PROVE  \/ alloc'[i] = alloc[i]
         \/ UpdateWrite(<<"hb", i>>) /\ alloc'[i] = upd[<<"hb", i>>].copy
         \/ Tick /\ alloc'[i] = AgedRec(alloc[i])
         \/ TakenForExpired(i) /\ Missing(i)'
<1>0. /\ alloc \in [Ids -> Records \cup {NoRec}] /\ NoRec \notin Records
      /\ Stands(i)
  BY DEF Typed, NullAssumption, Inv
<1>1. Over(i) /\ Idle(i) /\ ~Quiet(i)
  BY <1>0 DEF Live, Holds, Stands, ServedByFulfil, HeartbeatWrites, Open, Quiet, Checked
<1>2. CASE Elsewhere(i)
  BY <1>2 DEF Elsewhere
<1>3. CASE FulfillStep(i)
  <2>1. ~FulfillSave(i) /\ ~FulfillGiveUp(i)
    BY <1>1 DEF FulfillSave, FulfillGiveUp, At, Over, PastCall
  <2> QED
    BY <1>3, <2>1 DEF FulfillStep, FulfillStart, FulfillFind, FulfillMark, FulfillAsk, FulfillCall,
                      FulfillReply, FulfillCancelled
<1>4. CASE ReleaseStep(i) \/ HeartbeatRead(i)
  <2>1. ~ReleaseDelete(i)
    BY <1>1 DEF ReleaseDelete, RelAt, Idle
  <2> QED
    BY <1>4, <2>1 DEF ReleaseStep, ReleaseStart, ReleaseCall, ReleaseMark, HeartbeatRead
<1>5. ASSUME NEW a \in {"ful", "rel", "hb"}, UpdateRead(<<a, i>>) \/ UpdateWrite(<<a, i>>)
      PROVE  \/ alloc'[i] = alloc[i]
             \/ UpdateWrite(<<"hb", i>>) /\ alloc'[i] = upd[<<"hb", i>>].copy
  <2>1. CASE UpdateRead(<<a, i>>)
    BY <2>1 DEF UpdateRead
  <2>2. CASE UpdateWrite(<<a, i>>)
    <3>1. a = "hb"
      BY <1>0, <1>1, <2>2 DEF UpdateWrite, Over, Stands, ReleaseWrites, Idle
    <3>2. upd[<<a, i>>].id = i
      BY <2>2, WrittenFor DEF UpdateWrite
    <3> QED
      BY <1>0, <2>2, <3>1, <3>2 DEF UpdateWrite, Save
  <2> QED
    BY <1>5, <2>1, <2>2
<1>6. CASE upd[Daemon].id = i /\ (UpdateWrite(Daemon) \/ UpdateRead(Daemon))
  <2>1. ~UpdateWrite(Daemon)
    BY <1>1, <1>6 DEF UpdateWrite, Inv, PassWrites
  <2> QED
    BY <1>6, <2>1 DEF UpdateRead
<1>7. CASE PassStart \/ PassLook(i)
  <2>1. ASSUME PassLook(i), dmn.snap[i].status \notin {"received", "allocating", "success"}
        PROVE  FALSE
    <3>1. i \in dmn.todo /\ dmn.snap[i].status \in Checked
      BY <2>1 DEF PassLook, Checked, Typed, DmnTyped, Records
    <3> QED
      BY <1>0, <1>1, <3>1 DEF Stands, SnapshotStands
  <2> QED
    BY <1>7, <2>1 DEF PassStart, PassLook
<1>8. CASE PassAwait(i)
  <2>1. task[i].st # "none"
    BY <1>8 DEF PassAwait, Deallocated
  <2> QED
    BY <1>0, <1>1, <2>1 DEF Stands, TaskFreesOwn
<1>9. CASE dmn.cur = i /\ (PassCheck \/ PassExpire)
  <2> DEFINE s == dmn.snap[i]
  <2>1. CASE PassCheck
    BY <2>1 DEF PassCheck
  <2>2. CASE PassExpire
    <3>1. i \in dmn.todo /\ s \in Records /\ dmn.cur = i
      BY <1>9, <2>2 DEF PassExpire, DmnAt, Typed, DmnTyped
    <3>2. s.status \notin Checked
      BY <1>0, <1>1, <3>1 DEF Stands, SnapshotStands
    <3>3. ~(s.status = "success" /\ Due(s))
      <4>1. ASSUME s.status = "success", Due(s) PROVE FALSE
        <5>1. alloc[i] = s /\ ~Beats(i)
          BY <1>0, <3>1, <4>1 DEF Stands, SnapshotStands
        <5>2. alloc[i].left > 0
          BY <5>1 DEF Live
        <5> QED
          BY <3>1, <4>1, <5>1, <5>2 DEF Due, Records, Oldest, ConstantsAssumption
      <4> QED
        BY <4>1
    <3>4. CASE Due(s)
      <4>1. s.status \in {"received", "allocating"}
        BY <3>1, <3>2, <3>3, <3>4 DEF Checked, Records
      <4>2. Missing(i)'
        BY <1>0, <2>2, <3>1, <3>4, <4>1 DEF PassExpire, RemoveImproper, Delete, Save, Missing
      <4> QED
        BY <3>1, <3>4, <4>1, <4>2 DEF TakenForExpired
    <3>5. CASE ~Due(s)
      BY <2>2, <3>1, <3>5 DEF PassExpire
    <3> QED
      BY <3>4, <3>5
  <2> QED
    BY <1>9, <2>1, <2>2
<1>10. CASE TaskFrees(i) \/ (\E c \in detached : c.id = i /\ DetachedRuns(c)) \/ Crash
  BY <1>10 DEF TaskFrees, DetachedRuns, Crash
<1>11. CASE Tick
  BY <1>11 DEF Tick
<1> QED
  BY <1>2, <1>3, <1>4, <1>5, <1>6, <1>7, <1>8, <1>9, <1>10, <1>11, Locality DEF Own

\* A heartbeat under way goes on by its own write only, and is over before a tick.
LEMMA HeartbeatAlone ==
  ASSUME ConstantsAssumption, NullAssumption, TimelyWorld, Typed, Inv, NEW i \in Ids, [Next]_vars,
         Beats(i)', ~HeartbeatRead(i)
  PROVE  upd'[<<"hb", i>>] = upd[<<"hb", i>>] /\ ~UpdateWrite(<<"hb", i>>) /\ ~Tick
<1> DEFINE p == <<"hb", i>>
<1>0. /\ p \in Coroutines /\ p # Daemon /\ <<"ful", i>> \in Coroutines /\ <<"rel", i>> \in Coroutines
      /\ Daemon \in Coroutines /\ p # <<"ful", i>> /\ p # <<"rel", i>>
      /\ upd \in [Coroutines -> Updates \cup {NoUpd}]
  BY CoroutineNames DEF Daemon, Typed, UpdTyped
<1>1. ~UpdateWrite(p)
  BY <1>0 DEF UpdateWrite, Beats, Updating
<1>2. ~UpdateRead(p)
  BY NullAssumption DEF UpdateRead, Inv, Stands, HeartbeatWrites, Beats
<1>3. ~Tick
  <2>1. ASSUME Tick PROVE FALSE
    <3>1. ~Updating(p)
      BY <2>1 DEF Tick, TimelyWorld, Activities, Busy
    <3>2. upd'[p] = NoUpd
      BY <1>0, <2>1, <3>1 DEF Tick, Updating
    <3> QED
      BY <3>2 DEF Beats, Updating
  <2> QED
    BY <2>1
<1>4. CASE Elsewhere(i)
  BY <1>1, <1>3, <1>4 DEF Elsewhere, LosesOnly
<1>5. CASE Own(i)
  <2>1. CASE FulfillStep(i) \/ ReleaseStep(i)
    BY <1>0, <1>1, <1>3, <2>1 DEF FulfillStep, FulfillStart, FulfillSave, FulfillFind, FulfillGiveUp, FulfillMark,
       FulfillAsk, FulfillCall, FulfillReply, FulfillCancelled, ReleaseStep, ReleaseStart, ReleaseCall,
       ReleaseMark, ReleaseDelete, Begin
  <2>2. ASSUME NEW a \in {"ful", "rel"}, UpdateRead(<<a, i>>) \/ UpdateWrite(<<a, i>>)
        PROVE  upd'[p] = upd[p]
    BY <1>0, <2>2 DEF UpdateRead, UpdateWrite
  <2>3. CASE UpdateRead(Daemon) \/ UpdateWrite(Daemon)
    BY <1>0, <1>1, <1>3, <2>3 DEF UpdateRead, UpdateWrite
  <2>4. CASE PassStart \/ PassLook(i) \/ PassAwait(i) \/ PassCheck \/ PassExpire
    BY <1>0, <1>1, <1>3, <2>4 DEF PassStart, PassLook, PassAwait, PassCheck, PassExpire, Begin
  <2>5. CASE TaskFrees(i) \/ (\E c \in detached : DetachedRuns(c)) \/ Crash
    <3>1. p[1] = "hb"
      OBVIOUS
    <3> QED
      BY <1>0, <1>1, <1>3, <2>5, <3>1 DEF TaskFrees, DetachedRuns, Crash
  <2> QED
    BY <1>1, <1>2, <1>3, <1>5, <2>1, <2>2, <2>3, <2>4, <2>5 DEF Own
<1> QED
  BY <1>4, <1>5, Locality

\* While a heartbeat has a record, it is nobody else's to write.
LEMMA RenewsNext ==
  ASSUME ConstantsAssumption, NullAssumption, TimelyWorld, Typed, Inv, NEW i \in Ids, Renews(i),
         [Next]_vars
  PROVE  Renews(i)'
<1> DEFINE p == <<"hb", i>>
<1> SUFFICES ASSUME Beats(i)', Holds(i)'
             PROVE  upd'[p].copy = [alloc'[i] EXCEPT !.left = TTL]
  BY DEF Renews
<1>1. CASE HeartbeatRead(i)
  BY <1>1, CoroutineNames DEF HeartbeatRead, Typed, UpdTyped
<1>2. CASE ~HeartbeatRead(i)
  <2>1. upd'[p] = upd[p] /\ ~UpdateWrite(p) /\ ~Tick
    BY <1>2, HeartbeatAlone
  <2>2. Beats(i)
    BY <2>1 DEF Beats, Updating
  <2>3. Live(i) \/ Missing(i)
    BY <2>2 DEF Inv, Stands, HeartbeatWrites, Live
  <2>4. alloc'[i] = alloc[i]
    BY <2>1, <2>2, <2>3, LiveMoves DEF Holds
  <2> QED
    BY <2>1, <2>2, <2>4 DEF Renews, Holds, Missing
<1> QED
  BY <1>1, <1>2

\* A step leaves a live reservation as it is, takes a tick off its time, or renews it.
LEMMA LiveStays ==
  ASSUME ConstantsAssumption, NullAssumption, TimelyWorld, Typed, Inv, NEW i \in Ids, Renews(i),
         [Next]_vars, Live(i), ~TakenForExpired(i)
  PROVE  \E l \in alloc[i].left - 1 .. TTL : alloc'[i] = [alloc[i] EXCEPT !.left = l]
<1>0. /\ alloc[i] \in Records /\ ~Missing(i) /\ alloc[i].left > 0
      /\ alloc[i].left \in Oldest..TTL /\ TTL \in Nat /\ Oldest \in Int /\ Oldest < 0
  BY DEF Live, Holds, Missing, Typed, Records, Oldest, ConstantsAssumption
<1>1. CASE alloc'[i] = alloc[i]
  <2>1. alloc[i] = [alloc[i] EXCEPT !.left = alloc[i].left]
    BY <1>0 DEF Records
  <2>2. alloc[i].left \in alloc[i].left - 1 .. TTL
    BY <1>0
  <2> QED
    BY <1>1, <2>1, <2>2
<1>2. CASE UpdateWrite(<<"hb", i>>) /\ alloc'[i] = upd[<<"hb", i>>].copy
  <2>1. alloc'[i] = [alloc[i] EXCEPT !.left = TTL]
    BY <1>2 DEF Renews, Beats, UpdateWrite, Live
  <2>2. TTL \in alloc[i].left - 1 .. TTL
    BY <1>0
  <2> QED
    BY <2>1, <2>2
<1>3. CASE Tick /\ alloc'[i] = AgedRec(alloc[i])
  <2>1. alloc'[i] = Aged(alloc[i]) /\ DOMAIN alloc[i] = {"status", "left", "rm", "hw"}
    BY <1>0, <1>3 DEF AgedRec, Missing, Records
  <2>2. Older(alloc[i].left) = alloc[i].left - 1
    BY <1>0 DEF Older
  <2>3. alloc'[i] = [alloc[i] EXCEPT !.left = alloc[i].left - 1]
    BY <1>0, <2>1, <2>2 DEF Aged, Records
  <2>4. alloc[i].left - 1 \in alloc[i].left - 1 .. TTL
    BY <1>0
  <2> QED
    BY <2>3, <2>4
<1> QED
  BY <1>1, <1>2, <1>3, LiveMoves

------------------------------------------------------------------------------
(* Theorems                                                                *)

LEMMA TypedIs ==
  ASSUME Typed
  PROVE  TypeOK
<1>1. ASSUME NEW i \in Ids
      PROVE  ful[i].plan \in Plans /\ ful[i].k \in 0..Len(ful[i].plan) + 1
  <2>1. ful[i] \in Fulfils /\ InPlan(ful[i])
    BY DEF Typed, FulTyped
  <2>2. ful[i].plan \in Plans /\ ful[i].k \in Nat /\ Len(ful[i].plan) \in Nat
    BY <2>1, PlanIs DEF Fulfils
  <2> QED
    BY <2>1, <2>2 DEF InPlan
<1>2. \A i \in Ids : Missing(i) \/ alloc[i] \in Records
  BY DEF Typed, Missing
<1> QED
  BY <1>1, <1>2 DEF TypeOK, Typed, UpdTyped, DmnTyped, Passes, Tasks, Releases

\* Redis never holds anything but whole records, whatever update_status copies,
\* and a fulfil's position is one of its plan, however many resource managers
\* offer the same hosts and whatever goes wrong.
THEOREM Typing ==
  ASSUME ConstantsAssumption, NullAssumption
  PROVE  Spec => []TypeOK
<1>1. Init => Typed
  BY TypedInit
<1>2. Typed /\ [Next]_vars => Typed'
  BY TypedNext
<1>3. Typed => TypeOK
  BY TypedIs
<1> QED
  BY <1>1, <1>2, <1>3, PTL DEF Spec

\* What update_status, update_expires, release and a pass of expire_allocations
\* write on stale copies never gives a live reservation machines it does not hold.
THEOREM Reservation ==
  ASSUME ConstantsAssumption, NullAssumption, TimelyWorld
  PROVE  Spec => []LiveReservationHeld
<1>1. Init => Typed /\ Short /\ Inv
  BY TypedInit, InvInit, NoPlan DEF Init, Short
<1>2. Typed /\ Short /\ Inv /\ [Next]_vars => (Typed /\ Short /\ Inv)'
  BY TypedNext, ShortNext, InvNext
<1>3. Inv => LiveReservationHeld
  BY DEF Inv, Stands, SuccessHeld, Holds, Idle, LiveReservationHeld
<1> QED
  BY <1>1, <1>2, <1>3, PTL DEF Spec

\* However fulfil, release, the heartbeats and expire_allocations overwrite each
\* other's records, and whatever calls are given up, lost or cut by a restart, a
\* record that release or deallocate deletes leaves no machine with its allocation
\* that it names, unless the time of grace is over.
THEOREM Removal ==
  ASSUME ConstantsAssumption, NullAssumption, TimelyWorld
  PROVE  Spec => RemovedWhenFreed
<1> DEFINE I == Typed /\ Short /\ Inv /\ \A i \in Ids : Clean(i)
<1>1. Init => I
  BY TypedInit, InvInit, NoPlan, CleanInit DEF Init, Short
<1>2. I /\ [Next]_vars => I'
  BY TypedNext, ShortNext, InvNext, CleanNext
<1>3. I /\ [Next]_vars =>
        [\A i \in Ids :
           /\ ~Missing(i) /\ Missing(i)'
           /\ alloc[i].status # "success" /\ alloc[i].left >= -Grace
         => alloc[i].hw \cap OwnedBy(i) = {}]_vars
  BY RemovalFreed DEF Freed
<1> QED
  BY <1>1, <1>2, <1>3, PTL DEF Spec, RemovedWhenFreed

\* A heartbeat, a pass of expire_allocations or an update_status that works on an
\* older copy does not take away, shorten or change a reservation that is live.
THEOREM Undisturbed ==
  ASSUME ConstantsAssumption, NullAssumption, TimelyWorld
  PROVE  Spec => LiveUndisturbed
<1> DEFINE I == Typed /\ Short /\ Inv /\ \A i \in Ids : Renews(i)
<1>1. Init => I
  <2>1. Init => \A i \in Ids : Renews(i)
    BY DEF Init, Renews, Holds, Missing
  <2> QED
    BY <2>1, TypedInit, InvInit, NoPlan DEF Init, Short
<1>2. I /\ [Next]_vars => I'
  BY TypedNext, ShortNext, InvNext, RenewsNext
<1>3. I /\ [Next]_vars =>
        [\A i \in Ids :
           /\ ~Missing(i) /\ alloc[i].status = "success" /\ alloc[i].left > 0
           /\ rel[i].pc = "idle" /\ ~TakenForExpired(i)
         => \E l \in alloc[i].left - 1 .. TTL : alloc'[i] = [alloc[i] EXCEPT !.left = l]]_vars
  BY LiveStays DEF Live, Holds, Idle
<1> QED
  BY <1>1, <1>2, <1>3, PTL DEF Spec, LiveUndisturbed
==============================================================================
