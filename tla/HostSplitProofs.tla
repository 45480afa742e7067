---------------------------- MODULE HostSplitProofs ----------------------------
(***************************************************************************)
(* What the loops that share the hosts keep and what they leave, for any   *)
(* lists of hosts and any number of fulfillers.                            *)
(*                                                                         *)
(* Both loops are recursive functions.  Where a fact needs an induction    *)
(* over their turns, the set of turns for which it fails is shown to have  *)
(* no least element.                                                       *)
(***************************************************************************)
EXTENDS HostSplit, FiniteSetTheorems, SequenceTheorems, WellFoundedInduction, TLAPS

Below == {ss \in Nat \X Nat : ss[1] < ss[2]}

LEMMA BelowWellFounded == IsWellFoundedOn(Below, Nat)
  BY NatLessThanWellFounded DEF OpToRel, Below

\* A set of numbers that has no first element is empty.
LEMMA NoLeast ==
  ASSUME NEW T \in SUBSET Nat, 0 \notin T, \A n \in T : n # 0 => n - 1 \in T
  PROVE  T = {}
<1> SUFFICES ASSUME T # {} PROVE FALSE
  OBVIOUS
<1>1. PICK m \in T : \A n \in T : ~(<<n, m>> \in Below)
  BY BelowWellFounded, WFMin
<1>2. m - 1 \in T /\ m - 1 < m /\ m - 1 \in Nat /\ m \in Nat
  BY SMT
<1> QED
  BY <1>1, <1>2 DEF Below

------------------------------------------------------------------------------
(* The recursive functions satisfy their equations                         *)

ScanTo(hosts, others, f, n) ==
  f = [k \in 0..n |-> IF k = 0 THEN [left |-> hosts, at |-> 1] ELSE Inspect(f[k - 1], others)]

LEMMA ScanExists ==
  ASSUME NEW hosts, NEW others
  PROVE  \A n \in Nat : \E f : ScanTo(hosts, others, f, n)
<1> DEFINE T == {n \in Nat : ~\E f : ScanTo(hosts, others, f, n)}
<1>1. 0 \notin T
  <2> DEFINE f == [k \in 0..0 |-> [left |-> hosts, at |-> 1]]
  <2>1. ScanTo(hosts, others, f, 0)
    BY DEF ScanTo
  <2> QED
    BY <2>1
<1>2. ASSUME NEW n \in T, n # 0 PROVE n - 1 \in T
  <2> SUFFICES ASSUME NEW f, ScanTo(hosts, others, f, n - 1) PROVE \E g : ScanTo(hosts, others, g, n)
    BY <1>2
  <2> DEFINE g == [k \in 0..n |-> IF k = n THEN Inspect(f[n - 1], others) ELSE f[k]]
  <2>1. \A k \in 0..n : g[k] = IF k = 0 THEN [left |-> hosts, at |-> 1]
                               ELSE Inspect(g[k - 1], others)
    BY <1>2 DEF ScanTo
  <2>2. ScanTo(hosts, others, g, n)
    BY <2>1 DEF ScanTo
  <2> QED
    BY <2>2
<1> HIDE DEF T
<1>3. T = {}
  BY <1>1, <1>2, NoLeast DEF T
<1> QED
  BY <1>3 DEF T

LEMMA ScansAre ==
  ASSUME NEW S, NEW hosts \in Seq(S), NEW others
  PROVE  /\ Scans(hosts, others)[0] = [left |-> hosts, at |-> 1]
         /\ \A n \in 1..Len(hosts) :
              Scans(hosts, others)[n] = Inspect(Scans(hosts, others)[n - 1], others)
<1>1. \E f : ScanTo(hosts, others, f, Len(hosts))
  BY ScanExists, LenProperties
<1>2. ScanTo(hosts, others, Scans(hosts, others), Len(hosts))
  BY <1>1 DEF ScanTo, Scans
<1> DEFINE f == Scans(hosts, others)
<1>3. f = [k \in 0..Len(hosts) |->
             IF k = 0 THEN [left |-> hosts, at |-> 1] ELSE Inspect(f[k - 1], others)]
  BY <1>2 DEF ScanTo
<1>4. Len(hosts) \in Nat
  BY LenProperties
<1> HIDE DEF f
<1>5. f[0] = [left |-> hosts, at |-> 1]
  BY <1>3, <1>4
<1>6. \A n \in 1..Len(hosts) : f[n] = Inspect(f[n - 1], others)
  BY <1>3, <1>4
<1> QED
  BY <1>5, <1>6 DEF f

SplitTo(plan, f, n) ==
  f = [k \in 0..n |-> IF k = 0 THEN plan ELSE SplitOne(f[k - 1], k)]

LEMMA SplitExists ==
  ASSUME NEW plan
  PROVE  \A n \in Nat : \E f : SplitTo(plan, f, n)
<1> DEFINE T == {n \in Nat : ~\E f : SplitTo(plan, f, n)}
<1>1. 0 \notin T
  <2> DEFINE f == [k \in 0..0 |-> plan]
  <2>1. SplitTo(plan, f, 0)
    BY DEF SplitTo
  <2> QED
    BY <2>1
<1>2. ASSUME NEW n \in T, n # 0 PROVE n - 1 \in T
  <2> SUFFICES ASSUME NEW f, SplitTo(plan, f, n - 1) PROVE \E g : SplitTo(plan, g, n)
    BY <1>2
  <2> DEFINE g == [k \in 0..n |-> IF k = n THEN SplitOne(f[n - 1], n) ELSE f[k]]
  <2>1. \A k \in 0..n : g[k] = IF k = 0 THEN plan ELSE SplitOne(g[k - 1], k)
    BY <1>2 DEF SplitTo
  <2>2. SplitTo(plan, g, n)
    BY <2>1 DEF SplitTo
  <2> QED
    BY <2>2
<1> HIDE DEF T
<1>3. T = {}
  BY <1>1, <1>2, NoLeast DEF T
<1> QED
  BY <1>3 DEF T

LEMMA SplitsAre ==
  ASSUME NEW S, NEW plan \in Seq(S)
  PROVE  /\ Splits(plan)[0] = plan
         /\ \A k \in 1..Len(plan) : Splits(plan)[k] = SplitOne(Splits(plan)[k - 1], k)
<1>1. \E f : SplitTo(plan, f, Len(plan))
  BY SplitExists, LenProperties
<1>2. SplitTo(plan, Splits(plan), Len(plan))
  BY <1>1 DEF SplitTo, Splits
<1> QED
  BY <1>2 DEF SplitTo

------------------------------------------------------------------------------
(* The inner loop                                                          *)

\* The hosts behind a removed one move up.
LEMMA RemoveAtIs ==
  ASSUME NEW S, NEW s \in Seq(S), NEW i \in 1..Len(s)
  PROVE  /\ RemoveAt(s, i) \in Seq(S)
         /\ Len(RemoveAt(s, i)) = Len(s) - 1
         /\ \A j \in 1..Len(s) - 1 : RemoveAt(s, i)[j] = IF j < i THEN s[j] ELSE s[j + 1]
<1> DEFINE l == SubSeq(s, 1, i - 1)
           r == SubSeq(s, i + 1, Len(s))
<1>0. Len(s) \in Nat /\ \A j \in 1..Len(s) : s[j] \in S
  BY LenProperties
<1>1. l \in Seq(S) /\ Len(l) = i - 1 /\ \A j \in 1..i - 1 : l[j] = s[j]
  BY <1>0, SubSeqProperties
<1>2. r \in Seq(S) /\ Len(r) = Len(s) - i /\ \A j \in 1..Len(s) - i : r[j] = s[i + j]
  BY <1>0, SubSeqProperties
<1> HIDE DEF l, r
<1>3. /\ l \o r \in Seq(S)
      /\ Len(l \o r) = Len(s) - 1
      /\ \A j \in 1..Len(s) - 1 : (l \o r)[j] = IF j <= i - 1 THEN l[j] ELSE r[j - (i - 1)]
  <2>1. /\ l \o r \in Seq(S)
        /\ Len(l \o r) = Len(l) + Len(r)
        /\ \A j \in 1..Len(l) + Len(r) : (l \o r)[j] = IF j <= Len(l) THEN l[j] ELSE r[j - Len(l)]
    BY <1>1, <1>2, ConcatProperties
  <2>2. Len(l) + Len(r) = Len(s) - 1
    BY <1>0, <1>1, <1>2
  <2> QED
    BY <1>1, <2>1, <2>2
<1>4. RemoveAt(s, i) = l \o r
  BY DEF RemoveAt, l, r
<1> QED
  BY <1>0, <1>1, <1>2, <1>3, <1>4

\* What holds of a scan after n turns.
Scanned(hosts, others, s, n) ==
  /\ s.left \in Seq(Range(hosts))
  /\ s.at \in Nat \ {0}
  /\ s.at = n + 1 \/ s.at > Len(s.left)
  /\ Len(s.left) <= Len(hosts)
  /\ Range(hosts) \ others \subseteq Range(s.left)

LEMMA RangeIs ==
  ASSUME NEW S, NEW s \in Seq(S)
  PROVE  /\ Len(s) \in Nat
         /\ Range(s) = {s[j] : j \in 1..Len(s)}
         /\ Range(s) \subseteq S
         /\ s \in Seq(Range(s))
<1>1. DOMAIN s = 1..Len(s) /\ Len(s) \in Nat /\ \A j \in 1..Len(s) : s[j] \in S
  BY LenProperties
<1>2. Range(s) = {s[j] : j \in 1..Len(s)}
  BY <1>1 DEF Range
<1>3. s \in [1..Len(s) -> Range(s)]
  BY <1>1, <1>2, LenProperties
<1>4. s \in Seq(Range(s))
  BY <1>1, <1>3, SeqDef
<1> QED
  BY <1>1, <1>2, <1>4

LEMMA RemoveAtRange ==
  ASSUME NEW S, NEW s \in Seq(S), NEW i \in 1..Len(s)
  PROVE  /\ Range(RemoveAt(s, i)) \subseteq Range(s)
         /\ Range(s) \ {s[i]} \subseteq Range(RemoveAt(s, i))
<1> DEFINE t == RemoveAt(s, i)
<1>1. /\ t \in Seq(S) /\ Len(t) = Len(s) - 1 /\ Len(s) \in Nat
      /\ \A j \in 1..Len(s) - 1 : t[j] = IF j < i THEN s[j] ELSE s[j + 1]
  BY RemoveAtIs, LenProperties
<1> HIDE DEF t
<1>2. Range(t) = {t[j] : j \in 1..Len(t)} /\ Range(s) = {s[j] : j \in 1..Len(s)}
  BY <1>1, RangeIs
<1>3. ASSUME NEW j \in 1..Len(t) PROVE t[j] \in Range(s)
  BY <1>1, <1>2, <1>3
<1>4. ASSUME NEW j \in 1..Len(s), j # i PROVE s[j] \in Range(t)
  <2>1. CASE j < i
    BY <1>1, <1>2, <2>1
  <2>2. CASE j > i
    <3>1. j - 1 \in 1..Len(t) /\ t[j - 1] = s[j]
      BY <1>1, <2>2
    <3> QED
      BY <1>2, <3>1
  <2> QED
    BY <1>1, <1>4, <2>1, <2>2
<1> QED
  BY <1>2, <1>3, <1>4 DEF t

LEMMA InspectScanned ==
  ASSUME NEW hosts, NEW others, NEW s, NEW n \in Nat, Len(hosts) \in Nat,
         Scanned(hosts, others, s, n)
  PROVE  Scanned(hosts, others, Inspect(s, others), n + 1)
<1> DEFINE t == Inspect(s, others)
<1>0. Len(s.left) \in Nat
  BY LenProperties DEF Scanned
<1>1. CASE s.at > Len(s.left)
  BY <1>1 DEF Inspect, Scanned
<1>2. CASE s.at <= Len(s.left) /\ s.left[s.at] \in others
  <2>1. t = [left |-> RemoveAt(s.left, s.at), at |-> s.at + 1] /\ s.at \in 1..Len(s.left)
    BY <1>0, <1>2 DEF Inspect, Scanned
  <2> HIDE DEF t
  <2>2. /\ t.left \in Seq(Range(hosts)) /\ Len(t.left) = Len(s.left) - 1
        /\ Range(s.left) \ {s.left[s.at]} \subseteq Range(t.left)
    BY <2>1, RemoveAtIs, RemoveAtRange DEF Scanned
  <2>3. Range(hosts) \ others \subseteq Range(t.left)
    BY <1>2, <2>2 DEF Scanned
  <2>4. t.at = n + 2
    BY <1>0, <1>2, <2>1 DEF Scanned
  <2> QED
    BY <1>0, <2>2, <2>3, <2>4 DEF Scanned, t
<1>3. CASE s.at <= Len(s.left) /\ s.left[s.at] \notin others
  <2>1. t = [left |-> s.left, at |-> s.at + 1]
    BY <1>0, <1>3 DEF Inspect, Scanned
  <2> HIDE DEF t
  <2> QED
    BY <1>0, <1>3, <2>1 DEF Scanned, t
<1> QED
  BY <1>0, <1>1, <1>2, <1>3 DEF Scanned

LEMMA AllScanned ==
  ASSUME NEW S, NEW hosts \in Seq(S), NEW others, NEW n \in 0..Len(hosts)
  PROVE  Scanned(hosts, others, Scans(hosts, others)[n], n)
<1> DEFINE T == {m \in Nat : m <= Len(hosts) /\ ~Scanned(hosts, others, Scans(hosts, others)[m], m)}
<1>0. Len(hosts) \in Nat /\ hosts \in Seq(Range(hosts))
  BY RangeIs
<1>1. 0 \notin T
  <2>1. Scans(hosts, others)[0] = [left |-> hosts, at |-> 1]
    BY ScansAre
  <2>2. Scanned(hosts, others, [left |-> hosts, at |-> 1], 0)
    BY <1>0 DEF Scanned
  <2> QED
    BY <2>1, <2>2
<1>2. ASSUME NEW m \in T, m # 0 PROVE m - 1 \in T
  <2>1. m \in 1..Len(hosts) /\ m - 1 \in Nat /\ m - 1 <= Len(hosts) /\ (m - 1) + 1 = m
    BY <1>0, <1>2
  <2>2. Scans(hosts, others)[m] = Inspect(Scans(hosts, others)[m - 1], others)
    BY <2>1, ScansAre
  <2>3. ~Scanned(hosts, others, Scans(hosts, others)[m - 1], m - 1)
    BY <1>0, <2>1, <2>2, InspectScanned
  <2> QED
    BY <2>1, <2>3
<1> HIDE DEF T
<1>3. T = {}
  BY <1>1, <1>2, NoLeast DEF T
<1> QED
  BY <1>0, <1>3 DEF T

(***************************************************************************)
(* What is given up is offered by others, and nothing is added; the order  *)
(* does not matter for that.                                               *)
(***************************************************************************)
LEMMA DropSharedKeeps ==
  ASSUME NEW S, NEW hosts \in Seq(S), NEW others
  PROVE  /\ DropShared(hosts, others) \in Seq(S)
         /\ Range(DropShared(hosts, others)) \subseteq Range(hosts)
         /\ Range(hosts) \ others \subseteq Range(DropShared(hosts, others))
<1>1. Len(hosts) \in 0..Len(hosts) /\ Range(hosts) \subseteq S
  BY RangeIs
<1>2. Scanned(hosts, others, Scans(hosts, others)[Len(hosts)], Len(hosts))
  BY <1>1, AllScanned
<1>3. /\ DropShared(hosts, others) \in Seq(Range(hosts))
      /\ Range(hosts) \ others \subseteq Range(DropShared(hosts, others))
  BY <1>2 DEF Scanned, DropShared
<1> QED
  BY <1>1, <1>3, RangeIs, SeqMonotonic

\* The host behind one that has been removed is not looked at.
Skipped(hosts, others, left, h) ==
  \E p \in 2..Len(hosts) :
    hosts[p] = h /\ hosts[p - 1] \in others /\ hosts[p - 1] \notin Range(left)

(***************************************************************************)
(* Before the iterator's position are hosts that nobody else offers and    *)
(* the skipped ones; from there on the list is the end of the original.    *)
(***************************************************************************)
Behind(hosts, others, s) ==
  /\ \A j, k \in 1..Len(s.left) : s.left[j] = s.left[k] => j = k
  /\ \A j \in 1..Len(s.left) :
       IF j < s.at
       THEN s.left[j] \notin others \/ Skipped(hosts, others, s.left, s.left[j])
       ELSE s.left[j] = hosts[j + (Len(hosts) - Len(s.left))]

LEMMA SkippedStays ==
  ASSUME NEW hosts, NEW others, NEW left, NEW fewer, NEW h,
         Range(fewer) \subseteq Range(left), Skipped(hosts, others, left, h)
  PROVE  Skipped(hosts, others, fewer, h)
  BY DEF Skipped

LEMMA InspectBehind ==
  ASSUME NEW hosts, NEW others, NEW s, NEW n \in Nat, Len(hosts) \in Nat,
         Scanned(hosts, others, s, n), Behind(hosts, others, s)
  PROVE  Behind(hosts, others, Inspect(s, others))
<1> DEFINE t == Inspect(s, others)
<1>0. Len(s.left) \in Nat /\ Len(s.left) <= Len(hosts) /\ s.at \in Nat \ {0}
      /\ s.left \in Seq(Range(hosts))
  BY LenProperties DEF Scanned
<1>1. CASE s.at > Len(s.left)
  BY <1>1 DEF Inspect
<1>2. CASE s.at <= Len(s.left) /\ s.left[s.at] \in others
  <2>1. t = [left |-> RemoveAt(s.left, s.at), at |-> s.at + 1] /\ s.at \in 1..Len(s.left)
    BY <1>0, <1>2 DEF Inspect
  <2> HIDE DEF t
  <2>2. /\ t.left \in Seq(Range(hosts)) /\ Len(t.left) = Len(s.left) - 1
        /\ \A j \in 1..Len(s.left) - 1 :
             t.left[j] = IF j < s.at THEN s.left[j] ELSE s.left[j + 1]
        /\ Range(t.left) \subseteq Range(s.left)
    BY <1>0, <2>1, RemoveAtIs, RemoveAtRange
  <2>3. ASSUME NEW j \in 1..Len(t.left), NEW k \in 1..Len(t.left), t.left[j] = t.left[k]
        PROVE  j = k
    <3> DEFINE old(i) == IF i < s.at THEN i ELSE i + 1
    <3>1. old(j) \in 1..Len(s.left) /\ old(k) \in 1..Len(s.left)
      BY <1>0, <2>2
    <3>2. t.left[j] = s.left[old(j)] /\ t.left[k] = s.left[old(k)]
      BY <2>2
    <3>3. old(j) = old(k)
      BY <2>3, <3>1, <3>2 DEF Behind
    <3> QED
      BY <1>0, <2>2, <3>3
  <2>4. s.left[s.at] \notin Range(t.left)
    <3>1. Range(t.left) = {t.left[j] : j \in 1..Len(t.left)}
      BY <2>2, RangeIs
    <3>2. ASSUME NEW j \in 1..Len(t.left), t.left[j] = s.left[s.at] PROVE FALSE
      <4> DEFINE old == IF j < s.at THEN j ELSE j + 1
      <4>1. old \in 1..Len(s.left) /\ old # s.at
        BY <1>0, <2>2
      <4>2. t.left[j] = s.left[old]
        BY <2>2
      <4> QED
        BY <2>1, <3>2, <4>1, <4>2 DEF Behind
    <3> QED
      BY <3>1, <3>2
  <2>5. ASSUME NEW j \in 1..Len(t.left), j < s.at
        PROVE  t.left[j] \notin others \/ Skipped(hosts, others, t.left, t.left[j])
    <3>1. t.left[j] = s.left[j] /\ j \in 1..Len(s.left)
      BY <1>0, <2>2, <2>5
    <3>2. s.left[j] \notin others \/ Skipped(hosts, others, s.left, s.left[j])
      BY <2>5, <3>1 DEF Behind
    <3> QED
      BY <2>2, <3>1, <3>2, SkippedStays
  <2>6. ASSUME s.at \in 1..Len(t.left)
        PROVE  Skipped(hosts, others, t.left, t.left[s.at])
    <3> DEFINE p == s.at + 1 + (Len(hosts) - Len(s.left))
    <3>1. p \in 2..Len(hosts) /\ p - 1 = s.at + (Len(hosts) - Len(s.left))
      BY <1>0, <2>2, <2>6, SMTT(30)
    <3>2. t.left[s.at] = s.left[s.at + 1] /\ s.at + 1 \in 1..Len(s.left)
      BY <1>0, <2>2, <2>6
    <3>3. s.left[s.at + 1] = hosts[p] /\ s.left[s.at] = hosts[p - 1]
      <4>1. ~(s.at + 1 < s.at) /\ ~(s.at < s.at)
        BY <1>0
      <4>2. s.left[s.at + 1] = hosts[p]
        BY <3>2, <4>1 DEF Behind
      <4>3. s.left[s.at] = hosts[s.at + (Len(hosts) - Len(s.left))]
        BY <2>1, <4>1 DEF Behind
      <4> QED
        BY <3>1, <4>2, <4>3
    <3> HIDE DEF p
    <3> QED
      BY <1>2, <2>4, <3>1, <3>2, <3>3 DEF Skipped
  <2>7. ASSUME NEW j \in 1..Len(t.left), j >= t.at
        PROVE  t.left[j] = hosts[j + (Len(hosts) - Len(t.left))]
    <3>1. t.left[j] = s.left[j + 1] /\ j + 1 \in 1..Len(s.left) /\ ~(j + 1 < s.at)
      BY <1>0, <2>1, <2>2, <2>7
    <3>2. s.left[j + 1] = hosts[j + 1 + (Len(hosts) - Len(s.left))]
      BY <3>1 DEF Behind
    <3>3. j + 1 + (Len(hosts) - Len(s.left)) = j + (Len(hosts) - Len(t.left))
      BY <1>0, <2>2
    <3> QED
      BY <3>1, <3>2, <3>3
  <2>8. ASSUME NEW j \in 1..Len(t.left)
        PROVE  IF j < t.at
               THEN t.left[j] \notin others \/ Skipped(hosts, others, t.left, t.left[j])
               ELSE t.left[j] = hosts[j + (Len(hosts) - Len(t.left))]
    <3>1. t.at = s.at + 1
      BY <2>1
    <3>2. j < s.at \/ j = s.at \/ j >= t.at
      BY <1>0, <3>1
    <3>3. j >= t.at => ~(j < t.at)
      BY <1>0, <3>1
    <3>4. CASE j < s.at
      <4>1. j < t.at
        BY <1>0, <3>1, <3>4
      <4> QED
        BY <2>5, <3>4, <4>1
    <3>5. CASE j = s.at
      <4>1. j < t.at
        BY <1>0, <3>1, <3>5
      <4> QED
        BY <2>6, <3>5, <4>1
    <3>6. CASE j >= t.at
      BY <2>7, <3>3, <3>6
    <3> QED
      BY <3>2, <3>4, <3>5, <3>6
  <2> QED
    BY <2>3, <2>8 DEF Behind, t
<1>3. CASE s.at <= Len(s.left) /\ s.left[s.at] \notin others
  <2>1. t = [left |-> s.left, at |-> s.at + 1]
    BY <1>0, <1>3 DEF Inspect
  <2> HIDE DEF t
  <2>2. ASSUME NEW j \in 1..Len(s.left), j < s.at + 1
        PROVE  s.left[j] \notin others \/ Skipped(hosts, others, s.left, s.left[j])
    <3>1. j < s.at \/ j = s.at
      BY <1>0, <2>2
    <3> QED
      BY <1>3, <3>1 DEF Behind
  <2>3. ASSUME NEW j \in 1..Len(s.left), ~(j < s.at + 1)
        PROVE  s.left[j] = hosts[j + (Len(hosts) - Len(s.left))]
    <3>1. ~(j < s.at)
      BY <1>0, <2>3
    <3> QED
      BY <3>1 DEF Behind
  <2>4. \A j, k \in 1..Len(t.left) : t.left[j] = t.left[k] => j = k
    BY <2>1 DEF Behind
  <2>5. ASSUME NEW j \in 1..Len(t.left)
        PROVE  IF j < t.at
               THEN t.left[j] \notin others \/ Skipped(hosts, others, t.left, t.left[j])
               ELSE t.left[j] = hosts[j + (Len(hosts) - Len(t.left))]
    <3>1. t.left = s.left /\ t.at = s.at + 1
      BY <2>1
    <3> QED
      BY <2>2, <2>3, <2>5, <3>1
  <2> QED
    BY <2>4, <2>5 DEF Behind, t
<1> QED
  BY <1>0, <1>1, <1>2, <1>3

LEMMA AllBehind ==
  ASSUME NEW S, NEW hosts \in Seq(S), NEW others, NEW n \in 0..Len(hosts),
         \A j, k \in 1..Len(hosts) : hosts[j] = hosts[k] => j = k
  PROVE  Behind(hosts, others, Scans(hosts, others)[n])
<1>4. /\ Scans(hosts, others)[0] = [left |-> hosts, at |-> 1]
      /\ \A k \in 1..Len(hosts) :
           Scans(hosts, others)[k] = Inspect(Scans(hosts, others)[k - 1], others)
  BY ScansAre
<1> DEFINE T == {m \in Nat : m <= Len(hosts) /\ ~Behind(hosts, others, Scans(hosts, others)[m])}
<1>0. Len(hosts) \in Nat
  BY LenProperties
<1>1. 0 \notin T
  <2>1. Scans(hosts, others)[0] = [left |-> hosts, at |-> 1]
    BY <1>4
  <2>2. Behind(hosts, others, [left |-> hosts, at |-> 1])
    BY <1>0 DEF Behind
  <2> QED
    BY <2>1, <2>2
<1>2. ASSUME NEW m \in T, m # 0 PROVE m - 1 \in T
  <2>1. m \in 1..Len(hosts) /\ m - 1 \in Nat /\ m - 1 <= Len(hosts) /\ m - 1 \in 0..Len(hosts)
    BY <1>0, <1>2
  <2>2. Scans(hosts, others)[m] = Inspect(Scans(hosts, others)[m - 1], others)
    BY <1>4, <2>1
  <2>3. Scanned(hosts, others, Scans(hosts, others)[m - 1], m - 1)
    BY <2>1, AllScanned
  <2>4. ~Behind(hosts, others, Scans(hosts, others)[m - 1])
    BY <1>0, <2>1, <2>2, <2>3, InspectBehind
  <2> QED
    BY <2>1, <2>4
<1> HIDE DEF T
<1>3. T = {}
  BY <1>1, <1>2, NoLeast DEF T
<1> QED
  BY <1>0, <1>3 DEF T

(***************************************************************************)
(* A host that stays although others offer it was skipped: the one before  *)
(* it in the list was removed.                                             *)
(***************************************************************************)
LEMMA DropSharedSkips ==
  ASSUME NEW S, NEW hosts \in Seq(S), NEW others,
         \A j, k \in 1..Len(hosts) : hosts[j] = hosts[k] => j = k,
         NEW h \in Range(DropShared(hosts, others)), h \in others
  PROVE  Skipped(hosts, others, DropShared(hosts, others), h)
<1> DEFINE s == Scans(hosts, others)[Len(hosts)]
<1>1. Len(hosts) \in Nat /\ Len(hosts) \in 0..Len(hosts)
  BY LenProperties
<1>2. Scanned(hosts, others, s, Len(hosts)) /\ Behind(hosts, others, s)
  BY <1>1, AllScanned, AllBehind
<1>3. DropShared(hosts, others) = s.left
  BY DEF DropShared
<1> HIDE DEF s
<1>4. Len(s.left) \in Nat /\ Range(s.left) = {s.left[j] : j \in 1..Len(s.left)}
  BY <1>2, RangeIs DEF Scanned
<1>5. PICK j \in 1..Len(s.left) : s.left[j] = h
  BY <1>3, <1>4
<1>6. j < s.at
  BY <1>1, <1>2, <1>4 DEF Scanned
<1> QED
  BY <1>2, <1>3, <1>5, <1>6 DEF Behind

------------------------------------------------------------------------------
(* The outer loop                                                          *)

\* The plan keeps its length, and the lists of the others do not change.
LEMMA SplitOneIs ==
  ASSUME NEW H, NEW plan \in Seq(Seq(H)), NEW k \in 1..Len(plan)
  PROVE  /\ SplitOne(plan, k) \in Seq(Seq(H))
         /\ Len(SplitOne(plan, k)) = Len(plan)
         /\ SplitOne(plan, k)[k] = DropShared(plan[k], OthersHosts(plan, k))
         /\ \A j \in 1..Len(plan) \ {k} : SplitOne(plan, k)[j] = plan[j]
<1>1. plan[k] \in Seq(H)
  BY LenProperties
<1>2. DropShared(plan[k], OthersHosts(plan, k)) \in Seq(H)
  BY <1>1, DropSharedKeeps
<1> QED
  BY <1>2, ExceptSeq DEF SplitOne

\* What the k-th fulfiller gives up is with another one.
LEMMA SplitOneCovers ==
  ASSUME NEW H, NEW plan \in Seq(Seq(H)), NEW k \in 1..Len(plan)
  PROVE  Covered(SplitOne(plan, k)) = Covered(plan)
<1> DEFINE new == SplitOne(plan, k)
           others == OthersHosts(plan, k)
<1>1. DOMAIN plan = 1..Len(plan) /\ DOMAIN new = 1..Len(plan)
  BY SplitOneIs, LenProperties
<1>2. new[k] = DropShared(plan[k], others) /\ \A j \in 1..Len(plan) \ {k} : new[j] = plan[j]
  BY SplitOneIs
<1>3. plan[k] \in Seq(H)
  BY LenProperties
<1>4. /\ Range(new[k]) \subseteq Range(plan[k])
      /\ Range(plan[k]) \ others \subseteq Range(new[k])
  BY <1>2, <1>3, DropSharedKeeps
<1>5. others = UNION {Range(plan[j]) : j \in 1..Len(plan) \ {k}}
  BY <1>1 DEF OthersHosts
<1> HIDE DEF new, others
<1>6. /\ Covered(plan) = UNION {Range(plan[j]) : j \in 1..Len(plan)}
      /\ Covered(new) = UNION {Range(new[j]) : j \in 1..Len(plan)}
  BY <1>1 DEF Covered
<1>7. Covered(new) \subseteq Covered(plan)
  <2> SUFFICES ASSUME NEW j \in 1..Len(plan), NEW h \in Range(new[j])
               PROVE  \E i \in 1..Len(plan) : h \in Range(plan[i])
    BY <1>6
  <2> QED
    BY <1>2, <1>4
<1>8. Covered(plan) \subseteq Covered(new)
  <2> SUFFICES ASSUME NEW j \in 1..Len(plan), NEW h \in Range(plan[j])
               PROVE  \E i \in 1..Len(plan) : h \in Range(new[i])
    BY <1>6
  <2>1. CASE j # k
    BY <1>2, <2>1
  <2>2. CASE j = k /\ h \notin others
    BY <1>4, <2>2
  <2>3. CASE j = k /\ h \in others
    <3>1. PICK i \in 1..Len(plan) \ {k} : h \in Range(plan[i])
      BY <1>5, <2>3
    <3> QED
      BY <1>2, <3>1
  <2> QED
    BY <2>1, <2>2, <2>3
<1> QED
  BY <1>7, <1>8 DEF new

\* After each turn.
LEMMA SplitsKeep ==
  ASSUME NEW H, NEW plan \in Seq(Seq(H)), NEW k \in 0..Len(plan)
  PROVE  /\ Splits(plan)[k] \in Seq(Seq(H))
         /\ Len(Splits(plan)[k]) = Len(plan)
         /\ Covered(Splits(plan)[k]) = Covered(plan)
<1> DEFINE Fine(n) == /\ Splits(plan)[n] \in Seq(Seq(H))
                      /\ Len(Splits(plan)[n]) = Len(plan)
                      /\ Covered(Splits(plan)[n]) = Covered(plan)
           T == {n \in Nat : n <= Len(plan) /\ ~Fine(n)}
<1>0. Len(plan) \in Nat
  BY LenProperties
<1>1. 0 \notin T
  <2>1. Splits(plan)[0] = plan
    BY SplitsAre
  <2> QED
    BY <2>1
<1>2. ASSUME NEW n \in T, n # 0 PROVE n - 1 \in T
  <2>1. n \in 1..Len(plan) /\ n - 1 \in Nat /\ n - 1 <= Len(plan)
    BY <1>0, <1>2
  <2>2. Splits(plan)[n] = SplitOne(Splits(plan)[n - 1], n)
    BY <2>1, SplitsAre
  <2>3. Fine(n - 1) => Fine(n)
    BY <2>1, <2>2, SplitOneIs, SplitOneCovers
  <2>4. ~Fine(n)
    OBVIOUS
  <2> HIDE DEF Fine
  <2> QED
    BY <2>1, <2>3, <2>4
<1> HIDE DEF T
<1>3. T = {}
  BY <1>1, <1>2, NoLeast DEF T
<1>4. k \in Nat /\ k <= Len(plan)
  BY <1>0
<1> QED
  BY <1>3, <1>4 DEF T

(***************************************************************************)
(* However many fulfillers offer whatever hosts, each keeps a list of      *)
(* them, and each host that was offered is still with somebody.            *)
(***************************************************************************)
THEOREM SplitCovers ==
  ASSUME NEW H, NEW plan \in Seq(Seq(H))
  PROVE  /\ Split(plan) \in Seq(Seq(H))
         /\ Len(Split(plan)) = Len(plan)
         /\ Covered(Split(plan)) = Covered(plan)
<1>1. Len(plan) \in 0..Len(plan)
  BY LenProperties
<1> QED
  BY <1>1, SplitsKeep DEF Split

------------------------------------------------------------------------------
(* The order of the request                                                *)

\* s lists those of the first n hosts of the order that are in hs.
ListsUpTo(order, hs, n, s) ==
  /\ s \in Seq(hs)
  /\ \A j, k \in 1..Len(s) : s[j] = s[k] => j = k
  /\ \A m \in 1..n : order[m] \in hs => \E j \in 1..Len(s) : s[j] = order[m]
  /\ \A j \in 1..Len(s) : \E m \in 1..n : order[m] = s[j]
  /\ \A j, k \in 1..Len(s) : j < k =>
       \E m, q \in 1..n : m < q /\ order[m] = s[j] /\ order[q] = s[k]

LEMMA ListsOneMore ==
  ASSUME NEW order, NEW hs, NEW n \in Nat, NEW s, ListsUpTo(order, hs, n, s)
  PROVE  \E t : ListsUpTo(order, hs, n + 1, t)
<1> DEFINE h == order[n + 1]
<1>0. Len(s) \in Nat /\ 1..n \subseteq 1..n + 1 /\ n + 1 \in 1..n + 1 /\ 1..n + 1 = 1..n \cup {n + 1}
  BY LenProperties DEF ListsUpTo
<1>1. CASE h \notin hs \/ \E j \in 1..Len(s) : s[j] = h
  <2>1. \A m \in 1..n + 1 : order[m] \in hs => \E j \in 1..Len(s) : s[j] = order[m]
    BY <1>0, <1>1 DEF ListsUpTo
  <2>2. ListsUpTo(order, hs, n + 1, s)
    BY <1>0, <2>1 DEF ListsUpTo
  <2> QED
    BY <2>2
<1>2. CASE h \in hs /\ \A j \in 1..Len(s) : s[j] # h
  <2> DEFINE t == Append(s, h)
  <2>1. /\ t \in Seq(hs) /\ Len(t) = Len(s) + 1 /\ t[Len(s) + 1] = h
        /\ \A j \in 1..Len(s) : t[j] = s[j]
    BY <1>2, AppendProperties DEF ListsUpTo
  <2> HIDE DEF t, h
  <2>2. \A j \in 1..Len(t) : j \in 1..Len(s) \/ j = Len(s) + 1
    BY <1>0, <2>1
  <2>3. \A j, k \in 1..Len(t) : t[j] = t[k] => j = k
    BY <1>2, <2>1, <2>2 DEF ListsUpTo
  <2>4. ASSUME NEW m \in 1..n + 1, order[m] \in hs PROVE \E j \in 1..Len(t) : t[j] = order[m]
    <3>1. CASE m \in 1..n
      <4>1. PICK j \in 1..Len(s) : s[j] = order[m]
        BY <2>4, <3>1 DEF ListsUpTo
      <4> QED
        BY <1>0, <2>1, <4>1
    <3>2. CASE m = n + 1
      BY <1>0, <2>1, <3>2 DEF h
    <3> QED
      BY <1>0, <3>1, <3>2
  <2>5. ASSUME NEW j \in 1..Len(t) PROVE \E m \in 1..n + 1 : order[m] = t[j]
    <3>1. CASE j \in 1..Len(s)
      <4>1. PICK m \in 1..n : order[m] = s[j]
        BY <3>1 DEF ListsUpTo
      <4> QED
        BY <1>0, <2>1, <3>1, <4>1
    <3>2. CASE j = Len(s) + 1
      BY <1>0, <2>1, <3>2 DEF h
    <3> QED
      BY <2>2, <3>1, <3>2
  <2>6. ASSUME NEW j \in 1..Len(t), NEW k \in 1..Len(t), j < k
        PROVE  \E m, q \in 1..n + 1 : m < q /\ order[m] = t[j] /\ order[q] = t[k]
    <3>1. j \in 1..Len(s)
      BY <1>0, <2>1, <2>6
    <3>2. CASE k \in 1..Len(s)
      <4>1. PICK m, q \in 1..n : m < q /\ order[m] = s[j] /\ order[q] = s[k]
        BY <2>6, <3>1, <3>2 DEF ListsUpTo
      <4>2. order[m] = t[j] /\ order[q] = t[k]
        BY <2>1, <3>1, <3>2, <4>1
      <4> QED
        BY <1>0, <4>1, <4>2
    <3>3. CASE k = Len(s) + 1
      <4>1. PICK m \in 1..n : order[m] = s[j]
        BY <3>1 DEF ListsUpTo
      <4>2. m < n + 1 /\ m \in 1..n + 1
        OBVIOUS
      <4>3. order[m] = t[j] /\ order[n + 1] = t[k]
        BY <2>1, <3>1, <3>3, <4>1 DEF h
      <4> QED
        BY <1>0, <4>2, <4>3
    <3> QED
      BY <2>2, <3>2, <3>3
  <2>7. ListsUpTo(order, hs, n + 1, t)
    BY <2>1, <2>3, <2>4, <2>5, <2>6 DEF ListsUpTo
  <2> QED
    BY <2>7
<1> QED
  BY <1>1, <1>2

LEMMA ListsExist ==
  ASSUME NEW order, NEW hs
  PROVE  \A n \in Nat : \E s : ListsUpTo(order, hs, n, s)
<1> DEFINE T == {n \in Nat : ~\E s : ListsUpTo(order, hs, n, s)}
<1>1. 0 \notin T
  <2>1. << >> \in Seq(hs) /\ Len(<< >>) = 0
    BY EmptySeq
  <2>2. ListsUpTo(order, hs, 0, << >>)
    BY <2>1 DEF ListsUpTo
  <2> QED
    BY <2>2
<1>2. ASSUME NEW n \in T, n # 0 PROVE n - 1 \in T
  <2>1. n - 1 \in Nat /\ (n - 1) + 1 = n
    BY <1>2
  <2> QED
    BY <2>1, ListsOneMore
<1> HIDE DEF T
<1>3. T = {}
  BY <1>1, <1>2, NoLeast DEF T
<1> QED
  BY <1>3 DEF T

\* Any demanded hosts can be listed, so Listing is such a list.
LEMMA ListingIs ==
  ASSUME NEW H, NEW order \in Seq(H), NEW hs \in SUBSET Range(order)
  PROVE  /\ Listing(order, hs) \in Seq(hs)
         /\ Range(Listing(order, hs)) = hs
         /\ InOrder(order, Listing(order, hs))
<1>0. Len(order) \in Nat /\ Range(order) = {order[m] : m \in 1..Len(order)} /\ DOMAIN order = 1..Len(order)
  BY RangeIs, LenProperties
<1>1. PICK s : ListsUpTo(order, hs, Len(order), s)
  BY <1>0, ListsExist
<1>2. Len(s) \in Nat /\ DOMAIN s = 1..Len(s) /\ s \in [1..Len(s) -> hs]
  BY <1>1, LenProperties DEF ListsUpTo
<1>3. Range(s) = hs
  <2>1. ASSUME NEW h \in hs PROVE \E j \in 1..Len(s) : s[j] = h
    <3>1. PICK m \in 1..Len(order) : order[m] = h
      BY <1>0
    <3> QED
      BY <1>1, <3>1 DEF ListsUpTo
  <2> QED
    BY <1>2, <2>1 DEF Range
<1>4. Cardinality(hs) = Len(s)
  <2>1. s \in Injection(1..Len(s), hs)
    BY <1>1, <1>2 DEF ListsUpTo, Injection, IsInjective
  <2>2. s \in Surjection(1..Len(s), hs)
    BY <1>2, <1>3 DEF Surjection, Range
  <2>3. ExistsBijection(1..Len(s), hs)
    BY <2>1, <2>2 DEF ExistsBijection, Bijection
  <2> QED
    BY <1>2, <2>3, FS_CountingElements
<1>5. InOrder(order, s)
  <2>1. \A j, k \in 1..Len(s) : j < k =>
          \E m, q \in 1..Len(order) : m < q /\ order[m] = s[j] /\ order[q] = s[k]
    BY <1>1 DEF ListsUpTo
  <2>2. DOMAIN s = 1..Len(s) /\ DOMAIN order = 1..Len(order)
    BY <1>0, <1>2
  <2>3. ASSUME NEW j \in DOMAIN s, NEW k \in DOMAIN s, j < k
        PROVE  \E m, n \in DOMAIN order : m < n /\ order[m] = s[j] /\ order[n] = s[k]
    <3>1. j \in 1..Len(s) /\ k \in 1..Len(s)
      BY <2>2
    <3>2. PICK m, n \in 1..Len(order) : m < n /\ order[m] = s[j] /\ order[n] = s[k]
      BY <2>1, <2>3, <3>1
    <3>3. m \in DOMAIN order /\ n \in DOMAIN order
      BY <2>2
    <3> QED
      BY <3>2, <3>3
  <2> QED
    BY <2>3 DEF InOrder
<1>6. /\ Listing(order, hs) \in [1..Cardinality(hs) -> hs]
      /\ Range(Listing(order, hs)) = hs
      /\ InOrder(order, Listing(order, hs))
  BY <1>2, <1>3, <1>4, <1>5 DEF Listing
<1> QED
  BY <1>2, <1>4, <1>6, SeqDef

\* Where each host is demanded once, it is listed once.
LEMMA InOrderOnce ==
  ASSUME NEW H, NEW order \in Seq(H), IsInjective(order), NEW s \in Seq(H), InOrder(order, s)
  PROVE  \A j, k \in 1..Len(s) : s[j] = s[k] => j = k
<1>1. DOMAIN s = 1..Len(s) /\ DOMAIN order = 1..Len(order) /\ Len(s) \in Nat /\ Len(order) \in Nat
  BY LenProperties
<1>2. ASSUME NEW j \in 1..Len(s), NEW k \in 1..Len(s), j < k, s[j] = s[k] PROVE FALSE
  <2>1. PICK m, n \in 1..Len(order) : m < n /\ order[m] = s[j] /\ order[n] = s[k]
    BY <1>1, <1>2 DEF InOrder
  <2> QED
    BY <1>1, <1>2, <2>1 DEF IsInjective
<1> QED
  BY <1>1, <1>2

\* A list has its hosts in the order of the request.
LEMMA ListedBefore ==
  ASSUME NEW H, NEW order \in Seq(H), IsInjective(order), NEW s \in Seq(H), InOrder(order, s),
         NEW j \in 1..Len(s), NEW k \in 1..Len(s), j < k,
         NEW m \in 1..Len(order), NEW n \in 1..Len(order), order[m] = s[j], order[n] = s[k]
  PROVE  m < n
<1>1. DOMAIN s = 1..Len(s) /\ DOMAIN order = 1..Len(order)
  BY LenProperties
<1>2. PICK u, v \in 1..Len(order) : u < v /\ order[u] = s[j] /\ order[v] = s[k]
  BY <1>1 DEF InOrder
<1>3. u = m /\ v = n
  BY <1>1, <1>2 DEF IsInjective
<1> QED
  BY <1>2, <1>3

\* Lists of one request have their hosts in the same order.
LEMMA SameOrder ==
  ASSUME NEW H, NEW order \in Seq(H), IsInjective(order),
         NEW s \in Seq(H), InOrder(order, s), NEW t \in Seq(H), InOrder(order, t),
         NEW j \in 1..Len(s), NEW k \in 1..Len(s), j < k,
         NEW jj \in 1..Len(t), NEW kk \in 1..Len(t), t[jj] = s[j], t[kk] = s[k]
  PROVE  jj < kk
<1>1. DOMAIN s = 1..Len(s) /\ DOMAIN order = 1..Len(order) /\ Len(t) \in Nat /\ Len(order) \in Nat
  BY LenProperties
<1>2. PICK m, n \in 1..Len(order) : m < n /\ order[m] = s[j] /\ order[n] = s[k]
  BY <1>1, SMTT(30) DEF InOrder
<1>3. jj # kk
  BY <1>1, <1>2 DEF IsInjective
<1>4. ASSUME kk < jj PROVE FALSE
  <2>1. n < m
    BY <1>2, <1>4, ListedBefore
  <2> QED
    BY <1>1, <1>2, <2>1
<1> QED
  BY <1>1, <1>3, <1>4

(***************************************************************************)
(* Two lists, one after the other.  A host that both keep was skipped by   *)
(* both; the host before it in the second list then lies, in the first,    *)
(* between two neighbours.                                                 *)
(***************************************************************************)
LEMMA TwoDisjoint ==
  ASSUME NEW H, NEW order \in Seq(H), IsInjective(order),
         NEW first \in Seq(H), InOrder(order, first),
         NEW second \in Seq(H), InOrder(order, second),
         NEW kept, kept = DropShared(first, Range(second)),
         NEW rest, rest = DropShared(second, Range(kept))
  PROVE  Range(kept) \cap Range(rest) = {}
<1> SUFFICES ASSUME NEW h \in Range(kept), h \in Range(rest) PROVE FALSE
  OBVIOUS
<1>1. Range(kept) \subseteq Range(first) /\ Range(rest) \subseteq Range(second)
  BY DropSharedKeeps
<1>2. Skipped(first, Range(second), kept, h)
  BY <1>1, InOrderOnce, DropSharedSkips
<1>3. Skipped(second, Range(kept), rest, h)
  BY <1>1, InOrderOnce, DropSharedSkips
<1>4. PICK p \in 2..Len(first) :
        first[p] = h /\ first[p - 1] \in Range(second) /\ first[p - 1] \notin Range(kept)
  BY <1>2 DEF Skipped
<1>5. PICK q \in 2..Len(second) : second[q] = h /\ second[q - 1] \in Range(kept)
  BY <1>3 DEF Skipped
<1>6. /\ Len(first) \in Nat /\ Len(second) \in Nat
      /\ Range(first) = {first[j] : j \in 1..Len(first)}
      /\ Range(second) = {second[j] : j \in 1..Len(second)}
  BY RangeIs
<1>7. PICK r \in 1..Len(second) : second[r] = first[p - 1]
  BY <1>4, <1>6
<1>8. PICK t \in 1..Len(first) : first[t] = second[q - 1]
  BY <1>1, <1>5, <1>6
<1>9. /\ p \in 1..Len(first) /\ p - 1 \in 1..Len(first) /\ p - 1 < p
      /\ q \in 1..Len(second) /\ q - 1 \in 1..Len(second) /\ q - 1 < q
  BY <1>6
<1>10. r < q
  BY <1>4, <1>5, <1>7, <1>9, SameOrder
<1>11. r < q - 1
  BY <1>4, <1>5, <1>6, <1>7, <1>10
<1>12. p - 1 < t
  BY <1>7, <1>8, <1>9, <1>11, SameOrder
<1>13. t < p
  BY <1>4, <1>5, <1>8, <1>9, SameOrder
<1> QED
  BY <1>6, <1>12, <1>13
================================================================================
