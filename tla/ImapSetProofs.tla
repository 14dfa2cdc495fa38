--------------------------- MODULE ImapSetProofs ---------------------------
(***************************************************************************)
(* Proofs about ImapSet, for every range of numbers and every sequence of  *)
(* calls: the list of intervals never gains or loses a number, and what    *)
(* optimize() leaves is compact.                                           *)
(***************************************************************************)
EXTENDS ImapSet, FunctionTheorems, SequenceTheorems, TLAPS

USE ImapSetAssumption

(* What is still to be added, and what the two loops rely on: the last     *)
(* interval ends with the value added before, and left of the iterator of  *)
(* a sorted list nothing can be merged any more.                           *)
ToBeAdded == {vals[k] : k \in {j \in DOMAIN vals : j >= next}}

AddSound ==
  /\ next = 0 => vals = <<>>
  /\ next > 0 => it = 0
  /\ next > 1 => /\ Len(intervals) > 0 /\ next - 1 \in DOMAIN vals
                 /\ intervals[Len(intervals)].end = vals[next - 1]

OptimizeSound == it > 0 => /\ it <= Len(intervals)
                           /\ SortedByBegin(intervals)
                           /\ Compact(intervals, it)

SetInv == /\ ImapSetTypeOK
          /\ AddSound
          /\ OptimizeSound
          /\ Covered(intervals) \cup ToBeAdded = meant

-----------------------------------------------------------------------------
(* A list covers a number iff one of its intervals does.                   *)
LEMMA CoveredElement ==
  ASSUME NEW s, NEW n
  PROVE  n \in Covered(s) <=> \E k \in DOMAIN s : n \in Numbers(s[k])
BY DEF Covered

(* Lists whose intervals hold the same numbers cover the same.             *)
LEMMA CoveredSame ==
  ASSUME NEW s, NEW t,
         \A n : (\E k \in DOMAIN s : n \in Numbers(s[k])) <=> \E k \in DOMAIN t : n \in Numbers(t[k])
  PROVE  Covered(s) = Covered(t)
BY CoveredElement

(* The numbers of an interval that is open or has its end in order.        *)
LEMMA NumbersElement ==
  ASSUME NEW v \in Interval, NEW n
  PROVE  n \in Numbers(v) <=> n \in Id /\ n >= v.begin /\ (v.end # 0 => n <= v.end)
BY DEF Numbers, HasDefinedEnd

(* Rearranging keeps the type, the length and the elements.                *)
LEMMA RearrangedKeeps ==
  ASSUME NEW S, NEW s \in Seq(S), NEW t \in Rearranged(s)
  PROVE  /\ t \in Seq(S)
         /\ Len(t) = Len(s)
         /\ \A k \in DOMAIN s : \E j \in DOMAIN t : t[j] = s[k]
         /\ \A k \in DOMAIN t : \E j \in DOMAIN s : t[k] = s[j]
<1>1. PICK p \in Bijection(DOMAIN s, DOMAIN s) : t = [k \in DOMAIN s |-> s[p[k]]]
  BY DEF Rearranged
<1>2. p \in [DOMAIN s -> DOMAIN s] /\ \A w \in DOMAIN s : \E v \in DOMAIN s : p[v] = w
  BY <1>1 DEF Bijection, Injection, Surjection
<1>3. DOMAIN s = 1..Len(s) /\ Len(s) \in Nat
  OBVIOUS
<1>4. \A k \in DOMAIN s : s[p[k]] \in S
  BY <1>2
<1>5. t \in Seq(S) /\ Len(t) = Len(s)
  BY <1>1, <1>3, <1>4
<1> QED
  BY <1>1, <1>2, <1>3, <1>5

(* Taking an element out of a sequence.                                    *)
LEMMA RemoveAtElements ==
  ASSUME NEW S, NEW s \in Seq(S), NEW i \in 1..Len(s)
  PROVE  /\ RemoveAt(s, i) \in Seq(S)
         /\ Len(RemoveAt(s, i)) = Len(s) - 1
         /\ \A k \in 1..Len(s) - 1 : RemoveAt(s, i)[k] = IF k < i THEN s[k] ELSE s[k + 1]
<1> DEFINE a == SubSeq(s, 1, i - 1)
           b == SubSeq(s, i + 1, Len(s))
<1>1. a \in Seq(S) /\ Len(a) = i - 1 /\ \A k \in 1..i - 1 : a[k] = s[k]
  BY SubSeqProperties
<1>2. b \in Seq(S) /\ Len(b) = Len(s) - i /\ \A k \in 1..Len(s) - i : b[k] = s[i + k]
  BY SubSeqProperties
<1>3. RemoveAt(s, i) = a \o b
  BY DEF RemoveAt
<1>4. /\ a \o b \in Seq(S)
      /\ Len(a \o b) = Len(a) + Len(b)
      /\ \A k \in 1..Len(a) + Len(b) : (a \o b)[k] = IF k <= Len(a) THEN a[k] ELSE b[k - Len(a)]
  BY <1>1, <1>2, ConcatProperties
<1> HIDE DEF a, b
<1>0. Len(s) \in Nat /\ i \in Nat /\ i > 0
  OBVIOUS
<1>5. \A k \in 1..Len(s) - 1 : (a \o b)[k] = IF k < i THEN s[k] ELSE s[k + 1]
  <2> SUFFICES ASSUME NEW k \in 1..Len(s) - 1
               PROVE  (a \o b)[k] = IF k < i THEN s[k] ELSE s[k + 1]
    OBVIOUS
  <2>1. CASE k < i
    BY <2>1, <1>1, <1>2, <1>4
  <2>2. CASE k >= i
    <3>1. (a \o b)[k] = b[k - (i - 1)] /\ k - (i - 1) \in 1..Len(s) - i
      BY <2>2, <1>1, <1>2, <1>4
    <3>2. b[k - (i - 1)] = s[i + (k - (i - 1))] /\ i + (k - (i - 1)) = k + 1
      BY <3>1, <1>2
    <3> QED BY <2>2, <3>1, <3>2
  <2>3. k \in Nat
    BY <1>0
  <2>4. k < i \/ k >= i
    BY <2>3, <1>0
  <2> QED BY <2>1, <2>2, <2>4
<1>6. Len(a \o b) = Len(s) - 1
  BY <1>0, <1>1, <1>2, <1>4
<1> QED BY <1>3, <1>4, <1>5, <1>6

(* Merging two neighbours of a sorted list keeps both, and only them.      *)
LEMMA MergedNumbers ==
  ASSUME NEW v \in Interval, NEW w \in Interval,
         v.begin <= w.begin, Mergeable(v, w)
  PROVE  /\ Merged(v, w) \in Interval
         /\ Numbers(Merged(v, w)) = Numbers(v) \cup Numbers(w)
<1> DEFINE m == Merged(v, w)
<1>1. v.begin \in 0..MaxId /\ w.begin \in 0..MaxId /\ v.end \in 0..MaxId /\ w.end \in 0..MaxId
  BY DEF Interval
<1>2. v.end # 0 /\ v.begin <= v.end /\ v.end + 1 >= w.begin
  BY DEF Mergeable, HasDefinedEnd, Interval
<1>3. w.end = 0 \/ w.begin <= w.end
  BY DEF Interval
<1>4. m.begin = v.begin /\ m.end = IF w.end # 0 /\ v.end > w.end THEN v.end ELSE w.end
  BY DEF Merged, HasDefinedEnd
<1>5. m \in Interval
  <2>1. m.end \in 0..MaxId /\ (m.end = 0 \/ m.begin <= m.end)
    BY <1>1, <1>2, <1>3, <1>4 DEF Id
  <2>2. m \in [begin : 0..MaxId, end : 0..MaxId]
    BY <2>1, <1>1 DEF Merged, HasDefinedEnd
  <2> QED BY <2>1, <2>2 DEF Interval
<1>6. \A n \in Id : /\ n >= m.begin
                    /\ m.end # 0 => n <= m.end
                    <=> \/ n >= v.begin /\ (v.end # 0 => n <= v.end)
                        \/ n >= w.begin /\ (w.end # 0 => n <= w.end)
  BY <1>1, <1>2, <1>3, <1>4 DEF Id
<1>7. \A n : n \in Numbers(m) <=> n \in Numbers(v) \cup Numbers(w)
  BY <1>5, <1>6, NumbersElement
<1> QED BY <1>5, <1>7

-----------------------------------------------------------------------------
(* Nothing has been added and nothing is covered at the start.             *)
LEMMA InitInv == SetInit => SetInv
<1> SUFFICES ASSUME SetInit PROVE SetInv
  OBVIOUS
<1>1. Covered(intervals) = {} /\ ToBeAdded = {}
  BY DEF SetInit, Covered, ToBeAdded
<1> QED BY <1>1 DEF SetInit, SetInv, ImapSetTypeOK, AddSound, OptimizeSound

(* Sorting the values neither loses nor invents one.                       *)
LEMMA StartAddInv ==
  ASSUME SetInv, NEW values \in Seq(Id), StartAdd(values)
  PROVE  SetInv'
<1>1. vals' \in Seq(Id) /\ next' = 1 /\ it' = 0 /\ vals = <<>> /\ intervals' = intervals
  BY RearrangedKeeps DEF StartAdd, Idle, SetInv, AddSound
<1>2. ToBeAdded' = ToSet(values) /\ ToBeAdded = {}
  <2>1. /\ \A k \in DOMAIN values : \E j \in DOMAIN vals' : vals'[j] = values[k]
        /\ \A k \in DOMAIN vals' : \E j \in DOMAIN values : vals'[k] = values[j]
    BY RearrangedKeeps DEF StartAdd
  <2>2. \A k \in DOMAIN vals' : k >= next'
    BY <1>1
  <2>3. ToBeAdded' = {vals'[k] : k \in DOMAIN vals'}
    BY <2>2 DEF ToBeAdded
  <2>4. {vals'[k] : k \in DOMAIN vals'} = {values[k] : k \in DOMAIN values}
    BY <2>1
  <2>5. ToSet(values) = {values[k] : k \in DOMAIN values}
    BY DEF ToSet
  <2>6. ToBeAdded = {}
    BY <1>1 DEF ToBeAdded
  <2> QED BY <2>3, <2>4, <2>5, <2>6
<1>3. ToSet(values) \subseteq Id
  BY DEF ToSet
<1>4. meant' = meant \cup ToSet(values)
  BY DEF StartAdd
<1>5. Covered(intervals)' = Covered(intervals)
  BY <1>1 DEF Covered
<1> QED
  BY <1>1, <1>2, <1>3, <1>4, <1>5 DEF SetInv, ImapSetTypeOK, AddSound, OptimizeSound

(* Appending an interval adds its numbers.                                 *)
LEMMA CoveredAppend ==
  ASSUME NEW s \in Seq(Interval), NEW v \in Interval
  PROVE  /\ Append(s, v) \in Seq(Interval)
         /\ Covered(Append(s, v)) = Covered(s) \cup Numbers(v)
<1> DEFINE t == Append(s, v)
<1>1. /\ t \in Seq(Interval) /\ DOMAIN t = DOMAIN s \cup {Len(s) + 1}
      /\ t[Len(s) + 1] = v /\ \A k \in DOMAIN s : t[k] = s[k]
  BY AppendProperties
<1> HIDE DEF t
<1>2. \A n : n \in Covered(t) <=> n \in Covered(s) \/ n \in Numbers(v)
  BY <1>1, CoveredElement
<1> QED BY <1>1, <1>2 DEF t

(* The value that is taken from the list of values.                        *)
LEMMA TakesNext ==
  ASSUME ImapSetTypeOK, next \in DOMAIN vals, next' = next + 1, UNCHANGED vals
  PROVE  ToBeAdded = ToBeAdded' \cup {vals[next]}
BY DEF ImapSetTypeOK, ToBeAdded

(* A run that begins: its number gets an interval of its own.              *)
LEMMA AppendRunInv ==
  ASSUME SetInv, AppendRun
  PROVE  SetInv'
<1> DEFINE v == vals[next]
           w == [begin |-> v, end |-> v]
<1>1. v \in Id /\ next > 0 /\ it = 0 /\ it' = 0 /\ next' = next + 1 /\ vals' = vals
  BY DEF AppendRun, SetInv, ImapSetTypeOK, AddSound
<1>2. w \in Interval /\ Numbers(w) = {v}
  BY <1>1 DEF Interval, Numbers, HasDefinedEnd, Id
<1>3. intervals \in Seq(Interval) /\ intervals' = Append(intervals, w)
  BY DEF AppendRun, SetInv, ImapSetTypeOK
<1>4. intervals' \in Seq(Interval) /\ Covered(intervals)' = Covered(intervals) \cup {v}
  <2> HIDE DEF w
  <2>1. /\ Append(intervals, w) \in Seq(Interval)
        /\ Covered(Append(intervals, w)) = Covered(intervals) \cup {v}
    BY <1>2, <1>3, CoveredAppend
  <2>2. Covered(intervals)' = Covered(intervals')
    BY DEF Covered
  <2> QED BY <2>1, <2>2, <1>3
<1>5. ToBeAdded = ToBeAdded' \cup {v}
  BY TakesNext DEF AppendRun, SetInv
<1>6. Len(intervals') > 0 /\ intervals'[Len(intervals')] = w
  BY <1>2, <1>3
<1>7. /\ next \in DOMAIN vals /\ next \in Nat /\ vals \in Seq(Id) /\ meant \in SUBSET Id
      /\ meant' = meant /\ Covered(intervals) \cup ToBeAdded = meant
  BY DEF AppendRun, SetInv, ImapSetTypeOK
<1>8. ImapSetTypeOK'
  BY <1>1, <1>4, <1>7 DEF ImapSetTypeOK
<1>9. AddSound'
  <2>1. next' > 1 /\ next' - 1 = next /\ w.end = v
    BY <1>1, <1>7
  <2> QED BY <2>1, <1>1, <1>6, <1>7 DEF AddSound
<1>10. OptimizeSound'
  BY <1>1 DEF OptimizeSound
<1>11. (Covered(intervals) \cup ToBeAdded)' = meant'
  BY <1>4, <1>5, <1>7
<1> QED BY <1>8, <1>9, <1>10, <1>11 DEF SetInv

(* A run that goes on: the last interval takes its next number in.         *)
LEMMA ExtendRunInv ==
  ASSUME SetInv, ExtendRun
  PROVE  SetInv'
<1> DEFINE v == vals[next]
           l == Len(intervals)
           w == [intervals[l] EXCEPT !.end = v]
<1>1. /\ next > 1 /\ v = vals[next - 1] + 1 /\ v \in Id /\ vals[next - 1] \in Id
      /\ l \in DOMAIN intervals /\ intervals[l].end = vals[next - 1]
      /\ it = 0 /\ it' = 0 /\ next' = next + 1 /\ vals' = vals
      /\ intervals \in Seq(Interval) /\ intervals' = [intervals EXCEPT ![l] = w]
  BY DEF ExtendRun, StartsRun, SetInv, ImapSetTypeOK, AddSound
<1>2. /\ intervals[l] \in Interval /\ intervals[l].begin \in 0..MaxId
      /\ intervals[l].begin <= intervals[l].end
  BY <1>1 DEF Interval, Id
<1>3. w.begin = intervals[l].begin /\ w.end = v /\ w \in Interval
  BY <1>1, <1>2 DEF Interval, Id
<1>4. Numbers(w) = Numbers(intervals[l]) \cup {v}
  <2>1. \A n \in Id : n >= w.begin /\ n <= v
                      <=> (n >= w.begin /\ n <= vals[next - 1]) \/ n = v
    BY <1>1, <1>2, <1>3 DEF Id
  <2>2. vals[next - 1] # 0 /\ v # 0
    BY <1>1 DEF Id
  <2> QED BY <2>1, <2>2, <1>1, <1>3 DEF Numbers, HasDefinedEnd
<1>5. /\ intervals' \in Seq(Interval) /\ DOMAIN intervals' = DOMAIN intervals
      /\ intervals'[l] = w /\ Len(intervals') = l
      /\ \A k \in DOMAIN intervals : k # l => intervals'[k] = intervals[k]
  BY <1>1, <1>3
<1>6. Covered(intervals)' = Covered(intervals) \cup {v}
  <2> HIDE DEF w, v, l
  <2>1. \A n : (\E k \in DOMAIN intervals : n \in Numbers(intervals'[k]))
               <=> n = v \/ \E k \in DOMAIN intervals : n \in Numbers(intervals[k])
    BY <1>1, <1>4, <1>5
  <2> QED BY <2>1, <1>5 DEF Covered
<1>7. ToBeAdded = ToBeAdded' \cup {v}
  BY TakesNext DEF ExtendRun, SetInv
<1>8. /\ next' - 1 = next /\ meant' = meant /\ next \in DOMAIN vals
      /\ next \in Nat /\ vals \in Seq(Id) /\ meant \in SUBSET Id
  BY <1>1 DEF ExtendRun, SetInv, ImapSetTypeOK
<1>9. Covered(intervals)' \cup ToBeAdded' = meant'
  BY <1>6, <1>7, <1>8 DEF SetInv
<1>10. AddSound'
  <2>1. intervals'[Len(intervals')].end = vals'[next' - 1]
    BY <1>1, <1>3, <1>5, <1>8
  <2> QED BY <2>1, <1>1, <1>5, <1>8 DEF AddSound, SetInv, ImapSetTypeOK
<1>11. ImapSetTypeOK'
  BY <1>1, <1>5, <1>8 DEF ImapSetTypeOK
<1>12. OptimizeSound'
  BY <1>1 DEF OptimizeSound
<1> QED
  BY <1>9, <1>10, <1>11, <1>12 DEF SetInv

(* At the end of add() every number has been added.                        *)
LEMMA EndAddInv ==
  ASSUME SetInv, EndAdd
  PROVE  SetInv'
<1>1. ToBeAdded = {} /\ ToBeAdded' = {}
  BY DEF EndAdd, ToBeAdded, SetInv, ImapSetTypeOK
<1>2. Covered(intervals)' = Covered(intervals)
  BY DEF EndAdd, Covered
<1>3. it' = it /\ intervals' = intervals /\ (it > 0 => next = 0)
  BY DEF EndAdd, SetInv, AddSound, ImapSetTypeOK
<1> QED
  BY <1>1, <1>2, <1>3
  DEF EndAdd, SetInv, ImapSetTypeOK, AddSound, OptimizeSound, SortedByBegin, Compact, HasDefinedEnd

(* An interval that is added as it is.                                     *)
LEMMA AddIntervalInv ==
  ASSUME SetInv, NEW v \in Interval, AddInterval(v)
  PROVE  SetInv'
<1>1. intervals' \in Seq(Interval) /\ Covered(intervals)' = Covered(intervals) \cup Numbers(v)
  <2>1. intervals \in Seq(Interval) /\ intervals' = Append(intervals, v)
    BY DEF AddInterval, SetInv, ImapSetTypeOK
  <2>2. Covered(intervals)' = Covered(Append(intervals, v))
    BY <2>1 DEF Covered
  <2> QED BY <2>1, <2>2, CoveredAppend
<1>2. ToBeAdded' = ToBeAdded
  BY DEF AddInterval, ToBeAdded
<1>3. Numbers(v) \subseteq Id
  BY DEF Numbers
<1> QED
  BY <1>1, <1>2, <1>3
  DEF AddInterval, Idle, SetInv, ImapSetTypeOK, AddSound, OptimizeSound

-----------------------------------------------------------------------------
(* The steps of optimize() keep what the list covers.                      *)
LEMMA OptimizeKeepsAdd ==
  ASSUME SetInv, UNCHANGED <<vals, next, meant>>, it' \in Nat, it > 0 \/ Idle,
         intervals' \in Seq(Interval), Covered(intervals)' = Covered(intervals),
         OptimizeSound'
  PROVE  SetInv'
<1>1. next = 0 /\ ToBeAdded' = ToBeAdded
  BY DEF SetInv, AddSound, ImapSetTypeOK, Idle, ToBeAdded
<1> QED BY <1>1 DEF SetInv, ImapSetTypeOK, AddSound

(* optimize() begins with the same intervals in ascending order.           *)
LEMMA StartOptimizeInv ==
  ASSUME SetInv, StartOptimize
  PROVE  SetInv'
<1>1. intervals \in Seq(Interval) /\ intervals' \in Rearranged(intervals)
  BY DEF StartOptimize, SetInv, ImapSetTypeOK
<1>2. /\ intervals' \in Seq(Interval)
      /\ Len(intervals') = Len(intervals)
      /\ \A k \in DOMAIN intervals : \E j \in DOMAIN intervals' : intervals'[j] = intervals[k]
      /\ \A k \in DOMAIN intervals' : \E j \in DOMAIN intervals : intervals'[k] = intervals[j]
  BY <1>1, RearrangedKeeps
<1>3. Covered(intervals)' = Covered(intervals)
  <2>1. \A n : (\E k \in DOMAIN intervals' : n \in Numbers(intervals'[k]))
               <=> \E k \in DOMAIN intervals : n \in Numbers(intervals[k])
    BY <1>2
  <2> QED BY <2>1 DEF Covered
<1>4. OptimizeSound'
  BY <1>2 DEF StartOptimize, OptimizeSound, SortedByBegin, Compact
<1> QED
  BY <1>2, <1>3, <1>4, OptimizeKeepsAdd DEF StartOptimize

(* An interval that the next one touches or overlaps takes it in.          *)
LEMMA MergeNextInv ==
  ASSUME SetInv, MergeNext
  PROVE  SetInv'
<1> DEFINE v == intervals[it]
           w == intervals[it + 1]
           m == Merged(v, w)
           t == [intervals EXCEPT ![it + 1] = m]
<1>1. /\ intervals \in Seq(Interval) /\ it \in 1..Len(intervals) - 1 /\ it' = it
      /\ SortedByBegin(intervals) /\ Compact(intervals, it)
      /\ intervals' = RemoveAt(t, it) /\ Mergeable(v, w)
  BY DEF MergeNext, SetInv, ImapSetTypeOK, OptimizeSound
<1>2. v \in Interval /\ w \in Interval /\ v.begin <= w.begin /\ m.begin = v.begin
  BY <1>1 DEF SortedByBegin, Merged
<1>3. m \in Interval /\ Numbers(m) = Numbers(v) \cup Numbers(w)
  BY <1>1, <1>2, MergedNumbers
<1> HIDE DEF m
<1>4. /\ t \in Seq(Interval) /\ Len(t) = Len(intervals) /\ t[it + 1] = m
      /\ \A k \in 1..Len(intervals) : k # it + 1 => t[k] = intervals[k]
  BY <1>1, <1>3
<1> HIDE DEF t
<1>5. /\ intervals' \in Seq(Interval) /\ Len(intervals') = Len(intervals) - 1
      /\ \A k \in 1..Len(intervals) - 1 : intervals'[k] = IF k < it THEN t[k] ELSE t[k + 1]
  <2>1. it \in 1..Len(t)
    BY <1>1, <1>4
  <2> QED BY <2>1, <1>1, <1>4, RemoveAtElements
<1>0. Len(intervals) \in Nat /\ it \in Nat
  BY <1>1
<1>6. /\ intervals'[it] = m
      /\ \A k \in 1..it - 1 : intervals'[k] = intervals[k]
      /\ \A k \in it + 1..Len(intervals) - 1 : intervals'[k] = intervals[k + 1]
  BY <1>0, <1>1, <1>4, <1>5
<1>7. Covered(intervals)' = Covered(intervals)
  <2>1. \A n : (\E k \in 1..Len(intervals) : n \in Numbers(intervals[k]))
               <=> \E k \in 1..Len(intervals) - 1 : n \in Numbers(intervals'[k])
    <3> SUFFICES ASSUME NEW n
                 PROVE  (\E k \in 1..Len(intervals) : n \in Numbers(intervals[k]))
                        <=> \E k \in 1..Len(intervals) - 1 : n \in Numbers(intervals'[k])
      OBVIOUS
    <3>1. ASSUME NEW k \in 1..Len(intervals), n \in Numbers(intervals[k])
          PROVE  \E j \in 1..Len(intervals) - 1 : n \in Numbers(intervals'[j])
      <4>1. CASE k < it
        <5>1. k \in 1..it - 1 /\ k \in 1..Len(intervals) - 1
          BY <4>1, <1>0, <1>1
        <5> QED BY <5>1, <3>1, <1>6
      <4>2. CASE k = it \/ k = it + 1
        <5>1. n \in Numbers(v) \cup Numbers(w)
          BY <4>2, <3>1
        <5>2. n \in Numbers(intervals'[it])
          BY <5>1, <1>3, <1>6
        <5> QED BY <5>2, <1>1
      <4>3. CASE k > it + 1
        <5>1. k - 1 \in it + 1..Len(intervals) - 1 /\ (k - 1) + 1 = k
          BY <4>3, <1>1
        <5>2. intervals'[k - 1] = intervals[k] /\ k - 1 \in 1..Len(intervals) - 1
          BY <5>1, <1>0, <1>6
        <5> QED BY <5>2, <3>1
      <4> QED BY <4>1, <4>2, <4>3, <1>0, <1>1
    <3>2. ASSUME NEW k \in 1..Len(intervals) - 1, n \in Numbers(intervals'[k])
          PROVE  \E j \in 1..Len(intervals) : n \in Numbers(intervals[j])
      <4>1. CASE k < it
        BY <4>1, <3>2, <1>1, <1>6
      <4>2. CASE k = it
        BY <4>2, <3>2, <1>1, <1>3, <1>6
      <4>3. CASE k > it
        BY <4>3, <3>2, <1>1, <1>6
      <4> QED BY <4>1, <4>2, <4>3, <1>0, <1>1
    <3> QED BY <3>1, <3>2
  <2>2. DOMAIN intervals = 1..Len(intervals) /\ DOMAIN intervals' = 1..Len(intervals) - 1
    BY <1>0, <1>1, <1>5
  <2>3. Covered(intervals) = Covered(intervals')
    BY <2>1, <2>2, CoveredSame
  <2> QED BY <2>3 DEF Covered
<1>8. OptimizeSound'
  <2>1. SortedByBegin(intervals')
    <3> SUFFICES ASSUME NEW j \in 1..Len(intervals) - 1, NEW k \in 1..Len(intervals) - 1, j < k
                 PROVE  intervals'[j].begin <= intervals'[k].begin
      BY <1>5 DEF SortedByBegin
    <3> DEFINE old(i) == IF i <= it THEN i ELSE i + 1
    <3>1. \A i \in 1..Len(intervals) - 1 : old(i) \in 1..Len(intervals)
                                            /\ intervals'[i].begin = intervals[old(i)].begin
      <4> SUFFICES ASSUME NEW i \in 1..Len(intervals) - 1
                   PROVE  /\ old(i) \in 1..Len(intervals)
                          /\ intervals'[i].begin = intervals[old(i)].begin
        OBVIOUS
      <4>1. old(i) \in 1..Len(intervals)
        BY <1>0
      <4>2. CASE i < it
        BY <4>2, <1>0, <1>6
      <4>3. CASE i = it
        BY <4>3, <1>0, <1>2, <1>6
      <4>4. CASE i > it
        BY <4>4, <1>0, <1>6
      <4> QED BY <4>1, <4>2, <4>3, <4>4, <1>0
    <3>2. old(j) < old(k)
      BY <1>0, <1>1
    <3>3. old(j) \in DOMAIN intervals /\ old(k) \in DOMAIN intervals
      BY <3>1, <1>0, <1>1
    <3>4. intervals'[j].begin = intervals[old(j)].begin /\ intervals'[k].begin = intervals[old(k)].begin
      BY <3>1
    <3> HIDE DEF old
    <3>5. intervals[old(j)].begin <= intervals[old(k)].begin
      BY <3>2, <3>3, <1>1 DEF SortedByBegin
    <3> QED BY <3>4, <3>5
  <2>2. Compact(intervals', it)
    <3>1. \A k \in 1..it - 1 : /\ intervals'[k] = intervals[k]
                               /\ intervals'[k + 1].begin = intervals[k + 1].begin
      <4> SUFFICES ASSUME NEW k \in 1..it - 1
                   PROVE  /\ intervals'[k] = intervals[k]
                          /\ intervals'[k + 1].begin = intervals[k + 1].begin
        OBVIOUS
      <4>1. intervals'[k] = intervals[k]
        BY <1>6
      <4>2. CASE k + 1 < it
        BY <4>2, <1>0, <1>6
      <4>3. CASE k + 1 = it
        BY <4>3, <1>2, <1>6
      <4> QED BY <4>1, <4>2, <4>3, <1>0
    <3> QED BY <3>1, <1>1 DEF Compact, HasDefinedEnd
  <2> QED BY <2>1, <2>2, <1>1, <1>5 DEF OptimizeSound, SortedByBegin, Compact, HasDefinedEnd
<1> QED
  BY <1>1, <1>5, <1>7, <1>8, OptimizeKeepsAdd DEF MergeNext

(* An interval without an end takes in whatever follows.                   *)
LEMMA EatRestInv ==
  ASSUME SetInv, EatRest
  PROVE  SetInv'
<1>1. /\ intervals \in Seq(Interval) /\ it \in 1..Len(intervals) - 1 /\ it' = it
      /\ SortedByBegin(intervals) /\ Compact(intervals, it) /\ intervals[it].end = 0
      /\ intervals' = SubSeq(intervals, 1, it)
  BY DEF EatRest, HasDefinedEnd, SetInv, ImapSetTypeOK, OptimizeSound
<1>2. /\ intervals' \in Seq(Interval) /\ Len(intervals') = it
      /\ \A k \in 1..it : intervals'[k] = intervals[k]
  BY <1>1, SubSeqProperties
<1>3. \A k \in 1..Len(intervals) : k > it => Numbers(intervals[k]) \subseteq Numbers(intervals[it])
  <2> SUFFICES ASSUME NEW k \in 1..Len(intervals), k > it, NEW n \in Numbers(intervals[k])
               PROVE  n \in Numbers(intervals[it])
    OBVIOUS
  <2>1. intervals[k] \in Interval /\ intervals[it] \in Interval
    BY <1>1
  <2>2. intervals[it].begin <= intervals[k].begin
    BY <1>1 DEF SortedByBegin
  <2>3. n \in Id /\ n >= intervals[k].begin
    BY <2>1, NumbersElement
  <2>4. intervals[k].begin \in Int /\ intervals[it].begin \in Int
    BY <2>1 DEF Interval, Id
  <2>5. n >= intervals[it].begin
    BY <2>2, <2>3, <2>4 DEF Id
  <2> QED BY <2>1, <2>3, <2>5, <1>1, NumbersElement
<1>4. Covered(intervals)' = Covered(intervals)
  <2>1. \A n : (\E k \in 1..Len(intervals) : n \in Numbers(intervals[k]))
               <=> \E k \in 1..it : n \in Numbers(intervals'[k])
    <3>1. \A k \in 1..Len(intervals) : k \in 1..it \/ k > it
      BY <1>1
    <3>2. 1..it \subseteq 1..Len(intervals) /\ it \in 1..it
      BY <1>1
    <3> QED BY <3>1, <3>2, <1>2, <1>3
  <2>2. DOMAIN intervals = 1..Len(intervals) /\ DOMAIN intervals' = 1..it
    BY <1>1, <1>2
  <2>3. Covered(intervals) = Covered(intervals')
    BY <2>1, <2>2, CoveredSame
  <2> QED BY <2>3 DEF Covered
<1>5. OptimizeSound'
  BY <1>1, <1>2 DEF OptimizeSound, SortedByBegin, Compact, HasDefinedEnd
<1> QED
  BY <1>1, <1>2, <1>4, <1>5, OptimizeKeepsAdd DEF EatRest

(* The loop goes on from an interval that the next one leaves alone.       *)
LEMMA AdvanceInv ==
  ASSUME SetInv, Advance
  PROVE  SetInv'
<1>1. /\ it \in 1..Len(intervals) - 1 /\ it' = it + 1 /\ intervals' = intervals
      /\ intervals \in Seq(Interval) /\ SortedByBegin(intervals) /\ Compact(intervals, it)
      /\ HasDefinedEnd(intervals[it]) /\ ~Mergeable(intervals[it], intervals[it + 1])
  BY DEF Advance, SetInv, ImapSetTypeOK, OptimizeSound
<1>2. intervals[it].end + 1 < intervals[it + 1].begin
  BY <1>1 DEF Mergeable, HasDefinedEnd, Interval, Id
<1>3. Compact(intervals, it + 1)
  BY <1>1, <1>2 DEF Compact
<1>4. OptimizeSound'
  BY <1>1, <1>3 DEF OptimizeSound, SortedByBegin, Compact, HasDefinedEnd
<1>5. Covered(intervals)' = Covered(intervals)
  BY <1>1 DEF Covered
<1> QED
  BY <1>1, <1>4, <1>5, OptimizeKeepsAdd DEF Advance

(* At the end of optimize() all intervals have been compared.              *)
LEMMA EndOptimizeInv ==
  ASSUME SetInv, EndOptimize
  PROVE  SetInv' /\ Compact(intervals', Len(intervals'))
<1>1. it' = 0 /\ intervals' = intervals /\ intervals \in Seq(Interval)
  BY DEF EndOptimize, SetInv, ImapSetTypeOK
<1>2. Covered(intervals)' = Covered(intervals) /\ OptimizeSound'
  BY <1>1 DEF Covered, OptimizeSound
<1>3. Compact(intervals', Len(intervals'))
  BY <1>1 DEF EndOptimize, SetInv, OptimizeSound, Compact, HasDefinedEnd
<1> QED
  BY <1>1, <1>2, <1>3, OptimizeKeepsAdd DEF EndOptimize

(* What a step keeps that changes nothing.                                 *)
LEMMA StutterInv ==
  ASSUME SetInv, UNCHANGED setVars
  PROVE  SetInv'
BY DEF SetInv, setVars, ImapSetTypeOK, AddSound, OptimizeSound, Covered, ToBeAdded,
       SortedByBegin, Compact, HasDefinedEnd

(* Every step keeps the invariant.                                         *)
LEMMA StepInv == SetInv /\ [SetNext]_setVars => SetInv'
<1> SUFFICES ASSUME SetInv, [SetNext]_setVars PROVE SetInv'
  OBVIOUS
<1>1. CASE \E n \in 1..MaxIntervals : \E values \in [1..n -> Id] : StartAdd(values)
  BY <1>1, StartAddInv
<1>2. CASE \E v \in Interval : AddInterval(v)
  BY <1>2, AddIntervalInv
<1>3. CASE AddValues
  BY <1>3, AppendRunInv, ExtendRunInv, EndAddInv DEF AddValues
<1>4. CASE Optimize
  BY <1>4, StartOptimizeInv, MergeNextInv, EatRestInv, AdvanceInv, EndOptimizeInv DEF Optimize
<1>5. CASE UNCHANGED setVars
  BY <1>5, StutterInv
<1> QED BY <1>1, <1>2, <1>3, <1>4, <1>5 DEF SetNext

(* Whatever add() and optimize() do, in whatever order they are called, the *)
(* list stands for the numbers that were asked for.                         *)
THEOREM MeaningIsKept == SetSpec => []MeaningKept
<1>1. SetInv => MeaningKept
  <2>1. vals = <<>> => ToBeAdded = {}
    BY DEF ToBeAdded
  <2> QED BY <2>1 DEF SetInv, MeaningKept, AddSound
<1> QED BY InitInv, StepInv, <1>1, PTL DEF SetSpec

(* optimize() leaves closed intervals in order that neither overlap nor     *)
(* touch, and at most one open one, which comes last.                       *)
THEOREM OptimizedIsCompactAlways == SetSpec => OptimizedIsCompact
<1>1. SetInv => [EndOptimize => Compact(intervals', Len(intervals'))]_setVars
  BY EndOptimizeInv
<1> QED BY InitInv, StepInv, <1>1, PTL DEF SetSpec, OptimizedIsCompact

(* An interval that is written as a sequence is read back as one of the    *)
(* same numbers, if not always as the same interval: the open one that     *)
(* begins with the largest number comes back closed.                       *)
LEMMA SequenceIsReadBack ==
  ASSUME NEW v \in Interval, v # Unbounded
  PROVE  ToImapSequence(v) # <<>> /\ Numbers(FromImapSequence(ToImapSequence(v))) = Numbers(v)
<1>1. /\ v.begin \in Nat /\ v.begin <= MaxId /\ v.end \in Nat /\ v.end <= MaxId
      /\ v.end = 0 \/ v.begin <= v.end
      /\ v = [begin |-> v.begin, end |-> v.end]
  BY DEF Interval
<1>2. v.begin # 0 \/ v.end # 0
  BY <1>1 DEF Unbounded
<1>3. Size(v) = (IF v.end = 0 THEN MaxId ELSE v.end) - v.begin + 1
  BY DEF Size, HasDefinedEnd
<1>4. Size(v) # 0
  BY <1>1, <1>2, <1>3
<1>5. CASE Size(v) = 1
  <2>1. v.begin = IF v.end = 0 THEN MaxId ELSE v.end
    BY <1>1, <1>3, <1>5
  <2>2. ToImapSequence(v) = <<v.begin>>
    BY <1>5 DEF ToImapSequence
  <2>3. FromImapSequence(<<v.begin>>) = [begin |-> v.begin, end |-> v.begin]
    BY DEF FromImapSequence
  <2>4. Numbers([begin |-> v.begin, end |-> v.begin]) = Numbers(v)
    BY <1>1, <1>2, <2>1 DEF Numbers, HasDefinedEnd, Id
  <2> QED BY <2>2, <2>3, <2>4
<1>6. CASE Size(v) # 1
  <2>1. ToImapSequence(v) = <<v.begin, v.end>>
    BY <1>4, <1>6 DEF ToImapSequence
  <2>2. FromImapSequence(<<v.begin, v.end>>) = v
    BY <1>1 DEF FromImapSequence
  <2> QED BY <2>1, <2>2
<1> QED BY <1>5, <1>6

(* The interval without bounds is written as an empty text.                *)
LEMMA UnboundedIsUnwritten ==
  ASSUME NEW v, v = Unbounded
  PROVE  ToImapSequence(v) = <<>>
<1>1. ~HasDefinedEnd(v)
  BY DEF HasDefinedEnd, Unbounded
<1>2. Size(v) = 0
  BY <1>1 DEF Size
<1> QED BY <1>2 DEF ToImapSequence

(* At every step of add() and optimize() the sequence set of a command     *)
(* stands for the numbers of the intervals it was made from, all but the   *)
(* one without bounds, of which it says nothing.                           *)
THEOREM RoundTripIsExact == SetSpec => []RoundTrip
<1>1. SetInv => RoundTrip
  <2> SUFFICES ASSUME intervals \in Seq(Interval)
               PROVE  RoundTrip
    BY DEF SetInv, ImapSetTypeOK
  <2> DEFINE written == Range(intervals) \ {Unbounded}
  <2>1. written \subseteq Interval
    BY DEF Range
  <2>2. Range(ToImapSequenceSet(intervals)) = {ToImapSequence(v) : v \in Range(intervals)}
    BY DEF Range, ToImapSequenceSet
  <2>3. Range(ToImapSequenceSet(intervals)) \ {<<>>} = {ToImapSequence(v) : v \in written}
    BY <2>1, <2>2, SequenceIsReadBack, UnboundedIsUnwritten
  <2>4. FromImapSequenceSet(ToImapSequenceSet(intervals))
          = {FromImapSequence(ToImapSequence(v)) : v \in written}
    BY <2>3 DEF FromImapSequenceSet
  <2>5. \A v \in written : Numbers(FromImapSequence(ToImapSequence(v))) = Numbers(v)
    BY <2>1, SequenceIsReadBack
  <2> QED BY <2>4, <2>5 DEF RoundTrip
<1> QED BY InitInv, StepInv, <1>1, PTL DEF SetSpec
=============================================================================
