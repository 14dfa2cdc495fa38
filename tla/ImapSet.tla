------------------------------ MODULE ImapSet ------------------------------
(***************************************************************************)
(* ImapInterval and ImapSet (src/src/imapset.cpp): a set of message        *)
(* numbers kept as a list of intervals, a begin or an end of 0 standing    *)
(* for an undefined one.  add() sorts the values it is given and appends   *)
(* their runs to the list, optimize() sorts the list and merges neighbours *)
(* in place.  An action is one turn of the loop of either.                 *)
(*                                                                         *)
(* The variable meant is not in the code: it is the set of numbers that    *)
(* the calls so far have asked for.                                        *)
(***************************************************************************)
EXTENDS Integers, SequencesExt, Functions

CONSTANTS MaxId,          (* the largest value of ImapSet::Id              *)
          MaxIntervals    (* bound: the length of the list                 *)

ASSUME ImapSetAssumption == MaxId \in Nat /\ MaxIntervals \in Nat

VARIABLES intervals,      (* d->intervals                                  *)
          vals, next,     (* add(): the sorted values, and next *)
          it,             (* optimize()'s iterator, 0 outside of it        *)
          meant

setVars == <<intervals, vals, next, it, meant>>

-----------------------------------------------------------------------------
Id == 1..MaxId

(* The intervals that callers build: either bound may be left undefined,   *)
(* and the assertions of setBegin() and setEnd() ask for begin <= end.     *)
Interval ==
  {v \in [begin : 0..MaxId, end : 0..MaxId] : v.end = 0 \/ v.begin <= v.end}

(* What ImapInterval() makes, "an interval that covers all positive        *)
(* numbers" (imapset.h:46).                                                *)
Unbounded == [begin |-> 0, end |-> 0]

HasDefinedEnd(v) == v.end # 0
Size(v) ==
  CASE v = Unbounded -> 0
    [] v # Unbounded /\ ~HasDefinedEnd(v) -> MaxId - v.begin + 1
    [] HasDefinedEnd(v) -> v.end - v.begin + 1

Numbers(v) == {n \in Id : n >= v.begin /\ (HasDefinedEnd(v) => n <= v.end)}
Covered(s) == UNION {Numbers(s[k]) : k \in DOMAIN s}

ImapSetTypeOK ==
  /\ intervals \in Seq(Interval)
  /\ vals \in Seq(Id)
  /\ next \in Nat
  /\ it \in Nat
  /\ meant \in SUBSET Id

SetInit == intervals = <<>> /\ vals = <<>> /\ next = 0 /\ it = 0 /\ meant = {}

Idle == next = 0 /\ it = 0

(* What std::sort may make of a list, where equal elements may change      *)
(* places.                                                                 *)
Rearranged(s) == {[k \in DOMAIN s |-> s[p[k]]] : p \in Bijection(DOMAIN s, DOMAIN s)}

-----------------------------------------------------------------------------
(* add(QList): the sorted values are cut into runs of successors.          *)
StartAdd(values) ==
  /\ Idle
  /\ Len(intervals) + Len(values) <= MaxIntervals
  /\ vals' \in Rearranged(values)
  /\ \A k \in 1..Len(values) - 1 : vals'[k] <= vals'[k + 1]
  /\ next' = 1
  /\ meant' = meant \cup ToSet(values)
  /\ UNCHANGED <<intervals, it>>

StartsRun == next > 1 => vals[next] # vals[next - 1] + 1

AppendRun ==
  /\ next \in DOMAIN vals /\ StartsRun
  /\ intervals' = Append(intervals, [begin |-> vals[next], end |-> vals[next]])
  /\ next' = next + 1
  /\ UNCHANGED <<vals, it, meant>>

ExtendRun ==
  /\ next \in DOMAIN vals /\ ~StartsRun
  /\ intervals' = [intervals EXCEPT ![Len(intervals)].end = vals[next]]
  /\ next' = next + 1
  /\ UNCHANGED <<vals, it, meant>>

EndAdd ==
  /\ next > Len(vals)
  /\ vals' = <<>> /\ next' = 0
  /\ UNCHANGED <<intervals, it, meant>>

AddValues == AppendRun \/ ExtendRun \/ EndAdd

AddInterval(v) ==
  /\ Idle
  /\ Len(intervals) < MaxIntervals
  /\ intervals' = Append(intervals, v)
  /\ meant' = meant \cup Numbers(v)
  /\ UNCHANGED <<vals, next, it>>

-----------------------------------------------------------------------------
(* optimize().                                                             *)
SortedByBegin(s) == \A j, k \in DOMAIN s : j < k => s[j].begin <= s[k].begin

StartOptimize ==
  /\ Idle /\ Len(intervals) >= 2
  /\ intervals' \in Rearranged(intervals)
  /\ SortedByBegin(intervals')
  /\ it' = 1
  /\ UNCHANGED <<vals, next, meant>>

(* Mutant: the merged interval always ends where the second one does.      *)
MergedEndingLast(v, w) == [begin |-> v.begin, end |-> w.end]

Merged(v, w) ==
  [begin |-> v.begin,
   end |-> IF HasDefinedEnd(w) /\ v.end > w.end THEN v.end ELSE w.end]

(* Mutant: intervals that touch are not merged.                            *)
MergeableIfOverlapping(v, w) == HasDefinedEnd(v) /\ v.end >= w.begin

Mergeable(v, w) == HasDefinedEnd(v) /\ v.end + 1 >= w.begin

MergeNext ==
  /\ it > 0 /\ it < Len(intervals)
  /\ Mergeable(intervals[it], intervals[it + 1])
  /\ intervals' = RemoveAt([intervals EXCEPT ![it + 1] = Merged(intervals[it], @)], it)
  /\ UNCHANGED <<vals, next, it, meant>>

(* Mutant: the neighbour is kept.                                          *)
EatRestButNeighbour ==
  /\ it > 0 /\ it < Len(intervals)
  /\ ~HasDefinedEnd(intervals[it])
  /\ intervals' = SubSeq(intervals, 1, it + 1)
  /\ UNCHANGED <<vals, next, it, meant>>

EatRest ==
  /\ it > 0 /\ it < Len(intervals)
  /\ ~HasDefinedEnd(intervals[it])
  /\ intervals' = SubSeq(intervals, 1, it)
  /\ UNCHANGED <<vals, next, it, meant>>

Advance ==
  /\ it > 0 /\ it < Len(intervals)
  /\ HasDefinedEnd(intervals[it]) /\ ~Mergeable(intervals[it], intervals[it + 1])
  /\ it' = it + 1
  /\ UNCHANGED <<intervals, vals, next, meant>>

EndOptimize ==
  /\ it > 0 /\ it = Len(intervals)
  /\ it' = 0
  /\ UNCHANGED <<intervals, vals, next, meant>>

Optimize == StartOptimize \/ MergeNext \/ EatRest \/ Advance \/ EndOptimize

-----------------------------------------------------------------------------
(* toImapSequenceSet() and fromImapSequenceSet(), a sequence being the     *)
(* numbers between its colons, the second 0 for "*".  An empty text is     *)
(* skipped; the order of what is read back is left out.                    *)
ToImapSequence(v) ==
  CASE Size(v) = 0 -> <<>>
    [] Size(v) = 1 -> <<v.begin>>
    [] OTHER -> <<v.begin, v.end>>

(* Mutant: a single number is read back as the begin of an open interval.  *)
FromAsOpen(t) == [begin |-> t[1], end |-> IF Len(t) = 1 THEN 0 ELSE t[2]]

FromImapSequence(t) == [begin |-> t[1], end |-> IF Len(t) = 1 THEN t[1] ELSE t[2]]

ToImapSequenceSet(s) == [k \in DOMAIN s |-> ToImapSequence(s[k])]
FromImapSequenceSet(texts) == {FromImapSequence(t) : t \in Range(texts) \ {<<>>}}

-----------------------------------------------------------------------------
SetNext ==
  \/ \E n \in 1..MaxIntervals : \E values \in [1..n -> Id] : StartAdd(values)
  \/ \E v \in Interval : AddInterval(v)
  \/ AddValues
  \/ Optimize

SetSpec == SetInit /\ [][SetNext]_setVars
FairSetSpec == SetSpec /\ WF_setVars(AddValues \/ Optimize)

(* The list stands for the numbers that were added, no more and no less,   *)
(* through every step of optimize().                                       *)
MeaningKept == next = 0 => Covered(intervals) = meant

(* Left of the iterator the intervals are closed, in order, disjoint and   *)
(* do not touch; after the last step all of them are, but for an open last *)
(* one.                                                                    *)
Compact(s, n) == \A k \in 1..n - 1 : HasDefinedEnd(s[k]) /\ s[k].end + 1 < s[k + 1].begin

OptimizedIsCompact == [][EndOptimize => Compact(intervals', Len(intervals'))]_setVars

(* Every interval that has a bound stands for the same numbers when its    *)
(* text is read back, and nothing is read back besides.  The one without   *)
(* bounds, all numbers by imapset.h:46 and by what optimize() makes of it, *)
(* has no text: its size() is 0 (imapset.cpp:51) and toImapSequence()      *)
(* leaves it empty (:99).                                                  *)
RoundTrip ==
  UNION {Numbers(v) : v \in FromImapSequenceSet(ToImapSequenceSet(intervals))}
    = UNION {Numbers(v) : v \in Range(intervals) \ {Unbounded}}

(* Every call of add() and optimize() comes to an end.                     *)
Terminates == ~Idle ~> Idle
=============================================================================
