----------------------------- MODULE QueueProofs -----------------------------
(***************************************************************************)
(* What the session promises about its jobs, proved: no job is forgotten,  *)
(* the loss of the connection is told, and the whole is the abstract job   *)
(* queue of JobQueue.                                                      *)
(*                                                                         *)
(* None of the three holds of every order in which the other thread's      *)
(* signals may arrive: a connection that fails before its greeting leaves  *)
(* a current job that was never started, and a greeting that is handled    *)
(* after the failure starts another one over it.  GreetingIsTimely names   *)
(* the two orders the session relies on; the theorems hold of every        *)
(* behaviour that keeps to them.                                           *)
(***************************************************************************)
EXTENDS ConnectionProofs

(* The line of jobs, as an invariant: beside NoJobForgotten, a current job *)
(* that does not run is one of a connection that is not greeted, and a     *)
(* greeted connection on which nothing runs has an empty queue, since      *)
(* nothing but the end of a job starts the next one.                       *)
IdleIsEmpty ==
  isSocketConnected /\ ~jobRunning /\ state # "Disconnected" => currentJob = NoJob /\ queue = <<>>

LineInv == NoJobForgotten /\ IdleIsEmpty

-----------------------------------------------------------------------------
(* doStartNext() moves along the queue: the first n jobs of q have ended,  *)
(* the next one, if there is one, has begun, and the rest still waits.     *)
MovesTo(q, jobs, n) ==
  /\ lineBar' = SubSeq(q, n + 1, Len(q))
  /\ n = Len(q) => jobRunning' = FALSE /\ queue' = <<>> /\ currentJob' = NoJob
  /\ \A i \in 1..n : job'[q[i]].phase = "done"
  /\ n < Len(q) => /\ jobRunning' = TRUE /\ currentJob' = q[n + 1]
                   /\ job'[q[n + 1]].phase = "started"
  /\ \A k \in Jobs : (\A i \in 1..Len(q) : i <= n + 1 => k # q[i]) => job'[k] = jobs[k]

(* startNext() refuses some jobs at the head of the queue and makes the    *)
(* next one the current job.                                               *)
LEMMA StartNextMoves ==
  ASSUME tagCount \in CommandTag, upcomingMailBox \in Jobs \cup {NoJob},
         NEW q \in Seq(Jobs), NEW jobs \in [Jobs -> JobRecord], NEW st,
         NEW pt \in [TrackedVerb -> Tag], NEW t \in SoundTimer,
         IsInjective(q), StartNext(q, NoJob, jobs, st, pt, t)
  PROVE  \E n \in 0..Len(q) : MovesTo(q, jobs, n)
<1> DEFINE Refusing(n) == {q[i] : i \in 1..n}
           Jobs2(n) == [j \in Jobs |-> IF j \in Refusing(n) THEN Ended(jobs[j], TRUE) ELSE jobs[j]]
           Timer2(n) == IF n = 0 THEN t ELSE StopTimer(RestartTimer(t))
           NoneLeft(n) == /\ n = Len(q)
                          /\ queue' = <<>>
                          /\ jobRunning' = FALSE
                          /\ currentJob' = NoJob
                          /\ job' = Jobs2(n)
           Starts(n) == /\ n < Len(q)
                        /\ queue' = SubSeq(q, n + 2, Len(q))
                        /\ jobRunning' = TRUE
                        /\ currentJob' = q[n + 1]
                        /\ DoStart(q[n + 1], Jobs2(n), pt, RestartTimer(Timer2(n)))
<1>1. PICK n \in 0..Len(q) : NoneLeft(n) \/ Starts(n)
  BY DEF StartNext
<1>2. Len(q) \in Nat /\ DOMAIN q = 1..Len(q) /\ \A i \in 1..Len(q) : q[i] \in Jobs
  BY LenProperties, ElementOfSeq
<1>3. Jobs2(n) \in [Jobs -> JobRecord]
  BY JobOperations
<1>3a. \A i \in 1..n : Jobs2(n)[q[i]].phase = "done"
  <2> SUFFICES ASSUME NEW i \in 1..n PROVE Jobs2(n)[q[i]].phase = "done"
    OBVIOUS
  <2>1. q[i] \in Jobs /\ q[i] \in Refusing(n)
    BY <1>2
  <2>2. Jobs2(n)[q[i]] = Ended(jobs[q[i]], TRUE)
    BY <2>1
  <2> HIDE DEF Jobs2, Refusing
  <2>3. Ended(jobs[q[i]], TRUE).phase = "done"
    BY <2>1, JobOperations
  <2>q. QED
    BY <2>2, <2>3
<1>3b. \A k \in Jobs : (\A i \in 1..n : k # q[i]) => Jobs2(n)[k] = jobs[k]
  OBVIOUS
<1>4. Timer2(n) \in SoundTimer
  BY TimerOperations, 0 \in Int
<1> HIDE DEF Jobs2, Timer2
<1>5. CASE NoneLeft(n)
  <2>1. lineBar' = <<>>
    BY <1>5, ConcatEmptySeq, EmptySeq DEF lineBar
  <2>2. SubSeq(q, n + 1, Len(q)) = <<>>
    BY <1>2, <1>5, SubSeqEmpty
  <2>3. \A k \in Jobs : (\A i \in 1..Len(q) : i <= n + 1 => k # q[i]) => job'[k] = jobs[k]
    <3> SUFFICES ASSUME NEW k \in Jobs, \A i \in 1..Len(q) : i <= n + 1 => k # q[i]
                 PROVE  job'[k] = jobs[k]
      OBVIOUS
    <3>1. \A i \in 1..n : k # q[i]
      BY <1>2
    <3>q. QED
      BY <1>3b, <1>5, <3>1
  <2>4. ~(n < Len(q)) /\ \A i \in 1..n : job'[q[i]].phase = "done"
    BY <1>2, <1>3a, <1>5
  <2>q. QED
    BY <1>5, <2>1, <2>2, <2>3, <2>4 DEF MovesTo
<1>6. CASE Starts(n)
  <2> DEFINE next == q[n + 1]
             rest == SubSeq(q, n + 2, Len(q))
  <2>0. n < Len(q) /\ n # Len(q) /\ n + 1 \in 1..Len(q) /\ Len(q) \in (n + 1)..Len(q)
    <3>1. n < Len(q)
      BY <1>6
    <3>2. Len(q) \in Nat
      BY <1>2
    <3>q. QED
      BY <3>1, <3>2
  <2>1. next \in Jobs /\ next # NoJob /\ n + 1 \in 1..Len(q)
    BY <1>2, <2>0, LinkAssumption
  <2>2. /\ job'[next].phase = "started"
        /\ \A k \in Jobs \ {next} : job'[k] = Jobs2(n)[k]
    <3>1. RestartTimer(Timer2(n)) \in SoundTimer
      BY <1>4, TimerOperations, 0 \in Int
    <3>q. QED
      BY <1>3, <1>6, <2>1, <3>1, DoStartType
  <2>3. lineBar' = SubSeq(q, n + 1, Len(q))
    <3>1. SubSeq(q, n + 1, Len(q)) = <<next>> \o SubSeq(q, (n + 1) + 1, Len(q))
      BY <2>0, SubSeqRecursiveFirst
    <3>2. (n + 1) + 1 = n + 2
      BY <1>2
    <3>q. QED
      BY <1>6, <2>1, <3>1, <3>2 DEF lineBar
  <2>4. \A i \in 1..n : job'[q[i]].phase = "done"
    <3> SUFFICES ASSUME NEW i \in 1..n PROVE job'[q[i]].phase = "done"
      OBVIOUS
    <3>1. i \in DOMAIN q /\ n + 1 \in DOMAIN q /\ i # n + 1
      BY <1>2, <2>1
    <3>2. q[i] \in Jobs \ {next}
      BY <1>2, <3>1 DEF IsInjective
    <3>q. QED
      BY <1>3a, <2>2, <3>2
  <2>5. \A k \in Jobs : (\A i \in 1..Len(q) : i <= n + 1 => k # q[i]) => job'[k] = jobs[k]
    <3> SUFFICES ASSUME NEW k \in Jobs, \A i \in 1..Len(q) : i <= n + 1 => k # q[i]
                 PROVE  job'[k] = jobs[k]
      OBVIOUS
    <3>1. k # next
      BY <1>2, <2>1
    <3>2. \A i \in 1..n : k # q[i]
      BY <1>2
    <3>q. QED
      BY <1>3b, <2>2, <3>1, <3>2
  <2>q. QED
    BY <1>6, <2>0, <2>2, <2>3, <2>4, <2>5 DEF MovesTo
<1>q. QED
  BY <1>1, <1>5, <1>6

-----------------------------------------------------------------------------
(* A job put in front of a sequence.                                       *)
LEMMA InFront ==
  ASSUME NEW j \in Jobs, NEW q \in Seq(Jobs)
  PROVE  /\ <<j>> \o q \in Seq(Jobs)
         /\ Len(<<j>> \o q) = Len(q) + 1
         /\ (<<j>> \o q)[1] = j
         /\ \A i \in 1..Len(q) : (<<j>> \o q)[i + 1] = q[i]
         /\ ToSet(<<j>> \o q) = ToSet(q) \cup {j}
         /\ IsInjective(q) /\ j \notin ToSet(q) => IsInjective(<<j>> \o q)
<1> DEFINE l == <<j>> \o q
<1>1. <<j>> \in Seq(Jobs) /\ Len(<<j>>) = 1 /\ <<j>>[1] = j
  OBVIOUS
<1>2. Len(q) \in Nat /\ DOMAIN q = 1..Len(q)
  BY LenProperties
<1>3. /\ l \in Seq(Jobs)
      /\ Len(l) = Len(<<j>>) + Len(q)
      /\ \A i \in 1..(Len(<<j>>) + Len(q)) :
           l[i] = IF i <= Len(<<j>>) THEN <<j>>[i] ELSE q[i - Len(<<j>>)]
  BY <1>1, ConcatProperties
<1>4. Len(l) = Len(q) + 1
  BY <1>1, <1>2, <1>3
<1>5. l[1] = j
  <2>1. 1 \in 1..(Len(<<j>>) + Len(q)) /\ 1 <= Len(<<j>>)
    BY <1>1, <1>2
  <2>q. QED
    BY <1>1, <1>3, <2>1
<1>6. \A i \in 1..Len(q) : l[i + 1] = q[i]
  <2> SUFFICES ASSUME NEW i \in 1..Len(q) PROVE l[i + 1] = q[i]
    OBVIOUS
  <2>1. i + 1 \in 1..(Len(<<j>>) + Len(q)) /\ ~(i + 1 <= Len(<<j>>)) /\ (i + 1) - Len(<<j>>) = i
    BY <1>1, <1>2
  <2>q. QED
    BY <1>3, <2>1
<1>7. DOMAIN l = 1..(Len(q) + 1)
  BY <1>3, <1>4, LenProperties
<1> HIDE DEF l
<1>8. \A i \in DOMAIN l : i = 1 \/ (i - 1 \in DOMAIN q /\ l[i] = q[i - 1])
  <2> SUFFICES ASSUME NEW i \in 1..(Len(q) + 1), i # 1
               PROVE  i - 1 \in 1..Len(q) /\ l[i] = q[i - 1]
    BY <1>2, <1>7
  <2>1. i - 1 \in 1..Len(q) /\ (i - 1) + 1 = i
    BY <1>2
  <2>q. QED
    BY <1>6, <2>1
<1>9. ToSet(l) = ToSet(q) \cup {j}
  <2>1. ToSet(l) \subseteq ToSet(q) \cup {j}
    BY <1>5, <1>8 DEF ToSet
  <2>2. j \in ToSet(l)
    <3>1. 1 \in DOMAIN l
      BY <1>2, <1>7
    <3>q. QED
      BY <1>5, <3>1 DEF ToSet
  <2>3. \A i \in DOMAIN q : q[i] \in ToSet(l)
    <3> SUFFICES ASSUME NEW i \in DOMAIN q PROVE q[i] \in ToSet(l)
      OBVIOUS
    <3>1. i + 1 \in DOMAIN l /\ l[i + 1] = q[i]
      BY <1>2, <1>6, <1>7
    <3>q. QED
      BY <3>1 DEF ToSet
  <2>q. QED
    BY <2>1, <2>2, <2>3 DEF ToSet
<1>10. ASSUME IsInjective(q), j \notin ToSet(q), NEW a \in DOMAIN l, NEW b \in DOMAIN l, l[a] = l[b]
       PROVE  a = b
  <2>1. CASE a = 1 \/ b = 1
    BY <1>5, <1>8, <1>10, <2>1 DEF ToSet
  <2>2. CASE a # 1 /\ b # 1
    <3>1. a - 1 = b - 1
      BY <1>8, <1>10, <2>2 DEF IsInjective
    <3>q. QED
      BY <1>2, <1>7, <3>1
  <2>q. QED
    BY <2>1, <2>2
<1>q. QED
  BY <1>3, <1>4, <1>5, <1>6, <1>9, <1>10 DEF IsInjective, l

(* A suffix of such a sequence is one of the sequence itself.              *)
LEMMA InFrontSuffix ==
  ASSUME NEW j \in Jobs, NEW q \in Seq(Jobs), NEW n \in 0..Len(q)
  PROVE  SubSeq(<<j>> \o q, n + 2, Len(<<j>> \o q)) = SubSeq(q, n + 1, Len(q))
<1> DEFINE l == <<j>> \o q
           sl == SubSeq(l, n + 2, Len(l))
           sq == SubSeq(q, n + 1, Len(q))
<1>1. /\ l \in Seq(Jobs)
      /\ Len(l) = Len(q) + 1
      /\ \A i \in 1..Len(q) : l[i + 1] = q[i]
  BY InFront
<1>2. Len(q) \in Nat
  BY LenProperties
<1> HIDE DEF l
<1>3. n + 2 \in 1..(Len(l) + 1) /\ n + 1 \in 1..(Len(q) + 1)
  BY <1>1, <1>2
<1>4. /\ sl \in Seq(Jobs)
      /\ Len(sl) = Len(l) - (n + 2) + 1
      /\ \A i \in 1..(Len(l) - (n + 2) + 1) : sl[i] = l[(n + 2) + i - 1]
  BY <1>1, <1>3, Suffix
<1>5. /\ sq \in Seq(Jobs)
      /\ Len(sq) = Len(q) - (n + 1) + 1
      /\ \A i \in 1..(Len(q) - (n + 1) + 1) : sq[i] = q[(n + 1) + i - 1]
  BY <1>3, Suffix
<1> HIDE DEF sl, sq
<1>6. Len(sl) = Len(q) - n /\ Len(sq) = Len(q) - n
  BY <1>1, <1>2, <1>4, <1>5
<1>7. ASSUME NEW i \in 1..Len(sl)
      PROVE  sl[i] = sq[i]
  <2>1. /\ i \in 1..(Len(l) - (n + 2) + 1) /\ i \in 1..(Len(q) - (n + 1) + 1)
        /\ (n + 2) + i - 1 = (n + i) + 1 /\ (n + 1) + i - 1 = n + i /\ n + i \in 1..Len(q)
    BY <1>1, <1>2, <1>6
  <2>q. QED
    BY <1>1, <1>4, <1>5, <2>1
<1>8. sl = sq
  BY <1>4, <1>5, <1>6, <1>7, SeqEqual
<1>q. QED
  BY <1>8 DEF sl, sq, l

(* And so is what is left when one of its elements is taken out.           *)
LEMMA InFrontRemoved ==
  ASSUME NEW j \in Jobs, NEW q \in Seq(Jobs)
  PROVE  /\ RemoveAt(<<j>> \o q, 1) = q
         /\ \A i \in 1..Len(q) : RemoveAt(<<j>> \o q, i + 1) = <<j>> \o RemoveAt(q, i)
<1> DEFINE l == <<j>> \o q
<1>1. /\ l \in Seq(Jobs)
      /\ Len(l) = Len(q) + 1
      /\ l[1] = j
  BY InFront
<1>2. Len(q) \in Nat /\ <<j>> \in Seq(Jobs) /\ Len(<<j>>) = 1
  BY LenProperties
<1> HIDE DEF l
<1>3. RemoveAt(l, 1) = q
  <2>1. SubSeq(l, 2, Len(l)) = SubSeq(q, 1, Len(q))
    <3>1. 0 \in 0..Len(q) /\ 0 + 2 = 2 /\ 0 + 1 = 1
      BY <1>2
    <3>2. SubSeq(l, 0 + 2, Len(l)) = SubSeq(q, 0 + 1, Len(q))
      BY <3>1, InFrontSuffix DEF l
    <3>q. QED
      BY <3>1, <3>2
  <2>2. SubSeq(q, 1, Len(q)) = q
    BY SubSeqFull
  <2>3. SubSeq(l, 1, 0) = <<>> /\ 1 - 1 = 0 /\ 1 + 1 = 2
    BY SubSeqEmpty
  <2>q. QED
    BY <2>1, <2>2, <2>3, ConcatEmptySeq DEF RemoveAt
<1>4. ASSUME NEW i \in 1..Len(q)
      PROVE  RemoveAt(l, i + 1) = <<j>> \o RemoveAt(q, i)
  <2> DEFINE front == SubSeq(q, 1, i - 1)
             back == SubSeq(q, i + 1, Len(q))
  <2>1. SubSeq(l, i + 2, Len(l)) = back
    <3>1. i \in 0..Len(q)
      BY <1>2
    <3>q. QED
      BY <3>1, InFrontSuffix DEF l
  <2>2. SubSeq(l, 1, i) = <<j>> \o SubSeq(l, 2, i)
    <3>1. 1 \in 1..Len(l) /\ i \in 1..Len(l) /\ 1 + 1 = 2
      BY <1>1, <1>2
    <3>2. SubSeq(l, 1, i) = <<l[1]>> \o SubSeq(l, 1 + 1, i)
      BY <1>1, <3>1, SubSeqRecursiveFirst
    <3>q. QED
      BY <1>1, <3>1, <3>2
  <2>3. SubSeq(l, 2, i) = front
    <3>1. CASE i = 1
      <4>1. SubSeq(l, 2, 1) = <<>> /\ SubSeq(q, 1, 0) = <<>> /\ 1 - 1 = 0
        BY SubSeqEmpty
      <4>q. QED
        BY <3>1, <4>1
    <3>2. CASE i # 1
      <4>1. /\ 2 \in (Len(<<j>>) + 1)..(Len(<<j>>) + Len(q))
            /\ i \in (Len(<<j>>) + 1)..(Len(<<j>>) + Len(q))
            /\ 2 - Len(<<j>>) = 1 /\ i - Len(<<j>>) = i - 1
        BY <1>2, <3>2
      <4>2. SubSeq(<<j>> \o q, 2, i) = SubSeq(q, 2 - Len(<<j>>), i - Len(<<j>>))
        BY <1>2, <4>1, SubSeqOfConcat2
      <4>q. QED
        BY <4>1, <4>2 DEF l
    <3>q. QED
      BY <3>1, <3>2
  <2>4. front \in Seq(Jobs) /\ back \in Seq(Jobs)
    <3>1. \A m \in 1..Len(q) : q[m] \in Jobs
      BY ElementOfSeq
    <3>2. /\ \A m \in 1..(i - 1) : q[m] \in Jobs
          /\ \A m \in (i + 1)..Len(q) : q[m] \in Jobs
      BY <1>2, <3>1
    <3>3. 1 \in Int /\ i - 1 \in Int /\ i + 1 \in Int /\ Len(q) \in Int
      BY <1>2
    <3>q. QED
      BY <3>2, <3>3, SubSeqProperties
  <2> HIDE DEF front, back
  <2>5. RemoveAt(l, i + 1) = (<<j>> \o front) \o back
    <3>1. (i + 1) - 1 = i /\ (i + 1) + 1 = i + 2
      BY <1>2
    <3>q. QED
      BY <2>1, <2>2, <2>3, <3>1 DEF RemoveAt
  <2>6. (<<j>> \o front) \o back = <<j>> \o (front \o back)
    BY <1>2, <2>4, ConcatAssociative
  <2>q. QED
    BY <2>5, <2>6 DEF RemoveAt, front, back
<1>q. QED
  BY <1>3, <1>4 DEF l

(* The line: the current job, and the queue behind it.                     *)
LEMMA LineFacts ==
  ASSUME SessionInv
  PROVE  /\ lineBar \in Seq(Jobs)
         /\ IsInjective(lineBar)
         /\ ToSet(lineBar) = Waiting \cup ({currentJob} \ {NoJob})
         /\ \A k \in ToSet(lineBar) : k \in Jobs /\ Pending(k)
         /\ currentJob = NoJob => lineBar = queue
         /\ currentJob # NoJob => lineBar = <<currentJob>> \o queue
<1> USE DEF SessionInv
<1>1. \A k \in Waiting : k \in Jobs /\ Pending(k)
  BY LenProperties, ElementOfSeq DEF RunTypeOK, QueueSound, Waiting, ToSet, Pending
<1>2. CASE currentJob = NoJob
  <2>1. lineBar = queue
    BY <1>2, ConcatEmptySeq DEF lineBar, RunTypeOK
  <2>q. QED
    BY <1>1, <1>2, <2>1 DEF RunTypeOK, QueueSound, Waiting
<1>3. CASE currentJob # NoJob
  <2>1. lineBar = <<currentJob>> \o queue
    BY <1>3 DEF lineBar
  <2>2. currentJob \in Jobs /\ Pending(currentJob)
    BY <1>3 DEF RunTypeOK, QueueSound
  <2>q. QED
    BY <1>1, <1>3, <2>1, <2>2, InFront DEF RunTypeOK, QueueSound, Waiting
<1>q. QED
  BY <1>2, <1>3

(* The line a step moves along: a new job may have joined it first.        *)
Lines == {lineBar} \cup {Append(lineBar, j) : j \in {k \in Jobs : job[k].phase = "new"}}

(* The waiting line is made of jobs that have not ended, with or without   *)
(* the current one at its head.                                            *)
LEMMA LinesFacts ==
  ASSUME SessionInv, NEW l \in Lines
  PROVE  /\ l \in Seq(Jobs)
         /\ IsInjective(l)
         /\ ToSet(lineBar) \subseteq ToSet(l)
         /\ \A k \in ToSet(l) : k \in Jobs /\ job[k].phase \in {"new", "queued", "started"}
         /\ lineBar # <<>> => l # <<>> /\ l[1] = lineBar[1]
<1>1. CASE l = lineBar
  BY <1>1, LineFacts DEF Pending
<1>2. CASE l # lineBar
  <2>1. PICK j \in Jobs : job[j].phase = "new" /\ l = Append(lineBar, j)
    BY <1>2 DEF Lines
  <2>2. j \in Jobs \ ToSet(lineBar)
    BY <2>1, LineFacts DEF Pending
  <2>3. /\ l \in Seq(Jobs)
        /\ IsInjective(l)
        /\ ToSet(l) = ToSet(lineBar) \cup {j}
    BY <2>1, <2>2, LineFacts, Appended
  <2>4. lineBar # <<>> => l # <<>> /\ l[1] = lineBar[1]
    <3>1. lineBar # <<>> => 1 \in 1..Len(lineBar)
      BY LineFacts, EmptySeq
    <3>q. QED
      BY <2>1, <3>1, LineFacts, AppendProperties
  <2>q. QED
    BY <2>1, <2>3, <2>4, LineFacts DEF Pending
<1>q. QED
  BY <1>1, <1>2

(* A job started from a slot joins the line in this way.                   *)
LEMMA SlotJoins ==
  ASSUME SessionInv, NEW late \in FromSlot
  PROVE  /\ lineBar \o late \in Lines
         /\ lineBar \o late = (IF currentJob = NoJob THEN <<>> ELSE <<currentJob>>) \o (queue \o late)
<1> USE DEF SessionInv
<1>1. late \in Seq(Jobs)
  <2>1. CASE late = <<>>
    BY <2>1, EmptySeq
  <2>2. CASE late # <<>>
    <3>1. PICK j \in Jobs : late = <<j>>
      BY <2>2, SessionAssumption DEF FromSlot
    <3>q. QED
      BY <3>1
  <2>q. QED
    BY <2>1, <2>2
<1>2. lineBar \o late \in Lines
  <2>1. CASE late = <<>>
    BY <2>1, LineFacts, ConcatEmptySeq DEF Lines
  <2>2. CASE late # <<>>
    <3>1. PICK j \in Jobs : job[j].phase = "new" /\ late = <<j>>
      BY <2>2, SessionAssumption DEF FromSlot
    <3>2. lineBar \o late = Append(lineBar, j)
      BY <3>1, LineFacts, AppendIsConcat
    <3>q. QED
      BY <3>1, <3>2 DEF Lines
  <2>q. QED
    BY <2>1, <2>2
<1> DEFINE front == IF currentJob = NoJob THEN <<>> ELSE <<currentJob>>
<1>3. front \in Seq(Jobs)
  BY EmptySeq DEF RunTypeOK
<1>4. queue \in Seq(Jobs) /\ lineBar = front \o queue
  BY DEF RunTypeOK, lineBar
<1> HIDE DEF front
<1>5. (front \o queue) \o late = front \o (queue \o late)
  BY <1>1, <1>3, <1>4, ConcatAssociative
<1>q. QED
  BY <1>2, <1>4, <1>5 DEF front

-----------------------------------------------------------------------------
(* The three things that can happen to the line.  It advances: its first n *)
(* jobs end, and no job outside it changes.                                *)
SamePhase(l) == \A k \in Jobs : (\A i \in DOMAIN l : k # l[i]) => job'[k].phase = job[k].phase

Advanced(l, n) ==
  /\ lineBar' = SubSeq(l, n + 1, Len(l))
  /\ \A i \in 1..n : job'[l[i]].phase = "done"
  /\ n = 0 /\ runningBar => runningBar'
  /\ SamePhase(l)

(* One of its jobs is deleted.                                             *)
Cancelled(i) ==
  /\ lineBar' = RemoveAt(lineBar, i)
  /\ job'[lineBar[i]].phase = "deleted"
  /\ \A k \in Jobs \ {lineBar[i]} : job'[k] = job[k]
  /\ currentJob' = IF currentJob = lineBar[i] THEN NoJob ELSE currentJob

(* The connection is lost: the first job gets a result, the others do not. *)
Lost(l) ==
  /\ currentJob' = NoJob /\ queue' = <<>>
  /\ l # <<>> => job'[l[1]].phase = "done"
  /\ \A i \in 2..Len(l) : job'[l[i]].phase = "deleted"
  /\ SamePhase(l)

LineMoves == \/ \E l \in Lines : \E n \in 0..Len(l) : Advanced(l, n)
             \/ \E i \in DOMAIN lineBar : Cancelled(i)
             \/ \E l \in Lines : Lost(l)

(* A step that changes no phase and not the line.                          *)
LEMMA SameLine ==
  ASSUME SessionInv, lineBar' = lineBar, runningBar => runningBar',
         \A k \in Jobs : job'[k].phase = job[k].phase
  PROVE  LineMoves
<1>1. lineBar \in Lines /\ lineBar = SubSeq(lineBar, 0 + 1, Len(lineBar))
  BY LineFacts, SubSeqFull DEF Lines
<1>2. 0 \in 0..Len(lineBar)
  BY LineFacts, LenProperties
<1>3. Advanced(lineBar, 0)
  BY <1>1 DEF Advanced, SamePhase
<1>q. QED
  BY <1>1, <1>2, <1>3 DEF LineMoves

(* Where the queue, the current job and the phases stay the line does not  *)
(* move.                                                                   *)
LEMMA SameRun ==
  ASSUME SessionInv, UNCHANGED <<currentJob, queue>>, \A k \in Jobs : job'[k].phase = job[k].phase
  PROVE  LineMoves
<1>1. lineBar' = lineBar
  BY DEF lineBar
<1>2. runningBar => runningBar'
  BY DEF runningBar, SessionInv, RunTypeOK
<1>q. QED
  BY <1>1, <1>2, SameLine

-----------------------------------------------------------------------------
(* doStartNext() with no current job moves the line.                       *)
LEMMA StartNextMovesLine ==
  ASSUME SessionInv, currentJob = NoJob, NEW l \in Lines,
         NEW jobs \in [Jobs -> JobRecord],
         \A k \in Jobs \ ToSet(l) : jobs[k] = job[k],
         NEW st, NEW t \in SoundTimer, StartNext(l, NoJob, jobs, st, pendingTag, t)
  PROVE  LineMoves /\ IdleIsEmpty'
<1>1. l \in Seq(Jobs) /\ IsInjective(l) /\ Len(l) \in Nat /\ DOMAIN l = 1..Len(l)
  BY LinesFacts, LenProperties
<1>2. PICK n \in 0..Len(l) : MovesTo(l, jobs, n)
  BY <1>1, StartNextMoves DEF SessionInv, RunTypeOK
<1>3. Advanced(l, n)
  <2>1. SamePhase(l)
    <3> SUFFICES ASSUME NEW k \in Jobs, \A i \in DOMAIN l : k # l[i]
                 PROVE  job'[k] = job[k]
      BY DEF SamePhase
    <3>1. k \in Jobs \ ToSet(l)
      BY DEF ToSet
    <3>q. QED
      BY <1>1, <1>2, <3>1 DEF MovesTo
  <2>2. ~runningBar
    BY DEF runningBar
  <2>q. QED
    BY <1>2, <2>1, <2>2 DEF Advanced, MovesTo
<1>4. IdleIsEmpty'
  <2>1. CASE n = Len(l)
    BY <1>2, <2>1 DEF MovesTo, IdleIsEmpty
  <2>2. CASE n < Len(l)
    BY <1>2, <2>2 DEF MovesTo, IdleIsEmpty
  <2>3. n = Len(l) \/ n < Len(l)
    <3>1. Len(l) \in Nat
      BY <1>1
    <3>q. QED
      BY <3>1
  <2>q. QED
    BY <2>1, <2>2, <2>3
<1>q. QED
  BY <1>3, <1>4 DEF LineMoves

(* The end of the current job moves it by that job and those that refuse   *)
(* to start after it.                                                      *)
LEMMA FinishMovesLine ==
  ASSUME SessionInv, NEW j \in Jobs, j = currentJob, NEW failed \in BOOLEAN, NEW st,
         NEW pt \in [TrackedVerb -> Tag], Finish(j, failed, st, pt)
  PROVE  LineMoves /\ IdleIsEmpty'
<1> USE DEF SessionInv
<1> DEFINE ended == [job EXCEPT ![j] = Ended(@, failed)]
<1>1. PICK late \in FromSlot :
        StartNext(queue \o late, NoJob, Enqueued(ended, late), st, pt,
                  StopTimer(AfterResult(j, RestartTimer(timer))))
  BY DEF Finish
<1> DEFINE q == queue \o late
           jobs == Enqueued(ended, late)
           t == StopTimer(AfterResult(j, RestartTimer(timer)))
           l == <<j>> \o q
<1>2. /\ q \in Seq(Jobs)
      /\ IsInjective(q)
      /\ ToSet(q) = ToSet(queue) \cup ToSet(late)
      /\ \A k \in ToSet(late) : k \in Jobs /\ job[k].phase = "new"
  BY WithSlots
<1>3. /\ ended \in [Jobs -> JobRecord]
      /\ ended[j].phase = "done"
      /\ \A k \in Jobs \ {j} : ended[k] = job[k]
  BY JobOperations DEF RunTypeOK
<1>4. /\ jobs \in [Jobs -> JobRecord]
      /\ \A k \in Jobs \ ToSet(late) : jobs[k] = ended[k]
  <2>1. \A k \in Jobs : /\ ended[k] \in JobRecord
                        /\ [ended[k] EXCEPT !.phase = "queued"] \in JobRecord
    BY <1>3, JobOperations DEF JobRecord, Phase
  <2>q. QED
    BY <1>2, <2>1 DEF Enqueued
<1>5. t \in SoundTimer
  <2>1. job[j].saved \in Int
    BY DEF RunTypeOK, JobRecord
  <2>q. QED
    BY <2>1, TimerOperations, 0 \in Int DEF AfterResult, RunTypeOK
<1>6. StartNext(q, NoJob, jobs, st, pt, t)
  BY <1>1
<1>7. l \in Lines
  BY SlotJoins, LinkAssumption
<1>8. j \notin ToSet(q)
  <2>1. Pending(j) /\ j \notin ToSet(queue)
    BY LinkAssumption DEF QueueSound, Waiting
  <2>q. QED
    BY <1>2, <2>1 DEF Pending
<1> HIDE DEF ended, q, jobs, t, l
<1>9. PICK n \in 0..Len(q) : MovesTo(q, jobs, n)
  BY <1>2, <1>4, <1>5, <1>6, StartNextMoves DEF RunTypeOK
<1>10. /\ l \in Seq(Jobs)
       /\ Len(l) = Len(q) + 1
       /\ l[1] = j
       /\ \A i \in 1..Len(q) : l[i + 1] = q[i]
       /\ ToSet(l) = ToSet(q) \cup {j}
  BY <1>2, InFront DEF l
<1>11. Len(q) \in Nat /\ DOMAIN q = 1..Len(q) /\ DOMAIN l = 1..(Len(q) + 1)
  BY <1>2, <1>10, LenProperties
<1>12. SubSeq(l, n + 2, Len(l)) = SubSeq(q, n + 1, Len(q))
  BY <1>2, <1>10, InFrontSuffix DEF l
<1>13. Advanced(l, n + 1)
  <2>1. \A i \in 1..(n + 1) : job'[l[i]].phase = "done"
    <3>1. job'[j].phase = "done"
      <4>1. \A i \in 1..Len(q) : j # q[i]
        BY <1>8, <1>11 DEF ToSet
      <4>2. j \notin ToSet(late)
        BY <1>2, <1>8
      <4>3. job'[j] = ended[j]
        BY <1>4, <1>9, <4>1, <4>2 DEF MovesTo
      <4>q. QED
        BY <1>3, <4>3
    <3>2. ASSUME NEW i \in 1..(n + 1), i # 1
          PROVE  job'[l[i]].phase = "done"
      <4>1. i - 1 \in 1..n /\ i - 1 \in 1..Len(q) /\ (i - 1) + 1 = i
        BY <1>11, <3>2
      <4>2. l[i] = q[i - 1]
        BY <1>10, <4>1
      <4>q. QED
        BY <1>9, <4>1, <4>2 DEF MovesTo
    <3>q. QED
      BY <1>10, <3>1, <3>2
  <2>2. SamePhase(l)
    <3> SUFFICES ASSUME NEW k \in Jobs, \A i \in DOMAIN l : k # l[i]
                 PROVE  job'[k] = job[k]
      BY DEF SamePhase
    <3>1. k # j /\ k \notin ToSet(q)
      BY <1>10 DEF ToSet
    <3>2. (\A i \in 1..Len(q) : k # q[i]) /\ k \notin ToSet(late)
      BY <1>2, <1>11, <3>1 DEF ToSet
    <3>q. QED
      BY <1>3, <1>4, <1>9, <3>1, <3>2 DEF MovesTo
  <2>3. lineBar' = SubSeq(l, (n + 1) + 1, Len(l))
    <3>1. (n + 1) + 1 = n + 2
      BY <1>11
    <3>q. QED
      BY <1>9, <1>12, <3>1 DEF MovesTo
  <2>4. n + 1 # 0
    BY <1>11
  <2>q. QED
    BY <2>1, <2>2, <2>3, <2>4 DEF Advanced
<1>14. IdleIsEmpty'
  <2>1. CASE n = Len(q)
    BY <1>9, <2>1 DEF MovesTo, IdleIsEmpty
  <2>2. CASE n < Len(q)
    BY <1>9, <2>2 DEF MovesTo, IdleIsEmpty
  <2>3. n = Len(q) \/ n < Len(q)
    <3>1. Len(q) \in Nat
      BY <1>11
    <3>q. QED
      BY <3>1
  <2>q. QED
    BY <2>1, <2>2, <2>3
<1>15. n + 1 \in 0..Len(l)
  BY <1>10, <1>11
<1>q. QED
  BY <1>7, <1>13, <1>14, <1>15 DEF LineMoves

(* clearJobQueue(), with the job a slot may have started.                  *)
LEMMA ClearJobQueueLoses ==
  ASSUME SessionInv, NEW late \in FromSlot, NEW t \in SoundTimer,
         ClearJobQueue(queue \o late, t)
  PROVE  Lost(lineBar \o late) /\ lineBar \o late \in Lines
<1> USE DEF SessionInv
<1> DEFINE q == queue \o late
           l == lineBar \o late
           victim == IF currentJob # NoJob THEN currentJob
                     ELSE IF q # <<>> THEN Head(q) ELSE NoJob
           kill == ToSet(q) \ {victim}
<1>1. /\ q \in Seq(Jobs) /\ IsInjective(q)
      /\ \A k \in ToSet(q) : k \in Jobs
  BY WithSlots
<1>2. /\ queue' = <<>>
      /\ currentJob' = NoJob
      /\ job' = [j \in Jobs |-> IF j = victim THEN Ended(job[j], Kind[j] # "logout")
                                ELSE IF j \in kill THEN [job[j] EXCEPT !.phase = "deleted"]
                                ELSE job[j]]
  BY DEF ClearJobQueue
<1>3. l \in Lines /\ l = (IF currentJob = NoJob THEN <<>> ELSE <<currentJob>>) \o q
  BY SlotJoins
<1>4. /\ l \in Seq(Jobs) /\ IsInjective(l) /\ Len(l) \in Nat /\ DOMAIN l = 1..Len(l)
      /\ \A i \in 1..Len(l) : l[i] \in Jobs
  BY <1>3, LinesFacts, LenProperties, ElementOfSeq
<1>5. /\ ToSet(l) = ToSet(q) \cup ({victim} \ {NoJob})
      /\ l # <<>> => victim = l[1]
      /\ l = <<>> => victim = NoJob
  <2>1. CASE currentJob # NoJob
    <3>1. l = <<currentJob>> \o q /\ victim = currentJob
      BY <1>3, <2>1
    <3>2. currentJob \in Jobs
      BY <2>1 DEF RunTypeOK
    <3> HIDE DEF l, q, victim
    <3>3. l[1] = currentJob /\ ToSet(l) = ToSet(q) \cup {currentJob} /\ Len(l) = Len(q) + 1
      BY <1>1, <3>1, <3>2, InFront
    <3>4. l # <<>>
      BY <1>1, <3>3, LenProperties, EmptySeq
    <3>q. QED
      BY <2>1, <3>1, <3>3, <3>4
  <2>2. CASE currentJob = NoJob
    <3>1. l = q
      BY <1>1, <1>3, <2>2, ConcatEmptySeq
    <3>2. CASE q = <<>>
      <4>1. victim = NoJob
        BY <2>2, <3>2
      <4> HIDE DEF l, q, victim
      <4>q. QED
        BY <3>1, <3>2, <4>1
    <3>3. CASE q # <<>>
      <4>1. victim = Head(q)
        BY <2>2, <3>3
      <4> HIDE DEF l, q, victim
      <4>2. Head(q) = q[1] /\ 1 \in DOMAIN q
        BY <1>1, <3>3, LenProperties, EmptySeq
      <4>3. q[1] \in ToSet(q) /\ q[1] # NoJob
        BY <1>1, <4>2, LinkAssumption DEF ToSet
      <4>q. QED
        BY <3>1, <3>3, <4>1, <4>2, <4>3
    <3>q. QED
      BY <3>2, <3>3
  <2>q. QED
    BY <2>1, <2>2
<1> HIDE DEF l, q, victim
<1>6. \A k \in Jobs : /\ Ended(job[k], Kind[k] # "logout").phase = "done"
                      /\ [job[k] EXCEPT !.phase = "deleted"].phase = "deleted"
  BY ZenonT(40), JobOperations DEF RunTypeOK, JobRecord
<1>7. l # <<>> => job'[l[1]].phase = "done"
  <2> SUFFICES ASSUME l # <<>> PROVE job'[l[1]].phase = "done"
    OBVIOUS
  <2>1. l[1] \in Jobs /\ l[1] = victim
    BY <1>4, <1>5, EmptySeq
  <2>2. job'[l[1]] = Ended(job[l[1]], Kind[l[1]] # "logout")
    BY <1>2, <2>1
  <2>q. QED
    BY <1>6, <2>1, <2>2
<1>8. \A i \in 2..Len(l) : job'[l[i]].phase = "deleted"
  <2> SUFFICES ASSUME NEW i \in 2..Len(l) PROVE job'[l[i]].phase = "deleted"
    OBVIOUS
  <2>1. i \in DOMAIN l /\ 1 \in DOMAIN l /\ i # 1 /\ l # <<>>
    BY <1>4, EmptySeq
  <2>2. l[i] # l[1] /\ l[i] \in ToSet(l) /\ l[i] \in Jobs
    BY <1>4, <2>1 DEF IsInjective, ToSet
  <2>3. l[i] \in kill /\ l[i] # victim
    BY <1>5, <2>1, <2>2
  <2>4. job'[l[i]] = [job[l[i]] EXCEPT !.phase = "deleted"]
    BY <1>2, <2>2, <2>3
  <2>q. QED
    BY <1>6, <2>2, <2>4
<1>9. SamePhase(l)
  <2> SUFFICES ASSUME NEW k \in Jobs, \A i \in DOMAIN l : k # l[i]
               PROVE  job'[k] = job[k]
    BY DEF SamePhase
  <2>1. k \notin ToSet(l)
    BY DEF ToSet
  <2>2. k # victim /\ k \notin kill
    BY <1>5, <2>1, LinkAssumption
  <2>q. QED
    BY <1>2, <2>2
<1>q. QED
  BY <1>2, <1>3, <1>7, <1>8, <1>9 DEF Lost, l

(* socketDisconnected(), as a handler and in the destructor.               *)
LEMMA ConnectionGoneLoses ==
  ASSUME SessionInv, ConnectionGone
  PROVE  (\E l \in Lines : Lost(l)) /\ IdleIsEmpty'
<1>1. PICK late \in FromSlot : ClearJobQueue(queue \o late, StopTimer(timer))
  BY DEF ConnectionGone
<1>2. StopTimer(timer) \in SoundTimer
  BY TimerOperations, 0 \in Int DEF SessionInv, RunTypeOK
<1>3. \E l \in Lines : Lost(l)
  BY <1>1, <1>2, ClearJobQueueLoses
<1>4. IdleIsEmpty'
  BY DEF ConnectionGone, IdleIsEmpty
<1>q. QED
  BY <1>3, <1>4

(* A response on a greeted connection, handled by the current job.         *)
LEMMA HandleResponseMovesLine ==
  ASSUME SessionInv, IdleIsEmpty, state # "Disconnected", UNCHANGED isSocketConnected,
         NEW j \in Jobs, j = currentJob, NEW r, NEW st,
         NEW pt \in [TrackedVerb -> Tag], HandleResponse(j, r, st, pt)
  PROVE  LineMoves /\ IdleIsEmpty'
<1>1. CASE \E failed \in BOOLEAN : Finish(j, failed, st, pt)
  BY <1>1, FinishMovesLine
<1>2. CASE /\ UNCHANGED <<jobRunning, currentJob, queue>>
           /\ \A k \in Jobs : job'[k].phase = job[k].phase
  BY <1>2, SameRun DEF IdleIsEmpty
<1>3. CASE UNCHANGED runVars
  BY <1>2, <1>3 DEF runVars
<1>4. CASE \E verb, step : Continue(j, verb, step, pt)
  <2>1. \A k \in Jobs : job'[k].phase = job[k].phase
    BY <1>4 DEF Continue, SessionInv, RunTypeOK, JobRecord
  <2>q. QED
    BY <1>2, <1>4, <2>1 DEF Continue
<1>5. CASE LoginStep(j, st, pt)
  BY <1>1, <1>3, <1>4, <1>5 DEF LoginStep
<1>q. QED
  BY <1>1, <1>3, <1>5 DEF HandleResponse, LoginResponse, PlainResponse, Ignored

(* The signals of the secondary thread, one step per handler.              *)
LEMMA HandleSignalMovesLine ==
  ASSUME SessionInv, IdleIsEmpty, GreetingIsTimely, HandleSignal
  PROVE  LineMoves /\ IdleIsEmpty'
<1> USE DEF SessionInv
<1>1. CASE UNCHANGED <<state, isSocketConnected, jobRunning, currentJob, queue, job>>
  BY <1>1, SameRun DEF IdleIsEmpty
<1>2. StopTimer(timer) \in SoundTimer
  BY TimerOperations, 0 \in Int DEF RunTypeOK
<1>3. CASE SocketConnected
  <2>1. UNCHANGED <<jobRunning, currentJob, queue, job, state>>
    BY <1>3 DEF SocketConnected, runVars, mailVars
  <2>2. state = "Disconnected"
    BY <1>3 DEF SocketConnected, Receive, GreetingIsTimely
  <2>q. QED
    BY <2>1, <2>2, SameRun DEF IdleIsEmpty
<1>4. CASE SocketDisconnected
  BY <1>4, ConnectionGoneLoses DEF SocketDisconnected, LineMoves
<1>5. CASE SocketError
  <2>1. UNCHANGED <<isSocketConnected, state>>
    BY <1>5 DEF SocketError, mailVars
  <2>2. CASE /\ currentJob = NoJob /\ queue # <<>>
             /\ currentJob' = Head(queue)
             /\ queue' = Tail(queue)
             /\ UNCHANGED <<job, jobRunning>>
    <3>1. queue \in Seq(Jobs) /\ Len(queue) \in Nat \ {0}
      BY <2>2, EmptySeq DEF RunTypeOK
    <3>2. lineBar' = lineBar
      <4>1. currentJob' # NoJob
        BY <2>2, <3>1, HeadTailProperties, LinkAssumption
      <4>2. SubSeq(queue, 1, Len(queue)) = <<queue[1]>> \o SubSeq(queue, 1 + 1, Len(queue))
        <5>1. 1 \in 1..Len(queue) /\ Len(queue) \in 1..Len(queue)
          BY <3>1
        <5>q. QED
          BY <3>1, <5>1, SubSeqRecursiveFirst
      <4>3. SubSeq(queue, 1, Len(queue)) = queue /\ 1 + 1 = 2
        BY <3>1, SubSeqFull
      <4>4. Tail(queue) = SubSeq(queue, 2, Len(queue)) /\ Head(queue) = queue[1]
        BY <2>2, <3>1, TailIsSubSeq
      <4>5. lineBar' = <<Head(queue)>> \o Tail(queue)
        BY <2>2, <4>1 DEF lineBar
      <4>6. lineBar = queue
        BY <2>2, LineFacts
      <4>q. QED
        BY <4>2, <4>3, <4>4, <4>5, <4>6
    <3>3. ~runningBar
      BY <2>2 DEF runningBar
    <3>4. IdleIsEmpty'
      BY <2>1, <2>2 DEF IdleIsEmpty
    <3>q. QED
      BY <2>2, <3>2, <3>3, <3>4, SameLine
  <2>3. CASE UNCHANGED <<currentJob, queue, job, jobRunning>>
    BY <1>1, <2>1, <2>3
  <2>4. CASE ~isSocketConnected /\ \E late \in FromSlot : ClearJobQueue(queue \o late, StopTimer(timer))
    <3>1. LineMoves
      BY <1>2, <2>4, ClearJobQueueLoses DEF LineMoves
    <3>q. QED
      BY <2>1, <2>4, <3>1 DEF IdleIsEmpty
  <2>q. QED
    BY <1>5, <2>2, <2>3, <2>4 DEF SocketError
<1>6. CASE SocketActivity \/ HandleSslError
  BY <1>1, <1>6 DEF SocketActivity, HandleSslError, sessionVars, runVars, mailVars
<1>7. CASE OnEncryptionNegotiationResult
  <2>1. UNCHANGED <<isSocketConnected, state, jobRunning, currentJob, queue>>
    BY <1>7 DEF OnEncryptionNegotiationResult, Continue, runVars, mailVars
  <2>2. \A k \in Jobs : job'[k].phase = job[k].phase
    <3>1. CASE UNCHANGED job
      BY <3>1
    <3>2. CASE \E j \in Jobs : Continue(j, "CAPABILITY", "Capability", pendingTag)
      BY <3>2 DEF Continue, RunTypeOK, JobRecord
    <3>q. QED
      BY <1>7, <3>1, <3>2 DEF OnEncryptionNegotiationResult, runVars
  <2>q. QED
    BY <2>1, <2>2, SameRun DEF IdleIsEmpty
<1>8. CASE ResponseReceived
  <2> DEFINE r == Head(events).response
             pt == ClearTags(pendingTag, r.tag)
  <2>1. pt \in [TrackedVerb -> Tag] /\ UNCHANGED isSocketConnected
    BY <1>8 DEF ResponseReceived, ClearTags, RunTypeOK, Tag
  <2>2. CASE UNCHANGED <<runVars, mailVars>>
    BY <1>1, <2>1, <2>2 DEF runVars, mailVars
  <2>3. CASE /\ state = "Disconnected"
             /\ r.code \in {"OK", "PREAUTH"}
             /\ CanStart
             /\ StartNext(queue, currentJob, job, state', pendingTag, StopTimer(timer))
    <3>1. currentJob = NoJob
      BY <1>8, <2>3 DEF ResponseReceived, Receive, GreetingIsTimely, CanStart
    <3>2. queue \in Lines
      BY <3>1, LineFacts DEF Lines
    <3>q. QED
      BY <1>2, <2>3, <3>1, <3>2, StartNextMovesLine DEF RunTypeOK
  <2>4. CASE /\ ~CanStart
             /\ UNCHANGED runVars
    <3>1. UNCHANGED <<jobRunning, currentJob, queue, job>>
      BY <2>4 DEF runVars
    <3>q. QED
      BY <2>1, <2>4, <3>1, SameRun DEF CanStart, IdleIsEmpty
  <2>5. CASE state = "Disconnected" /\ Greeting(r) /\ UNCHANGED currentMailBox
    <3>1. CASE r.code \notin {"OK", "PREAUTH"} /\ UNCHANGED <<state, runVars>>
      BY <2>2, <2>5, <3>1 DEF mailVars
    <3>q. QED
      BY <2>3, <2>4, <2>5, <3>1 DEF Greeting
  <2>6. CASE /\ state # "Disconnected"
             /\ currentJob # NoJob
             /\ HandleResponse(currentJob, r, state', pt)
    <3>1. currentJob \in Jobs
      BY <2>6 DEF RunTypeOK
    <3>q. QED
      BY <2>1, <2>6, <3>1, HandleResponseMovesLine
  <2>7. CASE /\ state # "Disconnected"
             /\ UNCHANGED runVars
    <3>1. UNCHANGED <<jobRunning, currentJob, queue, job>>
      BY <2>7 DEF runVars
    <3>q. QED
      BY <2>1, <2>7, <3>1, SameRun DEF IdleIsEmpty
  <2>q. QED
    BY <1>8, <2>2, <2>5, <2>6, <2>7 DEF ResponseReceived
<1>q. QED
  BY <1>3, <1>4, <1>5, <1>6, <1>7, <1>8 DEF HandleSignal

(* addJob() puts the job behind the line, and may start it.                *)
LEMMA AddJobMovesLine ==
  ASSUME SessionInv, IdleIsEmpty, NEW j \in Jobs, AddJob(j)
  PROVE  LineMoves /\ IdleIsEmpty'
<1> USE DEF SessionInv
<1> DEFINE jobs == Enqueued(job, <<j>>)
           l == Append(lineBar, j)
<1>1. job[j].phase = "new" /\ UNCHANGED <<state, isSocketConnected>>
  BY DEF AddJob, mailVars
<1>2. l \in Lines
  BY <1>1 DEF Lines
<1>3. /\ l \in Seq(Jobs) /\ Len(l) \in Nat /\ Len(l) = Len(lineBar) + 1
      /\ \A k \in Jobs \ ToSet(l) : k # j
  <2>1. l \in Seq(Jobs) /\ Len(l) = Len(lineBar) + 1 /\ l[Len(lineBar) + 1] = j
    BY LineFacts, AppendProperties
  <2>2. Len(lineBar) + 1 \in DOMAIN l
    BY <2>1, LineFacts, LenProperties
  <2>q. QED
    BY <2>1, <2>2, LenProperties DEF ToSet
<1>4. /\ jobs \in [Jobs -> JobRecord]
      /\ \A k \in Jobs \ {j} : jobs[k] = job[k]
  <2>1. ToSet(<<j>>) = {j}
    BY DEF ToSet
  <2>2. [job[j] EXCEPT !.phase = "queued"] \in JobRecord
    BY JobOperations DEF RunTypeOK, JobRecord
  <2>q. QED
    BY <2>1, <2>2 DEF Enqueued, RunTypeOK
<1> HIDE DEF jobs
<1>5. CASE /\ state # "Disconnected" /\ CanStart
           /\ StartNext(Append(queue, j), currentJob, jobs, state, pendingTag, timer)
  <2>1. currentJob = NoJob
    BY <1>5 DEF IdleIsEmpty, CanStart
  <2>2. l = Append(queue, j)
    BY <2>1, LineFacts
  <2> HIDE DEF l
  <2>3. \A k \in Jobs \ ToSet(l) : jobs[k] = job[k]
    BY <1>3, <1>4
  <2>q. QED
    BY <1>2, <1>4, <1>5, <2>1, <2>2, <2>3, StartNextMovesLine DEF RunTypeOK
<1>6. CASE /\ state = "Disconnected" \/ ~CanStart
           /\ queue' = Append(queue, j)
           /\ job' = jobs
           /\ UNCHANGED <<jobRunning, currentJob>>
  <2>1. lineBar' = l
    <3> DEFINE front == IF currentJob = NoJob THEN <<>> ELSE <<currentJob>>
    <3>1. front \in Seq(Jobs) /\ queue \in Seq(Jobs) /\ <<j>> \in Seq(Jobs)
      BY EmptySeq DEF RunTypeOK
    <3>2. lineBar = front \o queue /\ lineBar' = front \o Append(queue, j)
      BY <1>6 DEF lineBar
    <3> HIDE DEF front
    <3>3. Append(queue, j) = queue \o <<j>> /\ l = (front \o queue) \o <<j>>
      BY <3>1, <3>2, AppendIsConcat, LineFacts
    <3>q. QED
      BY <3>1, <3>2, <3>3, ConcatAssociative
  <2>2. runningBar => runningBar'
    <3>1. runningBar => currentJob \in Jobs \ {j}
      BY <1>1 DEF runningBar, RunTypeOK
    <3>q. QED
      BY <1>4, <1>6, <3>1 DEF runningBar
  <2>3. SamePhase(l)
    <3> SUFFICES ASSUME NEW k \in Jobs, \A i \in DOMAIN l : k # l[i]
                 PROVE  job'[k] = job[k]
      BY DEF SamePhase
    <3>1. k \in Jobs \ ToSet(l)
      BY DEF ToSet
    <3>q. QED
      BY <1>3, <1>4, <1>6, <3>1
  <2> HIDE DEF l
  <2>4. l = SubSeq(l, 0 + 1, Len(l)) /\ 0 \in 0..Len(l)
    BY <1>3, SubSeqFull
  <2>5. Advanced(l, 0)
    BY <2>1, <2>2, <2>3, <2>4 DEF Advanced
  <2>6. IdleIsEmpty'
    BY <1>1, <1>6 DEF IdleIsEmpty, CanStart
  <2>q. QED
    BY <1>2, <2>4, <2>5, <2>6 DEF LineMoves
<1>q. QED
  BY <1>5, <1>6 DEF AddJob, jobs

(* jobDestroyed() takes the job out of the line: a pending job is in it.   *)
LEMMA DeleteJobMovesLine ==
  ASSUME SessionInv, LineInv, NEW j \in Jobs, DeleteJob(j)
  PROVE  LineMoves /\ IdleIsEmpty'
<1> USE DEF SessionInv
<1>1. /\ Pending(j)
      /\ UNCHANGED <<state, isSocketConnected, jobRunning>>
      /\ currentJob' = IF currentJob = j THEN NoJob ELSE currentJob
  BY DEF DeleteJob, mailVars, Pending
<1>2. job'[j].phase = "deleted" /\ \A k \in Jobs \ {j} : job'[k] = job[k]
  <2> DEFINE rec == [job[j] EXCEPT !.phase = "deleted", !.tags = {}]
  <2>1. rec.phase = "deleted"
    BY DEF RunTypeOK, JobRecord
  <2>2. job' = [job EXCEPT ![j] = rec]
    BY DEF DeleteJob
  <2>q. QED
    BY <2>1, <2>2 DEF RunTypeOK
<1>3. IdleIsEmpty'
  <2>1. currentJob # NoJob \/ queue # <<>>
    <3>1. j \in ToSet(queue) \/ j = currentJob
      BY <1>1 DEF LineInv, NoJobForgotten, Waiting
    <3>2. ToSet(<<>>) = {}
      BY DEF ToSet
    <3>q. QED
      BY <3>1, <3>2, LinkAssumption
  <2>q. QED
    BY <1>1, <2>1 DEF LineInv, IdleIsEmpty
<1>4. queue \in Seq(Jobs) /\ Len(queue) \in Nat /\ DOMAIN queue = 1..Len(queue)
  BY LenProperties DEF RunTypeOK
<1>5. CASE \E i \in DOMAIN queue : queue[i] = j /\ queue' = RemoveAt(queue, i)
  <2>1. PICK i \in DOMAIN queue : queue[i] = j /\ queue' = RemoveAt(queue, i)
    BY <1>5
  <2>2. currentJob # j /\ currentJob' = currentJob
    BY <1>1, <2>1 DEF QueueSound, Waiting, ToSet
  <2>3. CASE currentJob = NoJob
    <3>1. lineBar = queue
      BY <2>3, LineFacts
    <3>2. RemoveAt(queue, i) \in Seq(Jobs)
      BY <2>1, Removed DEF RunTypeOK, QueueSound
    <3>3. lineBar' = RemoveAt(queue, i)
      BY <2>1, <2>2, <2>3, <3>2, ConcatEmptySeq DEF lineBar
    <3>4. Cancelled(i)
      BY <1>1, <1>2, <2>1, <3>1, <3>3 DEF Cancelled
    <3>q. QED
      BY <1>3, <2>1, <3>1, <3>4 DEF LineMoves
  <2>4. CASE currentJob # NoJob
    <3>1. currentJob \in Jobs /\ lineBar = <<currentJob>> \o queue
      BY <2>4, LineFacts DEF RunTypeOK
    <3>2. lineBar' = <<currentJob>> \o RemoveAt(queue, i)
      BY <2>1, <2>2, <2>4 DEF lineBar
    <3>3. /\ lineBar' = RemoveAt(lineBar, i + 1)
          /\ lineBar[i + 1] = j
          /\ Len(lineBar) = Len(queue) + 1
      <4>1. i \in 1..Len(queue) /\ queue[i] = j /\ queue \in Seq(Jobs)
        BY <1>4, <2>1
      <4>2. /\ (<<currentJob>> \o queue)[i + 1] = queue[i]
            /\ Len(<<currentJob>> \o queue) = Len(queue) + 1
        BY <3>1, <4>1, InFront
      <4>3. RemoveAt(<<currentJob>> \o queue, i + 1) = <<currentJob>> \o RemoveAt(queue, i)
        BY <3>1, <4>1, InFrontRemoved
      <4>q. QED
        BY <3>1, <3>2, <4>1, <4>2, <4>3
    <3>4. i + 1 \in DOMAIN lineBar
      <4>1. DOMAIN lineBar = 1..Len(lineBar)
        BY LineFacts, LenProperties
      <4>q. QED
        BY <1>4, <3>3, <4>1
    <3>5. Cancelled(i + 1)
      BY <1>1, <1>2, <3>3 DEF Cancelled
    <3>q. QED
      BY <1>3, <3>4, <3>5 DEF LineMoves
  <2>q. QED
    BY <2>3, <2>4
<1>6. CASE (\A i \in DOMAIN queue : queue[i] # j) /\ UNCHANGED queue
  <2>1. j = currentJob /\ j # NoJob
    BY <1>1, <1>6, LinkAssumption DEF LineInv, NoJobForgotten, Waiting, ToSet
  <2>2. lineBar = <<j>> \o queue
    BY <2>1, LineFacts
  <2>3. lineBar' = queue
    BY <1>1, <1>4, <1>6, <2>1, ConcatEmptySeq DEF lineBar
  <2>4. /\ RemoveAt(lineBar, 1) = queue
        /\ lineBar[1] = j
        /\ Len(lineBar) = Len(queue) + 1
    BY <1>4, <2>2, InFront, InFrontRemoved
  <2>5. 1 \in DOMAIN lineBar
    <3>1. DOMAIN lineBar = 1..Len(lineBar)
      BY LineFacts, LenProperties
    <3>q. QED
      BY <1>4, <2>4, <3>1
  <2>6. Cancelled(1)
    BY <1>1, <1>2, <2>3, <2>4 DEF Cancelled
  <2>q. QED
    BY <1>3, <2>5, <2>6 DEF LineMoves
<1>q. QED
  BY <1>5, <1>6 DEF DeleteJob

(* Every step of the composed system moves the line, or leaves it.         *)
LEMMA NextMovesLine ==
  ASSUME SessionInv, LineInv, GreetingIsTimely, [Next]_vars
  PROVE  LineMoves /\ IdleIsEmpty'
<1> USE DEF SessionInv
<1>1. CASE UNCHANGED <<state, isSocketConnected, jobRunning, currentJob, queue, job>>
  BY <1>1, SameRun DEF LineInv, IdleIsEmpty
<1>2. CASE UNCHANGED sessionVars
  BY <1>1, <1>2 DEF sessionVars
<1>3. CASE Application
  <2>1. CASE \E j \in Jobs : AddJob(j)
    BY <2>1, AddJobMovesLine DEF LineInv
  <2>2. CASE \E j \in Deletable : DeleteJob(j)
    BY <2>2, DeleteJobMovesLine, ConnectionAssumption
  <2>3. CASE \E j \in Jobs : StopIdle(j)
    <3>1. UNCHANGED <<state, isSocketConnected, jobRunning, currentJob, queue>>
      BY <2>3 DEF StopIdle, mailVars
    <3>2. \A k \in Jobs : job'[k].phase = job[k].phase
      BY <2>3 DEF StopIdle, RunTypeOK, JobRecord
    <3>q. QED
      BY <3>1, <3>2, SameRun DEF LineInv, IdleIsEmpty
  <2>4. CASE Close \/ SetUseNetworkProxy \/ \E ms \in AppTimeouts : SetTimeout(ms)
    BY <1>1, <2>4 DEF Close, SetUseNetworkProxy, SetTimeout, sessionVars, runVars, mailVars
  <2>5. CASE Destroy
    BY <2>5, ConnectionGoneLoses DEF Destroy, LineMoves
  <2>q. QED
    BY <1>3, <2>1, <2>2, <2>3, <2>4, <2>5 DEF Application
<1>4. CASE MainThread
  BY <1>4, HandleSignalMovesLine DEF MainThread, LineInv
<1>5. CASE Timeout
  BY <1>1, <1>5 DEF Timeout, OnSocketTimeout, runVars
<1>q. QED
  BY <1>2, <1>3, <1>4, <1>5 DEF Next, SecondaryThread, Socket, Server, vars

-----------------------------------------------------------------------------
(* Who is in a line.                                                       *)
LEMMA InLine ==
  ASSUME NEW c \in Jobs \cup {NoJob}, NEW q \in Seq(Jobs),
         NEW k \in ToSet((IF c = NoJob THEN <<>> ELSE <<c>>) \o q)
  PROVE  k \in ToSet(q) \/ k = c
<1>1. CASE c = NoJob
  BY <1>1, ConcatEmptySeq
<1>2. CASE c # NoJob
  BY <1>2, InFront
<1>q. QED
  BY <1>1, <1>2

(* Taking an element out of a sequence leaves the others in it.            *)
LEMMA RemovedKeepsOthers ==
  ASSUME NEW q \in Seq(Jobs), NEW n \in DOMAIN q, NEW k \in ToSet(q), k # q[n]
  PROVE  k \in ToSet(RemoveAt(q, n))
<1> DEFINE front == SubSeq(q, 1, n - 1)
           back == SubSeq(q, n + 1, Len(q))
<1>1. Len(q) \in Nat /\ DOMAIN q = 1..Len(q) /\ n \in 1..Len(q)
  BY LenProperties
<1>2. PICK i \in 1..Len(q) : k = q[i] /\ i # n
  BY <1>1 DEF ToSet
<1>3. \A m \in 1..Len(q) : q[m] \in Jobs
  BY ElementOfSeq
<1>4. /\ front \in Seq(Jobs)
      /\ Len(front) = n - 1
      /\ \A m \in 1..(n - 1) : front[m] = q[m]
  <2>1. \A m \in 1..(n - 1) : q[m] \in Jobs
    BY <1>1, <1>3
  <2>2. 1 \in Int /\ n - 1 \in Int /\ (IF 1 <= n - 1 THEN (n - 1) - 1 + 1 ELSE 0) = n - 1
    BY <1>1
  <2>3. \A m \in 1..(n - 1) : m \in 1..((n - 1) - 1 + 1) /\ 1 + m - 1 = m
    BY <1>1
  <2>4. /\ front \in Seq(Jobs)
        /\ Len(front) = IF 1 <= n - 1 THEN (n - 1) - 1 + 1 ELSE 0
        /\ \A m \in 1..((n - 1) - 1 + 1) : front[m] = q[1 + m - 1]
    BY <2>1, <2>2, SubSeqProperties
  <2>q. QED
    BY <2>2, <2>3, <2>4
<1>5. /\ back \in Seq(Jobs)
      /\ Len(back) = Len(q) - (n + 1) + 1
      /\ \A m \in 1..(Len(q) - (n + 1) + 1) : back[m] = q[(n + 1) + m - 1]
  <2>1. n + 1 \in 1..(Len(q) + 1)
    BY <1>1
  <2>q. QED
    BY <2>1, Suffix
<1> HIDE DEF front, back
<1>6. /\ front \o back \in Seq(Jobs)
      /\ Len(front \o back) = Len(front) + Len(back)
      /\ \A m \in 1..(Len(front) + Len(back)) :
           (front \o back)[m] = IF m <= Len(front) THEN front[m] ELSE back[m - Len(front)]
  BY <1>4, <1>5, ConcatProperties
<1>7. DOMAIN (front \o back) = 1..(Len(front) + Len(back))
  BY <1>6, LenProperties
<1>8. CASE i < n
  <2>1. i \in 1..(Len(front) + Len(back)) /\ i <= Len(front) /\ i \in 1..(n - 1)
    BY <1>1, <1>4, <1>5, <1>8
  <2>2. (front \o back)[i] = k
    BY <1>2, <1>4, <1>6, <2>1
  <2>q. QED
    BY <1>7, <2>1, <2>2 DEF RemoveAt, ToSet, front, back
<1>9. CASE i > n
  <2> DEFINE m == i - n
  <2>0. /\ Len(q) \in Nat /\ i \in 1..Len(q) /\ n \in 1..Len(q) /\ i > n
        /\ Len(front) = n - 1
        /\ Len(back) = Len(q) - (n + 1) + 1
    BY <1>1, <1>2, <1>4, <1>5, <1>9
  <2>1. /\ i - 1 \in 1..(Len(front) + Len(back))
        /\ ~(i - 1 <= Len(front))
    BY <2>0
  <2>1a. /\ (i - 1) - Len(front) = m
         /\ (n + 1) + m - 1 = i
    BY <2>0
  <2>1b. m \in 1..(Len(q) - (n + 1) + 1)
    BY <2>0
  <2> HIDE DEF m
  <2>2. (front \o back)[i - 1] = k
    BY <1>2, <1>5, <1>6, <2>1, <2>1a, <2>1b
  <2>q. QED
    BY <1>7, <2>1, <2>2 DEF RemoveAt, ToSet, front, back
<1>q. QED
  BY <1>1, <1>2, <1>8, <1>9

(* However the line moves, a job that has not ended stays in it.           *)
LEMMA LineMovesForgetNobody ==
  ASSUME SessionInv, SessionInv', NoJobForgotten, LineMoves
  PROVE  NoJobForgotten'
<1> USE DEF SessionInv
<1> SUFFICES ASSUME NEW k \in Jobs, Pending(k)'
             PROVE  k \in ToSet(queue') \/ k = currentJob'
  BY DEF NoJobForgotten, Waiting
<1>1. k \in ToSet(lineBar') => k \in ToSet(queue') \/ k = currentJob'
  BY InLine DEF lineBar, RunTypeOK
<1>2. Pending(k) => k \in ToSet(lineBar)
  BY LineFacts, LinkAssumption DEF NoJobForgotten
<1>3. ASSUME NEW l \in Lines, SamePhase(l)
      PROVE  \E i \in DOMAIN l : k = l[i]
  <2> SUFFICES ASSUME \A i \in DOMAIN l : k # l[i] PROVE FALSE
    OBVIOUS
  <2>1. Pending(k)
    BY <1>3 DEF SamePhase, Pending
  <2>2. k \in ToSet(l)
    BY <1>2, <2>1, LinesFacts
  <2>q. QED
    BY <2>2 DEF ToSet
<1>4. job'[k].phase \notin {"done", "deleted"}
  BY DEF Pending
<1>5. CASE \E l \in Lines : \E n \in 0..Len(l) : Advanced(l, n)
  <2>0. PICK l \in Lines : \E n \in 0..Len(l) : Advanced(l, n)
    BY <1>5
  <2>1. PICK n \in 0..Len(l) : Advanced(l, n)
    BY <2>0
  <2>2. l \in Seq(Jobs) /\ DOMAIN l = 1..Len(l) /\ Len(l) \in Nat
    BY LinesFacts, LenProperties
  <2>3. PICK i \in DOMAIN l : k = l[i]
    BY <1>3, <2>1 DEF Advanced
  <2>4. ~(i \in 1..n)
    BY <1>4, <2>1, <2>3 DEF Advanced
  <2> DEFINE s == SubSeq(l, n + 1, Len(l))
             m == i - n
  <2>5. n + 1 \in 1..(Len(l) + 1)
    BY <2>2
  <2>6. /\ s \in Seq(Jobs)
        /\ Len(s) = Len(l) - (n + 1) + 1
        /\ \A a \in 1..(Len(l) - (n + 1) + 1) : s[a] = l[(n + 1) + a - 1]
    BY <2>2, <2>5, Suffix
  <2>7. /\ m \in 1..(Len(l) - (n + 1) + 1)
        /\ (n + 1) + m - 1 = i
    BY <2>2, <2>4
  <2> HIDE DEF s, m
  <2>8. m \in DOMAIN s /\ s[m] = k
    BY <2>3, <2>6, <2>7, LenProperties
  <2>9. k \in ToSet(lineBar')
    BY <2>1, <2>8 DEF ToSet, Advanced, s
  <2>q. QED
    BY <1>1, <2>9
<1>6. CASE \E i \in DOMAIN lineBar : Cancelled(i)
  <2>1. PICK i \in DOMAIN lineBar : Cancelled(i)
    BY <1>6
  <2>2. k # lineBar[i]
    BY <1>4, <2>1 DEF Cancelled
  <2>3. Pending(k)
    BY <2>1, <2>2 DEF Cancelled, Pending
  <2>4. k \in ToSet(RemoveAt(lineBar, i))
    BY <1>2, <2>2, <2>3, LineFacts, RemovedKeepsOthers
  <2>q. QED
    BY <1>1, <2>1, <2>4 DEF Cancelled
<1>7. CASE \E l \in Lines : Lost(l)
  <2>1. PICK l \in Lines : Lost(l)
    BY <1>7
  <2>2. PICK i \in DOMAIN l : k = l[i]
    BY <1>3, <2>1 DEF Lost
  <2>3. DOMAIN l = 1..Len(l) /\ Len(l) \in Nat /\ l # <<>>
    BY <2>2, LinesFacts, LenProperties
  <2>4. i = 1 \/ i \in 2..Len(l)
    BY <2>3
  <2>q. QED
    BY <1>4, <2>1, <2>2, <2>3, <2>4 DEF Lost
<1>q. QED
  BY <1>5, <1>6, <1>7 DEF LineMoves

-----------------------------------------------------------------------------
(* The invariants of the line, along a behaviour in which the signals are  *)
(* timely.                                                                 *)
LEMMA LineInitHolds == Init => LineInv
BY DEF Init, SessionInit, LineInv, NoJobForgotten, IdleIsEmpty, Pending, NewJob

(* Every step that keeps the greeting timely keeps the invariant of the    *)
(* line.                                                                   *)
LEMMA LineNextKeeps ==
  SessionInv /\ SessionInv' /\ LineInv /\ GreetingIsTimely /\ [Next]_vars => LineInv'
<1> SUFFICES ASSUME SessionInv, SessionInv', LineInv, GreetingIsTimely, [Next]_vars
             PROVE  LineInv'
  OBVIOUS
<1>1. LineMoves /\ IdleIsEmpty'
  BY NextMovesLine
<1>2. NoJobForgotten'
  BY <1>1, LineMovesForgetNobody DEF LineInv
<1>q. QED
  BY <1>1, <1>2 DEF LineInv

(* The invariant of the line holds as long as the greeting is timely.      *)
LEMMA LineInvariantHolds == Spec /\ []GreetingIsTimely => []LineInv
BY LineInitHolds, LineNextKeeps, InvariantHolds, PTL DEF Spec

(* No job is forgotten: as long as the signals are timely, a job the       *)
(* application has started and that has not ended is in the queue or the   *)
(* current one, whatever the server answers, the network does and the      *)
(* application starts, deletes or starts again from a slot.                *)
THEOREM NobodyIsForgotten == Spec /\ []GreetingIsTimely => []NoJobForgotten
<1>1. LineInv => NoJobForgotten
  BY DEF LineInv
<1>q. QED
  BY <1>1, LineInvariantHolds, PTL

-----------------------------------------------------------------------------
(* The connection is lost, or the session destroyed, only by the two steps *)
(* that clear the queue.                                                   *)
LEMMA LossClearsLine ==
  ASSUME ConnectionInv, [Next]_vars,
         (isSocketConnected /\ ~isSocketConnected') \/ (Alive /\ ~Alive')
  PROVE  \E l \in Lines : Lost(l)
<1>1. SUFFICES ~ConnectionGone => FALSE
  BY ConnectionGoneLoses DEF ConnectionInv
<1>2. ASSUME UNCHANGED <<isSocketConnected, settings>>
      PROVE  FALSE
  BY <1>2 DEF Alive
<1>3. CASE UNCHANGED <<sessionVars, settings>>
  BY <1>2, <1>3 DEF sessionVars
<1>4. CASE Application
  <2>1. CASE /\ \/ \E j \in Jobs : AddJob(j)
                \/ \E j \in Deletable : DeleteJob(j)
                \/ \E j \in Jobs : StopIdle(j)
             /\ UNCHANGED settings
    BY <1>2, <2>1 DEF AddJob, DeleteJob, StopIdle
  <2>2. ASSUME NEW what \in {"close", "proxy", "timeout"}, Spend(what), UNCHANGED isSocketConnected
        PROVE  FALSE
    BY <2>2 DEF Spend, Alive, ConnectionInv, SettingsTypeOK
  <2>3. CASE Close /\ Spend("close")
    BY <2>2, <2>3 DEF Close, sessionVars
  <2>4. CASE SetUseNetworkProxy /\ Spend("proxy")
    BY <2>2, <2>4 DEF SetUseNetworkProxy, sessionVars
  <2>5. CASE \E ms \in AppTimeouts : SetTimeout(ms) /\ Spend("timeout")
    BY <2>2, <2>5 DEF SetTimeout
  <2>6. CASE Destroy /\ Spend("destroy")
    BY <1>1, <2>6 DEF Destroy
  <2>q. QED
    BY <1>4, <2>1, <2>3, <2>4, <2>5, <2>6 DEF Application
<1>5. CASE MainThread
  <2>1. UNCHANGED settings
    BY <1>5 DEF MainThread
  <2>2. CASE SocketConnected
    BY <2>1, <2>2 DEF SocketConnected, Alive
  <2>3. CASE SocketDisconnected
    BY <1>1, <2>3 DEF SocketDisconnected
  <2>4. CASE SocketError \/ SocketActivity \/ OnEncryptionNegotiationResult \/ ResponseReceived
    BY <1>2, <2>1, <2>4 DEF SocketError, SocketActivity, OnEncryptionNegotiationResult, ResponseReceived
  <2>5. CASE HandleSslError
    BY <1>2, <2>1, <2>5 DEF HandleSslError, sessionVars
  <2>q. QED
    BY <1>5, <2>2, <2>3, <2>4, <2>5 DEF MainThread, HandleSignal
<1>6. CASE Timeout
  BY <1>2, <1>6 DEF Timeout, OnSocketTimeout
<1>q. QED
  BY <1>3, <1>4, <1>5, <1>6 DEF Next, SecondaryThread, Socket, Server, vars

(* When the line is lost nobody is left pending, and the first in it has a *)
(* result.                                                                 *)
LEMMA LostIsTold ==
  ASSUME SessionInv, NoJobForgotten, NEW l \in Lines, Lost(l)
  PROVE  /\ \A j \in Jobs : ~Pending(j)'
         /\ (\E j \in Jobs : Pending(j)) =>
              \E j \in Jobs : Pending(j) /\ job'[j].phase = "done"
<1>1. \A j \in Jobs : Pending(j) => j \in ToSet(lineBar)
  BY LineFacts, LinkAssumption DEF NoJobForgotten
<1>2. l \in Seq(Jobs) /\ DOMAIN l = 1..Len(l) /\ Len(l) \in Nat
  BY LinesFacts, LenProperties
<1>3. ASSUME NEW j \in Jobs PROVE ~Pending(j)'
  <2>1. CASE \E i \in DOMAIN l : j = l[i]
    <3>1. PICK i \in DOMAIN l : j = l[i]
      BY <2>1
    <3>2. l # <<>> /\ (i = 1 \/ i \in 2..Len(l))
      BY <1>2, <3>1, EmptySeq
    <3>q. QED
      BY <3>1, <3>2 DEF Lost, Pending
  <2>2. CASE \A i \in DOMAIN l : j # l[i]
    <3>1. job'[j].phase = job[j].phase
      BY <2>2 DEF Lost, SamePhase
    <3>2. j \notin ToSet(l)
      BY <2>2 DEF ToSet
    <3>3. ~Pending(j)
      BY <1>1, <3>2, LinesFacts
    <3>q. QED
      BY <3>1, <3>3 DEF Pending
  <2>q. QED
    BY <2>1, <2>2
<1>4. ASSUME NEW j \in Jobs, Pending(j)
      PROVE  \E k \in Jobs : Pending(k) /\ job'[k].phase = "done"
  <2>1. lineBar # <<>>
    BY <1>1, <1>4 DEF ToSet
  <2>2. 1 \in DOMAIN lineBar
    BY <2>1, LineFacts, LenProperties, EmptySeq
  <2>3. lineBar[1] \in ToSet(lineBar)
    BY <2>2 DEF ToSet
  <2>4. lineBar[1] \in Jobs /\ Pending(lineBar[1])
    BY <2>3, LineFacts
  <2>5. l # <<>> /\ l[1] = lineBar[1]
    BY <2>1, LinesFacts
  <2>q. QED
    BY <2>4, <2>5 DEF Lost
<1>q. QED
  BY <1>3, <1>4

(* The loss of the connection and the end of the session are told: they    *)
(* leave no job pending, and one of those that were has got a result.      *)
THEOREM LossIsAlwaysTold == Spec /\ []GreetingIsTimely => LossIsTold
<1> DEFINE Told == (isSocketConnected /\ ~isSocketConnected') \/ (Alive /\ ~Alive') =>
                     /\ \A j \in Jobs : ~Pending(j)'
                     /\ (\E j \in Jobs : Pending(j)) =>
                          \E j \in Jobs : Pending(j) /\ job'[j].phase = "done"
<1>1. ConnectionInv /\ LineInv /\ [Next]_vars => Told
  <2> SUFFICES ASSUME ConnectionInv, LineInv, [Next]_vars,
                      (isSocketConnected /\ ~isSocketConnected') \/ (Alive /\ ~Alive')
               PROVE  /\ \A j \in Jobs : ~Pending(j)'
                      /\ (\E j \in Jobs : Pending(j)) =>
                           \E j \in Jobs : Pending(j) /\ job'[j].phase = "done"
    OBVIOUS
  <2>1. PICK l \in Lines : Lost(l)
    BY LossClearsLine
  <2>q. QED
    BY <2>1, LostIsTold DEF ConnectionInv, LineInv
<1>2. [Told]_vars => [(isSocketConnected /\ ~isSocketConnected') \/ (Alive /\ ~Alive') =>
                     /\ \A j \in Jobs : ~Pending(j)'
                     /\ (\E j \in Jobs : Pending(j)) =>
                          \E j \in Jobs : Pending(j) /\ job'[j].phase = "done"]_vars
  OBVIOUS
<1> HIDE DEF Told
<1>q. QED
  BY <1>1, <1>2, ConnectionInvariantHolds, LineInvariantHolds, PTL DEF Spec, LossIsTold

-----------------------------------------------------------------------------
(* The refinement.  How a job left the line is read from its phase.        *)
LEMMA FateOfPhase ==
  ASSUME SessionInv, NEW j \in Jobs
  PROVE  /\ job[j].phase \in {"new", "queued", "started"} => fateBar[j] = "none"
         /\ job[j].phase = "done" => fateBar[j] = "result"
         /\ job[j].phase = "deleted" => fateBar[j] = "dropped"
BY DEF fateBar

(* And nothing runs in an empty line.                                      *)
LEMMA EmptyLineIsIdle ==
  ASSUME SessionInv, runningBar
  PROVE  lineBar # <<>> /\ lineBar[1] = currentJob
<1>1. currentJob \in Jobs /\ queue \in Seq(Jobs)
  BY DEF runningBar, SessionInv, RunTypeOK
<1>2. lineBar = <<currentJob>> \o queue
  BY LineFacts DEF runningBar
<1>3. Len(lineBar) = Len(queue) + 1 /\ lineBar[1] = currentJob /\ Len(queue) \in Nat
  BY <1>1, <1>2, InFront, LenProperties
<1>4. Len(<<>>) = 0
  BY EmptySeq
<1>q. QED
  BY <1>3, <1>4

(* The same of the line after a step.                                      *)
LEMMA EmptyLineNext ==
  ASSUME SessionInv', lineBar' = <<>>
  PROVE  ~runningBar'
<1> SUFFICES ASSUME runningBar' PROVE FALSE
  OBVIOUS
<1>1. currentJob' \in Jobs /\ queue' \in Seq(Jobs) /\ currentJob' # NoJob
  BY DEF runningBar, SessionInv, RunTypeOK
<1>2. lineBar' = <<currentJob'>> \o queue'
  BY <1>1 DEF lineBar
<1>3. Len(lineBar') = Len(queue') + 1 /\ Len(queue') \in Nat
  BY <1>1, <1>2, InFront, LenProperties
<1>4. Len(<<>>) = 0
  BY EmptySeq
<1>q. QED
  BY <1>3, <1>4

(* A line a job may have joined is one of the abstract queue's.            *)
LEMMA LinesAreJoined ==
  ASSUME SessionInv
  PROVE  Lines \subseteq Queue!Joined
<1> SUFFICES ASSUME NEW j \in Jobs, job[j].phase = "new"
             PROVE  j \in {k \in Jobs \ Queue!ToSet(lineBar) : fateBar[k] = "none"}
  BY DEF Lines, Queue!Joined
<1>1. fateBar[j] = "none"
  BY FateOfPhase
<1>2. j \notin ToSet(lineBar)
  BY LineFacts DEF Pending
<1>q. QED
  BY <1>1, <1>2 DEF ToSet, Queue!ToSet

(* The three ways the line moves are the three actions of the queue.       *)
LEMMA AdvancedIsAdvance ==
  ASSUME SessionInv, SessionInv', NEW l \in Lines, NEW n \in 0..Len(l), Advanced(l, n)
  PROVE  Queue!Advance
<1> DEFINE left == SubSeq(l, n + 1, Len(l))
<1>1. l \in Seq(Jobs) /\ DOMAIN l = 1..Len(l) /\ Len(l) \in Nat /\ lineBar' = left
  BY LinesFacts, LenProperties DEF Advanced
<1>2. fateBar' = Queue!Fates({l[i] : i \in 1..n}, {})
  <2> SUFFICES ASSUME NEW j \in Jobs
               PROVE  fateBar'[j] = IF j \in {l[i] : i \in 1..n} THEN "result" ELSE fateBar[j]
    BY DEF Queue!Fates, fateBar
  <2>1. CASE \E i \in 1..n : j = l[i]
    <3>1. job'[j].phase = "done"
      BY <2>1 DEF Advanced
    <3>q. QED
      BY <2>1, <3>1 DEF fateBar
  <2>2. CASE \E i \in DOMAIN l : j = l[i] /\ i \notin 1..n
    <3>1. PICK i \in DOMAIN l : j = l[i] /\ i \notin 1..n
      BY <2>2
    <3>2. j \notin {l[k] : k \in 1..n}
      <4>1. \A k \in 1..n : k \in DOMAIN l
        BY <1>1
      <4>q. QED
        BY <3>1, <4>1, LinesFacts DEF IsInjective
    <3>3. j \in ToSet(lineBar')
      <4> DEFINE m == i - n
      <4>1. n + 1 \in 1..(Len(l) + 1)
        BY <1>1
      <4>2. /\ left \in Seq(Jobs)
            /\ Len(left) = Len(l) - (n + 1) + 1
            /\ \A k \in 1..(Len(l) - (n + 1) + 1) : left[k] = l[(n + 1) + k - 1]
        BY <1>1, <4>1, Suffix
      <4>3. m \in 1..(Len(l) - (n + 1) + 1) /\ (n + 1) + m - 1 = i
        BY <1>1, <3>1
      <4> HIDE DEF left, m
      <4>4. m \in DOMAIN left /\ left[m] = j
        BY <3>1, <4>2, <4>3, LenProperties
      <4>q. QED
        BY <1>1, <4>4 DEF ToSet
    <3>4. job[j].phase \in {"new", "queued", "started"}
      BY <3>1, LinesFacts DEF ToSet
    <3>5. fateBar[j] = "none"
      BY <3>4, FateOfPhase
    <3>6. Pending(j)'
      <4>1. j \in ToSet(queue') \/ j = currentJob'
        BY <3>3, InLine DEF lineBar, SessionInv, RunTypeOK
      <4>q. QED
        BY <4>1, LinkAssumption DEF SessionInv, QueueSound, Waiting, Pending
    <3>7. fateBar'[j] = "none"
      BY <3>6 DEF fateBar, Pending
    <3>q. QED
      BY <3>2, <3>5, <3>7
  <2>3. CASE \A i \in DOMAIN l : j # l[i]
    <3>1. job'[j].phase = job[j].phase
      BY <2>3 DEF Advanced, SamePhase
    <3>2. j \notin {l[k] : k \in 1..n}
      <4>1. \A k \in 1..n : k \in DOMAIN l
        BY <1>1
      <4>q. QED
        BY <2>3, <4>1
    <3>q. QED
      BY <3>1, <3>2 DEF fateBar
  <2>q. QED
    BY <2>1, <2>2, <2>3
<1>3. runningBar' \in BOOLEAN
  BY DEF runningBar
<1>4. lineBar' = <<>> => ~runningBar'
  BY <1>3, EmptyLineNext
<1>5. runningBar' \in (IF lineBar' = <<>> THEN {FALSE}
                       ELSE IF n = 0 /\ runningBar THEN {TRUE} ELSE BOOLEAN)
  BY <1>3, <1>4 DEF Advanced
<1>6. l \in Queue!Joined
  BY LinesAreJoined
<1>q. QED
  BY <1>1, <1>2, <1>5, <1>6 DEF Queue!Advance

(* A job that the application deletes is cancelled in the abstract queue.  *)
LEMMA CancelledIsCancel ==
  ASSUME SessionInv, SessionInv', NEW i \in DOMAIN lineBar, Cancelled(i)
  PROVE  Queue!Cancel
<1> DEFINE j == lineBar[i]
<1>1. /\ lineBar \in Seq(Jobs) /\ IsInjective(lineBar) /\ DOMAIN lineBar = 1..Len(lineBar)
      /\ Len(lineBar) \in Nat
      /\ j \in Jobs
  BY LineFacts, LenProperties, ElementOfSeq
<1>2. lineBar' = Queue!RemoveAt(lineBar, i)
  BY DEF Cancelled, RemoveAt, Queue!RemoveAt
<1>3. fateBar' = Queue!Fates({}, {lineBar[i]})
  <2> SUFFICES ASSUME NEW k \in Jobs
               PROVE  fateBar'[k] = IF k = j THEN "dropped" ELSE fateBar[k]
    BY DEF Queue!Fates, fateBar
  <2>1. CASE k = j
    BY <2>1 DEF Cancelled, fateBar
  <2>2. CASE k # j
    BY <2>2 DEF Cancelled, fateBar
  <2>q. QED
    BY <2>1, <2>2
<1>4. runningBar' = (runningBar /\ i # 1)
  <2>1. CASE runningBar
    <3>1. lineBar[1] = currentJob /\ lineBar # <<>> /\ currentJob \in Jobs
      BY <2>1, EmptyLineIsIdle DEF runningBar, SessionInv, RunTypeOK
    <3>2. 1 \in DOMAIN lineBar
      BY <1>1, <3>1, EmptySeq
    <3>3. CASE i = 1
      BY <3>1, <3>3 DEF Cancelled, runningBar
    <3>4. CASE i # 1
      <4>1. currentJob # j
        BY <1>1, <3>1, <3>2, <3>4 DEF IsInjective
      <4>2. currentJob' = currentJob /\ job'[currentJob] = job[currentJob]
        BY <3>1, <4>1 DEF Cancelled
      <4>q. QED
        BY <2>1, <3>4, <4>2 DEF runningBar
    <3>q. QED
      BY <3>3, <3>4
  <2>2. CASE ~runningBar
    <3>1. CASE currentJob = NoJob \/ currentJob = j
      BY <1>1, <2>2, <3>1 DEF Cancelled, runningBar
    <3>2. CASE currentJob # NoJob /\ currentJob # j
      <4>1. currentJob \in Jobs
        BY <3>2 DEF SessionInv, RunTypeOK
      <4>2. currentJob' = currentJob /\ job'[currentJob] = job[currentJob]
        BY <3>2, <4>1 DEF Cancelled
      <4>q. QED
        BY <2>2, <4>2 DEF runningBar
    <3>q. QED
      BY <3>1, <3>2
  <2>q. QED
    BY <2>1, <2>2
<1>q. QED
  BY <1>2, <1>3, <1>4 DEF Queue!Cancel

(* A line that is dropped as a whole is a lost connection of the abstract  *)
(* queue.                                                                  *)
LEMMA LostIsLoseConnection ==
  ASSUME SessionInv, SessionInv', NEW l \in Lines, Lost(l)
  PROVE  Queue!LoseConnection \/ UNCHANGED <<lineBar, runningBar, fateBar>>
<1>1. l \in Seq(Jobs) /\ DOMAIN l = 1..Len(l) /\ Len(l) \in Nat /\ IsInjective(l)
  BY LinesFacts, LenProperties
<1>2. lineBar' = <<>> /\ ~runningBar'
  <2>1. <<>> \in Seq(Jobs)
    BY EmptySeq
  <2>q. QED
    BY <2>1, ConcatEmptySeq DEF Lost, lineBar, runningBar
<1>3. CASE l = <<>>
  <2>1. lineBar = <<>>
    BY <1>3, LinesFacts
  <2>2. ~runningBar
    BY <2>1, EmptyLineIsIdle
  <2>3. fateBar' = fateBar
    <3>1. \A k \in Jobs : job'[k].phase = job[k].phase
      BY <1>1, <1>3, EmptySeq DEF Lost, SamePhase
    <3>q. QED
      BY <3>1 DEF fateBar
  <2>4. runningBar' = runningBar
    BY <1>2, <2>2 DEF runningBar
  <2>q. QED
    BY <1>2, <2>1, <2>3, <2>4
<1>4. CASE l # <<>>
  <2> DEFINE tail == Tail(l)
  <2>1. /\ tail \in Seq(Jobs)
        /\ Len(tail) = Len(l) - 1
        /\ \A i \in 1..Len(tail) : tail[i] = l[i + 1]
        /\ Head(l) = l[1]
    BY <1>1, <1>4, HeadTailProperties
  <2>2. DOMAIN tail = 1..Len(tail) /\ Len(tail) \in Nat /\ 1 \in DOMAIN l
    BY <1>1, <1>4, <2>1, LenProperties, EmptySeq
  <2> HIDE DEF tail
  <2>3. \A i \in DOMAIN l : i = 1 \/ (i \in 2..Len(l) /\ i - 1 \in DOMAIN tail /\ tail[i - 1] = l[i])
    <3> SUFFICES ASSUME NEW i \in DOMAIN l, i # 1
                 PROVE  i \in 2..Len(l) /\ i - 1 \in DOMAIN tail /\ tail[i - 1] = l[i]
      OBVIOUS
    <3>1. Len(tail) = Len(l) - 1 /\ Len(l) \in Nat /\ i \in 1..Len(l) /\ DOMAIN tail = 1..Len(tail)
      BY <1>1, <2>1, <2>2
    <3>2. i \in 2..Len(l) /\ i - 1 \in 1..Len(tail) /\ (i - 1) + 1 = i
      BY <3>1
    <3>q. QED
      BY <2>1, <3>1, <3>2
  <2>4. \A k \in Queue!ToSet(tail) : \E i \in 2..Len(l) : k = l[i]
    <3> SUFFICES ASSUME NEW a \in DOMAIN tail
                 PROVE  \E i \in 2..Len(l) : tail[a] = l[i]
      BY DEF Queue!ToSet
    <3>1. Len(tail) = Len(l) - 1 /\ Len(l) \in Nat /\ a \in 1..Len(tail)
      BY <1>1, <2>1, <2>2
    <3>2. a + 1 \in 2..Len(l)
      BY <3>1
    <3>q. QED
      BY <2>1, <3>1, <3>2
  <2>5. fateBar' = Queue!Fates({Head(l)}, Queue!ToSet(tail))
    <3> SUFFICES ASSUME NEW k \in Jobs
                 PROVE  fateBar'[k] = IF k = Head(l) THEN "result"
                                      ELSE IF k \in Queue!ToSet(tail) THEN "dropped" ELSE fateBar[k]
      BY DEF Queue!Fates, fateBar
    <3>1. CASE k = Head(l)
      BY <1>4, <2>1, <3>1 DEF Lost, fateBar
    <3>2. CASE k \in Queue!ToSet(tail) /\ k # Head(l)
      <4>1. job'[k].phase = "deleted"
        BY <2>4, <3>2 DEF Lost
      <4>q. QED
        BY <3>2, <4>1 DEF fateBar
    <3>3. CASE k # Head(l) /\ k \notin Queue!ToSet(tail)
      <4>1. \A i \in DOMAIN l : k # l[i]
        BY <2>1, <2>3, <3>3 DEF Queue!ToSet
      <4>2. job'[k].phase = job[k].phase
        BY <4>1 DEF Lost, SamePhase
      <4>q. QED
        BY <3>3, <4>2 DEF fateBar
    <3>q. QED
      BY <3>1, <3>2, <3>3
  <2>6. l \in Queue!Joined \ {<<>>}
    BY <1>4, LinesAreJoined
  <2>7. runningBar' = FALSE
    BY <1>2 DEF runningBar
  <2>q. QED
    BY <1>2, <2>5, <2>6, <2>7 DEF Queue!LoseConnection, tail
<1>q. QED
  BY <1>3, <1>4

(* A new session is an empty queue.                                        *)
LEMMA QueueInit == Init => Queue!Init
<1> SUFFICES ASSUME Init PROVE Queue!Init
  OBVIOUS
<1>1. currentJob = NoJob /\ queue = <<>> /\ job = [j \in Jobs |-> NewJob]
  BY DEF Init, SessionInit
<1>2. lineBar = <<>>
  <2>1. <<>> \in Seq(Jobs)
    BY EmptySeq
  <2>q. QED
    BY <1>1, <2>1, ConcatEmptySeq DEF lineBar
<1>3. runningBar = FALSE
  BY <1>1 DEF runningBar
<1>4. fateBar = [j \in Jobs |-> "none"]
  <2>1. NewJob.phase = "new"
    BY DEF NewJob
  <2>q. QED
    BY <1>1, <2>1 DEF fateBar
<1>q. QED
  BY <1>2, <1>3, <1>4 DEF Queue!Init

(* Every step of the session is one of the abstract queue or leaves it as  *)
(* it is.                                                                  *)
LEMMA QueueNext ==
  SessionInv /\ SessionInv' /\ LineInv /\ GreetingIsTimely /\ [Next]_vars
    => [Queue!Next]_(Queue!jobQueueVars)
<1> SUFFICES ASSUME SessionInv, SessionInv', LineInv, GreetingIsTimely, [Next]_vars
             PROVE  Queue!Next \/ UNCHANGED <<lineBar, runningBar, fateBar>>
  BY DEF Queue!jobQueueVars
<1>1. LineMoves
  BY NextMovesLine
<1>2. ASSUME NEW l \in Lines, NEW n \in 0..Len(l), Advanced(l, n)
      PROVE  Queue!Next
  BY <1>2, AdvancedIsAdvance DEF Queue!Next
<1>3. ASSUME NEW i \in DOMAIN lineBar, Cancelled(i)
      PROVE  Queue!Next
  BY <1>3, CancelledIsCancel DEF Queue!Next
<1>4. ASSUME NEW l \in Lines, Lost(l)
      PROVE  Queue!Next \/ UNCHANGED <<lineBar, runningBar, fateBar>>
  BY <1>4, LostIsLoseConnection DEF Queue!Next
<1>q. QED
  BY <1>1, <1>2, <1>3, <1>4 DEF LineMoves

(* The session is the abstract job queue: its jobs end in the order they   *)
(* were submitted, only the first runs, and none leaves the line but with  *)
(* a result, by its owner's hand, or with the connection.                  *)
THEOREM SessionImplementsQueue == Spec /\ []GreetingIsTimely => QueueSpec
BY QueueInit, QueueNext, InvariantHolds, LineInvariantHolds, PTL DEF Spec, QueueSpec, Queue!Spec
=============================================================================
