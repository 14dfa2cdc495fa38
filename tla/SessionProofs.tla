--------------------------- MODULE SessionProofs ---------------------------
(***************************************************************************)
(* Proofs about SessionPrivate, for every set of jobs, every tag width and *)
(* every server.  The three invariants are about the variables of Session  *)
(* alone, which only the main thread writes: each of its handlers keeps    *)
(* them whatever the other thread has put into the queues.                 *)
(***************************************************************************)
EXTENDS Connection, SequenceTheorems, TLAPS

TimerType == [active : BOOLEAN, interval : Int]

(* A timer that is off whenever its interval disables it.                  *)
SoundTimer == {t \in TimerType : t.interval < 0 => ~t.active}

-----------------------------------------------------------------------------
(* The operations on the timer keep it sound, and its type.                *)
LEMMA TimerOperations ==
  ASSUME NEW t \in SoundTimer, NEW ms \in Int
  PROVE  /\ StartTimer(t) \in SoundTimer
         /\ StopTimer(t) \in SoundTimer
         /\ RestartTimer(t) \in SoundTimer
         /\ SetSocketTimeout(t, ms) \in SoundTimer
<1>1. ASSUME NEW u \in SoundTimer
      PROVE  StartTimer(u) \in SoundTimer
  <2>1. CASE u.interval >= 0
    <3>1. StartTimer(u) = [u EXCEPT !.active = TRUE]
      BY <2>1 DEF StartTimer
    <3>2. u.interval \in Int /\ [u EXCEPT !.active = TRUE] \in TimerType
      BY DEF SoundTimer, TimerType
    <3>3. ~([u EXCEPT !.active = TRUE].interval < 0)
      BY <2>1, <3>2 DEF SoundTimer, TimerType
    <3>q. QED
      BY <3>1, <3>2, <3>3 DEF SoundTimer
  <2>2. CASE ~(u.interval >= 0)
    <3>1. u.active = FALSE
      BY <2>2 DEF SoundTimer, TimerType
    <3>2. StartTimer(u) = [u EXCEPT !.active = FALSE]
      BY <2>2, <3>1 DEF StartTimer
    <3>q. QED
      BY <2>2, <3>2 DEF SoundTimer, TimerType
  <2>q. QED
    BY <2>1, <2>2
<1>2. \A u \in SoundTimer : StopTimer(u) \in SoundTimer
  BY DEF SoundTimer, TimerType, StopTimer
<1>3. RestartTimer(t) \in SoundTimer
  BY <1>1, <1>2 DEF RestartTimer
<1>4. SetSocketTimeout(t, ms) \in SoundTimer
  <2>1. CASE t.active
    <3>1. StopTimer(t) \in TimerType /\ ~StopTimer(t).active
      BY <2>1 DEF SoundTimer, TimerType, StopTimer
    <3>2. [StopTimer(t) EXCEPT !.interval = ms] \in SoundTimer
      BY <3>1 DEF SoundTimer, TimerType
    <3>q. QED
      BY <1>1, <2>1, <3>2 DEF SetSocketTimeout
  <2>2. CASE ~t.active
    BY <2>2 DEF SoundTimer, TimerType, SetSocketTimeout
  <2>q. QED
    BY <2>1, <2>2
<1>q. QED
  BY <1>1, <1>2, <1>3, <1>4

(* The tag counter wraps inside the range of its type.                     *)
LEMMA NextTagType ==
  ASSUME tagCount \in CommandTag
  PROVE  NextTag \in CommandTag
BY LinkAssumption DEF CommandTag, NextTag

(* What the helpers on job records return.                                 *)
LEMMA JobOperations ==
  ASSUME NEW rec \in JobRecord, NEW failed \in BOOLEAN
  PROVE  /\ Ended(rec, failed) \in JobRecord
         /\ Ended(rec, failed).phase = "done"
         /\ [rec EXCEPT !.phase = "deleted"] \in JobRecord
         /\ [rec EXCEPT !.phase = "queued"] \in JobRecord
BY DEF JobRecord, Ended, Phase

-----------------------------------------------------------------------------
(* The part of the state a handler changes by starting and ending jobs.    *)
RunTypeOK ==
  /\ jobRunning \in BOOLEAN
  /\ currentJob \in Jobs \cup {NoJob}
  /\ queue \in Seq(Jobs)
  /\ job \in [Jobs -> JobRecord]
  /\ pendingTag \in [TrackedVerb -> Tag]
  /\ tagCount \in CommandTag
  /\ upcomingMailBox \in Jobs \cup {NoJob}
  /\ timer \in SoundTimer

(* Both ways to go on with the command tags.                               *)
LEMMA SendCommandType ==
  ASSUME tagCount \in CommandTag, upcomingMailBox \in Jobs \cup {NoJob},
         NEW pt \in [TrackedVerb -> Tag], NEW verb, NEW box \in Jobs \cup {NoJob},
         SendCommand(verb, box, pt) \/ NoCommand(pt)
  PROVE  /\ pendingTag' \in [TrackedVerb -> Tag]
         /\ tagCount' \in CommandTag
         /\ upcomingMailBox' \in Jobs \cup {NoJob}
BY NextTagType DEF SendCommand, NoCommand, Tag

(* Starting a job.                                                         *)
LEMMA DoStartType ==
  ASSUME tagCount \in CommandTag, upcomingMailBox \in Jobs \cup {NoJob},
         NEW j \in Jobs, NEW jobs \in [Jobs -> JobRecord],
         NEW pt \in [TrackedVerb -> Tag], NEW t \in SoundTimer,
         DoStart(j, jobs, pt, t)
  PROVE  /\ job' \in [Jobs -> JobRecord]
         /\ job'[j].phase = "started"
         /\ \A k \in Jobs \ {j} : job'[k] = jobs[k]
         /\ pendingTag' \in [TrackedVerb -> Tag]
         /\ tagCount' \in CommandTag
         /\ upcomingMailBox' \in Jobs \cup {NoJob}
         /\ timer' \in SoundTimer
<1>1. NextTag \in CommandTag
  BY NextTagType
<1>2. FirstStep(j) \in Step
  BY DEF FirstStep, Step
<1>3. t.interval \in Int
  BY DEF SoundTimer, TimerType
<1>4. job' \in [Jobs -> JobRecord] /\ job'[j].phase = "started"
  <2> DEFINE tags == IF FirstCommand(j) = "none" THEN jobs[j].tags
                                                 ELSE jobs[j].tags \cup {NextTag}
             saved == IF Kind[j] = "idle" THEN t.interval ELSE jobs[j].saved
             rec == [jobs[j] EXCEPT !.phase = "started", !.step = FirstStep(j),
                                    !.tags = tags, !.saved = saved]
  <2>1. tags \in SUBSET CommandTag /\ saved \in Int
    BY <1>1, <1>3 DEF JobRecord
  <2>2. rec \in JobRecord /\ rec.phase = "started"
    BY <1>2, <2>1 DEF JobRecord, Phase
  <2>3. job' = [jobs EXCEPT ![j] = rec]
    BY DEF DoStart
  <2>q. QED
    BY <2>2, <2>3
<1>5. \A k \in Jobs \ {j} : job'[k] = jobs[k]
  BY DEF DoStart
<1>6. timer' \in SoundTimer
  BY TimerOperations DEF DoStart
<1>7. /\ pendingTag' \in [TrackedVerb -> Tag]
      /\ tagCount' \in CommandTag
      /\ upcomingMailBox' \in Jobs \cup {NoJob}
  BY SendCommandType DEF DoStart
<1>q. QED
  BY <1>4, <1>5, <1>6, <1>7

-----------------------------------------------------------------------------
(* What the queue's operations on sequences keep of a queue without        *)
(* repetitions.  First a suffix of it.                                     *)
LEMMA Suffix ==
  ASSUME NEW q \in Seq(Jobs), NEW m \in 1..(Len(q) + 1)
  PROVE  /\ SubSeq(q, m, Len(q)) \in Seq(Jobs)
         /\ Len(SubSeq(q, m, Len(q))) = Len(q) - m + 1
         /\ \A i \in 1..(Len(q) - m + 1) : SubSeq(q, m, Len(q))[i] = q[m + i - 1]
         /\ \A k \in ToSet(SubSeq(q, m, Len(q))) : \E i \in m..Len(q) : k = q[i]
         /\ IsInjective(q) => IsInjective(SubSeq(q, m, Len(q)))
<1> DEFINE s == SubSeq(q, m, Len(q))
<1>1. Len(q) \in Nat /\ DOMAIN q = 1..Len(q) /\ \A i \in 1..Len(q) : q[i] \in Jobs
  BY LenProperties, ElementOfSeq
<1>2. /\ s \in Seq(Jobs)
      /\ Len(s) = Len(q) - m + 1
      /\ \A i \in 1..(Len(q) - m + 1) : s[i] = q[m + i - 1]
  BY <1>1, SubSeqProperties
<1>3. DOMAIN s = 1..(Len(q) - m + 1)
  BY <1>2, LenProperties
<1>4. ToSet(s) \subseteq {q[i] : i \in m..Len(q)}
  <2> SUFFICES ASSUME NEW i \in DOMAIN s
               PROVE  s[i] \in {q[n] : n \in m..Len(q)}
    BY DEF ToSet
  <2>1. m + i - 1 \in m..Len(q) /\ s[i] = q[m + i - 1]
    BY <1>1, <1>2, <1>3
  <2>q. QED
    BY <2>1
<1>5. ASSUME IsInjective(q), NEW a \in DOMAIN s, NEW b \in DOMAIN s, s[a] = s[b]
      PROVE  a = b
  <2>1. m + a - 1 \in DOMAIN q /\ m + b - 1 \in DOMAIN q /\ q[m + a - 1] = q[m + b - 1]
    BY <1>1, <1>2, <1>3, <1>5
  <2>2. m + a - 1 = m + b - 1
    BY <1>5, <2>1 DEF IsInjective
  <2>q. QED
    BY <1>1, <1>3, <2>2
<1>q. QED
  BY <1>2, <1>4, <1>5 DEF IsInjective

(* Then a new job behind it.                                               *)
LEMMA Appended ==
  ASSUME NEW q \in Seq(Jobs), NEW j \in Jobs \ ToSet(q), IsInjective(q)
  PROVE  /\ Append(q, j) \in Seq(Jobs)
         /\ IsInjective(Append(q, j))
         /\ ToSet(Append(q, j)) = ToSet(q) \cup {j}
<1> DEFINE s == Append(q, j)
<1>1. Len(q) \in Nat /\ DOMAIN q = 1..Len(q)
  BY LenProperties
<1>2. /\ s \in Seq(Jobs)
      /\ Len(s) = Len(q) + 1
      /\ \A i \in 1..Len(q) : s[i] = q[i]
      /\ s[Len(q) + 1] = j
  BY AppendProperties
<1>3. DOMAIN s = 1..(Len(q) + 1)
  BY <1>2, LenProperties
<1>4. \A i \in 1..Len(q) : q[i] # j
  BY <1>1 DEF ToSet
<1>5. IsInjective(s)
  BY <1>1, <1>2, <1>3, <1>4 DEF IsInjective
<1>6. ToSet(s) = ToSet(q) \cup {j}
  <2>1. ToSet(s) \subseteq ToSet(q) \cup {j}
    BY <1>1, <1>2, <1>3 DEF ToSet
  <2>2. j \in ToSet(s)
    BY <1>1, <1>2, <1>3 DEF ToSet
  <2>3. ToSet(q) \subseteq ToSet(s)
    <3> SUFFICES ASSUME NEW i \in DOMAIN q
                 PROVE  q[i] \in ToSet(s)
      BY DEF ToSet
    <3>1. i \in DOMAIN s /\ s[i] = q[i]
      BY <1>1, <1>2, <1>3
    <3>q. QED
      BY <3>1 DEF ToSet
  <2>q. QED
    BY <2>1, <2>2, <2>3
<1>q. QED
  BY <1>2, <1>5, <1>6

(* And the queue without one of its jobs.                                  *)
LEMMA Removed ==
  ASSUME NEW q \in Seq(Jobs), NEW n \in DOMAIN q, IsInjective(q)
  PROVE  /\ RemoveAt(q, n) \in Seq(Jobs)
         /\ IsInjective(RemoveAt(q, n))
         /\ ToSet(RemoveAt(q, n)) \subseteq ToSet(q) \ {q[n]}
<1> DEFINE front == SubSeq(q, 1, n - 1)
           back == SubSeq(q, n + 1, Len(q))
           s == front \o back
           At(i) == IF i <= n - 1 THEN i ELSE i + 1
<1>1. /\ Len(q) \in Nat /\ DOMAIN q = 1..Len(q) /\ n \in 1..Len(q)
      /\ \A i \in 1..Len(q) : q[i] \in Jobs
  BY LenProperties, ElementOfSeq
<1>2. /\ front \in Seq(Jobs)
      /\ Len(front) = n - 1
      /\ \A i \in 1..(n - 1) : front[i] = q[i]
  BY <1>1, SubSeqProperties
<1>3. /\ back \in Seq(Jobs)
      /\ Len(back) = Len(q) - n
      /\ \A i \in 1..(Len(q) - n) : back[i] = q[n + i]
  <2>1. n + 1 \in 1..(Len(q) + 1)
    BY <1>1
  <2>2. /\ back \in Seq(Jobs)
        /\ Len(back) = Len(q) - (n + 1) + 1
        /\ \A i \in 1..(Len(q) - (n + 1) + 1) : back[i] = q[(n + 1) + i - 1]
    BY <2>1, Suffix
  <2>3. Len(q) - (n + 1) + 1 = Len(q) - n
    BY <1>1
  <2>4. \A i \in 1..(Len(q) - n) : (n + 1) + i - 1 = n + i
    BY <1>1
  <2>q. QED
    BY <2>2, <2>3, <2>4
<1>4. /\ s \in Seq(Jobs)
      /\ Len(s) = Len(q) - 1
      /\ \A i \in 1..(Len(q) - 1) : s[i] = IF i <= n - 1 THEN front[i] ELSE back[i - (n - 1)]
  <2>1. /\ s \in Seq(Jobs)
        /\ Len(s) = Len(front) + Len(back)
        /\ \A i \in 1..(Len(front) + Len(back)) :
             s[i] = IF i <= Len(front) THEN front[i] ELSE back[i - Len(front)]
    BY <1>2, <1>3, ConcatProperties
  <2>2. Len(front) + Len(back) = Len(q) - 1
    BY <1>1, <1>2, <1>3
  <2>q. QED
    BY <1>2, <2>1, <2>2
<1>5. DOMAIN s = 1..(Len(q) - 1)
  BY <1>4, LenProperties
<1>6. \A i \in DOMAIN s : At(i) \in DOMAIN q \ {n} /\ s[i] = q[At(i)]
  <2> SUFFICES ASSUME NEW i \in 1..(Len(q) - 1)
               PROVE  At(i) \in 1..Len(q) /\ At(i) # n /\ s[i] = q[At(i)]
    BY <1>1, <1>5
  <2>1. CASE i <= n - 1
    BY <1>1, <1>2, <1>4, <1>5, <2>1
  <2>2. CASE ~(i <= n - 1)
    <3>1. i - (n - 1) \in 1..(Len(q) - n) /\ n + (i - (n - 1)) = i + 1
      BY <1>1, <2>2
    <3>2. s[i] = back[i - (n - 1)]
      BY <1>4, <2>2
    <3>3. back[i - (n - 1)] = q[n + (i - (n - 1))]
      BY <1>3, <3>1
    <3>4. At(i) = i + 1 /\ At(i) \in 1..Len(q) /\ At(i) # n
      BY <1>1, <2>2
    <3>q. QED
      BY <3>1, <3>2, <3>3, <3>4
  <2>q. QED
    BY <2>1, <2>2
<1>7. IsInjective(s)
  <2> SUFFICES ASSUME NEW a \in DOMAIN s, NEW b \in DOMAIN s, s[a] = s[b]
               PROVE  a = b
    BY DEF IsInjective
  <2>1. At(a) \in DOMAIN q /\ At(b) \in DOMAIN q /\ q[At(a)] = q[At(b)]
    BY <1>6
  <2>2. At(a) = At(b)
    BY <2>1 DEF IsInjective
  <2>3. a \in Int /\ b \in Int /\ n \in Int
    BY <1>1, <1>5
  <2>q. QED
    BY <2>2, <2>3
<1>8. ToSet(s) \subseteq ToSet(q) \ {q[n]}
  BY SMTT(30), <1>6 DEF ToSet, IsInjective
<1>q. QED
  BY <1>4, <1>7, <1>8 DEF RemoveAt

-----------------------------------------------------------------------------
(* The values from which doStartNext() may start a job: nothing runs, and  *)
(* the queue holds distinct jobs that have not begun.                      *)
Startable(q, cur, jobs) ==
  /\ IsInjective(q)
  /\ cur \notin ToSet(q)
  /\ \A j \in ToSet(q) : jobs[j].phase = "queued"
  /\ cur # NoJob => jobs[cur].phase = "queued"
  /\ \A j \in Jobs : jobs[j].phase # "started"

(* From such values doStartNext() leaves the queue sound, however many     *)
(* jobs refuse to start.                                                   *)
LEMMA StartNextKeeps ==
  ASSUME tagCount \in CommandTag, upcomingMailBox \in Jobs \cup {NoJob},
         NEW q \in Seq(Jobs), NEW cur \in Jobs \cup {NoJob},
         NEW jobs \in [Jobs -> JobRecord], NEW st,
         NEW pt \in [TrackedVerb -> Tag], NEW t \in SoundTimer,
         Startable(q, cur, jobs),
         StartNext(q, cur, jobs, st, pt, t)
  PROVE  RunTypeOK' /\ QueueSound'
<1> DEFINE Refusing(n) == {q[i] : i \in 1..n}
           Jobs2(n) == [j \in Jobs |-> IF j \in Refusing(n) THEN Ended(jobs[j], TRUE) ELSE jobs[j]]
           Timer2(n) == IF n = 0 THEN t ELSE StopTimer(RestartTimer(t))
           NoneLeft(n) == /\ n = Len(q)
                          /\ queue' = <<>>
                          /\ jobRunning' = FALSE
                          /\ currentJob' = IF n = 0 THEN cur ELSE NoJob
                          /\ job' = Jobs2(n)
                          /\ timer' = Timer2(n)
                          /\ NoCommand(pt)
           Starts(n) == /\ n < Len(q)
                        /\ queue' = SubSeq(q, n + 2, Len(q))
                        /\ jobRunning' = TRUE
                        /\ currentJob' = q[n + 1]
                        /\ DoStart(q[n + 1], Jobs2(n), pt, RestartTimer(Timer2(n)))
<1>1. PICK n \in 0..Len(q) : NoneLeft(n) \/ Starts(n)
  BY DEF StartNext
<1>2. Len(q) \in Nat /\ DOMAIN q = 1..Len(q) /\ \A i \in 1..Len(q) : q[i] \in Jobs
  BY LenProperties, ElementOfSeq
<1>3. Jobs2(n) \in [Jobs -> JobRecord]
  BY JobOperations
<1>4. Timer2(n) \in SoundTimer
  BY TimerOperations, 0 \in Int
<1>5. \A j \in Jobs : Jobs2(n)[j].phase # "started"
  BY JobOperations DEF Startable
<1>6. CASE NoneLeft(n)
  <2>1. RunTypeOK'
    BY <1>3, <1>4, <1>6, SendCommandType, EmptySeq DEF RunTypeOK
  <2>2. currentJob' # NoJob => job'[currentJob'].phase = "queued"
    <3>1. n = 0 => Jobs2(n) = jobs
      BY <1>3
    <3>q. QED
      BY <1>6, <3>1 DEF Startable
  <2>3. ToSet(<<>>) = {} /\ IsInjective(<<>>)
    BY DEF ToSet, IsInjective
  <2>q. QED
    BY <1>5, <1>6, <2>1, <2>2, <2>3 DEF QueueSound, Waiting, Pending
<1>7. CASE Starts(n)
  <2> DEFINE next == q[n + 1]
             rest == SubSeq(q, n + 2, Len(q))
  <2>1. next \in Jobs /\ n + 1 \in DOMAIN q
    BY <1>2, <1>7
  <2>2. /\ rest \in Seq(Jobs)
        /\ \A k \in ToSet(rest) : \E i \in (n + 2)..Len(q) : k = q[i]
        /\ IsInjective(rest)
    <3>1. n + 2 \in 1..(Len(q) + 1)
      BY <1>2, <1>7
    <3>q. QED
      BY <3>1, Suffix DEF Startable
  <2>3. /\ job' \in [Jobs -> JobRecord]
        /\ job'[next].phase = "started"
        /\ \A k \in Jobs \ {next} : job'[k] = Jobs2(n)[k]
        /\ pendingTag' \in [TrackedVerb -> Tag]
        /\ tagCount' \in CommandTag
        /\ upcomingMailBox' \in Jobs \cup {NoJob}
        /\ timer' \in SoundTimer
    <3>1. RestartTimer(Timer2(n)) \in SoundTimer
      BY <1>4, TimerOperations, 0 \in Int
    <3> HIDE DEF Jobs2, Timer2
    <3>q. QED
      BY <1>3, <1>7, <2>1, <3>1, DoStartType
  <2>4. ASSUME NEW k \in ToSet(rest)
        PROVE  k \in Jobs /\ k # next /\ Jobs2(n)[k].phase = "queued"
    <3>1. PICK i \in (n + 2)..Len(q) : k = q[i]
      BY <2>2
    <3>2. i \in DOMAIN q /\ \A m \in 1..(n + 1) : m \in DOMAIN q /\ m # i
      BY <1>2, <1>7
    <3>3. \A m \in 1..(n + 1) : q[m] # k
      BY <3>1, <3>2 DEF Startable, IsInjective
    <3>4. k \in Jobs /\ k # next /\ k \notin Refusing(n)
      BY <1>2, <3>1, <3>2, <3>3
    <3>5. jobs[k].phase = "queued"
      BY <3>1, <3>2 DEF Startable, ToSet
    <3>q. QED
      BY <3>4, <3>5
  <2>5. RunTypeOK'
    BY <1>7, <2>1, <2>2, <2>3 DEF RunTypeOK
  <2>6. QueueSound'
    <3>1. next # NoJob
      BY <2>1, LinkAssumption
    <3>2. \A k \in Jobs : job'[k].phase = "started" => k = next
      BY <1>5, <2>3
    <3>3. /\ IsInjective(queue')
          /\ currentJob' \notin ToSet(queue')
          /\ \A k \in ToSet(queue') : job'[k].phase = "queued"
      BY <1>7, <2>2, <2>3, <2>4
    <3>q. QED
      BY <1>7, <2>3, <3>2, <3>3 DEF QueueSound, Waiting, Pending
  <2>q. QED
    BY <2>5, <2>6
<1>q. QED
  BY <1>1, <1>6, <1>7

-----------------------------------------------------------------------------
(* A step that starts, ends and moves no job leaves the queue sound.       *)
LEMMA SameQueue ==
  ASSUME QueueSound, UNCHANGED <<currentJob, jobRunning, queue>>,
         currentJob \in Jobs \cup {NoJob}, queue \in Seq(Jobs),
         \A j \in Jobs : job'[j].phase = job[j].phase
  PROVE  QueueSound'
<1>1. ToSet(queue) \subseteq Jobs
  BY LenProperties, ElementOfSeq DEF ToSet
<1>q. QED
  BY <1>1 DEF QueueSound, Waiting, Pending

(* So does one after which no job is left.                                 *)
LEMMA NoQueue ==
  ASSUME queue' = <<>>, currentJob' = NoJob, \A j \in Jobs : job'[j].phase # "started"
  PROVE  QueueSound'
BY DEF QueueSound, Waiting, Pending, ToSet, IsInjective

(* The queue with the jobs started from a slot behind it.                  *)
LEMMA WithSlots ==
  ASSUME RunTypeOK, QueueSound, NEW late \in FromSlot
  PROVE  /\ queue \o late \in Seq(Jobs)
         /\ IsInjective(queue \o late)
         /\ ToSet(queue \o late) = ToSet(queue) \cup ToSet(late)
         /\ \A k \in ToSet(queue) : k \in Jobs /\ job[k].phase = "queued"
         /\ \A k \in ToSet(late) : k \in Jobs /\ job[k].phase = "new"
<1>1. \A k \in ToSet(queue) : k \in Jobs /\ job[k].phase = "queued"
  BY LenProperties, ElementOfSeq DEF RunTypeOK, QueueSound, Waiting, ToSet
<1>2. CASE late = <<>>
  <2>1. queue \o late = queue /\ ToSet(late) = {}
    BY <1>2, ConcatEmptySeq DEF RunTypeOK, ToSet
  <2>q. QED
    BY <1>1, <2>1 DEF RunTypeOK, QueueSound
<1>3. CASE late # <<>>
  <2>1. PICK j \in Reentrant : job[j].phase = "new" /\ late = <<j>>
    BY <1>3 DEF FromSlot
  <2>2. j \in Jobs \ ToSet(queue)
    BY <1>1, <2>1, SessionAssumption
  <2>3. queue \o late = Append(queue, j)
    BY <2>1, <2>2, AppendIsConcat DEF RunTypeOK
  <2>4. ToSet(late) = {j}
    BY <2>1 DEF ToSet
  <2>5. /\ Append(queue, j) \in Seq(Jobs)
        /\ IsInjective(Append(queue, j))
        /\ ToSet(Append(queue, j)) = ToSet(queue) \cup {j}
    BY <2>2, Appended DEF RunTypeOK, QueueSound
  <2>q. QED
    BY <1>1, <2>1, <2>2, <2>3, <2>4, <2>5
<1>q. QED
  BY <1>2, <1>3

(* The end of the current job: what it leaves to doStartNext().            *)
JobsLeft(j, failed, late) == Enqueued([job EXCEPT ![j] = Ended(@, failed)], late)
TimerLeft(j) == StopTimer(AfterResult(j, RestartTimer(timer)))

(* What the end of a job leaves is something the next job can be started   *)
(* from.                                                                   *)
LEMMA FinishLeaves ==
  ASSUME RunTypeOK, QueueSound, NEW j \in Jobs, j = currentJob, NEW failed \in BOOLEAN,
         NEW late \in FromSlot
  PROVE  /\ queue \o late \in Seq(Jobs)
         /\ JobsLeft(j, failed, late) \in [Jobs -> JobRecord]
         /\ Startable(queue \o late, NoJob, JobsLeft(j, failed, late))
         /\ \A k \in Jobs : JobsLeft(j, failed, late)[k].phase \in {"new", "queued"} =>
              /\ job[k].phase \in {"new", "queued"}
              /\ JobsLeft(j, failed, late)[k].stopped = job[k].stopped
         /\ TimerLeft(j) \in SoundTimer
<1> DEFINE ended == [job EXCEPT ![j] = Ended(@, failed)]
           jobs == JobsLeft(j, failed, late)
           q == queue \o late
<1>1. /\ q \in Seq(Jobs)
      /\ IsInjective(q)
      /\ ToSet(q) = ToSet(queue) \cup ToSet(late)
      /\ \A k \in ToSet(queue) : k \in Jobs /\ job[k].phase = "queued"
      /\ \A k \in ToSet(late) : k \in Jobs /\ job[k].phase = "new"
  BY WithSlots
<1>2. /\ ended \in [Jobs -> JobRecord]
      /\ ended[j].phase = "done"
      /\ \A k \in Jobs \ {j} : ended[k] = job[k]
  BY JobOperations DEF RunTypeOK
<1>3. Pending(j) /\ j \notin ToSet(queue) /\ j \notin ToSet(late)
  BY <1>1, LinkAssumption DEF QueueSound, Waiting, Pending
<1>4. /\ jobs \in [Jobs -> JobRecord]
      /\ \A k \in ToSet(late) : jobs[k].phase = "queued" /\ jobs[k].stopped = job[k].stopped
      /\ \A k \in Jobs \ ToSet(late) : jobs[k] = ended[k]
  <2>1. \A k \in Jobs : /\ ended[k] \in JobRecord
                        /\ [ended[k] EXCEPT !.phase = "queued"] \in JobRecord
                        /\ [ended[k] EXCEPT !.phase = "queued"].phase = "queued"
                        /\ [ended[k] EXCEPT !.phase = "queued"].stopped = ended[k].stopped
    BY <1>2, JobOperations DEF JobRecord, Phase
  <2>2. \A k \in ToSet(late) : k \in Jobs \ {j}
    BY <1>1, <1>3
  <2>q. QED
    BY <1>1, <1>2, <2>1, <2>2 DEF Enqueued, JobsLeft
<1>5. TimerLeft(j) \in SoundTimer
  <2>1. job[j].saved \in Int
    BY DEF RunTypeOK, JobRecord
  <2>q. QED
    BY <2>1, TimerOperations DEF TimerLeft, AfterResult, RunTypeOK
<1> HIDE DEF jobs
<1>6. Startable(q, NoJob, jobs)
  <2>1. NoJob \notin ToSet(q)
    BY <1>1, LinkAssumption
  <2>2. \A k \in ToSet(q) : jobs[k].phase = "queued"
    <3> SUFFICES ASSUME NEW k \in ToSet(q), k \notin ToSet(late)
                 PROVE  jobs[k].phase = "queued"
      BY <1>4
    <3>1. k \in Jobs \ {j} /\ job[k].phase = "queued"
      BY <1>1, <1>3
    <3>q. QED
      BY <1>2, <1>4, <3>1
  <2>3. ASSUME NEW k \in Jobs
        PROVE  jobs[k].phase # "started"
    <3>1. CASE k \in ToSet(late)
      BY <1>4, <3>1
    <3>2. CASE k \notin ToSet(late)
      <4>1. jobs[k] = ended[k]
        BY <1>4, <3>2
      <4>2. k # j => ended[k] = job[k] /\ job[k].phase # "started"
        BY <1>2 DEF QueueSound
      <4>q. QED
        BY <1>2, <4>1, <4>2
    <3>q. QED
      BY <3>1, <3>2
  <2>q. QED
    BY <1>1, <2>1, <2>2, <2>3 DEF Startable
<1>7. ASSUME NEW k \in Jobs, jobs[k].phase \in {"new", "queued"}
      PROVE  job[k].phase \in {"new", "queued"} /\ jobs[k].stopped = job[k].stopped
  <2>1. CASE k \in ToSet(late)
    BY <1>1, <1>4, <2>1
  <2>2. CASE k \notin ToSet(late)
    <3>1. jobs[k] = ended[k] /\ k # j
      BY <1>2, <1>4, <1>7, <2>2
    <3>q. QED
      BY <1>2, <1>7, <3>1
  <2>q. QED
    BY <2>1, <2>2
<1>q. QED
  BY <1>1, <1>4, <1>5, <1>6, <1>7 DEF jobs

(* The end of a job and the start of the next.                             *)
LEMMA FinishKeeps ==
  ASSUME RunTypeOK, QueueSound, NEW j \in Jobs, j = currentJob,
         NEW failed \in BOOLEAN, NEW st, NEW pt \in [TrackedVerb -> Tag],
         Finish(j, failed, st, pt)
  PROVE  RunTypeOK' /\ QueueSound'
<1>1. PICK late \in FromSlot :
        StartNext(queue \o late, NoJob, JobsLeft(j, failed, late), st, pt, TimerLeft(j))
  BY DEF Finish, JobsLeft, TimerLeft
<1>q. QED
  BY <1>1, FinishLeaves, StartNextKeeps DEF RunTypeOK

-----------------------------------------------------------------------------
(* A response the current job ignores.                                     *)
LEMMA IgnoredKeeps ==
  ASSUME RunTypeOK, QueueSound, NEW pt \in [TrackedVerb -> Tag], Ignored(pt)
  PROVE  RunTypeOK' /\ QueueSound'
<1>1. UNCHANGED <<jobRunning, currentJob, queue, job>>
  BY DEF Ignored, runVars
<1>2. QueueSound'
  BY <1>1, SameQueue DEF RunTypeOK
<1>q. QED
  BY <1>1, <1>2, TimerOperations, SendCommandType, 0 \in Int DEF RunTypeOK, Ignored

(* A login that goes on with its next command.                             *)
LEMMA ContinueKeeps ==
  ASSUME RunTypeOK, QueueSound, NEW j \in Jobs, NEW pt \in [TrackedVerb -> Tag],
         NEW verb, NEW step \in Step, Continue(j, verb, step, pt)
  PROVE  RunTypeOK' /\ QueueSound'
<1>1. /\ job' = [job EXCEPT ![j].step = step, ![j].tags = @ \cup {NextTag}]
      /\ timer' = RestartTimer(timer)
      /\ SendCommand(verb, NoJob, pt)
      /\ UNCHANGED <<jobRunning, currentJob, queue>>
  BY DEF Continue
<1>2. job' \in [Jobs -> JobRecord] /\ \A k \in Jobs : job'[k].phase = job[k].phase
  <2> DEFINE rec == [job[j] EXCEPT !.step = step, !.tags = @ \cup {NextTag}]
  <2>1. rec \in JobRecord /\ rec.phase = job[j].phase
    BY NextTagType DEF RunTypeOK, JobRecord
  <2>2. job' = [job EXCEPT ![j] = rec]
    BY <1>1
  <2>q. QED
    BY <2>1, <2>2 DEF RunTypeOK
<1>3. QueueSound'
  BY <1>1, <1>2, SameQueue DEF RunTypeOK
<1>4. /\ pendingTag' \in [TrackedVerb -> Tag]
      /\ tagCount' \in CommandTag
      /\ upcomingMailBox' \in Jobs \cup {NoJob}
  BY <1>1, SendCommandType DEF RunTypeOK
<1>q. QED
  BY <1>1, <1>2, <1>3, <1>4, TimerOperations, 0 \in Int DEF RunTypeOK

(* The switch on authState.                                                *)
LEMMA LoginStepKeeps ==
  ASSUME RunTypeOK, QueueSound, NEW j \in Jobs, j = currentJob, NEW st,
         NEW pt \in [TrackedVerb -> Tag], LoginStep(j, st, pt)
  PROVE  RunTypeOK' /\ QueueSound'
<1>1. CASE \E failed \in BOOLEAN : Finish(j, failed, st, pt)
  BY <1>1, FinishKeeps
<1>2. CASE Continue(j, "STARTTLS", "StartTls", pt)
  BY <1>2, ContinueKeeps DEF Step
<1>3. CASE Continue(j, "LOGIN", "Login", pt)
  BY <1>3, ContinueKeeps DEF Step
<1>4. CASE /\ timer' = RestartTimer(timer)
           /\ pendingTag' = pt
           /\ UNCHANGED <<runVars, tagCount, upcomingMailBox, dataQueue>>
  <2>1. QueueSound'
    BY <1>4, SameQueue DEF runVars, RunTypeOK
  <2>q. QED
    BY <1>4, <2>1, TimerOperations, 0 \in Int DEF runVars, RunTypeOK
<1>q. QED
  BY <1>1, <1>2, <1>3, <1>4 DEF LoginStep

(* A response the current job handles, of whatever class it is.            *)
LEMMA HandleResponseKeeps ==
  ASSUME RunTypeOK, QueueSound, NEW j \in Jobs, j = currentJob, NEW r, NEW st,
         NEW pt \in [TrackedVerb -> Tag], HandleResponse(j, r, st, pt)
  PROVE  RunTypeOK' /\ QueueSound'
<1>1. CASE \E failed \in BOOLEAN : Finish(j, failed, st, pt)
  BY <1>1, FinishKeeps
<1>2. CASE Ignored(pt)
  BY <1>2, IgnoredKeeps
<1>3. CASE LoginStep(j, st, pt)
  BY <1>3, LoginStepKeeps
<1>q. QED
  BY <1>1, <1>2, <1>3 DEF HandleResponse, LoginResponse, PlainResponse

(* The end of every job when there is no connection any more.              *)
LEMMA ClearJobQueueKeeps ==
  ASSUME RunTypeOK, QueueSound, NEW late \in FromSlot, NEW t \in SoundTimer,
         ClearJobQueue(queue \o late, t)
  PROVE  /\ jobRunning' \in BOOLEAN
         /\ currentJob' = NoJob
         /\ queue' = <<>>
         /\ job' \in [Jobs -> JobRecord]
         /\ timer' \in SoundTimer
         /\ QueueSound'
<1> DEFINE q == queue \o late
           victim == IF currentJob # NoJob THEN currentJob
                     ELSE IF q # <<>> THEN Head(q) ELSE NoJob
           kill == ToSet(q) \ {victim}
<1>1. q \in Seq(Jobs)
  BY WithSlots
<1>2. victim \in Jobs \cup {NoJob}
  BY <1>1, HeadTailProperties DEF RunTypeOK
<1>3. /\ queue' = <<>>
      /\ currentJob' = NoJob
      /\ jobRunning' = (jobRunning /\ victim = NoJob)
      /\ job' = [j \in Jobs |-> IF j = victim THEN Ended(job[j], Kind[j] # "logout")
                                ELSE IF j \in kill THEN [job[j] EXCEPT !.phase = "deleted"]
                                ELSE job[j]]
      /\ timer' = IF victim = NoJob THEN t ELSE StopTimer(AfterResult(victim, t))
  BY DEF ClearJobQueue
<1> HIDE DEF victim, kill
<1>4. /\ job' \in [Jobs -> JobRecord]
      /\ \A j \in Jobs : job'[j].phase \in {"done", "deleted", job[j].phase}
      /\ \A j \in Jobs : j = victim => job'[j].phase = "done"
  <2>1. \A j \in Jobs : /\ Ended(job[j], Kind[j] # "logout") \in JobRecord
                        /\ Ended(job[j], Kind[j] # "logout").phase = "done"
                        /\ [job[j] EXCEPT !.phase = "deleted"] \in JobRecord
                        /\ [job[j] EXCEPT !.phase = "deleted"].phase = "deleted"
    BY ZenonT(40), JobOperations DEF RunTypeOK, JobRecord
  <2>q. QED
    BY <1>3, <2>1 DEF RunTypeOK
<1>5. timer' \in SoundTimer
  <2>1. ASSUME victim \in Jobs
        PROVE  StopTimer(AfterResult(victim, t)) \in SoundTimer
    <3>1. job[victim].saved \in Int
      BY <2>1 DEF RunTypeOK, JobRecord
    <3>q. QED
      BY <3>1, TimerOperations, 0 \in Int DEF AfterResult
  <2>q. QED
    BY <1>2, <1>3, <2>1
<1>6. \A j \in Jobs : job'[j].phase # "started"
  <2> SUFFICES ASSUME NEW j \in Jobs, job[j].phase = "started"
               PROVE  job'[j].phase # "started"
    BY <1>4
  <2>1. j = currentJob /\ j # NoJob
    BY LinkAssumption DEF QueueSound
  <2>2. j = victim
    BY <2>1 DEF victim
  <2>q. QED
    BY <1>4, <2>2
<1>7. QueueSound'
  BY <1>3, <1>6, NoQueue
<1>q. QED
  BY <1>3, <1>4, <1>5, <1>7 DEF RunTypeOK

-----------------------------------------------------------------------------
(* The inductive invariant: types, the queue, and a timer that is off when *)
(* it is disabled.  Each part needs the others' types only.                *)
RestTypeOK == /\ state \in State
              /\ isSocketConnected \in BOOLEAN
              /\ sslVersion \in BOOLEAN
              /\ currentMailBox \in Jobs \cup {NoJob}

SessionInv == RunTypeOK /\ RestTypeOK /\ QueueSound

(* It says of the timer what SessionTypeOK and DisabledTimerIsOff say.     *)
LEMMA SessionInvMeaning ==
  SessionInv <=> SessionTypeOK /\ DisabledTimerIsOff /\ QueueSound
BY DEF SessionInv, RunTypeOK, RestTypeOK, SessionTypeOK, DisabledTimerIsOff, SoundTimer, TimerType

(* The constructor establishes it.                                         *)
LEMMA InitHolds == Init => SessionInv
<1> SUFFICES ASSUME SessionInit PROVE SessionInv
  BY DEF Init
<1>1. NewJob \in JobRecord
  BY DEF NewJob, JobRecord, Phase, Step
<1>2. 0 \in CommandTag
  BY LinkAssumption DEF CommandTag
<1>3. RunTypeOK
  <2>1. timer \in TimerType /\ ~(timer.interval < 0)
    BY SessionAssumption DEF SessionInit, TimerType
  <2>2. timer \in SoundTimer
    BY <2>1 DEF SoundTimer
  <2>q. QED
    BY <1>1, <1>2, <2>2, EmptySeq DEF SessionInit, RunTypeOK, Tag
<1>4. RestTypeOK
  BY DEF SessionInit, RestTypeOK, State
<1>5. QueueSound
  BY LinkAssumption DEF SessionInit, QueueSound, Waiting, ToSet, IsInjective, NewJob
<1>q. QED
  BY <1>3, <1>4, <1>5 DEF SessionInv

(* socketDisconnected(), as a handler and in the destructor.               *)
LEMMA ConnectionGoneKeeps ==
  ASSUME SessionInv, ConnectionGone
  PROVE  SessionInv'
<1> USE DEF SessionInv
<1>1. PICK late \in FromSlot : ClearJobQueue(queue \o late, StopTimer(timer))
  BY DEF ConnectionGone
<1>2. StopTimer(timer) \in SoundTimer
  BY TimerOperations, 0 \in Int DEF RunTypeOK
<1>3. RestTypeOK' /\ UNCHANGED tagVars
  BY DEF ConnectionGone, RestTypeOK, State
<1>q. QED
  BY <1>1, <1>2, <1>3, ClearJobQueueKeeps, EmptySeq DEF RunTypeOK, tagVars

(* The signals of the secondary thread, one step per handler.              *)
LEMMA HandleSignalKeeps ==
  ASSUME SessionInv, HandleSignal
  PROVE  SessionInv'
<1> USE DEF SessionInv
<1>1. ASSUME SocketConnected
      PROVE  SessionInv'
  <2>1. UNCHANGED <<state, sslVersion, runVars, currentMailBox, tagVars>> /\ isSocketConnected' = TRUE
    BY <1>1 DEF SocketConnected, mailVars
  <2>2. timer' \in SoundTimer
    BY <1>1, TimerOperations, 0 \in Int DEF SocketConnected, RunTypeOK
  <2>3. QueueSound'
    BY <2>1, SameQueue DEF runVars, RunTypeOK
  <2>q. QED
    BY <2>1, <2>2, <2>3 DEF runVars, tagVars, RunTypeOK, RestTypeOK
<1>2. ASSUME SocketDisconnected
      PROVE  SessionInv'
  BY <1>2, ConnectionGoneKeeps DEF SocketDisconnected
<1>3. ASSUME SocketError
      PROVE  SessionInv'
  <2>1. UNCHANGED <<isSocketConnected, sslVersion, mailVars, tagVars>>
    BY <1>3 DEF SocketError
  <2>2. StopTimer(timer) \in SoundTimer
    BY TimerOperations, 0 \in Int DEF RunTypeOK
  <2>3. CASE /\ currentJob = NoJob /\ queue # <<>>
             /\ currentJob' = Head(queue)
             /\ queue' = Tail(queue)
             /\ timer' = StopTimer(timer)
             /\ UNCHANGED <<job, jobRunning>>
    <3>1. /\ Tail(queue) = SubSeq(queue, 2, Len(queue))
          /\ Len(queue) \in Nat /\ 2 \in 1..(Len(queue) + 1)
          /\ Head(queue) = queue[1] /\ 1 \in DOMAIN queue /\ DOMAIN queue = 1..Len(queue)
      BY <2>3, TailIsSubSeq, LenProperties, EmptySeq DEF RunTypeOK
    <3>2. /\ queue' \in Seq(Jobs) /\ IsInjective(queue')
          /\ \A k \in ToSet(queue') : \E i \in 2..Len(queue) : k = queue[i]
      <4>1. queue \in Seq(Jobs) /\ IsInjective(queue) /\ queue' = SubSeq(queue, 2, Len(queue))
        BY <2>3, <3>1 DEF RunTypeOK, QueueSound
      <4>q. QED
        BY <3>1, <4>1, Suffix
    <3>3. currentJob' \in Jobs /\ currentJob' \in Waiting
      BY <2>3, <3>1, ElementOfSeq DEF RunTypeOK, Waiting, ToSet
    <3>4. \A k \in ToSet(queue') : k \in Waiting /\ k # currentJob'
      <4> SUFFICES ASSUME NEW k \in ToSet(queue')
                   PROVE  k \in Waiting /\ k # currentJob'
        OBVIOUS
      <4>1. PICK i \in 2..Len(queue) : k = queue[i]
        BY <3>2
      <4>2. i \in DOMAIN queue /\ i # 1
        BY <3>1
      <4>q. QED
        BY <2>3, <3>1, <4>1, <4>2 DEF QueueSound, IsInjective, Waiting, ToSet
    <3>5. \A k \in Jobs : job[k].phase # "started"
      BY <2>3, LinkAssumption DEF QueueSound
    <3>6. QueueSound'
      BY <2>3, <3>2, <3>3, <3>4, <3>5 DEF QueueSound, Waiting, Pending
    <3>q. QED
      BY <2>1, <2>2, <2>3, <3>2, <3>3, <3>6 DEF RunTypeOK, RestTypeOK, mailVars, tagVars
  <2>4. CASE /\ UNCHANGED <<currentJob, queue, job, jobRunning>>
             /\ timer' = StopTimer(timer)
    <3>1. QueueSound'
      BY <2>4, SameQueue DEF RunTypeOK
    <3>q. QED
      BY <2>1, <2>2, <2>4, <3>1 DEF RunTypeOK, RestTypeOK, mailVars, tagVars
  <2>5. CASE \E late \in FromSlot : ClearJobQueue(queue \o late, StopTimer(timer))
    BY <2>1, <2>2, <2>5, ClearJobQueueKeeps, EmptySeq
    DEF RunTypeOK, RestTypeOK, mailVars, tagVars
  <2>q. QED
    BY <1>3, <2>3, <2>4, <2>5 DEF SocketError
<1>4. ASSUME SocketActivity
      PROVE  SessionInv'
  <2>1. QueueSound'
    BY <1>4, SameQueue DEF SocketActivity, runVars, RunTypeOK
  <2>q. QED
    BY <1>4, <2>1, TimerOperations, 0 \in Int
    DEF SocketActivity, runVars, mailVars, tagVars, RunTypeOK, RestTypeOK
<1>5. ASSUME OnEncryptionNegotiationResult
      PROVE  SessionInv'
  <2>1. sslVersion' = TRUE /\ UNCHANGED <<isSocketConnected, mailVars>>
    BY <1>5 DEF OnEncryptionNegotiationResult
  <2>2. CASE \E j \in Jobs : Continue(j, "CAPABILITY", "Capability", pendingTag)
    <3>1. RunTypeOK' /\ QueueSound'
      BY <2>2, ContinueKeeps DEF Step, RunTypeOK
    <3>q. QED
      BY <2>1, <3>1 DEF RestTypeOK, mailVars
  <2>3. CASE UNCHANGED <<runVars, tagVars, timer>>
    <3>1. QueueSound'
      BY <2>3, SameQueue DEF runVars, RunTypeOK
    <3>q. QED
      BY <2>1, <2>3, <3>1 DEF runVars, mailVars, tagVars, RunTypeOK, RestTypeOK
  <2>q. QED
    BY <1>5, <2>2, <2>3 DEF OnEncryptionNegotiationResult
<1>6. ASSUME HandleSslError
      PROVE  SessionInv'
  <2>1. QueueSound'
    BY <1>6, SameQueue DEF HandleSslError, sessionVars, RunTypeOK
  <2>q. QED
    BY <1>6, <2>1 DEF HandleSslError, sessionVars, RunTypeOK, RestTypeOK
<1>7. ASSUME ResponseReceived
      PROVE  SessionInv'
  <2> DEFINE r == Head(events).response
             pt == ClearTags(pendingTag, r.tag)
  <2>1. pt \in [TrackedVerb -> Tag] /\ UNCHANGED <<isSocketConnected, sslVersion>>
    BY <1>7 DEF ResponseReceived, ClearTags, RunTypeOK, Tag
  <2>2. StopTimer(timer) \in SoundTimer
    BY TimerOperations, 0 \in Int DEF RunTypeOK
  <2>3. CASE UNCHANGED <<runVars, mailVars, tagVars, timer>>
    <3>1. QueueSound'
      BY <2>3, SameQueue DEF runVars, RunTypeOK
    <3>q. QED
      BY <2>1, <2>3, <3>1 DEF runVars, mailVars, tagVars, RunTypeOK, RestTypeOK
  <2>4. CASE Greeting(r) /\ UNCHANGED currentMailBox
    <3>1. RestTypeOK'
      BY <2>1, <2>4 DEF Greeting, RestTypeOK, State
    <3>2. CASE /\ CanStart
               /\ StartNext(queue, currentJob, job, state', pendingTag, StopTimer(timer))
      <4>1. Startable(queue, currentJob, job)
        <5>1. \A k \in Jobs : job[k].phase # "started"
          BY <3>2 DEF CanStart, QueueSound
        <5>q. QED
          BY <5>1 DEF Startable, QueueSound, Waiting, Pending, RunTypeOK
      <4>q. QED
        BY <2>2, <3>1, <3>2, <4>1, StartNextKeeps DEF RunTypeOK
    <3>3. CASE /\ timer' = StopTimer(timer)
               /\ UNCHANGED <<runVars, tagVars>>
      <4>1. QueueSound'
        BY <3>3, SameQueue DEF runVars, RunTypeOK
      <4>q. QED
        BY <2>2, <3>1, <3>3, <4>1 DEF runVars, tagVars, RunTypeOK
    <3>q. QED
      BY <2>4, <3>2, <3>3 DEF Greeting
  <2>5. CASE /\ state' = NextState(r)
             /\ currentMailBox' = NextMailBox(r)
             /\ \/ currentJob # NoJob /\ HandleResponse(currentJob, r, state', pt)
                \/ UNCHANGED <<runVars, timer>> /\ NoCommand(pt)
    <3>1. RestTypeOK'
      BY <2>1, <2>5 DEF NextState, NextMailBox, RestTypeOK, RunTypeOK, State
    <3>2. CASE currentJob # NoJob /\ HandleResponse(currentJob, r, state', pt)
      <4>1. currentJob \in Jobs
        BY <3>2 DEF RunTypeOK
      <4>q. QED
        BY <2>1, <3>1, <3>2, <4>1, HandleResponseKeeps
    <3>3. CASE UNCHANGED <<runVars, timer>> /\ NoCommand(pt)
      <4>1. QueueSound'
        BY <3>3, SameQueue DEF runVars, RunTypeOK
      <4>q. QED
        BY <2>1, <3>1, <3>3, <4>1 DEF runVars, NoCommand, RunTypeOK
    <3>q. QED
      BY <2>5, <3>2, <3>3
  <2>q. QED
    BY <1>7, <2>3, <2>4, <2>5 DEF ResponseReceived
<1>q. QED
  BY <1>1, <1>2, <1>3, <1>4, <1>5, <1>6, <1>7 DEF HandleSignal

(* The calls of the application: addJob(), which puts a new job behind the *)
(* queue,                                                                  *)
LEMMA AddJobLeaves ==
  ASSUME SessionInv, NEW j \in Jobs, job[j].phase = "new"
  PROVE  LET jobs == Enqueued(job, <<j>>)
             q == Append(queue, j)
         IN  /\ q \in Seq(Jobs) /\ IsInjective(q) /\ ToSet(q) = ToSet(queue) \cup {j}
             /\ jobs \in [Jobs -> JobRecord]
             /\ \A k \in Jobs \ {j} : jobs[k] = job[k]
             /\ jobs[j].phase = "queued" /\ jobs[j].stopped = job[j].stopped
             /\ \A k \in ToSet(q) : jobs[k].phase = "queued"
             /\ currentJob \notin ToSet(q)
             /\ CanStart => Startable(q, currentJob, jobs)
<1> DEFINE jobs == Enqueued(job, <<j>>)
           q == Append(queue, j)
<1> USE DEF SessionInv
<1>1. \A k \in ToSet(queue) : k \in Jobs /\ job[k].phase = "queued"
  BY LenProperties, ElementOfSeq DEF RunTypeOK, QueueSound, Waiting, ToSet
<1>2. j \in Jobs \ ToSet(queue) /\ j # currentJob
  BY <1>1, LinkAssumption DEF QueueSound, Pending
<1>3. /\ q \in Seq(Jobs)
      /\ IsInjective(q)
      /\ ToSet(q) = ToSet(queue) \cup {j}
  BY <1>2, Appended DEF RunTypeOK, QueueSound
<1>4. /\ jobs \in [Jobs -> JobRecord]
      /\ jobs[j].phase = "queued" /\ jobs[j].stopped = job[j].stopped
      /\ \A k \in Jobs \ {j} : jobs[k] = job[k]
  <2>1. ToSet(<<j>>) = {j}
    BY DEF ToSet
  <2>2. [job[j] EXCEPT !.phase = "queued"] \in JobRecord
    BY JobOperations DEF RunTypeOK, JobRecord
  <2>3. /\ [job[j] EXCEPT !.phase = "queued"].phase = "queued"
        /\ [job[j] EXCEPT !.phase = "queued"].stopped = job[j].stopped
    BY DEF RunTypeOK, JobRecord
  <2>q. QED
    BY <2>1, <2>2, <2>3 DEF Enqueued, RunTypeOK
<1> HIDE DEF jobs, q
<1>5. \A k \in ToSet(q) : jobs[k].phase = "queued"
  BY <1>1, <1>3, <1>4
<1>6. currentJob \notin ToSet(q)
  BY <1>2, <1>3 DEF QueueSound, Waiting
<1>7. ASSUME CanStart PROVE Startable(q, currentJob, jobs)
  <2>1. \A k \in Jobs : jobs[k].phase # "started"
    BY <1>4, <1>7 DEF CanStart, QueueSound
  <2>2. currentJob # NoJob => jobs[currentJob].phase = "queued"
    BY <1>2, <1>4, <2>1 DEF QueueSound, Pending, RunTypeOK
  <2>q. QED
    BY <1>3, <1>5, <1>6, <2>1, <2>2 DEF Startable
<1>q. QED
  BY <1>3, <1>4, <1>5, <1>6, <1>7 DEF jobs, q

(* starts the next job if none runs,                                      *)
LEMMA AddJobKeeps ==
  ASSUME SessionInv, NEW j \in Jobs, AddJob(j)
  PROVE  SessionInv'
<1> USE DEF SessionInv
<1> DEFINE jobs == Enqueued(job, <<j>>)
           q == Append(queue, j)
<1>1. RestTypeOK'
  BY DEF AddJob, RestTypeOK, mailVars
<1>2. job[j].phase = "new"
  BY DEF AddJob
<1>3. /\ q \in Seq(Jobs) /\ IsInjective(q) /\ ToSet(q) = ToSet(queue) \cup {j}
      /\ jobs \in [Jobs -> JobRecord]
      /\ \A k \in Jobs \ {j} : jobs[k] = job[k]
      /\ jobs[j].phase = "queued"
      /\ \A k \in ToSet(q) : jobs[k].phase = "queued"
      /\ currentJob \notin ToSet(q)
      /\ CanStart => Startable(q, currentJob, jobs)
  BY <1>2, AddJobLeaves
<1> HIDE DEF jobs, q
<1>4. CASE CanStart /\ StartNext(q, currentJob, jobs, state, pendingTag, timer)
  BY <1>1, <1>3, <1>4, StartNextKeeps DEF RunTypeOK
<1>5. CASE /\ queue' = q
           /\ job' = jobs
           /\ UNCHANGED <<jobRunning, currentJob, tagVars, timer>>
  <2>1. QueueSound'
    <3>1. currentJob' # NoJob => job'[currentJob'].phase \in {"queued", "started"}
      BY <1>3, <1>5 DEF QueueSound, Pending, RunTypeOK
    <3>2. \A k \in Jobs : job'[k].phase = "started" => currentJob' = k /\ jobRunning'
      BY <1>3, <1>5 DEF QueueSound
    <3>q. QED
      BY <1>3, <1>5, <3>1, <3>2 DEF QueueSound, Waiting, Pending
  <2>q. QED
    BY <1>1, <1>3, <1>5, <2>1 DEF RunTypeOK, tagVars
<1>q. QED
  BY <1>4, <1>5 DEF AddJob, jobs, q

(* the deletion of a job, which takes it out of the queue,                 *)
LEMMA DeleteJobKeeps ==
  ASSUME SessionInv, NEW j \in Jobs, DeleteJob(j)
  PROVE  SessionInv'
<1> USE DEF SessionInv
<1>1. RestTypeOK' /\ UNCHANGED <<jobRunning, tagVars, timer>>
  BY DEF DeleteJob, RestTypeOK, mailVars
<1>2. /\ job' \in [Jobs -> JobRecord]
      /\ job'[j].phase = "deleted"
      /\ \A k \in Jobs \ {j} : job'[k] = job[k]
  <2> DEFINE rec == [job[j] EXCEPT !.phase = "deleted", !.tags = {}]
  <2>1. rec \in JobRecord /\ rec.phase = "deleted"
    BY DEF RunTypeOK, JobRecord, Phase
  <2>2. job' = [job EXCEPT ![j] = rec]
    BY DEF DeleteJob
  <2>q. QED
    BY <2>1, <2>2 DEF RunTypeOK
<1>3. /\ queue' \in Seq(Jobs)
      /\ IsInjective(queue')
      /\ ToSet(queue') \subseteq Waiting \ {j}
  <2>1. CASE \E i \in DOMAIN queue : queue[i] = j /\ queue' = RemoveAt(queue, i)
    <3>1. PICK i \in DOMAIN queue : queue[i] = j /\ queue' = RemoveAt(queue, i)
      BY <2>1
    <3>q. QED
      BY <3>1, Removed DEF RunTypeOK, QueueSound, Waiting
  <2>2. CASE (\A i \in DOMAIN queue : queue[i] # j) /\ UNCHANGED queue
    BY <2>2 DEF RunTypeOK, QueueSound, Waiting, ToSet
  <2>q. QED
    BY <2>1, <2>2 DEF DeleteJob
<1>4. currentJob' = IF currentJob = j THEN NoJob ELSE currentJob
  BY DEF DeleteJob
<1>5. QueueSound'
  <2>1. \A k \in Waiting : k \in Jobs /\ job[k].phase = "queued"
    BY LenProperties, ElementOfSeq DEF RunTypeOK, QueueSound, Waiting, ToSet
  <2>2. \A k \in ToSet(queue') : job'[k].phase = "queued"
    BY <1>2, <1>3, <2>1
  <2>3. currentJob' \notin ToSet(queue')
    BY <1>3, <1>4, <2>1, LinkAssumption DEF QueueSound
  <2>4. currentJob' # NoJob => job'[currentJob'].phase \in {"queued", "started"}
    BY <1>2, <1>4 DEF QueueSound, Pending, RunTypeOK
  <2>5. \A k \in Jobs : job'[k].phase = "started" => currentJob' = k /\ jobRunning'
    BY <1>1, <1>2, <1>4 DEF QueueSound
  <2>q. QED
    BY <1>3, <2>2, <2>3, <2>4, <2>5 DEF QueueSound, Waiting, Pending
<1>q. QED
  BY <1>1, <1>2, <1>3, <1>4, <1>5 DEF RunTypeOK, tagVars

(* IdleJob::stop(), which moves no job,                                    *)
LEMMA StopIdleKeeps ==
  ASSUME SessionInv, NEW j \in Jobs, StopIdle(j)
  PROVE  SessionInv'
<1> USE DEF SessionInv
<1>1. /\ RestTypeOK'
      /\ UNCHANGED <<jobRunning, currentJob, queue, tagVars>>
  BY DEF StopIdle, RestTypeOK, mailVars
<1>2. job' \in [Jobs -> JobRecord] /\ \A k \in Jobs : job'[k].phase = job[k].phase
  BY DEF StopIdle, RunTypeOK, JobRecord
<1>3. timer' \in SoundTimer
  <2>1. job[j].saved \in Int
    BY DEF RunTypeOK, JobRecord
  <2>q. QED
    BY <2>1, TimerOperations DEF StopIdle, RunTypeOK
<1>4. QueueSound'
  BY <1>1, <1>2, SameQueue DEF RunTypeOK
<1>q. QED
  BY <1>1, <1>2, <1>3, <1>4 DEF RunTypeOK, tagVars

(* What leaves everything but the timer alone.                             *)
LEMMA TimerAloneKeeps ==
  ASSUME SessionInv, timer' \in SoundTimer,
         UNCHANGED <<state, isSocketConnected, sslVersion, runVars, currentMailBox, tagVars>>
  PROVE  SessionInv'
<1> USE DEF SessionInv
<1>1. QueueSound'
  BY SameQueue DEF runVars, RunTypeOK
<1>q. QED
  BY <1>1 DEF RunTypeOK, RestTypeOK, runVars, tagVars

(* and all of them.                                                        *)
LEMMA ApplicationKeeps ==
  ASSUME SessionInv, Application
  PROVE  SessionInv'
<1>1. CASE \E j \in Jobs : AddJob(j)
  BY <1>1, AddJobKeeps
<1>2. CASE \E j \in Deletable : DeleteJob(j)
  BY <1>2, DeleteJobKeeps, ConnectionAssumption
<1>3. CASE \E j \in Jobs : StopIdle(j)
  BY <1>3, StopIdleKeeps
<1>4. CASE UNCHANGED sessionVars
  BY <1>4, TimerAloneKeeps DEF sessionVars, SessionInv, RunTypeOK, runVars, tagVars
<1>5. CASE \E ms \in AppTimeouts : SetTimeout(ms)
  <2>1. timer' \in SoundTimer
    BY <1>5, ConnectionAssumption, TimerOperations DEF SetTimeout, SessionInv, RunTypeOK
  <2>q. QED
    BY <1>5, <2>1, TimerAloneKeeps DEF SetTimeout, mailVars
<1>6. CASE Destroy
  BY <1>6, ConnectionGoneKeeps DEF Destroy
<1>q. QED
  BY <1>1, <1>2, <1>3, <1>4, <1>5, <1>6 DEF Application, Close, SetUseNetworkProxy

(* Every step of the composed system keeps the invariant.                  *)
LEMMA NextKeeps == SessionInv /\ [Next]_vars => SessionInv'
<1> SUFFICES ASSUME SessionInv, [Next]_vars
             PROVE  SessionInv'
  OBVIOUS
<1>1. CASE Application
  BY <1>1, ApplicationKeeps
<1>2. CASE MainThread
  BY <1>2, HandleSignalKeeps DEF MainThread
<1>3. CASE Timeout
  <2>1. timer' \in SoundTimer
    BY <1>3 DEF Timeout, OnSocketTimeout, SessionInv, RunTypeOK, SoundTimer, TimerType
  <2>q. QED
    BY <1>3, <2>1, TimerAloneKeeps DEF Timeout, OnSocketTimeout
<1>4. CASE UNCHANGED sessionVars
  BY <1>4, TimerAloneKeeps DEF sessionVars, SessionInv, RunTypeOK, runVars, tagVars
<1>q. QED
  BY <1>1, <1>2, <1>3, <1>4 DEF Next, SecondaryThread, Socket, Server, vars

(* So it holds in every reachable state.                                   *)
LEMMA InvariantHolds == Spec => []SessionInv
BY InitHolds, NextKeeps, PTL DEF Spec

-----------------------------------------------------------------------------
(* The variables of the session keep their types: in particular the tag    *)
(* counter, which wraps, never names a command outside its 16 bits.        *)
THEOREM SessionTypeCorrect == Spec => []SessionTypeOK
BY InvariantHolds, SessionInvMeaning, PTL

(* The bookkeeping of addJob(), doStartNext(), jobDone(), jobDestroyed()   *)
(* and clearJobQueue() is sound whatever the server, the network and the   *)
(* application do: no job is in the queue twice or while it is current,    *)
(* and no two jobs have commands on the wire.                              *)
THEOREM QueueIsSound == Spec => []QueueSound
BY InvariantHolds, SessionInvMeaning, PTL

(* setSocketTimeout() and the timer's other operations never leave a timer *)
(* running that a negative interval makes unstoppable.                     *)
THEOREM DisabledTimerStaysOff == Spec => []DisabledTimerIsOff
BY InvariantHolds, SessionInvMeaning, PTL
=============================================================================
