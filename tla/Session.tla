------------------------------ MODULE Session ------------------------------
(***************************************************************************)
(* SessionPrivate (src/src/session.cpp): the main-thread half of an IMAP   *)
(* session.  It owns the queue of jobs, runs them one at a time, follows   *)
(* the protocol state through the tagged replies, and watches the          *)
(* connection with one single-shot timer.                                  *)
(*                                                                         *)
(* Every action is one turn of the main event loop: the handling of one    *)
(* queued signal of SessionThread, the timer firing, or a call of the      *)
(* application.  Same-thread invokeMethod is a direct call, so what a      *)
(* handler triggers (result -> jobDone -> doStartNext -> the next job's    *)
(* doStart) belongs to the same step.                                      *)
(***************************************************************************)
EXTENDS SessionLink, FiniteSets, SequencesExt

CONSTANTS Kind,            (* Kind[j]: the class and encryption mode of j  *)
          Reentrant,       (* jobs the application may start from a slot   *)
          DefaultTimeout   (* socketTimerInterval's initial value          *)

LoginKind == {"login", "starttls", "tls"}
JobKind == LoginKind \cup {"select", "close", "idle", "logout", "plain"}

ASSUME SessionAssumption ==
       /\ Kind \in [Jobs -> JobKind]
       /\ Reentrant \subseteq Jobs
       /\ DefaultTimeout \in Nat

VARIABLES state,              (* Session::State                            *)
          isSocketConnected,
          sslVersion,         (* TRUE iff negotiatedEncryption() is known  *)
          jobRunning,
          currentJob,
          queue,
          job,                (* the job objects themselves                *)
          pendingTag,         (* authTag, selectTag and closeTag           *)
          tagCount,
          currentMailBox,
          upcomingMailBox,
          timer               (* socketTimer and socketTimerInterval       *)

runVars  == <<jobRunning, currentJob, queue, job>>
mailVars == <<state, currentMailBox>>
tagVars  == <<pendingTag, tagCount, upcomingMailBox>>
sessionVars == <<state, isSocketConnected, sslVersion, jobRunning, currentJob, queue, job,
                 pendingTag, tagCount, currentMailBox, upcomingMailBox, timer>>

-----------------------------------------------------------------------------
State == {"Disconnected", "NotAuthenticated", "Authenticated", "Selected"}
Phase == {"new", "queued", "started", "done", "deleted"}
Step  == {"PreStartTlsCapability", "StartTls", "Capability", "Login"}

(* phase follows the object's life; error is error() # 0; step is          *)
(* LoginJob's authState; saved is IdleJob's originalSocketTimeout; stopped *)
(* records that the application called IdleJob::stop().                    *)
JobRecord == [phase : Phase, error : BOOLEAN, tags : SUBSET CommandTag, step : Step,
              saved : Int, stopped : BOOLEAN]

NewJob == [phase |-> "new", error |-> FALSE, tags |-> {}, step |-> "Login",
           saved |-> -1, stopped |-> FALSE]

TrackedVerb == {"LOGIN", "SELECT", "CLOSE"}

SessionTypeOK ==
  /\ state \in State
  /\ isSocketConnected \in BOOLEAN
  /\ sslVersion \in BOOLEAN
  /\ jobRunning \in BOOLEAN
  /\ currentJob \in Jobs \cup {NoJob}
  /\ queue \in Seq(Jobs)
  /\ job \in [Jobs -> JobRecord]
  /\ pendingTag \in [TrackedVerb -> Tag]
  /\ tagCount \in CommandTag
  /\ currentMailBox \in Jobs \cup {NoJob}
  /\ upcomingMailBox \in Jobs \cup {NoJob}
  /\ timer \in [active : BOOLEAN, interval : Int]

(* The constructor ends with startSocketTimer().                           *)
SessionInit ==
  /\ state = "Disconnected"
  /\ isSocketConnected = FALSE
  /\ sslVersion = FALSE
  /\ jobRunning = FALSE
  /\ currentJob = NoJob
  /\ queue = <<>>
  /\ job = [j \in Jobs |-> NewJob]
  /\ pendingTag = [v \in TrackedVerb |-> NoTag]
  /\ tagCount = 0
  /\ currentMailBox = NoJob
  /\ upcomingMailBox = NoJob
  /\ timer = [active |-> TRUE, interval |-> DefaultTimeout]

-----------------------------------------------------------------------------
(* The timer: a negative interval makes start and stop no-ops.             *)
StartTimer(t) == [t EXCEPT !.active = @ \/ t.interval >= 0]
StopTimer(t)  == [t EXCEPT !.active = @ /\ t.interval < 0]

(* Mutant: the timer is stopped, but not started again.                    *)
RestartWithoutStart(t) == StopTimer(t)

RestartTimer(t) == StartTimer(StopTimer(t))

(* Mutant: the interval is changed before the timer is stopped.            *)
IntervalFirst(t, ms) ==
  IF t.active THEN StartTimer(StopTimer([t EXCEPT !.interval = ms]))
              ELSE [t EXCEPT !.interval = ms]

SetSocketTimeout(t, ms) ==
  IF t.active THEN StartTimer([StopTimer(t) EXCEPT !.interval = ms])
              ELSE [t EXCEPT !.interval = ms]

-----------------------------------------------------------------------------
(* Mutant: a counter that does not wrap.                                   *)
UnboundedTag == tagCount + 1

NextTag == (tagCount + 1) % TagModulus

(* Sending a command: the next tag, remembered for the verbs that change   *)
(* the session's state.  Callers restart the timer, as sendData() does.    *)
SendCommand(verb, box, pt) ==
  /\ tagCount' = NextTag
  /\ pendingTag' = [v \in TrackedVerb |-> IF v = verb THEN NextTag ELSE pt[v]]
  /\ upcomingMailBox' = IF verb = "SELECT" THEN box ELSE upcomingMailBox
  /\ dataQueue' = Append(dataQueue, [tag |-> NextTag, verb |-> verb, box |-> box])
  /\ Post("writeDataQueue")

NoCommand(pt) ==
  /\ pendingTag' = pt
  /\ UNCHANGED <<tagCount, upcomingMailBox, posted, dataQueue>>

-----------------------------------------------------------------------------
(* The end of a job: KJob::emitResult happens once, and the job's command  *)
(* tags no longer matter.                                                  *)
Ended(rec, failed) == [rec EXCEPT !.phase = "done", !.error = failed, !.tags = {}]

(* IdleJob connects its own result signal to resetTimeout().               *)
AfterResult(j, t) == IF Kind[j] = "idle" THEN SetSocketTimeout(t, job[j].saved) ELSE t

(* A job the application starts from a slot that runs inside a handler:    *)
(* addJob() only appends it there.                                         *)
FromSlot == {<<>>} \cup {<<j>> : j \in {k \in Reentrant : job[k].phase = "new"}}
Enqueued(jobs, late) ==
  [j \in Jobs |-> IF j \in ToSet(late) THEN [jobs[j] EXCEPT !.phase = "queued"] ELSE jobs[j]]

-----------------------------------------------------------------------------
(* doStart() of the job classes.  A job of a single command sends it; a    *)
(* LoginJob that finds TLS negotiated goes straight to CAPABILITY, and one *)
(* in mode SSLorTLS otherwise waits for encryptionNegotiationResult.       *)
CommandOf == [login |-> "LOGIN", starttls |-> "CAPABILITY", tls |-> "none", select |-> "SELECT",
              close |-> "CLOSE", idle |-> "IDLE", logout |-> "LOGOUT", plain |-> "NOOP"]

SkipsNegotiation(j) == Kind[j] \in LoginKind /\ sslVersion
FirstCommand(j) == IF SkipsNegotiation(j) THEN "CAPABILITY" ELSE CommandOf[Kind[j]]
FirstStep(j) == IF SkipsNegotiation(j) THEN "Capability"
                ELSE IF Kind[j] = "starttls" THEN "PreStartTlsCapability" ELSE "Login"

DoStart(j, jobs, pt, t) ==
  /\ job' = [jobs EXCEPT ![j].phase = "started",
                         ![j].step = FirstStep(j),
                         ![j].tags = IF FirstCommand(j) = "none" THEN @ ELSE @ \cup {NextTag},
                         ![j].saved = IF Kind[j] = "idle" THEN t.interval ELSE @]
  /\ timer' = IF Kind[j] = "idle" THEN RestartTimer(SetSocketTimeout(t, -1)) ELSE t
  /\ IF FirstCommand(j) = "none"
     THEN NoCommand(pt)
     ELSE SendCommand(FirstCommand(j), IF Kind[j] = "select" THEN j ELSE NoJob, pt)

(* LoginJob::doStart() refuses an authenticated session on the spot.       *)
Refused(j, st) == Kind[j] \in LoginKind /\ st \in {"Authenticated", "Selected"}

(* doStartNext() when no job is running, and what it leads to: q is the    *)
(* queue, cur the currentJob, jobs, st, pt and t the values the handler    *)
(* has reached.  The first n jobs fail in doStart(), and the jobDone() of  *)
(* each starts the next one, until one sends a command.                    *)
StartNext(q, cur, jobs, st, pt, t) ==
  \E n \in 0..Len(q) :
    LET refused == {q[i] : i \in 1..n}
        jobs2 == [j \in Jobs |-> IF j \in refused THEN Ended(jobs[j], TRUE) ELSE jobs[j]]
        t2 == IF n = 0 THEN t ELSE StopTimer(RestartTimer(t))
    IN /\ \A j \in refused : Refused(j, st)
       /\ \/ /\ n = Len(q)
             /\ queue' = <<>>
             /\ jobRunning' = FALSE
             /\ currentJob' = IF n = 0 THEN cur ELSE NoJob
             /\ job' = jobs2
             /\ timer' = t2
             /\ NoCommand(pt)
          \/ /\ n < Len(q)
             /\ ~Refused(q[n + 1], st)
             /\ queue' = SubSeq(q, n + 2, Len(q))
             /\ jobRunning' = TRUE
             /\ currentJob' = q[n + 1]
             /\ DoStart(q[n + 1], jobs2, pt, RestartTimer(t2))

(* doStartNext()'s early return.                                           *)
CanStart == ~jobRunning /\ isSocketConnected

(* emitResult() of the current job while a response is handled: IdleJob's  *)
(* own slot, the application's, then jobDone().                            *)
Finish(j, failed, st, pt) ==
  \E late \in FromSlot :
    /\ late # <<>> => jobRunning
    /\ StartNext(queue \o late, NoJob, Enqueued([job EXCEPT ![j] = Ended(@, failed)], late),
                 st, pt, StopTimer(AfterResult(j, RestartTimer(timer))))

-----------------------------------------------------------------------------
(* handleResponse().                                                       *)
Ignored(pt) ==
  /\ timer' = RestartTimer(timer)
  /\ UNCHANGED runVars
  /\ NoCommand(pt)

(* Mutant: a negative reply sets no error.                                 *)
ErrorIgnored(j, r, st, pt) ==
  \/ r.tag \in job[j].tags /\ Finish(j, FALSE, st, pt)
  \/ r.tag \notin job[j].tags /\ Ignored(pt)

(* Job::handleErrorReplies: a reply without a second token sets only the   *)
(* error text.                                                             *)
PlainResponse(j, r, st, pt) ==
  \/ /\ r.tag \in job[j].tags
     /\ Finish(j, r.code \notin {"OK", "none"}, st, pt)
  \/ /\ r.tag \notin job[j].tags
     /\ Ignored(pt)

(* LoginJob goes on with another command.                                  *)
Continue(j, verb, step, pt) ==
  /\ job' = [job EXCEPT ![j].step = step, ![j].tags = @ \cup {NextTag}]
  /\ timer' = RestartTimer(timer)
  /\ SendCommand(verb, NoJob, pt)
  /\ UNCHANGED <<jobRunning, currentJob, queue>>

(* Mutant: LOGIN is sent as soon as the capabilities are known.            *)
LoginBeforeStartTls(j, st, pt) ==
  \/ job[j].step # "Login" /\ Continue(j, "LOGIN", "Login", pt)
  \/ job[j].step = "Login" /\ Finish(j, FALSE, st, pt)

(* The switch on authState: whether the server's capabilities allow the    *)
(* next step is left open.                                                 *)
LoginStep(j, st, pt) ==
  \/ /\ job[j].step = "PreStartTlsCapability"
     /\ Finish(j, TRUE, st, pt) \/ Continue(j, "STARTTLS", "StartTls", pt)
  \/ /\ job[j].step = "StartTls"
     /\ Post("doStartSsl")
     /\ timer' = RestartTimer(timer)
     /\ pendingTag' = pt
     /\ UNCHANGED <<runVars, tagCount, upcomingMailBox, dataQueue>>
  \/ /\ job[j].step = "Capability"
     /\ \/ Finish(j, TRUE, st, pt)
        \/ /\ Kind[j] = "login" \/ sslVersion
           /\ Continue(j, "LOGIN", "Login", pt)
  \/ /\ job[j].step = "Login"
     /\ Finish(j, FALSE, st, pt)

(* LoginJob::handleResponse: the reply counts as OK unless it is tagged    *)
(* with one of the job's own tags and says otherwise; a malformed one sets *)
(* only the error text.                                                    *)
LoginResponse(j, r, st, pt) ==
  LET own == r.tag \in job[j].tags
      malformed == r.tag = Plus \/ ((r.tag = Star \/ own) /\ r.code = "none")
  IN \/ /\ r = Blank \/ (r.tag = Star /\ ~malformed)
        /\ Ignored(pt)
     \/ /\ malformed
        /\ Finish(j, FALSE, st, pt)
     \/ /\ own /\ r.code \notin {"OK", "none"}
        /\ Finish(j, TRUE, st, pt)
     \/ /\ r.tag \in CommandTag /\ (own => r.code = "OK")
        /\ LoginStep(j, st, pt)

HandleResponse(j, r, st, pt) ==
  IF Kind[j] \in LoginKind THEN LoginResponse(j, r, st, pt) ELSE PlainResponse(j, r, st, pt)

-----------------------------------------------------------------------------
(* Mutant: the queue is emptied, but its jobs are not deleted.             *)
ClearWithoutDeleting(q, t) ==
  /\ queue' = <<>>
  /\ currentJob' = NoJob
  /\ jobRunning' = FALSE
  /\ job' = [j \in Jobs |-> IF j = currentJob THEN Ended(job[j], TRUE) ELSE job[j]]
  /\ timer' = t

(* clearJobQueue(): the current job, or else the first queued one, gets a  *)
(* result through connectionLost(); the others are deleted without one.    *)
(* LogoutJob::connectionLost() sets no error.                              *)
ClearJobQueue(q, t) ==
  LET victim == IF currentJob # NoJob THEN currentJob ELSE IF q # <<>> THEN Head(q) ELSE NoJob
      kill == ToSet(q) \ {victim}
  IN /\ queue' = <<>>
     /\ currentJob' = NoJob
     /\ jobRunning' = (jobRunning /\ victim = NoJob)
     /\ job' = [j \in Jobs |-> IF j = victim THEN Ended(job[j], Kind[j] # "logout")
                               ELSE IF j \in kill THEN [job[j] EXCEPT !.phase = "deleted"]
                               ELSE job[j]]
     /\ timer' = IF victim = NoJob THEN t ELSE StopTimer(AfterResult(victim, t))

-----------------------------------------------------------------------------
(* The handlers of SessionThread's signals.                                *)
Receive(sig) == /\ events # <<>>
                /\ Head(events).sig = sig
                /\ events' = Tail(events)

(* Mutant: the wait for the greeting is not timed.                         *)
ConnectedUntimed ==
  /\ Receive("socketConnected")
  /\ isSocketConnected' = TRUE
  /\ timer' = StopTimer(timer)
  /\ UNCHANGED <<sslVersion, runVars, mailVars, tagVars, posted, dataQueue>>

SocketConnected ==
  LET willUseSsl == queue # <<>> /\ Kind[Head(queue)] = "tls"
  IN /\ Receive("socketConnected")
     /\ isSocketConnected' = TRUE
     /\ IF state = "Disconnected" /\ willUseSsl
        THEN Post("doStartSsl") /\ timer' = StopTimer(timer)
        ELSE timer' = RestartTimer(timer) /\ UNCHANGED posted
     /\ UNCHANGED <<sslVersion, runVars, mailVars, tagVars, dataQueue>>

(* Mutant: the jobs are not told of the loss.                              *)
DisconnectedUntold ==
  /\ Receive("socketDisconnected")
  /\ state' = IF isSocketConnected THEN "Disconnected" ELSE state
  /\ isSocketConnected' = FALSE
  /\ timer' = StopTimer(timer)
  /\ UNCHANGED <<sslVersion, currentMailBox, runVars, tagVars, posted, dataQueue>>

(* Mutant: the protocol state survives the connection.                     *)
DisconnectedKeepingState ==
  /\ Receive("socketDisconnected")
  /\ isSocketConnected' = FALSE
  /\ ClearJobQueue(queue, StopTimer(timer))
  /\ UNCHANGED <<state, sslVersion, currentMailBox, tagVars, posted, dataQueue>>

(* Jobs started from the slots of stateChanged, connectionLost or          *)
(* connectionFailed, or of the failing job's result, are queued before     *)
(* the queue is cleared.                                                   *)
ConnectionGone ==
  /\ state' = IF isSocketConnected THEN "Disconnected" ELSE state
  /\ isSocketConnected' = FALSE
  /\ \E late \in FromSlot : ClearJobQueue(queue \o late, StopTimer(timer))
  /\ UNCHANGED <<sslVersion, currentMailBox, tagVars>>

SocketDisconnected ==
  /\ Receive("socketDisconnected")
  /\ ConnectionGone
  /\ UNCHANGED <<posted, dataQueue>>

(* On an established connection the next job is made the current one, for  *)
(* the loss that follows to fail it, and the socket is closed; without one *)
(* the jobs are told at once.                                              *)
SocketError ==
  /\ Receive("socketError")
  /\ \/ /\ isSocketConnected
        /\ \/ /\ currentJob = NoJob /\ queue # <<>>
              /\ currentJob' = Head(queue)
              /\ queue' = Tail(queue)
           \/ /\ currentJob # NoJob \/ queue = <<>>
              /\ UNCHANGED <<currentJob, queue>>
        /\ timer' = StopTimer(timer)
        /\ Post("doCloseSocket")
        /\ UNCHANGED <<job, jobRunning>>
     \/ /\ ~isSocketConnected
        /\ \E late \in FromSlot : ClearJobQueue(queue \o late, StopTimer(timer))
        /\ UNCHANGED posted
  /\ UNCHANGED <<isSocketConnected, sslVersion, mailVars, tagVars, dataQueue>>

SocketActivity ==
  /\ Receive("socketActivity")
  /\ timer' = RestartTimer(timer)
  /\ UNCHANGED <<isSocketConnected, sslVersion, runVars, mailVars, tagVars, posted, dataQueue>>

(* A LoginJob past the check in doStart() is connected to the signal and   *)
(* asks for the capabilities.                                              *)
OnEncryptionNegotiationResult ==
  /\ Receive("encryptionNegotiationResult")
  /\ sslVersion' = TRUE
  /\ \/ \E j \in Jobs : /\ Kind[j] \in LoginKind /\ job[j].phase = "started"
                        /\ Continue(j, "CAPABILITY", "Capability", pendingTag)
     \/ /\ \A j \in Jobs : Kind[j] \in LoginKind => job[j].phase # "started"
        /\ UNCHANGED <<runVars, tagVars, timer, posted, dataQueue>>
  /\ UNCHANGED <<isSocketConnected, mailVars>>

(* The ui proxy says whether the certificate errors are to be ignored.     *)
HandleSslError ==
  /\ Receive("sslError")
  /\ Post("sslErrorIgnored") \/ Post("sslErrorRefused")
  /\ UNCHANGED <<sessionVars, dataQueue>>

-----------------------------------------------------------------------------
(* responseReceived().                                                     *)
ClearTags(pt, tag) == [v \in TrackedVerb |-> IF pt[v] = tag THEN NoTag ELSE pt[v]]

(* Mutant: a failed SELECT leaves the session in the old mailbox.          *)
NextStateKeepsSelected(r) ==
  CASE state = "NotAuthenticated" /\ r.code = "OK" /\ r.tag = pendingTag["LOGIN"]
         -> "Authenticated"
    [] state = "Authenticated" /\ r.code = "OK" /\ r.tag = pendingTag["SELECT"]
         -> "Selected"
    [] state = "Selected" /\ r.code = "OK" /\ r.tag = pendingTag["CLOSE"]
         -> "Authenticated"
    [] OTHER -> state

(* The state a response moves the session to, once it has been greeted.    *)
NextState(r) ==
  CASE state = "NotAuthenticated" /\ r.code = "OK" /\ r.tag = pendingTag["LOGIN"]
         -> "Authenticated"
    [] state = "Authenticated" /\ r.code = "OK" /\ r.tag = pendingTag["SELECT"]
         -> "Selected"
    [] state = "Selected" /\ \/ r.code = "OK" /\ r.tag = pendingTag["CLOSE"]
                             \/ r.code # "OK" /\ r.tag = pendingTag["SELECT"]
         -> "Authenticated"
    [] OTHER -> state

NextMailBox(r) ==
  CASE NextState(r) = "Selected" /\ r.code = "OK" /\ r.tag = pendingTag["SELECT"]
         -> upcomingMailBox
    [] state = "Selected" /\ NextState(r) # "Selected" -> NoJob
    [] OTHER -> currentMailBox

(* The first response of a connection is the greeting.                     *)
Greeting(r) ==
  \/ /\ r.code \in {"OK", "PREAUTH"}
     /\ state' = IF r.code = "OK" THEN "NotAuthenticated" ELSE "Authenticated"
     /\ \/ /\ CanStart
           /\ StartNext(queue, currentJob, job, state', pendingTag, StopTimer(timer))
        \/ /\ ~CanStart
           /\ timer' = StopTimer(timer)
           /\ UNCHANGED <<runVars, tagVars, posted, dataQueue>>
  \/ /\ r.code \notin {"OK", "PREAUTH"}
     /\ timer' = StopTimer(timer)
     /\ Post("doCloseSocket")
     /\ UNCHANGED <<state, runVars, tagVars, dataQueue>>

ResponseReceived ==
  /\ Receive("responseReceived")
  /\ LET r == Head(events).response
         pt == ClearTags(pendingTag, r.tag)
     IN \/ /\ r.code = "BYE"
           /\ UNCHANGED <<runVars, mailVars, tagVars, timer, posted, dataQueue>>
        \/ /\ r.code # "BYE" /\ state = "Disconnected"
           /\ Greeting(r)
           /\ UNCHANGED currentMailBox
        \/ /\ r.code # "BYE" /\ state # "Disconnected"
           /\ state' = NextState(r)
           /\ currentMailBox' = NextMailBox(r)
           /\ \/ /\ currentJob # NoJob
                 /\ HandleResponse(currentJob, r, state', pt)
              \/ /\ currentJob = NoJob
                 /\ UNCHANGED <<runVars, timer>>
                 /\ NoCommand(pt)
  /\ UNCHANGED <<isSocketConnected, sslVersion>>

-----------------------------------------------------------------------------
(* The timer fires: it is single-shot.                                     *)
OnSocketTimeout ==
  /\ timer.active
  /\ timer' = [timer EXCEPT !.active = FALSE]
  /\ Post("doCloseSocket")
  /\ UNCHANGED <<state, isSocketConnected, sslVersion, runVars, currentMailBox, tagVars,
                 events, dataQueue>>

-----------------------------------------------------------------------------
(* Mutant: addJob() puts the new job first.                                *)
AddJobFirst(j) ==
  /\ job[j].phase = "new"
  /\ LET jobs == Enqueued(job, <<j>>)
     IN \/ /\ state # "Disconnected" /\ CanStart
           /\ StartNext(<<j>> \o queue, currentJob, jobs, state, pendingTag, timer)
        \/ /\ state = "Disconnected" \/ ~CanStart
           /\ queue' = <<j>> \o queue
           /\ job' = jobs
           /\ UNCHANGED <<jobRunning, currentJob, tagVars, timer, posted, dataQueue>>
  /\ UNCHANGED <<isSocketConnected, sslVersion, mailVars, events>>

(* The calls of the application.  addJob() appends the job and starts it   *)
(* if the session is past its greeting and nothing runs.                   *)
AddJob(j) ==
  /\ job[j].phase = "new"
  /\ LET jobs == Enqueued(job, <<j>>)
     IN \/ /\ state # "Disconnected" /\ CanStart
           /\ StartNext(Append(queue, j), currentJob, jobs, state, pendingTag, timer)
        \/ /\ state = "Disconnected" \/ ~CanStart
           /\ queue' = Append(queue, j)
           /\ job' = jobs
           /\ UNCHANGED <<jobRunning, currentJob, tagVars, timer, posted, dataQueue>>
  /\ UNCHANGED <<isSocketConnected, sslVersion, mailVars, events>>

(* Mutant: jobDestroyed() leaves the pointer in the queue.                 *)
DeleteJobLeavesQueue(j) ==
  /\ job[j].phase \in {"queued", "started"}
  /\ job' = [job EXCEPT ![j].phase = "deleted", ![j].tags = {}]
  /\ currentJob' = IF currentJob = j THEN NoJob ELSE currentJob
  /\ UNCHANGED <<isSocketConnected, sslVersion, jobRunning, queue, mailVars, tagVars, timer,
                 linkVars>>

(* The application deletes a job it has started: jobDestroyed().           *)
DeleteJob(j) ==
  /\ job[j].phase \in {"queued", "started"}
  /\ job' = [job EXCEPT ![j].phase = "deleted", ![j].tags = {}]
  /\ \/ \E i \in DOMAIN queue : /\ queue[i] = j
                                /\ queue' = RemoveAt(queue, i)
     \/ /\ \A i \in DOMAIN queue : queue[i] # j
        /\ UNCHANGED queue
  /\ currentJob' = IF currentJob = j THEN NoJob ELSE currentJob
  /\ UNCHANGED <<isSocketConnected, sslVersion, jobRunning, mailVars, tagVars, timer, linkVars>>

(* IdleJob::stop(): the timeout comes back and the server is told.         *)
StopIdle(j) ==
  /\ Kind[j] = "idle" /\ job[j].phase = "started" /\ ~job[j].stopped
  /\ job' = [job EXCEPT ![j].stopped = TRUE]
  /\ timer' = RestartTimer(SetSocketTimeout(timer, job[j].saved))
  /\ dataQueue' = Append(dataQueue, [tag |-> NoTag, verb |-> "DONE", box |-> NoJob])
  /\ Post("writeDataQueue")
  /\ UNCHANGED <<isSocketConnected, sslVersion, jobRunning, currentJob, queue, mailVars, tagVars,
                 events>>

Close ==
  /\ Post("doCloseSocket")
  /\ UNCHANGED <<sessionVars, events, dataQueue>>

SetUseNetworkProxy ==
  /\ Post("setUseProxyInternal")
  /\ UNCHANGED <<sessionVars, events, dataQueue>>

(* ~Session(): the jobs are told, and the thread is asked to quit.         *)
Destroy ==
  /\ ConnectionGone
  /\ Post("threadQuit")
  /\ UNCHANGED <<events, dataQueue>>

SetTimeout(ms) ==
  /\ timer' = SetSocketTimeout(timer, ms)
  /\ UNCHANGED <<isSocketConnected, sslVersion, runVars, mailVars, tagVars, linkVars>>

-----------------------------------------------------------------------------
(* What the event loop of the main thread runs by itself.                  *)
HandleSignal ==
  \/ SocketConnected
  \/ SocketDisconnected
  \/ SocketError
  \/ SocketActivity
  \/ OnEncryptionNegotiationResult
  \/ HandleSslError
  \/ ResponseReceived
=============================================================================
