----------------------------- MODULE Connection -----------------------------
(***************************************************************************)
(* A KIMAP session as it runs: the Session in the main thread, the         *)
(* SessionThread and its socket, the server, and the application that      *)
(* starts jobs, deletes them, closes the session, changes its settings and *)
(* destroys it.                                                            *)
(***************************************************************************)
EXTENDS Session, ImapServer

CONSTANTS Deletable,      (* the jobs the application may delete           *)
          AppTimeouts,    (* the intervals it may set                      *)
          MaxSettings     (* bound: how often it calls Close, SetTimeout,  *)
                          (* SetUseNetworkProxy and Destroy: a record      *)

ASSUME ConnectionAssumption ==
       /\ Deletable \subseteq Jobs
       /\ AppTimeouts \subseteq Int
       /\ MaxSettings \in [close : Nat, timeout : Nat, proxy : Nat, destroy : {0, 1}]

VARIABLE settings   (* how often the application has called them           *)

vars == <<linkVars, sessionVars, threadVars, server, settings>>

TypeOK == /\ LinkTypeOK
          /\ SessionTypeOK
          /\ ThreadTypeOK
          /\ ServerTypeOK
          /\ settings \in [close : Nat, timeout : Nat, proxy : Nat, destroy : {0, 1}]

Init == /\ LinkInit
        /\ SessionInit
        /\ ThreadInitState
        /\ ServerInit
        /\ settings = [close |-> 0, timeout |-> 0, proxy |-> 0, destroy |-> 0]

-----------------------------------------------------------------------------
Spend(what) == /\ settings[what] < MaxSettings[what]
               /\ settings' = [settings EXCEPT ![what] = @ + 1]

(* The signals that are queued to a destroyed session reach nobody.        *)
Alive == settings.destroy = 0

Application ==
  /\ Alive
  /\ \/ /\ \/ \E j \in Jobs : AddJob(j)
           \/ \E j \in Deletable : DeleteJob(j)
           \/ \E j \in Jobs : StopIdle(j)
        /\ UNCHANGED settings
     \/ Close /\ Spend("close")
     \/ SetUseNetworkProxy /\ Spend("proxy")
     \/ \E ms \in AppTimeouts : SetTimeout(ms) /\ Spend("timeout")
     \/ Destroy /\ Spend("destroy")
  /\ UNCHANGED <<threadVars, server>>

MainThread == /\ Alive
              /\ HandleSignal
              /\ UNCHANGED <<threadVars, server, settings>>

Timeout == /\ Alive
           /\ OnSocketTimeout
           /\ UNCHANGED <<threadVars, server, settings>>

SecondaryThread == /\ HandlePosted
                   /\ UNCHANGED <<sessionVars, server, settings>>

Socket == /\ SocketStep
          /\ tls = "handshake" /\ tls' = "encrypted" => server.tls
          /\ ServerFollows
          /\ UNCHANGED <<sessionVars, settings>>

Server == /\ ServerStep
          /\ UNCHANGED <<sessionVars, settings>>

Next == Application \/ MainThread \/ Timeout \/ SecondaryThread \/ Socket \/ Server

Spec == Init /\ [][Next]_vars

-----------------------------------------------------------------------------
(* Fairness: both event loops run, a connection attempt ends, and a timer  *)
(* that is not restarted for ever fires.  Nothing is assumed of the server *)
(* or of the application.                                                  *)
Fairness == /\ WF_vars(MainThread)
            /\ WF_vars(SecondaryThread)
            /\ WF_vars(Timeout)
            /\ WF_vars(Socket /\ socket = "connecting")

FairSpec == Spec /\ Fairness

-----------------------------------------------------------------------------
Pending(j) == job[j].phase \in {"queued", "started"}
Waiting == ToSet(queue)

(* The bookkeeping of the queue: no job is in it twice or while it is the  *)
(* current one, only jobs that have not begun are in it, the current job   *)
(* is one that has not ended, and a job that has begun is the current one  *)
(* of a session that says it is running one, so that no two jobs have      *)
(* commands on the wire.                                                   *)
QueueSound ==
  /\ IsInjective(queue)
  /\ currentJob \notin Waiting
  /\ \A j \in Waiting : job[j].phase = "queued"
  /\ currentJob # NoJob => Pending(currentJob)
  /\ \A j \in Jobs : job[j].phase = "started" => currentJob = j /\ jobRunning

(* No job is forgotten: one that has been started by the application and   *)
(* has not ended is in the queue or the current job, so a reply, the timer *)
(* or the end of the session reaches it.                                   *)
NoJobForgotten == \A j \in Jobs : Pending(j) => j \in Waiting \/ j = currentJob

(* The signals come in the order the session expects: a connection is made *)
(* only when the last one's end has been handled, and a greeting is not    *)
(* handled between the connection's failure and its end, while the job     *)
(* that is to be failed by that end is already the current one.            *)
GreetingIsTimely ==
  events # <<>> =>
    /\ Head(events).sig = "socketConnected" => state = "Disconnected"
    /\ /\ Head(events).sig = "responseReceived"
       /\ Head(events).response.code \in {"OK", "PREAUTH"}
       /\ state = "Disconnected" /\ isSocketConnected
       => currentJob = NoJob \/ jobRunning

(* A negative interval keeps the timer off: stopSocketTimer() then does    *)
(* nothing, so a timer left running could not be stopped any more.         *)
DisabledTimerIsOff == timer.interval < 0 => ~timer.active

(* When nothing is on its way in either direction, both ends agree on the  *)
(* protocol state and on the selected mailbox.                             *)
Quiet == /\ socket = "connected" /\ isSocketConnected /\ ~server.lineFeedDue
         /\ posted = <<>> /\ events = <<>> /\ dataQueue = <<>>
         /\ written = <<>> /\ streamVars = <<<<>>, <<>>>>

EndsAgree ==
  Quiet /\ server.phase # "Logout" =>
    /\ state = IF server.phase = "greeting" THEN "Disconnected" ELSE server.phase
    /\ currentMailBox = server.box

(* A job that runs is watched: the timer is active, unless it is disabled  *)
(* or an IDLE that was not told to stop has it off, or the connection is   *)
(* already on its way down.                                                *)
GoingDown == \/ \E i \in DOMAIN posted : posted[i] \in {"doCloseSocket", "slotSocketDisconnected"}
             \/ \E i \in DOMAIN events : events[i].sig = "socketDisconnected"

RunningJobIsTimed ==
  \A j \in Jobs :
    /\ job[j].phase = "started"
    /\ Kind[j] = "idle" => job[j].stopped /\ job[j].saved >= 0
    => timer.active \/ GoingDown

(* A login that ends without an error has authenticated the session, and a *)
(* select without an error has its mailbox selected.                       *)
SuccessIsReal ==
  [][\A j \in Jobs :
       Pending(j) /\ job'[j].phase = "done" /\ ~job'[j].error =>
         /\ Kind[j] \in LoginKind => state' \in {"Authenticated", "Selected"}
         /\ Kind[j] = "select" => state' = "Selected" /\ currentMailBox' = j]_vars

(* The loss of the connection, or the end of the session, leaves no job    *)
(* pending, and one of those that were is told by its result.              *)
LossIsTold ==
  [][(isSocketConnected /\ ~isSocketConnected') \/ (Alive /\ ~Alive') =>
       /\ \A j \in Jobs : ~Pending(j)'
       /\ (\E j \in Jobs : Pending(j)) =>
            \E j \in Jobs : Pending(j) /\ job'[j].phase = "done"]_vars

(* The password of a login that asked for encryption is never handed to a  *)
(* plain connection.                                                       *)
LoginIsEncrypted ==
  socket = "connected" /\ (\E i \in DOMAIN written : written[i].verb = "LOGIN") =>
    \/ tls # "plain"
    \/ \E j \in Jobs : Kind[j] = "login"

(* A job that waits or runs while the socket is connecting or connected    *)
(* comes to an end, whatever the server does.                              *)
JobsEnd == \A j \in Jobs : (Pending(j) /\ socket \in {"connecting", "connected"}) ~> ~Pending(j)

-----------------------------------------------------------------------------
(* The session implements the abstract job queue.                          *)
lineBar == (IF currentJob = NoJob THEN <<>> ELSE <<currentJob>>) \o queue
runningBar == currentJob # NoJob /\ job[currentJob].phase = "started"
fateBar == [j \in Jobs |-> CASE job[j].phase = "done" -> "result"
                             [] job[j].phase = "deleted" -> "dropped"
                             [] OTHER -> "none"]
Queue == INSTANCE JobQueue WITH line <- lineBar, running <- runningBar, fate <- fateBar

(* The promise of JobQueue, kept by every step of the session.             *)
QueueSpec == Queue!Spec
=============================================================================
