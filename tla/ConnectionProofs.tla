--------------------------- MODULE ConnectionProofs ---------------------------
(***************************************************************************)
(* The types of the whole connection: both threads, the two queues between *)
(* them, the socket with its buffers, and the server.  The session's own   *)
(* variables are typed by SessionInv; what is new here is that nothing a   *)
(* thread posts, emits, parses or writes is anything but a call, a signal, *)
(* a line or a command the other side knows.                               *)
(***************************************************************************)
EXTENDS SessionProofs

-----------------------------------------------------------------------------
(* What the session posts in the course of its handlers; and the commands  *)
(* it may send: a LOGIN only when encryption has been negotiated, unless   *)
(* there are logins that do not ask for any.                               *)
SessionCall == {"writeDataQueue", "doStartSsl", "doCloseSocket"}
PlainLogins == \E j \in Jobs : Kind[j] = "login"
MaySend(verb) == verb = "LOGIN" => sslVersion \/ PlainLogins

(* What a handler of the session may do to the other thread: nothing, or   *)
(* post one call, with at most one command for it to write.                *)
Hands == \/ UNCHANGED <<posted, dataQueue>>
         \/ /\ \E call \in SessionCall : Post(call)
            /\ \/ UNCHANGED dataQueue
               \/ \E cmd \in Command : MaySend(cmd.verb) /\ dataQueue' = Append(dataQueue, cmd)

(* What it does only when it is asked about an error of TLS, or when the   *)
(* application changes the proxy or destroys the session.                  *)
AnswersSslError == /\ events # <<>> /\ Head(events).sig = "sslError"
                   /\ Post("sslErrorIgnored") \/ Post("sslErrorRefused")
                   /\ UNCHANGED dataQueue
ChangesProxy == /\ MaxSettings.proxy # 0
                /\ Post("setUseProxyInternal") /\ UNCHANGED dataQueue
Quits == ~Alive' /\ Post("threadQuit") /\ UNCHANGED dataQueue

SettingsTypeOK == settings \in [close : Nat, timeout : Nat, proxy : Nat, destroy : {0, 1}]

(* Sending a command, or none.                                             *)
LEMMA SendCommandHands ==
  ASSUME tagCount \in CommandTag, NEW pt, NEW verb \in Verb, MaySend(verb),
         NEW box \in Jobs \cup {NoJob}, SendCommand(verb, box, pt) \/ NoCommand(pt)
  PROVE  Hands
<1>1. CASE NoCommand(pt)
  BY <1>1 DEF NoCommand, Hands
<1>2. CASE SendCommand(verb, box, pt)
  <2> DEFINE cmd == [tag |-> NextTag, verb |-> verb, box |-> box]
  <2>1. cmd \in Command
    BY NextTagType DEF Command, Tag
  <2>2. dataQueue' = Append(dataQueue, cmd) /\ Post("writeDataQueue")
    BY <1>2 DEF SendCommand
  <2>3. MaySend(cmd.verb) /\ "writeDataQueue" \in SessionCall
    BY DEF SessionCall
  <2> HIDE DEF cmd
  <2>q. QED
    BY <2>1, <2>2, <2>3 DEF Hands
<1>q. QED
  BY <1>1, <1>2

(* Starting the next job, whichever it is.                                 *)
LEMMA StartNextHands ==
  ASSUME tagCount \in CommandTag, NEW q \in Seq(Jobs), NEW cur, NEW jobs, NEW st, NEW pt, NEW t,
         StartNext(q, cur, jobs, st, pt, t)
  PROVE  Hands
<1>1. CASE NoCommand(pt)
  BY <1>1 DEF NoCommand, Hands
<1>2. CASE \E n \in 0..Len(q) : \E jobs2, u : n < Len(q) /\ DoStart(q[n + 1], jobs2, pt, u)
  <2>1. PICK n \in 0..Len(q) :
               n < Len(q) /\ (\E jobs2, u : DoStart(q[n + 1], jobs2, pt, u))
    BY <1>2
  <2> DEFINE j == q[n + 1]
  <2>2. j \in Jobs
    <3>1. Len(q) \in Nat
      BY LenProperties
    <3>q. QED
      BY <2>1, <3>1, ElementOfSeq
  <2>3. \/ NoCommand(pt)
        \/ /\ FirstCommand(j) # "none"
           /\ SendCommand(FirstCommand(j), IF Kind[j] = "select" THEN j ELSE NoJob, pt)
    BY <2>1 DEF DoStart
  <2>4. FirstCommand(j) # "none" => FirstCommand(j) \in Verb
    BY <2>2, SessionAssumption DEF FirstCommand, CommandOf, JobKind, LoginKind, Verb
  <2>5. FirstCommand(j) # "none" => MaySend(FirstCommand(j))
    BY <2>2, SessionAssumption
       DEF FirstCommand, CommandOf, JobKind, LoginKind, MaySend, PlainLogins
  <2>q. QED
    BY <1>1, <2>2, <2>3, <2>4, <2>5, SendCommandHands
<1>q. QED
  BY <1>1, <1>2 DEF StartNext

(* The end of the current job, and what follows it.                        *)
LEMMA FinishHands ==
  ASSUME RunTypeOK, QueueSound, NEW j, NEW failed, NEW st, NEW pt, Finish(j, failed, st, pt)
  PROVE  Hands
<1>1. PICK late \in FromSlot :
        StartNext(queue \o late, NoJob, Enqueued([job EXCEPT ![j] = Ended(@, failed)], late),
                  st, pt, StopTimer(AfterResult(j, RestartTimer(timer))))
  BY DEF Finish
<1>2. queue \o late \in Seq(Jobs)
  BY WithSlots
<1>q. QED
  BY <1>1, <1>2, StartNextHands DEF RunTypeOK

(* A login that goes on with its next command.                             *)
LEMMA ContinueHands ==
  ASSUME RunTypeOK, NEW j, NEW pt, NEW verb \in Verb, MaySend(verb), NEW step,
         Continue(j, verb, step, pt)
  PROVE  Hands
BY SendCommandHands DEF Continue, RunTypeOK

(* A response the current job handles.                                     *)
LEMMA HandleResponseHands ==
  ASSUME RunTypeOK, QueueSound, NEW j \in Jobs, NEW r, NEW st, NEW pt,
         HandleResponse(j, r, st, pt)
  PROVE  Hands
<1>1. CASE \E failed : Finish(j, failed, st, pt)
  BY <1>1, FinishHands
<1>2. CASE NoCommand(pt)
  BY <1>2 DEF NoCommand, Hands
<1>3. CASE \E verb \in Verb : \E step : MaySend(verb) /\ Continue(j, verb, step, pt)
  BY <1>3, ContinueHands
<1>4. CASE Post("doStartSsl") /\ UNCHANGED dataQueue
  BY <1>4 DEF Hands, SessionCall
<1>5. CASE LoginStep(j, st, pt)
  <2>1. MaySend("STARTTLS") /\ (Kind[j] = "login" \/ sslVersion => MaySend("LOGIN"))
    BY DEF MaySend, PlainLogins
  <2>2. CASE Continue(j, "STARTTLS", "StartTls", pt)
    BY <1>3, <2>1, <2>2 DEF Verb
  <2>3. CASE (Kind[j] = "login" \/ sslVersion) /\ Continue(j, "LOGIN", "Login", pt)
    BY <1>3, <2>1, <2>3 DEF Verb
  <2>q. QED
    BY <1>1, <1>4, <1>5, <2>2, <2>3 DEF LoginStep
<1>q. QED
  BY <1>1, <1>2, <1>5 DEF HandleResponse, LoginResponse, PlainResponse, Ignored

(* Every handler of the main thread's event loop takes one signal, and     *)
(* hands over at most one call.                                            *)
LEMMA HandleSignalHands ==
  ASSUME SessionInv, HandleSignal
  PROVE  /\ Hands \/ AnswersSslError
         /\ events # <<>> /\ events' = Tail(events)
<1> USE DEF SessionInv
<1>1. events # <<>> /\ events' = Tail(events)
  BY DEF HandleSignal, SocketConnected, SocketDisconnected, SocketError, SocketActivity,
         OnEncryptionNegotiationResult, HandleSslError, ResponseReceived, Receive
<1>2. CASE UNCHANGED dataQueue /\ (UNCHANGED posted \/ \E call \in SessionCall : Post(call))
  BY <1>1, <1>2 DEF Hands
<1>3. CASE SocketConnected \/ SocketDisconnected \/ SocketError \/ SocketActivity \/ HandleSslError
  <2>1. {"doStartSsl", "doCloseSocket"} \subseteq SessionCall
    BY DEF SessionCall
  <2>2. UNCHANGED dataQueue
    BY <1>3 DEF SocketConnected, SocketDisconnected, SocketError, SocketActivity, HandleSslError
  <2>3. CASE SocketConnected
    BY <1>2, <2>1, <2>2, <2>3 DEF SocketConnected
  <2>4. CASE SocketError
    BY <1>2, <2>1, <2>2, <2>4 DEF SocketError
  <2>5. CASE SocketDisconnected \/ SocketActivity
    BY <1>2, <2>2, <2>5 DEF SocketDisconnected, SocketActivity
  <2>6. CASE HandleSslError
    BY <1>1, <2>2, <2>6 DEF HandleSslError, Receive, AnswersSslError
  <2>q. QED
    BY <1>3, <2>3, <2>4, <2>5, <2>6
<1>4. CASE OnEncryptionNegotiationResult
  <2>1. CASE \E j \in Jobs : Continue(j, "CAPABILITY", "Capability", pendingTag)
    <3>1. MaySend("CAPABILITY") /\ "CAPABILITY" \in Verb
      BY DEF MaySend, Verb
    <3>q. QED
      BY <1>1, <2>1, <3>1, ContinueHands
  <2>2. CASE UNCHANGED <<posted, dataQueue>>
    BY <2>2, <1>2
  <2>q. QED
    BY <1>4, <2>1, <2>2 DEF OnEncryptionNegotiationResult
<1>5. CASE ResponseReceived
  <2> DEFINE r == Head(events).response
             pt == ClearTags(pendingTag, r.tag)
  <2>1. CASE UNCHANGED <<posted, dataQueue>>
    BY <2>1, <1>2
  <2>2. CASE Greeting(r)
    <3>1. CASE StartNext(queue, currentJob, job, state', pendingTag, StopTimer(timer))
      BY <1>1, <3>1, StartNextHands DEF RunTypeOK
    <3>2. CASE UNCHANGED dataQueue /\ (UNCHANGED posted \/ Post("doCloseSocket"))
      BY <3>2, <1>2 DEF SessionCall
    <3>q. QED
      BY <2>2, <3>1, <3>2 DEF Greeting
  <2>3. CASE currentJob # NoJob /\ HandleResponse(currentJob, r, state', pt)
    BY <1>1, <2>3, HandleResponseHands DEF RunTypeOK
  <2>4. CASE NoCommand(pt)
    BY <2>1, <2>4 DEF NoCommand
  <2>q. QED
    BY <1>5, <2>1, <2>2, <2>3, <2>4 DEF ResponseReceived
<1>q. QED
  BY <1>1, <1>3, <1>4, <1>5 DEF HandleSignal

(* So does every call of the application, and the timer; they take none.   *)
LEMMA ApplicationHands ==
  ASSUME SessionInv, SettingsTypeOK, Application \/ Timeout
  PROVE  (Hands \/ ChangesProxy \/ Quits) /\ UNCHANGED events
<1> USE DEF SessionInv
<1>1. ASSUME UNCHANGED <<events, dataQueue>>,
             UNCHANGED posted \/ \E call \in SessionCall : Post(call)
      PROVE  Hands /\ UNCHANGED events
  BY <1>1 DEF Hands
<1>2. ASSUME NEW j \in Jobs, AddJob(j)
      PROVE  Hands /\ UNCHANGED events
  <2>1. Append(queue, j) \in Seq(Jobs)
    BY AppendProperties DEF RunTypeOK
  <2>2. CASE StartNext(Append(queue, j), currentJob, Enqueued(job, <<j>>), state, pendingTag, timer)
    BY <1>2, <2>1, <2>2, StartNextHands DEF AddJob, RunTypeOK
  <2>q. QED
    BY <1>1, <1>2, <2>2 DEF AddJob
<1>3. ASSUME NEW j \in Jobs, DeleteJob(j)
      PROVE  Hands /\ UNCHANGED events
  BY <1>1, <1>3 DEF DeleteJob, linkVars
<1>4. ASSUME NEW j \in Jobs, StopIdle(j)
      PROVE  Hands /\ UNCHANGED events
  <2> DEFINE cmd == [tag |-> NoTag, verb |-> "DONE", box |-> NoJob]
  <2>1. cmd \in Command /\ MaySend(cmd.verb) /\ "writeDataQueue" \in SessionCall
    BY DEF Command, Tag, Verb, SessionCall, MaySend
  <2>2. dataQueue' = Append(dataQueue, cmd) /\ Post("writeDataQueue") /\ UNCHANGED events
    BY <1>4 DEF StopIdle
  <2> HIDE DEF cmd
  <2>q. QED
    BY <2>1, <2>2 DEF Hands
<1>5. ASSUME Close \/ (\E ms \in AppTimeouts : SetTimeout(ms))
      PROVE  Hands /\ UNCHANGED events
  BY <1>1, <1>5 DEF Close, SetTimeout, linkVars, SessionCall
<1>6. ASSUME SetUseNetworkProxy, Spend("proxy")
      PROVE  ChangesProxy /\ UNCHANGED events
  BY <1>6, ConnectionAssumption DEF SetUseNetworkProxy, Spend, ChangesProxy, SettingsTypeOK
<1>7. ASSUME Destroy, Spend("destroy")
      PROVE  Quits /\ UNCHANGED events
  BY <1>7 DEF Destroy, Spend, Quits, Alive, SettingsTypeOK
<1>8. CASE Timeout
  BY <1>1, <1>8 DEF Timeout, OnSocketTimeout, SessionCall
<1>q. QED
  BY <1>2, <1>3, <1>4, <1>5, <1>6, <1>7, <1>8, ConnectionAssumption DEF Application

-----------------------------------------------------------------------------
(* What both threads do to the sequences they share stays in their types.  *)
LEMMA SequenceOperations ==
  ASSUME NEW S
  PROVE  /\ <<>> \in Seq(S)
         /\ \A e \in S : <<e>> \in Seq(S)
         /\ \A s \in Seq(S), e \in S : Append(s, e) \in Seq(S)
         /\ \A s, t \in Seq(S) : s \o t \in Seq(S)
         /\ \A s \in Seq(S) : s # <<>> => Head(s) \in S /\ Tail(s) \in Seq(S)
BY EmptySeq, AppendProperties, ConcatProperties, HeadTailProperties

(* A handler of the session hands over calls and commands.                 *)
LEMMA HandsType ==
  ASSUME LinkTypeOK, Hands \/ AnswersSslError \/ ChangesProxy \/ Quits
  PROVE  posted' \in Seq(Call) /\ dataQueue' \in Seq(Command)
<1>1. posted' \in Seq(Call)
  <2>1. UNCHANGED posted \/ \E call \in Call : Post(call)
    BY DEF Hands, AnswersSslError, ChangesProxy, Quits, SessionCall, Call
  <2>q. QED
    BY <2>1, SequenceOperations DEF LinkTypeOK, Post
<1>2. dataQueue' \in Seq(Command)
  <2>1. UNCHANGED dataQueue \/ \E cmd \in Command : dataQueue' = Append(dataQueue, cmd)
    BY DEF Hands, AnswersSslError, ChangesProxy, Quits
  <2>q. QED
    BY <2>1, SequenceOperations DEF LinkTypeOK
<1>q. QED
  BY <1>1, <1>2

(* The lines in the two buffers of the stream parser, in their order.      *)
LEMMA LinesType ==
  ASSUME ThreadTypeOK, NEW lines, lines = IF m_data = <<>> THEN buffer ELSE m_data,
         lines # <<>>, Head(lines).line.code # "garbage"
  PROVE  /\ lines \in Seq(StreamLine)
         /\ Tail(lines) \in Seq(StreamLine)
         /\ [sig |-> "responseReceived", response |-> Head(lines).line] \in Signal
<1>1. lines \in Seq(StreamLine)
  BY DEF ThreadTypeOK
<1>2. Head(lines) \in StreamLine /\ Tail(lines) \in Seq(StreamLine)
  BY <1>1, SequenceOperations
<1>3. Head(lines).line \in Response
  <2>1. PICK x \in Line : Head(lines).line = x
    BY <1>2 DEF StreamLine
  <2>2. x.code # "garbage"
    BY <2>1
  <2>q. QED
    BY <2>1, <2>2 DEF Line, Response
<1>q. QED
  BY <1>1, <1>2, <1>3 DEF Signal

(* The close of the socket, by either handler that does it.                *)
LEMMA CloseSocketType ==
  ASSUME LinkTypeOK, ThreadTypeOK, posted # <<>>, CloseSocket
  PROVE  /\ posted' \in Seq(Call)
         /\ socket' \in SocketState
         /\ pendingClose' \in BOOLEAN
         /\ tls' \in {"plain", "handshake", "encrypted"}
         /\ m_encryptedMode' \in BOOLEAN
         /\ buffer' \in Seq(StreamLine)
         /\ written' \in Seq(Command)
<1>1. Tail(posted) \in Seq(Call) /\ <<"slotSocketDisconnected">> \in Seq(Call)
  <2>1. "slotSocketDisconnected" \in Call
    BY DEF Call
  <2>q. QED
    BY <2>1, SequenceOperations DEF LinkTypeOK
<1>2. posted' \in Seq(Call)
  BY <1>1, SequenceOperations DEF CloseSocket
<1>3. buffer' \in Seq(StreamLine) /\ written' \in Seq(Command)
  BY SequenceOperations DEF CloseSocket, Drop, ThreadTypeOK
<1>q. QED
  BY <1>2, <1>3 DEF CloseSocket, Drop, ThreadTypeOK, SocketState

(* Each handler of the secondary thread keeps the types.                   *)
LEMMA HandlePostedType ==
  ASSUME LinkTypeOK, ThreadTypeOK, HandlePosted
  PROVE  LinkTypeOK' /\ ThreadTypeOK'
<1>1. \A call, more : Take(call, more) /\ more \in Seq(Call) => posted' \in Seq(Call)
  BY SequenceOperations DEF Take, LinkTypeOK
<1>2. \A sig \in {"socketConnected", "socketDisconnected", "socketActivity", "socketError",
                  "sslError", "encryptionNegotiationResult"} :
        Emit(sig) => events' \in Seq(Signal)
  <2> SUFFICES ASSUME NEW sig \in {"socketConnected", "socketDisconnected", "socketActivity",
                                   "socketError", "sslError", "encryptionNegotiationResult"},
                      Emit(sig)
               PROVE  events' \in Seq(Signal)
    OBVIOUS
  <2>1. [sig |-> sig] \in Signal
    BY DEF Signal
  <2>q. QED
    BY <2>1, AppendProperties DEF Emit, LinkTypeOK
<1>3. /\ <<>> \in Seq(Call) /\ <<"reconnect">> \in Seq(Call) /\ <<"readMessage">> \in Seq(Call)
      /\ <<"slotSocketDisconnected">> \in Seq(Call)
      /\ <<"slotSocketDisconnected", "reconnect">> \in Seq(Call)
  <2>1. {"reconnect", "readMessage", "slotSocketDisconnected"} \subseteq Call
    BY DEF Call
  <2>2. <<"slotSocketDisconnected", "reconnect">> = Append(<<"slotSocketDisconnected">>, "reconnect")
    OBVIOUS
  <2>q. QED
    BY <2>1, <2>2, SequenceOperations
<1>4. /\ <<>> \in Seq(StreamLine) /\ <<>> \in Seq(Command) /\ <<>> \in Seq(Signal)
  BY SequenceOperations
<1> USE DEF LinkTypeOK, ThreadTypeOK
<1>5. CASE ThreadInit
  BY <1>1, <1>3, <1>5 DEF ThreadInit, SocketState, tlsVars, streamVars
<1>6. CASE Reconnect
  BY <1>1, <1>3, <1>4, <1>6 DEF Reconnect, SocketState
<1>7. CASE WriteDataQueue
  <2>1. written' \in Seq(Command)
    BY <1>7, SequenceOperations DEF WriteDataQueue
  <2>q. QED
    BY <1>1, <1>2, <1>3, <1>4, <1>7, <2>1 DEF WriteDataQueue, tlsVars, streamVars
<1>8. CASE DoCloseSocket
  BY <1>8, CloseSocketType DEF DoCloseSocket
<1>9. CASE ReadMessage
  <2> DEFINE lines == IF m_data = <<>> THEN buffer ELSE m_data
             unread == IF m_data = <<>> THEN <<>> ELSE buffer
  <2>1. UNCHANGED <<sslSlots, dataQueue>> /\ posted # <<>>
    BY <1>9 DEF ReadMessage
  <2>2. CASE /\ Take("readMessage", <<>>)
             /\ UNCHANGED <<socket, pendingClose, tls, m_encryptedMode, streamVars, written, events>>
    BY <1>1, <1>3, <2>1, <2>2 DEF streamVars
  <2>3. CASE CloseSocket /\ m_data' = lines /\ UNCHANGED events
    <3>1. m_data' \in Seq(StreamLine)
      BY <2>3
    <3>q. QED
      BY <2>1, <2>3, <3>1, CloseSocketType
  <2>4. CASE /\ lines # <<>> /\ Head(lines).line.code # "garbage"
             /\ \E more \in {<<>>, <<"readMessage">>} : Take("readMessage", more)
             /\ m_data' = Tail(lines)
             /\ buffer' = unread
             /\ EmitAll(<<[sig |-> "responseReceived", response |-> Head(lines).line]>>)
             /\ UNCHANGED <<socket, pendingClose, tls, m_encryptedMode, written>>
    <3> DEFINE signal == [sig |-> "responseReceived", response |-> Head(lines).line]
    <3>1. Tail(lines) \in Seq(StreamLine) /\ signal \in Signal
      BY <2>4, LinesType
    <3>2. unread \in Seq(StreamLine)
      BY <1>4
    <3>3. posted' \in Seq(Call)
      BY <1>1, <1>3, <2>4
    <3>4. events' \in Seq(Signal)
      <4> HIDE DEF signal
      <4>1. events' = events \o <<signal>>
        BY <2>4 DEF EmitAll, signal
      <4>q. QED
        BY <3>1, <4>1, SequenceOperations
    <3>q. QED
      BY <2>1, <2>4, <3>1, <3>2, <3>3, <3>4
  <2>q. QED
    BY <1>9, <2>2, <2>3, <2>4 DEF ReadMessage
<1>10. CASE SlotSocketDisconnected
  BY <1>1, <1>2, <1>3, <1>10 DEF SlotSocketDisconnected, threadVars, tlsVars
<1>11. CASE SetUseProxyInternal
  BY <1>1, <1>3, <1>4, <1>11 DEF SetUseProxyInternal, Drop, SocketState, streamVars
<1>12. CASE DoStartSsl
  <2>1. posted' \in Seq(Call)
    BY <1>1, <1>3, <1>12 DEF DoStartSsl
  <2>2. events' \in Seq(Signal)
    BY <1>2, <1>12 DEF DoStartSsl
  <2>q. QED
    BY <1>12, <2>1, <2>2 DEF DoStartSsl, streamVars
<1>13. CASE DoSslErrorHandlerResponse
  <2>1. posted' \in Seq(Call)
    BY <1>1, <1>3, <1>13 DEF DoSslErrorHandlerResponse
  <2>2. events' \in Seq(Signal)
    BY <1>2, <1>13 DEF DoSslErrorHandlerResponse
  <2>q. QED
    BY <1>4, <1>13, <2>1, <2>2 DEF DoSslErrorHandlerResponse, Drop, SocketState, streamVars
<1>14. CASE ThreadQuit
  BY <1>3, <1>4, <1>14 DEF ThreadQuit, SocketState
<1>q. QED
  BY <1>5, <1>6, <1>7, <1>8, <1>9, <1>10, <1>11, <1>12, <1>13, <1>14 DEF HandlePosted

(* The socket's own steps.                                                 *)
LEMMA SocketType ==
  ASSUME LinkTypeOK, ThreadTypeOK, ServerTypeOK, SocketStep, ServerFollows
  PROVE  LinkTypeOK' /\ ThreadTypeOK' /\ ServerTypeOK'
<1>1. \A n \in Nat, e \in Signal : [i \in 1..n |-> e] \in Seq(Signal)
  <2> SUFFICES ASSUME NEW n \in Nat, NEW e \in Signal
               PROVE  [i \in 1..n |-> e] \in Seq(Signal)
    OBVIOUS
  <2>1. [i \in 1..n |-> e] \in [1..n -> Signal]
    OBVIOUS
  <2>q. QED
    BY <2>1, SeqDef
<1>2. \A sig \in {"socketConnected", "socketError", "encryptionNegotiationResult", "sslError"} :
        [sig |-> sig] \in Signal
  BY DEF Signal
<1>3. "slotSocketDisconnected" \in Call
  BY DEF Call
<1>4. <<>> \in Seq(Command)
  BY EmptySeq
<1>5. posted' \in Seq(Call)
  <2>1. UNCHANGED posted \/ Post("slotSocketDisconnected")
    BY DEF SocketStep, Connected, ConnectFailed, SslConnected, RemoteClose
  <2>2. posted \in Seq(Call)
    BY DEF LinkTypeOK
  <2>q. QED
    BY <1>3, <2>1, <2>2, SequenceOperations DEF Post
<1>6. events' \in Seq(Signal)
  <2>1. CASE SslConnected
    <3>1. \E e \in Signal : events' = events \o [i \in 1..sslSlots |-> e]
      BY <1>2, <2>1 DEF SslConnected, EmitAll
    <3>2. sslSlots \in Nat /\ events \in Seq(Signal)
      BY DEF ThreadTypeOK, LinkTypeOK
    <3>q. QED
      BY <1>1, <3>1, <3>2, SequenceOperations
  <2>2. CASE Connected \/ ConnectFailed \/ RemoteClose
    <3>1. \E e \in Signal : events' = Append(events, e)
      BY <1>2, <2>2 DEF Connected, ConnectFailed, RemoteClose, Emit
    <3>q. QED
      BY <3>1, AppendProperties DEF LinkTypeOK
  <2>q. QED
    BY <2>1, <2>2 DEF SocketStep
<1>7. ThreadTypeOK' /\ dataQueue' \in Seq(Command)
  <2> USE <1>4 DEF ThreadTypeOK, LinkTypeOK, SocketState
  <2>1. CASE Connected
    BY <2>1 DEF Connected, Drop, streamVars
  <2>2. CASE ConnectFailed
    BY <2>2 DEF ConnectFailed, Drop, streamVars
  <2>3. CASE SslConnected
    BY <2>3 DEF SslConnected, streamVars
  <2>4. CASE RemoteClose
    BY <2>4 DEF RemoteClose, Drop, streamVars
  <2>q. QED
    BY <2>1, <2>2, <2>3, <2>4 DEF SocketStep
<1>8. ServerTypeOK'
  <2>1. server.sent \in 0..MaxUnsolicited
    BY DEF ServerTypeOK
  <2>2. FreshServer(server.sent) \in [phase : ServerPhase, box : Jobs \cup {NoJob}, idle : Tag,
                                      tls : BOOLEAN, lineFeedDue : BOOLEAN,
                                      sent : 0..MaxUnsolicited]
    BY <2>1, ServerAssumption DEF FreshServer, ServerPhase, Tag
  <2>q. QED
    BY <2>2 DEF ServerFollows, ServerTypeOK
<1>q. QED
  BY <1>5, <1>6, <1>7, <1>8 DEF LinkTypeOK

(* What ServerTypeOK says of the server, as a set.                         *)
ServerRecord == [phase : ServerPhase, box : Jobs \cup {NoJob}, idle : Tag,
                 tls : BOOLEAN, lineFeedDue : BOOLEAN, sent : 0..MaxUnsolicited]

(* A packet of lines that arrives at the socket.                           *)
LEMMA ArriveType ==
  ASSUME LinkTypeOK, ThreadTypeOK, NEW lines \in Seq(StreamLine), Arrive(lines),
         written' \in Seq(Command)
  PROVE  LinkTypeOK' /\ ThreadTypeOK'
<1>1. [sig |-> "socketActivity"] \in Signal /\ "readMessage" \in Call
  BY DEF Signal, Call
<1>2. events' \in Seq(Signal)
  BY <1>1, SequenceOperations DEF Arrive, Emit, LinkTypeOK
<1>3. posted' \in Seq(Call)
  BY <1>1, SequenceOperations DEF Arrive, Post, LinkTypeOK
<1>4. buffer' \in Seq(StreamLine)
  BY SequenceOperations DEF Arrive, ThreadTypeOK
<1>q. QED
  BY <1>2, <1>3, <1>4 DEF Arrive, tlsVars, ThreadTypeOK, LinkTypeOK

(* What the socket's buffer gets: lines behind those it has, or the line   *)
(* feed of the last of them.                                               *)
Delivers(ls) == \E lines \in Seq(StreamLine) : /\ buffer' = buffer \o lines
                                               /\ Len(lines) = Len(ls)
                                               /\ \A i \in 1..Len(ls) : lines[i].line = ls[i]
EndsLine == buffer # <<>> /\ buffer' = [buffer EXCEPT ![Len(buffer)].open = FALSE]

(* Sending lines, whether or not the last one is complete.                 *)
LEMMA SendLinesType ==
  ASSUME LinkTypeOK, ThreadTypeOK, NEW ls \in Seq(Line), ls # <<>>, NEW next \in ServerRecord,
         SendLines(ls, next), written' \in Seq(Command)
  PROVE  LinkTypeOK' /\ ThreadTypeOK' /\ ServerTypeOK' /\ Delivers(ls)
<1> DEFINE whole == [i \in DOMAIN ls |-> Whole(ls[i])]
           split == [whole EXCEPT ![Len(ls)].open = TRUE]
<1>1. Len(ls) \in Nat /\ DOMAIN ls = 1..Len(ls) /\ \A i \in 1..Len(ls) : ls[i] \in Line
  BY LenProperties, ElementOfSeq
<1>2. \A i \in 1..Len(ls) : Whole(ls[i]) \in StreamLine
  BY <1>1 DEF Whole, StreamLine
<1>3. whole \in [1..Len(ls) -> StreamLine]
  BY <1>1, <1>2
<1>4. split \in [1..Len(ls) -> StreamLine]
  <2>1. \A l \in StreamLine : [l EXCEPT !.open = TRUE] \in StreamLine
    BY DEF StreamLine
  <2> HIDE DEF whole
  <2>q. QED
    BY <1>3, <2>1
<1>5. whole \in Seq(StreamLine) /\ split \in Seq(StreamLine)
  BY <1>1, <1>3, <1>4, SeqDef
<1>6. Arrive(whole) \/ Arrive(split)
  BY DEF SendLines
<1>7. ServerTypeOK'
  <2>1. server' = next \/ server' = [next EXCEPT !.lineFeedDue = TRUE]
    BY DEF SendLines
  <2>q. QED
    BY <2>1 DEF ServerTypeOK, ServerRecord
<1>8. \A i \in 1..Len(ls) : whole[i].line = ls[i]
  BY <1>1 DEF Whole
<1>9. \A i \in 1..Len(ls) : split[i].line = ls[i]
  <2>1. \A i \in 1..Len(ls) : split[i].line = whole[i].line
    <3> HIDE DEF whole
    <3>1. \A l \in StreamLine : [l EXCEPT !.open = TRUE].line = l.line
      BY DEF StreamLine
    <3>q. QED
      BY <1>3, <3>1
  <2>q. QED
    BY <1>8, <2>1
<1>10. Len(whole) = Len(ls) /\ Len(split) = Len(ls)
  <2> HIDE DEF whole, split
  <2>q. QED
    BY <1>1, <1>3, <1>4, <1>5, LenProperties
<1> HIDE DEF whole, split
<1>11. Delivers(ls)
  BY <1>5, <1>6, <1>8, <1>9, <1>10 DEF Arrive, Delivers
<1>q. QED
  BY <1>5, <1>6, <1>7, <1>11, ArriveType

(* What the server's steps deliver.                                        *)
Sends == \/ /\ Greet
            /\ \E c \in Greetings : /\ Delivers(<<Reply(Star, c)>>)
                                    /\ c \notin {"OK", "PREAUTH"} => server'.phase = "Logout"
         \/ Answer /\ \E ls \in Seq(Line) : Delivers(ls)
         \/ SendUnsolicited /\ \E l \in Unsolicited : Delivers(<<l>>)
         \/ SendLineFeed /\ (EndsLine \/ Delivers(<<Blank>>))

(* A step of the server keeps the types, and only sends.                   *)
LEMMA ServerStepType ==
  ASSUME LinkTypeOK, ThreadTypeOK, ServerTypeOK, ServerStep
  PROVE  /\ LinkTypeOK' /\ ThreadTypeOK' /\ ServerTypeOK'
         /\ Sends
<1>1. server \in ServerRecord /\ written \in Seq(Command)
  BY DEF ServerTypeOK, ServerRecord, ThreadTypeOK
<1>3. CASE Greet
  <2>1. PICK c \in Greetings :
          SendLines(<<Reply(Star, c)>>,
                    [server EXCEPT !.phase = CASE c = "OK" -> "NotAuthenticated"
                                               [] c = "PREAUTH" -> "Authenticated"
                                               [] OTHER -> "Logout"])
    BY <1>3 DEF Greet
  <2>2. Reply(Star, c) \in Line
    BY ServerAssumption DEF Reply, Line, Code
  <2>3. [server EXCEPT !.phase = CASE c = "OK" -> "NotAuthenticated"
                                   [] c = "PREAUTH" -> "Authenticated"
                                   [] OTHER -> "Logout"] \in ServerRecord
    BY <1>1 DEF ServerRecord, ServerPhase
  <2>4. written' \in Seq(Command)
    BY <1>1, <1>3 DEF Greet
  <2>5. <<Reply(Star, c)>> \in Seq(Line) /\ <<Reply(Star, c)>> # <<>>
    BY <2>2, SequenceOperations
  <2>6. c \notin {"OK", "PREAUTH"} => server'.phase = "Logout"
    BY <1>1, <2>1 DEF SendLines, ServerRecord
  <2>q. QED
    BY <1>3, <2>1, <2>3, <2>4, <2>5, <2>6, SendLinesType DEF Sends
<1>4. CASE Answer
  <2> DEFINE cmd == Head(written)
  <2>1. cmd \in Command /\ written' \in Seq(Command)
    BY <1>1, <1>4, SequenceOperations DEF Answer
  <2> HIDE DEF cmd
  <2>2. cmd.tag \in Tag /\ cmd.box \in Jobs \cup {NoJob}
    BY <2>1 DEF Command
  <2>3. \A t \in Tag \cup {Star, Plus}, c \in Code : Reply(t, c) \in Line
    BY DEF Reply, Line
  <2>4. CASE SendLines(AcceptLines(cmd), Accepted(cmd))
    <3>1. AcceptLines(cmd) \in Seq(Line) /\ AcceptLines(cmd) # <<>>
      <4>1. /\ Reply(Star, "data") \in Line /\ Reply(cmd.tag, "OK") \in Line
            /\ Reply(Star, "BYE") \in Line /\ Reply(Plus, "data") \in Line
            /\ Reply(Star, "NO") \in Line /\ Reply(server.idle, "OK") \in Line
        BY <1>1, <2>2, <2>3 DEF Code, ServerRecord
      <4>2. \A a, b \in Line : <<a>> \in Seq(Line) /\ <<a, b>> \in Seq(Line)
        <5> SUFFICES ASSUME NEW a \in Line, NEW b \in Line
                     PROVE  <<a>> \in Seq(Line) /\ <<a, b>> \in Seq(Line)
          OBVIOUS
        <5>1. <<a, b>> = Append(<<a>>, b)
          OBVIOUS
        <5>q. QED
          BY <5>1, SequenceOperations
      <4>q. QED
        BY <4>1, <4>2 DEF AcceptLines
    <3>2. Accepted(cmd) \in ServerRecord
      BY <1>1, <2>2 DEF Accepted, ServerRecord, ServerPhase, Tag
    <3>q. QED
      BY <1>4, <2>1, <2>4, <3>1, <3>2, SendLinesType DEF Sends
  <2>5. CASE \E c \in Replies \ {"OK"} : SendLines(<<Reply(cmd.tag, c)>>, Rejected(cmd))
    <3>1. PICK c \in Replies : SendLines(<<Reply(cmd.tag, c)>>, Rejected(cmd))
      BY <2>5
    <3>2. Reply(cmd.tag, c) \in Line
      BY <2>2, <2>3, ServerAssumption DEF Code
    <3>3. Rejected(cmd) \in ServerRecord
      BY <1>1 DEF Rejected, ServerRecord, ServerPhase
    <3>4. <<Reply(cmd.tag, c)>> \in Seq(Line) /\ <<Reply(cmd.tag, c)>> # <<>>
      BY <3>2, SequenceOperations
    <3>q. QED
      BY <1>4, <2>1, <3>1, <3>3, <3>4, SendLinesType DEF Sends
  <2>q. QED
    BY <1>4, <2>4, <2>5 DEF Answer, cmd
<1>5. CASE SendUnsolicited
  <2>1. PICK l \in Unsolicited : SendLines(<<l>>, [server EXCEPT !.sent = @ + 1])
    BY <1>5 DEF SendUnsolicited
  <2>2. [server EXCEPT !.sent = @ + 1] \in ServerRecord
    <3>1. server.sent \in 0..MaxUnsolicited /\ server.sent < MaxUnsolicited /\ MaxUnsolicited \in Nat
      BY <1>1, <1>5, ServerAssumption DEF SendUnsolicited, ServerRecord
    <3>2. server.sent + 1 \in 0..MaxUnsolicited
      BY <3>1
    <3>q. QED
      BY <1>1, <3>2 DEF ServerRecord
  <2>3. written' \in Seq(Command)
    BY <1>1, <1>5 DEF SendUnsolicited
  <2>4. <<l>> \in Seq(Line) /\ <<l>> # <<>>
    BY ServerAssumption, SequenceOperations
  <2>q. QED
    BY <1>5, <2>1, <2>2, <2>3, <2>4, SendLinesType DEF Sends
<1>6. CASE SendLineFeed
  <2>1. LineFeed /\ UNCHANGED written /\ ServerTypeOK'
    BY <1>1, <1>6 DEF SendLineFeed, ServerTypeOK, ServerRecord
  <2>2. CASE Arrive(<<Whole(Blank)>>)
    <3>1. Whole(Blank) \in StreamLine
      BY DEF Whole, Blank, Reply, StreamLine, Line, Tag, Code
    <3>2. <<Whole(Blank)>> \in Seq(StreamLine)
      BY <3>1, SequenceOperations
    <3>3. Delivers(<<Blank>>)
      <4>1. \A l : Whole(l).line = l
        BY DEF Whole
      <4>2. buffer' = buffer \o <<Whole(Blank)>>
        BY <2>2 DEF Arrive
      <4>3. \A a, b : /\ Len(<<a>>) = Len(<<b>>)
                      /\ \A i \in 1..Len(<<b>>) : <<a>>[i] = a /\ <<b>>[i] = b
        OBVIOUS
      <4>4. /\ Len(<<Whole(Blank)>>) = Len(<<Blank>>)
            /\ \A i \in 1..Len(<<Blank>>) : <<Whole(Blank)>>[i].line = <<Blank>>[i]
        BY <4>1, <4>3
      <4>q. QED
        BY <3>2, <4>2, <4>4 DEF Delivers
    <3>q. QED
      BY <1>1, <1>6, <2>1, <2>2, <3>2, <3>3, ArriveType DEF Sends
  <2>3. CASE /\ buffer # <<>>
             /\ buffer' = [buffer EXCEPT ![Len(buffer)].open = FALSE]
             /\ Emit("socketActivity")
             /\ Post("readMessage")
             /\ UNCHANGED <<socket, pendingClose, tlsVars, m_data, dataQueue>>
    <3>1. buffer \in Seq(StreamLine) /\ Len(buffer) \in 1..Len(buffer)
      BY <2>3, EmptySeq DEF ThreadTypeOK
    <3>2. [buffer[Len(buffer)] EXCEPT !.open = FALSE] \in StreamLine
      <4>1. buffer[Len(buffer)] \in StreamLine
        BY <3>1, ElementOfSeq
      <4>q. QED
        BY <4>1 DEF StreamLine
    <3>3. buffer' \in Seq(StreamLine)
      BY <2>3, <3>1, <3>2, ExceptSeq
    <3>4. [sig |-> "socketActivity"] \in Signal /\ "readMessage" \in Call
      BY DEF Signal, Call
    <3>5. events' \in Seq(Signal)
      BY <2>3, <3>4, SequenceOperations DEF Emit, LinkTypeOK
    <3>6. posted' \in Seq(Call)
      BY <2>3, <3>4, SequenceOperations DEF Post, LinkTypeOK
    <3>q. QED
      BY <1>6, <2>1, <2>3, <3>3, <3>5, <3>6 DEF ThreadTypeOK, LinkTypeOK, tlsVars, Sends, EndsLine
  <2>q. QED
    BY <2>1, <2>2, <2>3 DEF LineFeed
<1>q. QED
  BY <1>3, <1>4, <1>5, <1>6 DEF ServerStep

-----------------------------------------------------------------------------
(* The inductive invariant.  The types of the two queues between the       *)
(* threads need those of the session, which fills them, and conversely the *)
(* session's need nothing of the queues.                                   *)
ConnectionInv == /\ SessionInv
                 /\ LinkTypeOK
                 /\ ThreadTypeOK
                 /\ ServerTypeOK
                 /\ SettingsTypeOK

(* The two constructors, and a server nobody has connected to.             *)
LEMMA ConnectionInitHolds == Init => ConnectionInv
<1> SUFFICES ASSUME Init PROVE ConnectionInv
  OBVIOUS
<1>1. SessionInv
  BY InitHolds
<1>2. LinkTypeOK
  <2>1. "threadInit" \in Call
    BY DEF Call
  <2>q. QED
    BY <2>1, SequenceOperations DEF Init, LinkInit, LinkTypeOK
<1>3. ThreadTypeOK
  BY SequenceOperations DEF Init, ThreadInitState, ThreadTypeOK, SocketState
<1>4. ServerTypeOK
  BY ServerAssumption DEF Init, ServerInit, FreshServer, ServerTypeOK, ServerPhase, Tag
<1>5. SettingsTypeOK
  BY DEF Init, SettingsTypeOK
<1>q. QED
  BY <1>1, <1>2, <1>3, <1>4, <1>5 DEF ConnectionInv

(* A call that the bound on the application's calls counts.                *)
LEMMA SpendType ==
  ASSUME SettingsTypeOK,
         UNCHANGED settings \/ \E what \in {"close", "timeout", "proxy", "destroy"} : Spend(what)
  PROVE  SettingsTypeOK'
<1>1. CASE UNCHANGED settings
  BY <1>1 DEF SettingsTypeOK
<1>2. CASE Spend("close") \/ Spend("timeout") \/ Spend("proxy")
  BY <1>2 DEF Spend, SettingsTypeOK
<1>3. CASE Spend("destroy")
  <2>1. settings.destroy = 0
    BY <1>3, ConnectionAssumption DEF Spend, SettingsTypeOK
  <2>q. QED
    BY <1>3, <2>1 DEF Spend, SettingsTypeOK
<1>q. QED
  BY <1>1, <1>2, <1>3

(* Every step of either thread, of the socket, of the server and of the    *)
(* application keeps it.                                                   *)
LEMMA ConnectionNextKeeps == ConnectionInv /\ [Next]_vars => ConnectionInv'
<1> SUFFICES ASSUME ConnectionInv, [Next]_vars
             PROVE  ConnectionInv'
  OBVIOUS
<1> USE DEF ConnectionInv
<1>1. SessionInv'
  BY NextKeeps
<1>2. SettingsTypeOK'
  BY SpendType DEF Next, Application, MainThread, Timeout, SecondaryThread, Socket, Server, vars
<1>3. CASE Application \/ Timeout
  <2>1. UNCHANGED <<threadVars, server>>
    BY <1>3 DEF Application, Timeout
  <2>2. LinkTypeOK'
    BY <1>3, ApplicationHands, HandsType DEF LinkTypeOK, SettingsTypeOK
  <2>q. QED
    BY <1>1, <1>2, <2>1, <2>2 DEF threadVars, ThreadTypeOK, ServerTypeOK
<1>4. CASE MainThread
  <2>1. UNCHANGED <<threadVars, server>> /\ HandleSignal
    BY <1>4 DEF MainThread
  <2>2. LinkTypeOK'
    BY <2>1, HandleSignalHands, HandsType, SequenceOperations DEF LinkTypeOK
  <2>q. QED
    BY <1>1, <1>2, <2>1, <2>2 DEF threadVars, ThreadTypeOK, ServerTypeOK
<1>5. CASE SecondaryThread
  BY <1>1, <1>2, <1>5, HandlePostedType DEF SecondaryThread, ServerTypeOK
<1>6. CASE Socket
  BY <1>1, <1>2, <1>6, SocketType DEF Socket
<1>7. CASE Server
  BY <1>1, <1>2, <1>7, ServerStepType DEF Server
<1>8. CASE UNCHANGED vars
  BY <1>1, <1>2, <1>8 DEF vars, linkVars, threadVars, LinkTypeOK, ThreadTypeOK, ServerTypeOK
<1>q. QED
  BY <1>3, <1>4, <1>5, <1>6, <1>7, <1>8 DEF Next

(* So it holds in every reachable state.                                   *)
LEMMA ConnectionInvariantHolds == Spec => []ConnectionInv
BY ConnectionInitHolds, ConnectionNextKeeps, PTL DEF Spec

(* Type correctness of the composition: in particular, whatever the server *)
(* sends, the session is only ever handed responses (a line that cannot be *)
(* parsed closes the socket instead), the secondary thread only ever finds *)
(* calls it has a handler for, and each command written carries a tag of   *)
(* 16 bits.                                                                *)
THEOREM TypeCorrect == Spec => []TypeOK
<1>1. ConnectionInv => TypeOK
  BY SessionInvMeaning DEF ConnectionInv, TypeOK, SettingsTypeOK
<1>q. QED
  BY <1>1, ConnectionInvariantHolds, PTL

-----------------------------------------------------------------------------
(* A session that keeps its proxy connects once: of the calls that wait    *)
(* for the secondary thread, one connects the socket.                      *)
Connecting == {"threadInit", "reconnect"}
LateCall == Call \ {"threadInit", "reconnect", "setUseProxyInternal"}
OneConnects(calls, others) ==
  \E k \in 1..Len(calls) : /\ calls[k] \in Connecting
                           /\ \A i \in 1..Len(calls) : i # k => calls[i] \in others

(* It stays the one when another is posted, until it is handled itself.    *)
LEMMA OneConnectsOperations ==
  ASSUME NEW others, others \subseteq Call \ Connecting
  PROVE
  /\ \A s \in Seq(others) : OneConnects(Append(s, "reconnect"), others)
  /\ \A s \in Seq(Call) : OneConnects(s, others) =>
       /\ s # <<>>
       /\ \A call \in others : OneConnects(Append(s, call), others)
       /\ Head(s) \in Connecting => Tail(s) \in Seq(others)
       /\ Head(s) \notin Connecting => OneConnects(Tail(s), others)
<1>1. others \subseteq Call /\ "reconnect" \in Call /\ "reconnect" \in Connecting
  BY DEF Call, Connecting
<1>2. ASSUME NEW s \in Seq(others)
      PROVE  OneConnects(Append(s, "reconnect"), others)
  <2>1. s \in Seq(Call)
    BY <1>1, SeqMonotonic
  <2>2. /\ Len(Append(s, "reconnect")) = Len(s) + 1 /\ Len(s) \in Nat
        /\ \A i \in 1..Len(s) : Append(s, "reconnect")[i] = s[i]
        /\ Append(s, "reconnect")[Len(s) + 1] = "reconnect"
    BY <1>1, <2>1, AppendProperties, LenProperties
  <2>3. \A i \in 1..Len(s) : s[i] \in others
    BY ElementOfSeq
  <2>4. \A i \in 1..Len(s) + 1 : i # Len(s) + 1 => i \in 1..Len(s)
    BY <2>2
  <2>q. QED
    BY <1>1, <2>2, <2>3, <2>4 DEF OneConnects
<1>3. ASSUME NEW s \in Seq(Call), OneConnects(s, others)
      PROVE  /\ s # <<>>
             /\ \A call \in others : OneConnects(Append(s, call), others)
             /\ Head(s) \in Connecting => Tail(s) \in Seq(others)
             /\ Head(s) \notin Connecting => OneConnects(Tail(s), others)
  <2>1. PICK k \in 1..Len(s) : /\ s[k] \in Connecting
                               /\ \A i \in 1..Len(s) : i # k => s[i] \in others
    BY <1>3 DEF OneConnects
  <2>2. Len(s) \in Nat
    BY LenProperties
  <2>3. s # <<>>
    BY <2>1
  <2>4. ASSUME NEW call \in others
        PROVE  OneConnects(Append(s, call), others)
    <3>1. /\ Len(Append(s, call)) = Len(s) + 1
          /\ \A i \in 1..Len(s) : Append(s, call)[i] = s[i]
          /\ Append(s, call)[Len(s) + 1] = call
      BY <1>1, AppendProperties
    <3>2. \A i \in 1..Len(s) + 1 : i \in 1..Len(s) \/ i = Len(s) + 1
      BY <2>2
    <3>3. k \in 1..Len(Append(s, call)) /\ Append(s, call)[k] \in Connecting
      BY <2>1, <2>2, <3>1
    <3>4. \A i \in 1..Len(s) + 1 : i # k => Append(s, call)[i] \in others
      BY <2>1, <3>1, <3>2
    <3>q. QED
      BY <3>1, <3>3, <3>4 DEF OneConnects
  <2>5. /\ Len(Tail(s)) = Len(s) - 1 /\ Tail(s) \in Seq(Call)
        /\ \A i \in 1..Len(Tail(s)) : Tail(s)[i] = s[i + 1]
    BY <2>3, HeadTailProperties
  <2>6. Head(s) = s[1]
    OBVIOUS
  <2>7. \A call \in Connecting : call \notin others
    OBVIOUS
  <2>8. ASSUME Head(s) \in Connecting
        PROVE  Tail(s) \in Seq(others)
    <3>1. k = 1
      <4>1. 1 \in 1..Len(s) /\ s[1] \in Connecting
        BY <2>1, <2>2, <2>6, <2>8
      <4>2. s[1] \notin others
        BY <2>7, <4>1
      <4>q. QED
        BY <2>1, <4>1, <4>2
    <3>2. \A i \in 1..Len(Tail(s)) : Tail(s)[i] \in others
      BY <2>1, <2>2, <2>5, <3>1
    <3>3. Tail(s) \in [1..Len(Tail(s)) -> others]
      BY <2>5, <3>2, LenProperties
    <3>4. Len(Tail(s)) \in Nat
      BY <2>5, LenProperties
    <3>q. QED
      BY <3>3, <3>4, SeqDef
  <2>9. ASSUME Head(s) \notin Connecting
        PROVE  OneConnects(Tail(s), others)
    <3>1. k # 1 /\ k - 1 \in 1..Len(Tail(s))
      BY <2>1, <2>2, <2>5, <2>6, <2>9
    <3>2. Tail(s)[k - 1] \in Connecting
      BY <2>1, <2>5, <3>1
    <3>3. \A i \in 1..Len(Tail(s)) : i # k - 1 => Tail(s)[i] \in others
      BY <2>1, <2>2, <2>5
    <3>q. QED
      BY <3>1, <3>2, <3>3 DEF OneConnects
  <2>q. QED
    BY <2>3, <2>4, <2>8, <2>9
<1>q. QED
  BY <1>2, <1>3

-----------------------------------------------------------------------------
(* What the handlers of the secondary thread have in common: they take one *)
(* call, may post and emit one, and may close a socket that is connected,  *)
(* whose disconnection is then posted.                                     *)
Emits(call) == CASE call = "slotSocketDisconnected" -> {"socketDisconnected"}
                 [] call = "sslErrorIgnored" -> {"encryptionNegotiationResult"}
                 [] call = "sslErrorRefused" -> {"socketError"}
                 [] OTHER -> {"socketActivity", "responseReceived"}

Closes == /\ socket = "connected" /\ socket' = "unconnected"
          /\ posted' = Append(Tail(posted), "slotSocketDisconnected")
GoesOn == /\ UNCHANGED socket
          /\ UNCHANGED tls \/ (socket = "connected" /\ tls = "plain" /\ tls' = "handshake")
          /\ posted' = Tail(posted) \/ posted' = Append(Tail(posted), "readMessage")

ThreadMoves ==
  /\ Closes \/ GoesOn
  /\ \/ UNCHANGED events
     \/ \E e \in Signal : e.sig \in Emits(Head(posted)) /\ events' = Append(events, e)
  /\ dataQueue' \in {dataQueue, <<>>}
  /\ written' \in {written, written \o dataQueue, <<>>}

(* Every handler does that but for the three that connect, and the end.    *)
LEMMA SecondaryThreadMoves ==
  ASSUME LinkTypeOK, ThreadTypeOK, HandlePosted, ~ThreadQuit
  PROVE  /\ posted # <<>>
         /\ ThreadInit \/ Reconnect \/ SetUseProxyInternal
            \/ (Head(posted) \in Call \ {"threadInit", "reconnect", "setUseProxyInternal", "threadQuit"}
                /\ ThreadMoves)
<1>1. /\ \A call : Take(call, <<>>) => posted' = Tail(posted)
      /\ \A call, more \in Call : Take(call, <<more>>) => posted' = Append(Tail(posted), more)
  <2> SUFFICES ASSUME posted # <<>>
               PROVE  /\ Tail(posted) \o <<>> = Tail(posted)
                      /\ \A more \in Call : Tail(posted) \o <<more>> = Append(Tail(posted), more)
    BY DEF Take
  <2>1. Tail(posted) \in Seq(Call)
    BY SequenceOperations DEF LinkTypeOK
  <2>q. QED
    BY <2>1, ConcatEmptySeq, AppendIsConcat
<1>2. posted # <<>>
  BY DEF HandlePosted, ThreadInit, Reconnect, WriteDataQueue, DoCloseSocket, ReadMessage,
         SlotSocketDisconnected, SetUseProxyInternal, DoStartSsl, DoSslErrorHandlerResponse, Take
<1>3. \A sig \in {"socketConnected", "socketDisconnected", "socketActivity", "socketError",
                  "encryptionNegotiationResult"} : [sig |-> sig] \in Signal
  BY DEF Signal
<1>4. {"slotSocketDisconnected", "readMessage"} \subseteq Call
  BY DEF Call
<1>5. CloseSocket => (Closes \/ GoesOn) /\ written' \in {written, <<>>}
  <2> SUFFICES ASSUME CloseSocket PROVE (Closes \/ GoesOn) /\ written' \in {written, <<>>}
    OBVIOUS
  <2>1. Tail(posted) \o <<"slotSocketDisconnected">> = Append(Tail(posted), "slotSocketDisconnected")
    BY <1>2, <1>4, SequenceOperations, AppendIsConcat DEF LinkTypeOK
  <2>q. QED
    BY <2>1 DEF CloseSocket, Drop, Closes, GoesOn
<1>6. CASE WriteDataQueue
  <2>1. UNCHANGED events \/ \E e \in Signal : e.sig = "socketActivity" /\ events' = Append(events, e)
    BY <1>3, <1>6 DEF WriteDataQueue, Emit
  <2>2. Head(posted) = "writeDataQueue" /\ posted' = Tail(posted)
    BY <1>1, <1>6 DEF WriteDataQueue, Take
  <2>q. QED
    BY <1>2, <1>6, <2>1, <2>2 DEF WriteDataQueue, ThreadMoves, GoesOn, Emits, tlsVars, Call
<1>7. CASE DoCloseSocket
  BY <1>2, <1>5, <1>7 DEF DoCloseSocket, ThreadMoves, Call
<1>8. CASE ReadMessage
  <2> DEFINE lines == IF m_data = <<>> THEN buffer ELSE m_data
             signal == [sig |-> "responseReceived", response |-> Head(lines).line]
  <2>1. Head(posted) = "readMessage" /\ UNCHANGED dataQueue
    BY <1>8 DEF ReadMessage
  <2>2. CASE Take("readMessage", <<>>) /\ UNCHANGED <<socket, tls, written, events>>
    BY <1>1, <1>2, <2>1, <2>2 DEF ThreadMoves, GoesOn, Call
  <2>3. CASE CloseSocket /\ UNCHANGED events
    BY <1>2, <1>5, <2>1, <2>3 DEF ThreadMoves, Call
  <2>4. CASE /\ lines # <<>> /\ Head(lines).line.code # "garbage"
             /\ \E more \in {<<>>, <<"readMessage">>} : Take("readMessage", more)
             /\ events' = events \o <<signal>>
             /\ UNCHANGED <<socket, tls, written>>
    <3>1. signal \in Signal /\ signal.sig = "responseReceived"
      BY <2>4, LinesType
    <3>2. GoesOn
      BY <1>1, <1>4, <2>4 DEF GoesOn
    <3>3. \E e \in Signal : e.sig = "responseReceived" /\ events' = Append(events, e)
      <4> HIDE DEF signal
      <4>q. QED
        BY <2>4, <3>1, AppendIsConcat DEF LinkTypeOK
    <3>q. QED
      BY <1>2, <2>1, <2>4, <3>2, <3>3 DEF ThreadMoves, Emits, Call
  <2>q. QED
    BY <1>8, <2>2, <2>3, <2>4 DEF ReadMessage, EmitAll
<1>9. CASE SlotSocketDisconnected
  <2>1. Head(posted) = "slotSocketDisconnected" /\ posted' = Tail(posted)
    BY <1>1, <1>9 DEF SlotSocketDisconnected, Take
  <2>2. GoesOn /\ UNCHANGED <<dataQueue, written>>
    BY <1>9, <2>1 DEF SlotSocketDisconnected, GoesOn, threadVars
  <2>3. \E e \in Signal : e.sig = "socketDisconnected" /\ events' = Append(events, e)
    BY <1>3, <1>9 DEF SlotSocketDisconnected, Emit
  <2>q. QED
    BY <1>2, <2>1, <2>2, <2>3 DEF ThreadMoves, Emits, Call
<1>10. CASE DoStartSsl
  <2>1. Head(posted) = "doStartSsl" /\ posted' = Tail(posted)
    BY <1>1, <1>10 DEF DoStartSsl, Take
  <2>2. UNCHANGED events \/ \E e \in Signal : e.sig = "socketActivity" /\ events' = Append(events, e)
    BY <1>3, <1>10 DEF DoStartSsl, Emit
  <2>3. GoesOn /\ UNCHANGED <<dataQueue, written>>
    BY <1>10, <2>1 DEF DoStartSsl, GoesOn
  <2>q. QED
    BY <1>2, <2>1, <2>2, <2>3 DEF ThreadMoves, Emits, Call
<1>11. CASE DoSslErrorHandlerResponse
  <2>1. CASE Take("sslErrorIgnored", <<>>) /\ Emit("encryptionNegotiationResult")
             /\ UNCHANGED <<socket, tls, written, dataQueue>>
    <3>1. Head(posted) = "sslErrorIgnored" /\ GoesOn
      BY <1>1, <2>1 DEF Take, GoesOn
    <3>2. \E e \in Signal : e.sig = "encryptionNegotiationResult" /\ events' = Append(events, e)
      BY <1>3, <2>1 DEF Emit
    <3>q. QED
      BY <1>2, <2>1, <3>1, <3>2 DEF ThreadMoves, Emits, Call
  <2>2. CASE /\ Emit("socketError") /\ UNCHANGED dataQueue /\ written' \in {written, <<>>}
             /\ \/ Take("sslErrorRefused", <<>>) /\ UNCHANGED <<socket, tls>>
                \/ /\ Take("sslErrorRefused", <<"slotSocketDisconnected">>)
                   /\ socket = "connected" /\ socket' = "unconnected"
    <3>1. Head(posted) = "sslErrorRefused" /\ (Closes \/ GoesOn)
      BY <1>1, <1>4, <2>2 DEF Take, Closes, GoesOn
    <3>2. \E e \in Signal : e.sig = "socketError" /\ events' = Append(events, e)
      BY <1>3, <2>2 DEF Emit
    <3>q. QED
      BY <1>2, <2>2, <3>1, <3>2 DEF ThreadMoves, Emits, Call
  <2>q. QED
    BY <1>11, <2>1, <2>2 DEF DoSslErrorHandlerResponse, Drop
<1>q. QED
  BY <1>2, <1>6, <1>7, <1>8, <1>9, <1>10, <1>11 DEF HandlePosted
=============================================================================
