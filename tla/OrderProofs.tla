----------------------------- MODULE OrderProofs -----------------------------
(***************************************************************************)
(* What the order of the signals is, where it does not depend on luck.     *)
(*                                                                         *)
(* QueueProofs rests on GreetingIsTimely, which not every server and       *)
(* application keeps.  It holds whenever no job asks for TLS from the      *)
(* first byte on, the application leaves the proxy of the running session  *)
(* alone, and a server that turns the connection away does not greet it    *)
(* afterwards; the theorems about the jobs then hold without it.           *)
(*                                                                         *)
(* The second half shows by the same means that a running job is watched   *)
(* by the timer, whatever the jobs and the greetings are.                  *)
(***************************************************************************)
EXTENDS QueueProofs

Welcome == {"OK", "PREAUTH"}
IsGreeting(e) == e.sig = "responseReceived" /\ e.response.code \in Welcome

LateSignal == {e \in Signal : e.sig # "socketConnected"}
OpeningSignal == {e \in Signal : e.sig \in {"socketConnected", "socketActivity"}}
DullSignal == {e \in Signal : ~IsGreeting(e)}
QuietSignal == {e \in Signal : e.sig \notin {"socketConnected", "socketDisconnected", "responseReceived"}}
DullLine == {l \in StreamLine : l.line.code \notin Welcome}

-----------------------------------------------------------------------------
(* What is added behind a sequence leaves its front alone.                 *)
LEMMA ConcatBehind ==
  ASSUME NEW S, NEW s \in Seq(S), NEW t \in Seq(S), s # <<>>
  PROVE  s \o t # <<>> /\ Head(s \o t) = Head(s) /\ Tail(s \o t) = Tail(s) \o t
<1>1. /\ Len(s) \in Nat \ {0} /\ Len(t) \in Nat
      /\ Len(s \o t) = Len(s) + Len(t) /\ s \o t \in Seq(S)
      /\ \A i \in 1..Len(s) + Len(t) : (s \o t)[i] = IF i <= Len(s) THEN s[i] ELSE t[i - Len(s)]
  BY ConcatProperties, LenProperties, EmptySeq
<1>2. s \o t # <<>>
  BY <1>1
<1>3. Head(s \o t) = Head(s)
  <2>1. Head(s \o t) = (s \o t)[1] /\ Head(s) = s[1]
    BY <1>1, <1>2
  <2>q. QED
    BY <1>1, <2>1
<1>4. /\ Tail(s) \in Seq(S) /\ Len(Tail(s)) = Len(s) - 1
      /\ \A i \in 1..Len(Tail(s)) : Tail(s)[i] = s[i + 1]
  BY HeadTailProperties
<1>5. /\ Tail(s \o t) \in Seq(S) /\ Len(Tail(s \o t)) = Len(s) + Len(t) - 1
      /\ \A i \in 1..Len(Tail(s \o t)) : Tail(s \o t)[i] = (s \o t)[i + 1]
  BY <1>1, <1>2, HeadTailProperties
<1>6. /\ Tail(s) \o t \in Seq(S) /\ Len(Tail(s) \o t) = Len(s) - 1 + Len(t)
      /\ \A i \in 1..Len(s) - 1 + Len(t) :
           (Tail(s) \o t)[i] = IF i <= Len(s) - 1 THEN Tail(s)[i] ELSE t[i - (Len(s) - 1)]
  BY <1>4, ConcatProperties
<1>7. \A i \in 1..Len(s) + Len(t) - 1 : Tail(s \o t)[i] = (Tail(s) \o t)[i]
  <2> SUFFICES ASSUME NEW i \in 1..Len(s) + Len(t) - 1
               PROVE  Tail(s \o t)[i] = (Tail(s) \o t)[i]
    OBVIOUS
  <2>1. Tail(s \o t)[i] = (s \o t)[i + 1] /\ i + 1 \in 1..Len(s) + Len(t)
    BY <1>1, <1>5
  <2>2. CASE i <= Len(s) - 1
    BY <1>1, <1>4, <1>6, <2>1, <2>2
  <2>3. CASE i > Len(s) - 1
    <3>1. (s \o t)[i + 1] = t[i + 1 - Len(s)]
      BY <1>1, <2>1, <2>3
    <3>2. (Tail(s) \o t)[i] = t[i - (Len(s) - 1)]
      BY <1>1, <1>6, <2>3
    <3>3. i + 1 - Len(s) = i - (Len(s) - 1)
      BY <1>1
    <3>q. QED
      BY <2>1, <3>1, <3>2, <3>3
  <2>q. QED
    BY <1>1, <2>2, <2>3
<1>8. Tail(s \o t) = Tail(s) \o t
  BY <1>1, <1>5, <1>6, <1>7, SeqEqual
<1>q. QED
  BY <1>2, <1>3, <1>8

(* A greeting is among the signals, and nothing before it but the news of  *)
(* the connection and its activity.                                        *)
Awaits(evs) ==
  \E k \in 1..Len(evs) : /\ IsGreeting(evs[k])
                         /\ \A m \in 1..k - 1 : evs[m].sig \in {"socketConnected", "socketActivity"}

(* What is added behind leaves a greeting that is next in place.           *)
LEMMA AwaitsOperations ==
  /\ \A s, t \in Seq(Signal) : Awaits(s) => Awaits(s \o t)
  /\ \A s \in Seq(OpeningSignal), e \in Signal : IsGreeting(e) => Awaits(Append(s, e))
  /\ \A s \in Seq(Signal) : Awaits(s) =>
       /\ s # <<>>
       /\ IsGreeting(Head(s)) \/ (Head(s) \in OpeningSignal /\ Awaits(Tail(s)))
<1>1. ASSUME NEW s \in Seq(Signal), NEW t \in Seq(Signal), Awaits(s)
      PROVE  Awaits(s \o t)
  <2>1. PICK k \in 1..Len(s) :
          /\ IsGreeting(s[k])
          /\ \A m \in 1..k - 1 : s[m].sig \in {"socketConnected", "socketActivity"}
    BY <1>1 DEF Awaits
  <2>2. /\ Len(s) \in Nat /\ Len(t) \in Nat /\ Len(s \o t) = Len(s) + Len(t)
        /\ \A i \in 1..Len(s) : (s \o t)[i] = s[i]
    BY ConcatProperties, LenProperties
  <2>3. k \in 1..Len(s \o t) /\ \A m \in 1..k - 1 : m \in 1..Len(s)
    BY <2>1, <2>2
  <2>q. QED
    BY <2>1, <2>2, <2>3 DEF Awaits
<1>2. ASSUME NEW s \in Seq(OpeningSignal), NEW e \in Signal, IsGreeting(e)
      PROVE  Awaits(Append(s, e))
  <2>1. s \in Seq(Signal)
    BY SeqMonotonic DEF OpeningSignal
  <2>2. /\ Len(s) \in Nat /\ Len(Append(s, e)) = Len(s) + 1
        /\ \A i \in 1..Len(s) : Append(s, e)[i] = s[i]
        /\ Append(s, e)[Len(s) + 1] = e
    BY <2>1, AppendProperties, LenProperties
  <2>3. \A i \in 1..Len(s) : s[i].sig \in {"socketConnected", "socketActivity"}
    BY ElementOfSeq DEF OpeningSignal
  <2>4. Len(s) + 1 \in 1..Len(Append(s, e)) /\ (Len(s) + 1) - 1 = Len(s)
    BY <2>2
  <2>q. QED
    BY <1>2, <2>2, <2>3, <2>4 DEF Awaits
<1>3. ASSUME NEW s \in Seq(Signal), Awaits(s)
      PROVE  /\ s # <<>>
             /\ IsGreeting(Head(s)) \/ (Head(s) \in OpeningSignal /\ Awaits(Tail(s)))
  <2>1. PICK k \in 1..Len(s) :
          /\ IsGreeting(s[k])
          /\ \A m \in 1..k - 1 : s[m].sig \in {"socketConnected", "socketActivity"}
    BY <1>3 DEF Awaits
  <2>2. Len(s) \in Nat /\ s # <<>>
    BY <2>1, LenProperties
  <2>3. /\ Head(s) = s[1] /\ Head(s) \in Signal
        /\ Len(Tail(s)) = Len(s) - 1
        /\ \A i \in 1..Len(Tail(s)) : Tail(s)[i] = s[i + 1]
    BY <2>2, HeadTailProperties
  <2>4. CASE k = 1
    BY <2>1, <2>2, <2>3, <2>4
  <2>5. CASE k # 1
    <3>1. Head(s) \in OpeningSignal
      BY <2>1, <2>2, <2>3, <2>5 DEF OpeningSignal
    <3>2. k - 1 \in 1..Len(Tail(s)) /\ IsGreeting(Tail(s)[k - 1])
      BY <2>1, <2>2, <2>3, <2>5
    <3>3. \A m \in 1..(k - 1) - 1 : Tail(s)[m].sig \in {"socketConnected", "socketActivity"}
      BY <2>1, <2>2, <2>3
    <3>q. QED
      BY <2>2, <3>1, <3>2, <3>3 DEF Awaits
  <2>q. QED
    BY <2>4, <2>5
<1>q. QED
  BY <1>1, <1>2, <1>3

-----------------------------------------------------------------------------
(* The connection has been made or has failed, and there will be no other. *)
Settled == socket # "connecting" /\ posted \in Seq(LateCall)

(* It is told by the first signal of all.                                  *)
Once == events # <<>> => Tail(events) \in Seq(LateSignal)

Grows(S) == \E t \in Seq(S) : events' = events \o t

(* What is added to the signals, among those there may be.                 *)
LEMMA GrowsOperations ==
  ASSUME NEW S, Grows(S)
  PROVE  /\ \A T : S \subseteq T => Grows(T)
         /\ events \in Seq(S) => events' \in Seq(S)
<1>1. PICK t \in Seq(S) : events' = events \o t
  BY DEF Grows
<1>2. \A T : S \subseteq T => t \in Seq(T)
  BY SeqMonotonic
<1>3. events \in Seq(S) => events' \in Seq(S)
  BY <1>1, SequenceOperations
<1>q. QED
  BY <1>1, <1>2, <1>3 DEF Grows

(* It is told once, as long as no other connection is.                     *)
LEMMA OnceOperations ==
  ASSUME events \in Seq(Signal), Once
  PROVE  /\ Grows(LateSignal) => Once'
         /\ events # <<>> /\ events' = Tail(events) => Once' /\ events' \in Seq(LateSignal)
<1>1. LateSignal \subseteq Signal
  BY DEF LateSignal
<1>2. ASSUME Grows(LateSignal)
      PROVE  Once'
  <2>1. PICK t \in Seq(LateSignal) : events' = events \o t
    BY <1>2 DEF Grows
  <2>2. t \in Seq(Signal)
    BY <1>1, SeqMonotonic
  <2>3. CASE events = <<>>
    <3>1. events' = t
      BY <2>1, <2>3, ConcatEmptySeq
    <3>q. QED
      BY <3>1, SequenceOperations DEF Once
  <2>4. CASE events # <<>>
    <3>1. Tail(events') = Tail(events) \o t
      BY <2>1, <2>2, <2>4, ConcatBehind
    <3>2. Tail(events) \o t \in Seq(LateSignal)
      BY <2>4, SequenceOperations DEF Once
    <3>q. QED
      BY <3>1, <3>2 DEF Once
  <2>q. QED
    BY <2>3, <2>4
<1>3. ASSUME events # <<>>, events' = Tail(events)
      PROVE  Once' /\ events' \in Seq(LateSignal)
  BY <1>3, SequenceOperations DEF Once
<1>q. QED
  BY <1>2, <1>3

(* The main thread takes one signal at most, and leaves a session whose    *)
(* proxy is not changed settled.                                           *)
LEMMA MainThreadSettles ==
  ASSUME ConnectionInv, MaxSettings.proxy = 0, Application \/ Timeout \/ MainThread
  PROVE  /\ UNCHANGED <<threadVars, server>>
         /\ Settled => Settled'
         /\ UNCHANGED events \/ (events # <<>> /\ events' = Tail(events))
<1>1. SessionCall \cup {"sslErrorIgnored", "sslErrorRefused", "threadQuit"} \subseteq LateCall
  BY DEF SessionCall, LateCall, Call
<1>2. UNCHANGED <<threadVars, server>>
  BY DEF Application, Timeout, MainThread
<1>3. /\ Hands \/ AnswersSslError \/ ChangesProxy \/ Quits
      /\ UNCHANGED events \/ (events # <<>> /\ events' = Tail(events))
  <2>1. CASE Application \/ Timeout
    BY <2>1, ApplicationHands DEF ConnectionInv
  <2>2. CASE MainThread
    BY <2>2, HandleSignalHands DEF ConnectionInv, MainThread
  <2>q. QED
    BY <2>1, <2>2
<1>4. UNCHANGED posted \/ \E call \in LateCall : Post(call)
  BY <1>1, <1>3 DEF Hands, AnswersSslError, ChangesProxy, Quits
<1>5. Settled => Settled'
  BY <1>2, <1>4, SequenceOperations DEF Settled, Post, threadVars
<1>q. QED
  BY <1>2, <1>3, <1>5

(* The other thread tells of a connection only when it has made one.       *)
LEMMA SecondaryThreadSettles ==
  ASSUME ConnectionInv, HandlePosted
  PROVE  Grows(LateSignal) /\ (Settled => Settled')
<1>1. /\ {"readMessage", "slotSocketDisconnected"} \subseteq LateCall
      /\ LateCall \subseteq Call
  BY DEF LateCall, Call
<1>2. UNCHANGED events => Grows(LateSignal)
  <2> SUFFICES ASSUME UNCHANGED events PROVE events' = events \o <<>>
    BY SequenceOperations DEF Grows
  <2>q. QED
    BY ConcatEmptySeq DEF ConnectionInv, LinkTypeOK
<1>3. CASE ThreadQuit
  <2>1. UNCHANGED events /\ socket' = "none" /\ posted' = <<>>
    BY <1>3 DEF ThreadQuit
  <2>q. QED
    BY <1>2, <2>1, SequenceOperations DEF Settled
<1>4. ASSUME ~ThreadQuit
      PROVE  /\ posted # <<>> /\ posted \in Seq(Call)
             /\ \/ Head(posted) \notin LateCall /\ UNCHANGED events
                \/ ThreadMoves
  <2>1. /\ posted # <<>>
        /\ ThreadInit \/ Reconnect \/ SetUseProxyInternal \/ ThreadMoves
    BY <1>4, SecondaryThreadMoves DEF ConnectionInv
  <2>2. ThreadInit \/ Reconnect \/ SetUseProxyInternal
          => Head(posted) \notin LateCall /\ UNCHANGED events
    BY DEF ThreadInit, Reconnect, SetUseProxyInternal, Take, LateCall
  <2>q. QED
    BY <2>1, <2>2 DEF ConnectionInv, LinkTypeOK
<1>5. CASE ~ThreadQuit /\ Head(posted) \notin LateCall /\ UNCHANGED events
  <2>1. ~Settled
    BY <1>4, <1>5, SequenceOperations DEF Settled
  <2>q. QED
    BY <1>2, <1>5, <2>1
<1>6. CASE ~ThreadQuit /\ ThreadMoves
  <2>1. ASSUME NEW e \in Signal, e.sig \in Emits(Head(posted)), events' = Append(events, e)
        PROVE  Grows(LateSignal)
    <3>1. e \in LateSignal
      BY <2>1 DEF Emits, LateSignal
    <3>2. events' = events \o <<e>>
      BY <2>1, AppendIsConcat DEF ConnectionInv, LinkTypeOK
    <3>q. QED
      BY <3>1, <3>2, SequenceOperations DEF Grows
  <2>2. Grows(LateSignal)
    BY <1>2, <1>6, <2>1 DEF ThreadMoves
  <2>3. ASSUME Settled PROVE Settled'
    <3>1. Tail(posted) \in Seq(LateCall)
      BY <1>4, <1>6, <2>3, SequenceOperations DEF Settled
    <3>2. posted' \in Seq(LateCall)
      BY <1>1, <1>6, <3>1, SequenceOperations DEF ThreadMoves, Closes, GoesOn
    <3>3. socket' # "connecting"
      BY <1>6, <2>3 DEF ThreadMoves, Closes, GoesOn, Settled
    <3>q. QED
      BY <3>2, <3>3 DEF Settled
  <2>q. QED
    BY <2>2, <2>3
<1>q. QED
  BY <1>4, <1>5, <1>6, <1>3

(* Nor do a socket that is not connecting, and the server.                 *)
LEMMA SocketSettles ==
  ASSUME ConnectionInv, Settled, Socket
  PROVE  Grows(QuietSignal) /\ Settled' /\ UNCHANGED <<buffer, m_data>>
<1>1. SslConnected \/ RemoteClose
  BY DEF Socket, SocketStep, Connected, ConnectFailed, Settled
<1>2. /\ [sig |-> "socketError"] \in QuietSignal /\ [sig |-> "sslError"] \in QuietSignal
      /\ [sig |-> "encryptionNegotiationResult"] \in QuietSignal
      /\ "slotSocketDisconnected" \in LateCall
  BY DEF QuietSignal, Signal, LateCall, Call
<1>3. CASE SslConnected
  <2>1. \A e \in QuietSignal : [i \in 1..sslSlots |-> e] \in Seq(QuietSignal)
    <3> SUFFICES ASSUME NEW e \in QuietSignal
                 PROVE  [i \in 1..sslSlots |-> e] \in Seq(QuietSignal)
      OBVIOUS
    <3>1. [i \in 1..sslSlots |-> e] \in [1..sslSlots -> QuietSignal] /\ sslSlots \in Nat
      BY DEF ConnectionInv, ThreadTypeOK
    <3>q. QED
      BY <3>1, SeqDef
  <2>2. Grows(QuietSignal)
    BY <1>2, <1>3, <2>1 DEF SslConnected, EmitAll, Grows
  <2>q. QED
    BY <1>3, <2>2 DEF SslConnected, Settled, streamVars
<1>4. CASE RemoteClose
  <2>1. events' = events \o <<[sig |-> "socketError"]>>
    <3>1. events' = Append(events, [sig |-> "socketError"])
      BY <1>4 DEF RemoteClose, Emit
    <3>2. [sig |-> "socketError"] \in Signal
      BY <1>2 DEF QuietSignal
    <3>q. QED
      BY <3>1, <3>2, AppendIsConcat DEF ConnectionInv, LinkTypeOK
  <2>2. Grows(QuietSignal)
    BY <1>2, <2>1, SequenceOperations DEF Grows
  <2>3. posted' \in Seq(LateCall)
    BY <1>2, <1>4, SequenceOperations DEF RemoteClose, Post, Settled
  <2>q. QED
    BY <1>4, <2>2, <2>3 DEF RemoteClose, Drop, Settled, streamVars
<1>q. QED
  BY <1>1, <1>3, <1>4

(* The server's lines only make the socket ready to be read.               *)
LEMMA ServerSettles ==
  ASSUME ConnectionInv, Server
  PROVE  /\ Grows(QuietSignal) /\ (Settled => Settled')
         /\ socket = "connected" /\ UNCHANGED <<socket, tls, m_encryptedMode, m_data>>
         /\ Emit("socketActivity") /\ Post("readMessage")
<1>1. /\ socket = "connected" /\ UNCHANGED <<socket, tls, m_encryptedMode, m_data>>
      /\ Emit("socketActivity") /\ Post("readMessage")
  BY DEF Server, ServerStep, Greet, Answer, SendUnsolicited, SendLineFeed, CanSend, SendLines,
         LineFeed, Arrive, tlsVars
<1>2. "readMessage" \in LateCall /\ [sig |-> "socketActivity"] \in QuietSignal
  BY DEF LateCall, Call, QuietSignal, Signal
<1>3. events' = events \o <<[sig |-> "socketActivity"]>>
  <2>1. [sig |-> "socketActivity"] \in Signal
    BY <1>2 DEF QuietSignal
  <2>q. QED
    BY <1>1, <2>1, AppendIsConcat DEF Emit, ConnectionInv, LinkTypeOK
<1>4. Grows(QuietSignal)
  BY <1>2, <1>3, SequenceOperations DEF Grows
<1>5. Settled => Settled'
  BY <1>1, <1>2, SequenceOperations DEF Post, Settled
<1>q. QED
  BY <1>1, <1>4, <1>5

-----------------------------------------------------------------------------
(* The stages of a session up to its greeting.  It is not connected yet;   *)
(* it is, and the greeting has not come or waits to be read; the greeting  *)
(* is on its way to the main thread before anything that could end the     *)
(* session; or it never comes.                                             *)
FirstCall == {"readMessage", "writeDataQueue", "doCloseSocket"}

Ungreeted == state = "Disconnected" /\ ~jobRunning

ToConnect ==
  /\ Ungreeted /\ currentJob = NoJob
  /\ events = <<>> /\ buffer = <<>> /\ m_data = <<>>
  /\ tls = "plain" /\ ~m_encryptedMode
  /\ \/ socket \in {"none", "unconnected"} /\ OneConnects(posted, FirstCall)
     \/ socket = "connecting" /\ posted \in Seq(FirstCall)

Unheard ==
  /\ Ungreeted /\ currentJob = NoJob
  /\ socket = "connected" /\ tls = "plain" /\ posted \in Seq(FirstCall)
  /\ events \in Seq(OpeningSignal) /\ Once
  /\ m_data = <<>>
  /\ \/ buffer = <<>> /\ server.phase = "greeting" /\ ~server.lineFeedDue
     \/ buffer # <<>> /\ Head(buffer).line.code \in Welcome

Heard ==
  /\ Ungreeted /\ currentJob = NoJob
  /\ Settled /\ Once /\ Awaits(events)

(* The server that has turned the connection away says nothing that would  *)
(* be taken for a greeting.                                                *)
SaysNoMore == \A line \in Unsolicited : line.code \notin Welcome

Unwelcome ==
  /\ Ungreeted
  /\ Settled /\ Once /\ events \in Seq(DullSignal)
  /\ buffer \in Seq(DullLine) /\ m_data \in Seq(DullLine)
  /\ socket = "connected" => server.phase = "Logout" /\ SaysNoMore

Greeted ==
  /\ state # "Disconnected" \/ ~isSocketConnected
  /\ Settled /\ events \in Seq(LateSignal)

Destroyed == ~Alive /\ state = "Disconnected" /\ ~isSocketConnected

GreetingInv == ToConnect \/ Unheard \/ Heard \/ Unwelcome \/ Greeted \/ Destroyed

(* At each stage a response that comes up without a current greeting has   *)
(* its connection announced.                                               *)
LEMMA GreetingInvMeaning ==
  ASSUME ConnectionInv, GreetingInv
  PROVE  GreetingIsTimely
<1>1. events # <<>> => Head(events) \in Signal
  BY SequenceOperations DEF ConnectionInv, LinkTypeOK
<1>2. CASE ToConnect
  BY <1>2 DEF ToConnect, GreetingIsTimely
<1>3. CASE Unheard
  <2>1. events # <<>> => Head(events).sig # "responseReceived"
    BY <1>3, SequenceOperations DEF Unheard, OpeningSignal
  <2>q. QED
    BY <1>3, <2>1 DEF Unheard, Ungreeted, GreetingIsTimely
<1>4. CASE Heard
  BY <1>4 DEF Heard, Ungreeted, GreetingIsTimely
<1>5. CASE Unwelcome
  <2>1. events # <<>> => ~IsGreeting(Head(events))
    BY <1>5, SequenceOperations DEF Unwelcome, DullSignal
  <2>q. QED
    BY <1>5, <2>1 DEF Unwelcome, Ungreeted, GreetingIsTimely, IsGreeting, Welcome
<1>6. CASE Greeted
  <2>1. events # <<>> => Head(events).sig # "socketConnected"
    BY <1>6, SequenceOperations DEF Greeted, LateSignal
  <2>q. QED
    BY <1>6, <2>1 DEF Greeted, GreetingIsTimely
<1>7. CASE Destroyed
  BY <1>7 DEF Destroyed, GreetingIsTimely
<1>q. QED
  BY <1>2, <1>3, <1>4, <1>5, <1>6, <1>7 DEF GreetingInv

-----------------------------------------------------------------------------
(* Before the greeting the application's calls start no job.               *)
LEMMA ApplicationWaits ==
  ASSUME ConnectionInv, Ungreeted, MaxSettings.proxy = 0, Application \/ Timeout
  PROVE  \/ Destroyed'
         \/ /\ Ungreeted' /\ UNCHANGED <<isSocketConnected, events>>
            /\ currentJob' \in {currentJob, NoJob}
            /\ UNCHANGED posted \/ Post("doCloseSocket")
<1>1. \A j \in Jobs : job[j].phase # "started"
  BY DEF ConnectionInv, SessionInv, QueueSound, Ungreeted
<1>2. CASE Timeout
  BY <1>2 DEF Timeout, OnSocketTimeout, Ungreeted, runVars
<1>3. CASE \E j \in Jobs : AddJob(j)
  BY <1>3 DEF AddJob, Ungreeted, mailVars
<1>4. CASE \E j \in Deletable : DeleteJob(j)
  BY <1>4 DEF DeleteJob, Ungreeted, mailVars, linkVars
<1>5. ~\E j \in Jobs : StopIdle(j)
  BY <1>1 DEF StopIdle
<1>6. CASE Close
  BY <1>6 DEF Close, Ungreeted, sessionVars
<1>7. ~Spend("proxy")
  BY DEF Spend, ConnectionInv, SettingsTypeOK
<1>8. CASE \E ms \in AppTimeouts : SetTimeout(ms)
  BY <1>8 DEF SetTimeout, Ungreeted, mailVars, runVars, linkVars
<1>9. CASE Destroy /\ Spend("destroy")
  <2>1. ~Alive'
    BY <1>9 DEF Spend, Alive, ConnectionInv, SettingsTypeOK
  <2>q. QED
    BY <1>9, <2>1 DEF Destroy, ConnectionGone, Ungreeted, Destroyed
<1>q. QED
  BY <1>2, <1>3, <1>4, <1>5, <1>6, <1>7, <1>8, <1>9 DEF Application

(* Nor do the signals, but for a greeting; and the end of the connection   *)
(* is an end for good.                                                     *)
LEMMA SignalWaits ==
  ASSUME ConnectionInv, Ungreeted, HandleSignal, ~IsGreeting(Head(events))
  PROVE  Ungreeted' \/ (state' = "Disconnected" /\ ~isSocketConnected')
<1>1. CASE SocketConnected
  BY <1>1 DEF SocketConnected, Ungreeted, runVars, mailVars
<1>2. CASE SocketDisconnected
  BY <1>2 DEF SocketDisconnected, ConnectionGone, Ungreeted
<1>3. CASE SocketError
  BY <1>3 DEF SocketError, ClearJobQueue, Ungreeted, mailVars
<1>4. CASE SocketActivity
  BY <1>4 DEF SocketActivity, Ungreeted, runVars, mailVars
<1>5. CASE OnEncryptionNegotiationResult
  BY <1>5 DEF OnEncryptionNegotiationResult, Continue, Ungreeted, runVars, mailVars
<1>6. CASE HandleSslError
  BY <1>6 DEF HandleSslError, Ungreeted, sessionVars
<1>7. CASE ResponseReceived
  BY <1>7 DEF ResponseReceived, Receive, Greeting, Ungreeted, runVars, mailVars, IsGreeting, Welcome
<1>q. QED
  BY <1>1, <1>2, <1>3, <1>4, <1>5, <1>6, <1>7 DEF HandleSignal

(* A session that has been greeted, or is without a connection, stays so   *)
(* as long as no connection is told.                                       *)
LEMMA GreetedStays ==
  ASSUME ConnectionInv, state # "Disconnected" \/ ~isSocketConnected,
         Application \/ Timeout \/ HandleSignal,
         events \in Seq(LateSignal)
  PROVE  state' # "Disconnected" \/ ~isSocketConnected'
<1>1. CASE HandleSignal
  <2>1. ~SocketConnected
    BY SequenceOperations DEF SocketConnected, Receive, LateSignal
  <2>2. CASE SocketDisconnected \/ SocketError \/ SocketActivity \/ OnEncryptionNegotiationResult
             \/ HandleSslError
    BY <2>2 DEF SocketDisconnected, ConnectionGone, SocketError, SocketActivity,
       OnEncryptionNegotiationResult, HandleSslError, mailVars, sessionVars
  <2>3. CASE ResponseReceived
    BY <2>3 DEF ResponseReceived, Greeting, NextState, mailVars
  <2>q. QED
    BY <1>1, <2>1, <2>2, <2>3 DEF HandleSignal
<1>2. CASE Application \/ Timeout
  BY <1>2 DEF Application, Timeout, AddJob, DeleteJob, StopIdle, Close, SetUseNetworkProxy, SetTimeout,
     Destroy, ConnectionGone, OnSocketTimeout, sessionVars, mailVars
<1>q. QED
  BY <1>1, <1>2

-----------------------------------------------------------------------------
(* What the three theorems about jobs need of the application and of the   *)
(* server, in place of GreetingIsTimely.                                   *)
GreetsInTime == /\ MaxSettings.proxy = 0
                /\ \A j \in Jobs : Kind[j] # "tls"
                /\ Greetings \subseteq Welcome \/ SaysNoMore

(* The main thread leaves the stages before the greeting only with it.     *)
LEMMA ApplicationKeepsGreeting ==
  ASSUME ConnectionInv, GreetingInv, GreetsInTime, Application \/ Timeout
  PROVE  GreetingInv'
<1>1. /\ UNCHANGED <<threadVars, server>> /\ (Settled => Settled') /\ MaxSettings.proxy = 0
  BY MainThreadSettles DEF GreetsInTime
<1>2. /\ FirstCall \subseteq Call \ Connecting /\ "doCloseSocket" \in FirstCall
      /\ posted \in Seq(Call)
  BY DEF FirstCall, Call, Connecting, ConnectionInv, LinkTypeOK
<1>3. CASE Ungreeted
  <2>1. SUFFICES ASSUME Ungreeted', UNCHANGED <<isSocketConnected, events>>,
                        currentJob' \in {currentJob, NoJob},
                        UNCHANGED posted \/ Post("doCloseSocket")
                 PROVE  GreetingInv'
    BY <1>1, <1>3, ApplicationWaits DEF GreetingInv
  <2>2. CASE ToConnect
    <3>1. CASE socket = "connecting" /\ posted \in Seq(FirstCall)
      <4>1. posted' \in Seq(FirstCall)
        BY <1>2, <2>1, <3>1, SequenceOperations DEF Post
      <4>q. QED
        BY <1>1, <2>1, <2>2, <3>1, <4>1 DEF ToConnect, GreetingInv, threadVars
    <3>2. CASE socket \in {"none", "unconnected"} /\ OneConnects(posted, FirstCall)
      <4>1. OneConnects(Append(posted, "doCloseSocket"), FirstCall)
        BY <1>2, <3>2, OneConnectsOperations
      <4>2. OneConnects(posted', FirstCall)
        BY <2>1, <3>2, <4>1 DEF Post, OneConnects
      <4>q. QED
        BY <1>1, <2>1, <2>2, <3>2, <4>2 DEF ToConnect, GreetingInv, threadVars, OneConnects
    <3>q. QED
      BY <2>2, <3>1, <3>2 DEF ToConnect
  <2>3. CASE Unheard
    <3>1. posted' \in Seq(FirstCall)
      BY <1>2, <2>1, <2>3, SequenceOperations DEF Unheard, Post
    <3>q. QED
      BY <1>1, <2>1, <2>3, <3>1 DEF Unheard, Once, GreetingInv, threadVars
  <2>4. CASE Heard
    BY <1>1, <2>1, <2>4 DEF Heard, Once, Awaits, GreetingInv
  <2>5. CASE Unwelcome
    BY <1>1, <2>1, <2>5 DEF Unwelcome, Once, GreetingInv, threadVars
  <2>6. CASE Greeted
    <3>1. state' # "Disconnected" \/ ~isSocketConnected'
      BY <2>6, GreetedStays DEF Greeted
    <3>q. QED
      BY <1>1, <2>1, <2>6, <3>1 DEF Greeted, GreetingInv
  <2>7. ~Destroyed
    BY DEF Destroyed, Application, Timeout
  <2>q. QED
    BY <2>2, <2>3, <2>4, <2>5, <2>6, <2>7 DEF GreetingInv
<1>4. CASE Greeted
  <2>1. state' # "Disconnected" \/ ~isSocketConnected'
    BY <1>4, GreetedStays DEF Greeted
  <2>2. UNCHANGED events
    BY ApplicationHands DEF ConnectionInv
  <2>q. QED
    BY <1>1, <1>4, <2>1, <2>2 DEF Greeted, GreetingInv
<1>q. QED
  BY <1>3, <1>4 DEF GreetingInv, ToConnect, Unheard, Heard, Unwelcome, Destroyed, Application, Timeout

(* The main thread takes the signals in order, and with each the stage     *)
(* that the signal belongs to.                                             *)
LEMMA MainThreadKeepsGreeting ==
  ASSUME ConnectionInv, GreetingInv, GreetsInTime, MainThread
  PROVE  GreetingInv'
<1>1. /\ UNCHANGED <<threadVars, server, settings>> /\ (Settled => Settled') /\ HandleSignal
  BY MainThreadSettles DEF GreetsInTime, MainThread
<1>2. /\ events # <<>> /\ events' = Tail(events) /\ Head(events) \in Signal
      /\ events \in Seq(Signal)
  BY <1>1, HandleSignalHands, SequenceOperations DEF ConnectionInv, LinkTypeOK
<1>3. Once => Once' /\ events' \in Seq(LateSignal)
  BY <1>2, OnceOperations
<1>4. ASSUME Ungreeted, Head(events) \in OpeningSignal
      PROVE  Ungreeted' /\ UNCHANGED <<currentJob, posted>>
  <2>1. SocketConnected \/ SocketActivity
    BY <1>1, <1>4 DEF HandleSignal, OpeningSignal, SocketConnected, SocketDisconnected, SocketError,
       SocketActivity, OnEncryptionNegotiationResult, HandleSslError, ResponseReceived, Receive
  <2>2. queue # <<>> => Kind[Head(queue)] # "tls"
    BY SequenceOperations DEF GreetsInTime, ConnectionInv, SessionInv, RunTypeOK
  <2>q. QED
    BY <1>4, <2>1, <2>2 DEF SocketConnected, SocketActivity, Ungreeted, mailVars, runVars
<1>5. CASE Unheard
  <2>1. Head(events) \in OpeningSignal /\ events' \in Seq(OpeningSignal)
    BY <1>2, <1>5, SequenceOperations DEF Unheard
  <2>2. Ungreeted' /\ UNCHANGED <<currentJob, posted>>
    BY <1>4, <1>5, <2>1 DEF Unheard
  <2>q. QED
    BY <1>1, <1>3, <1>5, <2>1, <2>2 DEF Unheard, GreetingInv, threadVars
<1>6. CASE Heard
  <2>1. IsGreeting(Head(events)) \/ (Head(events) \in OpeningSignal /\ Awaits(Tail(events)))
    BY <1>2, <1>6, AwaitsOperations DEF Heard
  <2>2. CASE Head(events) \in OpeningSignal /\ Awaits(Tail(events))
    <3>1. Ungreeted' /\ UNCHANGED currentJob
      BY <1>4, <1>6, <2>2 DEF Heard
    <3>q. QED
      BY <1>1, <1>2, <1>3, <1>6, <2>2, <3>1 DEF Heard, Awaits, GreetingInv
  <2>3. CASE IsGreeting(Head(events))
    <3>1. ResponseReceived
      BY <1>1, <2>3 DEF HandleSignal, IsGreeting, SocketConnected, SocketDisconnected, SocketError,
         SocketActivity, OnEncryptionNegotiationResult, HandleSslError, Receive
    <3>2. state' # "Disconnected"
      BY <1>6, <2>3, <3>1 DEF ResponseReceived, Greeting, IsGreeting, Welcome, Heard, Ungreeted
    <3>q. QED
      BY <1>1, <1>3, <1>6, <3>2 DEF Heard, Greeted, GreetingInv
  <2>q. QED
    BY <2>1, <2>2, <2>3
<1>7. CASE Unwelcome
  <2>1. ~IsGreeting(Head(events)) /\ events' \in Seq(DullSignal)
    BY <1>2, <1>7, SequenceOperations DEF Unwelcome, DullSignal
  <2>2. Ungreeted' \/ (state' = "Disconnected" /\ ~isSocketConnected')
    BY <1>1, <1>7, <2>1, SignalWaits DEF Unwelcome
  <2>3. Settled' /\ Once' /\ events' \in Seq(LateSignal)
    BY <1>1, <1>3, <1>7 DEF Unwelcome
  <2>4. CASE Ungreeted'
    BY <1>1, <1>7, <2>1, <2>3, <2>4 DEF Unwelcome, GreetingInv, threadVars
  <2>5. CASE state' = "Disconnected" /\ ~isSocketConnected'
    BY <2>3, <2>5 DEF Greeted, GreetingInv
  <2>q. QED
    BY <2>2, <2>4, <2>5
<1>8. CASE Greeted
  <2>1. state' # "Disconnected" \/ ~isSocketConnected'
    BY <1>1, <1>8, GreetedStays DEF Greeted
  <2>2. events' \in Seq(LateSignal)
    BY <1>2, <1>8, SequenceOperations DEF Greeted
  <2>q. QED
    BY <1>1, <1>8, <2>1, <2>2 DEF Greeted, GreetingInv
<1>9. ~ToConnect /\ ~Destroyed
  BY <1>2 DEF ToConnect, Destroyed, MainThread
<1>q. QED
  BY <1>5, <1>6, <1>7, <1>8, <1>9 DEF GreetingInv

-----------------------------------------------------------------------------
(* A call that comes before the connection is made changes nothing.        *)
LEMMA CallInVain ==
  ASSUME ConnectionInv, HandlePosted, ~ThreadQuit, Head(posted) \in FirstCall,
         socket # "connected", buffer = <<>>, m_data = <<>>, ~m_encryptedMode
  PROVE  /\ UNCHANGED <<events, socket, tls>> /\ posted' = Tail(posted)
         /\ buffer' = <<>> /\ m_data' = <<>> /\ ~m_encryptedMode'
<1>1. WriteDataQueue \/ DoCloseSocket \/ ReadMessage
  BY DEF HandlePosted, FirstCall, ThreadInit, Reconnect, SlotSocketDisconnected, SetUseProxyInternal,
         DoStartSsl, DoSslErrorHandlerResponse, Take
<1>2. posted # <<>>
  BY <1>1 DEF WriteDataQueue, DoCloseSocket, ReadMessage, Take
<1>3. Tail(posted) \o <<>> = Tail(posted)
  BY <1>2, SequenceOperations, ConcatEmptySeq DEF ConnectionInv, LinkTypeOK
<1>4. CASE WriteDataQueue
  BY <1>3, <1>4 DEF WriteDataQueue, Take, tlsVars, streamVars
<1>5. CASE DoCloseSocket
  BY <1>5 DEF DoCloseSocket, CloseSocket
<1>6. CASE ReadMessage
  BY <1>3, <1>6 DEF ReadMessage, Take, streamVars
<1>q. QED
  BY <1>1, <1>4, <1>5, <1>6

(* Where no line that waits is a greeting, none is read.                   *)
LEMMA DullReading ==
  ASSUME ConnectionInv, HandlePosted, buffer \in Seq(DullLine), m_data \in Seq(DullLine)
  PROVE  /\ buffer' \in Seq(DullLine) /\ m_data' \in Seq(DullLine)
         /\ Grows(DullSignal)
         /\ socket' = "connected" => socket = "connected"
<1>1. DullLine \subseteq StreamLine /\ DullSignal \subseteq Signal /\ events \in Seq(Signal)
  BY DEF DullLine, DullSignal, ConnectionInv, LinkTypeOK
<1>2. ASSUME NEW e \in DullSignal, events' = Append(events, e)
      PROVE  Grows(DullSignal)
  <2>1. events' = events \o <<e>>
    BY <1>1, <1>2, AppendIsConcat
  <2>q. QED
    BY <2>1, SequenceOperations DEF Grows
<1>3. ASSUME UNCHANGED events
      PROVE  Grows(DullSignal)
  <2>1. events' = events \o <<>>
    BY <1>1, <1>3, ConcatEmptySeq
  <2>q. QED
    BY <2>1, SequenceOperations DEF Grows
<1>4. socket' = "connected" => socket = "connected"
  BY DEF HandlePosted, ThreadInit, Reconnect, WriteDataQueue, DoCloseSocket, CloseSocket, ReadMessage,
         SlotSocketDisconnected, SetUseProxyInternal, DoStartSsl, DoSslErrorHandlerResponse,
         ThreadQuit, Drop, threadVars
<1>5. CASE ReadMessage
  <2> DEFINE lines == IF m_data = <<>> THEN buffer ELSE m_data
             unread == IF m_data = <<>> THEN <<>> ELSE buffer
             signal == [sig |-> "responseReceived", response |-> Head(lines).line]
  <2>1. lines \in Seq(DullLine) /\ unread \in Seq(DullLine) /\ <<>> \in Seq(DullLine)
    BY SequenceOperations
  <2>2. CASE UNCHANGED <<streamVars, events>>
    BY <1>3, <1>4, <2>2 DEF streamVars
  <2>3. CASE CloseSocket /\ m_data' = lines /\ UNCHANGED events
    BY <1>3, <1>4, <2>1, <2>3 DEF CloseSocket
  <2>4. CASE /\ lines # <<>> /\ Head(lines).line.code # "garbage"
             /\ m_data' = Tail(lines) /\ buffer' = unread
             /\ events' = events \o <<signal>>
    <3>1. Head(lines) \in DullLine /\ Tail(lines) \in Seq(DullLine)
      BY <2>1, <2>4, SequenceOperations
    <3>2. signal \in Signal
      BY <2>4, LinesType DEF ConnectionInv
    <3>3. signal \in DullSignal
      BY <3>1, <3>2 DEF DullSignal, DullLine, IsGreeting
    <3>4. Grows(DullSignal)
      <4> HIDE DEF signal
      <4>q. QED
        BY <2>4, <3>3, SequenceOperations DEF Grows
    <3>q. QED
      BY <1>4, <2>1, <2>4, <3>1, <3>4
  <2>q. QED
    BY <1>5, <2>2, <2>3, <2>4 DEF ReadMessage, EmitAll
<1>6. CASE ~ReadMessage
  <2>1. buffer' \in {buffer, <<>>} /\ m_data' \in {m_data, <<>>}
    BY <1>6 DEF HandlePosted, ThreadInit, Reconnect, WriteDataQueue, DoCloseSocket, CloseSocket,
       SlotSocketDisconnected, SetUseProxyInternal, DoStartSsl, DoSslErrorHandlerResponse,
       ThreadQuit, threadVars, streamVars
  <2>2. UNCHANGED events \/ \E sig \in {"socketActivity", "socketDisconnected", "socketError",
                                       "encryptionNegotiationResult"} : Emit(sig)
    BY <1>6 DEF HandlePosted, ThreadInit, Reconnect, WriteDataQueue, DoCloseSocket,
       SlotSocketDisconnected, SetUseProxyInternal, DoStartSsl, DoSslErrorHandlerResponse, ThreadQuit
  <2>3. \A sig \in {"socketActivity", "socketDisconnected", "socketError",
                    "encryptionNegotiationResult"} : [sig |-> sig] \in DullSignal
    BY DEF DullSignal, Signal, IsGreeting
  <2>4. Grows(DullSignal)
    BY <1>2, <1>3, <2>2, <2>3 DEF Emit
  <2>q. QED
    BY <1>4, <2>1, <2>4, SequenceOperations
<1>q. QED
  BY <1>5, <1>6

-----------------------------------------------------------------------------
(* The end of the thread leaves nothing that could be told any more, but   *)
(* for the signals that are on their way.                                  *)
LEMMA ThreadQuitKeepsGreeting ==
  ASSUME ConnectionInv, GreetingInv, SecondaryThread, ThreadQuit
  PROVE  GreetingInv'
<1>1. /\ UNCHANGED <<sessionVars, settings, events>>
      /\ socket' = "none" /\ posted' = <<>> /\ buffer' = <<>> /\ m_data' = <<>>
  BY DEF SecondaryThread, ThreadQuit
<1>2. \A S : <<>> \in Seq(S)
  BY SequenceOperations
<1>3. Settled' /\ (Once => Once')
  BY <1>1, <1>2 DEF Settled, Once
<1>4. CASE ToConnect \/ Unheard \/ Unwelcome
  <2>1. events \in Seq(DullSignal) /\ Once
    <3>1. OpeningSignal \subseteq DullSignal
      BY DEF OpeningSignal, DullSignal, IsGreeting
    <3>q. QED
      BY <1>2, <1>4, <3>1, SeqMonotonic DEF ToConnect, Unheard, Unwelcome, Once
  <2>2. Unwelcome'
    BY <1>1, <1>2, <1>3, <1>4, <2>1 DEF ToConnect, Unheard, Unwelcome, Ungreeted, sessionVars
  <2>q. QED
    BY <2>2 DEF GreetingInv
<1>5. CASE Heard
  BY <1>1, <1>3, <1>5 DEF Heard, Ungreeted, Awaits, GreetingInv, sessionVars
<1>6. CASE Greeted
  BY <1>1, <1>3, <1>6 DEF Greeted, GreetingInv, sessionVars
<1>7. CASE Destroyed
  BY <1>1, <1>7 DEF Destroyed, Alive, GreetingInv, sessionVars
<1>q. QED
  BY <1>4, <1>5, <1>6, <1>7 DEF GreetingInv

(* The one connecting call is followed by the connection attempt.          *)
LEMMA ToConnectGoesOn ==
  ASSUME ConnectionInv, ToConnect, SecondaryThread, ~ThreadQuit
  PROVE  ToConnect'
<1>1. /\ HandlePosted /\ posted \in Seq(Call) /\ Ungreeted' /\ currentJob' = NoJob
      /\ FirstCall \subseteq Call \ Connecting
  BY DEF ConnectionInv, LinkTypeOK, SecondaryThread, sessionVars, ToConnect, Ungreeted,
         FirstCall, Call, Connecting
<1>2. posted # <<>> /\ Tail(posted) \in Seq(Call)
  <2>1. posted # <<>>
    BY SecondaryThreadMoves DEF ConnectionInv, SecondaryThread
  <2>q. QED
    BY <1>1, <2>1, SequenceOperations
<1>3. CASE Head(posted) \in FirstCall
  <2>1. /\ UNCHANGED <<events, socket, tls>> /\ posted' = Tail(posted)
        /\ buffer' = <<>> /\ m_data' = <<>> /\ ~m_encryptedMode'
    BY <1>1, <1>3, CallInVain DEF ToConnect
  <2>2. CASE socket = "connecting" /\ posted \in Seq(FirstCall)
    <3>1. posted' \in Seq(FirstCall)
      BY <1>2, <2>1, <2>2, SequenceOperations
    <3>q. QED
      BY <1>1, <2>1, <2>2, <3>1 DEF ToConnect
  <2>3. CASE socket \in {"none", "unconnected"} /\ OneConnects(posted, FirstCall)
    <3>1. OneConnects(posted', FirstCall)
      <4>1. OneConnects(Tail(posted), FirstCall)
        BY <1>1, <1>3, <2>3, OneConnectsOperations
      <4>q. QED
        BY <2>1, <4>1 DEF OneConnects
    <3>q. QED
      BY <1>1, <2>1, <2>3, <3>1 DEF ToConnect, OneConnects
  <2>q. QED
    BY <2>2, <2>3 DEF ToConnect
<1>4. CASE Head(posted) \notin FirstCall
  <2>1. socket \in {"none", "unconnected"} /\ OneConnects(posted, FirstCall)
    BY <1>2, <1>4, SequenceOperations DEF ToConnect
  <2>2. Head(posted) \in Connecting
    <3>1. Head(posted) = posted[1] /\ 1 \in 1..Len(posted)
      BY <1>1, <1>2, EmptySeq
    <3>q. QED
      BY <1>4, <2>1, <3>1 DEF OneConnects
  <2>3. Tail(posted) \in Seq(FirstCall)
    BY <1>1, <2>1, <2>2, OneConnectsOperations
  <2>4. ThreadInit \/ Reconnect
    BY <1>1, <2>2 DEF HandlePosted, Connecting, ThreadInit, Reconnect, WriteDataQueue, DoCloseSocket,
       ReadMessage, SlotSocketDisconnected, SetUseProxyInternal, DoStartSsl,
       DoSslErrorHandlerResponse, Take
  <2>5. CASE ThreadInit
    <3>1. posted' = Append(Tail(posted), "reconnect")
      <4>1. "reconnect" \in Call
        BY DEF Call
      <4>q. QED
        BY <1>2, <2>5, <4>1, AppendIsConcat DEF ThreadInit, Take
    <3>2. OneConnects(posted', FirstCall)
      <4>1. OneConnects(Append(Tail(posted), "reconnect"), FirstCall)
        BY <1>1, <2>3, OneConnectsOperations
      <4>q. QED
        BY <3>1, <4>1 DEF OneConnects
    <3>q. QED
      BY <1>1, <2>5, <3>2 DEF ThreadInit, ToConnect, OneConnects, tlsVars, streamVars
  <2>6. CASE Reconnect
    <3>1. posted' = Tail(posted)
      BY <1>2, <2>6, ConcatEmptySeq DEF Reconnect, Take
    <3>q. QED
      BY <1>1, <2>1, <2>3, <2>6, <3>1 DEF Reconnect, ToConnect
  <2>q. QED
    BY <2>4, <2>5, <2>6
<1>q. QED
  BY <1>3, <1>4

(* The connection's first line is the greeting, unless the connection is   *)
(* closed before it is read.                                               *)
LEMMA UnheardGoesOn ==
  ASSUME ConnectionInv, Unheard, SecondaryThread, ~ThreadQuit
  PROVE  Unheard' \/ Heard' \/ Unwelcome'
<1>1. /\ HandlePosted /\ posted \in Seq(FirstCall) /\ events \in Seq(OpeningSignal)
      /\ Ungreeted' /\ currentJob' = NoJob /\ UNCHANGED server
      /\ events \in Seq(Signal) /\ posted \in Seq(Call)
  BY DEF ConnectionInv, LinkTypeOK, SecondaryThread, sessionVars, Unheard, Ungreeted
<1>2. posted # <<>> /\ Head(posted) \in FirstCall /\ Tail(posted) \in Seq(FirstCall)
  <2>1. posted # <<>>
    BY SecondaryThreadMoves DEF ConnectionInv, SecondaryThread
  <2>q. QED
    BY <1>1, <2>1, SequenceOperations
<1>3. WriteDataQueue \/ DoCloseSocket \/ ReadMessage
  BY <1>1, <1>2 DEF HandlePosted, FirstCall, ThreadInit, Reconnect, SlotSocketDisconnected,
     SetUseProxyInternal, DoStartSsl, DoSslErrorHandlerResponse, Take
<1>4. /\ \A call : Take(call, <<>>) => posted' = Tail(posted)
      /\ FirstCall \subseteq LateCall /\ {"readMessage", "slotSocketDisconnected"} \subseteq LateCall
      /\ OpeningSignal \subseteq DullSignal
  <2>1. Tail(posted) \o <<>> = Tail(posted)
    BY <1>2, ConcatEmptySeq
  <2>q. QED
    BY <2>1 DEF Take, FirstCall, LateCall, Call, OpeningSignal, DullSignal, IsGreeting
<1>5. Settled /\ Once' /\ Settled'
  <2>1. Settled
    BY <1>1, <1>4, SeqMonotonic DEF Settled, Unheard
  <2>q. QED
    BY <1>1, <2>1, SecondaryThreadSettles, OnceOperations DEF Unheard
<1>6. CASE WriteDataQueue
  <2>1. UNCHANGED events \/ Emit("socketActivity")
    BY <1>6 DEF WriteDataQueue
  <2>2. [sig |-> "socketActivity"] \in OpeningSignal
    BY DEF OpeningSignal, Signal
  <2>3. events' \in Seq(OpeningSignal)
    BY <1>1, <2>1, <2>2, SequenceOperations DEF Emit
  <2>4. posted' = Tail(posted)
    BY <1>4, <1>6 DEF WriteDataQueue
  <2>q. QED
    BY <1>1, <1>2, <1>5, <1>6, <2>3, <2>4 DEF WriteDataQueue, Unheard, tlsVars, streamVars
<1>7. CASE DoCloseSocket
  <2>1. socket' = "unconnected" /\ buffer' = <<>> /\ m_data' = <<>> /\ UNCHANGED events
    BY <1>7 DEF DoCloseSocket, CloseSocket, Drop, Unheard
  <2>2. events' \in Seq(DullSignal)
    BY <1>1, <1>4, <2>1, SeqMonotonic
  <2>q. QED
    BY <1>1, <1>5, <2>1, <2>2, SequenceOperations DEF Unwelcome
<1>8. CASE ReadMessage /\ buffer = <<>>
  <2>1. Take("readMessage", <<>>) /\ UNCHANGED <<socket, tls, streamVars, events>>
    BY <1>8 DEF ReadMessage, Unheard
  <2>2. posted' = Tail(posted)
    BY <1>4, <2>1
  <2>q. QED
    BY <1>1, <1>2, <1>5, <1>8, <2>1, <2>2 DEF Unheard, streamVars
<1>9. CASE ReadMessage /\ buffer # <<>>
  <2> DEFINE signal == [sig |-> "responseReceived", response |-> Head(buffer).line]
  <2>1. Head(buffer).line.code \in Welcome
    BY <1>9 DEF Unheard
  <2>2. events' = events \o <<signal>>
    BY <1>9, <2>1 DEF ReadMessage, Unheard, EmitAll, Welcome
  <2>3. signal \in Signal
    BY <1>9, <2>1, LinesType DEF ConnectionInv, Unheard, Welcome
  <2>4. IsGreeting(signal)
    BY <2>1 DEF IsGreeting
  <2>5. events' = Append(events, signal)
    <3> HIDE DEF signal
    <3>q. QED
      BY <1>1, <2>2, <2>3, AppendIsConcat
  <2>6. Awaits(Append(events, signal))
    <3> HIDE DEF signal
    <3>q. QED
      BY <1>1, <2>3, <2>4, AwaitsOperations
  <2>7. Awaits(events')
    BY <2>5, <2>6 DEF Awaits
  <2>q. QED
    BY <1>1, <1>5, <2>7 DEF Heard, Awaits
<1>q. QED
  BY <1>3, <1>6, <1>7, <1>8, <1>9

(* The secondary thread reads the greeting, or never does.                 *)
LEMMA SecondaryThreadKeepsGreeting ==
  ASSUME ConnectionInv, GreetingInv, SecondaryThread
  PROVE  GreetingInv'
<1>1. /\ HandlePosted /\ UNCHANGED <<sessionVars, server, settings>>
      /\ Grows(LateSignal) /\ (Settled => Settled') /\ (Once => Once')
      /\ events \in Seq(Signal)
  BY SecondaryThreadSettles, OnceOperations DEF SecondaryThread, ConnectionInv, LinkTypeOK
<1>2. Ungreeted => Ungreeted'
  BY <1>1 DEF Ungreeted, sessionVars
<1>3. CASE Heard
  <2>1. PICK t \in Seq(LateSignal) : events' = events \o t
    BY <1>1 DEF Grows
  <2>2. t \in Seq(Signal)
    BY SeqMonotonic DEF LateSignal
  <2>3. Awaits(events \o t)
    BY <1>1, <1>3, <2>2, AwaitsOperations DEF Heard
  <2>q. QED
    BY <1>1, <1>2, <1>3, <2>1, <2>3 DEF Heard, Awaits, GreetingInv, sessionVars
<1>4. CASE Unwelcome
  <2>1. /\ buffer' \in Seq(DullLine) /\ m_data' \in Seq(DullLine)
        /\ Grows(DullSignal) /\ (socket' = "connected" => socket = "connected")
    BY <1>1, <1>4, DullReading DEF Unwelcome
  <2>2. events' \in Seq(DullSignal)
    BY <1>4, <2>1, GrowsOperations DEF Unwelcome
  <2>q. QED
    BY <1>1, <1>2, <1>4, <2>1, <2>2 DEF Unwelcome, GreetingInv
<1>5. CASE Greeted
  <2>1. events' \in Seq(LateSignal)
    BY <1>1, <1>5, GrowsOperations DEF Greeted
  <2>q. QED
    BY <1>1, <1>5, <2>1 DEF Greeted, GreetingInv, sessionVars
<1>6. CASE Destroyed
  BY <1>1, <1>6 DEF Destroyed, Alive, GreetingInv, sessionVars
<1>q. QED
  BY <1>3, <1>4, <1>5, <1>6, ThreadQuitKeepsGreeting, ToConnectGoesOn, UnheardGoesOn DEF GreetingInv

-----------------------------------------------------------------------------
(* The connection attempt ends, with nothing said before it.               *)
LEMMA AttemptEnds ==
  ASSUME ConnectionInv, ToConnect, Socket
  PROVE  Unheard' \/ Unwelcome'
<1>1. /\ Connected \/ ConnectFailed
      /\ socket = "connecting" /\ posted \in Seq(FirstCall) /\ events = <<>>
      /\ Ungreeted' /\ currentJob' = NoJob
      /\ socket' = "connected" => server' = FreshServer(server.sent)
  BY DEF Socket, ServerFollows, SocketStep, Connected, ConnectFailed, SslConnected, RemoteClose, ToConnect,
         sessionVars, Ungreeted
<1>2. /\ FirstCall \subseteq LateCall /\ "slotSocketDisconnected" \in LateCall
      /\ OpeningSignal \subseteq DullSignal
  BY DEF FirstCall, LateCall, Call, OpeningSignal, DullSignal, IsGreeting
<1>3. \A e : Append(events, e) = <<e>> /\ <<e>> # <<>> /\ Tail(<<e>>) = <<>>
  BY <1>1
<1>4. posted \in Seq(LateCall)
  BY <1>1, <1>2, SeqMonotonic
<1>5. UNCHANGED <<buffer, m_data>> /\ buffer = <<>> /\ m_data = <<>>
  BY <1>1 DEF ToConnect, Connected, ConnectFailed, streamVars
<1>6. CASE Connected
  <2>1. [sig |-> "socketConnected"] \in OpeningSignal
    BY DEF OpeningSignal, Signal
  <2>2. events' = <<[sig |-> "socketConnected"]>>
    BY <1>3, <1>6 DEF Connected, Emit
  <2>3. events' \in Seq(OpeningSignal) /\ Once'
    BY <1>3, <2>1, <2>2, SequenceOperations DEF Once
  <2>4. CASE Drop /\ Post("slotSocketDisconnected")
    <3>1. socket' = "unconnected" /\ posted' \in Seq(LateCall)
      BY <1>2, <1>4, <2>4, SequenceOperations DEF Drop, Post
    <3>2. events' \in Seq(DullSignal)
      BY <1>2, <2>3, SeqMonotonic
    <3>q. QED
      BY <1>1, <1>5, <2>3, <3>1, <3>2, SequenceOperations DEF Unwelcome, Settled
  <2>5. CASE socket' = "connected" /\ UNCHANGED <<tls, posted>>
    BY <1>1, <1>5, <2>3, <2>5 DEF Unheard, ToConnect, FreshServer
  <2>q. QED
    BY <1>6, <2>4, <2>5 DEF Connected
<1>7. CASE ConnectFailed
  <2>1. [sig |-> "socketError"] \in DullSignal
    BY DEF DullSignal, Signal, IsGreeting
  <2>2. events' = <<[sig |-> "socketError"]>>
    BY <1>3, <1>7 DEF ConnectFailed, Emit
  <2>3. events' \in Seq(DullSignal) /\ Once'
    BY <1>3, <2>1, <2>2, SequenceOperations DEF Once
  <2>4. socket' = "unconnected" /\ posted' \in Seq(LateCall)
    BY <1>4, <1>7 DEF ConnectFailed, Drop
  <2>q. QED
    BY <1>1, <1>5, <2>3, <2>4, SequenceOperations DEF Unwelcome, Settled
<1>q. QED
  BY <1>1, <1>6, <1>7

(* A plain connection that ends unheard was not greeted at all.            *)
LEMMA SocketKeepsGreeting ==
  ASSUME ConnectionInv, GreetingInv, Socket
  PROVE  GreetingInv'
<1>1. UNCHANGED <<sessionVars, settings>> /\ SocketStep /\ events \in Seq(Signal)
  BY DEF Socket, ConnectionInv, LinkTypeOK
<1>2. CASE ToConnect
  BY <1>2, AttemptEnds DEF GreetingInv
<1>3. CASE Destroyed
  BY <1>1, <1>3 DEF Destroyed, Alive, GreetingInv, sessionVars
<1>4. ASSUME Settled
      PROVE  /\ Grows(QuietSignal) /\ Settled' /\ UNCHANGED <<buffer, m_data>>
             /\ Grows(LateSignal) /\ Grows(DullSignal) /\ (Once => Once')
             /\ socket' = "connected" => socket = "connected"
             /\ socket = "connected" => UNCHANGED server
  <2>1. Grows(QuietSignal) /\ Settled' /\ UNCHANGED <<buffer, m_data>>
    BY <1>4, SocketSettles
  <2>2. QuietSignal \subseteq LateSignal /\ QuietSignal \subseteq DullSignal
    BY DEF QuietSignal, LateSignal, DullSignal, IsGreeting
  <2>3. Grows(LateSignal) /\ Grows(DullSignal)
    BY <2>1, <2>2, GrowsOperations
  <2>4. Once => Once'
    BY <1>1, <2>3, OnceOperations
  <2>5. socket' = "connected" => socket = "connected"
    BY <1>1, <1>4 DEF Settled, SocketStep, Connected, ConnectFailed, SslConnected, RemoteClose, Drop
  <2>6. socket = "connected" => UNCHANGED server
    BY DEF Socket, ServerFollows
  <2>q. QED
    BY <2>1, <2>3, <2>4, <2>5, <2>6
<1>5. CASE Unheard
  <2>1. RemoteClose
    BY <1>1, <1>5 DEF Unheard, SocketStep, Connected, ConnectFailed, SslConnected
  <2>2. Settled
    <3>1. FirstCall \subseteq LateCall
      BY DEF FirstCall, LateCall, Call
    <3>q. QED
      BY <1>5, <3>1, SeqMonotonic DEF Unheard, Settled
  <2>3. events' \in Seq(DullSignal)
    <3>1. OpeningSignal \subseteq DullSignal
      BY DEF OpeningSignal, DullSignal, IsGreeting
    <3>2. events \in Seq(DullSignal)
      BY <1>5, <3>1, SeqMonotonic DEF Unheard
    <3>q. QED
      BY <1>4, <2>2, <3>2, GrowsOperations
  <2>4. socket' = "unconnected" /\ buffer = <<>> /\ m_data = <<>>
    BY <1>5, <2>1 DEF RemoteClose, Drop, Unheard
  <2>5. Unwelcome'
    BY <1>1, <1>4, <1>5, <2>2, <2>3, <2>4, SequenceOperations
       DEF Unwelcome, Unheard, Ungreeted, sessionVars
  <2>q. QED
    BY <2>5 DEF GreetingInv
<1>6. CASE Heard
  <2>1. PICK t \in Seq(LateSignal) : events' = events \o t
    BY <1>4, <1>6 DEF Heard, Grows
  <2>2. t \in Seq(Signal)
    BY SeqMonotonic DEF LateSignal
  <2>3. Awaits(events \o t)
    BY <1>1, <1>6, <2>2, AwaitsOperations DEF Heard
  <2>q. QED
    BY <1>1, <1>4, <1>6, <2>1, <2>3 DEF Heard, Awaits, Ungreeted, GreetingInv, sessionVars
<1>7. CASE Unwelcome
  <2>1. events' \in Seq(DullSignal)
    BY <1>4, <1>7, GrowsOperations DEF Unwelcome
  <2>2. Unwelcome'
    BY <1>1, <1>4, <1>7, <2>1 DEF Unwelcome, Ungreeted, sessionVars
  <2>q. QED
    BY <2>2 DEF GreetingInv
<1>8. CASE Greeted
  <2>1. events' \in Seq(LateSignal)
    BY <1>4, <1>8, GrowsOperations DEF Greeted
  <2>q. QED
    BY <1>1, <1>4, <1>8, <2>1 DEF Greeted, GreetingInv, sessionVars
<1>q. QED
  BY <1>2, <1>3, <1>5, <1>6, <1>7, <1>8 DEF GreetingInv

-----------------------------------------------------------------------------
(* A sequence of one element.                                              *)
LEMMA OnlyElement ==
  ASSUME NEW S, NEW s \in Seq(S), Len(s) = 1
  PROVE  /\ s # <<>> /\ Head(s) = s[1]
         /\ \A T : s[1] \in T => s \in Seq(T)
<1>1. s \in [1..1 -> S]
  BY LenProperties
<1>2. s # <<>> /\ Head(s) = s[1]
  OBVIOUS
<1>3. ASSUME NEW T, s[1] \in T
      PROVE  s \in Seq(T)
  <2>1. s \in [1..1 -> T]
    BY <1>1, <1>3
  <2>q. QED
    BY <2>1, SeqDef
<1>q. QED
  BY <1>2, <1>3

(* What the server sends comes behind what waits to be read.               *)
LEMMA BehindTheFirst ==
  ASSUME ConnectionInv, buffer # <<>>, EndsLine \/ \E ls \in Seq(Line) : Delivers(ls)
  PROVE  buffer' # <<>> /\ Head(buffer').line = Head(buffer).line
<1>1. buffer \in Seq(StreamLine)
  BY DEF ConnectionInv, ThreadTypeOK
<1>2. CASE \E ls \in Seq(Line) : Delivers(ls)
  <2>1. PICK lines \in Seq(StreamLine) : buffer' = buffer \o lines
    BY <1>2 DEF Delivers
  <2>q. QED
    BY <1>1, <2>1, ConcatBehind
<1>3. CASE EndsLine
  <2> DEFINE n == Len(buffer)
             ended == [buffer[n] EXCEPT !.open = FALSE]
  <2>1. n \in Nat /\ n # 0 /\ DOMAIN buffer = 1..n /\ buffer[n] \in StreamLine
    BY <1>1, LenProperties, EmptySeq, ElementOfSeq
  <2>2. ended \in StreamLine /\ ended.line = buffer[n].line
    BY <2>1 DEF StreamLine
  <2> HIDE DEF ended
  <2>3. buffer' = [buffer EXCEPT ![n] = ended]
    BY <1>3 DEF EndsLine, ended
  <2>4. buffer' \in Seq(StreamLine) /\ Len(buffer') = n
    BY <1>1, <2>1, <2>2, <2>3, ExceptSeq
  <2>5. buffer'[1] = IF n = 1 THEN ended ELSE buffer[1]
    BY <1>1, <2>1, <2>3
  <2>q. QED
    BY <1>1, <2>1, <2>2, <2>4, <2>5
<1>q. QED
  BY <1>2, <1>3

(* Where no line that waits is a greeting, and none is added, none waits.  *)
LEMMA DullSending ==
  ASSUME ConnectionInv, buffer \in Seq(DullLine),
         EndsLine \/ \E l \in Line : l.code \notin Welcome /\ Delivers(<<l>>)
  PROVE  buffer' \in Seq(DullLine)
<1>1. CASE \E l \in Line : l.code \notin Welcome /\ Delivers(<<l>>)
  <2>1. PICK l \in Line : l.code \notin Welcome /\ Delivers(<<l>>)
    BY <1>1
  <2>2. PICK lines \in Seq(StreamLine) : /\ buffer' = buffer \o lines
                                         /\ Len(lines) = 1 /\ lines[1].line = l
    BY <2>1 DEF Delivers
  <2>3. lines[1] \in DullLine
    BY <2>1, <2>2, ElementOfSeq DEF DullLine
  <2>4. lines \in Seq(DullLine)
    BY <2>2, <2>3, OnlyElement
  <2>q. QED
    BY <2>2, <2>4, SequenceOperations
<1>2. CASE EndsLine
  <2> DEFINE n == Len(buffer)
             ended == [buffer[n] EXCEPT !.open = FALSE]
  <2>1. n \in 1..Len(buffer) /\ buffer[n] \in DullLine
    BY <1>2, LenProperties, EmptySeq, ElementOfSeq DEF EndsLine
  <2>2. ended \in DullLine
    BY <2>1 DEF StreamLine, DullLine
  <2> HIDE DEF ended
  <2>3. buffer' = [buffer EXCEPT ![n] = ended]
    BY <1>2 DEF EndsLine, ended
  <2>q. QED
    BY <2>1, <2>2, <2>3, ExceptSeq
<1>q. QED
  BY <1>1, <1>2

(* A connection's first line greets it, or it is never greeted.            *)
LEMMA GreetHolds ==
  ASSUME ConnectionInv, Unheard, GreetsInTime, Server
  PROVE  Unheard' \/ Unwelcome'
<1>1. /\ Once' /\ Settled'
      /\ Ungreeted' /\ currentJob' = NoJob
      /\ socket' = "connected" /\ tls' = "plain" /\ m_data' = <<>>
      /\ Emit("socketActivity") /\ Post("readMessage")
  <2>1. Settled
    <3>1. FirstCall \subseteq LateCall
      BY DEF FirstCall, LateCall, Call
    <3>q. QED
      BY <3>1, SeqMonotonic DEF Unheard, Settled
  <2>2. /\ Grows(QuietSignal) /\ Settled'
        /\ socket = "connected" /\ UNCHANGED <<socket, tls, m_encryptedMode, m_data>>
        /\ Emit("socketActivity") /\ Post("readMessage")
    BY <2>1, ServerSettles
  <2>3. Once'
    <3>1. Grows(LateSignal)
      BY <2>2, GrowsOperations DEF QuietSignal, LateSignal
    <3>q. QED
      BY <3>1, OnceOperations DEF Unheard, ConnectionInv, LinkTypeOK
  <2>q. QED
    BY <2>2, <2>3 DEF Unheard, Server, sessionVars, Ungreeted
<1>2. posted' \in Seq(FirstCall) /\ events' \in Seq(OpeningSignal)
  <2>1. "readMessage" \in FirstCall /\ [sig |-> "socketActivity"] \in OpeningSignal
    BY DEF FirstCall, OpeningSignal, Signal
  <2>q. QED
    BY <1>1, <2>1, SequenceOperations DEF Unheard, Emit, Post
<1>3. Sends
  BY ServerStepType DEF Server, ConnectionInv
<1>4. CASE buffer # <<>>
  <2>1. EndsLine \/ \E ls \in Seq(Line) : Delivers(ls)
    <3>1. \A l \in Line : <<l>> \in Seq(Line)
      BY SequenceOperations
    <3>2. /\ \A c \in Greetings : Reply(Star, c) \in Line
          /\ Blank \in Line /\ Unsolicited \subseteq Line
      BY ServerAssumption DEF Reply, Line, Code, Blank, Tag
    <3>3. ASSUME NEW l \in Line, Delivers(<<l>>)
          PROVE  \E ls \in Seq(Line) : Delivers(ls)
      BY <3>1, <3>3
    <3>4. CASE \E c \in Greetings : Delivers(<<Reply(Star, c)>>)
      BY <3>2, <3>3, <3>4
    <3>5. CASE \E l \in Unsolicited : Delivers(<<l>>)
      BY <3>2, <3>3, <3>5
    <3>6. CASE EndsLine \/ Delivers(<<Blank>>)
      BY <3>2, <3>3, <3>6
    <3>7. CASE Answer /\ \E ls \in Seq(Line) : Delivers(ls)
      BY <3>7
    <3>q. QED
      BY <1>3, <3>4, <3>5, <3>6, <3>7 DEF Sends
  <2>2. buffer' # <<>> /\ Head(buffer').line = Head(buffer).line
    BY <1>4, <2>1, BehindTheFirst
  <2>q. QED
    BY <1>1, <1>2, <1>4, <2>2 DEF Unheard
<1>5. CASE buffer = <<>>
  <2>1. PICK c \in Greetings : /\ Delivers(<<Reply(Star, c)>>)
                               /\ c \notin {"OK", "PREAUTH"} => server'.phase = "Logout"
    <3>1. ~Answer /\ ~SendUnsolicited /\ ~SendLineFeed
      BY <1>5 DEF Unheard, Answer, SendUnsolicited, SendLineFeed
    <3>q. QED
      BY <1>3, <3>1 DEF Sends
  <2>2. PICK lines \in Seq(StreamLine) : /\ buffer' = buffer \o lines
                                         /\ Len(lines) = 1 /\ lines[1].line = Reply(Star, c)
    BY <2>1 DEF Delivers
  <2>3. buffer' = lines /\ lines # <<>> /\ Head(buffer').line.code = c
    <3>1. \A s \in Seq(StreamLine) : <<>> \o s = s
      BY ConcatEmptySeq
    <3>2. Head(lines) = lines[1] /\ lines # <<>>
      BY <2>2, OnlyElement
    <3>3. Head(lines).line.code = c
      BY <2>2, <3>2 DEF Reply
    <3>q. QED
      BY <1>5, <2>2, <3>1, <3>2, <3>3
  <2>4. CASE c \in Welcome
    BY <1>1, <1>2, <2>3, <2>4 DEF Unheard
  <2>5. CASE c \notin Welcome
    <3>1. SaysNoMore /\ server'.phase = "Logout"
      BY <2>1, <2>5 DEF GreetsInTime, Welcome
    <3>2. buffer' \in Seq(DullLine)
      <4>1. lines[1] \in DullLine
        BY <2>2, <2>5, ElementOfSeq DEF DullLine, Reply
      <4>q. QED
        BY <2>2, <2>3, <4>1, OnlyElement
    <3>3. events' \in Seq(DullSignal)
      <4>1. OpeningSignal \subseteq DullSignal
        BY DEF OpeningSignal, DullSignal, IsGreeting
      <4>q. QED
        BY <1>2, <4>1, SeqMonotonic
    <3>4. m_data' \in Seq(DullLine)
      BY <1>1, SequenceOperations
    <3>q. QED
      BY <1>1, <3>1, <3>2, <3>3, <3>4 DEF Unwelcome, SaysNoMore
  <2>q. QED
    BY <2>4, <2>5
<1>q. QED
  BY <1>4, <1>5

(* The server greets once, and a connection it has turned away never.      *)
LEMMA ServerKeepsGreeting ==
  ASSUME ConnectionInv, GreetingInv, GreetsInTime, Server
  PROVE  GreetingInv'
<1>1. /\ UNCHANGED <<sessionVars, settings>> /\ events \in Seq(Signal)
      /\ Grows(QuietSignal) /\ (Settled => Settled')
      /\ socket = "connected" /\ UNCHANGED <<socket, m_data>>
  BY ServerSettles DEF Server, ConnectionInv, LinkTypeOK
<1>2. Grows(LateSignal) /\ Grows(DullSignal) /\ (Once => Once')
  <2>1. QuietSignal \subseteq LateSignal /\ QuietSignal \subseteq DullSignal
    BY DEF QuietSignal, LateSignal, DullSignal, IsGreeting
  <2>q. QED
    BY <1>1, <2>1, GrowsOperations, OnceOperations
<1>3. CASE Heard
  <2>1. PICK t \in Seq(LateSignal) : events' = events \o t
    BY <1>2 DEF Grows
  <2>2. t \in Seq(Signal)
    BY SeqMonotonic DEF LateSignal
  <2>3. Awaits(events \o t)
    BY <1>1, <1>3, <2>2, AwaitsOperations DEF Heard
  <2>q. QED
    BY <1>1, <1>2, <1>3, <2>1, <2>3 DEF Heard, Awaits, Ungreeted, GreetingInv, sessionVars
<1>4. CASE Unwelcome
  <2>1. server.phase = "Logout" /\ SaysNoMore
    BY <1>1, <1>4 DEF Unwelcome
  <2>2. Sends
    BY ServerStepType DEF Server, ConnectionInv
  <2>3. EndsLine \/ \E l \in Line : l.code \notin Welcome /\ Delivers(<<l>>)
    <3>1. Blank \in Line /\ Blank.code \notin Welcome /\ Unsolicited \subseteq Line
      BY ServerAssumption DEF Blank, Reply, Line, Tag, Code, Welcome
    <3>q. QED
      BY <2>1, <2>2, <3>1 DEF Sends, Greet, Answer, SaysNoMore
  <2>4. buffer' \in Seq(DullLine)
    BY <1>4, <2>3, DullSending DEF Unwelcome
  <2>5. server'.phase = "Logout"
    <3>1. SendUnsolicited \/ SendLineFeed
      BY <2>1 DEF Server, ServerStep, Greet, Answer
    <3>2. server \in ServerRecord
      BY DEF ConnectionInv, ServerTypeOK, ServerRecord
    <3>q. QED
      BY <2>1, <3>1, <3>2 DEF SendUnsolicited, SendLineFeed, SendLines, ServerRecord
  <2>6. events' \in Seq(DullSignal)
    BY <1>2, <1>4, GrowsOperations DEF Unwelcome
  <2>7. Unwelcome'
    BY <1>1, <1>2, <1>4, <2>1, <2>4, <2>5, <2>6 DEF Unwelcome, Ungreeted, SaysNoMore, sessionVars
  <2>q. QED
    BY <2>7 DEF GreetingInv
<1>5. CASE Greeted
  <2>1. events' \in Seq(LateSignal)
    BY <1>2, <1>5, GrowsOperations DEF Greeted
  <2>q. QED
    BY <1>1, <1>5, <2>1 DEF Greeted, GreetingInv, sessionVars
<1>6. CASE Destroyed
  BY <1>1, <1>6 DEF Destroyed, Alive, GreetingInv, sessionVars
<1>q. QED
  BY <1>1, <1>3, <1>4, <1>5, <1>6, GreetHolds DEF GreetingInv, ToConnect

-----------------------------------------------------------------------------
(* The Session posts threadInit() when it is created.                      *)
LEMMA StartsToConnect == Init => ToConnect
<1> SUFFICES ASSUME Init PROVE ToConnect
  OBVIOUS
<1>1. posted = <<"threadInit">> /\ socket = "none"
  BY DEF Init, LinkInit, ThreadInitState
<1>2. OneConnects(posted, FirstCall)
  BY <1>1 DEF OneConnects, Connecting
<1>q. QED
  BY <1>1, <1>2 DEF Init, LinkInit, SessionInit, ThreadInitState, ToConnect, Ungreeted

(* The stages only follow each other.                                      *)
LEMMA GreetingNextKeeps ==
  ASSUME GreetsInTime
  PROVE  ConnectionInv /\ GreetingInv /\ [Next]_vars => GreetingInv'
<1> SUFFICES ASSUME ConnectionInv, GreetingInv, [Next]_vars
             PROVE  GreetingInv'
  OBVIOUS
<1>1. CASE UNCHANGED vars
  BY <1>1 DEF vars, linkVars, sessionVars, threadVars, GreetingInv, ToConnect, Unheard, Heard, Unwelcome,
     Greeted, Destroyed, Ungreeted, Settled, Once, Awaits, OneConnects, Alive
<1>q. QED
  BY <1>1, ApplicationKeepsGreeting, MainThreadKeepsGreeting, SecondaryThreadKeepsGreeting,
     SocketKeepsGreeting, ServerKeepsGreeting DEF Next

(* The session is told of its connection before it is greeted, and greeted *)
(* before any job runs (SessionThread's signals to the Session and         *)
(* Session::responseReceived()), whatever the network does: the first job  *)
(* is started by the greeting, or fails with the connection, never both.   *)
THEOREM GreetingStaysTimely ==
  ASSUME GreetsInTime
  PROVE  Spec => []GreetingIsTimely
<1>1. ConnectionInv /\ GreetingInv => GreetingIsTimely
  BY GreetingInvMeaning
<1>2. Init => GreetingInv
  BY StartsToConnect DEF GreetingInv
<1>3. ConnectionInv /\ GreetingInv /\ [Next]_vars => GreetingInv'
  BY GreetingNextKeeps
<1>q. QED
  BY <1>1, <1>2, <1>3, ConnectionInvariantHolds, PTL DEF Spec

(* No job that was started is forgotten by Session::startNext(),           *)
(* jobDone(), jobDestroyed() and the slots of the connection.              *)
THEOREM NoJobIsForgotten ==
  ASSUME GreetsInTime
  PROVE  Spec => []NoJobForgotten
BY GreetingStaysTimely, NobodyIsForgotten, PTL

(* The end of the connection or of the session (socketDisconnected(),      *)
(* clearJobQueue(), ~Session) leaves no job pending, and tells one of      *)
(* those that were.                                                        *)
THEOREM LossIsSurelyTold ==
  ASSUME GreetsInTime
  PROVE  Spec => LossIsTold
BY GreetingStaysTimely, LossIsAlwaysTold, PTL

(* The session is a queue of jobs: they run one at a time in the order     *)
(* they were started, and each ends at most once.                          *)
THEOREM SessionIsAQueue ==
  ASSUME GreetsInTime
  PROVE  Spec => QueueSpec
BY GreetingStaysTimely, SessionImplementsQueue, PTL
-----------------------------------------------------------------------------
(* A running job is watched as long as its connection stands, whatever the *)
(* jobs are: what is left to follow is how the connection ends, what the   *)
(* timer's interval is, and which job is the current one.                  *)
Has(s, T) == \E i \in DOMAIN s : s[i] \in T

(* Something is in a sequence until it is the first element and is taken.  *)
LEMMA HasOperations ==
  ASSUME NEW S, NEW T, NEW s \in Seq(S)
  PROVE  /\ \A t \in Seq(S) : Has(s, T) => Has(s \o t, T)
         /\ \A e \in S : Has(s, T) \/ e \in T => Has(Append(s, e), T)
         /\ s # <<>> /\ Has(s, T) /\ Head(s) \notin T => Has(Tail(s), T)
         /\ s \in Seq(S \ T) => ~Has(s, T)
<1>1. Len(s) \in Nat /\ DOMAIN s = 1..Len(s)
  BY LenProperties
<1>2. ASSUME NEW t \in Seq(S), Has(s, T)
      PROVE  Has(s \o t, T)
  <2>1. PICK i \in 1..Len(s) : s[i] \in T
    BY <1>1, <1>2 DEF Has
  <2>2. s \o t \in Seq(S) /\ Len(t) \in Nat /\ Len(s \o t) = Len(s) + Len(t) /\ (s \o t)[i] = s[i]
    BY ConcatProperties, LenProperties
  <2>3. DOMAIN (s \o t) = 1..Len(s) + Len(t)
    BY <2>2, LenProperties
  <2>q. QED
    BY <1>1, <2>1, <2>2, <2>3 DEF Has
<1>3. ASSUME NEW e \in S, Has(s, T) \/ e \in T
      PROVE  Has(Append(s, e), T)
  <2>1. /\ Append(s, e) \in Seq(S) /\ Len(Append(s, e)) = Len(s) + 1
        /\ \A i \in 1..Len(s) : Append(s, e)[i] = s[i]
        /\ Append(s, e)[Len(s) + 1] = e
    BY AppendProperties
  <2>2. DOMAIN Append(s, e) = 1..Len(s) + 1
    BY <2>1, LenProperties
  <2>q. QED
    BY <1>1, <1>3, <2>1, <2>2 DEF Has
<1>4. ASSUME s # <<>>, Has(s, T), Head(s) \notin T
      PROVE  Has(Tail(s), T)
  <2>1. PICK i \in 1..Len(s) : s[i] \in T
    BY <1>1, <1>4 DEF Has
  <2>2. /\ Head(s) = s[1] /\ Tail(s) \in Seq(S) /\ Len(Tail(s)) = Len(s) - 1
        /\ \A k \in 1..Len(Tail(s)) : Tail(s)[k] = s[k + 1]
    BY <1>4, HeadTailProperties
  <2>3. i # 1 /\ i - 1 \in 1..Len(Tail(s)) /\ (i - 1) + 1 = i
    BY <1>1, <1>4, <2>1, <2>2
  <2>4. DOMAIN Tail(s) = 1..Len(Tail(s))
    BY <2>2, LenProperties
  <2>5. Tail(s)[i - 1] = s[i]
    BY <2>2, <2>3
  <2>q. QED
    BY <2>1, <2>3, <2>4, <2>5 DEF Has
<1>5. s \in Seq(S \ T) => ~Has(s, T)
  BY <1>1, ElementOfSeq DEF Has
<1>q. QED
  BY <1>2, <1>3, <1>4, <1>5

UpCall == Call \ {"threadInit", "reconnect", "setUseProxyInternal", "threadQuit", "slotSocketDisconnected"}
DownCall == UpCall \cup {"slotSocketDisconnected"}
DownNews == {e \in Signal : e.sig = "socketDisconnected"}

(* The connection is made, and the session knows or is told next; it has   *)
(* ended, and the session has not heard of it, or is told, or knows.       *)
Told == events # <<>> /\ Head(events).sig = "socketConnected"
ToldOfEnd == Has(posted, {"slotSocketDisconnected"}) \/ Has(events, DownNews)

Up == /\ socket = "connected" /\ Once
      /\ isSocketConnected \/ Told
      /\ posted \in Seq(UpCall) /\ events \in Seq(Signal \ DownNews)

Down == /\ socket = "unconnected" /\ Once
        /\ posted \in Seq(DownCall)
        /\ isSocketConnected \/ Told => ToldOfEnd

LinkInv == (ToConnect /\ ~isSocketConnected) \/ Up \/ Down

(* News of the end is a disconnection among the signals.                   *)
LEMMA NewsOfEnd ==
  ASSUME NEW s \in Seq(Signal)
  PROVE  Has(s, DownNews) <=> \E i \in DOMAIN s : s[i].sig = "socketDisconnected"
<1>1. \A i \in DOMAIN s : s[i] \in Signal
  BY LenProperties, ElementOfSeq
<1>q. QED
  BY <1>1 DEF Has, DownNews

(* The end of the connection is certain.                                   *)
LEMMA GoingDownMeaning ==
  ASSUME ConnectionInv
  PROVE  /\ GoingDown <=> Has(posted, {"doCloseSocket", "slotSocketDisconnected"}) \/ Has(events, DownNews)
         /\ ToldOfEnd => GoingDown
         /\ Up /\ GoingDown => Has(posted, {"doCloseSocket"})
<1>2. GoingDown <=> Has(posted, {"doCloseSocket", "slotSocketDisconnected"}) \/ Has(events, DownNews)
  BY NewsOfEnd DEF GoingDown, Has, ConnectionInv, LinkTypeOK
<1>3. ToldOfEnd => GoingDown
  BY <1>2 DEF ToldOfEnd, Has
<1>4. Up /\ GoingDown => Has(posted, {"doCloseSocket"})
  <2> SUFFICES ASSUME Up, GoingDown PROVE Has(posted, {"doCloseSocket"})
    OBVIOUS
  <2>1. ~Has(events, DownNews)
    BY HasOperations DEF ConnectionInv, LinkTypeOK, Up
  <2>2. \A i \in DOMAIN posted : posted[i] # "slotSocketDisconnected"
    BY LenProperties, ElementOfSeq DEF Up, UpCall
  <2>q. QED
    BY <1>2, <2>1, <2>2 DEF Has
<1>q. QED
  BY <1>2, <1>3, <1>4

(* The session knows what it has been told, and nothing else.              *)
LEMMA SignalsTell ==
  ASSUME HandleSignal
  PROVE  isSocketConnected' = IF Head(events).sig = "socketConnected" THEN TRUE
                              ELSE IF Head(events).sig = "socketDisconnected" THEN FALSE
                              ELSE isSocketConnected
BY DEF HandleSignal, SocketConnected, SocketDisconnected, ConnectionGone, SocketError, SocketActivity,
       OnEncryptionNegotiationResult, HandleSslError, ResponseReceived, Receive, sessionVars

(* Calls and the timer do not tell the session of a connection.            *)
LEMMA CallsTellNothing ==
  ASSUME ConnectionInv, Application \/ Timeout, Alive'
  PROVE  UNCHANGED isSocketConnected
<1>1. CASE Timeout
  BY <1>1 DEF Timeout, OnSocketTimeout
<1>2. CASE Destroy /\ Spend("destroy")
  BY <1>2 DEF Spend, Alive, ConnectionInv, SettingsTypeOK
<1>q. QED
  BY <1>1, <1>2 DEF Application, AddJob, DeleteJob, StopIdle, Close, SetUseNetworkProxy, SetTimeout, sessionVars

(* What takes a signal changes the signals.                                *)
LEMMA TailIsShorter ==
  ASSUME NEW S, NEW s \in Seq(S), s # <<>>
  PROVE  Tail(s) # s
BY HeadTailProperties, LenProperties

(* The main thread only posts to the secondary thread, takes a signal, and *)
(* remembers what the signal says.                                         *)
LEMMA MainThreadKeepsLink ==
  ASSUME ConnectionInv, LinkInv, MaxSettings.proxy = 0, Alive',
         Application \/ Timeout \/ MainThread
  PROVE  /\ LinkInv'
         /\ Down /\ ~isSocketConnected' /\ (~Told \/ MainThread) => Down' /\ ~Told'
         /\ isSocketConnected /\ isSocketConnected' /\ GoingDown => GoingDown'
<1>1. /\ UNCHANGED <<threadVars, server>>
      /\ UNCHANGED events \/ (events # <<>> /\ events' = Tail(events))
  BY MainThreadSettles
<1>2. UNCHANGED posted \/ \E call \in UpCall : Post(call)
  <2>1. SessionCall \cup {"sslErrorIgnored", "sslErrorRefused"} \subseteq UpCall
    BY DEF SessionCall, UpCall, Call
  <2>2. Hands \/ AnswersSslError
    <3>1. CASE Application \/ Timeout
      BY <3>1, ApplicationHands DEF ConnectionInv, ChangesProxy, Quits
    <3>2. CASE MainThread
      BY <3>2, HandleSignalHands DEF ConnectionInv, MainThread
    <3>q. QED
      BY <3>1, <3>2
  <2>q. QED
    BY <2>1, <2>2 DEF Hands, AnswersSslError
<1>3. /\ UNCHANGED events => UNCHANGED isSocketConnected
      /\ events # <<>> /\ events' = Tail(events) =>
           isSocketConnected' = IF Head(events).sig = "socketConnected" THEN TRUE
                                ELSE IF Head(events).sig = "socketDisconnected" THEN FALSE
                                ELSE isSocketConnected
  <2>1. CASE MainThread
    <3>1. events' # events
      BY <2>1, HandleSignalHands, TailIsShorter DEF ConnectionInv, LinkTypeOK, MainThread
    <3>q. QED
      BY <2>1, <3>1, SignalsTell DEF MainThread
  <2>2. CASE Application \/ Timeout
    <3>1. UNCHANGED <<events, isSocketConnected>>
      BY <2>2, CallsTellNothing, ApplicationHands DEF ConnectionInv
    <3>q. QED
      BY <3>1, TailIsShorter DEF ConnectionInv, LinkTypeOK
  <2>q. QED
    BY <2>1, <2>2
<1>4. /\ posted \in Seq(Call) /\ events \in Seq(Signal)
      /\ events # <<>> => Head(events) \in Signal
      /\ UpCall \subseteq DownCall /\ DownCall \subseteq Call /\ DownNews \subseteq Signal
  BY SequenceOperations DEF ConnectionInv, LinkTypeOK, UpCall, DownCall, Call, DownNews
<1>5. Once => /\ Once'
              /\ events # <<>> /\ events' = Tail(events) => ~Told'
  <2>1. Once /\ events # <<>> /\ events' = Tail(events) => Once' /\ events' \in Seq(LateSignal)
    BY <1>4, OnceOperations
  <2>2. events' \in Seq(LateSignal) => ~Told'
    BY SequenceOperations DEF Told, LateSignal
  <2>q. QED
    BY <1>1, <2>1, <2>2 DEF Once
<1>6. \A T : Has(posted, T) => Has(posted', T)
  <2> SUFFICES ASSUME NEW T, Has(posted, T) PROVE Has(posted', T)
    OBVIOUS
  <2>1. \A call \in UpCall : Has(Append(posted, call), T)
    BY <1>4, HasOperations
  <2>q. QED
    BY <1>2, <2>1 DEF Post, Has
<1>7. isSocketConnected' => (Has(events, DownNews) => Has(events', DownNews))
  <2> SUFFICES ASSUME isSocketConnected', Has(events, DownNews) PROVE Has(events', DownNews)
    OBVIOUS
  <2>1. CASE UNCHANGED events
    BY <2>1 DEF Has
  <2>2. CASE events # <<>> /\ events' = Tail(events)
    <3>1. Head(events) \notin DownNews
      BY <1>3, <2>2 DEF DownNews
    <3>2. Has(Tail(events), DownNews)
      BY <1>4, <2>2, <3>1, HasOperations
    <3>q. QED
      BY <2>2, <3>2 DEF Has
  <2>q. QED
    BY <1>1, <2>1, <2>2
<1>8. isSocketConnected /\ isSocketConnected' /\ GoingDown => GoingDown'
  <2>1. ConnectionInv'
    BY ConnectionNextKeeps DEF Next
  <2>2. GoingDown' <=> Has(posted', {"doCloseSocket", "slotSocketDisconnected"}) \/ Has(events', DownNews)
    BY <2>1, NewsOfEnd DEF GoingDown, Has, ConnectionInv, LinkTypeOK
  <2>q. QED
    BY <1>6, <1>7, <2>2, GoingDownMeaning DEF Has
<1>9. Told /\ UNCHANGED events => Told'
  BY DEF Told
<1>10. ASSUME ToConnect, ~isSocketConnected
       PROVE  LinkInv' /\ ~Down
  <2>1. Ungreeted' /\ UNCHANGED <<isSocketConnected, events>> /\ currentJob' = NoJob
        /\ (UNCHANGED posted \/ Post("doCloseSocket"))
    <3>1. ~MainThread
      BY <1>10, HandleSignalHands DEF ToConnect, MainThread, ConnectionInv
    <3>2. ~Destroyed'
      BY DEF Destroyed
    <3>q. QED
      BY <1>10, <3>1, <3>2, ApplicationWaits DEF ToConnect
  <2>2. /\ FirstCall \subseteq Call \ Connecting /\ "doCloseSocket" \in FirstCall
    BY DEF FirstCall, Call, Connecting
  <2>3. CASE socket = "connecting" /\ posted \in Seq(FirstCall)
    <3>1. posted' \in Seq(FirstCall)
      BY <2>1, <2>2, <2>3, SequenceOperations DEF Post
    <3>q. QED
      BY <1>1, <1>10, <2>1, <2>3, <3>1 DEF ToConnect, LinkInv, Down, threadVars
  <2>4. CASE socket \in {"none", "unconnected"} /\ OneConnects(posted, FirstCall)
    <3>1. OneConnects(Append(posted, "doCloseSocket"), FirstCall)
      BY <1>4, <2>2, <2>4, OneConnectsOperations
    <3>2. OneConnects(posted', FirstCall)
      BY <2>1, <2>4, <3>1 DEF Post, OneConnects
    <3>3. ~Down
      <4>1. posted \in Seq(DownCall) => \A i \in 1..Len(posted) : posted[i] \in DownCall
        BY ElementOfSeq
      <4>q. QED
        BY <2>4, <4>1 DEF Down, OneConnects, DownCall, UpCall, Connecting
    <3>q. QED
      BY <1>1, <1>10, <2>1, <2>4, <3>2, <3>3 DEF ToConnect, LinkInv, OneConnects, threadVars
  <2>q. QED
    BY <1>10, <2>3, <2>4 DEF ToConnect
<1>11. ASSUME Up
       PROVE  Up' /\ ~Down
  <2>1. posted' \in Seq(UpCall)
    BY <1>2, <1>11, SequenceOperations DEF Up, Post
  <2>2. events' \in Seq(Signal \ DownNews)
    BY <1>1, <1>11, SequenceOperations DEF Up
  <2>3. isSocketConnected' \/ Told'
    <3>1. CASE UNCHANGED events
      BY <1>3, <1>9, <1>11, <3>1 DEF Up
    <3>2. CASE events # <<>> /\ events' = Tail(events)
      <4>1. Head(events) \notin DownNews
        BY <1>11, <3>2, SequenceOperations DEF Up
      <4>q. QED
        BY <1>3, <1>4, <1>11, <3>2, <4>1 DEF Up, Told, DownNews
    <3>q. QED
      BY <1>1, <3>1, <3>2
  <2>q. QED
    BY <1>1, <1>5, <1>11, <2>1, <2>2, <2>3 DEF Up, Down, threadVars
<1>12. ASSUME Down
       PROVE  Down' /\ (~isSocketConnected' /\ (~Told \/ MainThread) => ~Told')
  <2>1. posted' \in Seq(DownCall)
    BY <1>2, <1>4, <1>12, SequenceOperations DEF Down, Post
  <2>2. CASE UNCHANGED events
    <3>1. ~MainThread
      BY <1>4, <2>2, HandleSignalHands, TailIsShorter DEF ConnectionInv, MainThread
    <3>2. Has(posted, {"slotSocketDisconnected"}) => Has(posted', {"slotSocketDisconnected"})
      BY <1>6
    <3>q. QED
      BY <1>1, <1>3, <1>5, <1>12, <2>1, <2>2, <3>1, <3>2 DEF Down, Told, ToldOfEnd, Has, threadVars
  <2>3. CASE events # <<>> /\ events' = Tail(events)
    <3>1. ~Told'
      BY <1>5, <1>12, <2>3 DEF Down
    <3>2. isSocketConnected' => isSocketConnected \/ Told
      BY <1>3, <2>3 DEF Told
    <3>3. Has(posted, {"slotSocketDisconnected"}) => Has(posted', {"slotSocketDisconnected"})
      BY <1>6
    <3>q. QED
      BY <1>1, <1>5, <1>7, <1>12, <2>1, <3>1, <3>2, <3>3 DEF Down, ToldOfEnd, threadVars
  <2>q. QED
    BY <1>1, <2>2, <2>3
<1>q. QED
  BY <1>8, <1>10, <1>11, <1>12 DEF LinkInv

(* A sequence to which something is added begins as it did.                *)
LEMMA SameHead ==
  ASSUME ConnectionInv, NEW S, S \subseteq LateSignal, Grows(S)
  PROVE  /\ Told' <=> Told
         /\ Has(events, DownNews) => Has(events', DownNews)
         /\ S \cap DownNews = {} /\ events \in Seq(Signal \ DownNews) => events' \in Seq(Signal \ DownNews)
<1>1. LateSignal \subseteq Signal /\ events \in Seq(Signal)
  BY DEF LateSignal, ConnectionInv, LinkTypeOK
<1>2. PICK t \in Seq(S) : events' = events \o t
  BY DEF Grows
<1>3. t \in Seq(LateSignal) /\ t \in Seq(Signal)
  BY <1>1, <1>2, SeqMonotonic
<1>4. Told' <=> Told
  <2>1. CASE events = <<>>
    <3>1. events' = t
      BY <1>2, <1>3, <2>1, ConcatEmptySeq
    <3>q. QED
      BY <1>3, <2>1, <3>1, SequenceOperations DEF Told, LateSignal
  <2>2. CASE events # <<>>
    BY <1>1, <1>2, <1>3, <2>2, ConcatBehind DEF Told
  <2>q. QED
    BY <2>1, <2>2
<1>5. Has(events, DownNews) => Has(events', DownNews)
  <2>1. Has(events, DownNews) => Has(events \o t, DownNews)
    BY <1>1, <1>3, HasOperations
  <2>q. QED
    BY <1>2, <2>1 DEF Has
<1>6. ASSUME S \cap DownNews = {}, events \in Seq(Signal \ DownNews)
      PROVE  events' \in Seq(Signal \ DownNews)
  <2>1. t \in Seq(Signal \ DownNews)
    BY <1>1, <1>6, SeqMonotonic
  <2>q. QED
    BY <1>2, <1>6, <2>1, SequenceOperations
<1>q. QED
  BY <1>4, <1>5, <1>6

(* The secondary thread closes the socket and tells it in one go, or else  *)
(* takes a call that does neither.                                         *)
LEMMA SecondaryThreadKeepsLink ==
  ASSUME ConnectionInv, LinkInv, SecondaryThread
  PROVE  /\ LinkInv'
         /\ Down /\ ~isSocketConnected /\ ~Told => Down' /\ ~Told'
         /\ isSocketConnected /\ GoingDown => GoingDown'
<1>1. /\ HandlePosted /\ UNCHANGED <<sessionVars, settings>> /\ Grows(LateSignal)
      /\ posted \in Seq(Call) /\ events \in Seq(Signal) /\ LateSignal \subseteq LateSignal
  BY SecondaryThreadSettles DEF SecondaryThread, ConnectionInv, LinkTypeOK
<1>2. /\ UpCall \subseteq DownCall /\ DownCall \subseteq Call
      /\ "readMessage" \in UpCall /\ "slotSocketDisconnected" \in DownCall
      /\ "threadQuit" \notin DownCall
  BY DEF UpCall, DownCall, Call
<1>3. CASE ToConnect /\ ~isSocketConnected
  <2>1. \A i \in 1..Len(posted) : posted[i] # "threadQuit"
    <3>1. posted \in Seq(FirstCall) => \A i \in 1..Len(posted) : posted[i] \in FirstCall
      BY ElementOfSeq
    <3>q. QED
      BY <1>3, <3>1 DEF ToConnect, OneConnects, FirstCall, Connecting
  <2>2. ToConnect'
    BY <1>3, <2>1, ToConnectGoesOn DEF ThreadQuit, Contains
  <2>3. ~isSocketConnected'
    BY <1>1, <1>3 DEF sessionVars
  <2>4. ~Down
    <3>1. posted \in Seq(DownCall) => \A i \in 1..Len(posted) : posted[i] \in DownCall
      BY ElementOfSeq
    <3>q. QED
      BY <1>3, <3>1 DEF ToConnect, Down, OneConnects, DownCall, UpCall, Connecting
  <2>q. QED
    BY <1>3, <2>2, <2>3, <2>4 DEF LinkInv
<1>4. ASSUME posted \in Seq(DownCall)
      PROVE  /\ posted # <<>> /\ Head(posted) \in DownCall /\ Tail(posted) \in Seq(DownCall)
             /\ ThreadMoves /\ ~ThreadQuit
  <2>1. \A i \in 1..Len(posted) : posted[i] \in DownCall
    BY <1>4, ElementOfSeq
  <2>2. ~ThreadQuit
    BY <1>2, <2>1 DEF ThreadQuit, Contains
  <2>3. /\ posted # <<>>
        /\ ThreadInit \/ Reconnect \/ SetUseProxyInternal \/ ThreadMoves
    BY <1>1, <2>2, SecondaryThreadMoves DEF ConnectionInv
  <2>4. Head(posted) \in DownCall /\ Tail(posted) \in Seq(DownCall)
    BY <1>4, <2>3, SequenceOperations
  <2>5. ~ThreadInit /\ ~Reconnect /\ ~SetUseProxyInternal
    BY <2>4 DEF ThreadInit, Reconnect, SetUseProxyInternal, Take, DownCall, UpCall
  <2>q. QED
    BY <2>2, <2>3, <2>4, <2>5
<1>5. /\ Told' <=> Told
      /\ Has(events, DownNews) => Has(events', DownNews)
      /\ Once => Once'
      /\ UNCHANGED isSocketConnected
  BY <1>1, SameHead, OnceOperations DEF sessionVars
<1>6. CASE Up
  <2>1. posted \in Seq(DownCall)
    BY <1>2, <1>6, SeqMonotonic DEF Up
  <2>2. Head(posted) \in UpCall /\ Tail(posted) \in Seq(UpCall) /\ Tail(posted) \in Seq(DownCall)
    BY <1>4, <1>6, <2>1, SequenceOperations DEF Up
  <2>3. CASE Closes
    <3>1. posted' \in Seq(DownCall)
      BY <1>2, <2>2, <2>3, SequenceOperations DEF Closes
    <3>2. Has(posted', {"slotSocketDisconnected"})
      <4>1. Has(Append(Tail(posted), "slotSocketDisconnected"), {"slotSocketDisconnected"})
        BY <1>2, <2>2, HasOperations
      <4>q. QED
        BY <2>3, <4>1 DEF Closes, Has
    <3>3. Down'
      BY <1>5, <1>6, <2>3, <3>1, <3>2 DEF Closes, Up, Down, ToldOfEnd
    <3>4. GoingDown'
      BY <3>2 DEF GoingDown, Has
    <3>q. QED
      BY <1>6, <3>3, <3>4 DEF LinkInv, Up, Down
  <2>4. CASE GoesOn
    <3>1. posted' \in Seq(UpCall)
      BY <1>2, <2>2, <2>4, SequenceOperations DEF GoesOn
    <3>2. events' \in Seq(Signal \ DownNews)
      <4>1. ASSUME NEW e \in Signal, e.sig \in Emits(Head(posted))
            PROVE  e \in Signal \ DownNews
        BY <2>2, <4>1 DEF Emits, UpCall, DownNews
      <4>2. events \in Seq(Signal \ DownNews)
        BY <1>6 DEF Up
      <4>3. UNCHANGED events \/ \E e \in Signal \ DownNews : events' = Append(events, e)
        BY <1>4, <2>1, <4>1 DEF ThreadMoves
      <4>q. QED
        BY <4>2, <4>3, SequenceOperations
    <3>3. Up'
      BY <1>5, <1>6, <2>4, <3>1, <3>2 DEF GoesOn, Up
    <3>4. ASSUME GoingDown
          PROVE  GoingDown'
      <4>1. Head(posted) # "doCloseSocket"
        <5>2. ~ThreadQuit
          BY <1>4, <2>1
        <5>1. ~DoCloseSocket
          BY <1>6, <2>4 DEF DoCloseSocket, CloseSocket, Drop, GoesOn, Up
        <5>q. QED
          BY <1>1, <5>1, <5>2 DEF HandlePosted, ThreadInit, Reconnect, WriteDataQueue, ReadMessage,
             SlotSocketDisconnected, SetUseProxyInternal, DoStartSsl, DoSslErrorHandlerResponse,
             Take
      <4>2. Has(posted, {"doCloseSocket"})
        BY <1>6, <3>4, GoingDownMeaning
      <4>3. Has(Tail(posted), {"doCloseSocket"})
        BY <1>1, <1>4, <2>1, <4>1, <4>2, HasOperations
      <4>4. Has(Append(Tail(posted), "readMessage"), {"doCloseSocket"})
        BY <1>2, <2>2, <4>3, HasOperations
      <4>5. Has(posted', {"doCloseSocket"})
        BY <2>4, <4>3, <4>4 DEF GoesOn, Has
      <4>q. QED
        BY <4>5 DEF GoingDown, Has
    <3>q. QED
      BY <1>6, <3>3, <3>4 DEF LinkInv, Up, Down
  <2>q. QED
    BY <1>4, <2>1, <2>3, <2>4 DEF ThreadMoves
<1>7. CASE Down
  <2>1. posted \in Seq(DownCall)
    BY <1>7 DEF Down
  <2>2. GoesOn /\ socket' = "unconnected"
    BY <1>4, <1>7, <2>1 DEF ThreadMoves, Closes, GoesOn, Down
  <2>3. posted' \in Seq(DownCall)
    BY <1>2, <1>4, <2>1, <2>2, SequenceOperations DEF GoesOn
  <2>4. ToldOfEnd => ToldOfEnd'
    <3> SUFFICES ASSUME Has(posted, {"slotSocketDisconnected"})
                 PROVE  ToldOfEnd'
      BY <1>5 DEF ToldOfEnd
    <3>1. CASE Head(posted) = "slotSocketDisconnected"
      <4>1. SlotSocketDisconnected
        BY <1>1, <1>4, <2>1, <3>1 DEF HandlePosted, ThreadInit, Reconnect, WriteDataQueue, DoCloseSocket,
           ReadMessage, SetUseProxyInternal, DoStartSsl, DoSslErrorHandlerResponse, Take
      <4>2. Has(Append(events, [sig |-> "socketDisconnected"]), DownNews)
        <5>1. [sig |-> "socketDisconnected"] \in Signal /\ [sig |-> "socketDisconnected"] \in DownNews
          BY DEF Signal, DownNews
        <5>q. QED
          BY <1>1, <5>1, HasOperations
      <4>3. Has(events', DownNews)
        BY <4>1, <4>2 DEF SlotSocketDisconnected, Emit, Has
      <4>q. QED
        BY <4>3 DEF ToldOfEnd
    <3>2. CASE Head(posted) # "slotSocketDisconnected"
      <4>1. Has(Tail(posted), {"slotSocketDisconnected"})
        BY <1>1, <1>4, <2>1, <3>2, HasOperations
      <4>2. Has(Append(Tail(posted), "readMessage"), {"slotSocketDisconnected"})
        BY <1>2, <1>4, <2>1, <4>1, HasOperations
      <4>3. Has(posted', {"slotSocketDisconnected"})
        BY <2>2, <4>1, <4>2 DEF GoesOn, Has
      <4>q. QED
        BY <4>3 DEF ToldOfEnd
    <3>q. QED
      BY <3>1, <3>2
  <2>5. Down'
    BY <1>5, <1>7, <2>2, <2>3, <2>4 DEF Down
  <2>6. isSocketConnected => GoingDown'
    <3>1. events' \in Seq(Signal)
      BY ConnectionNextKeeps DEF Next, ConnectionInv, LinkTypeOK
    <3>q. QED
      BY <1>7, <2>4, <3>1, NewsOfEnd DEF Down, ToldOfEnd, GoingDown, Has
  <2>q. QED
    BY <1>5, <2>5, <2>6 DEF LinkInv
<1>q. QED
  BY <1>3, <1>6, <1>7 DEF LinkInv

(* The socket connects or fails, or is lost; the server only sends.        *)
LEMMA OthersKeepLink ==
  ASSUME ConnectionInv, LinkInv, Socket \/ Server
  PROVE  /\ LinkInv'
         /\ Down /\ ~isSocketConnected /\ ~Told => Down' /\ ~Told'
         /\ isSocketConnected /\ GoingDown => GoingDown'
<1>1. /\ UNCHANGED <<sessionVars, settings>> /\ UNCHANGED isSocketConnected
      /\ posted \in Seq(Call) /\ events \in Seq(Signal)
  BY DEF Socket, Server, ConnectionInv, LinkTypeOK, sessionVars
<1>2. /\ FirstCall \subseteq UpCall /\ UpCall \subseteq DownCall
      /\ UpCall \subseteq LateCall /\ DownCall \subseteq LateCall
      /\ "slotSocketDisconnected" \in DownCall /\ "readMessage" \in UpCall
      /\ QuietSignal \subseteq LateSignal /\ QuietSignal \cap DownNews = {}
  BY DEF FirstCall, UpCall, DownCall, Call, LateCall, QuietSignal, LateSignal, DownNews
<1>3. CASE ToConnect /\ ~isSocketConnected
  <2>1. /\ Connected \/ ConnectFailed
        /\ socket = "connecting" /\ posted \in Seq(FirstCall) /\ events = <<>>
    BY <1>3 DEF Socket, SocketStep, Connected, ConnectFailed, SslConnected, RemoteClose, ToConnect,
       Server, ServerStep, Greet, Answer, SendUnsolicited, SendLineFeed, CanSend
  <2>2. /\ posted \in Seq(UpCall) /\ posted \in Seq(DownCall)
    BY <1>2, <2>1, SeqMonotonic
  <2>3. \A e : Append(events, e) = <<e>> /\ <<e>> # <<>> /\ Tail(<<e>>) = <<>> /\ Head(<<e>>) = e
    BY <2>1
  <2>4. ~Down
    BY <2>1 DEF Down
  <2>5. CASE Connected
    <3>1. events' = <<[sig |-> "socketConnected"]>> /\ [sig |-> "socketConnected"] \in Signal \ DownNews
      BY <2>3, <2>5 DEF Connected, Emit, Signal, DownNews
    <3>2. Once' /\ Told' /\ events' \in Seq(Signal \ DownNews)
      BY <2>3, <3>1, SequenceOperations DEF Once, Told
    <3>3. CASE Drop /\ Post("slotSocketDisconnected")
      <4>1. posted' \in Seq(DownCall)
        BY <1>2, <2>2, <3>3, SequenceOperations DEF Post
      <4>2. Has(posted', {"slotSocketDisconnected"})
        <5>1. Has(Append(posted, "slotSocketDisconnected"), {"slotSocketDisconnected"})
          BY <1>2, <2>2, HasOperations
        <5>q. QED
          BY <3>3, <5>1 DEF Post, Has
      <4>q. QED
        BY <1>1, <1>3, <2>4, <3>2, <3>3, <4>1, <4>2 DEF Down, Drop, ToldOfEnd, LinkInv
    <3>4. CASE socket' = "connected" /\ UNCHANGED posted
      BY <1>1, <1>3, <2>2, <2>4, <3>2, <3>4 DEF Up, LinkInv
    <3>q. QED
      BY <2>5, <3>3, <3>4 DEF Connected
  <2>6. CASE ConnectFailed
    <3>1. events' = <<[sig |-> "socketError"]>>
      BY <2>3, <2>6 DEF ConnectFailed, Emit
    <3>2. Once' /\ ~Told'
      BY <2>3, <3>1, SequenceOperations DEF Once, Told
    <3>q. QED
      BY <1>1, <1>3, <2>2, <2>4, <2>6, <3>2 DEF ConnectFailed, Drop, Down, LinkInv
  <2>q. QED
    BY <2>1, <2>5, <2>6
<1>4. CASE Up
  <2>1. Settled /\ ~Down
    BY <1>2, <1>4, SeqMonotonic DEF Up, Down, Settled
  <2>2. Grows(QuietSignal)
    BY <2>1, SocketSettles, ServerSettles
  <2>3. /\ Told' <=> Told
        /\ events' \in Seq(Signal \ DownNews)
        /\ Has(events, DownNews) => Has(events', DownNews)
    BY <1>2, <1>4, <2>2, SameHead DEF Up
  <2>4. Once'
    BY <1>1, <1>2, <1>4, <2>2, GrowsOperations, OnceOperations DEF Up
  <2>5. CASE SslConnected
    <3>1. UNCHANGED <<socket, posted>>
      BY <2>5 DEF SslConnected
    <3>2. Up'
      BY <1>1, <1>4, <2>3, <2>4, <3>1 DEF Up
    <3>3. GoingDown => GoingDown'
      BY <1>4, <3>1, GoingDownMeaning DEF GoingDown, Has
    <3>q. QED
      BY <2>1, <3>2, <3>3 DEF LinkInv
  <2>6. CASE RemoteClose
    <3>1. Drop /\ posted' = Append(posted, "slotSocketDisconnected")
      BY <2>6 DEF RemoteClose, Post
    <3>2. posted \in Seq(DownCall)
      BY <1>2, <1>4, SeqMonotonic DEF Up
    <3>3. posted' \in Seq(DownCall)
      BY <1>2, <3>1, <3>2, SequenceOperations
    <3>4. Has(posted', {"slotSocketDisconnected"})
      <4>1. Has(Append(posted, "slotSocketDisconnected"), {"slotSocketDisconnected"})
        BY <1>2, <3>2, HasOperations
      <4>q. QED
        BY <3>1, <4>1 DEF Has
    <3>5. Down' /\ GoingDown'
      BY <2>4, <3>1, <3>3, <3>4 DEF Down, Drop, ToldOfEnd, GoingDown, Has
    <3>q. QED
      BY <2>1, <3>5 DEF LinkInv
  <2>7. CASE Server
    <3>1. UNCHANGED socket /\ posted' = Append(posted, "readMessage")
      BY <2>7, ServerSettles DEF Post
    <3>2. posted' \in Seq(UpCall)
      BY <1>2, <1>4, <3>1, SequenceOperations DEF Up
    <3>3. Up'
      BY <1>1, <1>4, <2>3, <2>4, <3>1, <3>2 DEF Up
    <3>4. GoingDown => GoingDown'
      <4>1. Has(posted, {"doCloseSocket"}) => Has(Append(posted, "readMessage"), {"doCloseSocket"})
        BY <1>1, <1>2, <1>4, HasOperations DEF Up
      <4>q. QED
        BY <1>4, <3>1, <4>1, GoingDownMeaning DEF GoingDown, Has
    <3>q. QED
      BY <2>1, <3>3, <3>4 DEF LinkInv
  <2>q. QED
    BY <1>4, <2>5, <2>6, <2>7 DEF Socket, SocketStep, Connected, ConnectFailed, Up
<1>5. ~Down
  BY DEF Socket, SocketStep, Connected, ConnectFailed, SslConnected, RemoteClose, Down,
     Server, ServerStep, Greet, Answer, SendUnsolicited, SendLineFeed, CanSend
<1>q. QED
  BY <1>3, <1>4, <1>5 DEF LinkInv

-----------------------------------------------------------------------------
(* What the operations on the timer do to it.                              *)
LEMMA TimerValues ==
  ASSUME NEW t \in SoundTimer, NEW ms \in Int
  PROVE  /\ StopTimer(t).interval = t.interval
         /\ RestartTimer(t).interval = t.interval
         /\ RestartTimer(t).active <=> t.interval >= 0
         /\ SetSocketTimeout(t, ms).interval = ms
         /\ t.active /\ ms >= 0 => SetSocketTimeout(t, ms).active
         /\ t.active => t.interval >= 0
<1>1. t \in TimerType /\ t.interval \in Int /\ t.active \in BOOLEAN /\ (t.active => t.interval >= 0)
  BY DEF SoundTimer, TimerType
<1>2. ASSUME NEW u \in TimerType
      PROVE  /\ StartTimer(u) \in TimerType /\ StopTimer(u) \in TimerType
             /\ StartTimer(u).interval = u.interval /\ StopTimer(u).interval = u.interval
             /\ StartTimer(u).active <=> u.active \/ u.interval >= 0
             /\ StopTimer(u).active <=> u.active /\ u.interval < 0
  BY DEF StartTimer, StopTimer, TimerType
<1>3. /\ RestartTimer(t).interval = t.interval
      /\ RestartTimer(t).active <=> t.interval >= 0
  BY <1>1, <1>2 DEF RestartTimer
<1>4. /\ SetSocketTimeout(t, ms).interval = ms
      /\ t.active /\ ms >= 0 => SetSocketTimeout(t, ms).active
  <2>1. CASE t.active
    <3> DEFINE u == [StopTimer(t) EXCEPT !.interval = ms]
    <3>1. u \in TimerType /\ u.interval = ms
      BY <1>1, <1>2 DEF TimerType
    <3>2. SetSocketTimeout(t, ms) = StartTimer(u)
      BY <2>1 DEF SetSocketTimeout
    <3> HIDE DEF u
    <3>q. QED
      BY <1>2, <3>1, <3>2
  <2>2. CASE ~t.active
    BY <1>1, <2>2 DEF SetSocketTimeout, TimerType
  <2>q. QED
    BY <2>1, <2>2
<1>q. QED
  BY <1>1, <1>2, <1>3, <1>4

(* The application stops only what has begun, and an IDLE that was told to *)
(* stop brings the interval back.                                          *)
Unstopped(jobs) == \A j \in Jobs : jobs[j].phase \in {"new", "queued"} => ~jobs[j].stopped

(* The current job is watched, or the timer is ready for the next.         *)
Tended ==
  \/ currentJob = NoJob /\ (timer.interval >= 0 \/ jobRunning)
  \/ /\ currentJob # NoJob
     /\ job[currentJob].phase = "started"
     /\ Kind[currentJob] = "idle" => job[currentJob].saved >= 0
     /\ timer.active \/ (Kind[currentJob] = "idle" /\ ~job[currentJob].stopped)

(* doStart() keeps the interval for the end of an IDLE, and otherwise the  *)
(* timer runs.                                                             *)
LEMMA DoStartWatches ==
  ASSUME NEW j \in Jobs, NEW jobs \in [Jobs -> JobRecord], NEW pt, NEW t \in SoundTimer,
         tagCount \in CommandTag, DoStart(j, jobs, pt, RestartTimer(t))
  PROVE  /\ \A k \in Jobs \ {j} : job'[k] = jobs[k]
         /\ job'[j].phase = "started" /\ job'[j].stopped = jobs[j].stopped
         /\ t.interval >= 0 => IF Kind[j] = "idle" THEN job'[j].saved >= 0 ELSE timer'.active
<1>1. RestartTimer(t).interval = t.interval /\ (RestartTimer(t).active <=> t.interval >= 0)
  BY TimerValues, 0 \in Int
<1> DEFINE tags == IF FirstCommand(j) = "none" THEN jobs[j].tags ELSE jobs[j].tags \cup {NextTag}
           saved == IF Kind[j] = "idle" THEN RestartTimer(t).interval ELSE jobs[j].saved
           rec == [jobs[j] EXCEPT !.phase = "started", !.step = FirstStep(j),
                                  !.tags = tags, !.saved = saved]
<1>2. rec.phase = "started" /\ rec.stopped = jobs[j].stopped /\ rec.saved = saved
  BY DEF JobRecord
<1>3. job' = [jobs EXCEPT ![j] = rec]
  BY DEF DoStart
<1> HIDE DEF rec
<1>4. job'[j] = rec /\ \A k \in Jobs \ {j} : job'[k] = jobs[k]
  BY <1>3
<1>5. Kind[j] # "idle" => timer' = RestartTimer(t)
  BY DEF DoStart
<1>q. QED
  BY <1>1, <1>2, <1>4, <1>5

(* doStartNext() watches the job it starts.                                *)
LEMMA StartNextTends ==
  ASSUME NEW q \in Seq(Jobs), NEW cur, NEW jobs \in [Jobs -> JobRecord], NEW st, NEW pt,
         NEW t \in SoundTimer, tagCount \in CommandTag,
         Startable(q, cur, jobs), Unstopped(jobs),
         StartNext(q, cur, jobs, st, pt, t)
  PROVE  /\ Unstopped(job')
         /\ cur = NoJob /\ t.interval >= 0 => Tended'
<1> DEFINE Refusing(n) == {q[i] : i \in 1..n}
           Jobs2(n) == [j \in Jobs |-> IF j \in Refusing(n) THEN Ended(jobs[j], TRUE) ELSE jobs[j]]
           Timer2(n) == IF n = 0 THEN t ELSE StopTimer(RestartTimer(t))
           NoneLeft(n) == /\ n = Len(q)
                          /\ queue' = <<>>
                          /\ jobRunning' = FALSE
                          /\ currentJob' = IF n = 0 THEN cur ELSE NoJob
                          /\ job' = Jobs2(n)
                          /\ timer' = Timer2(n)
                          /\ NoCommand(pt)
           Starts(n) == /\ n < Len(q)
                        /\ queue' = SubSeq(q, n + 2, Len(q))
                        /\ jobRunning' = TRUE
                        /\ currentJob' = q[n + 1]
                        /\ DoStart(q[n + 1], Jobs2(n), pt, RestartTimer(Timer2(n)))
<1>1. PICK n \in 0..Len(q) : NoneLeft(n) \/ Starts(n)
  BY DEF StartNext
<1>2. Len(q) \in Nat /\ DOMAIN q = 1..Len(q) /\ \A i \in 1..Len(q) : q[i] \in Jobs
  BY LenProperties, ElementOfSeq
<1>3. Jobs2(n) \in [Jobs -> JobRecord]
  BY JobOperations
<1>4. Unstopped(Jobs2(n))
  <2>1. \A j \in Jobs : Ended(jobs[j], TRUE).phase = "done"
    BY JobOperations
  <2>q. QED
    BY <2>1 DEF Unstopped
<1>5. Timer2(n) \in SoundTimer /\ Timer2(n).interval = t.interval
  <2>1. RestartTimer(t) \in SoundTimer /\ RestartTimer(t).interval = t.interval
    BY TimerOperations, TimerValues, 0 \in Int
  <2>2. StopTimer(RestartTimer(t)) \in SoundTimer /\ StopTimer(RestartTimer(t)).interval = t.interval
    BY <2>1, TimerOperations, TimerValues, 0 \in Int
  <2>3. CASE n = 0
    BY <2>3
  <2>4. CASE n # 0
    BY <2>2, <2>4
  <2>q. QED
    BY <2>3, <2>4
<1> HIDE DEF Timer2
<1>6. CASE NoneLeft(n)
  BY <1>4, <1>5, <1>6 DEF Tended
<1>7. CASE Starts(n)
  <2> DEFINE next == q[n + 1]
  <2>1. next \in Jobs /\ next # NoJob /\ next \in ToSet(q)
    BY <1>2, <1>7, LinkAssumption DEF ToSet
  <2>2. jobs[next].phase = "queued" /\ ~jobs[next].stopped
    BY <2>1 DEF Startable, Unstopped
  <2>3. ~Jobs2(n)[next].stopped
    BY <2>1, <2>2 DEF Ended, JobRecord
  <2> HIDE DEF Jobs2
  <2>4. /\ \A k \in Jobs \ {next} : job'[k] = Jobs2(n)[k]
        /\ job'[next].phase = "started" /\ ~job'[next].stopped
        /\ t.interval >= 0 => IF Kind[next] = "idle" THEN job'[next].saved >= 0 ELSE timer'.active
        /\ currentJob' = next
    BY <1>3, <1>5, <1>7, <2>1, <2>3, DoStartWatches
  <2> HIDE DEF next
  <2>5. Unstopped(job')
    BY <1>4, <2>4 DEF Unstopped
  <2>6. t.interval >= 0 => Tended'
    BY <2>1, <2>4 DEF Tended
  <2>q. QED
    BY <2>5, <2>6
<1>q. QED
  BY <1>1, <1>6, <1>7

(* The end of the current job brings the interval back that an IDLE took   *)
(* away, and the next job is watched with it.                              *)
LEMMA FinishTends ==
  ASSUME RunTypeOK, QueueSound, Unstopped(job), NEW j \in Jobs, j = currentJob,
         NEW failed \in BOOLEAN, NEW st, NEW pt, Finish(j, failed, st, pt)
  PROVE  Unstopped(job') /\ (Tended => Tended')
<1>1. PICK late \in FromSlot :
        StartNext(queue \o late, NoJob, JobsLeft(j, failed, late), st, pt, TimerLeft(j))
  BY DEF Finish, JobsLeft, TimerLeft
<1>2. Unstopped(JobsLeft(j, failed, late))
  BY FinishLeaves DEF Unstopped
<1>3. Tended => TimerLeft(j).interval >= 0
  <2> SUFFICES ASSUME Tended PROVE TimerLeft(j).interval >= 0
    OBVIOUS
  <2>1. /\ timer \in SoundTimer /\ RestartTimer(timer) \in SoundTimer
        /\ RestartTimer(timer).interval = timer.interval
        /\ timer.active => timer.interval >= 0
    BY TimerOperations, TimerValues, 0 \in Int DEF RunTypeOK
  <2>2. j # NoJob /\ job[j].saved \in Int
    BY LinkAssumption DEF RunTypeOK, JobRecord
  <2>3. AfterResult(j, RestartTimer(timer)) \in SoundTimer
    BY <2>1, <2>2, TimerOperations DEF AfterResult
  <2>4. AfterResult(j, RestartTimer(timer)).interval >= 0
    <3>1. CASE Kind[j] = "idle"
      <4>1. AfterResult(j, RestartTimer(timer)).interval = job[j].saved
        BY <2>1, <2>2, <3>1, TimerValues DEF AfterResult
      <4>q. QED
        BY <2>2, <3>1, <4>1 DEF Tended
    <3>2. CASE Kind[j] # "idle"
      BY <2>1, <2>2, <3>2 DEF AfterResult, Tended
    <3>q. QED
      BY <3>1, <3>2
  <2>q. QED
    BY <2>3, <2>4, TimerValues, 0 \in Int DEF TimerLeft
<1>q. QED
  BY <1>1, <1>2, <1>3, FinishLeaves, StartNextTends DEF RunTypeOK

(* Nothing is lost by a step that neither starts nor ends a job, and only  *)
(* restarts the timer.                                                     *)
SameJobs == \A k \in Jobs : /\ job'[k].phase = job[k].phase
                            /\ job'[k].stopped = job[k].stopped
                            /\ job'[k].saved = job[k].saved

(* Restarting the timer tends whatever was tended.                         *)
LEMMA RestartTends ==
  ASSUME RunTypeOK, UNCHANGED <<currentJob, jobRunning>>, SameJobs,
         timer' = timer \/ timer' = RestartTimer(timer)
  PROVE  /\ Unstopped(job) => Unstopped(job')
         /\ Tended => Tended'
         /\ timer'.interval = timer.interval
<1>1. /\ RestartTimer(timer).interval = timer.interval
      /\ timer.active => RestartTimer(timer).active
  BY TimerValues, 0 \in Int DEF RunTypeOK
<1>2. Unstopped(job) => Unstopped(job')
  BY DEF Unstopped, SameJobs
<1>3. Tended => Tended'
  BY <1>1 DEF Tended, SameJobs, RunTypeOK
<1>q. QED
  BY <1>1, <1>2, <1>3

(* The next command of a job restarts the timer and changes nothing else   *)
(* the watch depends on.                                                   *)
LEMMA ContinueTends ==
  ASSUME RunTypeOK, NEW j \in Jobs, NEW verb, NEW step, NEW pt, Continue(j, verb, step, pt)
  PROVE  /\ UNCHANGED <<currentJob, jobRunning>> /\ SameJobs
         /\ timer' = RestartTimer(timer)
<1> DEFINE rec == [job[j] EXCEPT !.step = step, !.tags = @ \cup {NextTag}]
<1>1. rec.phase = job[j].phase /\ rec.stopped = job[j].stopped /\ rec.saved = job[j].saved
  BY DEF RunTypeOK, JobRecord
<1>2. job' = [job EXCEPT ![j] = rec]
  BY DEF Continue
<1> HIDE DEF rec
<1>3. SameJobs
  BY <1>1, <1>2 DEF RunTypeOK, SameJobs
<1>q. QED
  BY <1>3 DEF Continue

(* A response that the current job handles.                                *)
LEMMA HandleResponseTends ==
  ASSUME RunTypeOK, QueueSound, Unstopped(job), NEW j \in Jobs, j = currentJob, NEW r, NEW st,
         NEW pt, HandleResponse(j, r, st, pt)
  PROVE  Unstopped(job') /\ (Tended => Tended')
<1>1. CASE \E failed \in BOOLEAN : Finish(j, failed, st, pt)
  BY <1>1, FinishTends
<1>2. CASE \E verb, step : Continue(j, verb, step, pt)
  BY <1>2, ContinueTends, RestartTends
<1>3. CASE timer' = RestartTimer(timer) /\ UNCHANGED runVars
  <2>1. SameJobs /\ UNCHANGED <<currentJob, jobRunning>>
    BY <1>3 DEF runVars, SameJobs
  <2>q. QED
    BY <1>3, <2>1, RestartTends
<1>q. QED
  BY <1>1, <1>2, <1>3 DEF HandleResponse, LoginResponse, PlainResponse, LoginStep, Ignored

-----------------------------------------------------------------------------
(* The stages of the watch.  There is no job to watch, and the interval of *)
(* the timer is in place; the session is over; the connection is going     *)
(* down; or the current job is watched.                                    *)
Waits == ~isSocketConnected /\ currentJob = NoJob /\ timer.interval >= 0
Over == Down /\ ~isSocketConnected /\ ~Told /\ currentJob = NoJob
Falling == isSocketConnected /\ GoingDown
Watched == isSocketConnected /\ Tended
Watch == Waits \/ Over \/ Falling \/ Watched

JobsFollow == /\ \A j \in Jobs : job[j].phase = "started" => state # "Disconnected"
              /\ Unstopped(job)

TimedInv == /\ Alive => LinkInv /\ JobsFollow /\ Watch
            /\ ~Alive => \A j \in Jobs : job[j].phase # "started"

(* At each stage a running job is timed.                                   *)
LEMMA TimedInvMeaning ==
  ASSUME ConnectionInv, TimedInv
  PROVE  RunningJobIsTimed
<1> SUFFICES ASSUME NEW j \in Jobs, job[j].phase = "started",
                    Kind[j] = "idle" => job[j].stopped /\ job[j].saved >= 0
             PROVE  timer.active \/ GoingDown
  BY DEF RunningJobIsTimed
<1>1. Watch /\ currentJob = j /\ j # NoJob
  BY LinkAssumption DEF TimedInv, ConnectionInv, SessionInv, QueueSound
<1>q. QED
  BY <1>1 DEF Watch, Waits, Over, Falling, Watched, Tended

(* The three kinds of steps that keep a stage: what is left to show of a   *)
(* handler is that it keeps the jobs and their watch.                      *)
LEMMA WatchKept ==
  ASSUME LinkInv',
         Down /\ ~isSocketConnected /\ ~Told => Down' /\ ~Told',
         isSocketConnected /\ GoingDown => GoingDown',
         UNCHANGED <<isSocketConnected, sessionVars>>, Watch, JobsFollow
  PROVE  LinkInv' /\ JobsFollow' /\ Watch'
BY DEF Watch, Waits, Over, Falling, Watched, Tended, JobsFollow, Unstopped, sessionVars

(* The secondary thread, the socket and the server keep the session        *)
(* watched.                                                                *)
LEMMA OthersKeepWatch ==
  ASSUME ConnectionInv, TimedInv, SecondaryThread \/ Socket \/ Server
  PROVE  TimedInv'
<1>1. UNCHANGED <<sessionVars, settings>> /\ UNCHANGED isSocketConnected
  BY DEF SecondaryThread, Socket, Server, sessionVars
<1>2. CASE Alive
  <2>1. LinkInv' /\ JobsFollow' /\ Watch'
    BY <1>1, <1>2, SecondaryThreadKeepsLink, OthersKeepLink, WatchKept DEF TimedInv
  <2>2. Alive'
    BY <1>1, <1>2 DEF Alive
  <2>q. QED
    BY <2>1, <2>2 DEF TimedInv
<1>3. CASE ~Alive
  BY <1>1, <1>3 DEF TimedInv, Alive, sessionVars
<1>q. QED
  BY <1>2, <1>3

(* The step of a handler that leaves the session connected or not: no job  *)
(* becomes the current one without a connection, and with one the watch    *)
(* goes on, or the socket is closed.                                       *)
WatchMoves ==
  /\ UNCHANGED isSocketConnected
  /\ ~isSocketConnected /\ currentJob = NoJob =>
       currentJob' = NoJob /\ (timer.interval >= 0 => timer'.interval >= 0)
  /\ isSocketConnected /\ Tended => Tended' \/ GoingDown'
  /\ JobsFollow'

(* What moves from one stage of the watch to another keeps it.             *)
LEMMA MovesKeepWatch ==
  ASSUME ConnectionInv, LinkInv, Watch, MaxSettings.proxy = 0, Alive',
         Application \/ Timeout \/ MainThread, WatchMoves
  PROVE  LinkInv' /\ JobsFollow' /\ Watch'
BY MainThreadKeepsLink DEF Watch, Waits, Over, Falling, Watched, WatchMoves

(* A handler that only restarts the timer.                                 *)
LEMMA RestartMoves ==
  ASSUME RunTypeOK, JobsFollow, UNCHANGED <<currentJob, jobRunning, isSocketConnected>>, SameJobs,
         timer' = timer \/ timer' = RestartTimer(timer),
         state # "Disconnected" => state' # "Disconnected"
  PROVE  WatchMoves
<1>1. JobsFollow'
  BY RestartTends DEF JobsFollow, SameJobs
<1>q. QED
  BY <1>1, RestartTends DEF WatchMoves

(* A handler that starts a job, if one waits, when none runs.              *)
LEMMA StartMoves ==
  ASSUME RunTypeOK, QueueSound, CanStart, UNCHANGED isSocketConnected, state' # "Disconnected",
         NEW q \in Seq(Jobs), NEW jobs \in [Jobs -> JobRecord], NEW st, NEW pt, NEW t \in SoundTimer,
         Startable(q, currentJob, jobs), Unstopped(jobs), t.interval = timer.interval,
         StartNext(q, currentJob, jobs, st, pt, t)
  PROVE  WatchMoves
<1>1. Tended => currentJob = NoJob /\ t.interval >= 0
  <2>1. currentJob # NoJob => job[currentJob].phase # "started"
    BY DEF RunTypeOK, QueueSound, CanStart
  <2>q. QED
    BY <2>1 DEF Tended, CanStart
<1>2. Unstopped(job') /\ (Tended => Tended')
  BY <1>1, StartNextTends DEF RunTypeOK
<1>3. JobsFollow'
  BY <1>2 DEF JobsFollow
<1>q. QED
  BY <1>2, <1>3 DEF WatchMoves, CanStart

(* responseReceived(): the greeting starts the first job, a later response *)
(* goes to the current one.                                                *)
LEMMA ResponseMoves ==
  ASSUME ConnectionInv, JobsFollow, Watch, ResponseReceived
  PROVE  WatchMoves
<1>1. /\ RunTypeOK /\ QueueSound /\ UNCHANGED isSocketConnected
      /\ StopTimer(timer) \in SoundTimer /\ StopTimer(timer).interval = timer.interval
  BY TimerOperations, TimerValues, 0 \in Int DEF ResponseReceived, ConnectionInv, SessionInv, RunTypeOK
<1> DEFINE r == Head(events).response
           pt == ClearTags(pendingTag, r.tag)
<1>2. CASE UNCHANGED <<runVars, mailVars, timer>>
  <2>1. SameJobs
    BY <1>2 DEF SameJobs, runVars
  <2>q. QED
    BY <1>1, <1>2, <2>1, RestartMoves DEF runVars, mailVars
<1>3. CASE state = "Disconnected" /\ Greeting(r)
  <2>1. currentJob # NoJob => job[currentJob].phase # "started"
    BY <1>1, <1>3 DEF JobsFollow, RunTypeOK
  <2>2. CASE CanStart /\ StartNext(queue, currentJob, job, state', pendingTag, StopTimer(timer))
             /\ state' # "Disconnected"
    <3>1. Startable(queue, currentJob, job)
      BY <1>1, <1>3 DEF QueueSound, Waiting, Pending, Startable, RunTypeOK, JobsFollow
    <3>q. QED
      BY <1>1, <2>2, <3>1, StartMoves DEF JobsFollow, RunTypeOK
  <2>3. CASE /\ timer' = StopTimer(timer) /\ UNCHANGED runVars
             /\ state' # "Disconnected" \/ UNCHANGED state
    <3>1. JobsFollow'
      BY <1>3, <2>3 DEF JobsFollow, Unstopped, runVars
    <3>2. Tended => Tended'
      BY <1>1, <2>1, <2>3 DEF Tended, runVars
    <3>q. QED
      BY <1>1, <2>3, <3>1, <3>2 DEF WatchMoves, runVars
  <2>q. QED
    BY <1>3, <2>2, <2>3 DEF Greeting
<1>4. CASE state # "Disconnected" /\ state' = NextState(r) /\ currentJob # NoJob
           /\ HandleResponse(currentJob, r, state', pt)
  <2>1. state' # "Disconnected"
    BY <1>4 DEF NextState
  <2>2. Unstopped(job') /\ (Tended => Tended')
    BY <1>1, <1>4, HandleResponseTends DEF JobsFollow, RunTypeOK
  <2>3. isSocketConnected
    BY <1>4 DEF Watch, Waits, Over, Falling, Watched
  <2>q. QED
    BY <1>1, <2>1, <2>2, <2>3 DEF WatchMoves, JobsFollow
<1>5. CASE state # "Disconnected" /\ state' = NextState(r) /\ UNCHANGED <<runVars, timer>>
  <2>1. state' # "Disconnected" /\ SameJobs
    BY <1>5 DEF NextState, SameJobs, runVars
  <2>q. QED
    BY <1>1, <1>5, <2>1, RestartMoves DEF runVars
<1>q. QED
  BY <1>2, <1>3, <1>4, <1>5 DEF ResponseReceived

(* A job that joins the queue is started at once, or waits.                *)
LEMMA AddJobMoves ==
  ASSUME SessionInv, JobsFollow, NEW j \in Jobs, AddJob(j)
  PROVE  WatchMoves
<1> DEFINE jobs == Enqueued(job, <<j>>)
           q == Append(queue, j)
<1>1. RunTypeOK /\ QueueSound /\ job[j].phase = "new" /\ UNCHANGED <<isSocketConnected, state>>
  BY DEF AddJob, SessionInv, mailVars
<1>2. /\ q \in Seq(Jobs) /\ jobs \in [Jobs -> JobRecord]
      /\ \A k \in Jobs \ {j} : jobs[k] = job[k]
      /\ jobs[j].phase = "queued" /\ jobs[j].stopped = job[j].stopped
      /\ CanStart => Startable(q, currentJob, jobs)
  BY <1>1, AddJobLeaves
<1> HIDE DEF jobs, q
<1>3. Unstopped(jobs)
  BY <1>1, <1>2 DEF JobsFollow, Unstopped
<1>4. CASE /\ state # "Disconnected" /\ CanStart
           /\ StartNext(q, currentJob, jobs, state, pendingTag, timer)
  BY <1>1, <1>2, <1>3, <1>4, StartMoves DEF RunTypeOK
<1>5. CASE job' = jobs /\ UNCHANGED <<jobRunning, currentJob, timer>>
  <2>1. JobsFollow'
    BY <1>1, <1>2, <1>3, <1>5 DEF JobsFollow
  <2>2. currentJob # NoJob => currentJob \in Jobs \ {j}
    BY <1>1 DEF RunTypeOK, QueueSound, Pending
  <2>3. Tended => Tended'
    BY <1>2, <1>5, <2>2 DEF Tended
  <2>q. QED
    BY <1>1, <1>5, <2>1, <2>3 DEF WatchMoves
<1>q. QED
  BY <1>4, <1>5 DEF AddJob, jobs, q

(* A deleted job need not be watched any more.                             *)
LEMMA DeleteJobMoves ==
  ASSUME SessionInv, JobsFollow, NEW j \in Jobs, DeleteJob(j)
  PROVE  WatchMoves
<1>1. /\ RunTypeOK /\ QueueSound
      /\ UNCHANGED <<isSocketConnected, state, timer, jobRunning>>
      /\ currentJob' = IF currentJob = j THEN NoJob ELSE currentJob
  BY DEF DeleteJob, SessionInv, mailVars
<1>2. job'[j].phase = "deleted" /\ \A k \in Jobs \ {j} : job'[k] = job[k]
  <2> DEFINE rec == [job[j] EXCEPT !.phase = "deleted", !.tags = {}]
  <2>1. rec.phase = "deleted"
    BY <1>1 DEF RunTypeOK, JobRecord
  <2>2. job' = [job EXCEPT ![j] = rec]
    BY DEF DeleteJob
  <2> HIDE DEF rec
  <2>q. QED
    BY <1>1, <2>1, <2>2 DEF RunTypeOK
<1>3. JobsFollow'
  BY <1>1, <1>2 DEF JobsFollow, Unstopped
<1>4. Tended => Tended'
  <2>1. CASE currentJob = j
    <3>1. Tended => jobRunning
      BY <1>1, <2>1, LinkAssumption DEF Tended, QueueSound
    <3>q. QED
      BY <1>1, <2>1, <3>1 DEF Tended
  <2>2. CASE currentJob # j
    BY <1>1, <1>2, <2>2 DEF Tended, RunTypeOK
  <2>q. QED
    BY <2>1, <2>2
<1>q. QED
  BY <1>1, <1>3, <1>4 DEF WatchMoves

(* An IDLE that is told to stop is watched from then on.                   *)
LEMMA StopIdleMoves ==
  ASSUME SessionInv, JobsFollow, NEW j \in Jobs, StopIdle(j)
  PROVE  WatchMoves
<1>1. /\ RunTypeOK /\ QueueSound
      /\ UNCHANGED <<isSocketConnected, state, jobRunning, currentJob>>
      /\ currentJob = j /\ j # NoJob /\ Kind[j] = "idle" /\ job[j].phase = "started"
  BY LinkAssumption DEF StopIdle, SessionInv, mailVars, QueueSound
<1>2. /\ job'[j].phase = "started" /\ job'[j].saved = job[j].saved
      /\ \A k \in Jobs \ {j} : job'[k] = job[k]
  <2> DEFINE rec == [job[j] EXCEPT !.stopped = TRUE]
  <2>1. rec.phase = job[j].phase /\ rec.saved = job[j].saved
    BY <1>1 DEF RunTypeOK, JobRecord
  <2>2. job' = [job EXCEPT ![j] = rec]
    BY DEF StopIdle
  <2> HIDE DEF rec
  <2>q. QED
    BY <1>1, <2>1, <2>2 DEF RunTypeOK
<1>3. JobsFollow'
  BY <1>1, <1>2 DEF JobsFollow, Unstopped
<1>4. job[j].saved >= 0 => timer'.active
  <2>1. job[j].saved \in Int
    BY <1>1 DEF RunTypeOK, JobRecord
  <2>2. /\ SetSocketTimeout(timer, job[j].saved) \in SoundTimer
        /\ SetSocketTimeout(timer, job[j].saved).interval = job[j].saved
    BY <1>1, <2>1, TimerOperations, TimerValues DEF RunTypeOK
  <2>q. QED
    BY <2>2, TimerValues, 0 \in Int DEF StopIdle
<1>q. QED
  BY <1>1, <1>2, <1>3, <1>4 DEF WatchMoves, Tended

(* A new interval, which the running timer takes over.                     *)
LEMMA SetTimeoutMoves ==
  ASSUME SessionInv, JobsFollow, NEW ms \in Nat, SetTimeout(ms)
  PROVE  WatchMoves
<1>1. /\ timer'.interval = ms /\ (timer.active => timer'.active)
      /\ UNCHANGED <<isSocketConnected, state, jobRunning, currentJob, job>>
  BY TimerValues DEF SetTimeout, SessionInv, RunTypeOK, runVars, mailVars
<1>q. QED
  BY <1>1 DEF WatchMoves, Tended, JobsFollow, Unstopped

(* The socket is asked to close.                                           *)
LEMMA PostsClose ==
  ASSUME ConnectionInv, Post("doCloseSocket")
  PROVE  GoingDown'
<1>1. "doCloseSocket" \in Call /\ posted \in Seq(Call)
  BY DEF ConnectionInv, LinkTypeOK, Call
<1>2. Has(Append(posted, "doCloseSocket"), {"doCloseSocket"})
  BY <1>1, HasOperations
<1>q. QED
  BY <1>2 DEF Post, GoingDown, Has

(* What the application may call, and the timer.                           *)
LEMMA ApplicationKeepsWatch ==
  ASSUME ConnectionInv, TimedInv, MaxSettings.proxy = 0, AppTimeouts \subseteq Nat,
         Application \/ Timeout
  PROVE  TimedInv'
<1>1. LinkInv /\ JobsFollow /\ Watch /\ SessionInv
  BY DEF Application, Timeout, TimedInv, ConnectionInv
<1>2. CASE Destroy /\ Spend("destroy")
  <2>1. ~Alive'
    BY <1>2 DEF Spend, Alive, ConnectionInv, SettingsTypeOK
  <2>2. \A j \in Jobs : job'[j].phase # "started"
    <3>1. PICK late \in FromSlot : ClearJobQueue(queue \o late, StopTimer(timer))
      BY <1>2 DEF Destroy, ConnectionGone
    <3>2. QueueSound' /\ currentJob' = NoJob
      BY <1>1, <3>1, ClearJobQueueKeeps, TimerOperations, 0 \in Int DEF SessionInv, RunTypeOK
    <3>q. QED
      BY <3>2, LinkAssumption DEF QueueSound
  <2>q. QED
    BY <2>1, <2>2 DEF TimedInv
<1>3. CASE ~(Destroy /\ Spend("destroy"))
  <2>1. Alive'
    BY <1>3, ConnectionAssumption DEF Application, Timeout, Spend, Alive, ConnectionInv, SettingsTypeOK
  <2>2. ~Spend("proxy")
    BY DEF Spend, ConnectionInv, SettingsTypeOK
  <2>3. WatchMoves
    <3>1. CASE Timeout
      <4>1. /\ UNCHANGED <<isSocketConnected, state, jobRunning, currentJob, job>>
            /\ timer'.interval = timer.interval /\ Post("doCloseSocket")
        BY <1>1, <3>1 DEF Timeout, OnSocketTimeout, runVars, SessionInv, RunTypeOK, SoundTimer, TimerType
      <4>q. QED
        BY <1>1, <4>1, PostsClose DEF WatchMoves, JobsFollow, Unstopped
    <3>2. CASE Close
      BY <1>1, <3>2 DEF Close, sessionVars, WatchMoves, Tended, JobsFollow, Unstopped
    <3>q. QED
      BY <1>1, <1>3, <2>2, <3>1, <3>2, AddJobMoves, DeleteJobMoves, StopIdleMoves, SetTimeoutMoves,
         ConnectionAssumption DEF Application
  <2>q. QED
    BY <1>1, <2>1, <2>3, MovesKeepWatch DEF TimedInv
<1>q. QED
  BY <1>2, <1>3

(* The end of the connection or of the attempt ends every job.             *)
LEMMA ClearingEnds ==
  ASSUME SessionInv, JobsFollow, NEW late \in FromSlot, ClearJobQueue(queue \o late, StopTimer(timer))
  PROVE  JobsFollow' /\ currentJob' = NoJob
<1>1. RunTypeOK /\ QueueSound /\ StopTimer(timer) \in SoundTimer
  BY TimerOperations, 0 \in Int DEF SessionInv, RunTypeOK
<1>2. QueueSound' /\ currentJob' = NoJob
  BY <1>1, ClearJobQueueKeeps
<1>3. \A j \in Jobs : job'[j].phase \in {"new", "queued"} => job'[j] = job[j]
  <2>1. \A j \in Jobs : /\ Ended(job[j], Kind[j] # "logout").phase = "done"
                        /\ [job[j] EXCEPT !.phase = "deleted"].phase = "deleted"
    BY <1>1, JobOperations DEF RunTypeOK, JobRecord
  <2>q. QED
    BY <2>1 DEF ClearJobQueue
<1>4. JobsFollow'
  BY <1>2, <1>3, LinkAssumption DEF JobsFollow, Unstopped, QueueSound
<1>q. QED
  BY <1>2, <1>4

(* The signals of the secondary thread.                                    *)
LEMMA SignalsKeepWatch ==
  ASSUME ConnectionInv, TimedInv, MaxSettings.proxy = 0, MainThread
  PROVE  TimedInv'
<1>1. /\ LinkInv /\ JobsFollow /\ Watch /\ SessionInv /\ RunTypeOK /\ QueueSound
      /\ Alive' /\ HandleSignal
  BY DEF MainThread, TimedInv, ConnectionInv, SessionInv, Alive
<1>2. /\ LinkInv'
      /\ Down /\ ~isSocketConnected' => Down' /\ ~Told'
      /\ isSocketConnected /\ isSocketConnected' /\ GoingDown => GoingDown'
  BY <1>1, MainThreadKeepsLink
<1>3. /\ events # <<>> /\ Head(events) \in Signal /\ ~ToConnect
      /\ Up => Head(events).sig # "socketDisconnected"
  <2>1. events # <<>>
    BY <1>1, HandleSignalHands
  <2>2. Up => Head(events).sig # "socketDisconnected"
    BY <2>1, SequenceOperations DEF Up, DownNews
  <2>q. QED
    BY <2>1, <2>2, SequenceOperations DEF ToConnect, ConnectionInv, LinkTypeOK
<1>4. SUFFICES (JobsFollow' /\ Watch') \/ WatchMoves
  BY <1>1, <1>2, MovesKeepWatch DEF TimedInv
<1>5. CASE SocketConnected
  <2>1. /\ isSocketConnected' /\ Told
        /\ (timer' = StopTimer(timer) /\ state = "Disconnected") \/ timer' = RestartTimer(timer)
        /\ UNCHANGED <<state, jobRunning, currentJob, job>>
    BY <1>5 DEF SocketConnected, Receive, Told, runVars, mailVars
  <2>2. JobsFollow'
    BY <1>1, <2>1 DEF JobsFollow, Unstopped
  <2>3. timer'.interval = timer.interval
    BY <1>1, <2>1, TimerValues, 0 \in Int DEF RunTypeOK
  <2>4. CASE ~isSocketConnected
    <3>1. Watched'
      BY <1>1, <2>1, <2>3, <2>4 DEF Watch, Waits, Over, Falling, Watched, Tended
    <3>q. QED
      BY <2>2, <3>1 DEF Watch
  <2>5. CASE isSocketConnected
    <3>1. Tended => Tended'
      <4>1. timer' = RestartTimer(timer) => (timer.active => timer'.active)
        BY <1>1, TimerValues, 0 \in Int DEF RunTypeOK
      <4>2. state = "Disconnected" /\ currentJob # NoJob => job[currentJob].phase # "started"
        BY <1>1 DEF JobsFollow, RunTypeOK
      <4>q. QED
        BY <2>1, <2>3, <4>1, <4>2 DEF Tended
    <3>q. QED
      BY <2>1, <2>2, <2>3, <2>5, <3>1 DEF WatchMoves
  <2>q. QED
    BY <2>4, <2>5
<1>6. CASE SocketDisconnected
  <2>1. ~isSocketConnected' /\ \E late \in FromSlot : ClearJobQueue(queue \o late, StopTimer(timer))
    BY <1>6 DEF SocketDisconnected, ConnectionGone
  <2>2. JobsFollow' /\ currentJob' = NoJob
    BY <1>1, <2>1, ClearingEnds
  <2>3. Down
    BY <1>1, <1>3, <1>6 DEF SocketDisconnected, Receive, LinkInv
  <2>q. QED
    BY <1>2, <2>1, <2>2, <2>3 DEF Watch, Over
<1>7. CASE SocketError
  <2>1. CASE isSocketConnected
    <3>1. GoingDown'
      BY <1>7, <2>1, PostsClose DEF SocketError
    <3>2. JobsFollow' /\ UNCHANGED isSocketConnected
      BY <1>1, <1>7, <2>1 DEF SocketError, JobsFollow, Unstopped, mailVars
    <3>q. QED
      BY <2>1, <3>1, <3>2 DEF WatchMoves
  <2>2. CASE ~isSocketConnected
    <3>1. ~isSocketConnected' /\ \E late \in FromSlot : ClearJobQueue(queue \o late, StopTimer(timer))
      BY <1>7, <2>2 DEF SocketError
    <3>2. JobsFollow' /\ currentJob' = NoJob
      BY <1>1, <3>1, ClearingEnds
    <3>3. Down
      BY <1>1, <1>3, <1>7, <2>2 DEF SocketError, Receive, LinkInv, Up, Told
    <3>q. QED
      BY <1>2, <3>1, <3>2, <3>3 DEF Watch, Over
  <2>q. QED
    BY <2>1, <2>2
<1>8. CASE SocketActivity \/ HandleSslError
  <2>1. /\ SameJobs /\ UNCHANGED <<currentJob, jobRunning, isSocketConnected, state>>
        /\ timer' = timer \/ timer' = RestartTimer(timer)
    BY <1>8 DEF SocketActivity, HandleSslError, SameJobs, runVars, mailVars, sessionVars
  <2>q. QED
    BY <1>1, <2>1, RestartMoves
<1>9. CASE OnEncryptionNegotiationResult
  <2>1. CASE \E j \in Jobs : Continue(j, "CAPABILITY", "Capability", pendingTag)
    BY <1>1, <1>9, <2>1, ContinueTends, RestartMoves DEF OnEncryptionNegotiationResult, mailVars
  <2>2. CASE UNCHANGED <<runVars, timer>>
    <3>1. SameJobs
      BY <2>2 DEF SameJobs, runVars
    <3>q. QED
      BY <1>1, <1>9, <2>2, <3>1, RestartMoves DEF OnEncryptionNegotiationResult, runVars, mailVars
  <2>q. QED
    BY <1>9, <2>1, <2>2 DEF OnEncryptionNegotiationResult
<1>10. CASE ResponseReceived
  BY <1>1, <1>10, ResponseMoves
<1>q. QED
  BY <1>1, <1>5, <1>6, <1>7, <1>8, <1>9, <1>10 DEF HandleSignal

(* The Session is created without a job, and with its timer running.       *)
LEMMA TimedInitHolds == Init => TimedInv
<1> SUFFICES ASSUME Init PROVE TimedInv
  OBVIOUS
<1>1. ToConnect
  BY StartsToConnect
<1>2. /\ Alive /\ ~isSocketConnected /\ currentJob = NoJob /\ timer.interval = DefaultTimeout
      /\ \A j \in Jobs : job[j].phase = "new" /\ ~job[j].stopped
  BY DEF Init, SessionInit, Alive, NewJob
<1>q. QED
  BY <1>1, <1>2, SessionAssumption DEF TimedInv, LinkInv, Watch, Waits, JobsFollow, Unstopped

(* Every step keeps the watch.                                             *)
LEMMA TimedNextKeeps ==
  ASSUME MaxSettings.proxy = 0, AppTimeouts \subseteq Nat
  PROVE  ConnectionInv /\ TimedInv /\ [Next]_vars => TimedInv'
<1> SUFFICES ASSUME ConnectionInv, TimedInv, [Next]_vars
             PROVE  TimedInv'
  OBVIOUS
<1>1. CASE UNCHANGED vars
  BY <1>1 DEF vars, linkVars, sessionVars, threadVars, TimedInv, Alive, LinkInv, ToConnect, Ungreeted,
     OneConnects, Up, Down, Once, Told, ToldOfEnd, Has, JobsFollow, Unstopped, Watch, Waits, Over,
     Falling, GoingDown, Watched, Tended
<1>q. QED
  BY <1>1, ApplicationKeepsWatch, SignalsKeepWatch, OthersKeepWatch DEF Next

(* While a job runs, the timer does, unless it has been disabled or an     *)
(* IDLE has it off, or the connection is already going down                *)
(* (SessionPrivate::startSocketTimer(), stopSocketTimer(), IdleJob): no    *)
(* job waits for a silent server for ever.  The application leaves the     *)
(* proxy alone and sets no negative interval.                              *)
THEOREM RunningJobsAreTimed ==
  ASSUME MaxSettings.proxy = 0, AppTimeouts \subseteq Nat
  PROVE  Spec => []RunningJobIsTimed
<1>1. ConnectionInv /\ TimedInv => RunningJobIsTimed
  BY TimedInvMeaning
<1>2. Init => TimedInv
  BY TimedInitHolds
<1>3. ConnectionInv /\ TimedInv /\ [Next]_vars => TimedInv'
  BY TimedNextKeeps
<1>q. QED
  BY <1>1, <1>2, <1>3, ConnectionInvariantHolds, PTL DEF Spec
=============================================================================
