--------------------------- MODULE EncryptionProofs ---------------------------
(***************************************************************************)
(* A login that asks for encryption never hands its password to a plain    *)
(* connection, for every server, network and application, as long as the   *)
(* application does not change the proxy of a session that runs.  A        *)
(* session then connects once, and goes through three phases: what is      *)
(* posted will connect it; it is connecting, or connected but not yet      *)
(* encrypted; afterwards.  Up to the end of the second, nothing is on its  *)
(* way that would have the session believe in encryption, and no LOGIN is. *)
(***************************************************************************)
EXTENDS ConnectionProofs

EarlyCall == LateCall \ {"sslErrorIgnored"}
EarlySignal == {e \in Signal : e.sig \notin {"sslError", "encryptionNegotiationResult"}}
EarlyCommand == {cmd \in Command : cmd.verb # "LOGIN"}

Unsecured == /\ ~sslVersion
             /\ events \in Seq(EarlySignal)
             /\ dataQueue \in Seq(EarlyCommand)
             /\ written \in Seq(EarlyCommand)

ToConnect == /\ socket \in {"none", "unconnected"}
             /\ OneConnects(posted, EarlyCall)
             /\ Unsecured

Unencrypted == /\ socket \in {"connecting", "connected"} /\ tls # "encrypted"
               /\ posted \in Seq(EarlyCall)
               /\ Unsecured

Afterwards == /\ \/ socket \in {"none", "unconnected"}
                 \/ socket = "connected" /\ tls = "encrypted"
              /\ posted \in Seq(LateCall)

EncryptionInv == ToConnect \/ Unencrypted \/ Afterwards

-----------------------------------------------------------------------------
(* The calls of the first phase besides the one that connects.             *)
LEMMA OthersConnectNot == EarlyCall \subseteq Call \ Connecting
BY DEF EarlyCall, LateCall, Connecting

(* The main thread learns of encryption only from a signal that is not     *)
(* sent before there is any.                                               *)
LEMMA VersionIsFromSignal ==
  ASSUME HandleSignal
  PROVE  UNCHANGED sslVersion \/ Head(events).sig = "encryptionNegotiationResult"
BY DEF HandleSignal, SocketConnected, SocketDisconnected, SocketError, SocketActivity,
       OnEncryptionNegotiationResult, HandleSslError, ResponseReceived, Receive, ConnectionGone,
       sessionVars

(* The application's calls and the timeout tell it nothing of encryption.  *)
LEMMA VersionIsKept ==
  ASSUME Application \/ Timeout
  PROVE  UNCHANGED sslVersion
BY DEF Application, Timeout, AddJob, DeleteJob, StopIdle, Close, SetUseNetworkProxy, SetTimeout,
       Destroy, ConnectionGone, OnSocketTimeout, sessionVars

(* A step of the main thread: the signals it has not handled yet, what it  *)
(* hands over, and what it knows of the encryption.                        *)
MainMoves ==
  /\ UNCHANGED <<socket, tls, written>>
  /\ UNCHANGED events \/ (events # <<>> /\ events' = Tail(events))
  /\ Hands \/ AnswersSslError \/ Quits
  /\ \/ UNCHANGED sslVersion
     \/ events # <<>> /\ Head(events).sig = "encryptionNegotiationResult"

(* Every step of the main thread is one, whatever handler runs.            *)
LEMMA MainThreadMoves ==
  ASSUME ConnectionInv, MaxSettings.proxy = 0, Application \/ Timeout \/ MainThread
  PROVE  MainMoves
<1>1. UNCHANGED <<socket, tls, written>>
  BY DEF Application, Timeout, MainThread, threadVars
<1>2. CASE Application \/ Timeout
  <2>1. (Hands \/ ChangesProxy \/ Quits) /\ UNCHANGED events
    BY <1>2, ApplicationHands DEF ConnectionInv
  <2>2. Hands \/ Quits
    BY <2>1 DEF ChangesProxy
  <2>q. QED
    BY <1>1, <1>2, <2>1, <2>2, VersionIsKept DEF MainMoves
<1>3. CASE MainThread
  <2>1. /\ Hands \/ AnswersSslError
        /\ events # <<>> /\ events' = Tail(events)
    BY <1>3, HandleSignalHands DEF ConnectionInv, MainThread
  <2>q. QED
    BY <1>1, <1>3, <2>1, VersionIsFromSignal DEF MainMoves, MainThread
<1>q. QED
  BY <1>2, <1>3

(* In the first two phases the session has no signal that would end them,  *)
(* and its jobs send no LOGIN before it is told of encryption.             *)
LEMMA MainThreadKeeps ==
  ASSUME ConnectionInv, EncryptionInv, ~PlainLogins, MainMoves
  PROVE  EncryptionInv'
<1>1. /\ SessionCall \cup {"sslErrorRefused", "threadQuit"} \subseteq EarlyCall
      /\ EarlyCall \subseteq LateCall /\ "sslErrorIgnored" \in LateCall
  BY DEF SessionCall, EarlyCall, LateCall, Call
<1>2. UNCHANGED posted \/ \E call \in LateCall : Post(call)
  BY <1>1 DEF MainMoves, Hands, AnswersSslError, Quits
<1>3. ASSUME Unsecured
      PROVE  /\ Unsecured'
             /\ UNCHANGED posted \/ \E call \in EarlyCall : Post(call)
  <2>1. events # <<>> => Head(events) \in EarlySignal /\ Tail(events) \in Seq(EarlySignal)
    BY <1>3, SequenceOperations DEF Unsecured
  <2>2. events # <<>> => Head(events).sig \notin {"sslError", "encryptionNegotiationResult"}
    BY <2>1 DEF EarlySignal
  <2>3. ~sslVersion' /\ (Hands \/ Quits)
    BY <1>3, <2>2 DEF MainMoves, AnswersSslError, Unsecured
  <2>4. events' \in Seq(EarlySignal)
    BY <1>3, <2>1 DEF MainMoves, Unsecured
  <2>5. dataQueue' \in Seq(EarlyCommand)
    <3>1. UNCHANGED dataQueue \/ \E cmd \in EarlyCommand : dataQueue' = Append(dataQueue, cmd)
      BY <1>3, <2>3 DEF Hands, Quits, MaySend, EarlyCommand, Unsecured
    <3>q. QED
      BY <1>3, <3>1, SequenceOperations DEF Unsecured
  <2>q. QED
    BY <1>1, <1>3, <2>3, <2>4, <2>5 DEF Unsecured, MainMoves, Hands, Quits
<1>4. CASE ToConnect
  <2>1. \A call \in EarlyCall : OneConnects(Append(posted, call), EarlyCall)
    BY <1>4, OthersConnectNot, OneConnectsOperations DEF ToConnect, ConnectionInv, LinkTypeOK
  <2>2. OneConnects(posted', EarlyCall)
    BY <1>3, <1>4, <2>1 DEF ToConnect, Post
  <2>3. ToConnect'
    BY <1>3, <1>4, <2>2 DEF ToConnect, MainMoves, OneConnects
  <2>q. QED
    BY <2>3 DEF EncryptionInv
<1>5. CASE Unencrypted
  <2>1. posted' \in Seq(EarlyCall)
    BY <1>3, <1>5, SequenceOperations DEF Unencrypted, Post
  <2>q. QED
    BY <1>3, <1>5, <2>1 DEF Unencrypted, EncryptionInv, MainMoves
<1>6. CASE Afterwards
  <2>1. posted' \in Seq(LateCall)
    BY <1>1, <1>2, <1>6, SequenceOperations DEF Afterwards, Post
  <2>q. QED
    BY <1>6, <2>1 DEF Afterwards, EncryptionInv, MainMoves
<1>q. QED
  BY <1>4, <1>5, <1>6 DEF EncryptionInv

-----------------------------------------------------------------------------
(* A step of the secondary thread brings no news of encryption unless it   *)
(* is asked to ignore an error of TLS.                                     *)
LEMMA UnsecuredIsKept ==
  ASSUME Unsecured, ThreadMoves, Head(posted) \in EarlyCall, UNCHANGED sslVersion
  PROVE  Unsecured'
<1>1. events' \in Seq(EarlySignal)
  <2>1. \A e \in Signal : e.sig \in Emits(Head(posted)) => e \in EarlySignal
    BY DEF Emits, EarlySignal, EarlyCall
  <2>q. QED
    BY <2>1, SequenceOperations DEF Unsecured, ThreadMoves
<1>2. dataQueue' \in Seq(EarlyCommand)
  BY SequenceOperations DEF Unsecured, ThreadMoves
<1>3. written' \in Seq(EarlyCommand)
  BY SequenceOperations DEF Unsecured, ThreadMoves
<1>q. QED
  BY <1>1, <1>2, <1>3 DEF Unsecured

(* The one connecting call is followed by the connection, which begins the *)
(* second phase; a connection that is closed is not made again.            *)
LEMMA SecondaryThreadKeeps ==
  ASSUME ConnectionInv, EncryptionInv, SecondaryThread
  PROVE  EncryptionInv'
<1> DEFINE head == Head(posted)
<1>1. posted \in Seq(Call) /\ HandlePosted /\ UNCHANGED sslVersion
  BY DEF ConnectionInv, LinkTypeOK, SecondaryThread, sessionVars
<1>2. EarlyCall \subseteq LateCall /\ LateCall \subseteq Call
      /\ {"readMessage", "slotSocketDisconnected"} \subseteq EarlyCall
  BY DEF EarlyCall, LateCall, Call
<1>3. CASE ThreadQuit
  <2>1. socket' = "none" /\ posted' = <<>>
    BY <1>3 DEF ThreadQuit
  <2>q. QED
    BY <2>1, SequenceOperations DEF Afterwards, EncryptionInv
<1>4. ASSUME ~ThreadQuit
      PROVE  /\ posted # <<>> /\ head \in Call /\ Tail(posted) \in Seq(Call)
             /\ ThreadInit \/ Reconnect \/ (head = "setUseProxyInternal" /\ SetUseProxyInternal)
                \/ (head \notin {"threadInit", "reconnect", "setUseProxyInternal"} /\ ThreadMoves)
  BY <1>1, <1>4, SecondaryThreadMoves, SequenceOperations DEF ConnectionInv, SetUseProxyInternal, Take
<1>5. CASE ToConnect /\ head \in Connecting /\ ~ThreadQuit
  <2>1. posted # <<>> /\ Tail(posted) \in Seq(EarlyCall)
    BY <1>1, <1>5, OthersConnectNot, OneConnectsOperations DEF ToConnect
  <2>2. CASE ThreadInit
    <3>1. posted' = Append(Tail(posted), "reconnect")
      <4>1. "reconnect" \in Call
        BY DEF Call
      <4>q. QED
        BY <1>1, <2>1, <2>2, <4>1, SequenceOperations, AppendIsConcat DEF ThreadInit, Take
    <3>2. OneConnects(posted', EarlyCall)
      <4>1. OneConnects(Append(Tail(posted), "reconnect"), EarlyCall)
        BY <2>1, OthersConnectNot, OneConnectsOperations
      <4>q. QED
        BY <3>1, <4>1 DEF OneConnects
    <3>3. Unsecured'
      BY <1>1, <1>5, <2>2 DEF ToConnect, Unsecured, ThreadInit
    <3>4. socket' = "unconnected"
      BY <2>2 DEF ThreadInit
    <3>5. ToConnect'
      BY <3>2, <3>3, <3>4 DEF ToConnect, OneConnects
    <3>q. QED
      BY <3>5 DEF EncryptionInv
  <2>3. CASE Reconnect
    <3>1. posted' = Tail(posted)
      BY <1>1, <2>1, <2>3, SequenceOperations, ConcatEmptySeq DEF Reconnect, Take
    <3>2. Unsecured'
      BY <1>1, <1>5, <2>3 DEF ToConnect, Unsecured, Reconnect
    <3>3. socket' = "connecting" /\ tls' # "encrypted"
      BY <1>5, <2>3 DEF ToConnect, Reconnect
    <3>q. QED
      BY <2>1, <3>1, <3>2, <3>3 DEF Unencrypted, EncryptionInv
  <2>q. QED
    BY <1>4, <1>5, <2>2, <2>3 DEF Connecting
<1>6. CASE ToConnect /\ head \notin Connecting /\ ~ThreadQuit
  <2>1. OneConnects(Tail(posted), EarlyCall)
    BY <1>1, <1>6, OthersConnectNot, OneConnectsOperations DEF ToConnect
  <2>2. head \in EarlyCall
    <3>1. head = posted[1] /\ 1 \in 1..Len(posted)
      BY <1>1, <1>4, <1>6, EmptySeq
    <3>q. QED
      BY <1>6, <3>1 DEF ToConnect, OneConnects
  <2>3. ThreadMoves
    BY <1>4, <1>6, <2>2 DEF EarlyCall, LateCall, ThreadInit, Reconnect, Take
  <2>4. GoesOn
    BY <1>6, <2>3 DEF ThreadMoves, Closes, ToConnect
  <2>5. OneConnects(Append(Tail(posted), "readMessage"), EarlyCall)
    <3>1. "readMessage" \in EarlyCall
      BY <1>2
    <3>2. Tail(posted) \in Seq(Call)
      BY <1>4, <1>6
    <3>q. QED
      BY <2>1, <3>1, <3>2, OthersConnectNot, OneConnectsOperations
  <2>6. OneConnects(posted', EarlyCall)
    BY <2>1, <2>4, <2>5 DEF OneConnects, GoesOn
  <2>7. Unsecured'
    BY <1>1, <1>6, <2>2, <2>3, UnsecuredIsKept DEF ToConnect
  <2>8. ToConnect'
    BY <1>6, <2>4, <2>6, <2>7 DEF ToConnect, OneConnects, GoesOn
  <2>q. QED
    BY <2>8 DEF EncryptionInv
<1>7. ASSUME ~ThreadQuit, NEW S, posted \in Seq(S), S \subseteq LateCall,
             {"readMessage", "slotSocketDisconnected"} \subseteq S
      PROVE  head \in S /\ ThreadMoves /\ posted' \in Seq(S)
  <2>1. head \in S /\ Tail(posted) \in Seq(S)
    BY <1>4, <1>7, SequenceOperations
  <2>2. ThreadMoves
    BY <1>4, <1>7, <2>1 DEF LateCall, ThreadInit, Reconnect, Take
  <2>3. posted' \in Seq(S)
    BY <1>7, <2>1, <2>2, SequenceOperations DEF ThreadMoves, Closes, GoesOn
  <2>q. QED
    BY <2>1, <2>2, <2>3
<1>8. CASE Unencrypted /\ ~ThreadQuit
  <2>1. head \in EarlyCall /\ ThreadMoves /\ posted' \in Seq(EarlyCall)
    BY <1>2, <1>7, <1>8 DEF Unencrypted
  <2>2. CASE GoesOn
    <3>1. Unsecured'
      BY <1>1, <1>8, <2>1, UnsecuredIsKept DEF Unencrypted
    <3>q. QED
      BY <1>8, <2>1, <2>2, <3>1 DEF Unencrypted, GoesOn, EncryptionInv
  <2>3. CASE Closes
    <3>1. posted' \in Seq(LateCall)
      BY <1>2, <2>1, SeqMonotonic
    <3>q. QED
      BY <2>3, <3>1 DEF Closes, Afterwards, EncryptionInv
  <2>q. QED
    BY <2>1, <2>2, <2>3 DEF ThreadMoves
<1>9. CASE Afterwards /\ ~ThreadQuit
  <2>1. ThreadMoves /\ posted' \in Seq(LateCall)
    BY <1>2, <1>7, <1>9 DEF Afterwards
  <2>q. QED
    BY <1>9, <2>1 DEF ThreadMoves, Closes, GoesOn, Afterwards, EncryptionInv
<1>q. QED
  BY <1>3, <1>5, <1>6, <1>8, <1>9 DEF EncryptionInv

(* The socket's own steps, of which the end of a handshake and the end of  *)
(* the connection begin the last phase.                                    *)
LEMMA SocketKeeps ==
  ASSUME ConnectionInv, EncryptionInv, Socket
  PROVE  EncryptionInv'
<1>1. SocketStep /\ UNCHANGED <<sslVersion, dataQueue>>
  BY DEF Socket, sessionVars, SocketStep, Connected, ConnectFailed, SslConnected, RemoteClose
<1>2. EarlyCall \subseteq LateCall /\ "slotSocketDisconnected" \in EarlyCall
  BY DEF EarlyCall, LateCall, Call
<1>3. UNCHANGED posted \/ Post("slotSocketDisconnected")
  BY <1>1 DEF SocketStep, Connected, ConnectFailed, SslConnected, RemoteClose
<1>4. ~ToConnect
  BY <1>1 DEF ToConnect, SocketStep, Connected, ConnectFailed, SslConnected, RemoteClose
<1>5. posted \in Seq(LateCall)
  BY <1>2, <1>4, SeqMonotonic DEF EncryptionInv, Unencrypted, Afterwards
<1>6. posted' \in Seq(LateCall)
  BY <1>2, <1>3, <1>5, SequenceOperations DEF Post
<1>7. CASE socket' \in {"none", "unconnected"} \/ (socket' = "connected" /\ tls' = "encrypted")
  BY <1>6, <1>7 DEF Afterwards, EncryptionInv
<1>8. CASE ConnectFailed \/ SslConnected \/ RemoteClose
  BY <1>7, <1>8 DEF ConnectFailed, SslConnected, RemoteClose, Drop
<1>9. CASE Connected
  <2>1. socket = "connecting" /\ Unencrypted
    BY <1>4, <1>9 DEF Connected, EncryptionInv, Afterwards
  <2>2. [sig |-> "socketConnected"] \in EarlySignal
    BY DEF EarlySignal, Signal
  <2>3. events' \in Seq(EarlySignal)
    BY <1>9, <2>1, <2>2, SequenceOperations DEF Connected, Emit, Unencrypted, Unsecured
  <2>4. posted' \in Seq(EarlyCall)
    BY <1>2, <1>3, <2>1, SequenceOperations DEF Post, Unencrypted
  <2>5. CASE socket' = "connected" /\ UNCHANGED <<tls, written>>
    BY <1>1, <2>1, <2>3, <2>4, <2>5 DEF Unencrypted, Unsecured, EncryptionInv
  <2>6. CASE socket' = "unconnected"
    BY <1>7, <2>6
  <2>q. QED
    BY <1>9, <2>5, <2>6 DEF Connected, Drop
<1>q. QED
  BY <1>1, <1>8, <1>9 DEF SocketStep

(* The server only reads what was written, and sends lines.                *)
LEMMA ServerKeeps ==
  ASSUME ConnectionInv, EncryptionInv, Server
  PROVE  EncryptionInv'
<1>1. /\ UNCHANGED <<sslVersion, dataQueue, socket, tls>> /\ socket = "connected"
      /\ Emit("socketActivity") /\ Post("readMessage")
      /\ UNCHANGED written \/ (written # <<>> /\ written' = Tail(written))
  BY DEF Server, sessionVars, ServerStep, Greet, Answer, SendUnsolicited, SendLineFeed, CanSend,
         SendLines, LineFeed, Arrive, tlsVars
<1>2. EarlyCall \subseteq LateCall /\ "readMessage" \in EarlyCall
  BY DEF EarlyCall, LateCall, Call
<1>3. [sig |-> "socketActivity"] \in EarlySignal
  BY DEF EarlySignal, Signal
<1>4. CASE Unencrypted
  <2>1. events' \in Seq(EarlySignal)
    BY <1>1, <1>3, <1>4, SequenceOperations DEF Emit, Unencrypted, Unsecured
  <2>2. posted' \in Seq(EarlyCall)
    BY <1>1, <1>2, <1>4, SequenceOperations DEF Post, Unencrypted
  <2>3. written' \in Seq(EarlyCommand)
    BY <1>1, <1>4, SequenceOperations DEF Unencrypted, Unsecured
  <2>q. QED
    BY <1>1, <1>4, <2>1, <2>2, <2>3 DEF Unencrypted, Unsecured, EncryptionInv
<1>5. CASE Afterwards
  <2>1. posted' \in Seq(LateCall)
    BY <1>1, <1>2, <1>5, SequenceOperations DEF Post, Afterwards
  <2>q. QED
    BY <1>1, <1>5, <2>1 DEF Afterwards, EncryptionInv
<1>q. QED
  BY <1>1, <1>4, <1>5 DEF EncryptionInv, ToConnect

-----------------------------------------------------------------------------
(* The Session posts threadInit() when it is created.                      *)
LEMMA EncryptionInitHolds == Init => EncryptionInv
<1> SUFFICES ASSUME Init PROVE ToConnect
  BY DEF EncryptionInv
<1>1. posted = <<"threadInit">> /\ socket = "none" /\ ~sslVersion
      /\ events = <<>> /\ dataQueue = <<>> /\ written = <<>>
  BY DEF Init, LinkInit, SessionInit, ThreadInitState
<1>2. OneConnects(posted, EarlyCall)
  BY <1>1 DEF OneConnects, Connecting
<1>q. QED
  BY <1>1, <1>2, SequenceOperations DEF ToConnect, Unsecured

(* The phases only follow each other.                                      *)
LEMMA EncryptionNextKeeps ==
  ASSUME ~PlainLogins, MaxSettings.proxy = 0
  PROVE  ConnectionInv /\ EncryptionInv /\ [Next]_vars => EncryptionInv'
<1> SUFFICES ASSUME ConnectionInv, EncryptionInv, [Next]_vars
             PROVE  EncryptionInv'
  OBVIOUS
<1>1. CASE Application \/ Timeout \/ MainThread
  BY <1>1, MainThreadMoves, MainThreadKeeps
<1>2. CASE UNCHANGED vars
  BY <1>2 DEF vars, linkVars, sessionVars, threadVars, EncryptionInv, ToConnect, Unencrypted, Afterwards,
     Unsecured, OneConnects
<1>q. QED
  BY <1>1, <1>2, SecondaryThreadKeeps, SocketKeeps, ServerKeeps DEF Next

(* The password of a login that asked for encryption (LoginJob in the      *)
(* modes STARTTLS and SSL or TLS) is never among what the socket has for a *)
(* plain connection.  The proxy has to stay as it is: setUseNetworkProxy() *)
(* connects again, without encryption, while a LOGIN that was sent for the *)
(* old connection may still wait in m_dataQueue.                           *)
THEOREM LoginIsAlwaysEncrypted ==
  ASSUME MaxSettings.proxy = 0
  PROVE  Spec => []LoginIsEncrypted
<1>1. CASE PlainLogins
  <2>1. LoginIsEncrypted
    BY <1>1 DEF LoginIsEncrypted, PlainLogins
  <2>q. QED
    BY <2>1, PTL
<1>2. CASE ~PlainLogins
  <2>1. EncryptionInv => LoginIsEncrypted
    <3> SUFFICES ASSUME EncryptionInv, socket = "connected", tls = "plain"
                 PROVE  \A i \in DOMAIN written : written[i].verb # "LOGIN"
      BY DEF LoginIsEncrypted
    <3>1. written \in Seq(EarlyCommand)
      BY DEF EncryptionInv, ToConnect, Unencrypted, Unsecured, Afterwards
    <3>q. QED
      BY <3>1, LenProperties, ElementOfSeq DEF EarlyCommand
  <2>2. Init => EncryptionInv
    BY EncryptionInitHolds
  <2>3. ConnectionInv /\ EncryptionInv /\ [Next]_vars => EncryptionInv'
    BY <1>2, EncryptionNextKeeps
  <2>q. QED
    BY <2>1, <2>2, <2>3, ConnectionInvariantHolds, PTL DEF Spec
<1>q. QED
  BY <1>1, <1>2
=============================================================================
