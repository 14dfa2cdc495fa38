--------------------------- MODULE SessionThread ---------------------------
(***************************************************************************)
(* SessionThread (src/src/sessionthread.cpp): the half of a session that   *)
(* owns the socket and the stream parser and lives in a thread of its own. *)
(* Its event loop takes the head of posted; the socket, a QSslSocket, is   *)
(* modelled by its states, its read buffer and its signals.                *)
(*                                                                         *)
(* errorOccurred, connected, bytesWritten and readyRead reach the main     *)
(* thread as soon as the socket emits them, while readMessage and          *)
(* slotSocketDisconnected wait their turn in posted: an error can overtake *)
(* the lines read before it, and a disconnection the lines that            *)
(* readMessage has not come to yet.                                        *)
(***************************************************************************)
EXTENDS SessionLink, SequencesExt

VARIABLES socket,          (* m_socket and its SocketState                 *)
          pendingClose,    (* closed while connecting                      *)
          tls,             (* the socket's encryption                      *)
          sslSlots,        (* connections of encrypted() to sslConnected() *)
          m_encryptedMode,
          buffer,          (* lines in the socket's read buffer            *)
          m_data,          (* lines the parser has taken from the socket   *)
          written          (* commands the socket has sent to the server   *)

threadVars == <<socket, pendingClose, tls, sslSlots, m_encryptedMode, buffer, m_data, written>>
streamVars == <<buffer, m_data>>
tlsVars == <<tls, sslSlots, m_encryptedMode>>

SocketState == {"none", "unconnected", "connecting", "connected"}

(* A line whose line feed is still on its way is "open".                   *)
StreamLine == [line : Line, open : BOOLEAN]
Whole(l) == [line |-> l, open |-> FALSE]

ThreadTypeOK ==
  /\ socket \in SocketState
  /\ pendingClose \in BOOLEAN
  /\ tls \in {"plain", "handshake", "encrypted"}
  /\ sslSlots \in Nat
  /\ m_encryptedMode \in BOOLEAN
  /\ buffer \in Seq(StreamLine)
  /\ m_data \in Seq(StreamLine)
  /\ written \in Seq(Command)

ThreadInitState ==
  /\ socket = "none"
  /\ pendingClose = FALSE
  /\ tls = "plain"
  /\ sslSlots = 0
  /\ m_encryptedMode = FALSE
  /\ buffer = <<>>
  /\ m_data = <<>>
  /\ written = <<>>

-----------------------------------------------------------------------------
Emit(sig) == events' = Append(events, [sig |-> sig])
EmitAll(sigs) == events' = events \o sigs

(* Take the next posted event, and post more behind it.                    *)
Take(call, more) == /\ posted # <<>>
                    /\ Head(posted) = call
                    /\ posted' = Tail(posted) \o more

(* The socket goes down: disconnected() is connected to                    *)
(* slotSocketDisconnected through the event loop.  What was not yet sent   *)
(* is lost.                                                                *)
Drop == /\ socket' = "unconnected"
        /\ tls' = "plain"
        /\ written' = <<>>

ThreadInit ==
  /\ Take("threadInit", <<"reconnect">>)
  /\ socket' = "unconnected"
  /\ UNCHANGED <<pendingClose, tlsVars, streamVars, written, events, dataQueue>>

Reconnect ==
  /\ Take("reconnect", <<>>)
  /\ \/ /\ socket = "unconnected"
        /\ socket' = "connecting"
        /\ buffer' = <<>>
        /\ tls' = IF m_encryptedMode THEN "handshake" ELSE "plain"
     \/ /\ socket \in {"connecting", "connected"}
        /\ UNCHANGED <<socket, buffer, tls>>
  /\ UNCHANGED <<pendingClose, sslSlots, m_encryptedMode, m_data, written, events, dataQueue>>

(* A disconnected socket drops what is written to it, a connecting one     *)
(* keeps it until it is connected.                                         *)
WriteDataQueue ==
  /\ Take("writeDataQueue", <<>>)
  /\ dataQueue' = <<>>
  /\ written' = IF socket = "unconnected" THEN written ELSE written \o dataQueue
  /\ IF socket = "connected" /\ dataQueue # <<>> THEN Emit("socketActivity") ELSE UNCHANGED events
  /\ UNCHANGED <<socket, pendingClose, tlsVars, streamVars>>

(* close() empties the socket's buffer, not the parser's.                  *)
CloseSocket ==
  /\ m_encryptedMode' = FALSE
  /\ buffer' = <<>>
  /\ \/ /\ socket = "connected"
        /\ Drop
        /\ posted' = Tail(posted) \o <<"slotSocketDisconnected">>
        /\ UNCHANGED pendingClose
     \/ /\ socket = "connecting"
        /\ pendingClose' = TRUE
        /\ posted' = Tail(posted)
        /\ UNCHANGED <<socket, tls, written>>
     \/ /\ socket = "unconnected"
        /\ posted' = Tail(posted)
        /\ UNCHANGED <<socket, pendingClose, tls, written>>

DoCloseSocket ==
  /\ posted # <<>> /\ Head(posted) = "doCloseSocket"
  /\ CloseSocket
  /\ UNCHANGED <<sslSlots, m_data, events, dataQueue>>

(* One line is parsed per event.  A line feed that comes after its line    *)
(* was parsed makes a response of its own, and is too short to have        *)
(* readMessage posted again for it.                                        *)
ReadMessage ==
  LET lines == IF m_data = <<>> THEN buffer ELSE m_data
      unread == IF m_data = <<>> THEN <<>> ELSE buffer
      rest == Tail(lines) \o unread
  IN /\ posted # <<>> /\ Head(posted) = "readMessage"
     /\ \/ /\ lines = <<>>
           /\ Take("readMessage", <<>>)
           /\ UNCHANGED <<socket, pendingClose, tls, m_encryptedMode, streamVars, written, events>>
        \/ /\ lines # <<>> /\ Head(lines).line.code = "garbage"
           /\ CloseSocket
           /\ m_data' = lines
           /\ UNCHANGED events
        \/ /\ lines # <<>> /\ Head(lines).line.code # "garbage"
           /\ Take("readMessage",
                   IF rest \in {<<>>, <<Whole(Blank)>>} THEN <<>> ELSE <<"readMessage">>)
           /\ m_data' = Tail(lines)
           /\ buffer' = unread
           /\ EmitAll(<<[sig |-> "responseReceived", response |-> Head(lines).line]>>)
           /\ UNCHANGED <<socket, pendingClose, tls, m_encryptedMode, written>>
     /\ UNCHANGED <<sslSlots, dataQueue>>

SlotSocketDisconnected ==
  /\ Take("slotSocketDisconnected", <<>>)
  /\ Emit("socketDisconnected")
  /\ UNCHANGED <<threadVars, dataQueue>>

(* Mutant: it connects again before the disconnection is told.             *)
ReconnectFirst ==
  /\ \/ /\ socket = "connected"
        /\ Take("setUseProxyInternal", <<"reconnect", "slotSocketDisconnected">>)
        /\ Drop
        /\ UNCHANGED pendingClose
     \/ /\ socket = "connecting"
        /\ Take("setUseProxyInternal", <<"reconnect">>)
        /\ pendingClose' = TRUE
        /\ UNCHANGED <<socket, tls, written>>
     \/ /\ socket = "unconnected"
        /\ Take("setUseProxyInternal", <<>>)
        /\ UNCHANGED <<socket, pendingClose, tls, written>>
  /\ UNCHANGED <<sslSlots, m_encryptedMode, streamVars, events, dataQueue>>

(* A changed proxy setting: disconnect, and connect again.                 *)
SetUseProxyInternal ==
  /\ \/ /\ socket = "connected"
        /\ Take("setUseProxyInternal", <<"slotSocketDisconnected", "reconnect">>)
        /\ Drop
        /\ UNCHANGED pendingClose
     \/ /\ socket = "connecting"
        /\ Take("setUseProxyInternal", <<"reconnect">>)
        /\ pendingClose' = TRUE
        /\ UNCHANGED <<socket, tls, written>>
     \/ /\ socket = "unconnected"
        /\ Take("setUseProxyInternal", <<>>)
        /\ UNCHANGED <<socket, pendingClose, tls, written>>
  /\ UNCHANGED <<sslSlots, m_encryptedMode, streamVars, events, dataQueue>>

(* Each call connects encrypted() once more.                               *)
DoStartSsl ==
  /\ Take("doStartSsl", <<>>)
  /\ sslSlots' = sslSlots + 1
  /\ IF socket = "connected" /\ tls = "plain"
     THEN tls' = "handshake" /\ Emit("socketActivity")
     ELSE UNCHANGED <<tls, events>>
  /\ UNCHANGED <<socket, pendingClose, m_encryptedMode, streamVars, written, dataQueue>>

(* The answer to the certificate errors.                                   *)
DoSslErrorHandlerResponse ==
  \/ /\ Take("sslErrorIgnored", <<>>)
     /\ m_encryptedMode' = TRUE
     /\ Emit("encryptionNegotiationResult")
     /\ UNCHANGED <<socket, pendingClose, tls, sslSlots, streamVars, written, dataQueue>>
  \/ /\ m_encryptedMode' = FALSE
     /\ Emit("socketError")
     /\ \/ /\ socket = "connected"
           /\ Take("sslErrorRefused", <<"slotSocketDisconnected">>)
           /\ Drop
           /\ UNCHANGED pendingClose
        \/ /\ socket = "connecting"
           /\ Take("sslErrorRefused", <<>>)
           /\ pendingClose' = TRUE
           /\ UNCHANGED <<socket, tls, written>>
        \/ /\ socket = "unconnected"
           /\ Take("sslErrorRefused", <<>>)
           /\ UNCHANGED <<socket, pendingClose, tls, written>>
     /\ UNCHANGED <<sslSlots, streamVars, dataQueue>>

(* threadQuit() when its turn has come, or the end of a thread that has    *)
(* been too busy for ten seconds to come to it: either way the socket and  *)
(* the parser go, and what else was posted is never handled.               *)
ThreadQuit ==
  /\ Contains(posted, "threadQuit")
  /\ socket' = "none" /\ pendingClose' = FALSE
  /\ tls' = "plain" /\ sslSlots' = 0
  /\ buffer' = <<>> /\ m_data' = <<>> /\ written' = <<>>
  /\ posted' = <<>> /\ dataQueue' = <<>>
  /\ UNCHANGED <<m_encryptedMode, events>>

(* What the event loop of the secondary thread runs by itself.             *)
HandlePosted ==
  \/ ThreadInit
  \/ Reconnect
  \/ WriteDataQueue
  \/ DoCloseSocket
  \/ ReadMessage
  \/ SlotSocketDisconnected
  \/ SetUseProxyInternal
  \/ DoStartSsl
  \/ DoSslErrorHandlerResponse
  \/ ThreadQuit

-----------------------------------------------------------------------------
(* The socket (external): the end of a connection attempt, of a TLS        *)
(* handshake and of a connection, and the arrival of data.                 *)
Connected ==
  /\ socket = "connecting"
  /\ pendingClose' = FALSE
  /\ Emit("socketConnected")
  /\ IF pendingClose
     THEN Drop /\ Post("slotSocketDisconnected")
     ELSE socket' = "connected" /\ UNCHANGED <<tls, written, posted>>
  /\ UNCHANGED <<sslSlots, m_encryptedMode, streamVars, dataQueue>>

ConnectFailed ==
  /\ socket = "connecting"
  /\ pendingClose' = FALSE
  /\ Drop
  /\ Emit("socketError")
  /\ UNCHANGED <<sslSlots, m_encryptedMode, streamVars, posted, dataQueue>>

(* encrypted() runs sslConnected() once per connection of the signal.      *)
SslConnected ==
  /\ socket = "connected" /\ tls = "handshake"
  /\ tls' = "encrypted"
  /\ \/ /\ m_encryptedMode' = TRUE
        /\ EmitAll([i \in 1..sslSlots |-> [sig |-> "encryptionNegotiationResult"]])
     \/ /\ m_encryptedMode' = m_encryptedMode
        /\ EmitAll([i \in 1..sslSlots |-> [sig |-> "sslError"]])
  /\ UNCHANGED <<socket, pendingClose, sslSlots, streamVars, written, posted, dataQueue>>

(* The peer closes, or the network fails.  A plain socket notices only     *)
(* after the data of the notifications before was read; a TLS record that  *)
(* ends the connection is noticed together with the data before it.        *)
RemoteClose ==
  /\ socket = "connected"
  /\ tls = "plain" => buffer = <<>>
  /\ Drop
  /\ Emit("socketError")
  /\ Post("slotSocketDisconnected")
  /\ UNCHANGED <<pendingClose, sslSlots, m_encryptedMode, streamVars, dataQueue>>

(* readyRead() has readMessage posted.                                     *)
Arrive(lines) ==
  /\ buffer' = buffer \o lines
  /\ Emit("socketActivity")
  /\ Post("readMessage")
  /\ UNCHANGED <<socket, pendingClose, tlsVars, m_data, dataQueue>>

(* The line feed of the last line.                                         *)
LineFeed ==
  IF buffer # <<>> /\ Last(buffer).open
  THEN /\ buffer' = [buffer EXCEPT ![Len(buffer)].open = FALSE]
       /\ Emit("socketActivity")
       /\ Post("readMessage")
       /\ UNCHANGED <<socket, pendingClose, tlsVars, m_data, dataQueue>>
  ELSE Arrive(<<Whole(Blank)>>)

SocketStep == Connected \/ ConnectFailed \/ SslConnected \/ RemoteClose
=============================================================================
