---------------------------- MODULE SessionLink ----------------------------
(***************************************************************************)
(* What the two threads of a KIMAP session share.                          *)
(*                                                                         *)
(* The Session lives in the application's main thread, the SessionThread   *)
(* object and its socket in a thread of their own.  Each side calls the    *)
(* other only by posting to its event loop, and an event loop handles its  *)
(* events in the order they were posted:                                   *)
(*   - posted: the event loop of the secondary thread: the calls           *)
(*     QMetaObject::invokeMethod posts there from either thread, and the   *)
(*     slots connected with Qt::QueuedConnection;                          *)
(*   - events: the signals of SessionThread queued to the main thread;     *)
(*   - dataQueue: m_dataQueue, the commands that wait to be written, which *)
(*     both threads access under m_mutex.                                  *)
(***************************************************************************)
EXTENDS Integers, Sequences

CONSTANTS Jobs,        (* the job objects the application creates          *)
          NoJob,       (* the null Job pointer                             *)
          TagModulus   (* 2^16: tagCount is a quint16                      *)

ASSUME LinkAssumption ==
       /\ NoJob \notin Jobs
       /\ TagModulus \in Nat \ {0}

VARIABLES posted, events, dataQueue
linkVars == <<posted, events, dataQueue>>

-----------------------------------------------------------------------------
(* Tags: a command's tag is 'A' and its number; the negative values stand  *)
(* for the empty byte array and for the tags of untagged lines.            *)
NoTag == -1
Star  == -2
Plus  == -3
CommandTag == 0..(TagModulus - 1)
Tag == CommandTag \cup {NoTag}

(* A parsed server line is reduced to its first two tokens, the only ones  *)
(* the session looks at.  "none" is a missing second token, "data" any     *)
(* second token other than the ones listed; "garbage" is not a response    *)
(* but a line readMessage() cannot parse.                                  *)
Code == {"OK", "NO", "BYE", "PREAUTH", "data", "none"}
Response == [tag : Tag \cup {Star, Plus}, code : Code]
Line == [tag : Tag \cup {Star, Plus}, code : Code \cup {"garbage"}]
Reply(t, c) == [tag |-> t, code |-> c]

(* What parsing a lone line feed gives: a response without any token.      *)
Blank == Reply(NoTag, "none")

(* A command as it goes to the server; box is the mailbox SELECT names,    *)
(* and each select job has a mailbox of its own.                           *)
Verb == {"LOGIN", "CAPABILITY", "STARTTLS", "SELECT", "CLOSE", "IDLE", "DONE", "LOGOUT", "NOOP"}
Command == [tag : Tag, verb : Verb, box : Jobs \cup {NoJob}]

Call == {"threadInit", "reconnect", "setUseProxyInternal", "readMessage", "writeDataQueue",
         "doCloseSocket", "slotSocketDisconnected", "doStartSsl", "sslErrorIgnored",
         "sslErrorRefused", "threadQuit"}

Signal == [sig : {"socketConnected", "socketDisconnected", "socketActivity", "socketError",
                  "sslError", "encryptionNegotiationResult"}]
          \cup [sig : {"responseReceived"}, response : Response]

LinkTypeOK == /\ posted \in Seq(Call)
              /\ events \in Seq(Signal)
              /\ dataQueue \in Seq(Command)

(* The constructor of SessionThread posts threadInit.                      *)
LinkInit == /\ posted = <<"threadInit">>
            /\ events = <<>>
            /\ dataQueue = <<>>

Post(call) == posted' = Append(posted, call)
=============================================================================
