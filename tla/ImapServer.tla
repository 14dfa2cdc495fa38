----------------------------- MODULE ImapServer -----------------------------
(***************************************************************************)
(* The IMAP server at the other end of the connection (external): it       *)
(* greets, answers the commands in the order they were written, and may    *)
(* send lines nobody asked for.  It keeps the protocol state RFC 3501      *)
(* gives it, which is what the session's own state is compared with.       *)
(***************************************************************************)
EXTENDS SessionThread

CONSTANTS ImplicitTls,     (* TLS from the first byte on                   *)
          Greetings,       (* the codes a connection may be greeted with   *)
          Replies,         (* the codes a tagged reply may have            *)
          Unsolicited,     (* the lines it may send by itself              *)
          MaxUnsolicited,  (* bound: how many of them                      *)
          SplitLines       (* a packet may end between CR and LF           *)

ASSUME ServerAssumption ==
       /\ ImplicitTls \in BOOLEAN
       /\ Greetings \subseteq {"OK", "PREAUTH", "BYE", "NO"}
       /\ Replies \subseteq {"OK", "NO", "none"}
       /\ Unsolicited \subseteq Line
       /\ MaxUnsolicited \in Nat
       /\ SplitLines \in BOOLEAN

VARIABLE server   (* phase, mailbox, tag of the running IDLE, and so on    *)

ServerPhase == {"greeting", "NotAuthenticated", "Authenticated", "Selected", "Logout"}

ServerTypeOK == server \in [phase : ServerPhase, box : Jobs \cup {NoJob}, idle : Tag,
                            tls : BOOLEAN, lineFeedDue : BOOLEAN, sent : 0..MaxUnsolicited]

FreshServer(sent) == [phase |-> "greeting", box |-> NoJob, idle |-> NoTag, tls |-> ImplicitTls,
                      lineFeedDue |-> FALSE, sent |-> sent]

ServerInit == server = FreshServer(0)

(* Both ends agree on whether the connection is encrypted, and the last    *)
(* line is complete.                                                       *)
CanSend == /\ socket = "connected"
           /\ tls = IF server.tls THEN "encrypted" ELSE "plain"
           /\ ~server.lineFeedDue

(* The lines of one packet; the last one may lack its line feed.           *)
SendLines(ls, next) ==
  LET whole == [i \in DOMAIN ls |-> Whole(ls[i])]
  IN \/ /\ Arrive(whole)
        /\ server' = next
     \/ /\ SplitLines
        /\ Arrive([whole EXCEPT ![Len(ls)].open = TRUE])
        /\ server' = [next EXCEPT !.lineFeedDue = TRUE]

Greet ==
  /\ CanSend /\ server.phase = "greeting"
  /\ \E c \in Greetings :
       SendLines(<<Reply(Star, c)>>,
                 [server EXCEPT !.phase = CASE c = "OK" -> "NotAuthenticated"
                                            [] c = "PREAUTH" -> "Authenticated"
                                            [] OTHER -> "Logout"])
  /\ UNCHANGED written

(* What accepting a command changes, and when it may be accepted.          *)
Allowed(cmd) ==
  CASE cmd.verb \in {"LOGIN", "STARTTLS"} -> server.phase = "NotAuthenticated"
    [] cmd.verb = "SELECT" -> server.phase \in {"Authenticated", "Selected"}
    [] cmd.verb = "CLOSE" -> server.phase = "Selected"
    [] OTHER -> TRUE

Accepted(cmd) ==
  CASE cmd.verb = "LOGIN" -> [server EXCEPT !.phase = "Authenticated"]
    [] cmd.verb = "STARTTLS" -> [server EXCEPT !.tls = TRUE]
    [] cmd.verb = "SELECT" -> [server EXCEPT !.phase = "Selected", !.box = cmd.box]
    [] cmd.verb = "CLOSE" -> [server EXCEPT !.phase = "Authenticated", !.box = NoJob]
    [] cmd.verb = "IDLE" -> [server EXCEPT !.idle = cmd.tag]
    [] cmd.verb = "DONE" -> [server EXCEPT !.idle = NoTag]
    [] cmd.verb = "LOGOUT" -> [server EXCEPT !.phase = "Logout"]
    [] OTHER -> server

(* A refused SELECT leaves no mailbox selected.                            *)
Rejected(cmd) ==
  IF cmd.verb = "SELECT" /\ server.phase = "Selected"
  THEN [server EXCEPT !.phase = "Authenticated", !.box = NoJob]
  ELSE server

AcceptLines(cmd) ==
  CASE cmd.verb = "SELECT" -> <<Reply(Star, "data"), Reply(cmd.tag, "OK")>>
    [] cmd.verb = "LOGOUT" -> <<Reply(Star, "BYE"), Reply(cmd.tag, "OK")>>
    [] cmd.verb = "IDLE" -> <<Reply(Plus, "data")>>
    [] cmd.verb = "DONE" -> IF server.idle = NoTag THEN <<Reply(Star, "NO")>>
                                                   ELSE <<Reply(server.idle, "OK")>>
    [] OTHER -> <<Reply(cmd.tag, "OK")>>

Answer ==
  /\ CanSend /\ server.phase \notin {"greeting", "Logout"}
  /\ written # <<>>
  /\ written' = Tail(written)
  /\ LET cmd == Head(written)
     IN \/ /\ Allowed(cmd) /\ "OK" \in Replies
           /\ SendLines(AcceptLines(cmd), Accepted(cmd))
        \/ /\ cmd.verb \notin {"LOGOUT", "DONE"}
           /\ \E c \in Replies \ {"OK"} : SendLines(<<Reply(cmd.tag, c)>>, Rejected(cmd))

SendUnsolicited ==
  /\ CanSend /\ server.phase # "greeting"
  /\ server.sent < MaxUnsolicited
  /\ \E l \in Unsolicited : SendLines(<<l>>, [server EXCEPT !.sent = @ + 1])
  /\ UNCHANGED written

SendLineFeed ==
  /\ socket = "connected" /\ server.lineFeedDue
  /\ LineFeed
  /\ server' = [server EXCEPT !.lineFeedDue = FALSE]
  /\ UNCHANGED written

ServerStep == Greet \/ Answer \/ SendUnsolicited \/ SendLineFeed

(* A new connection is a new session of the server.                        *)
ServerFollows ==
  server' = IF socket' = "connected" /\ socket # "connected" THEN FreshServer(server.sent)
                                                             ELSE server
=============================================================================
