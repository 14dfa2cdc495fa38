--------------------------- MODULE AgreementProofs ---------------------------
(***************************************************************************)
(* The session and the server agree on the protocol state whenever nothing *)
(* is under way between them, and what a login or a select reports as done *)
(* the server has done.                                                    *)
(*                                                                         *)
(* The session follows the server's state through the tags it remembers    *)
(* (authTag, selectTag, closeTag).  That works because no more than one    *)
(* command is ever without an answer: the invariant follows this command   *)
(* from m_dataQueue over the socket and the server, and its answer back to *)
(* the main thread.  A lone line feed or a line that LoginJob takes for    *)
(* malformed breaks the rule of one command, so the server sends none.     *)
(***************************************************************************)
EXTENDS OrderProofs

(* The lines a server sends by itself, asks to go on with, and answers.    *)
StarLine == {l \in Line : l.tag = Star /\ l.code # "none"}
PlusLine == {l \in Line : l.tag = Plus}
ReplyLine == {l \in Line : l.tag \in CommandTag /\ l.code \in Replies}

Orderly == /\ MaxSettings.proxy = 0
           /\ \A j \in Jobs : Kind[j] # "tls"
           /\ ~SplitLines
           /\ Unsolicited \subseteq StarLine

(* The commands that have not been answered, and the lines that have not   *)
(* been parsed, in their order; and a line before and after it was parsed. *)
Asked == written \o dataQueue
Unread == m_data \o buffer

StreamOf(X) == {l \in StreamLine : l.line \in X}
MuteSignal == {e \in Signal : e.sig # "responseReceived"}
SignalOf(X) == {e \in Signal : e.sig = "responseReceived" => e.response \in X}
ResponseOf(X) == {e \in Signal : e.sig = "responseReceived" /\ e.response \in X}

(* DONE is the only command without a tag of its own.                      *)
DoneCommand == {cmd \in Command : cmd.verb = "DONE"}
TaggedCommand == {cmd \in Command : cmd.tag \in CommandTag /\ cmd.verb # "DONE"}

(* One element of T in a sequence, with As before and Bs behind it.        *)
Among(s, A, T, B) ==
  \E k \in 1..Len(s) : /\ s[k] \in T
                       /\ \A i \in 1..k - 1 : s[i] \in A
                       /\ \A i \in k + 1..Len(s) : s[i] \in B

-----------------------------------------------------------------------------
(* The lines on their way to the main thread: no answer is among them, or  *)
(* one, with nothing but untagged lines behind it.  A request to go on is  *)
(* never among them while a login runs, which would end by it.             *)
LoginRuns == currentJob # NoJob /\ Kind[currentJob] \in LoginKind
Chatter == IF LoginRuns THEN StarLine ELSE StarLine \cup PlusLine

Clear(lines, signals, X) ==
  lines \in Seq(StreamOf(X)) /\ signals \in Seq(SignalOf(X))
Comes(lines, signals, X, r) ==
  \/ /\ signals \in Seq(SignalOf(X))
     /\ Among(lines, StreamOf(X), StreamOf({r}), StreamOf(StarLine))
  \/ /\ Among(signals, SignalOf(X), ResponseOf({r}), SignalOf(StarLine))
     /\ lines \in Seq(StreamOf(StarLine))

NoReply(X) == Clear(Unread, events, X)
ReplyComes(r) == Comes(Unread, events, Chatter, r)

(* The current job, unless it was deleted, waits for this tag.             *)
Expects(tag) == currentJob # NoJob => /\ job[currentJob].phase = "started"
                                      /\ tag \in job[currentJob].tags
SelectRuns == currentJob # NoJob /\ Kind[currentJob] = "select"

(* What the session remembers of a command and the current job needs of    *)
(* it.                                                                     *)
Remembered(cmd) ==
  /\ \A v \in TrackedVerb : pendingTag[v] = IF v = cmd.verb THEN cmd.tag ELSE NoTag
  /\ cmd.verb = "SELECT" => upcomingMailBox = cmd.box
Forgotten == \A v \in TrackedVerb : pendingTag[v] = NoTag
Suits(cmd) ==
  /\ Expects(cmd.tag)
  /\ LoginRuns => cmd.verb # "IDLE" /\ (job[currentJob].step = "Login" => cmd.verb = "LOGIN")
  /\ SelectRuns => cmd.verb = "SELECT" /\ cmd.box = currentJob

(* The same of an answer, and what it will do to the session's state.      *)
Answers(r) ==
  /\ Expects(r.tag)
  /\ LoginRuns /\ job[currentJob].step = "Login" => pendingTag["LOGIN"] = r.tag
  /\ SelectRuns => pendingTag["SELECT"] = r.tag /\ upcomingMailBox = currentJob
Moves(r) ==
  /\ \A v \in TrackedVerb : pendingTag[v] \in {NoTag, r.tag}
  /\ r.code = "OK" => /\ pendingTag["LOGIN"] = r.tag => NextState(r) = "Authenticated"
                      /\ pendingTag["SELECT"] = r.tag => NextState(r) = "Selected"

(* The server's state is the session's, or the one the answer leads to.    *)
Agreed == server.phase # "Logout" => server.phase = state /\ server.box = currentMailBox
Predicted(r) ==
  server.phase # "Logout" => server.phase = NextState(r) /\ server.box = NextMailBox(r)

-----------------------------------------------------------------------------
(* The stages of a command: there is none, it is on its way to the server, *)
(* the server keeps it (an IDLE), its answer is on its way back.           *)
Rest == /\ Asked \in Seq(DoneCommand) /\ server.idle = NoTag /\ NoReply(StarLine)
        /\ Agreed /\ Forgotten

Asking == /\ jobRunning /\ server.idle = NoTag /\ NoReply(StarLine) /\ Agreed
          /\ \E cmd \in TaggedCommand : /\ Among(Asked, DoneCommand, {cmd}, DoneCommand)
                                        /\ Remembered(cmd) /\ Suits(cmd)

Holding == /\ jobRunning /\ Asked \in Seq(DoneCommand) /\ server.idle # NoTag
           /\ NoReply(Chatter) /\ Agreed /\ Forgotten
           /\ ~LoginRuns /\ ~SelectRuns /\ Expects(server.idle)

Replying == /\ jobRunning /\ Asked \in Seq(DoneCommand) /\ server.idle = NoTag
            /\ \E r \in ReplyLine : ReplyComes(r) /\ Moves(r) /\ Predicted(r) /\ Answers(r)

(* The stages of encryption: it was not asked for; LoginJob has asked for  *)
(* it, and nothing else is under way until it hears of the result; it has  *)
(* heard.                                                                  *)
SslCall == {"doStartSsl", "sslErrorIgnored", "sslErrorRefused"}
CalmCall == UpCall \ SslCall
SslSignal == {e \in Signal : e.sig \in {"sslError", "encryptionNegotiationResult"}}
CalmSignal == {e \in Signal \ SslSignal : e.sig # "socketError"}

NoSslCall == posted \in Seq(CalmCall)
NoSslSignal == events \in Seq(CalmSignal)

Plain == tls = "plain" /\ sslSlots = 0 /\ ~sslVersion /\ NoSslCall /\ NoSslSignal
Securing ==
  /\ ~sslVersion
  /\ \/ /\ tls = "plain" /\ sslSlots = 0
        /\ Among(posted, CalmCall, {"doStartSsl"}, CalmCall) /\ NoSslSignal
     \/ tls = "handshake" /\ sslSlots = 1 /\ NoSslCall /\ NoSslSignal
     \/ tls = "encrypted" /\ NoSslCall /\ Among(events, CalmSignal, SslSignal, CalmSignal)
     \/ /\ tls = "encrypted" /\ NoSslSignal
        /\ Among(posted, CalmCall, {"sslErrorIgnored", "sslErrorRefused"}, CalmCall)
PastTls == LoginRuns /\ job[currentJob].phase = "started"
             => job[currentJob].step \in {"Capability", "Login"}
Secured == tls # "handshake" /\ sslVersion /\ NoSslCall /\ NoSslSignal /\ PastTls

Talking ==
  /\ state # "Disconnected" /\ isSocketConnected /\ server.phase # "greeting"
  /\ \/ (Plain \/ Secured) /\ (Rest \/ Asking \/ Holding \/ Replying)
     \/ Securing /\ Rest /\ jobRunning

-----------------------------------------------------------------------------
(* Before the greeting, which tells the session the server's state.        *)
GreetedState(c) == IF c = "OK" THEN "NotAuthenticated" ELSE "Authenticated"
Greets(l) == l.code \in Welcome /\ server.phase = GreetedState(l.code)
GreetingSignal == {e \in Signal : e.sig = "responseReceived" /\ Greets(e.response)}

Silent == /\ written = <<>> /\ dataQueue = <<>> /\ Forgotten
          /\ currentMailBox = NoJob /\ sslSlots = 0 /\ ~sslVersion

Opening ==
  /\ Ungreeted /\ Silent /\ Plain /\ NoReply(StarLine)
  /\ server.idle = NoTag /\ server.box = NoJob
  /\ \/ /\ server.phase = "greeting" /\ Unread = <<>> /\ events \in Seq(OpeningSignal)
     \/ /\ Unread # <<>> /\ Greets(Head(Unread).line) /\ events \in Seq(OpeningSignal)
     \/ Among(events, OpeningSignal, GreetingSignal, Signal)
     \/ server.phase = "Logout"

(* After the end of the connection only what the server had sent before is *)
(* heard.                                                                  *)
Echo == /\ ~jobRunning => NoReply(StarLine)
        /\ \/ NoReply(Chatter)
           \/ state # "Disconnected" /\ \E r \in ReplyLine : ReplyComes(r) /\ Moves(r) /\ Answers(r)

Deletes == Deletable # {}
LoneJob == jobRunning => currentJob # NoJob /\ job[currentJob].phase = "started"

Linked == isSocketConnected \/ Told

AgreementInv ==
  /\ ~server.lineFeedDue
  /\ ~Alive => ~isSocketConnected
  /\ Alive => /\ Deletes \/ LoneJob
              /\ \/ ToConnect /\ ~isSocketConnected /\ Silent
                 \/ Up /\ (Opening \/ Talking)
                 \/ Down /\ Linked /\ (Deletes \/ Echo)
                 \/ Over

-----------------------------------------------------------------------------
(* A sequence is one of the elements it has, and so is its beginning.      *)
LEMMA SeqOfElements ==
  ASSUME NEW S, NEW s \in Seq(S), NEW A
  PROVE  /\ (\A i \in 1..Len(s) : s[i] \in A) => s \in Seq(A)
         /\ \A t \in Seq(S) : s \o t \in Seq(A) => s \in Seq(A)
<1>1. Len(s) \in Nat /\ s \in [1..Len(s) -> S]
  BY SeqDef, LenProperties
<1>2. (\A i \in 1..Len(s) : s[i] \in A) => s \in Seq(A)
  <2> SUFFICES ASSUME \A i \in 1..Len(s) : s[i] \in A PROVE s \in Seq(A)
    OBVIOUS
  <2>1. s \in [1..Len(s) -> A]
    BY <1>1
  <2>q. QED
    BY <1>1, <2>1, SeqDef
<1>3. ASSUME NEW t \in Seq(S), s \o t \in Seq(A)
      PROVE  s \in Seq(A)
  <2>1. /\ Len(t) \in Nat /\ Len(s \o t) = Len(s) + Len(t)
        /\ \A i \in 1..Len(s) : (s \o t)[i] = s[i]
    BY ConcatProperties, LenProperties
  <2>2. \A i \in 1..Len(s \o t) : (s \o t)[i] \in A
    BY <1>3, ElementOfSeq
  <2>q. QED
    BY <1>1, <1>2, <2>1, <2>2
<1>q. QED
  BY <1>2, <1>3

(* What is added behind the one of T, what is taken before it, and what is *)
(* cut off.                                                                *)
LEMMA AmongOperations ==
  ASSUME NEW S, NEW A, NEW T, NEW B, A \subseteq S, T \subseteq S, B \subseteq S
  PROVE
  /\ \A s \in Seq(A), e \in T : Among(Append(s, e), A, T, B)
  /\ \A s \in Seq(S) : Among(s, A, T, B) =>
       /\ s # <<>>
       /\ \A t \in Seq(B) : Among(s \o t, A, T, B)
       /\ \/ Head(s) \in A /\ Among(Tail(s), A, T, B)
          \/ Head(s) \in T /\ Tail(s) \in Seq(B)
       /\ \A C, U : A \subseteq C /\ T \subseteq U => Among(s, C, U, B)
  /\ \A s, t \in Seq(S) : Among(s \o t, A, T, B) => s \in Seq(A) \/ Among(s, A, T, B)
<1>1. ASSUME NEW s \in Seq(A), NEW e \in T
      PROVE  Among(Append(s, e), A, T, B)
  <2>1. s \in Seq(S)
    BY SeqMonotonic
  <2>2. /\ Len(s) \in Nat /\ Len(Append(s, e)) = Len(s) + 1
        /\ \A i \in 1..Len(s) : Append(s, e)[i] = s[i]
        /\ Append(s, e)[Len(s) + 1] = e
    BY <2>1, AppendProperties, LenProperties
  <2>3. \A i \in 1..Len(s) : s[i] \in A
    BY ElementOfSeq
  <2>4. /\ Len(s) + 1 \in 1..Len(Append(s, e)) /\ (Len(s) + 1) - 1 = Len(s)
        /\ (Len(s) + 1) + 1..Len(Append(s, e)) = {}
    BY <2>2
  <2>q. QED
    BY <2>2, <2>3, <2>4 DEF Among
<1>2. ASSUME NEW s \in Seq(S), Among(s, A, T, B)
      PROVE  /\ s # <<>>
             /\ \A t \in Seq(B) : Among(s \o t, A, T, B)
             /\ \/ Head(s) \in A /\ Among(Tail(s), A, T, B)
                \/ Head(s) \in T /\ Tail(s) \in Seq(B)
             /\ \A C, U : A \subseteq C /\ T \subseteq U => Among(s, C, U, B)
  <2>1. PICK k \in 1..Len(s) : /\ s[k] \in T
                               /\ \A i \in 1..k - 1 : s[i] \in A
                               /\ \A i \in k + 1..Len(s) : s[i] \in B
    BY <1>2 DEF Among
  <2>2. Len(s) \in Nat \ {0} /\ s # <<>>
    BY <2>1, LenProperties
  <2>3. ASSUME NEW t \in Seq(B)
        PROVE  Among(s \o t, A, T, B)
    <3>1. t \in Seq(S)
      BY SeqMonotonic
    <3>2. /\ Len(t) \in Nat /\ Len(s \o t) = Len(s) + Len(t)
          /\ \A i \in 1..Len(s) + Len(t) : (s \o t)[i] = IF i <= Len(s) THEN s[i] ELSE t[i - Len(s)]
      BY <3>1, ConcatProperties, LenProperties
    <3>3. \A i \in 1..Len(t) : t[i] \in B
      BY ElementOfSeq
    <3>4. \A i \in k + 1..Len(s) + Len(t) : (s \o t)[i] \in B
      <4> TAKE i \in k + 1..Len(s) + Len(t)
      <4>1. CASE i <= Len(s)
        BY <2>1, <2>2, <3>2, <4>1
      <4>2. CASE i > Len(s)
        <5>1. i - Len(s) \in 1..Len(t)
          BY <2>1, <2>2, <3>2, <4>2
        <5>2. (s \o t)[i] = t[i - Len(s)]
          BY <2>1, <2>2, <3>2, <4>2
        <5>q. QED
          BY <3>3, <5>1, <5>2
      <4>q. QED
        BY <2>2, <4>1, <4>2
    <3>5. k \in 1..Len(s \o t) /\ (s \o t)[k] = s[k] /\ \A i \in 1..k - 1 : (s \o t)[i] = s[i]
      BY <2>1, <2>2, <3>2
    <3>q. QED
      BY <2>1, <3>2, <3>4, <3>5 DEF Among
  <2>4. (Head(s) \in A /\ Among(Tail(s), A, T, B)) \/ (Head(s) \in T /\ Tail(s) \in Seq(B))
    <3>1. /\ Head(s) = s[1] /\ Tail(s) \in Seq(S) /\ Len(Tail(s)) = Len(s) - 1
          /\ \A i \in 1..Len(Tail(s)) : Tail(s)[i] = s[i + 1]
      BY <2>2, HeadTailProperties
    <3>2. CASE k = 1
      <4>1. \A i \in 1..Len(Tail(s)) : Tail(s)[i] \in B
        BY <2>1, <2>2, <3>1, <3>2
      <4>2. Tail(s) \in Seq(B)
        BY <3>1, <4>1, SeqOfElements
      <4>q. QED
        BY <2>1, <3>1, <3>2, <4>2
    <3>3. CASE k # 1
      <4> DEFINE m == k - 1
      <4>1. m \in 1..Len(Tail(s)) /\ Tail(s)[m] \in T
        BY <2>1, <2>2, <3>1, <3>3
      <4>2. \A i \in 1..m - 1 : Tail(s)[i] \in A
        BY <2>1, <2>2, <3>1
      <4>3. \A i \in m + 1..Len(Tail(s)) : Tail(s)[i] \in B
        BY <2>1, <2>2, <3>1
      <4>4. Head(s) \in A
        BY <2>1, <2>2, <3>1, <3>3
      <4> HIDE DEF m
      <4>5. Among(Tail(s), A, T, B)
        BY <4>1, <4>2, <4>3 DEF Among
      <4>q. QED
        BY <4>4, <4>5
    <3>q. QED
      BY <3>2, <3>3
  <2>5. \A C, U : A \subseteq C /\ T \subseteq U => Among(s, C, U, B)
    BY <2>1 DEF Among
  <2>q. QED
    BY <2>2, <2>3, <2>4, <2>5
<1>3. ASSUME NEW s \in Seq(S), NEW t \in Seq(S), Among(s \o t, A, T, B)
      PROVE  s \in Seq(A) \/ Among(s, A, T, B)
  <2>1. /\ Len(s) \in Nat /\ Len(t) \in Nat /\ Len(s \o t) = Len(s) + Len(t)
        /\ \A i \in 1..Len(s) : (s \o t)[i] = s[i]
    BY ConcatProperties, LenProperties
  <2>2. PICK k \in 1..Len(s \o t) : /\ (s \o t)[k] \in T
                                    /\ \A i \in 1..k - 1 : (s \o t)[i] \in A
                                    /\ \A i \in k + 1..Len(s \o t) : (s \o t)[i] \in B
    BY <1>3 DEF Among
  <2>3. CASE k <= Len(s)
    BY <2>1, <2>2, <2>3 DEF Among
  <2>4. CASE k > Len(s)
    <3>1. \A i \in 1..Len(s) : s[i] \in A
      BY <2>1, <2>2, <2>4
    <3>q. QED
      BY <3>1, SeqOfElements
  <2>q. QED
    BY <2>1, <2>2, <2>3, <2>4
<1>q. QED
  BY <1>1, <1>2, <1>3

(* The same, one sequence at a time: with the one of T at its end,         *)
LEMMA AmongAppend ==
  ASSUME NEW S, NEW A, NEW T, NEW B, A \subseteq S, T \subseteq S, B \subseteq S,
         NEW s \in Seq(A), NEW e \in T
  PROVE  Among(Append(s, e), A, T, B)
  BY AmongOperations

(* with others added behind it,                                            *)
LEMMA AmongConcat ==
  ASSUME NEW S, NEW A, NEW T, NEW B, A \subseteq S, T \subseteq S, B \subseteq S,
         NEW s \in Seq(S), Among(s, A, T, B), NEW t \in Seq(B)
  PROVE  Among(s \o t, A, T, B)
  BY AmongOperations

(* and as seen from its beginning.                                         *)
LEMMA AmongHead ==
  ASSUME NEW S, NEW A, NEW T, NEW B, A \subseteq S, T \subseteq S, B \subseteq S,
         NEW s \in Seq(S), Among(s, A, T, B)
  PROVE  /\ s # <<>>
         /\ \/ Head(s) \in A /\ Among(Tail(s), A, T, B)
            \/ Head(s) \in T /\ Tail(s) \in Seq(B)
  BY AmongOperations

-----------------------------------------------------------------------------
(* The kinds of lines and of signals.                                      *)
LEMMA KindsOfLines ==
  /\ \A X : /\ StreamOf(X) \subseteq StreamLine
            /\ MuteSignal \subseteq SignalOf(X) /\ SignalOf(X) \subseteq Signal
            /\ ResponseOf(X) \subseteq Signal
  /\ \A X, Y : X \subseteq Y => /\ StreamOf(X) \subseteq StreamOf(Y)
                                /\ SignalOf(X) \subseteq SignalOf(Y)
  /\ \A X, l : l \in X /\ [sig |-> "responseReceived", response |-> l] \in Signal =>
       /\ [sig |-> "responseReceived", response |-> l] \in SignalOf(X)
       /\ [sig |-> "responseReceived", response |-> l] \in ResponseOf(X)
  BY DEF StreamOf, SignalOf, ResponseOf, MuteSignal

(* Signals are added behind those there are.                               *)
LEMMA SignalsCome ==
  ASSUME NEW lines \in Seq(StreamLine), NEW signals \in Seq(Signal), NEW X,
         NEW t \in Seq(MuteSignal)
  PROVE  /\ Clear(lines, signals, X) => Clear(lines, signals \o t, X)
         /\ \A r : Comes(lines, signals, X, r) => Comes(lines, signals \o t, X, r)
<1>1. t \in Seq(SignalOf(X)) /\ t \in Seq(SignalOf(StarLine))
  BY KindsOfLines, SeqMonotonic
<1>2. signals \in Seq(SignalOf(X)) => signals \o t \in Seq(SignalOf(X))
  BY <1>1, SequenceOperations
<1>3. \A r : Among(signals, SignalOf(X), ResponseOf({r}), SignalOf(StarLine))
               => Among(signals \o t, SignalOf(X), ResponseOf({r}), SignalOf(StarLine))
  BY <1>1, KindsOfLines, AmongOperations
<1>q. QED
  BY <1>2, <1>3 DEF Clear, Comes

(* A line is parsed.                                                       *)
LEMMA LineIsParsed ==
  ASSUME NEW lines \in Seq(StreamLine), NEW signals \in Seq(Signal), NEW X, lines # <<>>,
         NEW e \in Signal, e = [sig |-> "responseReceived", response |-> Head(lines).line]
  PROVE  /\ Clear(lines, signals, X) => Clear(Tail(lines), Append(signals, e), X)
         /\ \A r : Comes(lines, signals, X, r) => Comes(Tail(lines), Append(signals, e), X, r)
<1>1. /\ Head(lines) \in StreamLine /\ Tail(lines) \in Seq(StreamLine)
      /\ \A Y : Head(lines) \in StreamOf(Y) => e \in SignalOf(Y) /\ e \in ResponseOf(Y)
  BY SequenceOperations, KindsOfLines DEF StreamOf
<1>2. \A Y : /\ lines \in Seq(StreamOf(Y)) => Head(lines) \in StreamOf(Y) /\ Tail(lines) \in Seq(StreamOf(Y))
             /\ signals \in Seq(SignalOf(Y)) /\ e \in SignalOf(Y)
                  => Append(signals, e) \in Seq(SignalOf(Y))
  BY SequenceOperations
<1>3. Clear(lines, signals, X) => Clear(Tail(lines), Append(signals, e), X)
  BY <1>1, <1>2 DEF Clear
<1>4. ASSUME NEW r, Comes(lines, signals, X, r)
      PROVE  Comes(Tail(lines), Append(signals, e), X, r)
  <2>1. CASE /\ signals \in Seq(SignalOf(X))
             /\ Among(lines, StreamOf(X), StreamOf({r}), StreamOf(StarLine))
    <3>0. /\ StreamOf(X) \subseteq StreamLine /\ StreamOf({r}) \subseteq StreamLine
          /\ StreamOf(StarLine) \subseteq StreamLine
      BY KindsOfLines
    <3>1. \/ /\ Head(lines) \in StreamOf(X)
             /\ Among(Tail(lines), StreamOf(X), StreamOf({r}), StreamOf(StarLine))
          \/ Head(lines) \in StreamOf({r}) /\ Tail(lines) \in Seq(StreamOf(StarLine))
      BY <2>1, <3>0, AmongHead
    <3>2. e \in ResponseOf({r}) => Among(Append(signals, e), SignalOf(X), ResponseOf({r}), SignalOf(StarLine))
      <4>1. /\ SignalOf(X) \subseteq Signal /\ ResponseOf({r}) \subseteq Signal
            /\ SignalOf(StarLine) \subseteq Signal
        BY KindsOfLines
      <4>q. QED
        BY <2>1, <4>1, AmongAppend
    <3>q. QED
      BY <1>1, <1>2, <2>1, <3>1, <3>2 DEF Comes
  <2>2. CASE /\ Among(signals, SignalOf(X), ResponseOf({r}), SignalOf(StarLine))
             /\ lines \in Seq(StreamOf(StarLine))
    <3>1. e \in SignalOf(StarLine) /\ Tail(lines) \in Seq(StreamOf(StarLine))
      BY <1>1, <1>2, <2>2
    <3>2. <<e>> \in Seq(SignalOf(StarLine)) /\ Append(signals, e) = signals \o <<e>>
      BY <3>1, SequenceOperations, AppendIsConcat
    <3>3. Among(Append(signals, e), SignalOf(X), ResponseOf({r}), SignalOf(StarLine))
      <4>1. /\ SignalOf(X) \subseteq Signal /\ ResponseOf({r}) \subseteq Signal
            /\ SignalOf(StarLine) \subseteq Signal
        BY KindsOfLines
      <4>q. QED
        BY <2>2, <3>2, <4>1, AmongConcat
    <3>q. QED
      BY <3>1, <3>3 DEF Comes
  <2>q. QED
    BY <1>4, <2>1, <2>2 DEF Comes
<1>q. QED
  BY <1>3, <1>4

(* The end of what there was to read is lost.                              *)
LEMMA LinesAreLost ==
  ASSUME NEW lines \in Seq(StreamLine), NEW more \in Seq(StreamLine), NEW signals, NEW X
  PROVE  /\ Clear(lines \o more, signals, X) => Clear(lines, signals, X)
         /\ \A r : Comes(lines \o more, signals, X, r) =>
                     Comes(lines, signals, X, r) \/ Clear(lines, signals, X)
<1>1. \A Y : lines \o more \in Seq(StreamOf(Y)) => lines \in Seq(StreamOf(Y))
  BY SeqOfElements
<1>2. \A r : Among(lines \o more, StreamOf(X), StreamOf({r}), StreamOf(StarLine)) =>
               \/ lines \in Seq(StreamOf(X))
               \/ Among(lines, StreamOf(X), StreamOf({r}), StreamOf(StarLine))
  BY AmongOperations, KindsOfLines
<1>q. QED
  BY <1>1, <1>2 DEF Clear, Comes

(* The main thread takes the first signal.                                 *)
LEMMA SignalIsTaken ==
  ASSUME NEW lines, NEW signals \in Seq(Signal), NEW X, signals # <<>>
  PROVE  /\ Clear(lines, signals, X) => Head(signals) \in SignalOf(X) /\ Clear(lines, Tail(signals), X)
         /\ \A r : Comes(lines, signals, X, r) =>
              \/ Head(signals) \in SignalOf(X) /\ Comes(lines, Tail(signals), X, r)
              \/ Head(signals) \in ResponseOf({r}) /\ Clear(lines, Tail(signals), StarLine)
<1>1. \A Y : signals \in Seq(SignalOf(Y)) => Head(signals) \in SignalOf(Y) /\ Tail(signals) \in Seq(SignalOf(Y))
  BY SequenceOperations
<1>2. \A r : Among(signals, SignalOf(X), ResponseOf({r}), SignalOf(StarLine)) =>
        \/ /\ Head(signals) \in SignalOf(X)
           /\ Among(Tail(signals), SignalOf(X), ResponseOf({r}), SignalOf(StarLine))
        \/ Head(signals) \in ResponseOf({r}) /\ Tail(signals) \in Seq(SignalOf(StarLine))
  BY AmongOperations, KindsOfLines
<1>q. QED
  BY <1>1, <1>2 DEF Clear, Comes

(* The server adds untagged lines, or an answer.                           *)
LEMMA LinesArrive ==
  ASSUME NEW lines \in Seq(StreamLine), NEW signals \in Seq(Signal), NEW X, StarLine \subseteq X
  PROVE  /\ \A t \in Seq(StreamOf(X)) :
              Clear(lines, signals, X) => Clear(lines \o t, signals, X)
         /\ \A t \in Seq(StreamOf(StarLine)) :
              \A r : Comes(lines, signals, X, r) => Comes(lines \o t, signals, X, r)
         /\ \A t \in Seq(StreamOf(StarLine)), l \in StreamLine :
              Clear(lines, signals, X) => Comes(lines \o Append(t, l), signals, X, l.line)
<1>1. \A t \in Seq(StreamOf(X)) : Clear(lines, signals, X) => Clear(lines \o t, signals, X)
  BY SequenceOperations DEF Clear
<1>2. ASSUME NEW t \in Seq(StreamOf(StarLine)), NEW r, Comes(lines, signals, X, r)
      PROVE  Comes(lines \o t, signals, X, r)
  <2>1. lines \in Seq(StreamOf(StarLine)) => lines \o t \in Seq(StreamOf(StarLine))
    BY SequenceOperations
  <2>2. Among(lines, StreamOf(X), StreamOf({r}), StreamOf(StarLine))
          => Among(lines \o t, StreamOf(X), StreamOf({r}), StreamOf(StarLine))
    BY AmongOperations, KindsOfLines
  <2>q. QED
    BY <1>2, <2>1, <2>2 DEF Comes
<1>3. ASSUME NEW t \in Seq(StreamOf(StarLine)), NEW l \in StreamLine, Clear(lines, signals, X)
      PROVE  Comes(lines \o Append(t, l), signals, X, l.line)
  <2>1. /\ StreamOf(StarLine) \subseteq StreamOf(X) /\ StreamOf(X) \subseteq StreamLine
        /\ t \in Seq(StreamLine)
    BY KindsOfLines, SeqMonotonic
  <2>2. t \in Seq(StreamOf(X))
    BY <2>1, SeqMonotonic
  <2>3. lines \o Append(t, l) = Append(lines \o t, l)
    <3>1. /\ Append(t, l) = t \o <<l>> /\ <<l>> \in Seq(StreamLine) /\ lines \o t \in Seq(StreamLine)
      BY <2>1, AppendIsConcat, SequenceOperations
    <3>2. Append(lines \o t, l) = (lines \o t) \o <<l>>
      BY <3>1, AppendIsConcat
    <3>3. (lines \o t) \o <<l>> = lines \o (t \o <<l>>)
      BY <2>1, <3>1, ConcatAssociative
    <3>q. QED
      BY <3>1, <3>2, <3>3
  <2>4. lines \o t \in Seq(StreamOf(X)) /\ l \in StreamOf({l.line})
    BY <1>3, <2>2, SequenceOperations DEF Clear, StreamOf
  <2>5. Among(Append(lines \o t, l), StreamOf(X), StreamOf({l.line}), StreamOf(StarLine))
    <3>1. StreamOf({l.line}) \subseteq StreamLine /\ StreamOf(StarLine) \subseteq StreamLine
      BY KindsOfLines
    <3>q. QED
      BY <2>1, <2>4, <3>1, AmongAppend
  <2>q. QED
    BY <1>3, <2>3, <2>5 DEF Clear, Comes
<1>q. QED
  BY <1>1, <1>2, <1>3

(* More may be among the lines.                                            *)
LEMMA MoreLines ==
  ASSUME NEW lines \in Seq(StreamLine), NEW signals \in Seq(Signal), NEW X, NEW Y, X \subseteq Y
  PROVE  /\ Clear(lines, signals, X) => Clear(lines, signals, Y)
         /\ \A r : Comes(lines, signals, X, r) => Comes(lines, signals, Y, r)
<1>1. StreamOf(X) \subseteq StreamOf(Y) /\ SignalOf(X) \subseteq SignalOf(Y)
  BY KindsOfLines
<1>2. /\ lines \in Seq(StreamOf(X)) => lines \in Seq(StreamOf(Y))
      /\ signals \in Seq(SignalOf(X)) => signals \in Seq(SignalOf(Y))
  BY <1>1, SeqMonotonic
<1>3. \A r : /\ Among(lines, StreamOf(X), StreamOf({r}), StreamOf(StarLine))
                  => Among(lines, StreamOf(Y), StreamOf({r}), StreamOf(StarLine))
             /\ Among(signals, SignalOf(X), ResponseOf({r}), SignalOf(StarLine))
                  => Among(signals, SignalOf(Y), ResponseOf({r}), SignalOf(StarLine))
  BY <1>1 DEF Among
<1>q. QED
  BY <1>2, <1>3 DEF Clear, Comes

-----------------------------------------------------------------------------
(* What a handler of the session does to the conversation.  It listens,    *)
(* and says nothing but DONE; or it says the next command of the current   *)
(* job; or it falls silent; or it has the connection encrypted.            *)
SameTask == /\ job'[currentJob].phase = job[currentJob].phase
            /\ job'[currentJob].step = job[currentJob].step
            /\ job'[currentJob].tags = job[currentJob].tags

Listens ==
  /\ UNCHANGED <<state, currentMailBox, pendingTag, upcomingMailBox, jobRunning>>
  /\ UNCHANGED dataQueue \/ \E cmd \in DoneCommand : dataQueue' = Append(dataQueue, cmd)
  /\ \/ currentJob' = NoJob /\ (currentJob = NoJob \/ Deletes)
     \/ currentJob' = currentJob /\ currentJob # NoJob /\ SameTask

Speaks(pt) ==
  /\ jobRunning' /\ Post("writeDataQueue")
  /\ currentJob' # NoJob /\ job'[currentJob'].phase = "started"
  /\ \E cmd \in TaggedCommand :
       /\ dataQueue' = Append(dataQueue, cmd)
       /\ pendingTag' = [v \in TrackedVerb |-> IF v = cmd.verb THEN cmd.tag ELSE pt[v]]
       /\ cmd.verb = "SELECT" => upcomingMailBox' = cmd.box
       /\ Suits(cmd)'
  /\ sslVersion /\ PastTls => PastTls'

Silences(pt) == /\ pendingTag' = pt
                /\ UNCHANGED <<posted, dataQueue>>
                /\ ~jobRunning' \/ UNCHANGED runVars

Secures(pt) == /\ pendingTag' = pt
               /\ Post("doStartSsl")
               /\ UNCHANGED <<runVars, dataQueue>>
               /\ ~PastTls

(* doStartNext() starts a job, whose first command suits it, or finds none *)
(* to start.                                                               *)
LEMMA StartNextSpeaks ==
  ASSUME Orderly, tagCount \in CommandTag, NEW q \in Seq(Jobs), NEW cur,
         NEW jobs \in [Jobs -> JobRecord], NEW st, NEW pt, NEW t,
         StartNext(q, cur, jobs, st, pt, t)
  PROVE  Speaks(pt) \/ Silences(pt)
<1>1. PICK n \in 0..Len(q) :
        LET refused == {q[i] : i \in 1..n}
            jobs2 == [j \in Jobs |-> IF j \in refused THEN Ended(jobs[j], TRUE) ELSE jobs[j]]
        IN \/ jobRunning' = FALSE /\ NoCommand(pt)
           \/ /\ n < Len(q)
              /\ jobRunning' = TRUE
              /\ currentJob' = q[n + 1]
              /\ \E t2 : DoStart(q[n + 1], jobs2, pt, t2)
  BY DEF StartNext
<1> DEFINE refused == {q[i] : i \in 1..n}
           jobs2 == [j \in Jobs |-> IF j \in refused THEN Ended(jobs[j], TRUE) ELSE jobs[j]]
<1>2. CASE jobRunning' = FALSE /\ NoCommand(pt)
  BY <1>2 DEF NoCommand, Silences
<1>3. CASE /\ n < Len(q) /\ jobRunning' = TRUE /\ currentJob' = q[n + 1]
           /\ \E t2 : DoStart(q[n + 1], jobs2, pt, t2)
  <2> DEFINE j == q[n + 1]
  <2>0. PICK cmd : cmd = [tag |-> NextTag, verb |-> FirstCommand(j),
                          box |-> IF Kind[j] = "select" THEN j ELSE NoJob]
    OBVIOUS
  <2>1. j \in Jobs /\ j # NoJob /\ Kind[j] \in JobKind \ {"tls"} /\ currentJob' = j
    <3>1. n + 1 \in 1..Len(q)
      BY <1>3, LenProperties
    <3>q. QED
      BY <1>3, <3>1, ElementOfSeq, LinkAssumption, SessionAssumption DEF Orderly
  <2>2. jobs2 \in [Jobs -> JobRecord]
    BY JobOperations
  <2>3. PICK t2 : DoStart(j, jobs2, pt, t2)
    BY <1>3
  <2> HIDE DEF j, jobs2
  <2>4. /\ FirstCommand(j) \in {"LOGIN", "CAPABILITY", "SELECT", "CLOSE", "IDLE", "LOGOUT", "NOOP"}
        /\ Kind[j] \in LoginKind => FirstCommand(j) \in {"LOGIN", "CAPABILITY"}
        /\ Kind[j] \in LoginKind /\ FirstStep(j) = "Login" => FirstCommand(j) = "LOGIN"
        /\ Kind[j] \in LoginKind /\ sslVersion => FirstStep(j) = "Capability"
        /\ Kind[j] = "select" => FirstCommand(j) = "SELECT"
    BY <2>1 DEF FirstCommand, FirstStep, SkipsNegotiation, CommandOf, LoginKind, JobKind
  <2>5. SendCommand(FirstCommand(j), IF Kind[j] = "select" THEN j ELSE NoJob, pt)
    BY <2>3, <2>4 DEF DoStart
  <2>6. cmd \in TaggedCommand
    <3>1. NextTag \in CommandTag
      BY NextTagType
    <3>q. QED
      BY <2>0, <2>1, <2>4, <3>1 DEF TaggedCommand, Command, Tag, Verb
  <2>7. /\ job'[j].phase = "started" /\ job'[j].step = FirstStep(j)
        /\ NextTag \in job'[j].tags
    <3>1. /\ jobs2[j] \in JobRecord /\ FirstCommand(j) # "none"
          /\ job' = [jobs2 EXCEPT ![j].phase = "started",
                         ![j].step = FirstStep(j),
                         ![j].tags = IF FirstCommand(j) = "none" THEN @ ELSE @ \cup {NextTag},
                         ![j].saved = IF Kind[j] = "idle" THEN t2.interval ELSE @]
      BY <2>1, <2>2, <2>3, <2>4 DEF DoStart
    <3>q. QED
      BY <2>1, <2>2, <3>1 DEF JobRecord
  <2>8. Suits(cmd)'
    <3>1. /\ cmd.tag = NextTag /\ cmd.verb = FirstCommand(j)
          /\ cmd.box = IF Kind[j] = "select" THEN j ELSE NoJob
      BY <2>0
    <3>2. NextTag \in job'[currentJob'].tags /\ job'[currentJob'].phase = "started"
      BY <2>1, <2>7
    <3>3. Kind[currentJob'] \in LoginKind => cmd.verb # "IDLE" /\ (job'[currentJob'].step = "Login" => cmd.verb = "LOGIN")
      BY <2>1, <2>4, <2>7, <3>1
    <3>4. Kind[currentJob'] = "select" => cmd.verb = "SELECT" /\ cmd.box = currentJob'
      BY <2>1, <2>4, <3>1
    <3>q. QED
      BY <3>1, <3>2, <3>3, <3>4 DEF Suits, Expects, LoginRuns, SelectRuns
  <2>9. sslVersion => PastTls'
    BY <2>1, <2>4, <2>7 DEF PastTls, LoginRuns
  <2>10. /\ Post("writeDataQueue") /\ dataQueue' = Append(dataQueue, cmd)
         /\ pendingTag' = [v \in TrackedVerb |-> IF v = cmd.verb THEN cmd.tag ELSE pt[v]]
         /\ cmd.verb = "SELECT" => upcomingMailBox' = cmd.box
    BY <2>0, <2>5 DEF SendCommand
  <2>q. QED
    BY <1>3, <2>1, <2>6, <2>7, <2>8, <2>9, <2>10 DEF Speaks
<1>q. QED
  BY <1>1, <1>2, <1>3

(* The end of the current job starts the next.                             *)
LEMMA FinishSpeaks ==
  ASSUME Orderly, RunTypeOK, QueueSound, NEW j \in Jobs, j = currentJob, NEW failed \in BOOLEAN,
         NEW st, NEW pt, Finish(j, failed, st, pt)
  PROVE  Speaks(pt) \/ Silences(pt)
<1>1. PICK late \in FromSlot :
        StartNext(queue \o late, NoJob, JobsLeft(j, failed, late), st, pt, TimerLeft(j))
  BY DEF Finish, JobsLeft, TimerLeft
<1>2. queue \o late \in Seq(Jobs) /\ JobsLeft(j, failed, late) \in [Jobs -> JobRecord]
  BY FinishLeaves
<1>3. tagCount \in CommandTag
  BY DEF RunTypeOK
<1>q. QED
  BY <1>1, <1>2, <1>3, StartNextSpeaks

(* A login goes on with its next command.                                  *)
LEMMA ContinueSpeaks ==
  ASSUME RunTypeOK, jobRunning, NEW j \in Jobs, j = currentJob, Kind[j] \in LoginKind,
         job[j].phase = "started", NEW verb \in {"CAPABILITY", "STARTTLS", "LOGIN"}, NEW step \in Step,
         step = "Login" => verb = "LOGIN", NEW pt, Continue(j, verb, step, pt),
         sslVersion /\ PastTls => step \in {"Capability", "Login"}
  PROVE  /\ Speaks(pt) /\ UNCHANGED <<currentJob, jobRunning>>
         /\ job'[j].phase = "started" /\ job'[j].step = step
<1>1. PICK cmd : cmd = [tag |-> NextTag, verb |-> verb, box |-> NoJob]
  OBVIOUS
<1>2. NextTag \in CommandTag /\ j # NoJob
  BY NextTagType, LinkAssumption DEF RunTypeOK
<1>3. cmd \in TaggedCommand /\ cmd.verb = verb /\ cmd.tag = NextTag
  BY <1>1, <1>2 DEF TaggedCommand, Command, Tag, Verb
<1>4. /\ job'[j].phase = "started" /\ job'[j].step = step /\ NextTag \in job'[j].tags
      /\ jobRunning' /\ currentJob' = j
  <2>1. job[j] \in JobRecord /\ job' = [job EXCEPT ![j].step = step, ![j].tags = @ \cup {NextTag}]
    BY DEF RunTypeOK, Continue
  <2>q. QED
    BY <2>1 DEF Continue, JobRecord, RunTypeOK
<1>5. Suits(cmd)'
  <2>1. Kind[currentJob'] # "select"
    BY <1>4 DEF LoginKind
  <2>q. QED
    BY <1>3, <1>4, <2>1 DEF Suits, Expects, LoginRuns, SelectRuns
<1>6. PastTls' <=> step \in {"Capability", "Login"}
  BY <1>2, <1>4 DEF PastTls, LoginRuns
<1>7. /\ Post("writeDataQueue") /\ dataQueue' = Append(dataQueue, cmd)
      /\ pendingTag' = [v \in TrackedVerb |-> IF v = cmd.verb THEN cmd.tag ELSE pt[v]]
      /\ cmd.verb # "SELECT"
  BY <1>1 DEF Continue, SendCommand
<1>q. QED
  BY <1>2, <1>3, <1>4, <1>5, <1>6, <1>7 DEF Speaks, Continue

(* The current job's own answer ends the turn of the server.               *)
LEMMA OwnReplySpeaks ==
  ASSUME Orderly, RunTypeOK, QueueSound, NEW j \in Jobs, j = currentJob,
         job[j].phase = "started", NEW r \in ReplyLine, r.tag \in job[j].tags,
         NEW st, NEW pt, HandleResponse(j, r, st, pt)
  PROVE  Speaks(pt) \/ Silences(pt) \/ Secures(pt)
<1>1. /\ r.tag # Star /\ r.tag # Plus /\ r # Blank /\ jobRunning
  <2>1. r.tag \in 0..TagModulus - 1 /\ TagModulus \in Nat
    BY LinkAssumption DEF ReplyLine, CommandTag
  <2>q. QED
    BY <2>1 DEF Blank, Reply, NoTag, Star, Plus, QueueSound
<1>2. ASSUME NEW failed \in BOOLEAN, Finish(j, failed, st, pt)
      PROVE  Speaks(pt) \/ Silences(pt)
  BY <1>2, FinishSpeaks
<1>3. CASE Kind[j] \notin LoginKind
  <2>1. Finish(j, r.code \notin {"OK", "none"}, st, pt)
    BY <1>3 DEF HandleResponse, PlainResponse
  <2>q. QED
    BY <1>2, <2>1
<1>4. CASE Kind[j] \in LoginKind
  <2>1. \/ Finish(j, FALSE, st, pt) \/ Finish(j, TRUE, st, pt)
        \/ LoginStep(j, st, pt)
    BY <1>1, <1>4 DEF HandleResponse, LoginResponse
  <2>2. CASE LoginStep(j, st, pt)
    <3>1. PastTls <=> job[j].step \in {"Capability", "Login"}
      BY <1>4, LinkAssumption DEF PastTls, LoginRuns
    <3>2. CASE job[j].step = "PreStartTlsCapability" /\ Continue(j, "STARTTLS", "StartTls", pt)
      BY <1>1, <1>4, <3>1, <3>2, ContinueSpeaks DEF Step
    <3>3. CASE job[j].step = "Capability" /\ Continue(j, "LOGIN", "Login", pt)
      BY <1>1, <1>4, <3>3, ContinueSpeaks DEF Step
    <3>4. CASE /\ job[j].step = "StartTls" /\ Post("doStartSsl") /\ pendingTag' = pt
               /\ UNCHANGED <<runVars, dataQueue>>
      BY <3>1, <3>4 DEF Secures
    <3>5. CASE Finish(j, TRUE, st, pt) \/ Finish(j, FALSE, st, pt)
      BY <1>2, <3>5
    <3>q. QED
      BY <2>2, <3>2, <3>3, <3>4, <3>5 DEF LoginStep
  <2>q. QED
    BY <1>2, <2>1, <2>2
<1>q. QED
  BY <1>3, <1>4

-----------------------------------------------------------------------------
CalmPost == UNCHANGED posted \/ \E call \in CalmCall : Post(call)

(* responseReceived() of an untagged line, which a session that has been   *)
(* greeted only listens to,                                                *)
LEMMA UntaggedIsHeard ==
  ASSUME ConnectionInv, ResponseReceived, state # "Disconnected", NEW r, r = Head(events).response,
         r \in StarLine \/ (r \in PlusLine /\ ~LoginRuns)
  PROVE  Listens /\ UNCHANGED posted
<1>1. /\ r.tag \in {Star, Plus} /\ r.tag \notin CommandTag /\ r.tag \notin Tag /\ r # Blank
      /\ r.tag = Star => r.code # "none"
  BY LinkAssumption DEF StarLine, PlusLine, Star, Plus, CommandTag, NoTag, Tag, Blank, Reply
<1>2. \A v \in TrackedVerb : pendingTag[v] # r.tag
  BY <1>1 DEF ConnectionInv, SessionInv, RunTypeOK
<1>3. ClearTags(pendingTag, r.tag) = pendingTag
  BY <1>2 DEF ClearTags, ConnectionInv, SessionInv, RunTypeOK
<1>4. NextState(r) = state /\ NextMailBox(r) = currentMailBox
  BY <1>2 DEF NextState, NextMailBox, TrackedVerb
<1>5. CASE r.code = "BYE"
  BY <1>5 DEF ResponseReceived, runVars, mailVars, tagVars, Listens, SameTask
<1>6. CASE r.code # "BYE"
  <2>1. /\ UNCHANGED <<state, currentMailBox>>
        /\ \/ currentJob # NoJob /\ HandleResponse(currentJob, r, state', pendingTag)
           \/ currentJob = NoJob /\ UNCHANGED <<runVars, timer>> /\ NoCommand(pendingTag)
    BY <1>3, <1>4, <1>6 DEF ResponseReceived
  <2>2. ASSUME currentJob # NoJob, HandleResponse(currentJob, r, state', pendingTag)
        PROVE  Ignored(pendingTag)
    <3>1. r.tag \notin job[currentJob].tags
      BY <1>1, <2>2 DEF ConnectionInv, SessionInv, RunTypeOK, JobRecord
    <3>2. CASE Kind[currentJob] \in LoginKind
      <4>1. r.tag = Star /\ r.tag # Plus
        BY <1>1, <2>2, <3>2 DEF LoginRuns, PlusLine, Star, Plus, StarLine
      <4>q. QED
        BY <1>1, <2>2, <3>1, <3>2, <4>1 DEF HandleResponse, LoginResponse
    <3>3. CASE Kind[currentJob] \notin LoginKind
      BY <2>2, <3>1, <3>3 DEF HandleResponse, PlainResponse
    <3>q. QED
      BY <3>2, <3>3
  <2>3. UNCHANGED runVars /\ NoCommand(pendingTag)
    BY <2>1, <2>2 DEF Ignored
  <2>q. QED
    BY <2>1, <2>3 DEF NoCommand, runVars, Listens, SameTask
<1>q. QED
  BY <1>5, <1>6

(* of the first line of a connection, which is the greeting,               *)
LEMMA FirstLineIsHeard ==
  ASSUME Orderly, ConnectionInv, ResponseReceived, state = "Disconnected",
         NEW r, r = Head(events).response
  PROVE  /\ r.code \notin Welcome => Listens /\ UNCHANGED dataQueue /\ CalmPost
         /\ r.code \in Welcome =>
              /\ state' = GreetedState(r.code) /\ UNCHANGED currentMailBox
              /\ Speaks(pendingTag) \/ Silences(pendingTag)
<1>1. "doCloseSocket" \in CalmCall
  BY DEF CalmCall, UpCall, SslCall, Call
<1>2. CASE r.code = "BYE"
  BY <1>2 DEF ResponseReceived, runVars, mailVars, tagVars, Listens, SameTask, CalmPost, Welcome
<1>3. CASE r.code \notin Welcome /\ r.code # "BYE"
  <2>1. UNCHANGED <<state, runVars, tagVars, dataQueue, currentMailBox>> /\ Post("doCloseSocket")
    BY <1>3 DEF ResponseReceived, Greeting, Welcome
  <2>q. QED
    BY <1>1, <1>3, <2>1 DEF runVars, tagVars, Listens, SameTask, CalmPost
<1>4. CASE r.code \in Welcome
  <2>1. Greeting(r) /\ UNCHANGED currentMailBox
    BY <1>4 DEF ResponseReceived, Welcome
  <2>2. state' = GreetedState(r.code)
    BY <1>4, <2>1 DEF Greeting, Welcome, GreetedState
  <2>3. CASE \E t : StartNext(queue, currentJob, job, state', pendingTag, t)
    <3>1. /\ queue \in Seq(Jobs) /\ job \in [Jobs -> JobRecord] /\ tagCount \in CommandTag
      BY DEF ConnectionInv, SessionInv, RunTypeOK
    <3>q. QED
      BY <1>4, <2>1, <2>2, <2>3, <3>1, StartNextSpeaks
  <2>4. CASE UNCHANGED <<runVars, tagVars, posted, dataQueue>>
    BY <1>4, <2>1, <2>2, <2>4 DEF Silences, tagVars
  <2>q. QED
    BY <1>4, <2>1, <2>3, <2>4 DEF Greeting, Welcome
<1>q. QED
  BY <1>2, <1>3, <1>4

(* and of the answer the current job waits for.                            *)
LEMMA ReplyIsHeard ==
  ASSUME Orderly, ConnectionInv, ResponseReceived, state # "Disconnected",
         NEW r, r = Head(events).response, r \in ReplyLine, Answers(r)
  PROVE  /\ state' = NextState(r) /\ currentMailBox' = NextMailBox(r)
         /\ \/ Speaks(ClearTags(pendingTag, r.tag))
            \/ Silences(ClearTags(pendingTag, r.tag))
            \/ Secures(ClearTags(pendingTag, r.tag))
<1> DEFINE pt == ClearTags(pendingTag, r.tag)
<1>1. /\ state' = NextState(r) /\ currentMailBox' = NextMailBox(r)
      /\ \/ currentJob # NoJob /\ HandleResponse(currentJob, r, state', pt)
         \/ currentJob = NoJob /\ UNCHANGED <<runVars, timer>> /\ NoCommand(pt)
  <2>1. r.code # "BYE"
    BY ServerAssumption DEF ReplyLine
  <2>q. QED
    BY <2>1 DEF ResponseReceived
<1>2. CASE currentJob = NoJob /\ UNCHANGED <<runVars, timer>> /\ NoCommand(pt)
  BY <1>1, <1>2 DEF Silences, NoCommand
<1>3. CASE currentJob # NoJob /\ HandleResponse(currentJob, r, state', pt)
  <2>1. /\ currentJob \in Jobs /\ job[currentJob].phase = "started" /\ r.tag \in job[currentJob].tags
        /\ RunTypeOK /\ QueueSound
    BY <1>3 DEF Answers, Expects, ConnectionInv, SessionInv, RunTypeOK
  <2> HIDE DEF pt
  <2>2. Speaks(pt) \/ Silences(pt) \/ Secures(pt)
    BY <1>3, <2>1, OwnReplySpeaks
  <2>q. QED
    BY <1>1, <2>2 DEF pt
<1>q. QED
  BY <1>1, <1>2, <1>3

-----------------------------------------------------------------------------
(* The application's calls start a job where one may start, and say        *)
(* nothing else but DONE.                                                  *)
LEMMA CallsSpeak ==
  ASSUME Orderly, ConnectionInv, Application \/ Timeout, Alive'
  PROVE  /\ UNCHANGED <<isSocketConnected, sslVersion, events>>
         /\ \/ Listens /\ CalmPost /\ (~jobRunning => UNCHANGED dataQueue)
            \/ /\ state # "Disconnected" /\ ~jobRunning /\ isSocketConnected
               /\ UNCHANGED <<state, currentMailBox>>
               /\ Speaks(pendingTag) \/ Silences(pendingTag)
<1>1. {"doCloseSocket", "writeDataQueue"} \subseteq CalmCall
  BY DEF CalmCall, UpCall, SslCall, Call
<1>2. /\ RunTypeOK /\ QueueSound /\ SessionInv
      /\ job \in [Jobs -> JobRecord] /\ queue \in Seq(Jobs) /\ tagCount \in CommandTag
      /\ currentJob # NoJob => currentJob \in Jobs /\ job[currentJob].phase \in {"queued", "started"}
  BY DEF ConnectionInv, SessionInv, RunTypeOK, QueueSound, Pending
<1>3. CASE Timeout
  BY <1>1, <1>3 DEF Timeout, OnSocketTimeout, runVars, tagVars, Listens, SameTask, CalmPost
<1>4. ASSUME NEW j \in Jobs, AddJob(j)
      PROVE  /\ UNCHANGED <<isSocketConnected, sslVersion, events>>
             /\ \/ Listens /\ CalmPost /\ (~jobRunning => UNCHANGED dataQueue)
                \/ /\ state # "Disconnected" /\ ~jobRunning /\ isSocketConnected
                   /\ UNCHANGED <<state, currentMailBox>>
                   /\ Speaks(pendingTag) \/ Silences(pendingTag)
  <2> DEFINE jobs == Enqueued(job, <<j>>)
  <2>1. /\ Append(queue, j) \in Seq(Jobs) /\ jobs \in [Jobs -> JobRecord]
        /\ \A k \in Jobs \ {j} : jobs[k] = job[k]
    BY <1>2, <1>4, AddJobLeaves DEF AddJob
  <2>2. UNCHANGED <<isSocketConnected, sslVersion, events, state, currentMailBox>>
    BY <1>4 DEF AddJob, mailVars
  <2>3. CASE /\ state # "Disconnected" /\ CanStart
             /\ StartNext(Append(queue, j), currentJob, jobs, state, pendingTag, timer)
    <3> HIDE DEF jobs
    <3>q. QED
      BY <1>2, <2>1, <2>2, <2>3, StartNextSpeaks DEF CanStart
  <2>4. CASE job' = jobs /\ UNCHANGED <<jobRunning, currentJob, tagVars, timer, posted, dataQueue>>
    <3>1. currentJob # NoJob => SameTask
      BY <1>2, <1>4, <2>1, <2>4 DEF SameTask, AddJob
    <3>q. QED
      BY <2>2, <2>4, <3>1 DEF tagVars, Listens, CalmPost
  <2>q. QED
    BY <1>4, <2>3, <2>4 DEF AddJob
<1>5. ASSUME NEW j \in Deletable, DeleteJob(j)
      PROVE  /\ UNCHANGED <<isSocketConnected, sslVersion, events>>
             /\ Listens /\ CalmPost /\ (~jobRunning => UNCHANGED dataQueue)
  <2>1. currentJob # NoJob /\ currentJob # j => SameTask
    BY <1>2, <1>5 DEF DeleteJob, SameTask
  <2>q. QED
    BY <1>5, <2>1 DEF DeleteJob, mailVars, tagVars, linkVars, Listens, CalmPost, Deletes
<1>6. ASSUME NEW j \in Jobs, StopIdle(j)
      PROVE  /\ UNCHANGED <<isSocketConnected, sslVersion, events>>
             /\ Listens /\ CalmPost /\ (~jobRunning => UNCHANGED dataQueue)
  <2>1. [tag |-> NoTag, verb |-> "DONE", box |-> NoJob] \in DoneCommand
    BY DEF DoneCommand, Command, Tag, Verb
  <2>2. jobRunning
    BY <1>2, <1>6 DEF StopIdle, QueueSound
  <2>3. currentJob # NoJob => SameTask
    BY <1>2, <1>6 DEF StopIdle, SameTask, JobRecord
  <2>q. QED
    BY <1>1, <1>6, <2>1, <2>2, <2>3 DEF StopIdle, mailVars, tagVars, Listens, CalmPost
<1>7. CASE Close
  BY <1>1, <1>7 DEF Close, sessionVars, Listens, SameTask, CalmPost
<1>8. ~Spend("proxy")
  BY DEF Spend, ConnectionInv, SettingsTypeOK, Orderly
<1>9. CASE \E ms \in AppTimeouts : SetTimeout(ms)
  BY <1>9 DEF SetTimeout, mailVars, runVars, tagVars, linkVars, Listens, SameTask, CalmPost
<1>10. ~Spend("destroy")
  BY DEF Spend, Alive, ConnectionInv, SettingsTypeOK
<1>q. QED
  BY <1>3, <1>4, <1>5, <1>6, <1>7, <1>8, <1>9, <1>10 DEF Application

-----------------------------------------------------------------------------
(* The server, the socket and the secondary thread leave what the session  *)
(* remembers and waits for as it is.                                       *)
LEMMA SameSession ==
  ASSUME UNCHANGED sessionVars
  PROVE  /\ Chatter' = Chatter /\ LoginRuns' = LoginRuns /\ SelectRuns' = SelectRuns
         /\ Forgotten' = Forgotten /\ PastTls' = PastTls /\ LoneJob' = LoneJob
         /\ \A tag : Expects(tag)' = Expects(tag)
         /\ \A cmd : Remembered(cmd)' = Remembered(cmd) /\ Suits(cmd)' = Suits(cmd)
         /\ \A r : /\ Moves(r)' = Moves(r) /\ Answers(r)' = Answers(r)
                   /\ NextState(r)' = NextState(r) /\ NextMailBox(r)' = NextMailBox(r)
<1>1. /\ Chatter' = Chatter /\ LoginRuns' = LoginRuns /\ SelectRuns' = SelectRuns
      /\ \A tag : Expects(tag)' = Expects(tag)
  BY DEF sessionVars, Chatter, LoginRuns, SelectRuns, Expects
<1>2. Forgotten' = Forgotten /\ PastTls' = PastTls /\ LoneJob' = LoneJob
  BY DEF sessionVars, Forgotten, PastTls, LoginRuns, LoneJob
<1>3. \A cmd : Remembered(cmd)' = Remembered(cmd) /\ Suits(cmd)' = Suits(cmd)
  BY DEF sessionVars, Remembered, Suits, Expects, LoginRuns, SelectRuns
<1>4. \A r : NextState(r)' = NextState(r) /\ NextMailBox(r)' = NextMailBox(r)
  BY DEF sessionVars, NextState, NextMailBox
<1>5. \A r : Moves(r)' = Moves(r) /\ Answers(r)' = Answers(r)
  BY <1>4 DEF sessionVars, Moves, Answers, Expects, LoginRuns, SelectRuns, NextState
<1>q. QED
  BY <1>1, <1>2, <1>3, <1>4, <1>5

(* Whether the server accepts the command or not, its answer will lead the *)
(* session to the state that the server is in.                             *)
LEMMA AnswerPredicts ==
  ASSUME ConnectionInv, Agreed, server.phase \notin {"greeting", "Logout"},
         NEW cmd \in TaggedCommand, Remembered(cmd), Suits(cmd)
  PROVE  /\ cmd.verb # "IDLE" /\ Allowed(cmd) =>
              LET r == Reply(cmd.tag, "OK")
              IN  /\ Moves(r) /\ Answers(r)
                  /\ Accepted(cmd).idle = server.idle
                  /\ Accepted(cmd).phase # "Logout" =>
                       /\ Accepted(cmd).phase = NextState(r)
                       /\ Accepted(cmd).box = NextMailBox(r)
         /\ \A c \in Code \ {"OK"} :
              LET r == Reply(cmd.tag, c)
              IN  /\ Moves(r) /\ Answers(r)
                  /\ Rejected(cmd).idle = server.idle
                  /\ Rejected(cmd).phase # "Logout" =>
                       /\ Rejected(cmd).phase = NextState(r)
                       /\ Rejected(cmd).box = NextMailBox(r)
<1>1. /\ cmd.tag # NoTag /\ cmd.verb # "DONE"
      /\ server \in ServerRecord /\ server.phase = state /\ server.box = currentMailBox
  BY LinkAssumption DEF TaggedCommand, CommandTag, NoTag, Agreed, ConnectionInv, ServerTypeOK, ServerRecord
<1>2. \A v \in TrackedVerb : /\ pendingTag[v] = cmd.tag <=> v = cmd.verb
                             /\ pendingTag[v] \in {NoTag, cmd.tag}
  BY <1>1 DEF Remembered
<1>3. \A c : Answers(Reply(cmd.tag, c))
  <2>1. \A c : Reply(cmd.tag, c).tag = cmd.tag
    BY DEF Reply
  <2>q. QED
    BY <1>2, <2>1 DEF Suits, Answers, Remembered, TrackedVerb, Expects
<1>4. ASSUME cmd.verb # "IDLE", Allowed(cmd)
      PROVE  LET r == Reply(cmd.tag, "OK")
             IN  /\ Moves(r)
                 /\ Accepted(cmd).idle = server.idle
                 /\ Accepted(cmd).phase # "Logout" =>
                      /\ Accepted(cmd).phase = NextState(r)
                      /\ Accepted(cmd).box = NextMailBox(r)
  <2> DEFINE r == Reply(cmd.tag, "OK")
  <2>1. r.tag = cmd.tag /\ r.code = "OK"
    BY DEF Reply
  <2> HIDE DEF r
  <2>2. CASE cmd.verb = "LOGIN"
    <3>1. NextState(r) = "Authenticated" /\ NextMailBox(r) = currentMailBox
      BY <1>1, <1>2, <1>4, <2>1, <2>2 DEF Allowed, NextState, NextMailBox, TrackedVerb
    <3>2. Moves(r)
      BY <1>2, <2>1, <2>2, <3>1 DEF Moves, TrackedVerb
    <3>q. QED
      BY <1>1, <2>2, <3>1, <3>2 DEF Accepted, ServerRecord, r
  <2>3. CASE cmd.verb = "SELECT"
    <3>1. NextState(r) = "Selected" /\ NextMailBox(r) = cmd.box
      BY <1>1, <1>2, <1>4, <2>1, <2>3 DEF Allowed, NextState, NextMailBox, TrackedVerb, Remembered
    <3>2. Moves(r)
      BY <1>2, <2>1, <2>3, <3>1 DEF Moves, TrackedVerb
    <3>q. QED
      BY <1>1, <2>3, <3>1, <3>2 DEF Accepted, ServerRecord, r
  <2>4. CASE cmd.verb = "CLOSE"
    <3>1. NextState(r) = "Authenticated" /\ NextMailBox(r) = NoJob
      BY <1>1, <1>2, <1>4, <2>1, <2>4 DEF Allowed, NextState, NextMailBox, TrackedVerb
    <3>2. Moves(r)
      BY <1>2, <2>1, <2>4 DEF Moves, TrackedVerb
    <3>q. QED
      BY <1>1, <2>4, <3>1, <3>2 DEF Accepted, ServerRecord, r
  <2>5. CASE cmd.verb \notin {"LOGIN", "SELECT", "CLOSE"}
    <3>1. NextState(r) = state /\ NextMailBox(r) = currentMailBox
      BY <1>1, <1>2, <2>1, <2>5 DEF NextState, NextMailBox, TrackedVerb
    <3>2. Moves(r)
      BY <1>2, <2>1, <2>5 DEF Moves, TrackedVerb
    <3>3. /\ Accepted(cmd).idle = server.idle
          /\ Accepted(cmd).phase # "Logout" => Accepted(cmd).phase = server.phase
          /\ Accepted(cmd).box = server.box
      BY <1>1, <1>4, <2>5 DEF Accepted, ServerRecord
    <3>q. QED
      BY <1>1, <3>1, <3>2, <3>3 DEF r
  <2>q. QED
    BY <2>2, <2>3, <2>4, <2>5
<1>5. ASSUME NEW c \in Code \ {"OK"}
      PROVE  LET r == Reply(cmd.tag, c)
             IN  /\ Moves(r)
                 /\ Rejected(cmd).idle = server.idle
                 /\ Rejected(cmd).phase # "Logout" =>
                      /\ Rejected(cmd).phase = NextState(r)
                      /\ Rejected(cmd).box = NextMailBox(r)
  <2> DEFINE r == Reply(cmd.tag, c)
  <2>1. r.tag = cmd.tag /\ r.code # "OK"
    BY DEF Reply
  <2> HIDE DEF r
  <2>2. Moves(r)
    BY <1>2, <2>1 DEF Moves
  <2>3. CASE cmd.verb = "SELECT" /\ server.phase = "Selected"
    <3>1. NextState(r) = "Authenticated" /\ NextMailBox(r) = NoJob
      BY <1>1, <1>2, <2>1, <2>3 DEF NextState, NextMailBox, TrackedVerb
    <3>q. QED
      BY <1>1, <2>2, <2>3, <3>1 DEF Rejected, ServerRecord, r
  <2>4. CASE ~(cmd.verb = "SELECT" /\ server.phase = "Selected")
    <3>1. NextState(r) = state /\ NextMailBox(r) = currentMailBox
      BY <1>1, <1>2, <2>1, <2>4 DEF NextState, NextMailBox, TrackedVerb
    <3>q. QED
      BY <1>1, <2>2, <2>4, <3>1 DEF Rejected, ServerRecord, r
  <2>q. QED
    BY <2>3, <2>4
<1>q. QED
  BY <1>3, <1>4, <1>5

-----------------------------------------------------------------------------
(* The packets a server sends when it ends no packet in the middle of a    *)
(* line.                                                                   *)
Packet(ls) == [i \in DOMAIN ls |-> Whole(ls[i])]

(* They are of one line or of two.                                         *)
LEMMA PacketsOf ==
  /\ \A a \in Line : Packet(<<a>>) = <<Whole(a)>> /\ <<Whole(a)>> \in Seq(StreamLine)
  /\ \A a, b \in Line : /\ Packet(<<a, b>>) = Append(<<Whole(a)>>, Whole(b))
                        /\ Append(<<Whole(a)>>, Whole(b)) \in Seq(StreamLine)
<1>1. \A a \in Line : Whole(a) \in StreamLine
  BY DEF Whole, StreamLine
<1>2. ASSUME NEW a \in Line
      PROVE  Packet(<<a>>) = <<Whole(a)>> /\ <<Whole(a)>> \in Seq(StreamLine)
  BY <1>1, SequenceOperations DEF Packet
<1>3. ASSUME NEW a \in Line, NEW b \in Line
      PROVE  /\ Packet(<<a, b>>) = Append(<<Whole(a)>>, Whole(b))
             /\ Append(<<Whole(a)>>, Whole(b)) \in Seq(StreamLine)
  <2>1. /\ Packet(<<a, b>>) = <<Whole(a), Whole(b)>> /\ <<Whole(a), Whole(b)>> \in Seq(StreamLine)
        /\ <<Whole(a)>> \in Seq(StreamLine) /\ Whole(b) \in StreamLine
    BY <1>1, <1>2 DEF Packet
  <2>2. PICK s \in Seq(StreamLine) : s = Append(<<Whole(a)>>, Whole(b))
    BY <2>1, SequenceOperations
  <2>3. /\ Len(s) = 2 /\ s[1] = Whole(a) /\ s[2] = Whole(b)
    BY <2>1, <2>2, AppendProperties
  <2>4. s = <<Whole(a), Whole(b)>>
    BY <2>1, <2>3, SeqEqual
  <2>q. QED
    BY <2>1, <2>2, <2>4
<1>q. QED
  BY <1>2, <1>3

(* What the server may do: greet, say something by itself, or answer the   *)
(* first of the commands.                                                  *)
SendsGreeting ==
  /\ server.phase = "greeting" /\ UNCHANGED written
  /\ \E c \in Greetings :
       /\ Unread' = Unread \o <<Whole(Reply(Star, c))>>
       /\ server' = [server EXCEPT !.phase = CASE c = "OK" -> "NotAuthenticated"
                                               [] c = "PREAUTH" -> "Authenticated"
                                               [] OTHER -> "Logout"]
SendsNews ==
  /\ server.phase # "greeting" /\ UNCHANGED written
  /\ \E l \in StarLine : Unread' = Unread \o <<Whole(l)>>
  /\ server' = [server EXCEPT !.sent = @ + 1]

SendsAnswer(cmd) ==
  /\ server.phase \notin {"greeting", "Logout"}
  /\ written # <<>> /\ cmd = Head(written) /\ written' = Tail(written)
  /\ \/ /\ Allowed(cmd) /\ "OK" \in Replies
        /\ Unread' = Unread \o Packet(AcceptLines(cmd)) /\ server' = Accepted(cmd)
     \/ /\ cmd.verb \notin {"LOGOUT", "DONE"}
        /\ \E c \in Replies \ {"OK"} : Unread' = Unread \o <<Whole(Reply(cmd.tag, c))>>
        /\ server' = Rejected(cmd)

(* It does one of them.                                                    *)
LEMMA ServerSends ==
  ASSUME ConnectionInv, Orderly, ~server.lineFeedDue, Server
  PROVE  /\ UNCHANGED <<dataQueue, socket, tls, sslSlots, m_data>>
         /\ Post("readMessage") /\ Emit("socketActivity")
         /\ ~server'.lineFeedDue
         /\ SendsGreeting \/ SendsNews \/ \E cmd \in Command : SendsAnswer(cmd)
<1>1. ASSUME NEW ls, NEW next, SendLines(ls, next)
      PROVE  /\ Arrive(Packet(ls)) /\ server' = next
             /\ Packet(ls) \in Seq(StreamLine) => Unread' = Unread \o Packet(ls)
  <2>1. Arrive(Packet(ls)) /\ server' = next
    BY <1>1 DEF Orderly, SendLines, Packet
  <2>2. Packet(ls) \in Seq(StreamLine) =>
          m_data \o (buffer \o Packet(ls)) = (m_data \o buffer) \o Packet(ls)
    BY ConcatAssociative DEF ConnectionInv, ThreadTypeOK
  <2>q. QED
    BY <2>1, <2>2 DEF Arrive, Unread
<1>2. ASSUME NEW a \in Line, NEW next, SendLines(<<a>>, next)
      PROVE  Arrive(Packet(<<a>>)) /\ server' = next /\ Unread' = Unread \o <<Whole(a)>>
  BY <1>1, <1>2, PacketsOf
<1>3. server \in ServerRecord
  BY DEF ConnectionInv, ServerTypeOK, ServerRecord
<1>4. CASE Greet
  <2>1. PICK c \in Greetings :
               SendLines(<<Reply(Star, c)>>,
                 [server EXCEPT !.phase = CASE c = "OK" -> "NotAuthenticated"
                                            [] c = "PREAUTH" -> "Authenticated"
                                            [] OTHER -> "Logout"])
    BY <1>4 DEF Greet
  <2>2. Reply(Star, c) \in Line
    BY ServerAssumption DEF Reply, Line, Code
  <2>3. /\ Arrive(Packet(<<Reply(Star, c)>>)) /\ Unread' = Unread \o <<Whole(Reply(Star, c))>>
        /\ server' = [server EXCEPT !.phase = CASE c = "OK" -> "NotAuthenticated"
                                                [] c = "PREAUTH" -> "Authenticated"
                                                [] OTHER -> "Logout"]
    BY <1>2, <2>1, <2>2
  <2>q. QED
    BY <1>3, <1>4, <2>3 DEF Greet, Arrive, tlsVars, SendsGreeting, ServerRecord
<1>5. CASE SendUnsolicited
  <2>1. PICK l \in Unsolicited : SendLines(<<l>>, [server EXCEPT !.sent = @ + 1])
    BY <1>5 DEF SendUnsolicited
  <2>2. l \in StarLine /\ l \in Line
    BY DEF Orderly, StarLine
  <2>3. /\ Arrive(Packet(<<l>>)) /\ Unread' = Unread \o <<Whole(l)>>
        /\ server' = [server EXCEPT !.sent = @ + 1]
    BY <1>2, <2>1, <2>2
  <2>q. QED
    BY <1>3, <1>5, <2>2, <2>3 DEF SendUnsolicited, Arrive, tlsVars, SendsNews, ServerRecord
<1>6. CASE Answer
  <2>1. PICK cmd : cmd = Head(written)
    OBVIOUS
  <2>2. /\ server.phase \notin {"greeting", "Logout"} /\ written # <<>> /\ written' = Tail(written)
        /\ \/ /\ Allowed(cmd) /\ "OK" \in Replies
              /\ SendLines(AcceptLines(cmd), Accepted(cmd))
           \/ /\ cmd.verb \notin {"LOGOUT", "DONE"}
              /\ \E c \in Replies \ {"OK"} : SendLines(<<Reply(cmd.tag, c)>>, Rejected(cmd))
    BY <1>6, <2>1 DEF Answer
  <2>3. cmd \in Command
    BY <2>1, <2>2, SequenceOperations DEF ConnectionInv, ThreadTypeOK
  <2>4. Packet(AcceptLines(cmd)) \in Seq(StreamLine)
    <3>1. /\ {Reply(Star, "data"), Reply(Star, "BYE"), Reply(Star, "NO"), Reply(Plus, "data"),
              Reply(cmd.tag, "OK"), Reply(server.idle, "OK")} \subseteq Line
      BY <1>3, <2>3 DEF Reply, Line, Code, Command, ServerRecord
    <3>2. \/ \E a \in Line : AcceptLines(cmd) = <<a>>
          \/ \E a, b \in Line : AcceptLines(cmd) = <<a, b>>
      BY <3>1 DEF AcceptLines
    <3>q. QED
      BY <3>2, PacketsOf
  <2>5. CASE /\ Allowed(cmd) /\ "OK" \in Replies
             /\ SendLines(AcceptLines(cmd), Accepted(cmd))
    <3>1. /\ Arrive(Packet(AcceptLines(cmd))) /\ server' = Accepted(cmd)
          /\ Unread' = Unread \o Packet(AcceptLines(cmd))
      BY <1>1, <2>4, <2>5
    <3>2. ~Accepted(cmd).lineFeedDue
      BY <1>3 DEF Accepted, ServerRecord
    <3>q. QED
      BY <2>1, <2>2, <2>3, <2>5, <3>1, <3>2 DEF Arrive, tlsVars, SendsAnswer
  <2>6. CASE /\ cmd.verb \notin {"LOGOUT", "DONE"}
             /\ \E c \in Replies \ {"OK"} : SendLines(<<Reply(cmd.tag, c)>>, Rejected(cmd))
    <3>1. PICK c \in Replies \ {"OK"} : SendLines(<<Reply(cmd.tag, c)>>, Rejected(cmd))
      BY <2>6
    <3>2. Reply(cmd.tag, c) \in Line
      BY <2>3, ServerAssumption DEF Reply, Line, Code, Command
    <3>3. /\ Arrive(Packet(<<Reply(cmd.tag, c)>>)) /\ server' = Rejected(cmd)
          /\ Unread' = Unread \o <<Whole(Reply(cmd.tag, c))>>
      BY <1>2, <3>1, <3>2
    <3>4. ~Rejected(cmd).lineFeedDue
      BY <1>3 DEF Rejected, ServerRecord
    <3>q. QED
      BY <2>1, <2>2, <2>3, <2>6, <3>3, <3>4 DEF Arrive, tlsVars, SendsAnswer
  <2>q. QED
    BY <2>2, <2>5, <2>6
<1>7. ~SendLineFeed
  BY DEF SendLineFeed
<1>q. QED
  BY <1>4, <1>5, <1>6, <1>7 DEF Server, ServerStep

-----------------------------------------------------------------------------
(* The sequences that lead from one end to the other.                      *)
LEMMA ChannelTypes ==
  ASSUME ConnectionInv
  PROVE  /\ Unread \in Seq(StreamLine) /\ events \in Seq(Signal)
         /\ Asked \in Seq(Command) /\ posted \in Seq(Call)
         /\ buffer \in Seq(StreamLine) /\ m_data \in Seq(StreamLine)
         /\ written \in Seq(Command) /\ dataQueue \in Seq(Command)
  BY SequenceOperations DEF ConnectionInv, LinkTypeOK, ThreadTypeOK, Unread, Asked

(* A command is said, and a command is taken by the server.                *)
LEMMA AskedMoves ==
  ASSUME ConnectionInv
  PROVE  /\ \A cmd \in Command : UNCHANGED written /\ dataQueue' = Append(dataQueue, cmd)
              => Asked' = Append(Asked, cmd)
         /\ written # <<>> /\ written' = Tail(written) /\ UNCHANGED dataQueue
              => Asked # <<>> /\ Head(Asked) = Head(written) /\ Asked' = Tail(Asked)
         /\ written' = written \o dataQueue /\ dataQueue' = <<>> => Asked' = Asked
<1>1. written \in Seq(Command) /\ dataQueue \in Seq(Command) /\ Asked \in Seq(Command)
  BY ChannelTypes
<1>2. ASSUME NEW cmd \in Command, UNCHANGED written, dataQueue' = Append(dataQueue, cmd)
      PROVE  Asked' = Append(Asked, cmd)
  <2>1. Append(dataQueue, cmd) = dataQueue \o <<cmd>> /\ <<cmd>> \in Seq(Command)
    BY <1>1, AppendIsConcat, SequenceOperations
  <2>2. written \o (dataQueue \o <<cmd>>) = (written \o dataQueue) \o <<cmd>>
    BY <1>1, <2>1, ConcatAssociative
  <2>3. Append(written \o dataQueue, cmd) = (written \o dataQueue) \o <<cmd>>
    BY <1>1, AppendIsConcat DEF Asked
  <2>q. QED
    BY <1>2, <2>1, <2>2, <2>3 DEF Asked
<1>3. written # <<>> /\ written' = Tail(written) /\ UNCHANGED dataQueue
        => Asked # <<>> /\ Head(Asked) = Head(written) /\ Asked' = Tail(Asked)
  BY <1>1, ConcatBehind DEF Asked
<1>4. written' = written \o dataQueue /\ dataQueue' = <<>> => Asked' = Asked
  BY <1>1, ConcatEmptySeq DEF Asked
<1>q. QED
  BY <1>2, <1>3, <1>4

(* What the server sends comes behind what it has sent.                    *)
LEMMA LinesAreSent ==
  ASSUME ConnectionInv, Emit("socketActivity"), NEW X, StarLine \subseteq X
  PROVE  /\ \A t \in Seq(StreamOf(X)) :
              Unread' = Unread \o t /\ Clear(Unread, events, X) => Clear(Unread', events', X)
         /\ \A r : \A t \in Seq(StreamOf(StarLine)) :
              Unread' = Unread \o t /\ Comes(Unread, events, X, r) => Comes(Unread', events', X, r)
         /\ \A t \in Seq(StreamOf(StarLine)), l \in StreamLine :
              Unread' = Unread \o Append(t, l) /\ Clear(Unread, events, X)
                => Comes(Unread', events', X, l.line)
<1> DEFINE more == <<[sig |-> "socketActivity"]>>
<1>1. events' = events \o more /\ more \in Seq(MuteSignal)
  <2>1. [sig |-> "socketActivity"] \in MuteSignal /\ [sig |-> "socketActivity"] \in Signal
    BY DEF MuteSignal, Signal
  <2>q. QED
    BY <2>1, AppendIsConcat, SequenceOperations, ChannelTypes DEF Emit
<1>2. Unread \in Seq(StreamLine) /\ events \in Seq(Signal)
  BY ChannelTypes
<1>3. StreamOf(X) \subseteq StreamLine /\ StreamOf(StarLine) \subseteq StreamLine
  BY KindsOfLines
<1> HIDE DEF more
<1>4. \A lines \in Seq(StreamLine) :
        /\ Clear(lines, events, X) => Clear(lines, events', X)
        /\ \A r : Comes(lines, events, X, r) => Comes(lines, events', X, r)
  BY <1>1, <1>2, SignalsCome
<1>5. ASSUME NEW t \in Seq(StreamOf(X)), Unread' = Unread \o t, Clear(Unread, events, X)
      PROVE  Clear(Unread', events', X)
  <2>1. t \in Seq(StreamLine)
    BY <1>3, SeqMonotonic
  <2>2. Unread \o t \in Seq(StreamLine)
    BY <1>2, <2>1, SequenceOperations
  <2>3. Clear(Unread \o t, events, X)
    BY <1>2, <1>5, LinesArrive
  <2>4. Clear(Unread \o t, events', X)
    BY <1>4, <2>2, <2>3
  <2>q. QED
    BY <1>5, <2>4
<1>6. ASSUME NEW t \in Seq(StreamOf(StarLine)), NEW r, Unread' = Unread \o t, Comes(Unread, events, X, r)
      PROVE  Comes(Unread', events', X, r)
  <2>1. t \in Seq(StreamLine)
    BY <1>3, SeqMonotonic
  <2>2. Unread \o t \in Seq(StreamLine)
    BY <1>2, <2>1, SequenceOperations
  <2>3. Comes(Unread \o t, events, X, r)
    BY <1>2, <1>6, LinesArrive
  <2>4. Comes(Unread \o t, events', X, r)
    BY <1>4, <2>2, <2>3
  <2>q. QED
    BY <1>6, <2>4
<1>7. ASSUME NEW t \in Seq(StreamOf(StarLine)), NEW l \in StreamLine,
             Unread' = Unread \o Append(t, l), Clear(Unread, events, X)
      PROVE  Comes(Unread', events', X, l.line)
  <2>1. t \in Seq(StreamLine)
    BY <1>3, SeqMonotonic
  <2>2. Unread \o Append(t, l) \in Seq(StreamLine)
    BY <1>2, <2>1, SequenceOperations
  <2>3. Comes(Unread \o Append(t, l), events, X, l.line)
    BY <1>2, <1>7, LinesArrive
  <2>4. Comes(Unread \o Append(t, l), events', X, l.line)
    BY <1>4, <2>2, <2>3
  <2>q. QED
    BY <1>7, <2>4
<1>q. QED
  BY <1>5, <1>6, <1>7

(* The lines of a packet, by their kinds.                                  *)
LEMMA PacketKinds ==
  ASSUME ConnectionInv
  PROVE  /\ \A X : \A l \in Line \cap X : <<Whole(l)>> \in Seq(StreamOf(X))
         /\ \A t, l \in Line : t \in StarLine =>
              /\ <<Whole(t)>> \in Seq(StreamOf(StarLine))
              /\ Packet(<<t, l>>) = Append(<<Whole(t)>>, Whole(l))
         /\ \A l \in Line : /\ Packet(<<l>>) = Append(<<>>, Whole(l)) /\ Packet(<<l>>) = <<Whole(l)>>
                            /\ Whole(l) \in StreamLine /\ Whole(l).line = l
         /\ \A X : <<>> \in Seq(StreamOf(X))
         /\ \A c \in {"data", "BYE", "NO"} : Reply(Star, c) \in StarLine
         /\ StarLine \subseteq Line /\ PlusLine \subseteq Line
         /\ \A tag \in CommandTag : \A c \in Replies : Reply(tag, c) \in ReplyLine
         /\ ReplyLine \subseteq Line
<1>1. \A l \in Line : Whole(l) \in StreamLine /\ Whole(l).line = l
  BY DEF Whole, StreamLine
<1>2. \A X : \A l \in Line \cap X : Whole(l) \in StreamOf(X)
  BY <1>1 DEF StreamOf
<1>3. \A X : \A l \in Line \cap X : <<Whole(l)>> \in Seq(StreamOf(X))
  BY <1>2, SequenceOperations
<1>4. ASSUME NEW l \in Line
      PROVE  Packet(<<l>>) = Append(<<>>, Whole(l)) /\ Packet(<<l>>) = <<Whole(l)>>
  <2>1. Append(<<>>, Whole(l)) = <<Whole(l)>>
    OBVIOUS
  <2>q. QED
    BY <2>1, PacketsOf
<1>5. \A c \in {"data", "BYE", "NO"} : Reply(Star, c) \in StarLine
  BY DEF Reply, StarLine, Line, Code
<1>6. \A tag \in CommandTag : \A c \in Replies : Reply(tag, c) \in ReplyLine
  BY ServerAssumption DEF Reply, ReplyLine, Line, Code, Tag
<1>7. StarLine \subseteq Line /\ PlusLine \subseteq Line /\ ReplyLine \subseteq Line
  BY DEF StarLine, PlusLine, ReplyLine
<1>8. \A X : <<>> \in Seq(StreamOf(X))
  BY SequenceOperations
<1>q. QED
  BY <1>1, <1>3, <1>4, <1>5, <1>6, <1>7, <1>8, PacketsOf

(* Untagged lines leave every stage as it is.                              *)
LEMMA NewsKeepStage ==
  ASSUME ConnectionInv, UNCHANGED sessionVars, Emit("socketActivity"), Asked' = Asked,
         server'.idle = server.idle /\ server'.phase = server.phase /\ server'.box = server.box,
         NEW l \in StarLine, Unread' = Unread \o <<Whole(l)>>
  PROVE  /\ Rest => Rest'
         /\ Asking => Asking'
         /\ Holding => Holding'
         /\ Replying => Replying'
<1>1. <<Whole(l)>> \in Seq(StreamOf(StarLine)) /\ <<Whole(l)>> \in Seq(StreamOf(Chatter))
      /\ StarLine \subseteq Chatter
  <2>1. StarLine \subseteq Chatter /\ l \in Line \cap Chatter /\ l \in Line \cap StarLine
    BY DEF Chatter, StarLine
  <2>q. QED
    BY <2>1, PacketKinds
<1>2. /\ NoReply(StarLine) => NoReply(StarLine)'
      /\ NoReply(Chatter) => NoReply(Chatter)'
      /\ \A r : ReplyComes(r) => ReplyComes(r)'
  <2>1. /\ Clear(Unread, events, StarLine) => Clear(Unread', events', StarLine)
        /\ Clear(Unread, events, Chatter) => Clear(Unread', events', Chatter)
        /\ \A r : Comes(Unread, events, Chatter, r) => Comes(Unread', events', Chatter, r)
    BY <1>1, LinesAreSent
  <2>2. Chatter' = Chatter
    BY SameSession
  <2>q. QED
    BY <2>1, <2>2 DEF NoReply, ReplyComes
<1>3. /\ Agreed => Agreed'
      /\ UNCHANGED <<jobRunning, state, currentMailBox>>
  BY DEF Agreed, sessionVars
<1>4. \A r : Predicted(r) => Predicted(r)'
  BY SameSession DEF Predicted
<1>5. Rest => Rest'
  BY <1>2, <1>3, SameSession DEF Rest
<1>6. Asking => Asking'
  BY <1>2, <1>3, SameSession DEF Asking
<1>7. Holding => Holding'
  BY <1>2, <1>3, SameSession DEF Holding
<1>8. Replying => Replying'
  BY <1>2, <1>3, <1>4, SameSession DEF Replying
<1>q. QED
  BY <1>5, <1>6, <1>7, <1>8

(* The answer to a command that was asked, or to a DONE.                   *)
LEMMA AnswerKeepsStage ==
  ASSUME ConnectionInv, Orderly, UNCHANGED <<sessionVars, dataQueue>>, Emit("socketActivity"),
         NEW cmd \in Command, SendsAnswer(cmd), Rest \/ Asking \/ Holding \/ Replying
  PROVE  /\ Rest' \/ Asking' \/ Holding' \/ Replying'
         /\ Rest => Rest'
<1>1. /\ server.phase \notin {"greeting", "Logout"} /\ server \in ServerRecord
      /\ Asked # <<>> /\ Head(Asked) = cmd /\ Asked' = Tail(Asked)
      /\ Asked \in Seq(Command)
  BY AskedMoves, ChannelTypes DEF SendsAnswer, ConnectionInv, ServerTypeOK, ServerRecord
<1>2. /\ UNCHANGED <<jobRunning, state, currentMailBox>>
      /\ StarLine \subseteq Chatter
      /\ DoneCommand \subseteq Command
      /\ cmd \in DoneCommand => cmd.verb = "DONE" /\ \A c : cmd \notin TaggedCommand
  BY DEF sessionVars, Chatter, DoneCommand, TaggedCommand
<1>3. Asked \in Seq(DoneCommand) => cmd \in DoneCommand /\ Asked' \in Seq(DoneCommand)
  BY <1>1, SequenceOperations
<1>4. cmd \in DoneCommand => /\ Unread' = Unread \o Packet(AcceptLines(cmd))
                             /\ server' = [server EXCEPT !.idle = NoTag]
  BY <1>1, <1>2 DEF SendsAnswer, Accepted
<1>5. /\ cmd \in DoneCommand => server'.phase = server.phase /\ server'.box = server.box /\ server'.idle = NoTag
      /\ cmd \in DoneCommand /\ server.idle = NoTag => Unread' = Unread \o <<Whole(Reply(Star, "NO"))>>
      /\ cmd \in DoneCommand /\ server.idle # NoTag =>
           Unread' = Unread \o Append(<<>>, Whole(Reply(server.idle, "OK")))
  <2>1. Reply(Star, "NO") \in Line
    BY PacketKinds
  <2>2. Reply(server.idle, "OK") \in Line
    BY <1>1 DEF Reply, Line, Code, ServerRecord
  <2>3. cmd \in DoneCommand => AcceptLines(cmd) = IF server.idle = NoTag THEN <<Reply(Star, "NO")>>
                                                                         ELSE <<Reply(server.idle, "OK")>>
    BY <1>2 DEF AcceptLines
  <2>q. QED
    BY <1>1, <1>4, <2>1, <2>2, <2>3, PacketKinds DEF ServerRecord
<1>6. ASSUME cmd \in DoneCommand, server.idle = NoTag
      PROVE  /\ NoReply(StarLine) => NoReply(StarLine)'
             /\ \A r : ReplyComes(r) => ReplyComes(r)'
             /\ Agreed => Agreed'
             /\ \A r : Predicted(r) => Predicted(r)'
  <2>1. <<Whole(Reply(Star, "NO"))>> \in Seq(StreamOf(StarLine))
    BY PacketKinds
  <2>2. /\ Clear(Unread, events, StarLine) => Clear(Unread', events', StarLine)
        /\ \A r : Comes(Unread, events, Chatter, r) => Comes(Unread', events', Chatter, r)
    BY <1>2, <1>5, <1>6, <2>1, LinesAreSent
  <2>3. Chatter' = Chatter
    BY SameSession
  <2>4. Agreed => Agreed'
    BY <1>1, <1>2, <1>5, <1>6 DEF Agreed
  <2>5. \A r : Predicted(r) => Predicted(r)'
    BY <1>1, <1>5, <1>6, SameSession DEF Predicted
  <2>q. QED
    BY <2>2, <2>3, <2>4, <2>5 DEF NoReply, ReplyComes
<1>7. Rest => Rest'
  BY <1>3, <1>5, <1>6, SameSession DEF Rest
<1> SUFFICES Rest' \/ Asking' \/ Holding' \/ Replying'
  BY <1>7
<1>8. CASE Replying
  <2>1. cmd \in DoneCommand /\ server.idle = NoTag
    BY <1>3, <1>8 DEF Replying
  <2>2. Replying'
    BY <1>2, <1>3, <1>5, <1>6, <1>8, <2>1, SameSession DEF Replying
  <2>q. QED
    BY <2>2
<1>9. CASE Holding
  <2>1. cmd \in DoneCommand /\ server.idle # NoTag
    BY <1>3, <1>9 DEF Holding
  <2>2. PICK r : r = Reply(server.idle, "OK")
    OBVIOUS
  <2>3. "OK" \in Replies
    BY <1>2, <2>1 DEF SendsAnswer
  <2>4. /\ r \in ReplyLine /\ r.tag = server.idle /\ r.tag # NoTag
        /\ Whole(r) \in StreamLine /\ Whole(r).line = r
    <3>1. server.idle \in CommandTag
      BY <1>1, <2>1 DEF ServerRecord, Tag
    <3>2. r \in ReplyLine
      BY <2>2, <2>3, <3>1, PacketKinds
    <3>3. r \in Line
      BY <3>2 DEF ReplyLine
    <3>q. QED
      BY <2>1, <2>2, <3>2, <3>3, PacketKinds DEF Reply
  <2>5. ReplyComes(r)'
    <3>1. Clear(Unread, events, Chatter)
      BY <1>9 DEF Holding, NoReply
    <3>2. <<>> \in Seq(StreamOf(StarLine))
      BY SequenceOperations
    <3>3. Comes(Unread', events', Chatter, r)
      BY <1>2, <1>5, <2>1, <2>2, <2>4, <3>1, <3>2, LinesAreSent
    <3>q. QED
      BY <3>3, SameSession DEF ReplyComes
  <2>6. \A v \in TrackedVerb : pendingTag[v] # r.tag /\ pendingTag[v] = NoTag
    BY <1>9, <2>4 DEF Holding, Forgotten
  <2>7. NextState(r) = state /\ NextMailBox(r) = currentMailBox
    BY <2>6 DEF NextState, NextMailBox, TrackedVerb
  <2>8. Moves(r) /\ Answers(r)
    BY <1>9, <2>4, <2>6 DEF Moves, Answers, Holding, TrackedVerb
  <2>9. Predicted(r)'
    BY <1>2, <1>5, <1>9, <2>1, <2>7, SameSession DEF Predicted, Holding, Agreed
  <2>10. Moves(r)' /\ Answers(r)'
    BY <2>8, SameSession
  <2>11. jobRunning' /\ Asked' \in Seq(DoneCommand) /\ server'.idle = NoTag
    BY <1>2, <1>3, <1>5, <1>9, <2>1 DEF Holding
  <2>12. Replying'
    BY <2>4, <2>5, <2>9, <2>10, <2>11 DEF Replying
  <2>q. QED
    BY <2>12
<1>10. CASE Asking
  <2>1. PICK own \in TaggedCommand : /\ Among(Asked, DoneCommand, {own}, DoneCommand)
                                     /\ Remembered(own) /\ Suits(own)
    BY <1>10 DEF Asking
  <2>2. \/ cmd \in DoneCommand /\ Among(Asked', DoneCommand, {own}, DoneCommand)
        \/ cmd = own /\ Asked' \in Seq(DoneCommand)
    <3>1. {own} \subseteq Command
      BY <2>1 DEF TaggedCommand
    <3>q. QED
      BY <1>1, <1>2, <2>1, <3>1, AmongHead
  <2>3. server.idle = NoTag /\ jobRunning' /\ NoReply(StarLine) /\ Agreed
    BY <1>2, <1>10 DEF Asking
  <2>4. CASE cmd \in DoneCommand /\ Among(Asked', DoneCommand, {own}, DoneCommand)
    <3>1. Asking'
      BY <1>5, <1>6, <2>1, <2>3, <2>4, SameSession DEF Asking
    <3>q. QED
      BY <3>1
  <2>5. CASE cmd = own /\ Asked' \in Seq(DoneCommand)
    <3>1. ASSUME NEW c \in Replies, NEW more \in Seq(StreamOf(StarLine)),
                 Unread' = Unread \o Append(more, Whole(Reply(cmd.tag, c))),
                 Moves(Reply(cmd.tag, c)), Answers(Reply(cmd.tag, c)), server'.idle = server.idle,
                 server'.phase # "Logout" => /\ server'.phase = NextState(Reply(cmd.tag, c))
                                             /\ server'.box = NextMailBox(Reply(cmd.tag, c))
          PROVE  Replying'
      <4>1. PICK r : r = Reply(cmd.tag, c)
        OBVIOUS
      <4>2. r \in ReplyLine /\ Whole(r) \in StreamLine /\ Whole(r).line = r
        <5>1. cmd.tag \in CommandTag
          BY <2>5 DEF TaggedCommand
        <5>q. QED
          BY <4>1, <5>1, PacketKinds
      <4>3. ReplyComes(r)'
        <5>1. Clear(Unread, events, Chatter)
          BY <1>2, <2>3, MoreLines, ChannelTypes DEF NoReply
        <5>2. Comes(Unread', events', Chatter, r)
          BY <1>2, <3>1, <4>1, <4>2, <5>1, LinesAreSent
        <5>q. QED
          BY <5>2, SameSession DEF ReplyComes
      <4>4. Moves(r)' /\ Answers(r)' /\ Predicted(r)'
        BY <3>1, <4>1, SameSession DEF Predicted
      <4>q. QED
        BY <2>3, <2>5, <3>1, <4>2, <4>3, <4>4 DEF Replying
    <3>2. cmd.tag \in CommandTag /\ cmd.verb # "DONE" /\ <<>> \in Seq(StreamOf(StarLine))
      BY <2>5, SequenceOperations DEF TaggedCommand
    <3>3. CASE Allowed(cmd) /\ "OK" \in Replies /\ cmd.verb = "IDLE"
               /\ Unread' = Unread \o Packet(AcceptLines(cmd)) /\ server' = Accepted(cmd)
      <4>1. /\ server' = [server EXCEPT !.idle = cmd.tag]
            /\ Packet(AcceptLines(cmd)) = <<Whole(Reply(Plus, "data"))>>
            /\ Reply(Plus, "data") \in PlusLine
        <5>1. Reply(Plus, "data") \in PlusLine
          BY DEF Reply, PlusLine, Line, Code
        <5>q. QED
          BY <3>3, <5>1, PacketKinds DEF Accepted, AcceptLines
      <4>2. ~LoginRuns /\ ~SelectRuns /\ Expects(cmd.tag) /\ Forgotten
        BY <2>1, <2>5, <3>3 DEF Suits, Remembered, Forgotten, TrackedVerb
      <4>3. Chatter = StarLine \cup PlusLine
        BY <4>2 DEF Chatter
      <4>4. NoReply(Chatter)'
        <5>1. Clear(Unread, events, Chatter)
          BY <1>2, <2>3, MoreLines, ChannelTypes DEF NoReply
        <5>2. <<Whole(Reply(Plus, "data"))>> \in Seq(StreamOf(Chatter))
          BY <4>1, <4>3, PacketKinds
        <5>3. Clear(Unread', events', Chatter)
          BY <1>2, <3>3, <4>1, <5>1, <5>2, LinesAreSent
        <5>q. QED
          BY <5>3, SameSession DEF NoReply
      <4>5. /\ server'.idle = cmd.tag /\ server'.phase = server.phase /\ server'.box = server.box
            /\ server'.idle # NoTag
        BY <1>1, <3>2, <4>1, LinkAssumption DEF ServerRecord, CommandTag, NoTag
      <4>6. Agreed'
        BY <1>2, <2>3, <4>5 DEF Agreed
      <4>7. ~LoginRuns' /\ ~SelectRuns' /\ Forgotten' /\ Expects(server.idle)'
        <5>1. ~LoginRuns' /\ ~SelectRuns' /\ Forgotten'
          BY <4>2, SameSession
        <5>2. UNCHANGED <<currentJob, job>>
          BY DEF sessionVars
        <5>3. Expects(server.idle)'
          BY <4>2, <4>5, <5>2 DEF Expects
        <5>q. QED
          BY <5>1, <5>3
      <4>8. Holding'
        BY <2>3, <2>5, <4>4, <4>5, <4>6, <4>7 DEF Holding
      <4>q. QED
        BY <4>8
    <3>4. CASE Allowed(cmd) /\ "OK" \in Replies /\ cmd.verb # "IDLE"
               /\ Unread' = Unread \o Packet(AcceptLines(cmd)) /\ server' = Accepted(cmd)
      <4>1. \E more \in Seq(StreamOf(StarLine)) : Packet(AcceptLines(cmd)) = Append(more, Whole(Reply(cmd.tag, "OK")))
        <5>1. Reply(cmd.tag, "OK") \in Line
          BY <3>2, <3>4, PacketKinds
        <5>2. \A c \in {"data", "BYE"} :
                /\ Packet(<<Reply(Star, c), Reply(cmd.tag, "OK")>>)
                     = Append(<<Whole(Reply(Star, c))>>, Whole(Reply(cmd.tag, "OK")))
                /\ <<Whole(Reply(Star, c))>> \in Seq(StreamOf(StarLine))
          BY <5>1, PacketKinds
        <5>3. CASE cmd.verb = "SELECT"
          BY <5>2, <5>3 DEF AcceptLines
        <5>4. CASE cmd.verb = "LOGOUT"
          BY <5>2, <5>4 DEF AcceptLines
        <5>5. CASE cmd.verb \notin {"SELECT", "LOGOUT"}
          <6>1. AcceptLines(cmd) = <<Reply(cmd.tag, "OK")>>
            BY <3>2, <3>4, <5>5 DEF AcceptLines
          <6>q. QED
            BY <3>2, <5>1, <6>1, PacketKinds
        <5>q. QED
          BY <5>3, <5>4, <5>5
      <4>2. PICK more \in Seq(StreamOf(StarLine)) : Packet(AcceptLines(cmd)) = Append(more, Whole(Reply(cmd.tag, "OK")))
        BY <4>1
      <4>3. /\ Moves(Reply(cmd.tag, "OK")) /\ Answers(Reply(cmd.tag, "OK")) /\ server'.idle = server.idle
            /\ server'.phase # "Logout" => /\ server'.phase = NextState(Reply(cmd.tag, "OK"))
                                           /\ server'.box = NextMailBox(Reply(cmd.tag, "OK"))
        BY <1>1, <2>1, <2>3, <2>5, <3>4, AnswerPredicts
      <4>4. "OK" \in Replies /\ Unread' = Unread \o Append(more, Whole(Reply(cmd.tag, "OK")))
        BY <3>4, <4>2
      <4>q. QED
        BY <3>1, <4>2, <4>3, <4>4
    <3>5. CASE /\ \E c \in Replies \ {"OK"} : Unread' = Unread \o <<Whole(Reply(cmd.tag, c))>>
               /\ server' = Rejected(cmd)
      <4>1. PICK c \in Replies \ {"OK"} : Unread' = Unread \o <<Whole(Reply(cmd.tag, c))>>
        BY <3>5
      <4>2. /\ Moves(Reply(cmd.tag, c)) /\ Answers(Reply(cmd.tag, c)) /\ server'.idle = server.idle
            /\ server'.phase # "Logout" => /\ server'.phase = NextState(Reply(cmd.tag, c))
                                           /\ server'.box = NextMailBox(Reply(cmd.tag, c))
        <5>1. c \in Code \ {"OK"}
          BY ServerAssumption DEF Code
        <5>q. QED
          BY <1>1, <2>1, <2>3, <2>5, <3>5, <5>1, AnswerPredicts
      <4>3. Unread' = Unread \o Append(<<>>, Whole(Reply(cmd.tag, c)))
        BY <4>1
      <4>q. QED
        BY <3>1, <3>2, <4>2, <4>3
    <3>q. QED
      BY <3>3, <3>4, <3>5 DEF SendsAnswer
  <2>q. QED
    BY <2>2, <2>4, <2>5
<1>q. QED
  BY <1>7, <1>8, <1>9, <1>10

-----------------------------------------------------------------------------
(* What has nothing to do with encryption leaves its stages alone: calls   *)
(* and signals are added, or the first of them is taken.                   *)
Calmly(s, u, A) == \E t \in Seq(A) : \/ u = s \o t
                                     \/ s # <<>> /\ Head(s) \in A /\ u = Tail(s) \o t

CalmlyPosts == Calmly(posted, posted', CalmCall)
CalmlyTells == Calmly(events, events', CalmSignal)

(* They keep a sequence of their kind, and the other one among it.         *)
LEMMA CalmOperations ==
  ASSUME NEW S, NEW A, NEW T, A \subseteq S, T \subseteq S, A \cap T = {},
         NEW s \in Seq(S), NEW u, Calmly(s, u, A)
  PROVE  /\ s \in Seq(A) => u \in Seq(A)
         /\ Among(s, A, T, A) => Among(u, A, T, A)
<1>1. PICK t \in Seq(A) : \/ u = s \o t
                          \/ s # <<>> /\ Head(s) \in A /\ u = Tail(s) \o t
  BY DEF Calmly
<1>2. ASSUME s \in Seq(A)
      PROVE  u \in Seq(A)
  <2>1. s # <<>> => Tail(s) \in Seq(A)
    BY <1>2, SequenceOperations
  <2>2. \A r \in Seq(A) : r \o t \in Seq(A)
    BY SequenceOperations
  <2>q. QED
    BY <1>1, <1>2, <2>1, <2>2
<1>3. ASSUME Among(s, A, T, A)
      PROVE  Among(u, A, T, A)
  <2>1. CASE u = s \o t
    BY <1>3, <2>1, AmongConcat
  <2>2. CASE s # <<>> /\ Head(s) \in A /\ u = Tail(s) \o t
    <3>1. Tail(s) \in Seq(S)
      BY <2>2, SequenceOperations
    <3>2. Head(s) \notin T
      BY <2>2
    <3>3. Among(Tail(s), A, T, A)
      BY <1>3, <3>2, AmongHead
    <3>4. Among(Tail(s) \o t, A, T, A)
      BY <3>1, <3>3, AmongConcat
    <3>q. QED
      BY <2>2, <3>4
  <2>q. QED
    BY <1>1, <2>1, <2>2
<1>q. QED
  BY <1>2, <1>3

(* Encryption stays where it is.                                           *)
LEMMA CalmKeepsTls ==
  ASSUME ConnectionInv, CalmlyPosts, CalmlyTells, UNCHANGED <<tls, sslSlots, sslVersion>>
  PROVE  /\ Plain => Plain'
         /\ Securing => Securing'
         /\ Secured /\ PastTls' => Secured'
<1>1. /\ CalmCall \subseteq Call /\ {"doStartSsl"} \subseteq Call
      /\ {"sslErrorIgnored", "sslErrorRefused"} \subseteq Call
      /\ CalmCall \cap {"doStartSsl"} = {}
      /\ CalmCall \cap {"sslErrorIgnored", "sslErrorRefused"} = {}
      /\ CalmSignal \subseteq Signal /\ SslSignal \subseteq Signal /\ CalmSignal \cap SslSignal = {}
  BY DEF CalmCall, UpCall, SslCall, Call, CalmSignal, SslSignal
<1>2. posted \in Seq(Call) /\ events \in Seq(Signal)
  BY ChannelTypes
<1>3. NoSslCall => NoSslCall'
  BY <1>1, <1>2, CalmOperations DEF NoSslCall, CalmlyPosts
<1>4. NoSslSignal => NoSslSignal'
  BY <1>1, <1>2, CalmOperations DEF NoSslSignal, CalmlyTells
<1>5. Among(posted, CalmCall, {"doStartSsl"}, CalmCall) =>
        Among(posted', CalmCall, {"doStartSsl"}, CalmCall)
  BY <1>1, <1>2, CalmOperations DEF CalmlyPosts
<1>6. Among(posted, CalmCall, {"sslErrorIgnored", "sslErrorRefused"}, CalmCall) =>
        Among(posted', CalmCall, {"sslErrorIgnored", "sslErrorRefused"}, CalmCall)
  BY <1>1, <1>2, CalmOperations DEF CalmlyPosts
<1>7. Among(events, CalmSignal, SslSignal, CalmSignal) =>
        Among(events', CalmSignal, SslSignal, CalmSignal)
  BY <1>1, <1>2, CalmOperations DEF CalmlyTells
<1>8. Plain => Plain'
  BY <1>3, <1>4 DEF Plain
<1>9. Securing => Securing'
  BY <1>3, <1>4, <1>5, <1>6, <1>7 DEF Securing
<1>10. Secured /\ PastTls' => Secured'
  BY <1>3, <1>4 DEF Secured
<1>q. QED
  BY <1>8, <1>9, <1>10

(* How they come: a call is posted, a signal told or taken.                *)
LEMMA CalmSteps ==
  ASSUME ConnectionInv
  PROVE  /\ UNCHANGED posted => CalmlyPosts
         /\ \A call \in CalmCall : Post(call) => CalmlyPosts
         /\ posted # <<>> /\ Head(posted) \in CalmCall =>
              \A t \in Seq(CalmCall) : posted' = Tail(posted) \o t => CalmlyPosts
         /\ UNCHANGED events => CalmlyTells
         /\ Emit("socketActivity") => CalmlyTells
         /\ \A t \in Seq(CalmSignal) : events' = events \o t => CalmlyTells
         /\ events # <<>> /\ events' = Tail(events) /\ Head(events) \in CalmSignal => CalmlyTells
<1>1. posted \in Seq(Call) /\ events \in Seq(Signal)
  BY ChannelTypes
<1>2. [sig |-> "socketActivity"] \in CalmSignal
  BY DEF CalmSignal, SslSignal, Signal
<1>3. CalmCall \subseteq Call /\ CalmSignal \subseteq Signal
  BY DEF CalmCall, UpCall, CalmSignal
<1>4. \A S : \A s \in Seq(S) : s \o <<>> = s /\ \A e \in S : Append(s, e) = s \o <<e>>
  OBVIOUS
<1>5. \A S : <<>> \in Seq(S) /\ \A e \in S : <<e>> \in Seq(S)
  BY SequenceOperations
<1>6. UNCHANGED posted => CalmlyPosts
  BY <1>1, <1>4, <1>5 DEF CalmlyPosts, Calmly
<1>7. ASSUME NEW call \in CalmCall, Post(call)
      PROVE  CalmlyPosts
  <2>1. posted' = posted \o <<call>> /\ <<call>> \in Seq(CalmCall)
    BY <1>1, <1>3, <1>4, <1>5, <1>7 DEF Post
  <2>q. QED
    BY <2>1 DEF CalmlyPosts, Calmly
<1>8. posted # <<>> /\ Head(posted) \in CalmCall =>
        \A t \in Seq(CalmCall) : posted' = Tail(posted) \o t => CalmlyPosts
  BY DEF CalmlyPosts, Calmly
<1>9. UNCHANGED events => CalmlyTells
  BY <1>1, <1>4, <1>5 DEF CalmlyTells, Calmly
<1>10. ASSUME Emit("socketActivity")
       PROVE  CalmlyTells
  <2>1. events' = events \o <<[sig |-> "socketActivity"]>>
    BY <1>1, <1>2, <1>3, <1>4, <1>10 DEF Emit
  <2>2. <<[sig |-> "socketActivity"]>> \in Seq(CalmSignal)
    BY <1>2, <1>5
  <2>q. QED
    BY <2>1, <2>2 DEF CalmlyTells, Calmly
<1>11. \A t \in Seq(CalmSignal) : events' = events \o t => CalmlyTells
  BY DEF CalmlyTells, Calmly
<1>12. events # <<>> /\ events' = Tail(events) /\ Head(events) \in CalmSignal => CalmlyTells
  <2> SUFFICES ASSUME events # <<>>, events' = Tail(events), Head(events) \in CalmSignal
               PROVE  CalmlyTells
    OBVIOUS
  <2>1. Tail(events) \in Seq(Signal)
    BY <1>1, SequenceOperations
  <2>2. events' = Tail(events) \o <<>> /\ <<>> \in Seq(CalmSignal)
    BY <1>4, <1>5, <2>1
  <2>q. QED
    BY <2>2 DEF CalmlyTells, Calmly
<1>q. QED
  BY <1>6, <1>7, <1>8, <1>9, <1>10, <1>11, <1>12

-----------------------------------------------------------------------------
(* Whatever the server does, the two go on talking, or opening.            *)
LEMMA ServerKeepsTalk ==
  ASSUME ConnectionInv, Orderly, ~server.lineFeedDue, Server
  PROVE  /\ Talking => Talking'
         /\ Opening => Opening'
<1>1. /\ UNCHANGED <<dataQueue, socket, tls, sslSlots, m_data>>
      /\ Post("readMessage") /\ Emit("socketActivity")
      /\ SendsGreeting \/ SendsNews \/ \E cmd \in Command : SendsAnswer(cmd)
      /\ UNCHANGED sessionVars
  BY ServerSends DEF Server
<1>2. UNCHANGED <<state, isSocketConnected, jobRunning, sslVersion, currentMailBox>>
  BY <1>1 DEF sessionVars
<1>3. /\ Plain => Plain'
      /\ Securing => Securing'
      /\ Secured => Secured'
  <2>1. "readMessage" \in CalmCall
    BY DEF CalmCall, UpCall, SslCall, Call
  <2>2. CalmlyPosts /\ CalmlyTells
    BY <1>1, <2>1, CalmSteps
  <2>3. PastTls => PastTls'
    BY <1>1, SameSession
  <2>q. QED
    BY <1>1, <1>2, <2>2, <2>3, CalmKeepsTls DEF Secured
<1>4. server \in ServerRecord /\ Unread \in Seq(StreamLine) /\ events \in Seq(Signal)
  BY ChannelTypes DEF ConnectionInv, ServerTypeOK, ServerRecord
<1>5. ASSUME SendsNews
      PROVE  /\ server'.idle = server.idle /\ server'.phase = server.phase /\ server'.box = server.box
             /\ Asked' = Asked /\ UNCHANGED written
  BY <1>1, <1>4, <1>5 DEF SendsNews, Asked, ServerRecord
<1>6. ASSUME Talking
      PROVE  Talking'
  <2>1. server.phase # "greeting" /\ (Rest \/ Asking \/ Holding \/ Replying)
    BY <1>6 DEF Talking
  <2>2. CASE SendsNews
    <3>1. PICK l \in StarLine : Unread' = Unread \o <<Whole(l)>>
      BY <2>2 DEF SendsNews
    <3>2. /\ Rest => Rest'
          /\ Asking => Asking'
          /\ Holding => Holding'
          /\ Replying => Replying'
      BY <1>1, <1>5, <2>2, <3>1, NewsKeepStage
    <3>q. QED
      BY <1>2, <1>3, <1>5, <1>6, <2>2, <3>2 DEF Talking
  <2>3. ASSUME NEW cmd \in Command, SendsAnswer(cmd)
        PROVE  Talking'
    <3>1. /\ Rest' \/ Asking' \/ Holding' \/ Replying'
          /\ Rest => Rest'
      BY <1>1, <2>1, <2>3, AnswerKeepsStage
    <3>2. server'.phase # "greeting"
      BY <1>4, <2>1, <2>3 DEF SendsAnswer, Accepted, Rejected, ServerRecord
    <3>q. QED
      BY <1>2, <1>3, <1>6, <2>1, <3>1, <3>2 DEF Talking
  <2>q. QED
    BY <1>1, <2>1, <2>2, <2>3 DEF SendsGreeting
<1>7. ASSUME Opening
      PROVE  Opening'
  <2>1. Silent /\ Plain /\ Ungreeted /\ NoReply(StarLine) /\ server.idle = NoTag /\ server.box = NoJob
    BY <1>7 DEF Opening
  <2>2. SendsGreeting \/ SendsNews
    BY <1>1, <2>1 DEF SendsAnswer, Silent
  <2>3. /\ Ungreeted' /\ Plain' /\ Silent'
    <3>1. UNCHANGED written
      BY <2>2 DEF SendsGreeting, SendsNews
    <3>q. QED
      BY <1>1, <1>2, <1>3, <2>1, <3>1, SameSession DEF Ungreeted, Silent
  <2>4. events' = Append(events, [sig |-> "socketActivity"])
    BY <1>1 DEF Emit
  <2>5. [sig |-> "socketActivity"] \in OpeningSignal /\ [sig |-> "socketActivity"] \in Signal
    BY DEF OpeningSignal, Signal
  <2>6. events \in Seq(OpeningSignal) => events' \in Seq(OpeningSignal)
    BY <2>4, <2>5, SequenceOperations
  <2>7. Among(events, OpeningSignal, GreetingSignal, Signal) =>
          Among(events', OpeningSignal, GreetingSignal, Signal)
    <3>1. OpeningSignal \subseteq Signal /\ GreetingSignal \subseteq Signal
      BY DEF OpeningSignal, GreetingSignal
    <3>2. events' = events \o <<[sig |-> "socketActivity"]>> /\ <<[sig |-> "socketActivity"]>> \in Seq(Signal)
      BY <1>4, <2>4, <2>5, SequenceOperations
    <3>q. QED
      BY <1>4, <3>1, <3>2, AmongConcat
  <2>8. ASSUME NEW l \in Line, l \in StarLine, Unread' = Unread \o <<Whole(l)>>
        PROVE  /\ NoReply(StarLine)'
               /\ Unread = <<>> => Unread' # <<>> /\ Head(Unread').line = l
               /\ Unread # <<>> => Unread' # <<>> /\ Head(Unread') = Head(Unread)
    <3>1. <<Whole(l)>> \in Seq(StreamOf(StarLine)) /\ <<Whole(l)>> \in Seq(StreamLine)
          /\ Whole(l) \in StreamLine /\ Whole(l).line = l
      BY <2>8, PacketKinds, PacketsOf
    <3>2. NoReply(StarLine)'
      BY <1>1, <2>1, <2>8, <3>1, LinesAreSent DEF NoReply
    <3>3. Unread = <<>> => Unread' = <<Whole(l)>>
      BY <2>8, <3>1
    <3>4. Unread # <<>> => Unread' # <<>> /\ Head(Unread') = Head(Unread)
      BY <1>4, <2>8, <3>1, ConcatBehind
    <3>q. QED
      BY <3>1, <3>2, <3>3, <3>4
  <2>9. CASE SendsGreeting
    <3>1. PICK c \in Greetings :
            /\ Unread' = Unread \o <<Whole(Reply(Star, c))>>
            /\ server' = [server EXCEPT !.phase = CASE c = "OK" -> "NotAuthenticated"
                                                    [] c = "PREAUTH" -> "Authenticated"
                                                    [] OTHER -> "Logout"]
      BY <2>9 DEF SendsGreeting
    <3>2. Reply(Star, c) \in StarLine /\ Reply(Star, c) \in Line /\ Reply(Star, c).code = c
          /\ c \in {"OK", "PREAUTH", "BYE", "NO"}
      BY ServerAssumption DEF Reply, StarLine, Line, Code
    <3>3. /\ server'.idle = NoTag /\ server'.box = NoJob
          /\ c \in Welcome => Greets(Reply(Star, c))'
          /\ c \notin Welcome => server'.phase = "Logout"
      BY <1>4, <2>1, <3>1, <3>2 DEF ServerRecord, Greets, GreetedState, Welcome
    <3>4. server.phase = "greeting"
      BY <2>9 DEF SendsGreeting
    <3>5. (Unread = <<>> /\ events \in Seq(OpeningSignal)) \/ c \notin Welcome
          \/ (Unread # <<>> /\ Greets(Head(Unread).line)) \/ Among(events, OpeningSignal, GreetingSignal, Signal)
      BY <1>7, <3>4 DEF Opening
    <3>6. /\ ~(Unread # <<>> /\ Greets(Head(Unread).line))
          /\ ~Among(events, OpeningSignal, GreetingSignal, Signal)
      <4>1. \A l : ~Greets(l)
        BY <3>4 DEF Greets, GreetedState
      <4>q. QED
        BY <4>1 DEF Among, GreetingSignal
    <3>7. CASE c \in Welcome
      <4>1. Unread' # <<>> /\ Greets(Head(Unread).line)' /\ events' \in Seq(OpeningSignal) /\ NoReply(StarLine)'
        BY <2>6, <2>8, <3>1, <3>2, <3>3, <3>5, <3>6, <3>7
      <4>q. QED
        BY <2>3, <3>3, <4>1 DEF Opening
    <3>8. CASE c \notin Welcome
      BY <2>3, <2>8, <3>1, <3>2, <3>3, <3>8 DEF Opening
    <3>q. QED
      BY <3>7, <3>8
  <2>10. CASE SendsNews
    <3>1. PICK l \in StarLine : Unread' = Unread \o <<Whole(l)>>
      BY <2>10 DEF SendsNews
    <3>2. l \in Line /\ server.phase # "greeting"
      BY <2>10 DEF StarLine, SendsNews
    <3>3. \A x : Greets(x) => Greets(x)'
      BY <1>5, <2>10 DEF Greets
    <3>4. GreetingSignal' = GreetingSignal
      BY <1>5, <2>10 DEF Greets, GreetingSignal
    <3>5. server'.idle = NoTag /\ server'.box = NoJob /\ NoReply(StarLine)'
      BY <1>5, <2>1, <2>8, <2>10, <3>1, <3>2
    <3>6. CASE Unread # <<>> /\ Greets(Head(Unread).line) /\ events \in Seq(OpeningSignal)
      <4>1. Unread' # <<>> /\ Greets(Head(Unread).line)' /\ events' \in Seq(OpeningSignal)
        BY <2>6, <2>8, <3>1, <3>2, <3>3, <3>6
      <4>q. QED
        BY <2>3, <3>5, <4>1 DEF Opening
    <3>7. CASE Among(events, OpeningSignal, GreetingSignal, Signal)
      <4>1. Among(events, OpeningSignal, GreetingSignal, Signal)'
        BY <2>7, <3>4, <3>7
      <4>q. QED
        BY <2>3, <3>5, <4>1 DEF Opening
    <3>8. CASE server.phase = "Logout"
      BY <1>5, <2>3, <2>10, <3>5, <3>8 DEF Opening
    <3>q. QED
      BY <1>7, <3>2, <3>6, <3>7, <3>8 DEF Opening
  <2>q. QED
    BY <2>2, <2>9, <2>10
<1>q. QED
  BY <1>6, <1>7

-----------------------------------------------------------------------------
(* What the secondary thread and the socket do to what the main thread     *)
(* will hear: the next line is parsed, or signals that are no responses    *)
(* are told; when the socket goes, the lines behind some are lost.         *)
ActivitySignal == {e \in Signal : e.sig = "socketActivity"}
HeadResponse == [sig |-> "responseReceived", response |-> Head(Unread).line]

Flows(T) ==
  \/ UNCHANGED Unread /\ \E t \in Seq(T) : events' = events \o t
  \/ /\ Unread # <<>> /\ Unread' = Tail(Unread)
     /\ HeadResponse \in Signal /\ events' = Append(events, HeadResponse)

Cuts == /\ Unread' \in Seq(StreamLine)
        /\ \E more \in Seq(StreamLine) : Unread = Unread' \o more
        /\ \E t \in Seq(MuteSignal) : events' = events \o t

(* The lines that flow are the same as before, of those that are cut there *)
(* may be fewer.                                                           *)
LEMMA FlowOfLines ==
  ASSUME ConnectionInv, NEW X
  PROVE  /\ Flows(MuteSignal) =>
              /\ Clear(Unread, events, X) => Clear(Unread', events', X)
              /\ \A r : Comes(Unread, events, X, r) => Comes(Unread', events', X, r)
         /\ Cuts =>
              /\ Clear(Unread, events, X) => Clear(Unread', events', X)
              /\ \A r : Comes(Unread, events, X, r) =>
                          Comes(Unread', events', X, r) \/ Clear(Unread', events', X)
<1>1. Unread \in Seq(StreamLine) /\ events \in Seq(Signal)
  BY ChannelTypes
<1>2. ASSUME Flows(MuteSignal)
      PROVE  /\ Clear(Unread, events, X) => Clear(Unread', events', X)
             /\ \A r : Comes(Unread, events, X, r) => Comes(Unread', events', X, r)
  <2>1. CASE UNCHANGED Unread /\ \E t \in Seq(MuteSignal) : events' = events \o t
    <3>1. PICK t \in Seq(MuteSignal) : events' = events \o t
      BY <2>1
    <3>q. QED
      BY <1>1, <2>1, <3>1, SignalsCome
  <2>2. CASE /\ Unread # <<>> /\ Unread' = Tail(Unread)
             /\ HeadResponse \in Signal /\ events' = Append(events, HeadResponse)
    <3>1. HeadResponse = [sig |-> "responseReceived", response |-> Head(Unread).line]
      BY DEF HeadResponse
    <3>2. PICK e \in Signal : e = HeadResponse
      BY <2>2
    <3>3. /\ Clear(Unread, events, X) => Clear(Tail(Unread), Append(events, e), X)
          /\ \A r : Comes(Unread, events, X, r) => Comes(Tail(Unread), Append(events, e), X, r)
      BY <1>1, <2>2, <3>1, <3>2, LineIsParsed
    <3>q. QED
      BY <2>2, <3>2, <3>3
  <2>q. QED
    BY <1>2, <2>1, <2>2 DEF Flows
<1>3. ASSUME Cuts
      PROVE  /\ Clear(Unread, events, X) => Clear(Unread', events', X)
             /\ \A r : Comes(Unread, events, X, r) =>
                         Comes(Unread', events', X, r) \/ Clear(Unread', events', X)
  <2>1. PICK more \in Seq(StreamLine) : Unread = Unread' \o more
    BY <1>3 DEF Cuts
  <2>2. PICK t \in Seq(MuteSignal) : events' = events \o t
    BY <1>3 DEF Cuts
  <2>3. Unread' \in Seq(StreamLine)
    BY <1>3 DEF Cuts
  <2>4. PICK lines \in Seq(StreamLine) : lines = Unread'
    BY <2>3
  <2>5. /\ Clear(lines \o more, events, X) => Clear(lines, events, X)
        /\ \A r : Comes(lines \o more, events, X, r) => Comes(lines, events, X, r) \/ Clear(lines, events, X)
    BY LinesAreLost
  <2>6. /\ Clear(lines, events, X) => Clear(lines, events \o t, X)
        /\ \A r : Comes(lines, events, X, r) => Comes(lines, events \o t, X, r)
    BY <1>1, SignalsCome
  <2>q. QED
    BY <2>1, <2>2, <2>4, <2>5, <2>6
<1>q. QED
  BY <1>2, <1>3

(* Every stage goes on while the lines flow and no command is lost.        *)
LEMMA FlowsKeepStage ==
  ASSUME ConnectionInv, UNCHANGED <<sessionVars, server>>, Flows(MuteSignal), Asked' = Asked
  PROVE  /\ Rest => Rest'
         /\ Asking => Asking'
         /\ Holding => Holding'
         /\ Replying => Replying'
<1>1. Chatter' = Chatter /\ UNCHANGED <<jobRunning, state, currentMailBox>>
  BY SameSession DEF sessionVars
<1>2. /\ NoReply(StarLine) => NoReply(StarLine)'
      /\ NoReply(Chatter) => NoReply(Chatter)'
      /\ \A r : ReplyComes(r) => ReplyComes(r)'
  BY <1>1, FlowOfLines DEF NoReply, ReplyComes
<1>3. Agreed => Agreed'
  BY <1>1 DEF Agreed
<1>4. \A r : Predicted(r) => Predicted(r)'
  BY SameSession DEF Predicted
<1>5. Rest => Rest'
  BY <1>2, <1>3, SameSession DEF Rest
<1>6. Asking => Asking'
  BY <1>1, <1>2, <1>3, SameSession DEF Asking
<1>7. Holding => Holding'
  <2>1. UNCHANGED <<currentJob, job>>
    BY DEF sessionVars
  <2>2. Expects(server.idle) => Expects(server.idle)'
    BY <2>1 DEF Expects
  <2>q. QED
    BY <1>1, <1>2, <1>3, <2>2, SameSession DEF Holding
<1>8. Replying => Replying'
  BY <1>1, <1>2, <1>4, SameSession DEF Replying
<1>q. QED
  BY <1>5, <1>6, <1>7, <1>8

(* Whatever the stage, what is heard of it afterwards is its echo.         *)
LEMMA TalkEchoes ==
  ASSUME ConnectionInv, Opening \/ Talking
  PROVE  Echo
<1>1. StarLine \subseteq Chatter
  BY DEF Chatter
<1>2. NoReply(StarLine) => NoReply(Chatter)
  BY <1>1, MoreLines, ChannelTypes DEF NoReply
<1>3. CASE Opening
  BY <1>2, <1>3 DEF Opening, Echo
<1>4. CASE Talking
  BY <1>2, <1>4 DEF Talking, Rest, Asking, Holding, Replying, Echo
<1>q. QED
  BY <1>3, <1>4

(* The echo fades.                                                         *)
LEMMA EchoFades ==
  ASSUME ConnectionInv, UNCHANGED sessionVars, Flows(MuteSignal) \/ Cuts, Echo
  PROVE  Echo'
<1>1. Chatter' = Chatter /\ UNCHANGED <<jobRunning, state>>
  BY SameSession DEF sessionVars
<1>2. /\ NoReply(StarLine) => NoReply(StarLine)'
      /\ NoReply(Chatter) => NoReply(Chatter)'
      /\ \A r : ReplyComes(r) => ReplyComes(r)' \/ NoReply(Chatter)'
  BY <1>1, FlowOfLines DEF NoReply, ReplyComes
<1>q. QED
  BY <1>1, <1>2, SameSession DEF Echo

(* readMessage(): a line is parsed, or the connection is closed at one     *)
(* that cannot be.                                                         *)
LEMMA ReadingFlows ==
  ASSUME ConnectionInv, ReadMessage
  PROVE  /\ posted # <<>> /\ Head(posted) = "readMessage" /\ UNCHANGED <<sslSlots, dataQueue>>
         /\ \/ CloseSocket /\ Cuts
            \/ /\ \A T : Flows(T)
               /\ \E t \in Seq({"readMessage"}) : posted' = Tail(posted) \o t
               /\ UNCHANGED <<socket, tls, written>>
<1>1. PICK lines, unread, rest :
        /\ lines = IF m_data = <<>> THEN buffer ELSE m_data
        /\ unread = IF m_data = <<>> THEN <<>> ELSE buffer
        /\ rest = Tail(lines) \o unread
  OBVIOUS
<1>2. /\ posted # <<>> /\ Head(posted) = "readMessage" /\ UNCHANGED <<sslSlots, dataQueue>>
      /\ \/ /\ lines = <<>>
            /\ Take("readMessage", <<>>)
            /\ UNCHANGED <<socket, tls, written, events, buffer, m_data>>
         \/ /\ lines # <<>> /\ Head(lines).line.code = "garbage"
            /\ CloseSocket
            /\ m_data' = lines
            /\ UNCHANGED events
         \/ /\ lines # <<>> /\ Head(lines).line.code # "garbage"
            /\ \E t \in {<<>>, <<"readMessage">>} : Take("readMessage", t)
            /\ m_data' = Tail(lines)
            /\ buffer' = unread
            /\ events' = events \o <<[sig |-> "responseReceived", response |-> Head(lines).line]>>
            /\ UNCHANGED <<socket, tls, written>>
  BY <1>1 DEF ReadMessage, EmitAll, streamVars
<1>3. /\ buffer \in Seq(StreamLine) /\ m_data \in Seq(StreamLine) /\ events \in Seq(Signal)
      /\ Unread = m_data \o buffer
  BY ChannelTypes DEF Unread
<1>4. \A s \in Seq(StreamLine) : s \o <<>> = s /\ <<>> \o s = s
  OBVIOUS
<1>5. \A T : /\ <<>> \in Seq(T)
             /\ events = events \o <<>>
  BY <1>3, SequenceOperations
<1>6. {<<>>, <<"readMessage">>} \subseteq Seq({"readMessage"})
  BY SequenceOperations
<1>7. Unread' = m_data' \o buffer'
  BY DEF Unread
<1>8. CASE /\ lines = <<>>
           /\ Take("readMessage", <<>>)
           /\ UNCHANGED <<socket, tls, written, events, buffer, m_data>>
  <2>1. UNCHANGED Unread
    BY <1>8 DEF Unread
  <2>2. \A T : Flows(T)
    BY <1>5, <1>8, <2>1 DEF Flows
  <2>q. QED
    BY <1>2, <1>6, <1>8, <2>2 DEF Take
<1>9. CASE /\ lines # <<>> /\ Head(lines).line.code = "garbage"
           /\ CloseSocket
           /\ m_data' = lines
           /\ UNCHANGED events
  <2>1. buffer' = <<>> /\ lines \in Seq(StreamLine)
    BY <1>1, <1>3, <1>9 DEF CloseSocket
  <2>2. Unread' = lines
    BY <1>4, <1>7, <1>9, <2>1
  <2>3. Unread = lines \o (IF m_data = <<>> THEN <<>> ELSE buffer)
    BY <1>1, <1>3, <1>4
  <2>4. (IF m_data = <<>> THEN <<>> ELSE buffer) \in Seq(StreamLine)
    BY <1>3, <1>5
  <2>5. Cuts
    BY <1>5, <1>9, <2>1, <2>2, <2>3, <2>4 DEF Cuts
  <2>q. QED
    BY <1>2, <1>9, <2>5
<1>10. CASE /\ lines # <<>> /\ Head(lines).line.code # "garbage"
            /\ \E t \in {<<>>, <<"readMessage">>} : Take("readMessage", t)
            /\ m_data' = Tail(lines)
            /\ buffer' = unread
            /\ events' = events \o <<[sig |-> "responseReceived", response |-> Head(lines).line]>>
            /\ UNCHANGED <<socket, tls, written>>
  <2>1. /\ lines \in Seq(StreamLine) /\ Tail(lines) \in Seq(StreamLine) /\ unread \in Seq(StreamLine)
        /\ [sig |-> "responseReceived", response |-> Head(lines).line] \in Signal
    BY <1>1, <1>3, <1>5, <1>10, LinesType DEF ConnectionInv
  <2>2. Unread = lines \o unread
    BY <1>1, <1>3, <1>4
  <2>3. Unread # <<>> /\ Head(Unread) = Head(lines) /\ Tail(Unread) = Tail(lines) \o unread
    BY <1>10, <2>1, <2>2, ConcatBehind
  <2>4. Unread' = Tail(Unread)
    BY <1>7, <1>10, <2>3
  <2>5. HeadResponse \in Signal /\ HeadResponse = [sig |-> "responseReceived", response |-> Head(lines).line]
    BY <2>1, <2>3 DEF HeadResponse
  <2>6. events' = Append(events, HeadResponse)
    BY <1>3, <1>10, <2>5, AppendIsConcat
  <2>7. \A T : Flows(T)
    BY <2>3, <2>4, <2>5, <2>6 DEF Flows
  <2>q. QED
    BY <1>2, <1>6, <1>10, <2>7 DEF Take
<1>q. QED
  BY <1>2, <1>8, <1>9, <1>10

(* close() loses the lines the parser has not taken.                       *)
LEMMA ClosingCuts ==
  ASSUME ConnectionInv, CloseSocket, UNCHANGED <<m_data, events>>
  PROVE  Cuts
<1>1. buffer \in Seq(StreamLine) /\ m_data \in Seq(StreamLine) /\ events \in Seq(Signal)
  BY ChannelTypes
<1>2. Unread' = m_data
  BY <1>1 DEF Unread, CloseSocket
<1>3. events' = events \o <<>> /\ <<>> \in Seq(MuteSignal)
  BY <1>1, SequenceOperations
<1>q. QED
  BY <1>1, <1>2, <1>3 DEF Cuts, Unread

(* What is left of the secondary thread's calls when it does not connect.  *)
LEMMA LateCalls ==
  ASSUME ConnectionInv, HandlePosted, posted \in Seq(DownCall)
  PROVE  /\ posted # <<>> /\ Head(posted) \in DownCall
         /\ \/ WriteDataQueue \/ DoCloseSocket \/ ReadMessage \/ SlotSocketDisconnected \/ DoStartSsl
            \/ DoSslErrorHandlerResponse
<1>1. "threadQuit" \notin DownCall
  BY DEF DownCall, UpCall
<1>2. \A i \in 1..Len(posted) : posted[i] \in DownCall
  BY ElementOfSeq
<1>3. ~ThreadQuit
  BY <1>1, <1>2 DEF ThreadQuit, Contains
<1>4. posted # <<>> /\ Head(posted) \in DownCall
  BY <1>3, SecondaryThreadMoves, SequenceOperations DEF ConnectionInv
<1>q. QED
  BY <1>3, <1>4 DEF HandlePosted, ThreadInit, Reconnect, SetUseProxyInternal, Take, DownCall, UpCall

(* The lines flow or are cut, whatever the call.                           *)
LEMMA CallsFlow ==
  ASSUME ConnectionInv, HandlePosted, posted \in Seq(DownCall)
  PROVE  Flows(MuteSignal) \/ Cuts
<1>1. /\ posted # <<>>
      /\ \/ WriteDataQueue \/ DoCloseSocket \/ ReadMessage \/ SlotSocketDisconnected \/ DoStartSsl
         \/ DoSslErrorHandlerResponse
  BY LateCalls
<1>2. events \in Seq(Signal)
  BY ChannelTypes
<1>3. ASSUME UNCHANGED streamVars,
             UNCHANGED events \/ \E sig \in {"socketActivity", "socketDisconnected", "socketError",
                                             "encryptionNegotiationResult"} : Emit(sig)
      PROVE  Flows(MuteSignal)
  <2>1. UNCHANGED Unread
    BY <1>3 DEF streamVars, Unread
  <2>2. \E t \in Seq(MuteSignal) : events' = events \o t
    <3>1. CASE UNCHANGED events
      <4>1. <<>> \in Seq(MuteSignal) /\ events \o <<>> = events
        BY <1>2, SequenceOperations
      <4>q. QED
        BY <3>1, <4>1
    <3>2. ASSUME NEW sig \in {"socketActivity", "socketDisconnected", "socketError",
                              "encryptionNegotiationResult"}, Emit(sig)
          PROVE  \E t \in Seq(MuteSignal) : events' = events \o t
      <4>1. [sig |-> sig] \in MuteSignal /\ [sig |-> sig] \in Signal
        BY DEF MuteSignal, Signal
      <4>2. <<[sig |-> sig]>> \in Seq(MuteSignal)
        BY <4>1, SequenceOperations
      <4>3. events' = events \o <<[sig |-> sig]>>
        BY <1>2, <3>2, <4>1, AppendIsConcat DEF Emit
      <4>q. QED
        BY <4>2, <4>3
    <3>q. QED
      BY <1>3, <3>1, <3>2
  <2>q. QED
    BY <2>1, <2>2 DEF Flows
<1>4. CASE WriteDataQueue
  BY <1>3, <1>4 DEF WriteDataQueue
<1>5. CASE DoCloseSocket
  BY <1>5, ClosingCuts DEF DoCloseSocket
<1>6. CASE ReadMessage
  BY <1>6, ReadingFlows
<1>7. CASE SlotSocketDisconnected
  BY <1>3, <1>7 DEF SlotSocketDisconnected, threadVars, streamVars
<1>8. CASE DoStartSsl
  BY <1>3, <1>8 DEF DoStartSsl
<1>9. CASE DoSslErrorHandlerResponse
  BY <1>3, <1>9 DEF DoSslErrorHandlerResponse
<1>q. QED
  BY <1>1, <1>4, <1>5, <1>6, <1>7, <1>8, <1>9

(* A turn of the secondary thread that is not about encryption, and one    *)
(* that is.                                                                *)
CalmTurn == Flows(ActivitySignal) /\ CalmlyPosts /\ UNCHANGED <<tls, sslSlots>>
SslTurn ==
  /\ UNCHANGED Unread /\ posted' = Tail(posted)
  /\ \/ /\ Head(posted) = "doStartSsl" /\ sslSlots' = sslSlots + 1
        /\ tls = "plain" => tls' = "handshake"
        /\ UNCHANGED events \/ Emit("socketActivity")
     \/ /\ Head(posted) = "sslErrorIgnored" /\ UNCHANGED <<tls, sslSlots>>
        /\ Emit("encryptionNegotiationResult")

(* While the socket stays connected, the lines flow and no command is      *)
(* lost; and what is not about encryption leaves it alone.                 *)
LEMMA CallsKeepUp ==
  ASSUME ConnectionInv, HandlePosted, Up, socket' = "connected"
  PROVE  /\ posted # <<>> /\ Asked' = Asked
         /\ written = <<>> /\ dataQueue = <<>> => written' = <<>> /\ dataQueue' = <<>>
         /\ CalmTurn \/ SslTurn
<1>1. /\ socket = "connected" /\ posted \in Seq(UpCall)
  BY DEF Up
<1>2. posted \in Seq(DownCall)
  BY <1>1, SeqMonotonic DEF UpCall, DownCall
<1>3. /\ posted # <<>> /\ Head(posted) \in UpCall
      /\ \/ WriteDataQueue \/ DoCloseSocket \/ ReadMessage \/ SlotSocketDisconnected \/ DoStartSsl
         \/ DoSslErrorHandlerResponse
  BY <1>1, <1>2, LateCalls, SequenceOperations
<1>4. /\ events \in Seq(Signal) /\ posted \in Seq(Call) /\ Tail(posted) \in Seq(Call)
      /\ written \in Seq(Command) /\ dataQueue \in Seq(Command)
  BY <1>3, ChannelTypes, SequenceOperations
<1>5. /\ ~SlotSocketDisconnected /\ ~DoCloseSocket /\ ~CloseSocket
  BY <1>1, <1>3 DEF SlotSocketDisconnected, Take, UpCall, DoCloseSocket, CloseSocket, Drop
<1>6. \A call : Take(call, <<>>) => Head(posted) = call /\ posted' = Tail(posted)
  BY <1>4 DEF Take
<1>7. \A T : <<>> \in Seq(T) /\ events \o <<>> = events
  BY <1>4, SequenceOperations
<1>8. UNCHANGED <<written, dataQueue>> =>
        Asked' = Asked /\ (written = <<>> /\ dataQueue = <<>> => written' = <<>> /\ dataQueue' = <<>>)
  BY DEF Asked
<1>9. {"writeDataQueue", "readMessage"} \subseteq CalmCall
  BY DEF CalmCall, UpCall, SslCall, Call
<1>10. CASE WriteDataQueue
  <2>1. /\ Head(posted) = "writeDataQueue" /\ posted' = Tail(posted)
        /\ dataQueue' = <<>> /\ written' = written \o dataQueue
        /\ UNCHANGED events \/ Emit("socketActivity")
        /\ UNCHANGED <<tls, sslSlots, buffer, m_data>>
    BY <1>1, <1>6, <1>10 DEF WriteDataQueue, tlsVars, streamVars
  <2>2. Asked' = Asked
    BY <2>1, AskedMoves
  <2>3. written = <<>> /\ dataQueue = <<>> => written' = <<>>
    BY <2>1
  <2>4. CalmlyPosts
    <3>1. posted' = Tail(posted) \o <<>>
      BY <1>4, <2>1
    <3>q. QED
      BY <1>3, <1>7, <1>9, <2>1, <3>1, CalmSteps
  <2>5. \E t \in Seq(ActivitySignal) : events' = events \o t
    <3>1. [sig |-> "socketActivity"] \in ActivitySignal /\ [sig |-> "socketActivity"] \in Signal
      BY DEF ActivitySignal, Signal
    <3>2. <<[sig |-> "socketActivity"]>> \in Seq(ActivitySignal)
      BY <3>1, SequenceOperations
    <3>3. Emit("socketActivity") => events' = events \o <<[sig |-> "socketActivity"]>>
      BY <1>4, <3>1, AppendIsConcat DEF Emit
    <3>q. QED
      BY <1>7, <2>1, <3>2, <3>3
  <2>6. UNCHANGED Unread
    BY <2>1 DEF Unread
  <2>q. QED
    BY <1>3, <2>1, <2>2, <2>3, <2>4, <2>5, <2>6 DEF CalmTurn, Flows
<1>11. CASE ReadMessage
  <2>1. /\ Flows(ActivitySignal) /\ Head(posted) = "readMessage"
        /\ \E t \in Seq({"readMessage"}) : posted' = Tail(posted) \o t
        /\ UNCHANGED <<socket, tls, written, sslSlots, dataQueue>>
    BY <1>5, <1>11, ReadingFlows
  <2>2. CalmlyPosts
    <3>1. PICK t \in Seq({"readMessage"}) : posted' = Tail(posted) \o t
      BY <2>1
    <3>2. t \in Seq(CalmCall)
      BY <1>9, SeqMonotonic
    <3>q. QED
      BY <1>3, <1>9, <2>1, <3>1, <3>2, CalmSteps
  <2>q. QED
    BY <1>3, <1>8, <2>1, <2>2 DEF CalmTurn
<1>12. CASE DoStartSsl
  <2>1. UNCHANGED <<written, dataQueue, Unread>>
    BY <1>12 DEF DoStartSsl, Unread, streamVars
  <2>2. SslTurn
    BY <1>1, <1>6, <1>12, <2>1 DEF SslTurn, DoStartSsl
  <2>q. QED
    BY <1>3, <1>8, <2>1, <2>2
<1>13. CASE DoSslErrorHandlerResponse
  <2>1. /\ Take("sslErrorIgnored", <<>>) /\ Emit("encryptionNegotiationResult")
        /\ UNCHANGED <<tls, sslSlots, written, dataQueue, buffer, m_data>>
    BY <1>1, <1>13 DEF DoSslErrorHandlerResponse, Drop, streamVars
  <2>2. UNCHANGED Unread
    BY <2>1 DEF Unread
  <2>3. SslTurn
    BY <1>6, <2>1, <2>2 DEF SslTurn
  <2>q. QED
    BY <1>3, <1>8, <2>1, <2>3
<1>q. QED
  BY <1>3, <1>5, <1>10, <1>11, <1>12, <1>13

(* Before the greeting only the lines flow.                                *)
LEMMA FlowsKeepOpening ==
  ASSUME ConnectionInv, UNCHANGED <<sessionVars, server>>, Flows(ActivitySignal), Opening,
         Plain', Silent'
  PROVE  Opening'
<1>1. /\ events \in Seq(Signal) /\ Unread \in Seq(StreamLine)
      /\ UNCHANGED <<state, jobRunning>>
  BY ChannelTypes DEF sessionVars
<1>2. ActivitySignal \subseteq MuteSignal /\ ActivitySignal \subseteq OpeningSignal
      /\ ActivitySignal \subseteq Signal /\ OpeningSignal \subseteq Signal /\ GreetingSignal \subseteq Signal
  BY DEF ActivitySignal, MuteSignal, OpeningSignal, GreetingSignal
<1>3. Flows(MuteSignal)
  <2>1. Seq(ActivitySignal) \subseteq Seq(MuteSignal)
    BY <1>2, SeqMonotonic
  <2>q. QED
    BY <2>1 DEF Flows
<1>4. NoReply(StarLine)'
  BY <1>3, FlowOfLines DEF Opening, NoReply
<1>5. GreetingSignal' = GreetingSignal /\ \A l : Greets(l)' = Greets(l)
  BY DEF GreetingSignal, Greets
<1>6. /\ Ungreeted' /\ server'.idle = NoTag /\ server'.box = NoJob
  BY <1>1 DEF Opening, Ungreeted
<1>7. CASE UNCHANGED Unread /\ \E t \in Seq(ActivitySignal) : events' = events \o t
  <2>1. PICK t \in Seq(ActivitySignal) : events' = events \o t
    BY <1>7
  <2>2. t \in Seq(OpeningSignal) /\ t \in Seq(Signal)
    BY <1>2, SeqMonotonic
  <2>3. events \in Seq(OpeningSignal) => events' \in Seq(OpeningSignal)
    BY <2>1, <2>2, SequenceOperations
  <2>4. Among(events, OpeningSignal, GreetingSignal, Signal) =>
          Among(events', OpeningSignal, GreetingSignal, Signal)
    BY <1>1, <1>2, <2>1, <2>2, AmongConcat
  <2>5. Unread # <<>> /\ Greets(Head(Unread).line) => Unread' # <<>> /\ Greets(Head(Unread).line)'
    BY <1>5, <1>7 DEF Greets
  <2>6. \/ server'.phase = "greeting" /\ Unread' = <<>> /\ events' \in Seq(OpeningSignal)
        \/ Unread' # <<>> /\ Greets(Head(Unread).line)' /\ events' \in Seq(OpeningSignal)
        \/ Among(events', OpeningSignal, GreetingSignal, Signal)
        \/ server'.phase = "Logout"
    BY <1>7, <2>3, <2>4, <2>5 DEF Opening
  <2>q. QED
    BY <1>4, <1>5, <1>6, <2>6 DEF Opening
<1>8. CASE /\ Unread # <<>> /\ Unread' = Tail(Unread)
           /\ HeadResponse \in Signal /\ events' = Append(events, HeadResponse)
  <2>1. events' = events \o <<HeadResponse>> /\ <<HeadResponse>> \in Seq(Signal)
    BY <1>1, <1>8, AppendIsConcat, SequenceOperations
  <2>2. Among(events, OpeningSignal, GreetingSignal, Signal) =>
          Among(events', OpeningSignal, GreetingSignal, Signal)
    BY <1>1, <1>2, <2>1, AmongConcat
  <2>3. Greets(Head(Unread).line) => HeadResponse \in GreetingSignal
    BY <1>8 DEF HeadResponse, GreetingSignal
  <2>4. Greets(Head(Unread).line) /\ events \in Seq(OpeningSignal) =>
          Among(events', OpeningSignal, GreetingSignal, Signal)
    BY <1>2, <1>8, <2>3, AmongAppend
  <2>5. Among(events', OpeningSignal, GreetingSignal, Signal) \/ server'.phase = "Logout"
    BY <1>8, <2>2, <2>4 DEF Opening
  <2>q. QED
    BY <1>4, <1>5, <1>6, <2>5 DEF Opening
<1>q. QED
  BY <1>7, <1>8 DEF Flows

(* What turns encryption takes.                                            *)
LEMMA TurnsKeepTls ==
  ASSUME ConnectionInv, UNCHANGED sessionVars, posted # <<>>, CalmTurn \/ SslTurn
  PROVE  /\ Plain => CalmTurn /\ Plain'
         /\ Securing => Securing'
         /\ Secured => CalmTurn /\ Secured'
<1>1. /\ posted \in Seq(Call) /\ events \in Seq(Signal)
      /\ UNCHANGED sslVersion /\ (PastTls => PastTls')
  BY ChannelTypes, SameSession DEF sessionVars
<1>2. /\ CalmCall \subseteq Call /\ {"doStartSsl"} \subseteq Call
      /\ {"sslErrorIgnored", "sslErrorRefused"} \subseteq Call
      /\ CalmCall \cap SslCall = {}
      /\ CalmSignal \subseteq Signal /\ SslSignal \subseteq Signal
  BY DEF CalmCall, UpCall, SslCall, Call, CalmSignal, SslSignal
<1>3. ASSUME CalmTurn
      PROVE  /\ Plain => Plain'
             /\ Securing => Securing'
             /\ Secured => Secured'
  <2>1. CalmlyTells
    <3>1. CASE \E t \in Seq(ActivitySignal) : events' = events \o t
      <4>1. ActivitySignal \subseteq CalmSignal
        BY DEF ActivitySignal, CalmSignal, SslSignal
      <4>2. Seq(ActivitySignal) \subseteq Seq(CalmSignal)
        BY <4>1, SeqMonotonic
      <4>q. QED
        BY <3>1, <4>2, CalmSteps
    <3>2. CASE HeadResponse \in Signal /\ events' = Append(events, HeadResponse)
      <4>1. HeadResponse \in CalmSignal
        BY <3>2 DEF HeadResponse, CalmSignal, SslSignal
      <4>2. <<HeadResponse>> \in Seq(CalmSignal) /\ events' = events \o <<HeadResponse>>
        BY <1>1, <3>2, <4>1, SequenceOperations, AppendIsConcat
      <4>q. QED
        BY <4>2, CalmSteps
    <3>q. QED
      BY <1>3, <3>1, <3>2 DEF CalmTurn, Flows
  <2>q. QED
    BY <1>1, <1>3, <2>1, CalmKeepsTls DEF CalmTurn, Secured
<1>4. NoSslCall => ~SslTurn
  <2>1. NoSslCall => Head(posted) \in CalmCall
    BY SequenceOperations DEF NoSslCall
  <2>q. QED
    BY <1>2, <2>1 DEF SslTurn, SslCall
<1>5. ASSUME SslTurn, Securing
      PROVE  Securing'
  <2>1. ~NoSslCall
    BY <1>4, <1>5
  <2>2. CASE /\ tls = "plain" /\ sslSlots = 0
             /\ Among(posted, CalmCall, {"doStartSsl"}, CalmCall) /\ NoSslSignal
    <3>1. Head(posted) \in CalmCall \/ (Head(posted) = "doStartSsl" /\ Tail(posted) \in Seq(CalmCall))
      <4>1. PICK T : T = {"doStartSsl"}
        OBVIOUS
      <4>2. \/ Head(posted) \in CalmCall
            \/ Head(posted) \in T /\ Tail(posted) \in Seq(CalmCall)
        BY <1>1, <1>2, <2>2, <4>1, AmongHead
      <4>q. QED
        BY <4>1, <4>2
    <3>2. /\ Head(posted) = "doStartSsl" /\ NoSslCall'
      BY <1>2, <1>5, <3>1 DEF SslTurn, NoSslCall, SslCall
    <3>3. NoSslSignal'
      <4>1. UNCHANGED events => CalmlyTells
        BY CalmSteps
      <4>2. Emit("socketActivity") => CalmlyTells
        BY CalmSteps
      <4>3. Calmly(events, events', CalmSignal)
        BY <1>5, <3>2, <4>1, <4>2 DEF SslTurn, CalmlyTells
      <4>4. CalmSignal \cap SslSignal = {}
        BY DEF CalmSignal
      <4>q. QED
        BY <1>1, <1>2, <2>2, <4>3, <4>4, CalmOperations DEF NoSslSignal
    <3>4. tls' = "handshake" /\ sslSlots' = 1
      BY <1>5, <2>2, <3>2 DEF SslTurn
    <3>q. QED
      BY <1>1, <1>5, <3>2, <3>3, <3>4 DEF Securing
  <2>3. CASE /\ tls = "encrypted" /\ NoSslSignal
             /\ Among(posted, CalmCall, {"sslErrorIgnored", "sslErrorRefused"}, CalmCall)
    <3>1. Head(posted) \in CalmCall
          \/ (Head(posted) \in {"sslErrorIgnored", "sslErrorRefused"} /\ Tail(posted) \in Seq(CalmCall))
      BY <1>1, <1>2, <2>3, AmongHead
    <3>2. /\ Head(posted) = "sslErrorIgnored" /\ NoSslCall'
          /\ UNCHANGED tls /\ Emit("encryptionNegotiationResult")
      BY <1>2, <1>5, <3>1 DEF SslTurn, NoSslCall, SslCall
    <3>3. [sig |-> "encryptionNegotiationResult"] \in SslSignal
      BY DEF SslSignal, Signal
    <3>4. Among(events', CalmSignal, SslSignal, CalmSignal)
      BY <1>2, <2>3, <3>2, <3>3, AmongAppend DEF NoSslSignal, Emit
    <3>q. QED
      BY <1>1, <1>5, <2>3, <3>2, <3>4 DEF Securing
  <2>q. QED
    BY <1>5, <2>1, <2>2, <2>3 DEF Securing
<1>q. QED
  BY <1>3, <1>4, <1>5 DEF Plain, Secured

(* The secondary thread leaves the talk alone while the socket stays.      *)
LEMMA ThreadKeepsTalk ==
  ASSUME ConnectionInv, Up, SecondaryThread, socket' = "connected"
  PROVE  /\ Talking => Talking'
         /\ Opening => Opening'
<1>1. HandlePosted /\ UNCHANGED <<sessionVars, server>>
  BY DEF SecondaryThread
<1>2. /\ posted # <<>> /\ Asked' = Asked
      /\ written = <<>> /\ dataQueue = <<>> => written' = <<>> /\ dataQueue' = <<>>
      /\ CalmTurn \/ SslTurn
  BY <1>1, CallsKeepUp
<1>3. /\ Plain => CalmTurn /\ Plain'
      /\ Securing => Securing'
      /\ Secured => CalmTurn /\ Secured'
  BY <1>1, <1>2, TurnsKeepTls
<1>4. UNCHANGED <<state, isSocketConnected, jobRunning, sslVersion, currentMailBox>>
  BY <1>1 DEF sessionVars
<1>5. ASSUME Talking
      PROVE  Talking'
  <2>1. Flows(MuteSignal)
    <3>1. ActivitySignal \subseteq MuteSignal /\ events \in Seq(Signal)
      BY ChannelTypes DEF ActivitySignal, MuteSignal
    <3>2. Seq(ActivitySignal) \subseteq Seq(MuteSignal)
      BY <3>1, SeqMonotonic
    <3>3. CASE CalmTurn
      BY <3>2, <3>3 DEF CalmTurn, Flows
    <3>4. CASE SslTurn
      <4>1. \A sig \in {"socketActivity", "encryptionNegotiationResult"} :
              /\ [sig |-> sig] \in MuteSignal /\ [sig |-> sig] \in Signal
              /\ <<[sig |-> sig]>> \in Seq(MuteSignal)
              /\ Append(events, [sig |-> sig]) = events \o <<[sig |-> sig]>>
        <5> TAKE sig \in {"socketActivity", "encryptionNegotiationResult"}
        <5>1. [sig |-> sig] \in MuteSignal /\ [sig |-> sig] \in Signal
          BY DEF MuteSignal, Signal
        <5>q. QED
          BY <3>1, <5>1, SequenceOperations, AppendIsConcat
      <4>2. <<>> \in Seq(MuteSignal) /\ events = events \o <<>>
        BY <3>1, SequenceOperations
      <4>3. \E t \in Seq(MuteSignal) : events' = events \o t
        BY <3>4, <4>1, <4>2 DEF SslTurn, Emit
      <4>q. QED
        BY <3>4, <4>3 DEF SslTurn, Flows
    <3>q. QED
      BY <1>2, <3>3, <3>4
  <2>2. /\ Rest => Rest'
        /\ Asking => Asking'
        /\ Holding => Holding'
        /\ Replying => Replying'
    BY <1>1, <1>2, <2>1, FlowsKeepStage
  <2>q. QED
    BY <1>1, <1>3, <1>4, <1>5, <2>2 DEF Talking
<1>6. ASSUME Opening
      PROVE  Opening'
  <2>1. Plain /\ Silent
    BY <1>6 DEF Opening
  <2>2. CalmTurn /\ Plain'
    BY <1>3, <2>1
  <2>3. Silent'
    BY <1>1, <1>2, <1>4, <2>1, <2>2, SameSession DEF Silent, CalmTurn
  <2>q. QED
    BY <1>1, <1>6, <2>2, <2>3, FlowsKeepOpening DEF CalmTurn
<1>q. QED
  BY <1>5, <1>6

-----------------------------------------------------------------------------
(* A connection that is made or has ended stays so, or ends.               *)
LEMMA LinkStays ==
  ASSUME ConnectionInv, Up \/ (Down /\ Linked), SecondaryThread \/ Socket \/ Server
  PROVE  Linked' /\ (Up' \/ Down') /\ UNCHANGED <<sessionVars, settings>>
<1>1. LinkInv /\ Linked
  BY DEF LinkInv, Up, Linked
<1>2. LinkInv'
  BY <1>1, SecondaryThreadKeepsLink, OthersKeepLink
<1>3. UNCHANGED <<sessionVars, settings>>
  BY DEF SecondaryThread, Socket, Server
<1>4. Settled
  <2>1. UpCall \subseteq LateCall /\ DownCall \subseteq LateCall
    BY DEF UpCall, DownCall, LateCall, Call
  <2>q. QED
    BY <2>1, SeqMonotonic DEF Settled, Up, Down
<1>5. QuietSignal \subseteq LateSignal
  BY DEF QuietSignal, LateSignal
<1>6. Grows(LateSignal)
  <2>1. CASE SecondaryThread
    BY <2>1, SecondaryThreadSettles DEF SecondaryThread
  <2>2. CASE Socket
    BY <1>4, <1>5, <2>2, SocketSettles, GrowsOperations
  <2>3. CASE Server
    BY <1>5, <2>3, ServerSettles, GrowsOperations
  <2>q. QED
    BY <2>1, <2>2, <2>3
<1>7. Told' <=> Told
  BY <1>6, SameHead
<1>8. Linked'
  BY <1>1, <1>3, <1>7 DEF Linked, sessionVars
<1>q. QED
  BY <1>2, <1>3, <1>8 DEF LinkInv, ToConnect, Linked, Told

(* The handshake ends, and so may the connection.                          *)
LEMMA SocketKeepsTalk ==
  ASSUME ConnectionInv, Up, Socket, Opening \/ Talking
  PROVE  /\ socket' = "connected" => Talking' \/ Opening'
         /\ socket' # "connected" => Flows(MuteSignal)
         /\ UNCHANGED server
<1>1. /\ socket = "connected" /\ UNCHANGED <<sessionVars, server>>
      /\ SslConnected \/ RemoteClose
  BY DEF Up, Socket, SocketStep, Connected, ConnectFailed, ServerFollows
<1>2. events \in Seq(Signal) /\ posted \in Seq(Call)
  BY ChannelTypes
<1>3. CASE RemoteClose
  <2>1. UNCHANGED Unread
    BY <1>3 DEF RemoteClose, streamVars, Unread
  <2>2. [sig |-> "socketError"] \in MuteSignal /\ [sig |-> "socketError"] \in Signal
    BY DEF MuteSignal, Signal
  <2>3. events' = events \o <<[sig |-> "socketError"]>> /\ <<[sig |-> "socketError"]>> \in Seq(MuteSignal)
    BY <1>2, <1>3, <2>2, AppendIsConcat, SequenceOperations DEF RemoteClose, Emit
  <2>4. Flows(MuteSignal)
    BY <2>1, <2>3 DEF Flows
  <2>5. socket' # "connected"
    BY <1>3 DEF RemoteClose, Drop
  <2>q. QED
    BY <1>1, <2>4, <2>5
<1>4. CASE SslConnected
  <2>1. tls = "handshake" /\ tls' = "encrypted" /\ UNCHANGED <<socket, posted, written, dataQueue, Unread>>
    BY <1>4 DEF SslConnected, streamVars, Unread
  <2>2. Talking /\ Securing /\ Rest /\ sslSlots = 1 /\ NoSslCall /\ NoSslSignal
    BY <2>1 DEF Opening, Plain, Talking, Securing, Secured
  <2>3. PICK e : /\ e \in {[sig |-> "encryptionNegotiationResult"], [sig |-> "sslError"]}
                 /\ events' = events \o [i \in 1..sslSlots |-> e]
    BY <1>4 DEF SslConnected, EmitAll
  <2>4. e \in SslSignal /\ e \in MuteSignal /\ e \in Signal
    BY <2>3 DEF SslSignal, MuteSignal, Signal
  <2>5. [i \in 1..sslSlots |-> e] = <<e>>
    BY <2>2
  <2>6. /\ events' = events \o <<e>> /\ events' = Append(events, e) /\ <<e>> \in Seq(MuteSignal)
    <3>1. events' = events \o <<e>>
      BY <2>3, <2>5
    <3>2. Append(events, e) = events \o <<e>>
      BY <1>2, <2>4, AppendIsConcat
    <3>3. <<e>> \in Seq(MuteSignal)
      BY <2>4, SequenceOperations
    <3>q. QED
      BY <3>1, <3>2, <3>3
  <2>7. Flows(MuteSignal)
    BY <2>1, <2>6 DEF Flows
  <2>8. Rest'
    BY <1>1, <2>1, <2>2, <2>7, FlowsKeepStage DEF Asked
  <2>9. Among(events', CalmSignal, SslSignal, CalmSignal)
    <3>1. CalmSignal \subseteq Signal /\ SslSignal \subseteq Signal
      BY DEF CalmSignal, SslSignal
    <3>q. QED
      BY <2>2, <2>4, <2>6, <3>1, AmongAppend DEF NoSslSignal
  <2>10. UNCHANGED <<state, isSocketConnected, jobRunning, sslVersion>>
    BY <1>1 DEF sessionVars
  <2>11. Securing'
    BY <2>1, <2>2, <2>9, <2>10 DEF Securing, NoSslCall
  <2>12. Talking'
    BY <1>1, <2>2, <2>8, <2>10, <2>11 DEF Talking, Securing, Plain, Secured
  <2>q. QED
    BY <1>1, <2>1, <2>12
<1>q. QED
  BY <1>1, <1>3, <1>4

(* The connection is made for the first time: the server greets it, or it  *)
(* is closed before it does; or the attempt fails.                         *)
LEMMA AttemptOpens ==
  ASSUME ConnectionInv, ToConnect, ~isSocketConnected, Silent, Socket
  PROVE  /\ \/ Up' /\ Opening'
            \/ Down' /\ Linked' /\ Echo'
            \/ Over'
         /\ ~server.lineFeedDue => ~server'.lineFeedDue
<1>1. /\ events = <<>> /\ buffer = <<>> /\ m_data = <<>> /\ tls = "plain"
      /\ state = "Disconnected" /\ ~jobRunning /\ currentJob = NoJob
      /\ written = <<>> /\ dataQueue = <<>> /\ sslSlots = 0 /\ ~sslVersion
      /\ currentMailBox = NoJob
  BY DEF ToConnect, Ungreeted, Silent
<1>2. /\ socket = "connecting" /\ UNCHANGED sessionVars /\ posted \in Seq(FirstCall)
      /\ Connected \/ ConnectFailed
      /\ server' = IF socket' = "connected" THEN FreshServer(server.sent) ELSE server
  <2>1. SocketStep /\ ServerFollows /\ UNCHANGED sessionVars
    BY DEF Socket
  <2>2. socket # "connected"
    BY DEF ToConnect
  <2>3. socket = "connecting" /\ (Connected \/ ConnectFailed)
    BY <2>1, <2>2 DEF SocketStep, SslConnected, RemoteClose, Connected, ConnectFailed
  <2>4. posted \in Seq(FirstCall)
    BY <2>3 DEF ToConnect
  <2>q. QED
    BY <2>1, <2>2, <2>3, <2>4 DEF ServerFollows
<1>3. /\ UNCHANGED <<state, isSocketConnected, jobRunning, currentJob, sslVersion, currentMailBox>>
      /\ Forgotten'
  BY <1>2, SameSession DEF sessionVars, Silent
<1>4. LinkInv'
  BY OthersKeepLink DEF LinkInv
<1>5. ~server.lineFeedDue => ~server'.lineFeedDue
  BY <1>2 DEF FreshServer
<1>6. CASE ConnectFailed
  <2>1. socket' = "unconnected" /\ events' = <<[sig |-> "socketError"]>>
    BY <1>1, <1>6 DEF ConnectFailed, Drop, Emit
  <2>2. Down' /\ ~Told'
    BY <1>4, <2>1 DEF LinkInv, ToConnect, Up, Told
  <2>q. QED
    BY <1>1, <1>3, <1>5, <2>2 DEF Over
<1>7. CASE Connected
  <2>1. /\ events' = <<[sig |-> "socketConnected"]>> /\ UNCHANGED <<sslSlots, buffer, m_data, dataQueue>>
        /\ \/ pendingClose /\ socket' = "unconnected"
           \/ socket' = "connected" /\ UNCHANGED <<tls, written, posted>>
    BY <1>1, <1>7 DEF Connected, Drop, Emit, streamVars
  <2>2. Told' /\ Linked'
    BY <2>1 DEF Told, Linked
  <2>3. Unread' = <<>>
    BY <1>1, <2>1 DEF Unread
  <2>4. events' \in Seq(OpeningSignal) /\ events' \in Seq(CalmSignal) /\ events' \in Seq(MuteSignal)
    <3>1. [sig |-> "socketConnected"] \in OpeningSignal \cap CalmSignal \cap MuteSignal
      BY DEF OpeningSignal, CalmSignal, SslSignal, MuteSignal, Signal
    <3>q. QED
      BY <2>1, <3>1, SequenceOperations
  <2>5. \A X : Clear(Unread', events', X)
    <3>1. \A X : MuteSignal \subseteq SignalOf(X)
      BY KindsOfLines
    <3>2. \A X : events' \in Seq(SignalOf(X))
      BY <2>4, <3>1, SeqMonotonic
    <3>q. QED
      BY <2>3, <3>2, SequenceOperations DEF Clear
  <2>6. CASE socket' = "unconnected"
    <3>1. Down'
      BY <1>4, <2>2, <2>6 DEF LinkInv, ToConnect, Up, Told
    <3>2. Echo'
      BY <2>5 DEF Echo, NoReply
    <3>q. QED
      BY <1>5, <2>2, <3>1, <3>2
  <2>7. CASE socket' = "connected" /\ UNCHANGED <<tls, written, posted>>
    <3>1. Up'
      BY <1>4, <2>7 DEF LinkInv, ToConnect, Down
    <3>2. /\ server'.phase = "greeting" /\ server'.idle = NoTag /\ server'.box = NoJob
      BY <1>2, <2>7 DEF FreshServer
    <3>3. Plain'
      <4>1. FirstCall \subseteq CalmCall
        BY DEF FirstCall, CalmCall, UpCall, SslCall, Call
      <4>2. posted' \in Seq(CalmCall)
        BY <1>2, <2>7, <4>1, SeqMonotonic
      <4>q. QED
        BY <1>1, <1>3, <2>1, <2>4, <2>7, <4>2 DEF Plain, NoSslCall, NoSslSignal
    <3>4. Silent' /\ Ungreeted'
      BY <1>1, <1>3, <2>1, <2>7 DEF Silent, Ungreeted
    <3>5. Opening'
      BY <2>3, <2>4, <2>5, <3>2, <3>3, <3>4 DEF Opening, NoReply
    <3>q. QED
      BY <1>5, <3>1, <3>5
  <2>q. QED
    BY <2>1, <2>6, <2>7
<1>q. QED
  BY <1>2, <1>6, <1>7

(* The first calls of the secondary thread find nothing to send.           *)
LEMMA SilenceGoesOn ==
  ASSUME ConnectionInv, ToConnect, ~isSocketConnected, Silent, SecondaryThread
  PROVE  ToConnect' /\ ~isSocketConnected' /\ Silent'
<1>1. \A i \in 1..Len(posted) : posted[i] \in {"threadInit", "reconnect"} \cup FirstCall
  <2>1. posted \in Seq(FirstCall) => \A i \in 1..Len(posted) : posted[i] \in FirstCall
    BY ElementOfSeq
  <2>q. QED
    BY <2>1 DEF ToConnect, OneConnects, Connecting
<1>2. posted # <<>> /\ ~ThreadQuit /\ HandlePosted /\ UNCHANGED sessionVars
  <2>1. ~ThreadQuit /\ HandlePosted /\ UNCHANGED sessionVars
    BY <1>1 DEF ThreadQuit, Contains, FirstCall, SecondaryThread
  <2>q. QED
    BY <2>1, SecondaryThreadMoves DEF ConnectionInv
<1>3. Head(posted) \in {"threadInit", "reconnect"} \cup FirstCall
  <2>1. Head(posted) = posted[1] /\ 1 \in 1..Len(posted)
    BY <1>2, ChannelTypes, LenProperties, HeadTailProperties
  <2>q. QED
    BY <1>1, <2>1
<1>4. ToConnect'
  BY <1>2, ToConnectGoesOn
<1>5. /\ written = <<>> /\ dataQueue = <<>> /\ sslSlots = 0 /\ ~sslVersion /\ currentMailBox = NoJob
      /\ Forgotten
  BY DEF Silent
<1>6. written' = <<>> /\ dataQueue' = <<>> /\ UNCHANGED sslSlots
  <2>1. ThreadInit \/ Reconnect \/ WriteDataQueue \/ DoCloseSocket \/ ReadMessage
    BY <1>2, <1>3 DEF HandlePosted, SlotSocketDisconnected, SetUseProxyInternal, DoStartSsl,
                      DoSslErrorHandlerResponse, Take, FirstCall
  <2>2. CASE ThreadInit \/ Reconnect
    BY <1>5, <2>2 DEF ThreadInit, Reconnect, tlsVars
  <2>3. CASE WriteDataQueue
    BY <1>5, <2>3 DEF WriteDataQueue, tlsVars
  <2>4. CloseSocket => written' = <<>>
    BY <1>5 DEF CloseSocket, Drop
  <2>5. CASE DoCloseSocket
    BY <1>5, <2>4, <2>5 DEF DoCloseSocket
  <2>6. CASE ReadMessage
    BY <1>5, <2>4, <2>6, ReadingFlows
  <2>q. QED
    BY <2>1, <2>2, <2>3, <2>5, <2>6
<1>7. UNCHANGED <<isSocketConnected, sslVersion, currentMailBox>> /\ Forgotten'
  BY <1>2, <1>5, SameSession DEF sessionVars
<1>q. QED
  BY <1>4, <1>5, <1>6, <1>7 DEF Silent

(* The other thread, the socket and the server keep the agreement.         *)
LEMMA OthersKeepAgreement ==
  ASSUME ConnectionInv, Orderly, AgreementInv, SecondaryThread \/ Socket \/ Server
  PROVE  AgreementInv'
<1>1. UNCHANGED <<sessionVars, settings>>
  BY DEF SecondaryThread, Socket, Server
<1>2. ~server'.lineFeedDue
  <2>1. CASE SecondaryThread
    BY <2>1 DEF SecondaryThread, AgreementInv
  <2>2. CASE Socket
    BY <2>2 DEF Socket, ServerFollows, FreshServer, AgreementInv
  <2>3. CASE Server
    BY <2>3, ServerSends DEF AgreementInv
  <2>q. QED
    BY <2>1, <2>2, <2>3
<1>3. /\ Alive' = Alive /\ LoneJob' = LoneJob /\ UNCHANGED <<isSocketConnected, currentJob>>
      /\ Deletes' = Deletes
  BY <1>1, SameSession DEF Alive, Deletes, sessionVars
<1>4. ASSUME Alive
      PROVE  \/ ToConnect' /\ ~isSocketConnected' /\ Silent'
             \/ Up' /\ (Opening' \/ Talking')
             \/ Down' /\ Linked' /\ (Deletes \/ Echo')
             \/ Over'
  <2>1. CASE ToConnect /\ ~isSocketConnected /\ Silent
    <3>1. ~Server
      BY <2>1, ServerSettles DEF ToConnect
    <3>q. QED
      BY <2>1, <3>1, SilenceGoesOn, AttemptOpens
  <2>2. CASE Up /\ (Opening \/ Talking)
    <3>1. Linked' /\ (Up' \/ Down')
      BY <2>2, LinkStays
    <3>2. /\ Up' => socket' = "connected"
          /\ Down' => socket' # "connected"
      BY DEF Up, Down
    <3>3. Echo
      BY <2>2, TalkEchoes
    <3>4. CASE SecondaryThread
      <4>1. Up' => Talking' \/ Opening'
        BY <2>2, <3>2, <3>4, ThreadKeepsTalk
      <4>2. Down' => Echo'
        <5>1. posted \in Seq(DownCall)
          <6>1. UpCall \subseteq DownCall
            BY DEF DownCall
          <6>q. QED
            BY <2>2, <6>1, SeqMonotonic DEF Up
        <5>q. QED
          BY <1>1, <3>3, <3>4, <5>1, CallsFlow, EchoFades DEF SecondaryThread
      <4>q. QED
        BY <3>1, <4>1, <4>2
    <3>5. CASE Socket
      <4>1. /\ Up' => Talking' \/ Opening'
            /\ Down' => Flows(MuteSignal)
        BY <2>2, <3>2, <3>5, SocketKeepsTalk
      <4>2. Down' => Echo'
        BY <1>1, <3>3, <4>1, EchoFades
      <4>q. QED
        BY <3>1, <4>1, <4>2
    <3>6. CASE Server
      <4>1. Talking' \/ Opening'
        BY <2>2, <3>6, ServerKeepsTalk DEF AgreementInv
      <4>2. socket' = "connected"
        BY <3>6, ServerSettles
      <4>q. QED
        BY <3>1, <3>2, <4>1, <4>2
    <3>q. QED
      BY <3>4, <3>5, <3>6
  <2>3. ASSUME Down
        PROVE  SecondaryThread /\ (Echo => Echo')
    <3>1. SecondaryThread
      BY <2>3, ServerSettles DEF Down, Socket, SocketStep, Connected, ConnectFailed, SslConnected, RemoteClose
    <3>2. Flows(MuteSignal) \/ Cuts
      BY <2>3, <3>1, CallsFlow DEF SecondaryThread, Down
    <3>q. QED
      BY <1>1, <3>1, <3>2, EchoFades
  <2>4. CASE Down /\ Linked /\ (Deletes \/ Echo)
    <3>1. Linked' /\ (Up' \/ Down')
      BY <2>4, LinkStays
    <3>2. ~Up'
      <4>1. LinkInv /\ HandlePosted
        BY <2>3, <2>4 DEF LinkInv, SecondaryThread
      <4>2. socket' # "connected"
        <5>1. WriteDataQueue \/ DoCloseSocket \/ ReadMessage \/ SlotSocketDisconnected \/ DoStartSsl
              \/ DoSslErrorHandlerResponse
          BY <2>4, <4>1, LateCalls DEF Down
        <5>2. CloseSocket => socket' # "connected"
          BY <2>4 DEF CloseSocket, Drop, Down
        <5>3. ReadMessage => UNCHANGED socket \/ CloseSocket
          BY ReadingFlows
        <5>q. QED
          BY <2>4, <5>1, <5>2, <5>3 DEF WriteDataQueue, DoCloseSocket, SlotSocketDisconnected, DoStartSsl,
             DoSslErrorHandlerResponse, Drop, threadVars, Down
      <4>q. QED
        BY <4>2 DEF Up
    <3>q. QED
      BY <2>3, <2>4, <3>1, <3>2
  <2>5. CASE Over
    <3>1. Down /\ ~isSocketConnected /\ ~Told /\ LinkInv
      BY <2>5 DEF Over, LinkInv
    <3>2. Down' /\ ~Told'
      BY <3>1, SecondaryThreadKeepsLink, OthersKeepLink
    <3>q. QED
      BY <1>3, <2>5, <3>2 DEF Over
  <2>q. QED
    BY <1>4, <2>1, <2>2, <2>4, <2>5 DEF AgreementInv
<1>q. QED
  BY <1>2, <1>3, <1>4 DEF AgreementInv

-----------------------------------------------------------------------------
(* A session that only listens keeps what it remembers, and what its job   *)
(* waits for, unless the job is deleted.                                   *)
LEMMA ListensOnly ==
  ASSUME Listens
  PROVE  /\ Chatter \subseteq Chatter' /\ StarLine \subseteq Chatter
         /\ LoginRuns' => LoginRuns
         /\ SelectRuns' => SelectRuns
         /\ Forgotten => Forgotten'
         /\ PastTls => PastTls'
         /\ \A tag : Expects(tag) => Expects(tag)'
         /\ \A cmd : Remembered(cmd) /\ Suits(cmd) => Remembered(cmd)' /\ Suits(cmd)'
         /\ \A r : /\ Moves(r) => Moves(r)'
                   /\ Answers(r) => Answers(r)'
                   /\ NextState(r)' = NextState(r) /\ NextMailBox(r)' = NextMailBox(r)
<1>1. /\ UNCHANGED <<state, currentMailBox, pendingTag, upcomingMailBox, jobRunning>>
      /\ currentJob' # NoJob => /\ currentJob' = currentJob /\ currentJob # NoJob
                                /\ job'[currentJob'].phase = job[currentJob].phase
                                /\ job'[currentJob'].step = job[currentJob].step
                                /\ job'[currentJob'].tags = job[currentJob].tags
  BY DEF Listens, SameTask
<1>2. /\ LoginRuns' => LoginRuns
      /\ SelectRuns' => SelectRuns
  BY <1>1 DEF LoginRuns, SelectRuns
<1>3. Chatter \subseteq Chatter' /\ StarLine \subseteq Chatter
  BY <1>2 DEF Chatter
<1>4. Forgotten => Forgotten'
  BY <1>1 DEF Forgotten
<1>5. PastTls => PastTls'
  BY <1>1, <1>2 DEF PastTls, LoginRuns
<1>6. \A tag : Expects(tag) => Expects(tag)'
  BY <1>1 DEF Expects
<1>7. \A cmd : Remembered(cmd) => Remembered(cmd)'
  BY <1>1 DEF Remembered
<1>8. \A cmd : Suits(cmd) => Suits(cmd)'
  BY <1>1, <1>2, <1>6 DEF Suits, LoginRuns, SelectRuns
<1>9. \A r : NextState(r)' = NextState(r)
  BY <1>1 DEF NextState
<1>10. \A r : NextMailBox(r)' = NextMailBox(r)
  BY <1>1, <1>9 DEF NextMailBox
<1>11. \A r : Moves(r) => Moves(r)'
  BY <1>1, <1>9 DEF Moves
<1>12. \A r : Answers(r) => Answers(r)'
  BY <1>1, <1>2, <1>6 DEF Answers, LoginRuns, SelectRuns
<1>q. QED
  BY <1>2, <1>3, <1>4, <1>5, <1>6, <1>7, <1>8, <1>9, <1>10, <1>11, <1>12

(* The main thread takes the next signal, which is no answer, or none.     *)
Hears == /\ UNCHANGED <<buffer, m_data>>
         /\ \/ UNCHANGED events
            \/ /\ events # <<>> /\ events' = Tail(events)
               /\ Head(events).sig = "responseReceived" => Head(events).response \notin ReplyLine

(* The lines that are still to come are the same.                          *)
LEMMA HearingGoesOn ==
  ASSUME ConnectionInv, Hears, NEW X, NEW Y, X \subseteq Y
  PROVE  /\ Clear(Unread, events, X) => Clear(Unread', events', Y)
         /\ \A r \in ReplyLine : Comes(Unread, events, X, r) => Comes(Unread', events', Y, r)
<1>1. /\ Unread \in Seq(StreamLine) /\ events \in Seq(Signal) /\ UNCHANGED Unread
  BY ChannelTypes DEF Hears, Unread
<1>2. /\ events' \in Seq(Signal)
      /\ Clear(Unread, events, X) => Clear(Unread, events', X)
      /\ \A r \in ReplyLine : Comes(Unread, events, X, r) => Comes(Unread, events', X, r)
  <2>1. CASE UNCHANGED events
    BY <1>1, <2>1
  <2>2. CASE /\ events # <<>> /\ events' = Tail(events)
             /\ Head(events).sig = "responseReceived" => Head(events).response \notin ReplyLine
    <3>1. events' \in Seq(Signal)
      BY <1>1, <2>2, SequenceOperations
    <3>2. Clear(Unread, events, X) => Clear(Unread, events', X)
      BY <1>1, <2>2, SignalIsTaken
    <3>3. ASSUME NEW r \in ReplyLine, Comes(Unread, events, X, r)
          PROVE  Comes(Unread, events', X, r)
      <4>1. Head(events) \notin ResponseOf({r})
        BY <2>2 DEF ResponseOf
      <4>q. QED
        BY <1>1, <2>2, <3>3, <4>1, SignalIsTaken
    <3>q. QED
      BY <3>1, <3>2, <3>3
  <2>q. QED
    BY <2>1, <2>2 DEF Hears
<1>3. PICK signals \in Seq(Signal) : signals = events'
  BY <1>2
<1>4. /\ Clear(Unread, signals, X) => Clear(Unread, signals, Y)
      /\ \A r : Comes(Unread, signals, X, r) => Comes(Unread, signals, Y, r)
  BY <1>1, MoreLines
<1>q. QED
  BY <1>1, <1>2, <1>3, <1>4

(* Every stage goes on while the session listens.                          *)
LEMMA ListensKeepsStage ==
  ASSUME ConnectionInv, Listens, Hears, UNCHANGED <<server, written>>
  PROVE  /\ Rest => Rest'
         /\ Asking => Asking'
         /\ Holding => Holding'
         /\ Replying => Replying'
         /\ Echo => Echo'
<1>1. UNCHANGED <<state, currentMailBox, jobRunning>>
  BY DEF Listens
<1>2. /\ NoReply(StarLine) => NoReply(StarLine)'
      /\ NoReply(Chatter) => NoReply(Chatter)'
      /\ \A r \in ReplyLine : ReplyComes(r) => ReplyComes(r)'
  <2>1. Chatter \subseteq Chatter' /\ StarLine \subseteq StarLine
    BY ListensOnly
  <2>2. Clear(Unread, events, StarLine) => Clear(Unread', events', StarLine)
    BY <2>1, HearingGoesOn
  <2>3. PICK Y : Y = Chatter'
    OBVIOUS
  <2>4. /\ Clear(Unread, events, Chatter) => Clear(Unread', events', Y)
        /\ \A r \in ReplyLine : Comes(Unread, events, Chatter, r) => Comes(Unread', events', Y, r)
    BY <2>1, <2>3, HearingGoesOn
  <2>q. QED
    BY <2>2, <2>3, <2>4 DEF NoReply, ReplyComes
<1>3. /\ Agreed => Agreed'
      /\ \A r : Predicted(r) => Predicted(r)'
  BY <1>1, ListensOnly DEF Agreed, Predicted
<1>4. /\ Asked \in Seq(DoneCommand) => Asked' \in Seq(DoneCommand)
      /\ \A cmd \in TaggedCommand : Among(Asked, DoneCommand, {cmd}, DoneCommand) =>
           Among(Asked', DoneCommand, {cmd}, DoneCommand)
  <2>1. CASE UNCHANGED dataQueue
    BY <2>1 DEF Asked
  <2>2. ASSUME NEW done \in DoneCommand, dataQueue' = Append(dataQueue, done)
        PROVE  /\ Asked \in Seq(DoneCommand) => Asked' \in Seq(DoneCommand)
               /\ \A cmd \in TaggedCommand : Among(Asked, DoneCommand, {cmd}, DoneCommand) =>
                    Among(Asked', DoneCommand, {cmd}, DoneCommand)
    <3>1. done \in Command /\ DoneCommand \subseteq Command /\ TaggedCommand \subseteq Command
          /\ Asked \in Seq(Command)
      BY ChannelTypes DEF DoneCommand, TaggedCommand
    <3>2. Asked' = Append(Asked, done)
      BY <2>2, <3>1, AskedMoves
    <3>3. Asked' = Asked \o <<done>> /\ <<done>> \in Seq(DoneCommand)
      BY <3>1, <3>2, AppendIsConcat, SequenceOperations
    <3>4. ASSUME NEW cmd \in TaggedCommand, Among(Asked, DoneCommand, {cmd}, DoneCommand)
          PROVE  Among(Asked', DoneCommand, {cmd}, DoneCommand)
      <4>1. {cmd} \subseteq Command
        BY <3>1
      <4>q. QED
        BY <3>1, <3>3, <3>4, <4>1, AmongConcat
    <3>5. Asked \in Seq(DoneCommand) => Asked' \in Seq(DoneCommand)
      BY <3>2, SequenceOperations
    <3>q. QED
      BY <3>4, <3>5
  <2>q. QED
    BY <2>1, <2>2 DEF Listens
<1>5. Rest => Rest'
  BY <1>2, <1>3, <1>4, ListensOnly DEF Rest
<1>6. Asking => Asking'
  BY <1>1, <1>2, <1>3, <1>4, ListensOnly DEF Asking
<1>7. Holding => Holding'
  <2>1. Expects(server.idle) => Expects(server.idle)'
    <3>1. PICK tag : tag = server.idle
      OBVIOUS
    <3>2. Expects(tag) => Expects(tag)'
      BY ListensOnly
    <3>q. QED
      BY <3>1, <3>2 DEF Expects
  <2>q. QED
    BY <1>1, <1>2, <1>3, <1>4, <2>1, ListensOnly DEF Holding
<1>8. Replying => Replying'
  BY <1>1, <1>2, <1>3, <1>4, ListensOnly DEF Replying
<1>9. Echo => Echo'
  BY <1>1, <1>2, ListensOnly DEF Echo
<1>q. QED
  BY <1>5, <1>6, <1>7, <1>8, <1>9

(* The end of a turn of the conversation: the session has the next command *)
(* to send, or none.                                                       *)
LEMMA TurnEnds ==
  ASSUME ConnectionInv, UNCHANGED <<server, written>>, Asked \in Seq(DoneCommand),
         server.idle = NoTag, NoReply(StarLine)', Agreed',
         NEW pt, \A v \in TrackedVerb : pt[v] = NoTag
  PROVE  /\ Speaks(pt) => Asking'
         /\ Silences(pt) => Rest'
         /\ Secures(pt) => Rest'
<1>1. ASSUME Speaks(pt)
      PROVE  Asking'
  <2>1. PICK cmd \in TaggedCommand :
          /\ dataQueue' = Append(dataQueue, cmd)
          /\ pendingTag' = [v \in TrackedVerb |-> IF v = cmd.verb THEN cmd.tag ELSE pt[v]]
          /\ cmd.verb = "SELECT" => upcomingMailBox' = cmd.box
          /\ Suits(cmd)'
    BY <1>1 DEF Speaks
  <2>2. cmd \in Command /\ DoneCommand \subseteq Command /\ {cmd} \subseteq Command
    BY DEF DoneCommand, TaggedCommand
  <2>3. Asked' = Append(Asked, cmd)
    BY <2>1, <2>2, AskedMoves
  <2>4. Among(Append(Asked, cmd), DoneCommand, {cmd}, DoneCommand)
    BY <2>2, AmongAppend
  <2>5. Remembered(cmd)'
    BY <2>1 DEF Remembered
  <2>6. jobRunning' /\ server'.idle = NoTag
    BY <1>1 DEF Speaks
  <2>q. QED
    BY <2>1, <2>3, <2>4, <2>5, <2>6 DEF Asking
<1>2. ASSUME Silences(pt) \/ Secures(pt)
      PROVE  Rest'
  <2>1. pendingTag' = pt /\ UNCHANGED dataQueue
    BY <1>2 DEF Silences, Secures
  <2>2. Asked' = Asked /\ Forgotten' /\ server'.idle = NoTag
    BY <2>1 DEF Asked, Forgotten
  <2>q. QED
    BY <2>2 DEF Rest
<1>q. QED
  BY <1>1, <1>2

-----------------------------------------------------------------------------
(* As long as no job is deleted, the main thread never runs without the    *)
(* job it runs.                                                            *)
LEMMA JobsStayAlone ==
  ASSUME ConnectionInv, Orderly, Application \/ Timeout \/ MainThread, Alive', ~Deletes, LoneJob
  PROVE  LoneJob'
<1>1. /\ RunTypeOK /\ QueueSound /\ job \in [Jobs -> JobRecord] /\ queue \in Seq(Jobs)
      /\ tagCount \in CommandTag
      /\ currentJob # NoJob => currentJob \in Jobs /\ job[currentJob].phase \in {"queued", "started"}
  BY DEF ConnectionInv, SessionInv, RunTypeOK, QueueSound, Pending
<1>2. UNCHANGED runVars => LoneJob'
  BY DEF LoneJob, runVars
<1>3. ASSUME NEW pt, Speaks(pt) \/ Silences(pt)
      PROVE  LoneJob'
  BY <1>2, <1>3 DEF Speaks, Silences, LoneJob
<1>4. CASE Application \/ Timeout
  <2>1. Listens => LoneJob'
    BY DEF Listens, SameTask, LoneJob
  <2>q. QED
    BY <1>3, <1>4, <2>1, CallsSpeak
<1>5. ASSUME NEW late, ClearJobQueue(queue \o late, StopTimer(timer))
      PROVE  LoneJob'
  BY <1>5 DEF ClearJobQueue, LoneJob
<1>6. ASSUME NEW j \in Jobs, NEW verb, NEW step, NEW pt, Continue(j, verb, step, pt)
      PROVE  LoneJob'
  <2>1. /\ UNCHANGED <<jobRunning, currentJob>>
        /\ job' = [job EXCEPT ![j].step = step, ![j].tags = @ \cup {NextTag}]
    BY <1>6 DEF Continue
  <2>2. currentJob # NoJob => job'[currentJob].phase = job[currentJob].phase
    BY <1>1, <2>1 DEF JobRecord
  <2>q. QED
    BY <2>1, <2>2 DEF LoneJob
<1>7. CASE MainThread /\ ResponseReceived
  <2>1. PICK r : r = Head(events).response
    OBVIOUS
  <2>2. PICK pt : pt = ClearTags(pendingTag, r.tag)
    OBVIOUS
  <2>3. \/ UNCHANGED runVars
        \/ Greeting(r)
        \/ currentJob # NoJob /\ HandleResponse(currentJob, r, state', pt)
    BY <1>7, <2>1, <2>2 DEF ResponseReceived
  <2>4. CASE Greeting(r)
    <3>1. \/ UNCHANGED runVars
          \/ \E t : StartNext(queue, currentJob, job, state', pendingTag, t)
      BY <2>4 DEF Greeting
    <3>q. QED
      BY <1>1, <1>2, <1>3, <3>1, StartNextSpeaks
  <2>5. ASSUME currentJob # NoJob, HandleResponse(currentJob, r, state', pt)
        PROVE  LoneJob'
    <3>1. \A failed \in BOOLEAN : Finish(currentJob, failed, state', pt) => LoneJob'
      BY <1>1, <1>3, <2>5, FinishSpeaks
    <3>2. Ignored(pt) => LoneJob'
      BY <1>2 DEF Ignored
    <3>3. LoginStep(currentJob, state', pt) => LoneJob'
      BY <1>1, <1>2, <1>6, <2>5, <3>1 DEF LoginStep
    <3>4. LoginResponse(currentJob, r, state', pt) => LoneJob'
      BY <3>1, <3>2, <3>3 DEF LoginResponse
    <3>5. PlainResponse(currentJob, r, state', pt) => LoneJob'
      <4>1. (r.code \notin {"OK", "none"}) \in BOOLEAN
        OBVIOUS
      <4>q. QED
        BY <3>1, <3>2, <4>1 DEF PlainResponse
    <3>q. QED
      BY <2>5, <3>4, <3>5 DEF HandleResponse
  <2>q. QED
    BY <1>2, <2>3, <2>4, <2>5
<1>8. CASE MainThread /\ OnEncryptionNegotiationResult
  BY <1>2, <1>6, <1>8 DEF OnEncryptionNegotiationResult
<1>9. CASE MainThread /\ SocketDisconnected
  BY <1>5, <1>9 DEF SocketDisconnected, ConnectionGone
<1>10. CASE MainThread /\ SocketError
  <2>1. CASE isSocketConnected
    <3>1. /\ UNCHANGED <<job, jobRunning>>
          /\ currentJob # NoJob => UNCHANGED currentJob
      BY <1>10, <2>1 DEF SocketError
    <3>q. QED
      BY <3>1 DEF LoneJob
  <2>2. CASE ~isSocketConnected
    BY <1>5, <1>10, <2>2 DEF SocketError
  <2>q. QED
    BY <2>1, <2>2
<1>11. CASE MainThread /\ (SocketConnected \/ SocketActivity \/ HandleSslError)
  <2>1. UNCHANGED runVars
    BY <1>11 DEF SocketConnected, SocketActivity, HandleSslError, sessionVars, runVars
  <2>q. QED
    BY <1>2, <2>1
<1>q. QED
  BY <1>4, <1>7, <1>8, <1>9, <1>10, <1>11 DEF MainThread, HandleSignal

(* Before the connection is made, only the application acts.               *)
LEMMA SilenceIsKept ==
  ASSUME ConnectionInv, Orderly, ToConnect, ~isSocketConnected, Silent,
         Application \/ Timeout \/ MainThread, Alive'
  PROVE  (ToConnect' /\ ~isSocketConnected' /\ Silent') \/ Over'
<1>1. ~MainThread
  BY HandleSignalHands DEF ConnectionInv, MainThread, ToConnect
<1>2. /\ Listens /\ UNCHANGED <<isSocketConnected, sslVersion, events, dataQueue>>
      /\ UNCHANGED <<threadVars, server>>
  BY <1>1, CallsSpeak, MainThreadSettles DEF Orderly, ToConnect, Ungreeted
<1>3. currentJob' = NoJob /\ ~Told' /\ UNCHANGED currentMailBox
  BY <1>2 DEF Listens, ToConnect, Told
<1>4. Silent'
  BY <1>2, <1>3, ListensOnly DEF Silent, threadVars
<1>5. LinkInv' /\ ~Up'
  <2>1. LinkInv'
    BY MainThreadKeepsLink DEF LinkInv, Orderly
  <2>q. QED
    BY <1>2, <2>1 DEF Up, ToConnect, threadVars
<1>q. QED
  BY <1>2, <1>3, <1>4, <1>5 DEF LinkInv, Over

(* After its end nothing starts a job.                                     *)
LEMMA OverForEver ==
  ASSUME ConnectionInv, Orderly, Over, Application \/ Timeout \/ MainThread, Alive'
  PROVE  Over'
<1>1. currentJob = NoJob /\ ~isSocketConnected /\ ~Told /\ Down
  BY DEF Over
<1>2. CASE Application \/ Timeout
  <2>1. Listens /\ UNCHANGED isSocketConnected
    BY <1>1, <1>2, CallsSpeak
  <2>q. QED
    BY <1>1, <2>1, MainThreadKeepsLink DEF Over, LinkInv, Orderly, Listens
<1>3. CASE MainThread
  <2>1. HandleSignal /\ events # <<>>
    BY <1>3, HandleSignalHands DEF ConnectionInv, MainThread
  <2>2. ~isSocketConnected'
    BY <1>1, <2>1, SignalsTell DEF Told
  <2>3. currentJob' = NoJob
    <3>1. CASE SocketConnected \/ SocketActivity \/ HandleSslError
      BY <1>1, <3>1 DEF SocketConnected, SocketActivity, HandleSslError, sessionVars, runVars
    <3>2. CASE SocketDisconnected
      BY <3>2 DEF SocketDisconnected, ConnectionGone, ClearJobQueue
    <3>3. CASE SocketError
      BY <1>1, <3>3 DEF SocketError, ClearJobQueue
    <3>4. CASE OnEncryptionNegotiationResult
      BY <1>1, <3>4 DEF OnEncryptionNegotiationResult, Continue, runVars
    <3>5. CASE ResponseReceived
      BY <1>1, <3>5 DEF ResponseReceived, Greeting, CanStart, runVars
    <3>q. QED
      BY <2>1, <3>1, <3>2, <3>3, <3>4, <3>5 DEF HandleSignal
  <2>q. QED
    BY <1>1, <1>3, <2>2, <2>3, MainThreadKeepsLink DEF Over, LinkInv, Orderly
<1>q. QED
  BY <1>2, <1>3

-----------------------------------------------------------------------------
(* The main thread takes a signal, and no line.                            *)
Takes == /\ UNCHANGED <<buffer, m_data>>
         /\ UNCHANGED events \/ (events # <<>> /\ events' = Tail(events))

(* As long as no reply is under way, any signal may be taken; and one that *)
(* is not a line answers nothing.                                          *)
LEMMA SignalIsHeard ==
  ASSUME ConnectionInv, Takes
  PROVE  /\ NoReply(StarLine) => NoReply(StarLine)'
         /\ NoReply(StarLine)' => Echo'
         /\ (\E e \in MuteSignal : events # <<>> /\ e = Head(events)) => Hears
<1>1. /\ Unread \in Seq(StreamLine) /\ events \in Seq(Signal) /\ UNCHANGED Unread
  BY ChannelTypes DEF Takes, Unread
<1>2. NoReply(StarLine) => NoReply(StarLine)'
  BY <1>1, SignalIsTaken DEF Takes, NoReply
<1>3. NoReply(StarLine)' => Echo'
  <2>1. PICK X : X = Chatter'
    OBVIOUS
  <2>2. StarLine \subseteq X
    BY <2>1 DEF Chatter
  <2>3. events' \in Seq(Signal)
    BY <1>1, SequenceOperations DEF Takes
  <2>4. PICK signals \in Seq(Signal) : signals = events'
    BY <2>3
  <2>5. Clear(Unread, signals, StarLine) => Clear(Unread, signals, X)
    BY <1>1, <2>2, MoreLines
  <2>q. QED
    BY <1>1, <2>1, <2>4, <2>5 DEF NoReply, Echo
<1>4. (\E e \in MuteSignal : events # <<>> /\ e = Head(events)) => Hears
  BY DEF MuteSignal, Takes, Hears
<1>q. QED
  BY <1>2, <1>3, <1>4

(* An untagged line, or the answer that was expected.                      *)
LEMMA HeadIsHeard ==
  ASSUME ConnectionInv, Takes, NEW r, ResponseReceived, r = Head(events).response
  PROVE  /\ \A X : NoReply(X) => r \in X
         /\ \A a : ReplyComes(a) => (r \in Chatter /\ ReplyComes(a)) \/ (r = a /\ NoReply(StarLine)')
         /\ r \in Chatter => Hears /\ (r \in StarLine \/ (r \in PlusLine /\ ~LoginRuns))
<1>1. /\ Unread \in Seq(StreamLine) /\ events \in Seq(Signal) /\ UNCHANGED Unread
  BY ChannelTypes DEF Takes, Unread
<1>2. events # <<>> /\ events' = Tail(events) /\ Head(events).sig = "responseReceived"
  BY DEF ResponseReceived, Receive
<1>3. \A X : Head(events) \in SignalOf(X) => r \in X
  BY <1>2 DEF SignalOf
<1>4. \A a : Head(events) \in ResponseOf({a}) => r = a
  BY DEF ResponseOf
<1>5. \A X : NoReply(X) => r \in X
  BY <1>1, <1>2, <1>3, SignalIsTaken DEF NoReply
<1>6. ASSUME NEW a, ReplyComes(a)
      PROVE  (r \in Chatter /\ ReplyComes(a)) \/ (r = a /\ NoReply(StarLine)')
  <2>1. \/ Head(events) \in SignalOf(Chatter)
        \/ Head(events) \in ResponseOf({a}) /\ Clear(Unread, Tail(events), StarLine)
    BY <1>1, <1>2, <1>6, SignalIsTaken DEF ReplyComes
  <2>q. QED
    BY <1>1, <1>2, <1>3, <1>4, <1>6, <2>1 DEF NoReply
<1>7. r \in Chatter => r \notin ReplyLine /\ (r \in StarLine \/ (r \in PlusLine /\ ~LoginRuns))
  BY LinkAssumption DEF Chatter, StarLine, PlusLine, ReplyLine, Star, Plus, CommandTag
<1>8. r \in Chatter => Hears
  BY <1>2, <1>7 DEF Hears, Takes
<1>q. QED
  BY <1>5, <1>6, <1>7, <1>8

-----------------------------------------------------------------------------
(* LoginJob asks for the capabilities of an encrypted connection: what it  *)
(* waited for before, it still takes for its own.                          *)
LEMMA CapabilityIsAsked ==
  ASSUME ConnectionInv, NEW j \in Jobs, Kind[j] \in LoginKind, job[j].phase = "started",
         Continue(j, "CAPABILITY", "Capability", pendingTag)
  PROVE  /\ j = currentJob /\ UNCHANGED <<jobRunning, currentJob, queue, pendingTag, upcomingMailBox>>
         /\ job'[j].phase = "started" /\ job'[j].step = "Capability" /\ job[j].tags \subseteq job'[j].tags
         /\ LoginRuns' /\ LoginRuns /\ ~SelectRuns'
<1>1. j = currentJob /\ job \in [Jobs -> JobRecord] /\ pendingTag \in [TrackedVerb -> Tag]
      /\ j # NoJob
  BY LinkAssumption DEF ConnectionInv, SessionInv, RunTypeOK, QueueSound
<1>2. /\ UNCHANGED <<jobRunning, currentJob, queue>>
      /\ job' = [job EXCEPT ![j].step = "Capability", ![j].tags = @ \cup {NextTag}]
      /\ SendCommand("CAPABILITY", NoJob, pendingTag)
  BY DEF Continue
<1>3. UNCHANGED <<pendingTag, upcomingMailBox>>
  BY <1>1, <1>2 DEF SendCommand, TrackedVerb
<1>4. /\ job'[j].phase = "started" /\ job'[j].step = "Capability"
      /\ job[j].tags \subseteq job'[j].tags
  BY <1>1, <1>2 DEF JobRecord
<1>5. LoginRuns' /\ LoginRuns
  BY <1>1, <1>2 DEF LoginRuns
<1>6. ~SelectRuns'
  BY <1>1, <1>2 DEF SelectRuns, LoginKind
<1>q. QED
  BY <1>1, <1>2, <1>3, <1>4, <1>5, <1>6

(* A signal that says nothing to the running job but that it goes on.      *)
LEMMA OtherSignalsListen ==
  ASSUME ConnectionInv, SocketConnected \/ SocketActivity \/ HandleSslError
                        \/ (SocketError /\ isSocketConnected /\ currentJob # NoJob)
  PROVE  Listens /\ UNCHANGED runVars
<1>1. CASE SocketConnected \/ SocketActivity
  BY <1>1 DEF SocketConnected, SocketActivity, runVars, mailVars, tagVars, Listens, SameTask
<1>2. CASE HandleSslError
  BY <1>2 DEF HandleSslError, sessionVars, runVars, Listens, SameTask
<1>3. CASE SocketError /\ isSocketConnected /\ currentJob # NoJob
  BY <1>3 DEF SocketError, runVars, mailVars, tagVars, Listens, SameTask
<1>q. QED
  BY <1>1, <1>2, <1>3

(* While the session does not know that the connection has ended, it hears *)
(* what had been sent before.                                              *)
LEMMA EchoIsHeard ==
  ASSUME ConnectionInv, Orderly, ~Deletes, LoneJob, Down, Linked, Echo,
         Application \/ Timeout \/ MainThread, Alive', Linked'
  PROVE  Echo'
<1>1. /\ UNCHANGED <<threadVars, server>> /\ Takes
  BY MainThreadSettles DEF Orderly, Takes, threadVars
<1>2. ~jobRunning => Echo'
  BY <1>1, SignalIsHeard DEF Echo
<1>3. Listens /\ Hears => Echo'
  BY <1>1, ListensKeepsStage DEF threadVars
<1>4. CASE Application \/ Timeout
  <2>1. UNCHANGED events /\ (Listens \/ ~jobRunning)
    BY <1>4, CallsSpeak
  <2>2. Hears
    BY <1>1, <2>1 DEF Hears, Takes
  <2>q. QED
    BY <1>2, <1>3, <2>1, <2>2
<1>5. ASSUME MainThread, jobRunning
      PROVE  Echo'
  <2>1. /\ HandleSignal /\ events # <<>> /\ events' = Tail(events) /\ Head(events) \in Signal
        /\ currentJob # NoJob /\ currentJob \in Jobs /\ job[currentJob].phase = "started"
    BY <1>5, HandleSignalHands, SequenceOperations
       DEF MainThread, LoneJob, ConnectionInv, LinkTypeOK, SessionInv, RunTypeOK
  <2>2. Head(events).sig # "responseReceived" => Hears
    BY <1>1, <2>1, SignalIsHeard DEF MuteSignal
  <2>3. CASE SocketConnected \/ SocketActivity \/ HandleSslError
    <3>1. Head(events).sig # "responseReceived"
      BY <2>3 DEF SocketConnected, SocketActivity, HandleSslError, Receive
    <3>q. QED
      BY <1>3, <2>2, <2>3, <3>1, OtherSignalsListen
  <2>4. CASE SocketDisconnected
    <3>1. Head(events).sig = "socketDisconnected"
      BY <2>4 DEF SocketDisconnected, Receive
    <3>2. ~isSocketConnected'
      BY <2>4 DEF SocketDisconnected, ConnectionGone
    <3>3. ~Told'
      BY <1>5, <3>2, MainThreadKeepsLink DEF LinkInv, Orderly
    <3>q. QED
      BY <3>2, <3>3 DEF Linked
  <2>5. CASE SocketError
    <3>1. Head(events).sig = "socketError"
      BY <2>5 DEF SocketError, Receive
    <3>2. isSocketConnected
      BY <3>1 DEF Linked, Told
    <3>q. QED
      BY <1>3, <2>1, <2>2, <2>5, <3>1, <3>2, OtherSignalsListen
  <2>6. CASE OnEncryptionNegotiationResult
    <3>1. Hears
      BY <2>2, <2>6 DEF OnEncryptionNegotiationResult, Receive
    <3>2. CASE \A j \in Jobs : Kind[j] \in LoginKind => job[j].phase # "started"
      <4>1. Listens
        BY <2>6, <3>2 DEF OnEncryptionNegotiationResult, Continue, runVars, mailVars, tagVars, Listens, SameTask
      <4>q. QED
        BY <1>3, <3>1, <4>1
    <3>3. ASSUME NEW j \in Jobs, Kind[j] \in LoginKind, job[j].phase = "started",
                 Continue(j, "CAPABILITY", "Capability", pendingTag)
          PROVE  Echo'
      <4>1. /\ j = currentJob
            /\ UNCHANGED <<jobRunning, currentJob, queue, pendingTag, upcomingMailBox, state, currentMailBox>>
            /\ job'[j].phase = "started" /\ job'[j].step = "Capability" /\ job[j].tags \subseteq job'[j].tags
            /\ LoginRuns' /\ LoginRuns /\ ~SelectRuns'
        BY <2>6, <3>3, CapabilityIsAsked DEF OnEncryptionNegotiationResult, mailVars
      <4>2. Chatter' = Chatter
        BY <4>1 DEF Chatter
      <4>3. /\ NoReply(Chatter) => NoReply(Chatter)'
            /\ \A r \in ReplyLine : ReplyComes(r) => ReplyComes(r)'
        BY <3>1, <4>2, HearingGoesOn DEF NoReply, ReplyComes
      <4>4. \A r : /\ NextState(r)' = NextState(r)
                   /\ Expects(r.tag) => Expects(r.tag)'
        BY <4>1 DEF NextState, Expects
      <4>5. \A r : /\ Moves(r) => Moves(r)'
                   /\ Answers(r) => Answers(r)'
        BY <4>1, <4>4 DEF Moves, Answers
      <4>q. QED
        BY <1>5, <4>1, <4>3, <4>5 DEF Echo
    <3>q. QED
      BY <2>6, <3>2, <3>3 DEF OnEncryptionNegotiationResult
  <2>7. CASE ResponseReceived
    <3>1. PICK r : r = Head(events).response
      OBVIOUS
    <3>2. r \in Chatter => Hears /\ (r \in StarLine \/ (r \in PlusLine /\ ~LoginRuns))
      BY <1>1, <2>7, <3>1, HeadIsHeard
    <3>3. CASE state = "Disconnected"
      <4>1. NoReply(Chatter)
        BY <1>5, <3>3 DEF Echo
      <4>2. Hears
        BY <1>1, <2>7, <3>1, <3>2, <4>1, HeadIsHeard
      <4>3. CASE r.code \notin Welcome
        BY <1>3, <2>7, <3>1, <3>3, <4>2, <4>3, FirstLineIsHeard
      <4>4. CASE r.code \in Welcome
        <5>1. UNCHANGED runVars
          BY <1>5, <2>7, <3>1, <3>3, <4>4 DEF ResponseReceived, Greeting, CanStart, Welcome
        <5>2. Chatter' = Chatter
          BY <5>1 DEF Chatter, LoginRuns, runVars
        <5>3. NoReply(Chatter)'
          BY <4>1, <4>2, <5>2, HearingGoesOn DEF NoReply
        <5>q. QED
          BY <1>5, <5>1, <5>3 DEF Echo, runVars
      <4>q. QED
        BY <4>3, <4>4
    <3>4. CASE state # "Disconnected"
      <4>1. r \in Chatter \/ NoReply(StarLine)'
        BY <1>1, <1>5, <2>7, <3>1, HeadIsHeard DEF Echo
      <4>2. CASE r \in Chatter
        BY <1>3, <2>7, <3>1, <3>2, <3>4, <4>2, UntaggedIsHeard
      <4>q. QED
        BY <1>1, <4>1, <4>2, SignalIsHeard
    <3>q. QED
      BY <3>3, <3>4
  <2>q. QED
    BY <2>1, <2>3, <2>4, <2>5, <2>6, <2>7 DEF HandleSignal
<1>q. QED
  BY <1>2, <1>4, <1>5

(* Until it hears of the end itself.                                       *)
LEMMA EndIsHeard ==
  ASSUME ConnectionInv, Orderly, Deletes \/ LoneJob, Down, Linked, Deletes \/ Echo,
         Application \/ Timeout \/ MainThread, Alive'
  PROVE  (Down' /\ Linked' /\ (Deletes \/ Echo')) \/ Over'
<1>1. UNCHANGED <<threadVars, server>> /\ LinkInv'
  BY MainThreadKeepsLink, MainThreadSettles DEF LinkInv, Orderly
<1>2. CASE Application \/ Timeout
  <2>1. UNCHANGED <<isSocketConnected, events>>
    BY <1>2, CallsSpeak
  <2>2. Linked' /\ ~(ToConnect' /\ ~isSocketConnected')
    BY <2>1 DEF Linked, Told, ToConnect
  <2>3. Down'
    BY <1>1, <2>2 DEF LinkInv, Up, Down, threadVars
  <2>q. QED
    BY <2>2, <2>3, EchoIsHeard
<1>3. CASE MainThread
  <2>1. HandleSignal /\ events # <<>>
    BY <1>3, HandleSignalHands DEF MainThread, ConnectionInv
  <2>2. Down'
    <3>1. CASE ~isSocketConnected'
      BY <1>3, <3>1, MainThreadKeepsLink DEF LinkInv, Orderly
    <3>2. CASE isSocketConnected'
      BY <1>1, <3>2 DEF LinkInv, Up, Down, threadVars
    <3>q. QED
      BY <3>1, <3>2
  <2>3. CASE Linked'
    BY <1>3, <2>2, <2>3, EchoIsHeard
  <2>4. CASE ~Linked'
    <3>1. ~isSocketConnected' /\ ~Told'
      BY <2>4 DEF Linked
    <3>2. Head(events).sig = "socketDisconnected"
      BY <2>1, <3>1, SignalsTell DEF Linked, Told
    <3>3. SocketDisconnected
      BY <2>1, <3>2 DEF HandleSignal, SocketConnected, SocketError, SocketActivity,
                        OnEncryptionNegotiationResult, HandleSslError, ResponseReceived, Receive
    <3>4. currentJob' = NoJob
      BY <3>3 DEF SocketDisconnected, ConnectionGone, ClearJobQueue
    <3>q. QED
      BY <2>2, <3>1, <3>4 DEF Over
  <2>q. QED
    BY <2>3, <2>4
<1>q. QED
  BY <1>2, <1>3

-----------------------------------------------------------------------------
(* What the conversation needs of the other channels, and how a turn of it *)
(* ends: with the next command, with silence, or with encryption.          *)
LEMMA TurnKeepsTalk ==
  ASSUME ConnectionInv, SessionInv', UNCHANGED <<server, written, tls, sslSlots, sslVersion>>, CalmlyTells,
         Asked \in Seq(DoneCommand), server.idle = NoTag, server.phase # "greeting",
         NoReply(StarLine)', Agreed', state' # "Disconnected", isSocketConnected', Plain \/ Secured,
         NEW pt, \A v \in TrackedVerb : pt[v] = NoTag, Speaks(pt) \/ Silences(pt) \/ Secures(pt)
  PROVE  Talking'
<1>1. /\ Speaks(pt) => Asking'
      /\ Silences(pt) => Rest'
      /\ Secures(pt) => Rest'
  BY TurnEnds
<1>2. server'.phase # "greeting"
  OBVIOUS
<1>3. CASE Speaks(pt) \/ Silences(pt)
  <2>1. CalmlyPosts
    <3>1. "writeDataQueue" \in CalmCall
      BY DEF CalmCall, UpCall, SslCall, Call
    <3>q. QED
      BY <1>3, <3>1, CalmSteps DEF Speaks, Silences
  <2>2. sslVersion /\ PastTls => PastTls'
    <3>1. ~jobRunning' => PastTls'
      BY DEF SessionInv, RunTypeOK, QueueSound, PastTls, LoginRuns
    <3>2. UNCHANGED runVars => PastTls' = PastTls
      BY DEF PastTls, LoginRuns, runVars
    <3>q. QED
      BY <1>3, <3>1, <3>2 DEF Speaks, Silences
  <2>3. Plain' \/ Secured'
    BY <2>1, <2>2, CalmKeepsTls DEF Secured
  <2>q. QED
    BY <1>1, <1>2, <1>3, <2>3 DEF Talking
<1>4. CASE Secures(pt)
  <2>1. /\ Post("doStartSsl") /\ UNCHANGED runVars /\ ~PastTls
    BY <1>4 DEF Secures
  <2>2. tls = "plain" /\ sslSlots = 0 /\ ~sslVersion /\ NoSslCall /\ NoSslSignal
    BY <2>1 DEF Secured, Plain
  <2>3. jobRunning /\ jobRunning'
    <3>1. currentJob \in Jobs /\ job[currentJob].phase = "started"
      BY <2>1 DEF PastTls, LoginRuns, ConnectionInv, SessionInv, RunTypeOK
    <3>q. QED
      BY <2>1, <3>1 DEF ConnectionInv, SessionInv, QueueSound, runVars
  <2>4. CalmCall \subseteq Call /\ {"doStartSsl"} \subseteq Call
    BY DEF CalmCall, UpCall, Call
  <2>5. Among(Append(posted, "doStartSsl"), CalmCall, {"doStartSsl"}, CalmCall)
    BY <2>2, <2>4, AmongAppend DEF NoSslCall
  <2>6. NoSslSignal'
    <3>1. /\ CalmSignal \subseteq Signal /\ events \in Seq(Signal)
          /\ SslSignal \subseteq Signal /\ CalmSignal \cap SslSignal = {}
      BY ChannelTypes DEF CalmSignal, SslSignal
    <3>2. PICK u : u = events'
      OBVIOUS
    <3>3. Calmly(events, u, CalmSignal)
      BY <3>2 DEF CalmlyTells
    <3>4. u \in Seq(CalmSignal)
      BY <2>2, <3>1, <3>3, CalmOperations DEF NoSslSignal
    <3>q. QED
      BY <3>2, <3>4 DEF NoSslSignal
  <2>7. Securing'
    BY <2>1, <2>2, <2>5, <2>6 DEF Securing, Post
  <2>q. QED
    BY <1>1, <1>2, <1>4, <2>3, <2>7 DEF Talking
<1>q. QED
  BY <1>3, <1>4

(* A session that listens goes on with the conversation,                   *)
LEMMA ListensKeepsTalk ==
  ASSUME ConnectionInv, Listens, Hears, UNCHANGED <<server, written, tls, sslSlots, sslVersion>>,
         CalmlyPosts, CalmlyTells, isSocketConnected', Talking
  PROVE  Talking'
<1>1. /\ Rest => Rest'
      /\ Asking => Asking'
      /\ Holding => Holding'
      /\ Replying => Replying'
  BY ListensKeepsStage
<1>2. /\ Plain => Plain'
      /\ Securing => Securing'
      /\ Secured => Secured'
  BY CalmKeepsTls, ListensOnly DEF Secured
<1>3. UNCHANGED <<state, jobRunning>>
  BY DEF Listens
<1>q. QED
  BY <1>1, <1>2, <1>3 DEF Talking

(* and waits for the greeting.                                             *)
LEMMA ListensKeepsOpening ==
  ASSUME ConnectionInv, Listens, Takes, UNCHANGED <<server, written, tls, sslSlots, sslVersion, dataQueue>>,
         CalmlyPosts, CalmlyTells, Opening,
         UNCHANGED events \/ Head(events) \in OpeningSignal \/ server.phase = "Logout"
  PROVE  Opening'
<1>1. /\ Unread \in Seq(StreamLine) /\ events \in Seq(Signal) /\ UNCHANGED Unread
  BY ChannelTypes DEF Takes, Unread
<1>2. Plain'
  BY CalmKeepsTls DEF Opening
<1>3. Ungreeted' /\ UNCHANGED currentMailBox
  BY DEF Listens, Opening, Ungreeted
<1>4. Silent'
  BY <1>3, ListensOnly DEF Opening, Silent
<1>5. NoReply(StarLine)'
  BY SignalIsHeard DEF Opening
<1>6. CASE server.phase = "Logout"
  BY <1>2, <1>3, <1>4, <1>5, <1>6 DEF Opening
<1>7. GreetingSignal' = GreetingSignal /\ (Unread # <<>> => Greets(Head(Unread).line)' = Greets(Head(Unread).line))
  BY <1>1 DEF GreetingSignal, Greets
<1>8. CASE UNCHANGED events
  BY <1>1, <1>2, <1>3, <1>4, <1>5, <1>7, <1>8 DEF Opening
<1>9. CASE server.phase # "Logout" /\ events # <<>> /\ events' = Tail(events) /\ Head(events) \in OpeningSignal
  <2>1. events \in Seq(OpeningSignal) => events' \in Seq(OpeningSignal)
    BY <1>9, SequenceOperations
  <2>2. Among(events, OpeningSignal, GreetingSignal, Signal) => Among(events', OpeningSignal, GreetingSignal, Signal)
    <3>1. OpeningSignal \subseteq Signal /\ GreetingSignal \subseteq Signal /\ OpeningSignal \cap GreetingSignal = {}
      BY DEF OpeningSignal, GreetingSignal
    <3>2. Head(events) \notin GreetingSignal
      BY <1>9, <3>1
    <3>q. QED
      BY <1>1, <1>9, <3>1, <3>2, AmongHead
  <2>q. QED
    BY <1>1, <1>2, <1>3, <1>4, <1>5, <1>7, <1>9, <2>1, <2>2 DEF Opening
<1>q. QED
  BY <1>6, <1>8, <1>9 DEF Takes

-----------------------------------------------------------------------------
(* The application starts a job only where nothing is under way.           *)
LEMMA CallsKeepTalk ==
  ASSUME ConnectionInv, ConnectionInv', Orderly, Up, Application \/ Timeout, Alive'
  PROVE  /\ Opening => Opening'
         /\ Talking => Talking'
<1>1. /\ UNCHANGED <<isSocketConnected, sslVersion, events, threadVars, server>>
      /\ Takes /\ Hears /\ CalmlyTells
  BY CallsSpeak, MainThreadSettles, CalmSteps DEF Orderly, Takes, Hears, threadVars
<1>2. UNCHANGED <<written, tls, sslSlots>>
  BY <1>1 DEF threadVars
<1>3. CASE Listens /\ CalmPost /\ (~jobRunning => UNCHANGED dataQueue)
  <2>1. CalmlyPosts
    BY <1>3, CalmSteps DEF CalmPost
  <2>2. Opening => Opening'
    BY <1>1, <1>2, <1>3, <2>1, ListensKeepsOpening DEF Opening, Ungreeted
  <2>3. Talking => Talking'
    BY <1>1, <1>2, <1>3, <2>1, ListensKeepsTalk DEF Talking
  <2>q. QED
    BY <2>2, <2>3
<1>4. CASE /\ state # "Disconnected" /\ ~jobRunning /\ isSocketConnected
           /\ UNCHANGED <<state, currentMailBox>>
           /\ Speaks(pendingTag) \/ Silences(pendingTag)
  <2>1. ~Opening
    BY <1>4 DEF Opening, Ungreeted
  <2>2. ASSUME Talking
        PROVE  Talking'
    <3>1. (Plain \/ Secured) /\ Rest /\ server.phase # "greeting"
      BY <1>4, <2>2 DEF Talking, Asking, Holding, Replying
    <3>2. NoReply(StarLine)' /\ Agreed'
      BY <1>1, <1>4, <3>1, SignalIsHeard DEF Rest, Agreed
    <3>3. PICK pt : pt = pendingTag
      OBVIOUS
    <3>4. /\ \A v \in TrackedVerb : pt[v] = NoTag
          /\ Speaks(pt) \/ Silences(pt) \/ Secures(pt)
      BY <1>4, <3>1, <3>3 DEF Rest, Forgotten
    <3>5. Asked \in Seq(DoneCommand) /\ server.idle = NoTag
      BY <3>1 DEF Rest
    <3>6. SessionInv' /\ state' # "Disconnected" /\ isSocketConnected'
      BY <1>1, <1>4 DEF ConnectionInv
    <3>q. QED
      BY <1>1, <1>2, <3>1, <3>2, <3>4, <3>5, <3>6, TurnKeepsTalk
  <2>q. QED
    BY <2>1, <2>2
<1>q. QED
  BY <1>3, <1>4, CallsSpeak

(* The greeting opens the conversation.                                    *)
LEMMA GreetingIsHeard ==
  ASSUME ConnectionInv, ConnectionInv', Orderly, Up, MainThread, Opening
  PROVE  Opening' \/ Talking'
<1>1. /\ UNCHANGED <<threadVars, server>> /\ Takes
      /\ HandleSignal /\ events # <<>> /\ events' = Tail(events)
  BY MainThreadSettles, HandleSignalHands DEF Orderly, MainThread, ConnectionInv, Takes, threadVars
<1>2. UNCHANGED <<written, tls, sslSlots>> /\ Ungreeted /\ Silent /\ Plain /\ NoReply(StarLine)
  BY <1>1 DEF threadVars, Opening
<1>3. Head(events) \in CalmSignal /\ Head(events).sig \in {"socketConnected", "socketActivity", "responseReceived"}
  <2>1. Head(events) \in CalmSignal /\ Head(events) \in Signal \ DownNews
    BY <1>1, <1>2, SequenceOperations DEF Plain, NoSslSignal, Up
  <2>q. QED
    BY <2>1 DEF CalmSignal, SslSignal, DownNews, Signal
<1>4. CalmlyTells
  BY <1>1, <1>3, CalmSteps
<1>5. CASE SocketConnected \/ SocketActivity
  <2>1. /\ UNCHANGED <<sslVersion, dataQueue>>
        /\ Head(events).sig \in {"socketConnected", "socketActivity"}
    BY <1>5 DEF SocketConnected, SocketActivity, Receive
  <2>2. UNCHANGED posted
    <3>1. queue # <<>> => Head(queue) \in Jobs
      BY SequenceOperations DEF ConnectionInv, SessionInv, RunTypeOK
    <3>2. ~(queue # <<>> /\ Kind[Head(queue)] = "tls")
      BY <3>1 DEF Orderly
    <3>q. QED
      BY <1>5, <3>2 DEF SocketConnected, SocketActivity
  <2>3. CalmlyPosts /\ Listens
    BY <1>5, <2>2, CalmSteps, OtherSignalsListen
  <2>4. Head(events) \in OpeningSignal
    BY <1>3, <2>1 DEF OpeningSignal, CalmSignal
  <2>q. QED
    BY <1>1, <1>2, <1>4, <2>1, <2>3, <2>4, ListensKeepsOpening
<1>6. CASE ResponseReceived
  <2>1. PICK r : r = Head(events).response
    OBVIOUS
  <2>2. /\ Head(events) \notin OpeningSignal /\ UNCHANGED sslVersion /\ state = "Disconnected"
        /\ isSocketConnected'
    <3>1. Head(events).sig = "responseReceived" /\ UNCHANGED <<sslVersion, isSocketConnected>>
      BY <1>6 DEF ResponseReceived, Receive
    <3>2. isSocketConnected
      BY <3>1 DEF Up, Told
    <3>q. QED
      BY <1>2, <3>1, <3>2 DEF Ungreeted, OpeningSignal
  <2>3. server.phase = "Logout" \/ Head(events) \in GreetingSignal
    <3>1. events \in Seq(OpeningSignal) => Head(events) \in OpeningSignal
      BY <1>1, SequenceOperations
    <3>2. Among(events, OpeningSignal, GreetingSignal, Signal) => Head(events) \in OpeningSignal \cup GreetingSignal
      <4>1. OpeningSignal \subseteq Signal /\ GreetingSignal \subseteq Signal /\ events \in Seq(Signal)
        BY ChannelTypes DEF OpeningSignal, GreetingSignal
      <4>q. QED
        BY <4>1, AmongHead
    <3>q. QED
      BY <2>2, <3>1, <3>2 DEF Opening
  <2>4. CASE r.code \in Welcome
    <3>1. /\ state' = GreetedState(r.code) /\ UNCHANGED currentMailBox
          /\ Speaks(pendingTag) \/ Silences(pendingTag)
      BY <1>6, <2>1, <2>2, <2>4, FirstLineIsHeard
    <3>2. /\ state' \in {"NotAuthenticated", "Authenticated"}
          /\ server.phase = "Logout" \/ server.phase = state'
      BY <2>1, <2>3, <3>1 DEF GreetingSignal, Greets, GreetedState
    <3>3. Asked \in Seq(DoneCommand)
      <4>1. Asked = <<>>
        BY <1>2 DEF Silent, Asked
      <4>q. QED
        BY <4>1, SequenceOperations
    <3>4. Agreed' /\ server.phase # "greeting" /\ server.idle = NoTag
      BY <1>1, <1>2, <3>1, <3>2 DEF Agreed, Opening, Silent
    <3>5. PICK pt : pt = pendingTag
      OBVIOUS
    <3>6. /\ \A v \in TrackedVerb : pt[v] = NoTag
          /\ Speaks(pt) \/ Silences(pt) \/ Secures(pt)
      BY <1>2, <3>1, <3>5 DEF Silent, Forgotten
    <3>7. SessionInv' /\ state' # "Disconnected" /\ NoReply(StarLine)'
      BY <1>1, <1>2, <3>2, SignalIsHeard DEF ConnectionInv
    <3>q. QED
      BY <1>1, <1>2, <1>4, <2>2, <3>3, <3>4, <3>6, <3>7, TurnKeepsTalk
  <2>5. CASE r.code \notin Welcome
    <3>1. Listens /\ UNCHANGED dataQueue /\ CalmPost
      BY <1>6, <2>1, <2>2, <2>5, FirstLineIsHeard
    <3>2. server.phase = "Logout"
      BY <2>1, <2>3, <2>5 DEF GreetingSignal, Greets
    <3>3. CalmlyPosts
      BY <3>1, CalmSteps DEF CalmPost
    <3>q. QED
      BY <1>1, <1>2, <1>4, <2>2, <3>1, <3>2, <3>3, ListensKeepsOpening
  <2>q. QED
    BY <2>4, <2>5
<1>q. QED
  BY <1>1, <1>3, <1>5, <1>6 DEF HandleSignal, SocketDisconnected, SocketError, OnEncryptionNegotiationResult,
                                HandleSslError, Receive

(* A line that is no answer changes nothing, and the answer ends the turn. *)
LEMMA ResponseKeepsTalk ==
  ASSUME ConnectionInv, ConnectionInv', Orderly, MainThread, ResponseReceived, Talking
  PROVE  Talking'
<1>1. /\ UNCHANGED <<threadVars, server>> /\ Takes
      /\ events # <<>> /\ events' = Tail(events) /\ Head(events).sig = "responseReceived"
      /\ Head(events) \in Signal /\ UNCHANGED <<isSocketConnected, sslVersion>>
  BY MainThreadSettles, SequenceOperations
     DEF Orderly, MainThread, ConnectionInv, Takes, threadVars, ResponseReceived, Receive, LinkTypeOK
<1>2. /\ UNCHANGED <<written, tls, sslSlots>> /\ state # "Disconnected" /\ isSocketConnected'
      /\ server.phase # "greeting"
  BY <1>1 DEF threadVars, Talking
<1>3. CalmlyTells
  <2>1. Head(events) \in CalmSignal
    BY <1>1 DEF CalmSignal, SslSignal
  <2>q. QED
    BY <1>1, <2>1, CalmSteps
<1>4. PICK r : r = Head(events).response
  OBVIOUS
<1>5. r \in Chatter => Talking'
  <2> SUFFICES ASSUME r \in Chatter PROVE Talking'
    OBVIOUS
  <2>1. Hears /\ (r \in StarLine \/ (r \in PlusLine /\ ~LoginRuns))
    BY <1>1, <1>4, HeadIsHeard
  <2>2. Listens /\ UNCHANGED posted
    BY <1>2, <1>4, <2>1, UntaggedIsHeard
  <2>3. CalmlyPosts
    BY <2>2, CalmSteps
  <2>q. QED
    BY <1>1, <1>2, <1>3, <2>1, <2>2, <2>3, ListensKeepsTalk
<1>6. CASE Rest \/ Asking \/ Holding
  <2>1. NoReply(StarLine) \/ NoReply(Chatter)
    BY <1>6 DEF Rest, Asking, Holding
  <2>2. r \in Chatter
    BY <1>1, <1>4, <2>1, HeadIsHeard DEF Chatter
  <2>q. QED
    BY <1>5, <2>2
<1>7. CASE Replying /\ (Plain \/ Secured)
  <2>1. PICK a \in ReplyLine : ReplyComes(a) /\ Moves(a) /\ Predicted(a) /\ Answers(a)
    BY <1>7 DEF Replying
  <2>2. CASE r \in Chatter
    BY <1>5, <2>2
  <2>3. CASE r = a /\ NoReply(StarLine)'
    <3>1. PICK pt : pt = ClearTags(pendingTag, r.tag)
      OBVIOUS
    <3>2. /\ state' = NextState(r) /\ currentMailBox' = NextMailBox(r)
          /\ Speaks(pt) \/ Silences(pt) \/ Secures(pt)
      BY <1>2, <1>4, <2>1, <2>3, <3>1, ReplyIsHeard
    <3>3. \A v \in TrackedVerb : pt[v] = NoTag
      BY <2>1, <2>3, <3>1 DEF Moves, ClearTags
    <3>4. Agreed'
      BY <1>1, <2>1, <2>3, <3>2 DEF Predicted, Agreed
    <3>5. state' # "Disconnected" /\ SessionInv'
      BY <1>2, <3>2 DEF NextState, ConnectionInv
    <3>6. Asked \in Seq(DoneCommand) /\ server.idle = NoTag
      BY <1>7 DEF Replying
    <3>q. QED
      BY <1>1, <1>2, <1>3, <1>7, <2>3, <3>2, <3>3, <3>4, <3>5, <3>6, TurnKeepsTalk
  <2>q. QED
    BY <1>1, <1>4, <2>1, <2>2, <2>3, HeadIsHeard
<1>q. QED
  BY <1>6, <1>7 DEF Talking

(* LoginJob hears that the connection is encrypted, or that it may be.     *)
LEMMA EncryptionKeepsTalk ==
  ASSUME ConnectionInv, ConnectionInv', Orderly, MainThread,
         OnEncryptionNegotiationResult \/ HandleSslError, Talking
  PROVE  Talking'
<1>1. /\ UNCHANGED <<threadVars, server, isSocketConnected>> /\ Takes
      /\ events # <<>> /\ events' = Tail(events)
      /\ Head(events).sig \in {"sslError", "encryptionNegotiationResult"}
  BY MainThreadSettles DEF Orderly, Takes, threadVars, OnEncryptionNegotiationResult, HandleSslError, Receive,
                           sessionVars
<1>2. UNCHANGED <<written, tls, sslSlots, state>>
  BY <1>1 DEF threadVars, OnEncryptionNegotiationResult, HandleSslError, mailVars, sessionVars
<1>3. Hears
  BY <1>1 DEF Hears, Takes
<1>4. /\ CalmSignal \subseteq Signal /\ SslSignal \subseteq Signal /\ events \in Seq(Signal)
      /\ CalmCall \subseteq Call /\ {"sslErrorIgnored", "sslErrorRefused"} \subseteq Call
      /\ Head(events) \notin CalmSignal
  <2>1. Head(events) \in Signal
    BY <1>1, SequenceOperations DEF ConnectionInv, LinkTypeOK
  <2>q. QED
    BY <1>1, <2>1, ChannelTypes DEF CalmSignal, SslSignal, CalmCall, UpCall, Call
<1>5. ~NoSslSignal
  BY <1>1, <1>4, SequenceOperations DEF NoSslSignal
<1>6. tls = "encrypted" /\ NoSslCall /\ Among(events, CalmSignal, SslSignal, CalmSignal)
      /\ Rest /\ jobRunning /\ ~sslVersion
  BY <1>5 DEF Talking, Plain, Secured, Securing
<1>7. NoSslSignal'
  BY <1>1, <1>4, <1>6, AmongHead DEF NoSslSignal
<1>8. CASE HandleSslError
  <2>1. Listens /\ Rest'
    BY <1>1, <1>2, <1>3, <1>6, <1>8, OtherSignalsListen, ListensKeepsStage
  <2>2. PICK call \in {"sslErrorIgnored", "sslErrorRefused"} : Post(call)
    BY <1>8 DEF HandleSslError
  <2>3. Among(posted', CalmCall, {"sslErrorIgnored", "sslErrorRefused"}, CalmCall)
    BY <1>4, <1>6, <2>2, AmongAppend DEF Post, NoSslCall
  <2>4. UNCHANGED <<sslVersion, jobRunning>>
    BY <1>8 DEF HandleSslError, sessionVars
  <2>5. Securing'
    BY <1>2, <1>6, <1>7, <2>3, <2>4 DEF Securing
  <2>q. QED
    BY <1>1, <1>2, <1>6, <2>1, <2>4, <2>5 DEF Talking
<1>9. CASE OnEncryptionNegotiationResult
  <2>1. sslVersion' /\ UNCHANGED <<state, currentMailBox>>
    BY <1>9 DEF OnEncryptionNegotiationResult, mailVars
  <2>2. CASE \A j \in Jobs : Kind[j] \in LoginKind => job[j].phase # "started"
    <3>1. UNCHANGED <<runVars, tagVars, posted, dataQueue>>
      BY <1>9, <2>2 DEF OnEncryptionNegotiationResult
    <3>2. Listens /\ Rest'
      <4>1. Listens
        BY <2>1, <3>1 DEF runVars, tagVars, Listens, SameTask
      <4>q. QED
        BY <1>2, <1>1, <1>3, <1>6, <4>1, ListensKeepsStage
    <3>3. PastTls'
      <4>1. currentJob # NoJob => currentJob \in Jobs
        BY DEF ConnectionInv, SessionInv, RunTypeOK
      <4>q. QED
        BY <2>2, <3>1, <4>1 DEF runVars, PastTls, LoginRuns
    <3>4. Secured'
      BY <1>2, <1>6, <1>7, <2>1, <3>1, <3>3 DEF Secured, NoSslCall
    <3>q. QED
      BY <1>1, <1>2, <3>2, <3>4 DEF Talking
  <2>3. ASSUME NEW j \in Jobs, Kind[j] \in LoginKind, job[j].phase = "started",
               Continue(j, "CAPABILITY", "Capability", pendingTag)
        PROVE  Talking'
    <3>1. /\ j = currentJob /\ currentJob' = j /\ job'[j].step = "Capability"
      BY <2>3, CapabilityIsAsked
    <3>2. PastTls'
      BY <3>1 DEF PastTls
    <3>3. PICK pt : pt = pendingTag
      OBVIOUS
    <3>4. Speaks(pt)
      BY <1>6, <2>3, <3>1, <3>3, ContinueSpeaks DEF ConnectionInv, SessionInv, Step
    <3>5. \A v \in TrackedVerb : pt[v] = NoTag
      BY <1>6, <3>3 DEF Rest, Forgotten
    <3>6. NoReply(StarLine)' /\ Agreed' /\ Asked \in Seq(DoneCommand) /\ server.idle = NoTag
      BY <1>1, <1>2, <1>6, <2>1, SignalIsHeard DEF Rest, Agreed
    <3>7. Asking'
      BY <1>1, <1>2, <3>4, <3>5, <3>6, TurnEnds
    <3>8. NoSslCall'
      <4>1. "writeDataQueue" \in CalmCall
        BY DEF CalmCall, UpCall, SslCall, Call
      <4>q. QED
        BY <1>6, <3>4, <4>1, SequenceOperations DEF Speaks, Post, NoSslCall
    <3>9. Secured'
      BY <1>2, <1>6, <1>7, <2>1, <3>2, <3>8 DEF Secured
    <3>q. QED
      BY <1>1, <1>2, <3>7, <3>9 DEF Talking
  <2>q. QED
    BY <1>9, <2>2, <2>3 DEF OnEncryptionNegotiationResult
<1>q. QED
  BY <1>8, <1>9

(* The main thread keeps up the conversation.                              *)
LEMMA SignalsKeepTalk ==
  ASSUME ConnectionInv, ConnectionInv', Orderly, Up, MainThread, Talking
  PROVE  Talking'
<1>1. /\ UNCHANGED <<threadVars, server>> /\ Takes
      /\ HandleSignal /\ events # <<>> /\ events' = Tail(events)
  BY MainThreadSettles, HandleSignalHands DEF Orderly, MainThread, ConnectionInv, Takes, threadVars
<1>2. UNCHANGED <<written, tls, sslSlots>> /\ state # "Disconnected" /\ isSocketConnected
  BY <1>1 DEF threadVars, Talking
<1>3. Head(events) \in CalmSignal \cup SslSignal /\ Head(events) \notin DownNews /\ Head(events) \in Signal
  <2>1. /\ CalmSignal \subseteq Signal /\ SslSignal \subseteq Signal /\ events \in Seq(Signal)
    BY ChannelTypes DEF CalmSignal, SslSignal
  <2>2. NoSslSignal => Head(events) \in CalmSignal
    BY <1>1, SequenceOperations DEF NoSslSignal
  <2>3. Among(events, CalmSignal, SslSignal, CalmSignal) => Head(events) \in CalmSignal \cup SslSignal
    BY <2>1, AmongHead
  <2>4. Head(events) \in Signal \ DownNews
    BY <1>1, SequenceOperations DEF Up
  <2>q. QED
    BY <2>2, <2>3, <2>4 DEF Talking, Plain, Secured, Securing
<1>4. CASE SocketConnected \/ SocketActivity
  <2>1. /\ UNCHANGED <<sslVersion, posted>> /\ isSocketConnected'
        /\ Head(events).sig \in {"socketConnected", "socketActivity"}
    BY <1>2, <1>4 DEF SocketConnected, SocketActivity, Receive
  <2>2. Listens /\ CalmlyPosts
    BY <1>4, <2>1, CalmSteps, OtherSignalsListen
  <2>3. CalmlyTells
    <3>1. Head(events) \in CalmSignal
      BY <1>3, <2>1 DEF CalmSignal, SslSignal
    <3>q. QED
      BY <1>1, <3>1, CalmSteps
  <2>4. Hears
    BY <1>1, <2>1 DEF Hears, Takes
  <2>q. QED
    BY <1>1, <1>2, <2>1, <2>2, <2>3, <2>4, ListensKeepsTalk
<1>5. CASE ResponseReceived
  BY <1>5, ResponseKeepsTalk
<1>6. CASE OnEncryptionNegotiationResult \/ HandleSslError
  BY <1>6, EncryptionKeepsTalk
<1>7. ~SocketDisconnected /\ ~SocketError
  <2>1. Head(events).sig \notin {"socketDisconnected", "socketError"}
    BY <1>3 DEF CalmSignal, SslSignal, DownNews
  <2>q. QED
    BY <2>1 DEF SocketDisconnected, SocketError, Receive
<1>q. QED
  BY <1>1, <1>4, <1>5, <1>6, <1>7 DEF HandleSignal

-----------------------------------------------------------------------------
(* Only the destruction of the session ends its life.                      *)
LEMMA DestroyedIsOff ==
  ASSUME ConnectionInv, Application \/ Timeout \/ MainThread, ~Alive'
  PROVE  ~isSocketConnected'
<1>1. Alive
  BY DEF Application, Timeout, MainThread
<1>2. Destroy
  <2>1. UNCHANGED settings => Alive'
    BY <1>1 DEF Alive
  <2>2. \A what \in {"close", "timeout", "proxy"} : Spend(what) => Alive'
    BY <1>1 DEF Alive, Spend, ConnectionInv, SettingsTypeOK
  <2>q. QED
    BY <2>1, <2>2 DEF Application, Timeout, MainThread
<1>q. QED
  BY <1>2 DEF Destroy, ConnectionGone

(* So the main thread keeps the invariant at every stage,                  *)
LEMMA MainThreadKeepsAgreement ==
  ASSUME ConnectionInv, ConnectionInv', Orderly, AgreementInv, Application \/ Timeout \/ MainThread
  PROVE  AgreementInv'
<1>1. UNCHANGED <<threadVars, server>> /\ ~server.lineFeedDue /\ Alive
  BY MainThreadSettles DEF Orderly, AgreementInv, Application, Timeout, MainThread
<1>2. CASE ~Alive'
  BY <1>1, <1>2, DestroyedIsOff DEF AgreementInv
<1>3. Alive' => Deletes \/ LoneJob'
  BY <1>1, JobsStayAlone DEF AgreementInv
<1>4. ASSUME Alive'
      PROVE  \/ ToConnect' /\ ~isSocketConnected' /\ Silent'
             \/ Up' /\ (Opening' \/ Talking')
             \/ Down' /\ Linked' /\ (Deletes \/ Echo')
             \/ Over'
  <2>1. CASE ToConnect /\ ~isSocketConnected /\ Silent
    BY <1>4, <2>1, SilenceIsKept
  <2>2. CASE Up /\ (Opening \/ Talking)
    <3>1. Up'
      <4>1. LinkInv' /\ socket' = "connected"
        BY <1>1, <1>4, <2>2, MainThreadKeepsLink DEF LinkInv, Orderly, Up, threadVars
      <4>q. QED
        BY <4>1 DEF LinkInv, ToConnect, Down
    <3>2. Opening' \/ Talking'
      BY <1>4, <2>2, CallsKeepTalk, GreetingIsHeard, SignalsKeepTalk
    <3>q. QED
      BY <3>1, <3>2
  <2>3. CASE Down /\ Linked /\ (Deletes \/ Echo)
    BY <1>1, <1>4, <2>3, EndIsHeard DEF AgreementInv
  <2>4. CASE Over
    BY <1>4, <2>4, OverForEver
  <2>q. QED
    BY <1>1, <2>1, <2>2, <2>3, <2>4 DEF AgreementInv
<1>5. ~server'.lineFeedDue
  BY <1>1
<1>q. QED
  BY <1>2, <1>3, <1>4, <1>5 DEF AgreementInv, Deletes

(* which begins with a session that is not connected and has said nothing, *)
LEMMA AgreementInitHolds == Init => AgreementInv
<1> SUFFICES ASSUME Init PROVE AgreementInv
  OBVIOUS
<1>1. ToConnect
  BY StartsToConnect
<1>2. ~isSocketConnected /\ Silent
  BY DEF Init, LinkInit, SessionInit, ThreadInitState, Silent, Forgotten
<1>3. LoneJob /\ ~server.lineFeedDue
  BY DEF Init, SessionInit, ServerInit, FreshServer, LoneJob
<1>q. QED
  BY <1>1, <1>2, <1>3 DEF AgreementInv

(* and every step of the system keeps it.                                  *)
LEMMA AgreementNextKeeps ==
  ASSUME Orderly
  PROVE  ConnectionInv /\ AgreementInv /\ [Next]_vars => AgreementInv'
<1> SUFFICES ASSUME ConnectionInv, AgreementInv, [Next]_vars
             PROVE  AgreementInv'
  OBVIOUS
<1>1. ConnectionInv'
  BY ConnectionNextKeeps
<1>2. CASE Application \/ Timeout \/ MainThread
  BY <1>1, <1>2, MainThreadKeepsAgreement
<1>3. CASE SecondaryThread \/ Socket \/ Server
  BY <1>3, OthersKeepAgreement
<1>4. CASE UNCHANGED vars
  <2>1. UNCHANGED <<linkVars, sessionVars, threadVars, server, settings>>
    BY <1>4 DEF vars
  <2>2. /\ ToConnect' = ToConnect /\ Up' = Up /\ Down' = Down /\ Over' = Over
        /\ Linked' = Linked /\ Alive' = Alive
    BY <2>1 DEF linkVars, sessionVars, threadVars, Alive, ToConnect, Ungreeted, OneConnects, Up, Down,
       Once, Told, ToldOfEnd, Has, Over, Linked
  <2>3. Silent' = Silent /\ LoneJob' = LoneJob
    BY <2>1 DEF linkVars, sessionVars, threadVars, Silent, Forgotten, LoneJob
  <2>4. /\ UNCHANGED <<server, written, dataQueue, tls, sslSlots, sslVersion, isSocketConnected>>
        /\ Listens /\ Hears /\ Takes /\ UNCHANGED <<events, posted>>
    BY <2>1 DEF linkVars, sessionVars, threadVars, Listens, SameTask, Hears, Takes
  <2>5. CalmlyPosts /\ CalmlyTells
    BY <2>4, CalmSteps
  <2>6. /\ Opening => Opening'
        /\ Talking => Talking'
        /\ Echo => Echo'
    BY <2>4, <2>5, ListensKeepsOpening, ListensKeepsTalk, ListensKeepsStage DEF Talking
  <2>q. QED
    BY <2>2, <2>3, <2>4, <2>6 DEF AgreementInv, Deletes
<1>q. QED
  BY <1>2, <1>3, <1>4 DEF Next

(* The invariant of the agreement.                                         *)
LEMMA AgreementHolds ==
  ASSUME Orderly
  PROVE  Spec => [](ConnectionInv /\ AgreementInv)
<1>1. Init => ConnectionInv /\ AgreementInv
  BY ConnectionInitHolds, AgreementInitHolds
<1>2. ConnectionInv /\ AgreementInv /\ [Next]_vars => (ConnectionInv /\ AgreementInv)'
  BY ConnectionNextKeeps, AgreementNextKeeps
<1>q. QED
  BY <1>1, <1>2, PTL DEF Spec

(* Where nothing is under way, no command and no answer is.                *)
LEMMA AgreementInvMeaning ==
  ASSUME ConnectionInv, AgreementInv
  PROVE  EndsAgree
<1> SUFFICES ASSUME Quiet, server.phase # "Logout"
             PROVE  /\ state = IF server.phase = "greeting" THEN "Disconnected" ELSE server.phase
                    /\ currentMailBox = server.box
  BY DEF EndsAgree
<1>1. /\ socket = "connected" /\ isSocketConnected
      /\ events = <<>> /\ Asked = <<>> /\ Unread = <<>>
  BY DEF Quiet, Asked, Unread, streamVars
<1>2. Opening \/ Talking
  BY <1>1 DEF AgreementInv, Down, Over
<1>3. \A S, A, T, B : Len(<<>>) = 0 /\ ~Among(<<>>, A, T, B)
  BY DEF Among
<1>4. CASE Opening
  <2>1. server.phase = "greeting"
    BY <1>1, <1>3, <1>4 DEF Opening
  <2>q. QED
    BY <1>4, <2>1 DEF Opening, Ungreeted, Silent
<1>5. CASE Talking
  <2>1. ~Asking
    BY <1>1, <1>3 DEF Asking
  <2>2. ~Replying
    BY <1>1, <1>3 DEF Replying, ReplyComes, Comes
  <2>3. Agreed
    BY <1>5, <2>1, <2>2 DEF Talking, Rest, Holding
  <2>q. QED
    BY <1>5, <2>3 DEF Agreed, Talking
<1>q. QED
  BY <1>2, <1>4, <1>5

(* SessionPrivate::responseReceived() follows the state of the server      *)
(* through the tags of LOGIN, SELECT and CLOSE: whenever nothing is under  *)
(* way, both ends are in the same state and have the same mailbox          *)
(* selected, whichever jobs the application starts, deletes or interrupts, *)
(* however often the connection is lost.  The server sends whole lines,    *)
(* the application leaves the proxy alone and starts no job for implicit   *)
(* TLS.                                                                    *)
THEOREM EndsAlwaysAgree ==
  ASSUME Orderly
  PROVE  Spec => []EndsAgree
<1>1. ConnectionInv /\ AgreementInv => EndsAgree
  BY AgreementInvMeaning
<1>q. QED
  BY <1>1, AgreementHolds, PTL

-----------------------------------------------------------------------------
(* What doStartNext() ends, it ends with an error,                         *)
LEMMA StartNextFails ==
  ASSUME NEW q \in Seq(Jobs), NEW cur, NEW jobs \in [Jobs -> JobRecord], NEW st, NEW pt, NEW t,
         StartNext(q, cur, jobs, st, pt, t),
         NEW j \in Jobs, job'[j].phase = "done", ~job'[j].error
  PROVE  jobs[j].phase = "done" /\ ~jobs[j].error
<1>1. PICK n \in 0..Len(q) :
        LET refused == {q[i] : i \in 1..n}
            jobs2 == [k \in Jobs |-> IF k \in refused THEN Ended(jobs[k], TRUE) ELSE jobs[k]]
        IN  \/ job' = jobs2
            \/ n < Len(q) /\ \E a : DoStart(q[n + 1], jobs2, pt, a)
  BY DEF StartNext
<1> DEFINE refused == {q[i] : i \in 1..n}
           jobs2 == [k \in Jobs |-> IF k \in refused THEN Ended(jobs[k], TRUE) ELSE jobs[k]]
<1>2. jobs2 \in [Jobs -> JobRecord]
  BY JobOperations
<1>3. jobs2[j].phase = "done" /\ ~jobs2[j].error
  <2>1. CASE job' = jobs2
    BY <2>1
  <2>2. ASSUME n < Len(q), NEW a, DoStart(q[n + 1], jobs2, pt, a)
        PROVE  jobs2[j].phase = "done" /\ ~jobs2[j].error
    <3> HIDE DEF jobs2
    <3>1. q[n + 1] \in Jobs
      BY <2>2, ElementOfSeq
    <3>2. PICK k \in Jobs : k = q[n + 1]
      BY <3>1
    <3>3. job' = [jobs2 EXCEPT ![k].phase = "started",
                         ![k].step = FirstStep(k),
                         ![k].tags = IF FirstCommand(k) = "none" THEN @ ELSE @ \cup {NextTag},
                         ![k].saved = IF Kind[k] = "idle" THEN a.interval ELSE @]
      BY <2>2, <3>2 DEF DoStart
    <3>4. job'[k].phase = "started"
      BY <1>2, <3>3 DEF JobRecord
    <3>5. j # k => job'[j] = jobs2[j]
      BY <1>2, <3>3
    <3>q. QED
      BY <3>4, <3>5
  <2>q. QED
    BY <1>1, <2>1, <2>2
<1>4. j \in refused => jobs2[j].error
  BY DEF Ended, JobRecord
<1>q. QED
  BY <1>3, <1>4

(* and so does the end of the connection with any job but a logout.        *)
LEMMA ClearingFails ==
  ASSUME RunTypeOK, NEW q, NEW t, ClearJobQueue(q, t), NEW j \in Jobs, Kind[j] # "logout",
         Pending(j), job'[j].phase = "done"
  PROVE  job'[j].error
<1>1. /\ job \in [Jobs -> JobRecord] /\ job[j].phase # "done"
  BY DEF RunTypeOK, Pending
<1>2. \/ job'[j] = Ended(job[j], TRUE)
      \/ job'[j] = [job[j] EXCEPT !.phase = "deleted"]
      \/ job'[j] = job[j]
  BY DEF ClearJobQueue
<1>3. [job[j] EXCEPT !.phase = "deleted"].phase = "deleted" /\ Ended(job[j], TRUE).error
  BY <1>1 DEF Ended, JobRecord
<1>q. QED
  BY <1>1, <1>2, <1>3

(* A job that the session ends without an error is the current one, and    *)
(* has not failed.                                                         *)
LEMMA FinishSucceeds ==
  ASSUME RunTypeOK, QueueSound, NEW k \in Jobs, k = currentJob, NEW failed \in BOOLEAN, NEW st, NEW pt,
         Finish(k, failed, st, pt), NEW j \in Jobs, Pending(j), job'[j].phase = "done", ~job'[j].error
  PROVE  j = k /\ ~failed
<1>1. PICK late \in FromSlot :
        StartNext(queue \o late, NoJob, JobsLeft(k, failed, late), st, pt, TimerLeft(k))
  BY DEF Finish, JobsLeft, TimerLeft
<1>2. /\ queue \o late \in Seq(Jobs) /\ JobsLeft(k, failed, late) \in [Jobs -> JobRecord]
      /\ job \in [Jobs -> JobRecord]
  BY FinishLeaves DEF RunTypeOK
<1>3. PICK jobs \in [Jobs -> JobRecord] : jobs = JobsLeft(k, failed, late)
  BY <1>2
<1>4. jobs[j].phase = "done" /\ ~jobs[j].error
  BY <1>1, <1>2, <1>3, StartNextFails
<1>5. \/ jobs[j] = [[job EXCEPT ![k] = Ended(@, failed)][j] EXCEPT !.phase = "queued"]
      \/ jobs[j] = [job EXCEPT ![k] = Ended(@, failed)][j]
  BY <1>3 DEF JobsLeft, Enqueued
<1>6. [job EXCEPT ![k] = Ended(@, failed)][j] = IF j = k THEN Ended(job[j], failed) ELSE job[j]
  BY <1>2
<1>7. Ended(job[j], failed).error = failed
  <2>1. job[j] \in JobRecord
    BY <1>2
  <2>q. QED
    BY <2>1 DEF Ended, JobRecord
<1>8. [[job EXCEPT ![k] = Ended(@, failed)][j] EXCEPT !.phase = "queued"].phase = "queued"
  <2>1. PICK rec \in JobRecord : rec = [job EXCEPT ![k] = Ended(@, failed)][j]
    <3>1. job[j] \in JobRecord /\ Ended(job[j], failed) \in JobRecord
      BY <1>2, JobOperations
    <3>q. QED
      BY <1>6, <3>1
  <2>2. [rec EXCEPT !.phase = "queued"].phase = "queued"
    BY DEF JobRecord
  <2>q. QED
    BY <2>1, <2>2
<1>9. job[j].phase # "done"
  BY DEF Pending
<1>10. jobs[j] = [job EXCEPT ![k] = Ended(@, failed)][j]
  BY <1>4, <1>5, <1>8
<1>q. QED
  BY <1>4, <1>6, <1>7, <1>9, <1>10

(* What else an event of the session does to a job that has not ended, it  *)
(* does not end it without an error: only the reply to its own command     *)
(* does.                                                                   *)
LEMMA SuccessIsAnswered ==
  ASSUME ConnectionInv, [Next]_vars, NEW j \in Jobs, Kind[j] # "logout", Pending(j),
         job'[j].phase = "done", ~job'[j].error, NEW r, r = Head(events).response
  PROVE  /\ MainThread /\ ResponseReceived /\ state # "Disconnected" /\ currentJob # NoJob
         /\ HandleResponse(currentJob, r, state', ClearTags(pendingTag, r.tag))
         /\ state' = NextState(r) /\ currentMailBox' = NextMailBox(r)
<1>1. /\ RunTypeOK /\ QueueSound /\ SessionInv
      /\ job \in [Jobs -> JobRecord] /\ queue \in Seq(Jobs) /\ job[j].phase # "done"
  BY DEF ConnectionInv, SessionInv, RunTypeOK, Pending
<1>2. ~UNCHANGED job
  BY <1>1
<1>3. ~UNCHANGED runVars
  BY <1>2 DEF runVars
<1>4. ~UNCHANGED sessionVars
  BY <1>2 DEF sessionVars
<1>5. \A q, t : ~ClearJobQueue(q, t)
  BY <1>1, ClearingFails
<1>6. \A cur, st, pt, t : ~StartNext(queue, cur, job, st, pt, t)
  BY <1>1, StartNextFails
<1>7. \A k \in Jobs : job'[j].phase # [job EXCEPT ![k].phase = "deleted", ![k].tags = {}][j].phase
  BY <1>1 DEF JobRecord
<1>8. ~Application
  <2>1. ASSUME NEW k \in Jobs, AddJob(k)
        PROVE  FALSE
    <3>1. PICK jobs \in [Jobs -> JobRecord] : jobs = Enqueued(job, <<k>>) /\ jobs[j].phase # "done"
      <4>1. /\ Enqueued(job, <<k>>) \in [Jobs -> JobRecord]
            /\ \A i \in Jobs \ {k} : Enqueued(job, <<k>>)[i] = job[i]
            /\ Enqueued(job, <<k>>)[k].phase = "queued"
        BY <1>1, <2>1, AddJobLeaves DEF AddJob
      <4>q. QED
        BY <1>1, <4>1
    <3>2. Append(queue, k) \in Seq(Jobs)
      BY <1>1, <2>1, AddJobLeaves DEF AddJob
    <3>3. job' # jobs
      BY <3>1
    <3>4. ~StartNext(Append(queue, k), currentJob, jobs, state, pendingTag, timer)
      BY <3>1, <3>2, StartNextFails
    <3>q. QED
      BY <2>1, <3>1, <3>3, <3>4 DEF AddJob
  <2>2. ASSUME NEW k \in Deletable, DeleteJob(k)
        PROVE  FALSE
    <3>1. k \in Jobs /\ job' = [job EXCEPT ![k].phase = "deleted", ![k].tags = {}]
      BY <2>2, ConnectionAssumption DEF DeleteJob
    <3>q. QED
      BY <1>7, <3>1
  <2>3. ASSUME NEW k \in Jobs, StopIdle(k)
        PROVE  FALSE
    <3>1. job' = [job EXCEPT ![k].stopped = TRUE]
      BY <2>3 DEF StopIdle
    <3>2. job'[j].phase = job[j].phase
      BY <1>1, <3>1 DEF JobRecord
    <3>q. QED
      BY <1>1, <3>2
  <2>4. ~Close /\ ~SetUseNetworkProxy /\ \A ms \in AppTimeouts : ~SetTimeout(ms)
    BY <1>3, <1>4 DEF Close, SetUseNetworkProxy, SetTimeout
  <2>5. ~Destroy
    BY <1>5 DEF Destroy, ConnectionGone
  <2>q. QED
    BY <2>1, <2>2, <2>3, <2>4, <2>5 DEF Application
<1>9. ~Timeout
  BY <1>3 DEF Timeout, OnSocketTimeout
<1>10. ~SecondaryThread /\ ~Socket /\ ~Server /\ ~UNCHANGED vars
  BY <1>4 DEF SecondaryThread, Socket, Server, vars
<1>11. ASSUME MainThread, ~ResponseReceived
       PROVE  FALSE
  <2>1. ~SocketDisconnected /\ ~SocketError
    BY <1>2, <1>5 DEF SocketDisconnected, SocketError, ConnectionGone
  <2>2. ~SocketConnected /\ ~SocketActivity /\ ~HandleSslError
    BY <1>3, <1>4 DEF SocketConnected, SocketActivity, HandleSslError
  <2>3. ~OnEncryptionNegotiationResult
    <3>1. ASSUME NEW k \in Jobs, Continue(k, "CAPABILITY", "Capability", pendingTag)
          PROVE  FALSE
      <4>1. job' = [job EXCEPT ![k].step = "Capability", ![k].tags = @ \cup {NextTag}]
        BY <3>1 DEF Continue
      <4>2. job'[j].phase = job[j].phase
        BY <1>1, <4>1 DEF JobRecord
      <4>q. QED
        BY <1>1, <4>2
    <3>q. QED
      BY <1>3, <3>1 DEF OnEncryptionNegotiationResult
  <2>q. QED
    BY <1>11, <2>1, <2>2, <2>3 DEF MainThread, HandleSignal
<1>12. MainThread /\ ResponseReceived
  BY <1>8, <1>9, <1>10, <1>11 DEF Next
<1>13. ~Greeting(r)
  BY <1>3, <1>6 DEF Greeting
<1>q. QED
  BY <1>3, <1>12, <1>13 DEF ResponseReceived

(* A reply ends no job but the current one without an error, and does so   *)
(* only if it is the positive answer to the last command of the job, or    *)
(* none.                                                                   *)
LEMMA SuccessIsOwn ==
  ASSUME RunTypeOK, QueueSound, NEW k \in Jobs, k = currentJob,
         NEW r, NEW st, NEW pt, HandleResponse(k, r, st, pt),
         NEW j \in Jobs, Pending(j), job'[j].phase = "done", ~job'[j].error
  PROVE  /\ j = k
         /\ r.tag \in CommandTag /\ r.tag \in job[k].tags /\ r.code # "none" =>
              r.code = "OK" /\ (Kind[k] \in LoginKind => job[k].step = "Login")
<1>1. job \in [Jobs -> JobRecord] /\ job[j].phase # "done"
  BY DEF RunTypeOK, Pending
<1>2. ~UNCHANGED runVars
  BY <1>1 DEF runVars
<1>3. ~Ignored(pt)
  BY <1>2 DEF Ignored
<1>4. \A failed \in BOOLEAN : Finish(k, failed, st, pt) => j = k /\ ~failed
  BY FinishSucceeds
<1>5. \A verb, step : ~Continue(k, verb, step, pt)
  <2>1. ASSUME NEW verb, NEW step, Continue(k, verb, step, pt)
        PROVE  FALSE
    <3>1. job' = [job EXCEPT ![k].step = step, ![k].tags = @ \cup {NextTag}]
      BY <2>1 DEF Continue
    <3>2. job'[j].phase = job[j].phase
      BY <1>1, <3>1 DEF JobRecord
    <3>q. QED
      BY <1>1, <3>2
  <2>q. QED
    BY <2>1
<1>6. LoginStep(k, st, pt) => j = k /\ job[k].step = "Login"
  BY <1>2, <1>4, <1>5 DEF LoginStep
<1>7. CASE Kind[k] \in LoginKind
  <2>1. LoginResponse(k, r, st, pt)
    BY <1>7 DEF HandleResponse
  <2>2. j = k
    BY <1>3, <1>4, <1>6, <2>1 DEF LoginResponse
  <2>3. ASSUME r.tag \in CommandTag, r.tag \in job[k].tags, r.code # "none"
        PROVE  r.code = "OK" /\ job[k].step = "Login"
    <3>1. r.tag # Plus
      BY <2>3, LinkAssumption DEF CommandTag, Plus
    <3>2. ~Finish(k, TRUE, st, pt)
      BY <1>4
    <3>3. r.code = "OK"
      BY <1>3, <2>1, <2>3, <3>1, <3>2 DEF LoginResponse
    <3>4. LoginStep(k, st, pt)
      BY <1>3, <2>1, <2>3, <3>1, <3>2 DEF LoginResponse
    <3>q. QED
      BY <1>6, <3>3, <3>4
  <2>q. QED
    BY <2>2, <2>3
<1>8. CASE Kind[k] \notin LoginKind
  <2>1. PlainResponse(k, r, st, pt)
    BY <1>8 DEF HandleResponse
  <2>2. (r.code \notin {"OK", "none"}) \in BOOLEAN
    OBVIOUS
  <2>3. j = k /\ r.code \in {"OK", "none"}
    BY <1>3, <1>4, <2>1, <2>2 DEF PlainResponse
  <2>q. QED
    BY <1>8, <2>3
<1>q. QED
  BY <1>7, <1>8

(* Whoever hears the answer that ends a login or a select, is in the state *)
(* it was about: the answer to LOGIN or to SELECT is the one the tags have *)
(* been kept for, whether the connection still stands or not.              *)
LEMMA SuccessMoves ==
  ASSUME Orderly, Deletable = {}, "none" \notin Replies, ConnectionInv, AgreementInv, [Next]_vars,
         NEW j \in Jobs, Kind[j] \in LoginKind \cup {"select"},
         Pending(j), job'[j].phase = "done", ~job'[j].error
  PROVE  /\ Kind[j] \in LoginKind => state' \in {"Authenticated", "Selected"}
         /\ Kind[j] = "select" => state' = "Selected" /\ currentMailBox' = j
<1>1. PICK r : r = Head(events).response
  OBVIOUS
<1>2. PICK pt : pt = ClearTags(pendingTag, r.tag)
  OBVIOUS
<1>3. Kind[j] # "logout" /\ (Kind[j] = "select" => Kind[j] \notin LoginKind)
  BY DEF LoginKind
<1>4. /\ MainThread /\ ResponseReceived /\ state # "Disconnected" /\ currentJob # NoJob
      /\ HandleResponse(currentJob, r, state', pt)
      /\ state' = NextState(r) /\ currentMailBox' = NextMailBox(r)
  BY <1>1, <1>2, <1>3, SuccessIsAnswered
<1>5. /\ RunTypeOK /\ QueueSound /\ currentJob \in Jobs /\ job[j].phase # "done"
  BY <1>4 DEF ConnectionInv, SessionInv, RunTypeOK, Pending
<1>6. /\ j = currentJob
      /\ r.tag \in CommandTag /\ r.tag \in job[j].tags /\ r.code # "none" =>
           r.code = "OK" /\ (Kind[j] \in LoginKind => job[j].step = "Login")
  BY <1>4, <1>5, SuccessIsOwn
<1>7. Takes
  BY <1>4, MainThreadSettles DEF Orderly, Takes, threadVars
<1>8. Echo
  <2>1. Alive /\ events # <<>>
    BY <1>4 DEF MainThread, ResponseReceived, Receive
  <2>2. (Opening \/ Talking) \/ Echo
    BY <1>4, <2>1 DEF AgreementInv, ToConnect, Over, Deletes
  <2>q. QED
    BY <2>2, TalkEchoes
<1>9. r \notin Chatter
  <2>1. ASSUME r \in Chatter
        PROVE  FALSE
    <3>1. r \in StarLine \/ (r \in PlusLine /\ ~LoginRuns)
      BY <1>1, <1>4, <1>7, <2>1, HeadIsHeard
    <3>2. Listens
      BY <1>1, <1>4, <3>1, UntaggedIsHeard
    <3>q. QED
      BY <1>4, <1>5, <1>6, <3>2 DEF Listens, SameTask, Deletes
  <2>q. QED
    BY <2>1
<1>10. PICK a \in ReplyLine : ReplyComes(a) /\ Moves(a) /\ Answers(a)
  <2>1. NoReply(Chatter) => r \in Chatter
    BY <1>1, <1>4, <1>7, HeadIsHeard
  <2>q. QED
    BY <1>8, <1>9, <2>1 DEF Echo
<1>11. r = a
  BY <1>1, <1>4, <1>7, <1>9, <1>10, HeadIsHeard
<1>12. /\ r.tag \in CommandTag /\ r.code # "none" /\ r.tag \in job[j].tags
       /\ Moves(r) /\ Answers(r)
  BY <1>4, <1>6, <1>10, <1>11 DEF ReplyLine, Answers, Expects
<1>13. r.code = "OK" /\ (Kind[j] \in LoginKind => job[j].step = "Login")
  BY <1>6, <1>12
<1>14. CASE Kind[j] \in LoginKind
  <2>1. pendingTag["LOGIN"] = r.tag
    BY <1>4, <1>6, <1>12, <1>13, <1>14 DEF Answers, LoginRuns
  <2>2. state' = "Authenticated"
    BY <1>4, <1>12, <1>13, <2>1 DEF Moves
  <2>q. QED
    BY <1>3, <1>14, <2>2
<1>15. CASE Kind[j] = "select"
  <2>1. pendingTag["SELECT"] = r.tag /\ upcomingMailBox = j
    BY <1>4, <1>6, <1>12, <1>15 DEF Answers, SelectRuns
  <2>2. NextState(r) = "Selected"
    BY <1>12, <1>13, <2>1 DEF Moves
  <2>3. NextMailBox(r) = j
    BY <1>13, <2>1, <2>2 DEF NextMailBox
  <2>q. QED
    BY <1>3, <1>4, <1>15, <2>2, <2>3
<1>q. QED
  BY <1>14, <1>15

(* What a job reports is true: a LoginJob that ends without an error has   *)
(* authenticated the session, and a SelectJob without one has its own      *)
(* mailbox selected, although each learns of it by a line of its own and   *)
(* the session by the tags it has kept.  No job is deleted while it waits  *)
(* or runs, and the server's replies are well-formed: see the README for   *)
(* what happens otherwise.                                                 *)
THEOREM SuccessIsAlwaysReal ==
  ASSUME Orderly, Deletable = {}, "none" \notin Replies
  PROVE  Spec => SuccessIsReal
<1>1. ConnectionInv /\ AgreementInv /\ [Next]_vars =>
        [\A j \in Jobs :
           Pending(j) /\ job'[j].phase = "done" /\ ~job'[j].error =>
             /\ Kind[j] \in LoginKind => state' \in {"Authenticated", "Selected"}
             /\ Kind[j] = "select" => state' = "Selected" /\ currentMailBox' = j]_vars
  <2> SUFFICES ASSUME ConnectionInv, AgreementInv, [Next]_vars, NEW j \in Jobs,
                      Pending(j), job'[j].phase = "done", ~job'[j].error
               PROVE  /\ Kind[j] \in LoginKind => state' \in {"Authenticated", "Selected"}
                      /\ Kind[j] = "select" => state' = "Selected" /\ currentMailBox' = j
    OBVIOUS
  <2>1. CASE Kind[j] \in LoginKind \cup {"select"}
    BY <2>1, SuccessMoves
  <2>q. QED
    BY <2>1
<1>q. QED
  BY <1>1, AgreementHolds, PTL DEF Spec, SuccessIsReal
=============================================================================
