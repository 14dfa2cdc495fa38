# A TLA+ model of KIMAP

KIMAP is KDE's job-based IMAP client library.  This directory holds a model of
it: the `Session` with its queue of jobs and the thread that owns the socket,
every class of job, the parser, the sets of message numbers, the codecs, and the
scripted server its tests run against.  TLC checks the modules on small
instances; TLAPS proves theorems about the session with its thread, the jobs and
the sets for every instance.

## The system

An application creates a `Session` and starts jobs on it.  The session keeps
them in a queue and runs one at a time.  It does not touch the socket: a
`SessionThread` object lives in a thread of its own with the `QSslSocket` and
the `ImapStreamParser`.  Each side calls the other only through the event loop
of the other's thread.

| Component | State | Operations | Interacts with |
|---|---|---|---|
| `Session` / `SessionPrivate` | protocol state, `queue`, `currentJob`, `jobRunning`, three remembered tags, `tagCount`, mailboxes, `sslVersion`, timer | `addJob`, `close`, `setTimeout`, `setUseNetworkProxy`, the destructor; the handlers of seven signals; the timer | calls `SessionThread` by posting; calls jobs directly; is called back by their `result` and `destroyed` signals |
| `SessionThread` | socket, parser, `m_dataQueue`, `m_encryptedMode` | `threadInit`, `reconnect`, `readMessage`, `writeDataQueue`, `doCloseSocket`, `doStartSsl`, `doSslErrorHandlerResponse`, `setUseProxyInternal`, `threadQuit` | emits signals that are queued to the main thread; shares `m_dataQueue` under a mutex |
| `Job` | error, tags | `start`, `doStart`, `handleResponse`, `connectionLost` | sends commands through the session |
| `LoginJob` | `authState`, capabilities, modes | STARTTLS, CAPABILITY, LOGIN, AUTHENTICATE, ENABLE | also connected to `encryptionNegotiationResult` |
| `SelectJob`, `CloseJob`, `LogoutJob` | what SELECT reports, pending changes | | their tags move the session's state |
| `IdleJob` | counts, timer, `originalSocketTimeout` | `stop` | sets the session's timeout |
| `ListJob`, `FetchJob` | what waits for a timer of 100 ms | setters, signals | |
| `SearchJob`, `StoreJob`, `AppendJob`, `CopyJob`, `MoveJob`, `ExpungeJob` | what the answer says about messages | setters, accessors; a continuation for APPEND | `ImapSet` |
| metadata, ACL, quota, mailbox and server information jobs | what the answer says | setters, accessors; continuations for SETMETADATA | |
| `ImapStreamParser` | `m_data`, `m_position`, `m_literalSize` | a response at a time from a stream of bytes | reads, and waits for, the socket |
| `ImapSet` | intervals | `add`, `optimize`, to and from sequence sets | jobs |
| codecs | | quoting, modified UTF-7 | jobs and the session |
| `FakeServer`, `SslServer` | what is left of each scenario, a mutex | a thread of its own | every test |

What is hard here: signals of the socket overtake the data that was read before
them; a command queue outlives a connection; handlers run slots that start or
delete jobs; the timer is started and stopped in a dozen places; the protocol
state follows tags that may be stale; jobs pair and collect responses that a
server orders as it likes, with timers that fire in between; a response comes
in packets that end anywhere; setters may be called in any order until a job
starts.  `PROJECT.json` lists each such hazard with the line where it bites and
the properties about it.

What makes the components correct:

* the session: no job is lost or run twice, one runs at a time, a job that runs
  is watched by the timer, the state agrees with the server's, every job ends,
  and a login without an error is one;
* the thread: data and commands belong to one connection;
* a job: the command says what was asked for, and what it reports is what the
  server said: whole, once, by the right name, and before the result;
* the parser: the responses do not depend on how the bytes were split;
* `ImapSet`: the intervals stand for the numbers that were added;
* the test server: what it tells a test is so.

## Modules

| Module | Models |
|---|---|
| `SessionLink` | what the threads share: `posted` (the event loop of the secondary thread), `events` (signals queued to the main thread), `dataQueue`; tags, responses, commands |
| `Session` | `SessionPrivate` and the jobs as it sees them; every action is one turn of the main event loop |
| `SessionThread` | `SessionThread`, one action per posted call, and the socket |
| `ImapServer` | the server at the other end (external), with the protocol state of RFC 3501 |
| `JobQueue` | abstract: what a session promises about the jobs it is given |
| `Connection` | the composition, the application, fairness, the properties, the refinement of `JobQueue` |
| `SessionProofs`, `ConnectionProofs`, `QueueProofs`, `EncryptionProofs`, `OrderProofs`, `AgreementProofs` | theorems about `Connection` and their proofs |
| `Job` | what all jobs have in common while they are current: tags, error, loss, end |
| `LoginJob`, `ListJob`, `FetchJob`, `SelectJob`, `IdleJob` | a class each, with its timer where it has one |
| `BodyStructure` | how `FetchJob` reads a BODYSTRUCTURE, as a function of how deep it is nested |
| `DataJob` | jobs that send one command and are asked for what they have collected |
| `MessageJobs` | append, store, copy, move, expunge, close, search |
| `SearchTerm` | the tree of conditions of a search, its text, and its meaning |
| `AccountJobs` | rights and quotas |
| `ServerJobs` | capabilities, enable, id, namespace, status, and the mailbox jobs |
| `MetaDataJobs` | METADATA and ANNOTATEMORE, quoted values and literals |
| `Jobs`, `JobProofs` | a job of any class against a server; theorems |
| `JobCommands` | the setters of every class in any order, and the command that `doStart()` makes of them |
| `RfcCodecs` | modified UTF-7 and quoting, octet by octet |
| `ImapStreamParser` | the parser and the loop of `readMessage()`, symbol by symbol |
| `ImapSet`, `ImapSetProofs` | intervals with the loops of `add` and `optimize`; theorems |
| `FakeServer` | the scripted server of the tests, its slots and its mutex |
| `MCConnection`, `MCJobs`, `MCImapStreamParser`, `MCFakeServer` | values of the constants for TLC |

`SessionLink` is extended by `Session` and `SessionThread`, the latter by
`ImapServer`, and all of them by `Connection`.  The proofs about it build on
each other in the order of the table, `EncryptionProofs` beside `QueueProofs`.  `Job` is extended by the modules
of the classes, and those by `Jobs`.  The parser, `JobCommands`, `ImapSet` and
`FakeServer` stand alone.  The jobs thus appear twice: in `Session` by what
matters to the queue, the timer and the threads, and in the modules of their
classes by what they read and say.

### The session

`Session` keeps the names of the code: `state`, `isSocketConnected`,
`jobRunning`, `currentJob`, `queue`, `tagCount`, `currentMailBox`,
`upcomingMailBox`.  `pendingTag` is the triple `authTag`, `selectTag`,
`closeTag`; `timer` is `socketTimer.isActive()` with `socketTimerInterval`;
`job[j]` is the object `j`: how far its life has come, whether `error()` is set,
its tags, `LoginJob`'s `authState` and `IdleJob`'s `originalSocketTimeout`.

`invokeMethod` on an object of the same thread is a direct call, so `jobDone`,
`startNext`, `doStartNext` and the `doStart` of the next job happen inside the
handler that ended the previous one.  The operators `StartNext`, `DoStart`,
`Finish` and `HandleResponse` are that chain; they take the values the handler
has reached as arguments and describe the final state of the whole step.

In `SessionThread` a step takes the head of `posted`.  The socket emits
`errorOccurred`, `connected`, `bytesWritten` and `readyRead` directly, so their
signals enter `events` at once, while `readMessage` and
`slotSocketDisconnected` wait in `posted`.  This is why an error can overtake a
greeting and a disconnection can overtake a response.

`Destroy` is the destructor of the session, which tells every job of the loss
and then waits for the thread to come to `ThreadQuit`; after it (`Alive`) the
application does nothing any more.

Abstractions:

* A server line is its tag and its second token; `garbage` is a line
  `readMessage` cannot parse.  A packet may end between CR and LF
  (`SplitLines`); `ImapStreamParser` has the other ways to split one.
* A mailbox is identified with the job that selects it.
* Capabilities are a free choice of `LoginStep`; `LoginJob` has them.
* The socket closes at once.  A plain socket notices that the peer has closed
  only after the notifications for the data before; a TLS socket may notice both
  together.
* A slot of the application starts at most one job (of `Reentrant`) in one step.
* A job is deleted, or done, in one step; a finished job that waits for its
  deferred deletion does not react any more.

### The jobs

A job stands between `told`, the untagged responses the server has given, and
`reported`, what the application has heard in signals; `data` is what accessors
return.  A module has the server's sentences next to the job's handler: what
may be said is external and follows the RFC, what is read follows the code.
Items of a response are model strings ("FLAGS", "UID"), their values small
numbers and sets, and SASL is the number of challenges.  `Codes` are the
replies: OK, NO, or one without a second token.

A NAMESPACE names up to two personal namespaces and one of each other kind, a
LISTRIGHTS two sets beside the first, a STATUS two items.

`Liberties` are what servers may do but rarely do: `"split"` (the items of one
message in several FETCH responses), `"expunge"` (numbers shift meanwhile),
`"unsolicited"` (responses nobody asked for).  `Utf8Enabled` says whether the
session has enabled UTF-8.  `EmptyAmongLines` and `SeveralNames` admit two
kinds of calls of `SetMetaDataJob` that the code does not get right (below).

`JobCommands` abstracts from what the server answers.  The settings of a class
are a record, a setter replaces one field, and `start()` only queues the job:
settings count until `doStart()`.  Two classes have setters that translate what
they are given; `wanted`, which is not in the code, keeps it as it was given.
`CommandIsMeant` has six parts.  `StoreIsMeant`, `ListIsMeant` and
`QuotaIsMeant` compare what a server would do on the command with what the
setters asked for, `EntriesAreMeant` the entries that GETMETADATA and
GETANNOTATION name with those requested, `LoginIsMeant` who is logged in.  Of
every class `CommandsAreLegible` says that a server which follows the grammars
of the RFCs can read the commands: quotes are closed, lists that may not be
empty are not, QRESYNC has its numbers and VANISHED its UIDs.  `Complete` names
what the application has to set for that, and `LegibleByItself` the two commands
of which it is not true: DELETEACL, and SEARCH with a charset (below).  What the
other classes ask of the server is not compared with anything.

### The parser

The stream is a sequence of symbols, which the server writes in packets of any
length.  `at` names the function that runs or waits; each action is the part of
a function between two waits.  `waited` marks the places that wait but once.
`BufferLimit` stands for the 4096 octets of `trimBuffer()`.

### The test server

The slots of `FakeServer` are split where the other thread, a client or the
nested event loop of a pause can come between.  `slot` is the slot at work and
the scenario it has copied; the mutex is held exactly while there is one.
`wire` and `buffer` distinguish what Qt has not noticed yet from what it has
announced, because `readyRead()` is not emitted within its own slot.

## Runs

`CHECK_DEADLOCK FALSE` is set in each because the systems really stop: after
the loss of the connection nothing reconnects, a job that has ended does
nothing, a stream or a scenario is over.

| Run | Question | Instance |
|---|---|---|
| `JobQueue` | does the session keep the promise of `JobQueue`, with deletion, slots, close and destructor? is a lost connection told, does no timer run that could not be stopped? | an idle and two other jobs, tags modulo 2, one `close()`, one change of the timeout |
| `Login` | do both ends agree, is the password kept from a plain connection, is success real, does every job end? | a STARTTLS login and 2 selects, 4 greetings, OK or NO to each, a server that may be silent |
| `ImplicitTls` | is a running job watched when TLS lets an error overtake data? (that an IDLE is, `RunningJobsAreTimed` proves) | TLS login and another job, lone line feeds |
| `Proxy` | do the signals of two connections come in the order the session relies on, and do both ends agree on the state after a reconnect? | login and another job, one change of the proxy, one unparsable line |
| `Jobs` | do jobs that collect know what the server said, and do search and metadata commands mean what was asked? | all such classes, 2 responses, orderly servers |
| `PendingJobs` | are refusals told, secrets safe, pairs and batches reported once, whole, and before the result? does the session note the mailbox that was asked for? | the classes with timers and those a server may surprise, 3 responses, all liberties, every offer of capabilities, two mailboxes to select whose names modified UTF-7 encodes |
| `Commands` | does the command of a store, list, quota, metadata or login job mean what the setters said, in any order, and can those of all classes be read? | 2 names, 2 messages, modification sequences 0 to 2, up to 2 namespaces |
| `ImapSet` | do the intervals stand for the numbers, also in their textual form, are they compact, do the loops end? | numbers up to 5, 3 intervals, open at either side or at both |
| `Parser` | does what is emitted equal what was sent, for every split? | responses of every shape, every split but between CR and LF, a server that may fall silent |
| `FakeServer` | is what a test is told about its scenarios so? | 2 scenarios of 4, 2 clients that may also say something else |

Two runs each show a disagreement between what the repository says and what the
code does; `findings` in `PROJECT.json` quotes the lines:

| Run | What happens |
|---|---|
| `OrphanedJob` | `socketError` makes a job current without starting it, the greeting behind it starts another over it; the first never gets a result |
| `LiteralCut` | a packet that ends at the line end of a literal makes the line feed its first octet |

### Bounds

Two jobs give a current and a waiting one, three give the order of the waiting
ones; each job is started once, and more jobs would only repeat that.
`TagModulus` is 2^16 except in `JobQueue`, where two tags make the counter wrap
at once.  `MaxSettings` bounds how often the application calls `close`,
`setTimeout` and `setUseNetworkProxy`, and `MaxUnsolicited` how many lines the
server sends by itself; each is at most one, because the questions are about a
single call or line that comes at a bad moment.  The queues between the threads
are unbounded, and finite because the jobs are.

`MaxTold` counts untagged responses: two make a pair or a repetition, three let
a pair come after something that is pending.  `MaxCalls` counts the calls of a
setter that collects, `setRights()` and `addMetaData()`: two meet for the same
entry or for two.  Three intervals are needed for
one to swallow the next and then meet another; five numbers let them be apart,
touch and overlap.  The streams of the parser hold each kind of token at each
depth once; two symbols of `BufferLimit` make it trim in the middle of a
response.  The settings of a job have a default and one or two other values, so
every setter is seen to change and to overwrite.  Two scenarios and two clients
suffice for one to come while the other is served.

### Fairness

`Fairness` of `Connection` assumes weak fairness of both event loops, of the
timer, and of the end of a connection attempt: an event loop handles what is
posted to it, a single-shot timer that is not restarted fires, and a connection
attempt succeeds or fails.  Nothing is assumed of the server or the
application.  The timer's fairness is sound because each restart is caused by a
signal, and the signals of a run are finitely many.  `JobsEnd`, checked in
`Login`, rests on exactly these.  It does not hold after a change of the proxy
setting, where the disconnection of the old connection may be handled when the
new one is up.

`StreamFair` assumes that packets which were sent arrive and that the thread
goes on while it can; `AllIsReceived` says what follows for streams the server
finishes.  `FairSetSpec` assumes that a loop that has begun takes its turns.

## Proofs

The theorems hold for every value of the constants that satisfies the named
`ASSUME`s of the modules, which TLC evaluates in every run, and the hypotheses
given here.  The `ASSUME`s say no more than the code does: no job is `NoJob`, no
SASL mechanism is the empty word or `+`, counts are natural numbers, a mailbox
name is a pair.

### The session and its thread

All of these are about `Connection`'s `Spec`.

| Theorem | Property | Hypotheses |
|---|---|---|
| `SessionTypeCorrect`, `TypeCorrect` | the types of the session; `TypeOK`, of everything | |
| `QueueIsSound` | `QueueSound` | |
| `DisabledTimerStaysOff` | `DisabledTimerIsOff` | |
| `LoginIsAlwaysEncrypted` | `LoginIsEncrypted` | the proxy is not changed |
| `NobodyIsForgotten`, `LossIsAlwaysTold`, `SessionImplementsQueue` | `NoJobForgotten`, `LossIsTold`, `QueueSpec` | `[]GreetingIsTimely` |
| `GreetingStaysTimely` | `GreetingIsTimely` | `GreetsInTime` |
| `NoJobIsForgotten`, `LossIsSurelyTold`, `SessionIsAQueue` | `NoJobForgotten`, `LossIsTold`, `QueueSpec` | `GreetsInTime` |
| `RunningJobsAreTimed` | `RunningJobIsTimed` | the proxy is not changed, no negative interval is set |
| `EndsAlwaysAgree` | `EndsAgree` | `Orderly` |
| `SuccessIsAlwaysReal` | `SuccessIsReal` | `Orderly`, no job is deleted, no reply is malformed |

`GreetingIsTimely` names the two orders that `Session` relies on without
checking: it is told of a connection only when it has handled the last one's
end, and it handles no greeting while a job is current that has not been
started.  It is not true of every instance: in `OrphanedJob` an error that
overtakes the greeting makes a job current first.  `GreetsInTime` are conditions on the instance that suffice for
it: the proxy of a running session is not changed, no job asks for TLS from the
first byte on, and a server that refuses the connection says nothing afterwards
that could be taken for a greeting.  The instances of `JobQueue` and `Login`
satisfy them.

`Orderly` names what the agreement of the two ends relies on: the proxy of a
running session is not changed, no job asks for TLS from the first byte, the
server sends whole lines (`~SplitLines`), and what it sends by itself is
untagged and well-formed.  The instance of `Login`, in which both properties
are checked, satisfies it, and the further hypotheses of `SuccessIsAlwaysReal`.

**Session** (`SessionProofs`).  The inductive invariant is `SessionInv`: the
types, `QueueSound`, and the timer's soundness, which is folded into its type
(`SoundTimer`).  `QueueSound` by itself is not inductive: that no two jobs have
commands on the wire needs that a job is started only from values in which none
is (`Startable`), which `doStartNext` gets from `~jobRunning`, and `jobDone`
from having just ended the only one.  The argument is in `StartNextKeeps`; the
lemmas after it show that every handler calls `StartNext` with such values, and
the lemmas before it what the operations on sequences do to a queue without
repetitions.  A loss of the connection and the destructor clear the same queue;
`ConnectionGoneKeeps` serves both.  The other modules do not write the session's
variables, so nothing has to be known about them.

**Types and channels** (`ConnectionProofs`).  `ConnectionInv` adds the types of
both channels, of the socket with its buffers, and of the server: nobody posts,
emits, parses or writes what the other side has no handler for.  For later use
the lemmas say what each side can do to the channels at all: `Hands` (the
session posts at most one call), `ThreadMoves` (the secondary thread takes one
call and emits what belongs to it), `Sends` (the server adds lines), and that
one of the calls that wait connects the socket (`OneConnects`).

**Encryption** (`EncryptionProofs`).  `EncryptionInv` is the disjunction of
three phases a session goes through once: `ToConnect`, `Unencrypted`,
`Afterwards`.  Up to the end of the second no signal under way would have the
session believe in encryption (`EarlySignal`), so no LOGIN has been queued or
written.  A reconnect starts the phases again with `m_dataQueue` as it is,
which is why the proxy has to stay.

**The queue** (`QueueProofs`).  `LineInv` is `NoJobForgotten` and `IdleIsEmpty`:
a greeted connection on which nothing runs has an empty queue, since only the
end of a job starts the next.  The refinement maps the line of `JobQueue` to the
current job followed by the queue.  `LineMoves` names what one step may do to
it: go on by some jobs that ended, from a line that a new job may just have
joined (a slot starts a job while another ends, and the next may fail at once);
lose one in the middle; or lose all.  Each handler makes one of these moves, and
each is a step of `JobQueue` or leaves its line as it is (`QueueNext`).

**The order of the signals** (`OrderProofs`).  `GreetingInv` follows a session
through its stages: `ToConnect`, `Unheard` (the greeting is with the server or
in the socket's buffer), `Heard` (it is among the signals, with nothing before
it that could start a job), `Greeted`, and beside them `Unwelcome` and
`Destroyed`.  That the stages are not disturbed by other actors rests on the
fact that queues only grow at their ends, for which the module has lemmas on
`Append`, `\o` and `Tail`.

**The timer** (`OrderProofs`, second half).  `TimedInv` has three parts.
`LinkInv` follows the connection (`ToConnect`, `Up`, `Down`): when the socket is
closed, the session has been or will be told (`ToldOfEnd`).  `Watch` follows the
session: it `Waits` for the connection, it is `Watched` (connected, and a
running job tended), the connection is `Falling`, or all is `Over`.
`JobsFollow` says what the timer does not show: that only a session with a
greeting runs jobs, and that a job that waits has not been stopped.
`RunningJobIsTimed` alone is not inductive, because a handler that finds the
session disconnected skips the timer, and because the interval an IDLE restores
is the one it has saved (`Tended`).  Here any kind of job is allowed, `ImplicitTls`
included.

**The agreement** (`AgreementProofs`).  The session knows the server's state
only by the tags of LOGIN, SELECT and CLOSE that it remembers, and a job knows
its own success by its own tags.  Neither says much while a command is under
way, so `AgreementInv` follows the one command that has not been answered.
While the session is `Talking`, it is in one of four stages: `Rest` (there is
none), `Asking` (it is in `m_dataQueue` or with the socket, the session
remembers its tag, and the current job expects it), `Holding` (the server keeps
an IDLE) and `Replying` (the answer is in the socket's buffer, the parser or
among the signals, and both what the server has become and what the session
will become are read off it: `Predicted`, `Moves`).  Before the
answer come only untagged lines and requests to go on, behind it only untagged
lines (`Comes`).  `Plain`, `Securing` and `Secured`
follow a STARTTLS beside these stages, because LoginJob asks for encryption
when the reply has already come, and whether it goes on depends on a signal and
no line.  Before the greeting the session is `Opening`; after the end of the
connection only an `Echo` of what had been sent is heard.  The stages
are about the command and not about its job: a job deleted while it is current
leaves the command under way and the session busy (`Expects`).

### The jobs

`JobProofs` is about `Jobs`' `Spec`, for every set of classes and settings,
every server and any number of responses.

| Theorem | Property | Hypotheses |
|---|---|---|
| `RefusedJobFails` | `RefusalIsTold` | |
| `SuccessIsALogin` | `LoginIsReal` | |
| `SecretsStaySafe` | `SecretsAreSafe` | |
| `NothingAfterTheResult` | `ResultIsLast` | |
| `ListingsAreReported` | `ListedIsReported` | names are ASCII, or UTF-8 is enabled |
| `SelectedIsAlwaysReported` | `SelectedIsReported` | |
| `CountsAlwaysReported` | `CountsAreReported` | |
| `NumbersAreAlwaysKnown` | `NumbersAreKnown` | no answer is split |
| `RightsAreAlwaysKnown` | `RightsAreKnown` | |
| `QuotasAreAlwaysKnown` | `QuotasAreKnown` | no answer is split, an int holds the amounts |
| `ServerIsAlwaysKnown` | `ServerIsKnown` | no answer is split, none is unsolicited |
| `MailBoxIsAsAskedAlways` | `MailBoxIsAsAsked` | |
| `MetaDataIsAlwaysSet` | `MetaDataIsSet` | `~EmptyAmongLines`, `~SeveralNames` |
| `MetaDataIsAlwaysKnown` | `MetaDataIsKnown` | |

The instances in which TLC checks these properties satisfy the hypotheses:
`Liberties` is empty in `Jobs`, and `PendingJobs` takes every liberty for those
that need none.

`JobInv` has three parts.  `LoginInv` ties `authState` to the command that is
without an answer, to what was accepted and to the last capabilities the server
has told (`ToldInv`), whose position among the responses the lemmas on
`CHOOSE` determine.  `RefusalInv` says that a refusal is an error at once, which
the classes that forgive one do not count as one.  `TimerInv` says that a
stopped timer stays stopped: with it no step after the result reports
(`Punctual`).

The other properties compare the whole history of a job with what it keeps, so
each has an invariant that says the same of every state on the way, and says it
by sets and positions, which one more response changes in one place.
`HistoryInv` says that `told` is a sequence and grows only at its end; the
lemmas after it (`HistoryGrows`, `LastIsNew`, `LastStays`) what that does to the
last response of a kind.  On them rest

* `NumbersInv`, `QuotaInv`, `RightsInv` and `ServerInv`: `data` is, key by key,
  the last that was told of the key, or where a job collects, such as the sets
  of LISTRIGHTS and the items of STATUS, all that was told (`JoinedRange`).  For `StoreJob` the flags are those of the
  last FETCH with the key (`StoreInv`), and where the server's answer comes in
  one response there was none before it, which is what `"split"` would break;
* `GetInv` and `SetInv`.  In ANNOTATEMORE an entry is kept by its attribute, and
  by what is left of its name, and two entries never meet under one key
  (`KeysAreApart`).  `ValueOf` is what an entry is taken for: its value, or NIL
  for none where ANNOTATEMORE names it.  `Collected` says that the map of `SetMetaDataJob` has the
  last call for each entry, `Sent` which entries have left as literals when the
  iterator is at one, so that a failure in the middle is seen for what it is;
* `ListInv`, the pairing of `ListJob`: what the server has told is, in order,
  what was reported, what waits for the timer, and one listing that waits for
  its STATUS (`Accounted`, `AwaitsStatus`).  Without its hypothesis it is false,
  because the names of the two responses are compared in different encodings
  (below);
* `SelectInv`: what waits and what was reported are together what was told
  (`ChangesInv`), without overlap, because a server tells a change once; and
  nothing waits once a reply has ended the job;
* `IdleInv`: the reports, with what waits as the last of them, are in the order
  of the responses (`InOrder`: there is an isomorphism between the two), and at
  most one count waits.  `SettledInOrder` is the step in which a count that
  waits is sent off because another of its kind has come, or because its
  partner has;
* `MailBoxInv`, which relates the existence of a mailbox to the reply under way.

### The sets

`ImapSetProofs` proves, for every `MaxId` and every list of intervals:

* `MeaningIsKept`: at every turn of the loops of `add()` and `optimize()` the
  intervals, with what is still to be added, stand for exactly the numbers the
  calls have asked for (`MeaningKept`);
* `OptimizedIsCompactAlways`: when `optimize()` returns, the intervals are in
  ascending order and no two of them touch or overlap (`OptimizedIsCompact`);
* `RoundTripIsExact`: written as an IMAP sequence set and read back, every
  interval that has a bound stands for the same numbers (`RoundTrip`).  One that
  is open and begins with the largest number comes back closed, so it is the
  numbers that are kept and not the intervals (`SequenceIsReadBack`).  The
  interval without bounds has no text (`UnboundedIsUnwritten`, and below).

Its invariant `SetInv` has three parts beside the meaning: `ImapSetTypeOK`;
`AddSound`, that the values to be added are sorted and the interval being built
ends with the value before them; and `OptimizeSound`, that the list is sorted
by its beginnings and that left of the iterator nothing can be joined any more.
The last is why one pass suffices.  Numbers are unbounded in the proofs, where
the code has 63 bits; `end() + 1` overflows for none that occurs.

### Only model-checked

* Liveness, which TLAPS 1.4.5 cannot prove: `JobsEnd`, `AllIsReceived`,
  `Terminates`.
* Properties whose proofs would be inductions over data: `FetchedIsReported` and
  `SearchIsAsked` (trees of parts and of conditions), `MailBoxIsNamed` and
  `SelectedIsAsked` (octets and bits of a name), `CommandIsMeant` (lists of
  settings), `DoneIsTrue` (it flattens a scenario into what its client sees), and
  `ReceivedIsSent` and `NeverWaitsInVain` of the parser.  The prover knows of
  `SelectSeq`, `SortSeq` and the folds no more than their names.
* What the hypotheses above exclude: sessions whose proxy changes (`Proxy`), and
  the queue under `ImplicitTls`.  `NoJobForgotten` and `LossIsTold` are false
  there.  `EndsAgree` is false of a server that sends lone line feeds, and
  `SuccessIsReal` of a session that loses a login (below).

## Known disagreements without a run

What the code does in these places was met while modelling.  The modules have
it where it is the whole of an operation; the instances leave out the values
that lead to it, or no property speaks of them, so that a passing run says what
holds elsewhere.

Against what the repository says:
* STATUS of a mailbox with a name outside ASCII is compared undecoded with the
  decoded name of LIST, and dropped (`listjob.cpp:248`, `:253`);
  `PendingJobs` has no such names in LIST, where the two are the same;
* with a quotation mark or a backslash in its name the session believes another
  mailbox selected, because what quoting has put before them stays
  (`session.cpp:316`, against the assertion at `selectjob.cpp:312`);
* PLAIN on a challenge swaps the user to become and the user who authorizes it
  (`loginjob.cpp:336`, against `loginjob.h:105`);
* DELETEACL never closes the quotes of the identifier (`deleteacljob.cpp:45`);
* an entry requested before `setServerCapability()` keeps its prefix
  (`getmetadatajob.cpp:164`, against `getmetadatajob.h:87`);
* `ImapInterval()`, "an interval that covers all positive numbers"
  (`imapset.h:46`), has the size 0 and is written as nothing (`imapset.cpp:51`,
  `:99`), so a set loses it, and what `optimize()` has let it swallow, in its
  textual form; `RoundTrip` leaves it out.  One without a begin but with an end
  is written `0:20` (`imapsettest.cpp:114`), which no server takes for a
  sequence set;
* the test server, while it pauses for one client in `QTest::qWait`, locks its
  own mutex again when another speaks (`fakeserver.cpp:203`).

The session and its thread:
* a lone line feed equals a cleared `selectTag` and takes the session out of the
  selected state (`session.cpp:251`);
* a response read before the disconnection and handled after it is taken for a
  greeting (`session.cpp:214`);
* activity of the socket starts the timer of a session without jobs, which then
  closes an idle connection (`session.cpp:386`);
* when a job is deleted while its command is under way, an error of the socket
  makes the next login current without starting it (`session.cpp:398`), and the
  reply to that command, or any other line, counts as its success
  (`loginjob.cpp:263`);
* `utf8Enabled` survives a reconnect (`session.cpp:275`);
* after a change of the proxy, a LOGIN that was queued for the old, encrypted
  connection is written to the new, plain one (`sessionthread.cpp:198`).

Jobs:
* a malformed reply ends a job without an error code (`job.cpp:65`), and a
  malformed reply or a request to go on, a login (`loginjob.cpp:435`);
* an `IdleJob` that never started sets the timeout to -1 (`idlejob.cpp:42`);
* a reply to a command of the previous connection counts as OK for a login
  (`loginjob.cpp:263`); `plainLoginDisabled` is never reset (`:316`); NTLM
  falls back to plain LOGIN (`:592`);
* what `FetchJob` keeps by number is overwritten by a second FETCH of a message
  and wrong after an EXPUNGE (`fetchjob.cpp:381`); the disposition of a text or
  message part is not read (`:436`);
* `StoreJob` takes a FETCH without FLAGS for one that clears them
  (`storejob.cpp:262`), ignores MODIFIED in a NO, and sends nothing for
  `SetFlags` with an empty list (`:196`);
* a second VANISHED overwrites the first in `ExpungeJob`;
* numbers of search results and quotas beyond 32 bits become 0 or are lost
  (`toInt`);
* `EnableJob` takes any untagged response for ENABLED (`enablejob.cpp:55`); an
  ID without fields is sent without its opening parenthesis;
* `SetMetaDataJob` sends an empty value among literals as the text NIL
  (`EmptyAmongLines`), names several ANNOTATEMORE attributes wrongly
  (`SeveralNames`), and never reports a class of error;
* `GetMetaDataJob` keeps the NIL of an ANNOTATEMORE server as the text NIL
  (`getmetadatajob.cpp:138`), where its other branch takes it for no value
  (`:151`); `MetaDataIsKnown` names the exception (`TakenForText`);
* `SearchJob` leaves out the space after the charset (`searchjob.cpp:288`);
* namespaces of `ListJob` are sent without encoding.

Parser and codecs:
* a quoted NIL or a literal NIL is read as an empty list; a literal within
  nested lists is not read; a lone ")" closes the socket, a missing one swallows
  lines until the timeout;
* a run of backslashes collapses into one (`imapstreamparser.cpp:390`);
* characters from U+100000 on lose a bit (`rfccodecs.cpp:259`).

## Not modelled

* `SessionLogger`, `Response::toString()`, greeting text and user name: output
  that nothing reads.
* The nested event loop of a certificate dialog (`session.cpp:116`):
  `HandleSslError` answers at once.  Two logins at once, one of them waiting for
  its deletion (`loginjob.cpp:203`).
* `utf8Enabled` as a variable of the session; it is a constant of `Jobs`.
* What the parser offers and `readMessage()` does not call: numbers and sequence
  sets.  Its server mode reads whole commands in `FakeServer`.
* The contents of `SearchJob` on continuation, deprecated; what KMime makes of a
  body, and what the SASL library says.
* The tests themselves and the programs in `tests/`.  What `PROJECT.json` maps
  is nearly all logic of `src/src/*.cpp`; the rest of the lines are
  declarations, accessors and tests.

## What is left

1. A proof that `DoneIsTrue` follows from the mutex for any number of clients,
   once it counts the rules that are played instead of flattening scenarios.
2. `ignoreSslError()` in two steps, with the signals handled in between.
3. A second login, and a finished job that still receives signals.
