----------------------------- MODULE FakeServer -----------------------------
(***************************************************************************)
(* FakeServer (src/autotests/kimaptest/fakeserver.cpp) with SslServer: the *)
(* scripted server that the tests of every job run against.  Its thread    *)
(* plays one scenario to each client; m_mutex keeps the test's thread out  *)
(* of the scenarios while a slot is at work on them.                       *)
(*                                                                         *)
(* Rules of a scenario: "S" a line of the server, "W" a pause, "X" the end *)
(* of the connection; of the client "C" a command, "STARTTLS", "LITERAL"   *)
(* (a command whose literal has to be asked for) and "SKIP" (any command). *)
(***************************************************************************)
EXTENDS Integers, Sequences, SequencesExt, FiniteSets

CONSTANTS Scripts,        (* the scenarios a test may choose from           *)
          MaxScenarios, MaxClients,
          Encrypted, WaitForStartTls,   (* setEncrypted(), setWaitForStartTls() *)
          Contents        (* what clients say: "told", or "other" than that *)

VARIABLES m_scenarios,    (* what is left of each scenario                  *)
          scripts,        (* external: the scenarios as the test gave them  *)
          started,
          connecting,     (* connections not accepted yet                   *)
          m_clientSockets,        (* the number of them                     *)
          said, written,  (* commands of each client, lines written to it   *)
          wire, buffer,   (* commands not yet noticed by Qt, not yet parsed *)
          closed, ssl,    (* of each socket                                 *)
          m_starttls,
          slot,           (* the slot at work, which holds m_mutex          *)
          dead,           (* a slot waits for the mutex its own thread has  *)
          failed,         (* a QVERIFY or QCOMPARE failed                   *)
          asked, answer   (* isScenarioDone() on the test's thread          *)

testVars == <<scripts, started, asked, answer>>
clientVars == <<connecting, said>>
socketVars == <<m_clientSockets, wire, buffer, closed, ssl, written>>
fakeVars == <<m_scenarios, m_starttls, slot, dead, failed, testVars, clientVars, socketVars>>

Clients == 1..MaxClients
ClientRules == {"C", "STARTTLS", "LITERAL", "SKIP"}
Nothing == [at |-> "idle"]

FakeInit ==
  /\ m_scenarios = <<>> /\ scripts = <<>> /\ started = FALSE
  /\ connecting = 0 /\ m_clientSockets = 0
  /\ said = [c \in Clients |-> 0] /\ written = [c \in Clients |-> 0]
  /\ wire = [c \in Clients |-> <<>>] /\ buffer = [c \in Clients |-> <<>>]
  /\ closed = [c \in Clients |-> FALSE] /\ ssl = [c \in Clients |-> FALSE]
  /\ m_starttls = FALSE /\ slot = Nothing /\ dead = FALSE /\ failed = FALSE
  /\ asked = <<>> /\ answer = <<>>

-----------------------------------------------------------------------------
(* The test's thread.  Nobody else takes m_mutex between two slots.        *)
Unlocked == slot = Nothing /\ ~dead

(* setScenario() and addScenario(): a test sets its scenarios before the   *)
(* server starts and may add others while it runs.                         *)
SetScenario ==
  /\ ~started
  /\ \E s \in Scripts : m_scenarios' = <<s>> /\ scripts' = <<s>>
  /\ UNCHANGED <<started, asked, answer, m_starttls, slot, dead, failed, clientVars, socketVars>>

AddScenario ==
  /\ Unlocked /\ asked = <<>> /\ Len(scripts) < MaxScenarios
  /\ \E s \in Scripts : m_scenarios' = Append(m_scenarios, s) /\ scripts' = Append(scripts, s)
  /\ answer' = <<>>
  /\ UNCHANGED <<started, asked, m_starttls, slot, dead, failed, clientVars, socketVars>>

(* startAndWait(): returns when the server listens.                        *)
StartAndWait ==
  /\ ~started /\ scripts # <<>>
  /\ started' = TRUE
  /\ UNCHANGED <<m_scenarios, scripts, asked, answer, m_starttls, slot, dead, failed, clientVars, socketVars>>

(* What a client sees of a rule, and what it has to hear before it says    *)
(* its next line.                                                          *)
Seen(rule) == CASE rule = "LITERAL" -> <<"C", "S", "C">>
                [] rule \in ClientRules -> <<"C">>
                [] rule = "S" -> <<"S">>
                [] OTHER -> <<>>
Dialogue(c) == FlattenSeq([k \in DOMAIN scripts[c] |-> Seen(scripts[c][k])])
LinesOf(side, dialogue) == Cardinality({k \in DOMAIN dialogue : dialogue[k] = side})

(* The last line is the server's, and the client has it.                   *)
HeardAll(c) ==
  c \in DOMAIN scripts /\ LET d == Dialogue(c)
                          IN d # <<>> /\ Last(d) = "S" /\ written[c] = LinesOf("S", d)

(* isScenarioDone() of one scenario, isAllScenarioDone() of all: the call, *)
(* which may wait for the mutex, and its return.                           *)
CallIsDone ==
  /\ started /\ asked = <<>>
  /\ \E which \in {{c} : c \in Clients} \cup {DOMAIN scripts} :
       asked' = <<[which |-> which, over |-> \A c \in which : HeardAll(c)]>>
  /\ answer' = <<>>
  /\ UNCHANGED <<scripts, started, m_scenarios, m_starttls, slot, dead, failed, clientVars, socketVars>>

(* Mutant: the scenarios are read without the mutex.                       *)
ReturnsAnyTime == TRUE

(* Both lock m_mutex before they look at m_scenarios.                       *)
MayReturn == Unlocked
IsDone(which) == \A c \in which : c \in DOMAIN m_scenarios => m_scenarios[c] = <<>>

IsScenarioDone ==
  /\ asked # <<>> /\ MayReturn
  /\ answer' = <<[which |-> asked[1].which, over |-> asked[1].over, done |-> IsDone(asked[1].which)]>>
  /\ asked' = <<>>
  /\ UNCHANGED <<scripts, started, m_scenarios, m_starttls, slot, dead, failed, clientVars, socketVars>>

-----------------------------------------------------------------------------
(* External: clients connect one after the other, hear what is written at  *)
(* once and say their next line when they have heard what comes before it. *)
Connect ==
  /\ started /\ connecting + m_clientSockets < MaxClients
  /\ connecting' = connecting + 1
  /\ UNCHANGED <<said, m_scenarios, m_starttls, slot, dead, failed, testVars, socketVars>>

MaySpeak(c) ==
  /\ c <= connecting + m_clientSockets /\ c \in DOMAIN scripts /\ ~closed[c]
  /\ LET d == Dialogue(c)
     IN \E k \in DOMAIN d : /\ d[k] = "C"
                            /\ LinesOf("C", SubSeq(d, 1, k - 1)) = said[c]
                            /\ LinesOf("S", SubSeq(d, 1, k - 1)) <= written[c]

(* Another command than the scenario's may come after its end as well.     *)
SaidAll(c) == c \in DOMAIN scripts /\ said[c] = LinesOf("C", Dialogue(c))

Speak(c) ==
  /\ \E content \in Contents :
       /\ content = "other" => ~failed
       /\ MaySpeak(c) \/ (content = "other" /\ SaidAll(c) /\ HeardAll(c) /\ ~closed[c])
       /\ wire' = [wire EXCEPT ![c] = Append(@, content)]
  /\ said' = [said EXCEPT ![c] = @ + 1]
  /\ UNCHANGED <<connecting, m_clientSockets, buffer, closed, ssl, written, m_scenarios, m_starttls,
                 slot, dead, failed, testVars>>

-----------------------------------------------------------------------------
(* The server's thread runs its event loop between two slots, and within   *)
(* QTest::qWait() of a "W".                                                *)
Looping == started /\ ~dead /\ slot.at \in {"idle", "waiting"}

(* A slot that is called within the pause of another waits for m_mutex,    *)
(* which this very thread holds.                                           *)
LocksItself == slot.at = "waiting" /\ dead' = TRUE /\ UNCHANGED slot

(* SslServer::incomingConnection()                                         *)
EncryptedFromStart == Encrypted /\ ~WaitForStartTls

(* newConnection()                                                         *)
NewConnection ==
  /\ Looping /\ connecting > 0
  /\ \/ /\ slot = Nothing
        /\ LET c == m_clientSockets + 1
               known == c <= Len(m_scenarios)
           IN /\ m_clientSockets' = c
              /\ ssl' = [ssl EXCEPT ![c] = EncryptedFromStart]
              /\ slot' = IF known THEN [at |-> "write", new |-> TRUE, c |-> c, scenario |-> m_scenarios[c]]
                         ELSE slot
              /\ failed' = (failed \/ ~known)
        /\ connecting' = connecting - 1
        /\ UNCHANGED dead
     \/ LocksItself /\ UNCHANGED <<m_clientSockets, ssl, failed, connecting>>
  /\ UNCHANGED <<said, m_scenarios, m_starttls, testVars, wire, buffer, closed, written>>

(* QAbstractSocket: new data is read; readyRead() is not emitted again     *)
(* within a slot of its own.                                               *)
Notice(c) ==
  /\ c <= m_clientSockets /\ wire[c] # <<>>
  /\ wire' = [wire EXCEPT ![c] = <<>>]
  /\ buffer' = [buffer EXCEPT ![c] = @ \o wire[c]]

(* dataAvailable(): a command that no scenario has is read and refused.    *)
DataAvailable(c) ==
  /\ Looping /\ c \in DOMAIN m_scenarios
  /\ \/ /\ slot = Nothing /\ m_scenarios[c] # <<>> /\ Notice(c)
        /\ slot' = [at |-> "read", new |-> FALSE, c |-> c, scenario |-> m_scenarios[c]]
        /\ UNCHANGED <<dead, failed>>
     \/ /\ slot = Nothing /\ m_scenarios[c] = <<>>
        /\ c <= m_clientSockets /\ wire[c] # <<>>
        /\ wire' = [wire EXCEPT ![c] = <<>>]
        /\ buffer' = [buffer EXCEPT ![c] = Tail(@ \o wire[c])]
        /\ failed' = TRUE
        /\ UNCHANGED <<slot, dead>>
     \/ /\ slot.at = "waiting" /\ slot.c = c /\ ~slot.new /\ Notice(c)
        /\ UNCHANGED <<slot, dead, failed>>
     \/ /\ LocksItself /\ (slot.new \/ slot.c # c) /\ Notice(c)
        /\ UNCHANGED failed
  /\ UNCHANGED <<m_scenarios, m_starttls, testVars, clientVars, m_clientSockets, closed, ssl, written>>

(* readUntilCommandEnd(): blocks until the socket has a command.           *)
Take(c) ==
  LET ready == buffer[c] \o wire[c]
  IN /\ ready # <<>>
     /\ buffer' = [buffer EXCEPT ![c] = Tail(ready)]
     /\ wire' = [wire EXCEPT ![c] = <<>>]

Received(c) == Head(buffer[c] \o wire[c])
Rule == Head(slot.scenario)
Ahead(rules) == slot.scenario # <<>> /\ Rule \in rules
GoOn(at) == slot' = [slot EXCEPT !.at = at, !.scenario = Tail(@)]

(* compareReceived(), which does not stop the scenario.                    *)
Compare(c) == failed' = (failed \/ (Rule # "SKIP" /\ Received(c) # "told"))

(* The loop of readClientPart(): a command, or the part of it that comes   *)
(* before a literal; the parser in server mode asks for the rest.          *)
AsksForMore(c) == slot.at = "read" /\ Rule = "LITERAL" /\ Received(c) = "told"
SendContinuationResponse(c) == written' = [written EXCEPT ![c] = @ + 1]

ReadCommand ==
  /\ slot.at \in {"read", "literal"} /\ Ahead(ClientRules)
  /\ LET c == slot.c
     IN /\ Take(c)
        /\ IF AsksForMore(c)
           THEN /\ slot' = [slot EXCEPT !.at = "literal"]
                /\ SendContinuationResponse(c)
                /\ UNCHANGED <<m_starttls, failed>>
           ELSE /\ GoOn("read") /\ Compare(c)
                /\ m_starttls' = (m_starttls \/ (Rule = "STARTTLS" /\ Received(c) = "told"))
                /\ UNCHANGED written
  /\ UNCHANGED <<m_scenarios, dead, testVars, clientVars, m_clientSockets, closed, ssl>>

(* The end of readClientPart(): what is left is stored, unless a pause     *)
(* comes next, which counts as a mistake; writeServerPart() begins with    *)
(* what is stored.                                                         *)
ReadEnd ==
  /\ slot.at = "read" /\ ~Ahead(ClientRules)
  /\ LET sound == slot.scenario = <<>> \/ Ahead({"S", "X"})
     IN /\ failed' = (failed \/ ~sound)
        /\ m_scenarios' = IF sound THEN [m_scenarios EXCEPT ![slot.c] = slot.scenario] ELSE m_scenarios
        /\ slot' = [slot EXCEPT !.at = "write", !.scenario = m_scenarios'[slot.c]]
  /\ UNCHANGED <<m_starttls, dead, testVars, clientVars, socketVars>>

(* The loop of writeServerPart().                                          *)
WriteLine ==
  /\ slot.at = "write" /\ Ahead({"S"})
  /\ written' = [written EXCEPT ![slot.c] = @ + 1]
  /\ GoOn("write")
  /\ UNCHANGED <<m_scenarios, m_starttls, dead, failed, testVars, clientVars, m_clientSockets, wire,
                 buffer, closed, ssl>>

BeginWait ==
  /\ slot.at = "write" /\ Ahead({"W"})
  /\ GoOn("waiting")
  /\ UNCHANGED <<m_scenarios, m_starttls, dead, failed, testVars, clientVars, socketVars>>

WaitOver ==
  /\ slot.at = "waiting" /\ ~dead
  /\ slot' = [slot EXCEPT !.at = "write"]
  /\ UNCHANGED <<m_scenarios, m_starttls, dead, failed, testVars, clientVars, socketVars>>

(* Its end and that of the slot: the connection is closed, what is left is *)
(* stored unless the server is to go on, and encryption begins when the    *)
(* client has asked for it; what the socket holds by then waits for the    *)
(* next readyRead().                                                       *)
WriteEnd ==
  /\ slot.at = "write" /\ ~Ahead({"S", "W"})
  /\ LET closes == Ahead({"X"})
         left == IF closes THEN Tail(slot.scenario) ELSE slot.scenario
         sound == left = <<>> \/ Head(left) \in ClientRules
         encrypts == ~slot.new /\ m_starttls
     IN /\ closed' = [closed EXCEPT ![slot.c] = @ \/ closes]
        /\ failed' = (failed \/ ~sound)
        /\ m_scenarios' = IF sound THEN [m_scenarios EXCEPT ![slot.c] = left] ELSE m_scenarios
        /\ m_starttls' = (m_starttls /\ ~encrypts)
        /\ ssl' = [ssl EXCEPT ![slot.c] = @ \/ encrypts]
  /\ slot' = Nothing
  /\ UNCHANGED <<dead, testVars, clientVars, m_clientSockets, wire, buffer, written>>

ServerStep == NewConnection \/ ReadCommand \/ ReadEnd \/ WriteLine \/ BeginWait \/ WaitOver \/ WriteEnd
TestStep == SetScenario \/ AddScenario \/ StartAndWait \/ CallIsDone \/ IsScenarioDone

FakeNext ==
  \/ TestStep \/ ServerStep \/ Connect
  \/ \E c \in Clients : Speak(c) \/ DataAvailable(c)

FakeSpec == FakeInit /\ [][FakeNext]_fakeVars

-----------------------------------------------------------------------------
(* What isScenarioDone() tells a test is so: it says yes only when every   *)
(* line of the scenario has been exchanged, and never no to a test whose   *)
(* client had the last line of the scenario when it asked.                 *)
Exchanged(c) == c \notin DOMAIN scripts \/ LET d == Dialogue(c)
                                           IN LinesOf("S", d) = written[c] /\ LinesOf("C", d) <= said[c]

DoneIsTrue ==
  answer # <<>> /\ ~failed =>
    IF answer[1].done THEN \A c \in answer[1].which : Exchanged(c) ELSE ~answer[1].over
=============================================================================
