-------------------------- MODULE ImapStreamParser --------------------------
(***************************************************************************)
(* ImapStreamParser (src/src/imapstreamparser.cpp) and its loop in         *)
(* SessionThread::readMessage(): responses out of a stream that arrives in *)
(* pieces, each function waiting for more where it finds too little.       *)
(*                                                                         *)
(* The stream is a sequence of symbols: the characters that mean something *)
(* to the parser, "a" for any other, "NIL" for that word, and one symbol   *)
(* for the announcement of a literal, whose end the parser always waits    *)
(* for.                                                                    *)
(***************************************************************************)
EXTENDS Integers, Sequences, SequencesExt, FiniteSetsExt, Functions

CONSTANTS Streams,        (* what a server may send: [value, symbols], the  *)
                          (* responses and how they are written             *)
          BufferLimit,    (* symbols parsed before the buffer is trimmed    *)
          CutLineEnds,    (* whether a piece may end between CR and LF      *)
          MayTimeOut      (* whether the server may fall silent for 30 s    *)

VARIABLES expected,       (* external: what the server says, and            *)
          rest,           (* its part the parser has not got yet            *)
          m_data, m_position,    (* m_position counts from 1                *)
          m_literalSize,
          at,             (* which function waits or goes on                *)
          waited,         (* it has waited once                             *)
          string, list,   (* under construction                             *)
          message, intoCode,     (* message and payload of readMessage()    *)
          received,       (* the messages emitted                           *)
          gaveUp          (* an ImapParserException was raised              *)

messageVars == <<message, intoCode>>
serverVars == <<expected, rest>>
parserVars == <<m_data, m_position, m_literalSize, at, waited, string, list, message, intoCode, received, gaveUp>>
streamVars == <<serverVars, parserVars>>

NoMessage == [content |-> <<>>, responseCode |-> <<>>]

(* readParenthesizedList(): result, count, sublistbegin and concatToLast.  *)
NoList == [open |-> FALSE, result |-> <<>>, count |-> 0, sublistbegin |-> 0, concatToLast |-> FALSE]

StreamInit ==
  /\ \E stream \in Streams : expected = stream.value /\ rest = stream.symbols
  /\ m_data = <<>> /\ m_position = 1 /\ m_literalSize = 0
  /\ at = "idle" /\ waited = FALSE
  /\ string = <<>> /\ list = NoList
  /\ message = NoMessage /\ intoCode = FALSE
  /\ received = <<>> /\ gaveUp = FALSE

-----------------------------------------------------------------------------
Available == Len(m_data) + 1 - m_position
Symbol(i) == m_data[i]

LineEnd == {"CR", "LF"}
SizeOf == [symbol \in {"{0}", "{1}", "{2}"} |-> CHOOSE n \in 0..2 : symbol = <<"{0}", "{1}", "{2}">>[n + 1]]

(* What ends a string without quotes.                                      *)
Delimiters == {" ", "(", ")", "[", "]", "\"", "CR", "LF"}

(* The first symbol from i on that is none, or one, of these; 0 if it has  *)
(* not come.                                                               *)
FirstIn(positions) == IF positions = {} THEN 0 ELSE Min(positions)
FirstAfter(i, skipped) == FirstIn({k \in i..Len(m_data) : m_data[k] \notin skipped})
FirstOf(i, sought) == FirstIn({k \in i..Len(m_data) : m_data[k] \in sought})

(* stripLeadingSpaces()                                                    *)
Here == FirstAfter(m_position, {" "})

(* The closing quote of the string that begins at i: a backslash hides     *)
(* what follows it.                                                        *)
Hidden(i) == {k \in i + 1..Len(m_data) :
                LET run == {j \in i + 1..k - 1 : \A l \in j..k - 1 : m_data[l] = "\\"} IN Cardinality(run) % 2 = 1}
ClosingQuote(i) == FirstIn({k \in i + 1..Len(m_data) : m_data[k] = "\""} \ Hidden(i))

(* Where a literal would begin: a tilde before it is skipped.              *)
LiteralAt == IF Symbol(m_position) = "~" THEN m_position + 1 ELSE m_position
IsLiteral == LiteralAt <= Len(m_data) /\ Symbol(LiteralAt) \in DOMAIN SizeOf

EndOfString == IF Symbol(m_position) = "\"" THEN ClosingQuote(m_position) ELSE FirstOf(m_position, Delimiters)

(* Mutant: only the backslashes before quotes go.                          *)
UnescapedOnce(s) ==
  LET kept == {k \in DOMAIN s : ~(s[k] = "\\" /\ k < Len(s) /\ s[k + 1] = "\"")}
  IN [k \in 1..Cardinality(kept) |-> s[SetToSortSeq(kept, <)[k]]]

(* The end of parseQuotedString(): first every backslash before a quote    *)
(* goes, then every one before another, until there are none.              *)
Unescaped(s) ==
  LET kept == {k \in DOMAIN s : ~(s[k] = "\\" /\ k < Len(s) /\ s[k + 1] \in {"\\", "\""})}
  IN [k \in 1..Cardinality(kept) |-> s[SetToSortSeq(kept, <)[k]]]

-----------------------------------------------------------------------------
(* What each function must have before it goes on: without it the call of  *)
(* waitForMoreData() blocks; those that wait but once go on with what came.*)
Enough ==
  CASE at = "command" -> Here # 0
    [] at = "string"  -> LiteralAt <= Len(m_data) /\ (IsLiteral \/ EndOfString # 0)
    [] at = "header"  -> waited \/ Available >= 2
    [] at = "literal" -> waited \/ Available >= Min({m_literalSize, BufferLimit})
    [] at = "list"    -> m_position <= Len(m_data)
    [] at = "quoted"  -> ClosingQuote(m_position) # 0
    [] OTHER -> TRUE

(* waitForMoreData(): the next piece of the stream.                        *)
CutsLineEnd(n) == rest[n] = "CR" /\ n < Len(rest) /\ rest[n + 1] = "LF"

WaitForMoreData ==
  /\ at # "idle" /\ ~Enough
  /\ \E n \in 1..Len(rest) :
       /\ CutsLineEnd(n) => CutLineEnds
       /\ m_data' = m_data \o SubSeq(rest, 1, n)
       /\ rest' = SubSeq(rest, n + 1, Len(rest))
  /\ waited' = TRUE
  /\ UNCHANGED <<expected, m_position, m_literalSize, at, string, list, messageVars, received, gaveUp>>

(* The exception after 30 s drops the message; the functions that look for *)
(* an end leave the position where they got to.                            *)
TimeOut ==
  /\ MayTimeOut /\ at # "idle" /\ ~Enough
  /\ m_position' = IF at \in {"string", "quoted"} THEN Len(m_data) + 1 ELSE m_position
  /\ at' = "idle" /\ gaveUp' = TRUE /\ waited' = FALSE
  /\ string' = <<>> /\ list' = NoList /\ message' = NoMessage /\ intoCode' = FALSE
  /\ UNCHANGED <<serverVars, m_data, m_literalSize, received>>

(* trimBuffer()                                                            *)
MoveTo(position) ==
  /\ m_position' = position
  /\ UNCHANGED m_data

MoveAndTrim(position) ==
  IF position - 1 < BufferLimit THEN MoveTo(position)
  ELSE m_position' = 1 /\ m_data' = SubSeq(m_data, position, Len(m_data))

-----------------------------------------------------------------------------
(* Mutant: only by data on the socket.                                     *)
ReadMessageOnSignal ==
  /\ at = "idle" /\ rest # <<>>
  /\ at' = "command"
  /\ waited' = FALSE /\ message' = NoMessage /\ intoCode' = FALSE
  /\ UNCHANGED <<serverVars, m_data, m_position, m_literalSize, string, list, received, gaveUp>>

(* readMessage(): begun by data on the socket, and again by itself while   *)
(* more than one byte is left.                                             *)
ReadMessage ==
  /\ at = "idle" /\ (rest # <<>> \/ Available > 1)
  /\ at' = "command"
  /\ waited' = FALSE /\ message' = NoMessage /\ intoCode' = FALSE
  /\ UNCHANGED <<serverVars, m_data, m_position, m_literalSize, string, list, received, gaveUp>>

(* atCommandEnd(): what of the end of the line has come is skipped.        *)
SkipOf(i, symbol) == IF i <= Len(m_data) /\ m_data[i] = symbol THEN i + 1 ELSE i

AtCommandEnd ==
  /\ at = "command" /\ Enough /\ Symbol(Here) \in LineEnd
  /\ MoveAndTrim(SkipOf(SkipOf(Here, "CR"), "LF"))
  /\ received' = Append(received, message)
  /\ at' = "idle" /\ waited' = FALSE
  /\ UNCHANGED <<serverVars, m_literalSize, string, list, messageVars, gaveUp>>

(* hasString(), hasList(), hasResponseCode() and atResponseCodeEnd(), in   *)
(* the order of readMessage().                                             *)
HasString ==
  /\ at = "command" /\ Enough /\ Symbol(Here) \notin (Delimiters \ {"\""})
  /\ MoveTo(Here)
  /\ at' = "string" /\ waited' = FALSE /\ string' = <<>>
  /\ UNCHANGED <<serverVars, m_literalSize, list, messageVars, received, gaveUp>>

HasList ==
  /\ at = "command" /\ Enough /\ Symbol(Here) = "("
  /\ MoveTo(Here + 1)
  /\ at' = "list" /\ waited' = FALSE /\ list' = [NoList EXCEPT !.open = TRUE]
  /\ UNCHANGED <<serverVars, m_literalSize, string, messageVars, received, gaveUp>>

HasResponseCode ==
  /\ at = "command" /\ Enough /\ Symbol(Here) \in {"[", "]"}
  /\ MoveTo(Here + 1)
  /\ intoCode' = (Symbol(Here) = "[") /\ waited' = FALSE
  /\ UNCHANGED <<serverVars, m_literalSize, at, string, list, message, received, gaveUp>>

(* Nothing of the kind: the socket is closed.                              *)
Inconsistent ==
  /\ at = "command" /\ Enough /\ Symbol(Here) = ")"
  /\ at' = "closed"
  /\ UNCHANGED <<serverVars, m_data, m_position, m_literalSize, waited, string, list, messageVars, received, gaveUp>>

-----------------------------------------------------------------------------
(* Where a string goes: NIL is an empty list; between brackets in a list   *)
(* it goes to the one before.                                              *)
Part(s) == IF s = <<"NIL">> THEN [kind |-> "list", of |-> <<>>] ELSE [kind |-> "string", of |-> s]

AddPart(part) ==
  message' = IF intoCode THEN [message EXCEPT !.responseCode = Append(@, part)]
             ELSE [message EXCEPT !.content = Append(@, part)]

AddToLast(result, s) == Append(Front(result), Last(result) \o s)

AddString(s) ==
  /\ at' = IF list.open THEN "list" ELSE "command"
  /\ IF list.open
     THEN /\ list' = [list EXCEPT !.result = IF list.concatToLast THEN AddToLast(@, s) ELSE Append(@, s)]
          /\ UNCHANGED message
     ELSE AddPart(Part(s)) /\ UNCHANGED list
  /\ waited' = FALSE
  /\ UNCHANGED <<serverVars, intoCode, received, gaveUp>>

(* In a list the line ends that have come after a string are skipped.      *)
AfterString(i) ==
  IF ~list.open THEN i
  ELSE LET more == FirstAfter(i, LineEnd) IN IF more = 0 THEN Len(m_data) + 1 ELSE more

(* parseQuotedString()                                                     *)
ParseQuotedString ==
  /\ at = "string" /\ Enough /\ ~IsLiteral
  /\ LET quoted == Symbol(m_position) = "\""
         s == SubSeq(m_data, IF quoted THEN m_position + 1 ELSE m_position, EndOfString - 1)
     IN /\ AddString(Unescaped(s))
        /\ MoveTo(AfterString(IF quoted THEN EndOfString + 1 ELSE EndOfString))
  /\ UNCHANGED <<m_literalSize, string>>

(* hasLiteral(): the size, and then the end of the line, waited for once.  *)
HasLiteral ==
  /\ at = "string" /\ Enough /\ IsLiteral
  /\ m_literalSize' = SizeOf[Symbol(LiteralAt)]
  /\ MoveTo(LiteralAt + 1)
  /\ at' = "header" /\ waited' = FALSE /\ string' = <<>>
  /\ UNCHANGED <<serverVars, list, messageVars, received, gaveUp>>

LiteralBegins ==
  /\ at = "header" /\ Enough
  /\ MoveTo(SkipOf(SkipOf(m_position, "CR"), "LF"))
  /\ at' = "literal" /\ waited' = FALSE
  /\ UNCHANGED <<serverVars, m_literalSize, string, list, messageVars, received, gaveUp>>

(* readLiteralPart(), and atLiteralEnd()                                   *)
ReadLiteralPart ==
  /\ at = "literal" /\ m_literalSize > 0 /\ Enough
  /\ LET size == Min({m_literalSize, BufferLimit, Available})
     IN /\ string' = string \o SubSeq(m_data, m_position, m_position + size - 1)
        /\ m_literalSize' = m_literalSize - size
        /\ MoveAndTrim(m_position + size)
  /\ waited' = FALSE
  /\ UNCHANGED <<serverVars, at, list, messageVars, received, gaveUp>>

AtLiteralEnd ==
  /\ at = "literal" /\ m_literalSize = 0
  /\ AddString(string)
  /\ MoveTo(AfterString(m_position))
  /\ UNCHANGED <<m_literalSize, string>>

-----------------------------------------------------------------------------
(* readParenthesizedList(): a list in the list is kept as it was written.  *)
InList(position, next) ==
  /\ MoveTo(position)
  /\ list' = next /\ waited' = FALSE
  /\ UNCHANGED <<serverVars, m_literalSize, string, messageVars, received, gaveUp>>

SublistAt(end) == SubSeq(m_data, list.sublistbegin, end)

NextInList(symbol, i) ==
  CASE symbol = "(" ->
         [list EXCEPT !.count = @ + 1, !.sublistbegin = IF list.count = 0 THEN i ELSE @]
    [] symbol = ")" ->
         [list EXCEPT !.count = @ - 1, !.result = IF list.count = 1 THEN Append(@, SublistAt(i)) ELSE @]
    [] symbol = "[" ->
         [list EXCEPT !.concatToLast = TRUE, !.result = AddToLast(IF @ = <<>> THEN <<<<>>>> ELSE @, <<"[">>)]
    [] symbol = "]" ->
         [list EXCEPT !.concatToLast = FALSE, !.result = AddToLast(@, <<"]">>)]
    [] OTHER -> list

(* Mutant: a quote in the list in the list is a symbol like any other.     *)
ListSymbolInQuotes ==
  /\ at = "list" /\ Enough
  /\ LET symbol == Symbol(m_position)
     IN /\ symbol \in {" ", "(", ")", "[", "]"} \/ list.count > 0
        /\ ~(symbol = ")" /\ list.count = 0)
        /\ InList(m_position + 1, NextInList(symbol, m_position))
  /\ UNCHANGED at

ListSymbol ==
  /\ at = "list" /\ Enough
  /\ LET symbol == Symbol(m_position)
     IN /\ symbol \in {" ", "(", ")", "[", "]"} \/ (list.count > 0 /\ symbol # "\"")
        /\ ~(symbol = ")" /\ list.count = 0)
        /\ InList(m_position + 1, NextInList(symbol, m_position))
  /\ UNCHANGED at

ListString ==
  /\ at = "list" /\ Enough
  /\ LET symbol == Symbol(m_position)
     IN IF list.count > 0 THEN symbol = "\"" /\ at' = "quoted"
        ELSE symbol \notin {" ", "(", ")", "[", "]"} /\ at' = "string"
  /\ InList(m_position, list)

QuotedInSublist ==
  /\ at = "quoted" /\ Enough
  /\ InList(ClosingQuote(m_position) + 1, list)
  /\ at' = "list"

ListEnd ==
  /\ at = "list" /\ Enough /\ Symbol(m_position) = ")" /\ list.count = 0
  /\ MoveTo(m_position + 1)
  /\ AddPart([kind |-> "list", of |-> list.result])
  /\ list' = NoList /\ at' = "command" /\ waited' = FALSE
  /\ UNCHANGED <<serverVars, m_literalSize, string, intoCode, received, gaveUp>>

Progress ==
  \/ WaitForMoreData
  \/ ReadMessage \/ AtCommandEnd \/ HasString \/ HasList \/ HasResponseCode \/ Inconsistent
  \/ ParseQuotedString \/ HasLiteral \/ LiteralBegins \/ ReadLiteralPart \/ AtLiteralEnd
  \/ ListSymbol \/ ListString \/ QuotedInSublist \/ ListEnd

StreamNext == Progress \/ TimeOut

StreamSpec == StreamInit /\ [][StreamNext]_streamVars

(* The server finishes what it says, and the thread runs its event loop.   *)
StreamFair == StreamSpec /\ WF_streamVars(Progress)

-----------------------------------------------------------------------------
(* However the stream is cut into pieces, the messages that have been      *)
(* emitted are the first that the server has sent, and all of them once    *)
(* everything has come.                                                    *)
ReceivedIsSent ==
  ~gaveUp =>
    /\ IsPrefix(received, expected)
    /\ at = "idle" /\ rest = <<>> /\ Available = 0 => received = expected
    /\ at # "closed"

(* hasLiteral() waits for the end of the line before a literal, so that    *)
(* none of it is taken for the literal: but for blank lines, every message *)
(* received is one that was sent.                                          *)
LiteralsAreWhole == ~gaveUp => \A k \in DOMAIN received : received[k] \in ToSet(expected) \union {NoMessage}

(* The parser blocks its thread only while a response is incomplete: never *)
(* for something that the server has no reason to send.                    *)
NeverWaitsInVain == at # "idle" /\ ~Enough /\ ~gaveUp => rest # <<>>

(* Several responses may come in one piece, for which the socket signals   *)
(* but once: all of them are received nevertheless.                        *)
AllIsReceived == <>(gaveUp \/ received = expected)
=============================================================================
