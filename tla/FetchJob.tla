------------------------------ MODULE FetchJob ------------------------------
(***************************************************************************)
(* FetchJob (src/src/fetchjob.cpp): what is asked of the server in each    *)
(* mode, the message built from the items of a FETCH response, and the     *)
(* messages that wait, by number, for the timer or for the result.         *)
(***************************************************************************)
EXTENDS Job, BodyStructure

CONSTANTS Parts,          (* the MIME parts an application may ask for      *)
          MailBoxSize,    (* messages in the mailbox when the job starts    *)
          Structures      (* the structures a message may have              *)

VARIABLES mode,           (* scope.mode                                     *)
          parts,          (* scope.parts                                    *)
          pendingMsgs,    (* number -> message                              *)
          mailbox,        (* external: the messages, by number              *)
          fetched         (* external: those the server has sent            *)

fetchVars == <<mode, parts, pendingMsgs, mailbox, fetched>>

Modes == {"Headers", "Flags", "Structure", "Content", "Full", "HeaderAndContent",
          "FullHeaders", "HeaderAndContentBinary"}

NoMessages == <<>>

FetchInit ==
  /\ mode = "" /\ parts = {}
  /\ pendingMsgs = NoMessages
  /\ mailbox = [n \in 1..MailBoxSize |-> n] /\ fetched = {}

-----------------------------------------------------------------------------
(* An item of a FETCH response: its name, and the part it is about or "".  *)
Item(name, part) == <<name, part>>
Items(names) == {Item(name, "") : name \in names}
ItemsOf(name) == {Item(name, part) : part \in parts}

(* The items that doStart() asks for.                                      *)
Requested ==
  LET whole == parts = {}
      headerAndContent == ItemsOf("MIME") \union Items({"HEADER", "FLAGS", "UID"})
  IN CASE mode = "Headers" ->
            IF whole THEN Items({"SIZE", "DATE", "HEADER", "FLAGS", "UID"})
                     ELSE ItemsOf("MIME") \union Items({"UID"})
       [] mode = "Flags" -> Items({"FLAGS", "UID"})
       [] mode = "Structure" -> Items({"BODYSTRUCTURE", "UID"})
       [] mode = "Content" ->
            (IF whole THEN Items({"BODY"}) ELSE ItemsOf("BODY")) \union Items({"UID"})
       [] mode = "Full" -> Items({"SIZE", "DATE", "BODY", "FLAGS", "UID"})
       [] mode = "HeaderAndContent" ->
            IF whole THEN Items({"BODY", "FLAGS", "UID"}) ELSE headerAndContent \union ItemsOf("BODY")
       [] mode = "FullHeaders" -> Items({"SIZE", "DATE", "HEADER", "FLAGS", "UID"})
       [] mode = "HeaderAndContentBinary" -> headerAndContent \union ItemsOf("BINARY")

(* The modes in which the message is built in several steps.               *)
MessageIsBuilt == mode \in {"Headers", "HeaderAndContent", "HeaderAndContentBinary", "FullHeaders"}

-----------------------------------------------------------------------------
NoPart == [head |-> FALSE, body |-> FALSE, decoded |-> FALSE]

EmptyMessage == [facts |-> {}, content |-> {}, given |-> FALSE, parts |-> <<>>, binary |-> {}]

PartOf(msg, part) == IF part \in DOMAIN msg.parts THEN msg.parts[part] ELSE NoPart
SetPart(msg, part, value) == [msg EXCEPT !.parts = (part :> value) @@ @]

(* Mutant: the header of a part is believed whatever form its body has.    *)
ReadMimeAsIs(msg, part) == SetPart(msg, part, [PartOf(msg, part) EXCEPT !.head = TRUE])

(* The header of a part whose body has come decoded says so.               *)
ReadMime(msg, part) ==
  SetPart(msg, part, [PartOf(msg, part) EXCEPT !.head = TRUE, !.decoded = part \in msg.binary])

(* A decoded body: the header of the part is corrected if it was read.     *)
ReadBinary(msg, part) ==
  [SetPart(msg, part, [PartOf(msg, part) EXCEPT !.body = TRUE, !.decoded = PartOf(msg, part).head])
     EXCEPT !.binary = @ \union {part}]

ReadItem(msg, item) ==
  LET name == item[1]
      part == item[2]
  IN CASE name \in {"UID", "SIZE", "FLAGS"} -> [msg EXCEPT !.facts = @ \union {name}]
       [] name \in {"DATE", "HEADER"} -> [msg EXCEPT !.content = @ \union {name}]
       [] name \in {"BODY", "BINARY", "BODYSTRUCTURE"} /\ part = "" ->
            [msg EXCEPT !.content = @ \union {name}, !.given = TRUE]
       [] name = "MIME" -> ReadMime(msg, part)
       [] name = "BODY" -> SetPart(msg, part, [PartOf(msg, part) EXCEPT !.body = TRUE])
       [] name = "BINARY" -> ReadBinary(msg, part)

(* The structure that a BODYSTRUCTURE gives.                               *)
NoStructure == <<>>
ParsedStructure(structure) == ParseBodyStructure(TextOf(structure), 1).content

(* What an application sees of a message of which the server sent these    *)
(* items: what is in the MIME message only if it is given one.             *)
Visible(msg) ==
  [facts |-> msg.facts, parts |-> msg.parts, content |-> IF msg.given THEN msg.content ELSE {}]

ReadItems(items) ==
  LET msg == FoldLeft(ReadItem, EmptyMessage, items)
  IN Visible([msg EXCEPT !.given = @ \/ MessageIsBuilt])

(* Reference: what these items say, in no order.                           *)
Said(items) ==
  LET about(part) == {item[1] : item \in {i \in items : i[2] = part}}
      given == MessageIsBuilt \/ about("") \intersect {"BODY", "BINARY", "BODYSTRUCTURE"} # {}
  IN [facts |-> about("") \intersect {"UID", "SIZE", "FLAGS"},
      content |-> IF given THEN about("") \ {"UID", "SIZE", "FLAGS"} ELSE {},
      parts |-> [part \in {item[2] : item \in items} \ {""} |->
                   [head |-> "MIME" \in about(part),
                    body |-> about(part) \intersect {"BODY", "BINARY"} # {},
                    decoded |-> {"MIME", "BINARY"} \subseteq about(part)]]]

-----------------------------------------------------------------------------
FetchStart ==
  /\ Is("fetch")
  /\ mode' \in Modes /\ parts' \in SUBSET Parts
  /\ mode' = "HeaderAndContentBinary" => parts' # {}
  /\ SendCommands(1) /\ timer' = TRUE
  /\ UNCHANGED <<pendingMsgs, mailbox, fetched>>

(* What is pending when the signal is emitted, by number.                  *)
PendingMsgs == [k \in 1..Cardinality(DOMAIN pendingMsgs) |->
                  pendingMsgs[SetToSortSeq(DOMAIN pendingMsgs, <)[k]]]

EmitPendingMsgs ==
  /\ reported' = reported \o PendingMsgs
  /\ pendingMsgs' = NoMessages

(* A FETCH response.  An item without a value is skipped.                  *)
FetchResponse(n, items, structure, truncated) ==
  LET read == IF truncated THEN Front(items) ELSE items
      about(content, msg) ==
        [message |-> mailbox[n],
         structure |-> IF Item("BODYSTRUCTURE", "") \in ToSet(read) THEN content ELSE NoStructure] @@ msg
  IN /\ Is("fetch")
     /\ Tell(about(Seen(structure), Said(ToSet(read))))
     /\ pendingMsgs' = (n :> about(ParsedStructure(structure), ReadItems(read))) @@ pendingMsgs
     /\ fetched' = fetched \union {mailbox[n]}
     /\ UNCHANGED <<timer, reported, mode, parts, mailbox>>

(* VANISHED and EXPUNGE are reported at once.                              *)
VanishedResponse ==
  /\ Is("fetch")
  /\ Tell([vanished |-> "earlier"])
  /\ reported' = Append(reported, [vanished |-> "earlier"])
  /\ UNCHANGED <<timer, fetchVars>>

ExpungeResponse(n) ==
  /\ Is("fetch")
  /\ Tell([expunged |-> n])
  /\ reported' = Append(reported, [expunged |-> n])
  /\ mailbox' = RemoveAt(mailbox, n)
  /\ UNCHANGED <<timer, mode, parts, pendingMsgs, fetched>>

FetchEmit ==
  /\ Is("fetch") /\ timer
  /\ EmitPendingMsgs
  /\ UNCHANGED <<class, phase, tags, error, timer, told, refused, gone>>
  /\ UNCHANGED <<mode, parts, mailbox, fetched>>

FetchReply(tag, code) ==
  /\ Is("fetch")
  /\ HandleErrorReplies(tag, code)
  /\ IF IsLastReply(tag)
     THEN timer' = FALSE /\ EmitPendingMsgs
     ELSE UNCHANGED <<timer, reported, pendingMsgs>>
  /\ UNCHANGED <<told, mode, parts, mailbox, fetched>>

(* The server answers with the items in an order of its own.               *)
MaxItems == Max({5, 3 + 2 * Cardinality(Parts)})
Orders == [size \in 1..MaxItems |-> SetToSeqs(1..size)]
Ordered(items, order) ==
  LET some == FoldSet(LAMBDA item, seq : Append(seq, item), <<>>, items)
  IN [k \in DOMAIN order |-> some[order[k]]]

FetchRequested ==
  /\ Is("fetch") /\ phase = "running"
  /\ \E n \in {k \in DOMAIN mailbox : mailbox[k] \notin fetched}, order \in Orders[Cardinality(Requested)],
        truncated \in BOOLEAN, structure \in IF mode = "Structure" THEN Structures ELSE {Leaf} :
       FetchResponse(n, Ordered(Requested, order), structure, truncated)

FetchNext ==
  \/ FetchStart
  \/ FetchRequested
  \/ "split" \in Liberties /\ \E n \in DOMAIN mailbox : FetchResponse(n, <<Item("FLAGS", "")>>, Leaf, FALSE)
  \/ VanishedResponse
  \/ "expunge" \in Liberties /\ \E n \in DOMAIN mailbox : ExpungeResponse(n)
  \/ FetchEmit
  \/ \E tag \in tags, code \in Codes : FetchReply(tag, code)
  \/ Is("fetch") /\ ConnectionLost /\ UNCHANGED fetchVars

-----------------------------------------------------------------------------
(* Everything the server says of a message is reported, whole and once,    *)
(* whatever the order of the items and of the responses and whenever the   *)
(* timer comes; when a reply ends the job nothing waits any more.          *)
FetchedIsReported ==
  Is("fetch") /\ ~gone =>
    /\ Range(reported \o PendingMsgs) = Range(told)
    /\ Len(reported \o PendingMsgs) = Len(told)
    /\ phase = "done" => pendingMsgs = NoMessages
=============================================================================
