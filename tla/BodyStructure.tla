--------------------------- MODULE BodyStructure ---------------------------
(***************************************************************************)
(* How FetchJob reads the structure of a message (src/src/fetchjob.cpp):   *)
(* one pass over the text of a BODYSTRUCTURE, here a sequence of its       *)
(* parentheses and strings.                                                *)
(***************************************************************************)
EXTENDS Integers, Sequences, SequencesExt, Functions

(* parseString(): at a parenthesis it reads an empty string.               *)
AfterStringAt(s, pos) == IF pos > Len(s) \/ s[pos] \in {"(", ")"} THEN pos ELSE pos + 1
StringAt(s, pos) == IF AfterStringAt(s, pos) = pos THEN "" ELSE s[pos]

AfterStrings(s, pos, n) == FoldLeft(LAMBDA p, k : AfterStringAt(s, p), pos, [k \in 1..n |-> k])

(* parseSentence(): a string, or everything up to the matching parenthesis.*)
Depth(s, from, to) ==
  FoldLeft(LAMBDA d, symbol : IF symbol = "(" THEN d + 1 ELSE IF symbol = ")" THEN d - 1 ELSE d, 0, SubSeq(s, from, to))

AfterSentence(s, pos) ==
  IF pos > Len(s) \/ s[pos] # "(" THEN AfterStringAt(s, pos)
  ELSE CHOOSE end \in pos + 1..Len(s) + 1 :
         /\ Depth(s, pos, end - 1) = 0 \/ end = Len(s) + 1
         /\ \A k \in pos..end - 2 : Depth(s, pos, k) > 0

Mentions(s, pos, word) == \E k \in pos..AfterSentence(s, pos) - 1 : s[k] = word

(* The symbol after a word of the sentence.                                *)
After(s, pos, word) ==
  IF Mentions(s, pos, word)
  THEN s[1 + (CHOOSE k \in pos..AfterSentence(s, pos) - 1 : s[k] = word)] ELSE ""

Disposition(s, pos) ==
  IF Mentions(s, pos, "INLINE") THEN "INLINE" ELSE IF Mentions(s, pos, "ATTACHMENT") THEN "ATTACHMENT" ELSE ""

Consumed(s, pos) ==
  LET from[p \in Nat] == IF p > Len(s) \/ s[p] = ")" THEN p ELSE from[AfterSentence(s, p)]
  IN from[pos]

(* parsePart(): the type, the parameters, and then the id, the             *)
(* description, the encoding, the size and the lines, whether the part has *)
(* lines or not; what follows is taken for the disposition.                *)
DispositionAt(s, pos) == AfterStrings(s, AfterSentence(s, AfterStrings(s, pos, 2)), 5)

ParsePart(s, pos) ==
  LET disposition == Disposition(s, DispositionAt(s, pos + 1))
  IN [content |-> [type |-> <<StringAt(s, pos + 1), StringAt(s, AfterStringAt(s, pos + 1))>>,
                   disposition |-> disposition,
                   filename |-> IF disposition = "" THEN "" ELSE After(s, DispositionAt(s, pos + 1), "FILENAME"),
                   boundary |-> "", parts |-> <<>>],
      pos |-> Consumed(s, AfterSentence(s, DispositionAt(s, pos + 1)))]

(* parseBodyStructure(): a part, or several in parentheses of their own    *)
(* and what is said of them together.  read gives what is read from a      *)
(* position on: one structure, or as many as follow each other.            *)
ParseChildren(s, pos, read) ==
  IF pos > Len(s) \/ s[pos] # "(" THEN [parts |-> <<>>, pos |-> pos]
  ELSE LET child == read["one", pos]
           others == read["all", child.pos]
       IN [parts |-> <<child.content>> \o others.parts, pos |-> others.pos]

ParseMultiPart(s, pos, read) ==
  LET children == read["all", pos + 1]
      parameters == AfterStringAt(s, children.pos)
      disposition == AfterSentence(s, parameters)
  IN [content |-> [type |-> <<"MULTIPART", StringAt(s, children.pos)>>,
                   disposition |-> Disposition(s, disposition), filename |-> "",
                   boundary |-> After(s, parameters, "BOUNDARY"), parts |-> children.parts],
      pos |-> AfterSentence(s, AfterSentence(s, disposition))]

ParseStructure(s, pos, read) ==
  LET parsed == IF s[pos + 1] = "(" THEN ParseMultiPart(s, pos, read) ELSE ParsePart(s, pos)
  IN [parsed EXCEPT !.pos = Consumed(s, @) + 1]

ParseBodyStructure(s, pos) ==
  LET read[what \in {"one", "all"}, p \in Nat] ==
        IF what = "one" THEN ParseStructure(s, p, read) ELSE ParseChildren(s, p, read)
  IN read["one", pos]

-----------------------------------------------------------------------------
(* External: the text for a structure as RFC 3501 writes it, the extension *)
(* data, which ends with the disposition and the language, or none.        *)
Written(words) == <<"(">> \o words \o <<")">>

DispositionWritten(part) ==
  CASE part.disposition = "" -> <<"NIL">>
    [] part.filename = "" -> Written(<<part.disposition, "NIL">>)
    [] OTHER -> Written(<<part.disposition>> \o Written(<<"FILENAME", part.filename>>))

(* The extension data of a part begins with a checksum.                    *)
ExtensionOf(part) == IF part.extended THEN DispositionWritten(part) \o <<"NIL">> ELSE <<>>
PartExtension(part) == IF part.extended THEN <<"NIL">> \o ExtensionOf(part) ELSE <<>>

(* The parts of a part at every depth.                                     *)
PartNesting == 3
PartsWithin(part) ==
  LET level[n \in 0..PartNesting] ==
        IF n = 0 THEN {part} ELSE UNION {Range(p.parts) : p \in level[n - 1]}
  IN UNION {level[n] : n \in 0..PartNesting}

TextOf(part) ==
  LET text[p \in PartsWithin(part)] ==
        Written(CASE p.type[1] = "MULTIPART" ->
                       FlattenSeq([k \in DOMAIN p.parts |-> text[p.parts[k]]]) \o <<p.type[2]>>
                         \o (IF p.extended THEN Written(<<"BOUNDARY", p.boundary>>) ELSE <<>>) \o ExtensionOf(p)
                  [] p.type[1] = "TEXT" ->
                       p.type \o Written(<<"CHARSET", "utf-8">>) \o <<"NIL", "NIL", "7BIT", "size", "lines">> \o PartExtension(p)
                  [] p.type[1] = "MESSAGE" ->
                       p.type \o <<"NIL", "NIL", "NIL", "7BIT", "size">> \o Written(<<"NIL", "subject">>)
                         \o text[p.parts[1]] \o <<"lines">> \o PartExtension(p)
                  [] OTHER ->
                       p.type \o <<"NIL", "NIL", "NIL", "BASE64", "size">> \o PartExtension(p))
  IN text[part]

(* A part that is neither text nor a message, and without extension data.  *)
Leaf == [type |-> <<"IMAGE", "PNG">>, disposition |-> "", filename |-> "", boundary |-> "", parts |-> <<>>,
         extended |-> FALSE]

(* What an application should see of it; FetchJob does not look into a     *)
(* message that is attached.                                               *)
Seen(part) ==
  LET seen[p \in PartsWithin(part)] ==
        [type |-> p.type, disposition |-> p.disposition, filename |-> p.filename, boundary |-> p.boundary,
         parts |-> IF p.type[1] = "MULTIPART" THEN [k \in DOMAIN p.parts |-> seen[p.parts[k]]] ELSE <<>>]
  IN seen[part]
=============================================================================
