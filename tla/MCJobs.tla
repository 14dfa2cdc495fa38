------------------------------- MODULE MCJobs -------------------------------
(***************************************************************************)
(* Small instances of Jobs for TLC.                                        *)
(***************************************************************************)
EXTENDS Jobs

(* The jobs that report what they are told in signals of their own, and    *)
(* those for which the liberties of a server make a difference.            *)
ClassesAtLarge ==
  {"login", "list", "fetch", "select", "idle",
   "append", "store", "move", "expunge", "getquota", "capabilities", "enable", "namespace"}

(* The jobs that are asked for the data they have collected, and FetchJob. *)
DataClasses ==
  {"fetch", "append", "store", "copy", "move", "expunge", "close", "search",
   "getacl", "setacl", "deleteacl", "listrights", "myrights",
   "getquota", "setquota", "getquotaroot",
   "id", "rename", "subscribe", "unsubscribe", "create", "delete",
   "capabilities", "enable", "namespace", "status",
   "setmetadata", "getmetadata"}

(* The Inbox in two spellings and what is below one, a plain name and one  *)
(* that modified UTF-7 encodes.                                            *)
SomeMailBoxes == [top : {"INBOX", "a", "non-ascii"}, below : {""}]
                   \union {[top |-> "inbox", below |-> "x"]}

SomeOffers ==
  {{}, {"STARTTLS"}, {"STARTTLS", "LOGINDISABLED"}, {"PLAIN"},
   {"STARTTLS", "PLAIN", "UTF8=ACCEPT"}, {"LOGINDISABLED", "CRAM-MD5"}}

(* Text, an image that is attached, a message, and parts of parts.  Text    *)
(* and messages have no disposition here.                                  *)
Text == [Leaf EXCEPT !.type = <<"TEXT", "PLAIN">>]
Extended(part) == [part EXCEPT !.extended = TRUE]
Attached(part) == [Extended(part) EXCEPT !.disposition = "ATTACHMENT", !.filename = "name"]
Message(part) == [Leaf EXCEPT !.type = <<"MESSAGE", "RFC822">>, !.parts = <<part>>]
MultiPart(subtype, parts_) == [Leaf EXCEPT !.type = <<"MULTIPART", subtype>>, !.parts = parts_]
Bounded(part) == [Extended(part) EXCEPT !.boundary = "b"]

SomeStructures ==
  {Leaf, Text, Extended(Text), Attached(Leaf), [Extended(Leaf) EXCEPT !.disposition = "INLINE"],
   MultiPart("MIXED", <<Text, Attached(Leaf)>>),
   Bounded(MultiPart("MIXED", <<Extended(Text), Message(Text), Attached(Leaf)>>)),
   Bounded(MultiPart("MIXED", <<Bounded(MultiPart("ALTERNATIVE", <<Text, Text>>)), Leaf>>)),
   [Bounded(MultiPart("MIXED", <<Text>>)) EXCEPT !.disposition = "INLINE"]}

(* One of each kind of part, where structures are not the question.        *)
FewStructures == {Bounded(MultiPart("MIXED", <<Text, Attached(Leaf)>>))}

(* One, two or three conditions, one of them perhaps negated, joined, and  *)
(* perhaps joined again with another.                                      *)
Joined(subterms) == {Relation(rel, subterms) : rel \in {"And", "Or"}}
Perhaps(terms) == terms \union {Negated(term) : term \in terms}
Simple == Perhaps({Key("Seen")}) \union UNION {Joined(<<term>>) : term \in Perhaps({Key("Seen")})}
Twice == UNION {Joined(<<term, Key("Draft")>>) : term \in Simple}
Thrice == UNION {Joined(<<Key("Seen"), term, Key("Deleted")>>) : term \in Perhaps({Key("Draft")})}
SomeTerms ==
  Perhaps(Simple \union Twice \union Thrice)
    \union UNION {Joined(<<Key("Subject"), term>>) \union Joined(<<term, Key("Subject"), Key("Larger")>>) : term \in Perhaps(Twice \union Thrice)}
FewTerms == {Key("Seen")}

(* Printable characters, the ones that are special in quotes and in        *)
(* modified UTF-7, a line feed, and characters of two to four bytes.       *)
SomeFolderNames == BoundedSeq({97, Ampersand, QuoteMark, Backslash, 10, 228, 8364, 128512}, 2)
                     \union {<<97, 228, 228, 228, Hyphen, 97>>}

(* Two that modified UTF-7 encodes and nothing has to be quoted in.        *)
PlainFolderNames == {<<97, 228>>, <<8364, Ampersand>>}

SomeNamespaceItems == [name : {"", "n"}, parts : 1..2]
FewNamespaceItems == {[name |-> "", parts |-> 2]}
=============================================================================
