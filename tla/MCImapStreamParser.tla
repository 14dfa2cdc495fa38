------------------------- MODULE MCImapStreamParser -------------------------
(***************************************************************************)
(* A small instance of ImapStreamParser for TLC: what a server may say and *)
(* the ways it may write it.                                               *)
(***************************************************************************)
EXTENDS ImapStreamParser

Written(value, symbols) == [value |-> value, symbols |-> symbols]

Escaped(s) == FlattenSeq([k \in DOMAIN s |-> IF s[k] \in {"\\", "\""} THEN <<"\\", s[k]>> ELSE <<s[k]>>])

Atom(s)    == Written(s, s)
Quoted(s)  == Written(s, <<"\"">> \o Escaped(s) \o <<"\"">>)
Literal(s) == Written(s, <<<<"{0}", "{1}", "{2}">>[Len(s) + 1], "CR", "LF">> \o s)
Binary(s)  == Written(s, <<"~">> \o Literal(s).symbols)

Strings ==
  {Atom(<<"a", "a">>), Quoted(<<>>), Quoted(<<")">>), Quoted(<<"a", "\"">>), Quoted(<<"\\", "a">>),
   Literal(<<>>), Literal(<<")", "LF">>), Binary(<<"a">>)}

(* In a list also what is about a section, and a list in the list, which   *)
(* may hold anything but a literal.                                        *)
Items ==
  {Atom(<<"a", "[", "a", "]">>), Atom(<<"(", "a", " ", "(", ")", ")">>), Atom(<<"(", "\"", "\\", "\"", ")", "\"", ")">>)}
    \union Strings

Separated(parts) ==
  FlattenSeq([k \in DOMAIN parts |-> IF k = 1 THEN parts[k].symbols ELSE <<" ">> \o parts[k].symbols])

Listed(items) ==
  Written([kind |-> "list", of |-> [k \in DOMAIN items |-> items[k].value]], <<"(">> \o Separated(items) \o <<")">>)

AsPart(s) == Written([kind |-> "string", of |-> s.value], s.symbols)

Parts == {AsPart(s) : s \in Strings} \union {Written([kind |-> "list", of |-> <<>>], <<"NIL">>)}
           \union {Listed(items) : items \in BoundedSeq(Items, 2)}

Tag == AsPart(Atom(<<"a">>))

Said(parts, code) ==
  Written([content |-> [k \in DOMAIN parts |-> parts[k].value], responseCode |-> [k \in DOMAIN code |-> code[k].value]],
          Separated(parts) \o (IF code = <<>> THEN <<>> ELSE <<" ", "[">> \o Separated(code) \o <<"]">>) \o <<"CR", "LF">>)

Responses ==
  {Said(<<Tag, part>>, <<>>) : part \in Parts}
    \union {Said(<<Tag>>, <<Tag, part>>) : part \in {Listed(<<>>), Listed(<<Atom(<<"a">>), Quoted(<<"]">>)>>)}}

(* Each of them, and a line behind it.                                     *)
SomeStreams ==
  {Written(<<r.value, Said(<<Tag>>, <<>>).value>>, r.symbols \o Said(<<Tag>>, <<>>).symbols) : r \in Responses}
=============================================================================
