----------------------------- MODULE RfcCodecs -----------------------------
(***************************************************************************)
(* How the names of mailboxes are written in commands and read in          *)
(* responses (src/src/rfccodecs.cpp): modified UTF-7 unless the server     *)
(* takes UTF-8, between quotes.  Bytes and code points are numbers, a      *)
(* QString is the sequence of its code points.                             *)
(***************************************************************************)
EXTENDS Integers, Sequences, SequencesExt, FiniteSetsExt, Functions

QuoteMark == 34
Ampersand == 38
Hyphen    == 45
Backslash == 92

Printable(c) == c \in 32..126

(* base64chars, "A" to "Z", "a" to "z", "0" to "9", "+" and ",".           *)
base64chars == [k \in 0..63 |-> CASE k < 26 -> 65 + k
                                  [] k \in 26..51 -> 71 + k
                                  [] k \in 52..61 -> k - 4
                                  [] k = 62 -> 43
                                  [] k = 63 -> 44]
IsBase64(c) == c \in Range(base64chars)
Base64(c) == CHOOSE k \in 0..63 : base64chars[k] = c

quoteIMAP(src) ==
  FlattenSeq([k \in DOMAIN src |-> IF src[k] \in {QuoteMark, Backslash} THEN <<Backslash, src[k]>> ELSE <<src[k]>>])

(* QString::toUtf8()                                                       *)
Utf8Char(u) ==
  CASE u < 128 -> <<u>>
    [] u \in 128..2047 -> <<192 + u \div 64, 128 + (u % 64)>>
    [] u \in 2048..65535 -> <<224 + u \div 4096, 128 + ((u \div 64) % 64), 128 + (u % 64)>>
    [] OTHER -> <<240 + u \div 262144, 128 + ((u \div 4096) % 64), 128 + ((u \div 64) % 64), 128 + (u % 64)>>
Utf8(name) == FlattenSeq([k \in DOMAIN name |-> Utf8Char(name[k])])

-----------------------------------------------------------------------------
(* The variables of encodeImapFolderName(); of bitbuf only the bitstogo    *)
(* bits that are still to go.                                              *)
Encoder == [dst |-> <<>>, utf7mode |-> FALSE, bitstogo |-> 0, bitbuf |-> 0, ucs4 |-> 0, utf8pos |-> 0, utf8total |-> 0]

(* "spew out base64"                                                       *)
SpewOut(e) ==
  LET n == e.bitstogo \div 6
      left == e.bitstogo % 6
  IN [e EXCEPT !.dst = @ \o [k \in 1..n |-> base64chars[(e.bitbuf \div 2 ^ (e.bitstogo - 6 * k)) % 64]],
               !.bitstogo = left, !.bitbuf = @ % 2 ^ left]

(* Mutant: the bits that are left over at the end of a run are dropped.    *)
LeaveUtf7Early(e) ==
  IF ~e.utf7mode THEN e
  ELSE [e EXCEPT !.dst = Append(@, Hyphen), !.bitstogo = 0, !.bitbuf = 0, !.utf7mode = FALSE]

LeaveUtf7(e) ==
  IF ~e.utf7mode THEN e
  ELSE [e EXCEPT !.dst = (IF e.bitstogo = 0 THEN @
                          ELSE Append(@, base64chars[(e.bitbuf * 2 ^ (6 - e.bitstogo)) % 64])) \o <<Hyphen>>,
                 !.bitstogo = 0, !.bitbuf = 0, !.utf7mode = FALSE]

Utf16(e, unit) == SpewOut([e EXCEPT !.bitbuf = @ * 65536 + unit, !.bitstogo = @ + 16])

(* One code point, split in two where it does not fit into UTF-16.         *)
CodePoint(e, ucs4) ==
  LET reset == [e EXCEPT !.utf8total = 0]
  IN IF ucs4 < 65536 THEN Utf16(reset, ucs4)
     ELSE Utf16(Utf16(reset, (ucs4 - 65536) \div 1024 + 55296), 56320 + (ucs4 % 1024))

(* The first byte says how many follow; of the first of four only two bits *)
(* are taken.                                                              *)
FirstByte(e, c) ==
  LET total == IF c < 224 THEN 2 ELSE IF c < 240 THEN 3 ELSE 4
  IN [e EXCEPT !.utf8pos = 1, !.utf8total = total,
               !.ucs4 = CASE total = 2 -> c % 32 [] total = 3 -> c % 16 [] total = 4 -> c % 4]

NextByte(e, c) ==
  LET ucs4 == (e.ucs4 * 64) + (c % 64)
      next == [e EXCEPT !.ucs4 = ucs4, !.utf8pos = @ + 1]
  IN IF next.utf8pos < e.utf8total THEN next ELSE CodePoint(next, ucs4)

EncodeByte(e, c) ==
  IF Printable(c)
  THEN [LeaveUtf7(e) EXCEPT !.dst = @ \o (IF c = Ampersand THEN <<c, Hyphen>> ELSE <<c>>)]
  ELSE LET shifted == IF e.utf7mode THEN e ELSE [e EXCEPT !.dst = Append(@, Ampersand), !.utf7mode = TRUE]
       IN IF c < 128 THEN CodePoint(shifted, c)
          ELSE IF e.utf8total > 0 THEN NextByte(shifted, c) ELSE FirstByte(shifted, c)

encodeImapFolderName(src, utf8Enabled) ==
  quoteIMAP(IF utf8Enabled THEN src ELSE LeaveUtf7(FoldLeft(EncodeByte, Encoder, src)).dst)

-----------------------------------------------------------------------------
(* The variables of decodeImapFolderName(), which reads one byte after the *)
(* other; a surrogate waits in ucs4 for the second one.                    *)
Decoder == [dst |-> <<>>, mode |-> "literal", bitbuf |-> 0, bitcount |-> 0, ucs4 |-> 0]

DecodeUnit(d, utf16) ==
  IF utf16 \in 55296..56319 THEN [d EXCEPT !.ucs4 = (utf16 - 55296) * 1024]
  ELSE LET ucs4 == IF utf16 \in 56320..57343 THEN d.ucs4 + utf16 - 56320 + 65536 ELSE utf16
       IN [d EXCEPT !.ucs4 = ucs4, !.dst = @ \o Utf8Char(ucs4)]

DecodeBits(d, c) ==
  LET bits == [d EXCEPT !.bitbuf = @ * 64 + Base64(c), !.bitcount = @ + 6]
      left == bits.bitcount - 16
  IN IF left < 0 THEN bits
     ELSE DecodeUnit([bits EXCEPT !.bitcount = left, !.bitbuf = @ % 2 ^ left], bits.bitbuf \div 2 ^ left)

(* "&-" is an ampersand; the end of a run is its hyphen, if it has one.    *)
DecodeByte(d, c) ==
  CASE d.mode = "shifted" /\ c = Hyphen -> [d EXCEPT !.mode = "literal", !.dst = Append(@, Ampersand)]
    [] d.mode # "literal" /\ IsBase64(c) -> DecodeBits([d EXCEPT !.mode = "base64"], c)
    [] d.mode = "base64" /\ c = Hyphen -> [d EXCEPT !.mode = "literal"]
    [] c = Ampersand -> [d EXCEPT !.mode = "shifted", !.bitbuf = 0, !.bitcount = 0, !.ucs4 = 0]
    [] OTHER -> [d EXCEPT !.mode = "literal", !.dst = Append(@, c)]

decodeImapFolderName(src, utf8Enabled) ==
  IF utf8Enabled THEN src ELSE FoldLeft(DecodeByte, Decoder, src).dst

-----------------------------------------------------------------------------
(* External: what is between quotes as RFC 3501 reads it, and a name in    *)
(* the modified UTF-7 of that document: every run of what is not printable *)
(* as the bits of its UTF-16, six by six, filled up with zeros.            *)
UnquotedByte(u, c) ==
  IF c = Backslash /\ ~u.escaped THEN [u EXCEPT !.escaped = TRUE]
  ELSE [read |-> Append(u.read, c), escaped |-> FALSE]
Unquoted(s) == FoldLeft(UnquotedByte, [read |-> <<>>, escaped |-> FALSE], s).read

Units(u) == IF u < 65536 THEN <<u>> ELSE <<55296 + (u - 65536) \div 1024, 56320 + (u % 1024)>>

RunOf(name) ==
  LET units == FlattenSeq([k \in DOMAIN name |-> Units(name[k])])
      bit(i) == IF i >= 16 * Len(units) THEN 0 ELSE (units[i \div 16 + 1] \div 2 ^ (15 - (i % 16))) % 2
      digits == (16 * Len(units) + 5) \div 6
  IN <<Ampersand>>
       \o [k \in 1..digits |-> base64chars[FoldLeft(LAMBDA n, i : 2 * n + bit(6 * (k - 1) + i - 1), 0, [i \in 1..6 |-> i])]]
       \o <<Hyphen>>

ModifiedUtf7(name) ==
  LET ends == {k \in DOMAIN name : k = Len(name) \/ Printable(name[k]) \/ Printable(name[k + 1])}
      begin(k) == Max({0} \union {j \in ends : j < k}) + 1
      piece(k) == CASE name[k] = Ampersand -> <<Ampersand, Hyphen>>
                    [] Printable(name[k]) -> <<name[k]>>
                    [] OTHER -> RunOf(SubSeq(name, begin(k), k))
      pieces == SetToSortSeq(ends, <)
  IN FlattenSeq([k \in DOMAIN pieces |-> piece(pieces[k])])
=============================================================================
