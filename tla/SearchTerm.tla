----------------------------- MODULE SearchTerm -----------------------------
(***************************************************************************)
(* Term, the tree of conditions of a SearchJob, and the line that the job  *)
(* makes of it (src/src/searchjob.cpp); a condition is its key.            *)
(***************************************************************************)
EXTENDS Integers, Sequences, SequencesExt

(* Term::SearchKey, BooleanSearchKey, DateSearchKey, NumberSearchKey and   *)
(* SequenceSearchKey.                                                      *)
SearchKeys ==
  {"All", "Bcc", "Body", "Cc", "From", "Subject", "Text", "To", "Keyword"}
    \union {"New", "Old", "Recent", "Seen", "Draft", "Deleted", "Flagged", "Answered"}
    \union {"Before", "On", "Since", "SentBefore", "SentOn", "SentSince"}
    \union {"Larger", "Smaller"} \union {"Uid", "SequenceNumber"}

(* The constructors of Term.                                               *)
Key(key)              == [relation |-> "none", key |-> key, subterms |-> <<>>, negated |-> FALSE]
Relation(rel, subterms) == [relation |-> rel, key |-> "", subterms |-> subterms, negated |-> FALSE]
Negated(term)         == [term EXCEPT !.negated = TRUE]

(* The terms in a term at every depth.                                     *)
TermNesting == 4
TermsWithin(term) ==
  LET level[n \in 0..TermNesting] ==
        IF n = 0 THEN {term} ELSE UNION {ToSet(t.subterms) : t \in level[n - 1]}
  IN UNION {level[n] : n \in 0..TermNesting}

(* Mutant: the last subterms of an OR are simply joined.                   *)
OrCommandFlat(commands) == <<"(", "OR">> \o FlattenSeq(commands) \o <<")">>

(* An OR has two operands: all but the last open one in parentheses.       *)
OrCommand(commands) ==
  FlattenSeq([k \in 1..Len(commands) - 1 |-> <<"(", "OR">> \o commands[k]])
    \o Last(commands) \o [k \in 1..Len(commands) - 1 |-> ")"]

(* The command of a term, given those of its subterms.                     *)
Command(term, commands) ==
  CASE term.relation = "none" -> <<term.key>>
    [] Len(commands) = 1 -> commands[1]
    [] Len(commands) > 1 /\ term.relation = "Or" -> OrCommand(commands)
    [] Len(commands) > 1 /\ term.relation = "And" -> <<"(">> \o FlattenSeq(commands) \o <<")">>

Serialize(term) ==
  LET serialized[t \in TermsWithin(term)] ==
        (IF t.negated THEN <<"NOT">> ELSE <<>>)
          \o Command(t, [k \in DOMAIN t.subterms |-> serialized[t.subterms[k]]])
  IN serialized[term]

(* SearchJob::doStart(): the outermost parentheses are left out.           *)
SearchKey(term) ==
  LET s == Serialize(term) IN IF s[1] = "(" THEN SubSeq(s, 2, Len(s) - 1) ELSE s

-----------------------------------------------------------------------------
(* External: a server reads search keys by RFC 3501.  Reading one from a   *)
(* position, or all up to the end or the closing parenthesis, gives        *)
(* whether a message with these keys is found, and the position behind.    *)
ReadKeys(s, pos, read) ==
  IF pos > Len(s) \/ s[pos] = ")" THEN [found |-> TRUE, pos |-> pos]
  ELSE LET first == read["one", pos]
           others == read["all", first.pos]
       IN [found |-> first.found /\ others.found, pos |-> others.pos]

ReadKey(s, pos, keys, read) ==
  CASE s[pos] = "(" -> LET all == read["all", pos + 1] IN [all EXCEPT !.pos = @ + 1]
    [] s[pos] = "NOT" -> LET key == read["one", pos + 1] IN [key EXCEPT !.found = ~@]
    [] s[pos] = "OR" -> LET one == read["one", pos + 1]
                            other == read["one", one.pos]
                        IN [found |-> one.found \/ other.found, pos |-> other.pos]
    [] OTHER -> [found |-> s[pos] \in keys, pos |-> pos + 1]

ReadSearch(s, keys) ==
  LET read[what \in {"one", "all"}, p \in Nat] ==
        IF what = "one" THEN ReadKey(s, p, keys, read) ELSE ReadKeys(s, p, read)
  IN read["all", 1]

(* The conditions in a term.                                               *)
KeysOf(term) == {t.key : t \in {u \in TermsWithin(term) : u.relation = "none"}}

(* What a term means.                                                      *)
Matches(term, keys) ==
  LET true[t \in TermsWithin(term)] ==
        LET some == CASE t.relation = "none" -> t.key \in keys
                      [] t.relation = "And" -> \A k \in DOMAIN t.subterms : true[t.subterms[k]]
                      [] t.relation = "Or" -> \E k \in DOMAIN t.subterms : true[t.subterms[k]]
        IN some # t.negated
  IN true[term]
=============================================================================
