---------------------------- MODULE MessageJobs ----------------------------
(***************************************************************************)
(* The jobs about messages of which the server answers with numbers:       *)
(* AppendJob, StoreJob, CopyJob, MoveJob, ExpungeJob, CloseJob and         *)
(* SearchJob (src/src/*job.cpp).                                           *)
(***************************************************************************)
EXTENDS DataJob, SearchTerm

CONSTANTS Numbers,        (* sequence numbers, UIDs and modification        *)
                          (* sequences a server may give                    *)
          FlagSets,       (* what the flags of a message may be             *)
          Terms           (* the terms an application may search for        *)

ASSUME TermsAssumption == \A term \in Terms : KeysOf(term) \subseteq SearchKeys
ASSUME FlagsAssumption == \A flags \in FlagSets : "" \notin flags

Unset == 0

-----------------------------------------------------------------------------
(* AppendJob: the content goes out on every "+", the UID comes in the      *)
(* second argument of APPENDUID.                                           *)
AppendRead(d, r) ==
  CASE r.kind = "+" -> [d EXCEPT !.sent = @ + 1]
    [] r.kind = "APPENDUID" -> [d EXCEPT !.uid = r.value]
    [] OTHER -> d

AppendStart == Start("append", [content |-> 1], [sent |-> 0, uid |-> Unset])

(* A server asks for the content once, and gives the UID with the OK.      *)
AppendNext ==
  \/ AppendStart
  \/ IsFirst("append", "+") /\ Respond("append", [kind |-> "+"], AppendRead)
  \/ \E code \in Codes, uid \in Numbers, uidPlus \in BOOLEAN :
       Reply("append", code,
             IF uidPlus /\ code = "OK" THEN [kind |-> "APPENDUID", value |-> uid] ELSE NoCode, AppendRead)

-----------------------------------------------------------------------------
(* StoreJob.  "FLAGS ()" gives a list with one empty flag.                 *)
FlagsRead(flags) == IF flags = {} THEN {""} ELSE flags

UidOf(id) == id + 1

(* Mutant: always by number.                                               *)
KeyOfNumber(r) == r.id

(* By number or by UID, as the job was asked; a UID that was not given     *)
(* cannot be a key.                                                        *)
KeyOf(r) == IF request.uidBased THEN r.uid ELSE r.id

StoreFetch(d, r) ==
  LET key == KeyOf(r)
  IN IF key = Unset THEN d
     ELSE [d EXCEPT !.flags = Inserted(@, key, FlagsRead(r.flags)),
                    !.modSeqs = IF r.modSeq = Unset THEN @ ELSE Inserted(@, key, r.modSeq)]

(* MODIFIED is read only in the tagged OK.                                 *)
StoreRead(d, r) ==
  CASE r.kind = "FETCH" -> StoreFetch(d, r)
    [] r.kind = "MODIFIED" -> [d EXCEPT !.unchanged = r.value]
    [] OTHER -> d

(* doStart(): an empty set is an error, and nothing is sent.               *)
StoreEmptySet ==
  /\ Is("store") /\ phase = "new"
  /\ phase' = "done" /\ error' = TRUE
  /\ UNCHANGED <<class, tags, timer, told, reported, refused, gone, dataVars>>

StoreStart(uidBased) ==
  Start("store", [uidBased |-> uidBased], [flags |-> <<>>, modSeqs |-> <<>>, unchanged |-> {}])

(* A server answers a UID STORE with the UID; only when it splits its      *)
(* answer does a FETCH come without FLAGS.                                 *)
StoreAnswer(id, flags, modSeq) ==
  Respond("store", [kind |-> "FETCH", id |-> id, modSeq |-> modSeq, flags |-> flags,
                    uid |-> IF request.uidBased THEN UidOf(id) ELSE Unset], StoreRead)

(* Somebody else changes a flag, and the server tells without the UID.     *)
StoreUnsolicited(id, flags) ==
  Respond("store", [kind |-> "FETCH", id |-> id, modSeq |-> Unset, flags |-> flags, uid |-> Unset],
          StoreRead)

StoreNext ==
  \/ StoreEmptySet
  \/ \E uidBased \in BOOLEAN : StoreStart(uidBased)
  \/ /\ Is("store") /\ phase = "running"
     /\ \E id \in Numbers, flags \in FlagSets :
          \/ \E modSeq \in Numbers \union {Unset} : StoreAnswer(id, flags, modSeq)
          \/ StoreUnsolicited(id, flags)
  \/ \E code \in Codes, modified \in SUBSET Numbers :
       Reply("store", code,
             IF modified # {} /\ code = "OK" THEN [kind |-> "MODIFIED", value |-> modified] ELSE NoCode,
             StoreRead)

-----------------------------------------------------------------------------
(* CopyJob and MoveJob: the third argument of COPYUID, which comes with    *)
(* the reply to COPY and before the reply to MOVE; a shorter code is not   *)
(* taken for one.                                                          *)
CopyRead(d, r) == IF r.kind = "COPYUID" /\ r.arguments = 3 THEN r.value ELSE d

(* ExpungeJob and CloseJob.                                                *)
ExpungeRead(d, r) ==
  CASE r.kind = "HIGHESTMODSEQ" -> [d EXCEPT !.highestModSeq = r.value]
    [] r.kind = "VANISHED" -> [d EXCEPT !.vanished = r.value]
    [] OTHER -> d

CopyCode(n, arguments) == [kind |-> "COPYUID", value |-> {n}, arguments |-> arguments]
ModSeqCode(n) == [kind |-> "HIGHESTMODSEQ", value |-> n]

CopyStart    == Start("copy", <<>>, {})
MoveStart    == Start("move", <<>>, {})
ExpungeStart == Start("expunge", <<>>, [vanished |-> {}, highestModSeq |-> Unset])
CloseStart   == Start("close", <<>>, [vanished |-> {}, highestModSeq |-> Unset])

CopyNext ==
  \/ CopyStart \/ MoveStart
  \/ \E n \in Numbers : IsFirst("move", "COPYUID") /\ Respond("move", CopyCode(n, 3), CopyRead)
  \/ \E c \in {"copy", "move"}, code \in Codes, n \in Numbers, arguments \in {2, 3} :
       Reply(c, code, IF code = "OK" THEN CopyCode(n, arguments) ELSE NoCode, CopyRead)

ExpungeNext ==
  \/ ExpungeStart \/ CloseStart
  \/ \E uids \in SUBSET Numbers :
       IsFirst("expunge", "VANISHED") /\ Respond("expunge", [kind |-> "VANISHED", value |-> uids], ExpungeRead)
  \/ \E n \in Numbers : Respond("expunge", [kind |-> "EXPUNGE", value |-> n], ExpungeRead)
  \/ \E c \in {"expunge", "close"}, code \in Codes, n \in Numbers : Reply(c, code, ModSeqCode(n), ExpungeRead)

-----------------------------------------------------------------------------
(* SearchJob: results and expunged messages pile up; a "+" is for a        *)
(* literal the term of a search never has.                                 *)
SearchRead(d, r) ==
  CASE r.kind = "SEARCH" -> [d EXCEPT !.results = @ \o [k \in DOMAIN r.value |-> ToInt(r.value[k])]]
    [] r.kind = "EXPUNGE" -> [d EXCEPT !.expunged = Append(@, ToInt(r.value))]
    [] r.kind = "+" -> [d EXCEPT !.nextContent = @ + 1]
    [] OTHER -> d

SearchStart(term) ==
  Start("search", [term |-> term],
        [sent |-> SearchKey(term), results |-> <<>>, expunged |-> <<>>, nextContent |-> 0])

SearchNext ==
  \/ \E term \in Terms : SearchStart(term)
  \/ \E s \in BoundedSeq(Numbers, 2) : Respond("search", [kind |-> "SEARCH", value |-> s], SearchRead)
  \/ \E n \in Numbers : Respond("search", [kind |-> "EXPUNGE", value |-> n], SearchRead)
  \/ Respond("search", [kind |-> "+"], SearchRead)
  \/ \E code \in Codes : Reply("search", code, NoCode, SearchRead)

MessageNext ==
  \/ AppendNext \/ StoreNext \/ CopyNext \/ ExpungeNext \/ SearchNext
  \/ \E c \in {"append", "store", "copy", "move", "expunge", "close", "search"} : Lost(c)

-----------------------------------------------------------------------------
(* The last value of this kind, or what it is before: a set of one.        *)
Final(kind, default) ==
  IF OfKind(kind) = {} THEN {default} ELSE {r.value : r \in LastOf(told, OfKind(kind))}

(* Whenever the application may ask, the numbers a job gives are those the *)
(* server gave: the UIDs of appended, copied and moved messages, the flags *)
(* under the right key, the messages that were changed by somebody else,   *)
(* and those that have vanished.                                           *)
NumbersAreKnown ==
  /\ Is("append") /\ phase # "new" => data.uid \in Final("APPENDUID", Unset)
  /\ Is("store") /\ phase # "new" /\ told # <<>> =>
       LET id(r) == IF request.uidBased THEN r.uid ELSE r.id
           about(key) == {r \in OfKind("FETCH") : id(r) = key}
           keys == {id(r) : r \in OfKind("FETCH")} \ {Unset}
           withModSeq(key) == {r \in about(key) : r.modSeq # Unset}
       IN /\ DOMAIN data.flags = keys
          /\ \A key \in keys : \E r \in LastOf(told, about(key)) : data.flags[key] \ {""} = r.flags
          /\ DOMAIN data.modSeqs = {key \in keys : withModSeq(key) # {}}
          /\ \A key \in DOMAIN data.modSeqs :
               \E r \in LastOf(told, withModSeq(key)) : data.modSeqs[key] = r.modSeq
          /\ data.unchanged \in Final("MODIFIED", {})
  /\ (Is("copy") \/ Is("move")) /\ phase # "new" =>
       LET whole == {r \in OfKind("COPYUID") : r.arguments = 3}
       IN IF whole = {} THEN data = {} ELSE \E r \in LastOf(told, whole) : data = r.value
  /\ (Is("expunge") \/ Is("close")) /\ phase # "new" =>
       /\ data.vanished = UNION {r.value : r \in OfKind("VANISHED")}
       /\ data.highestModSeq \in Final("HIGHESTMODSEQ", Unset)

ValuesOf(kind) == LET said == SelectSeq(told, LAMBDA r : r.kind = kind)
                  IN [k \in DOMAIN said |-> said[k].value]

(* The line that SearchJob sends says what its term means: the server, who *)
(* reads it by RFC 3501, finds for it the messages the term is true of,    *)
(* however its conditions are nested, joined and negated; and all that it  *)
(* finds, in one response or in several, is in the results in its order.   *)
SearchIsAsked ==
  Is("search") /\ phase # "new" =>
    /\ \A keys \in SUBSET KeysOf(request.term) :
         ReadSearch(data.sent, keys) = [found |-> Matches(request.term, keys), pos |-> Len(data.sent) + 1]
    /\ data.results = FlattenSeq(ValuesOf("SEARCH")) /\ data.expunged = ValuesOf("EXPUNGE")
=============================================================================
