---------------------------- MODULE MetaDataJobs ----------------------------
(***************************************************************************)
(* SetMetaDataJob and GetMetaDataJob (src/src/*metadatajob.cpp,            *)
(* metadatajobbase.cpp), for METADATA and for its predecessor              *)
(* ANNOTATEMORE, which keeps two attributes of an entry where METADATA has *)
(* two entries.                                                            *)
(***************************************************************************)
EXTENDS DataJob

CONSTANTS Names,          (* the names of entries, without their prefix     *)
          MetaValues,     (* "" (no value), "lines", which spans lines, and *)
                          (* values of one line                             *)
          EmptyAmongLines,(* whether an empty value may be set together     *)
                          (* with one that spans lines                      *)
          SeveralNames    (* whether ANNOTATEMORE may set several entries   *)

VARIABLES capability,     (* serverCapability                               *)
          entriesIt,      (* the entry whose value is sent next             *)
          stored          (* external: what the server keeps, by entry      *)

metaVars == <<capability, entriesIt, stored>>

Annotatemore == capability = "Annotatemore"

(* An entry as an application names it: the prefix and the rest.           *)
Scopes == {"/shared", "/private"}
Entries == Scopes \X Names

MetaInit ==
  LET ours == class \in {"setmetadata", "getmetadata"}
  IN /\ capability \in IF ours THEN {"Metadata", "Annotatemore"} ELSE {"Metadata"}
     /\ stored \in [Entries -> IF ours THEN MetaValues \ {"lines"} ELSE {""}]
     /\ entriesIt = 1

-----------------------------------------------------------------------------
(* metadatajobbase.cpp                                                     *)
RemovePrefix(entry) == IF Annotatemore THEN <<"", entry[2]>> ELSE entry

GetAttribute(entry) ==
  IF ~Annotatemore THEN ""
  ELSE IF entry[1] = "/shared" THEN "value.shared" ELSE "value.priv"

AddPrefix(entry, attribute) ==
  CASE Annotatemore /\ attribute = "value.shared" -> <<"/shared", entry[2]>>
    [] Annotatemore /\ attribute = "value.priv"   -> <<"/private", entry[2]>>
    [] OTHER -> entry

-----------------------------------------------------------------------------
(* SetMetaDataJob.  addMetaData(): ANNOTATEMORE keeps the values by        *)
(* attribute, and one name for all of them.                                *)
KeyOfEntry(entry) == IF Annotatemore THEN GetAttribute(entry) ELSE entry

(* Mutant: the first value that is given for an entry stays.               *)
AddMetaDataOnce(d, call) ==
  [entries |-> IF KeyOfEntry(call.entry) \in DOMAIN d.entries THEN d.entries
               ELSE Inserted(d.entries, KeyOfEntry(call.entry), call.value),
   entryName |-> RemovePrefix(call.entry)]

AddMetaData(d, call) ==
  [entries |-> Inserted(d.entries, KeyOfEntry(call.entry), call.value),
   entryName |-> RemovePrefix(call.entry)]

(* The order of a QMap, which is some order of its keys.                   *)
Keys(entries) == SetToSeq(DOMAIN entries)

SpansLines(entries) == "lines" \in Range(entries)

(* doStart(): one command with every value, or the announcement of the     *)
(* first of a chain of literals.                                           *)
InLiterals(d) == ~Annotatemore /\ SpansLines(d.entries)

(* A value on the wire: NIL is no value, but {3} NIL is the text.          *)
NilAsText(value) == IF value = "" THEN "NIL" ELSE value
Quoted(value) == value
Literal(value) == NilAsText(value)

(* External: which entry the server takes a value for, and what it stores  *)
(* when it gets all values in one command, or one in a literal.            *)
IsGiven(d, entry) ==
  KeyOfEntry(entry) \in DOMAIN d.entries /\ (Annotatemore => RemovePrefix(entry) = d.entryName)

StoreAll(server, d) ==
  [entry \in Entries |-> IF IsGiven(d, entry) THEN Quoted(d.entries[KeyOfEntry(entry)]) ELSE server[entry]]

Store(server, entry, value) == [server EXCEPT ![entry] = value]

(* What an application may set with one job.                               *)
MaySet(calls) ==
  /\ {"", "lines"} \subseteq {call.value : call \in Range(calls)} => EmptyAmongLines
  /\ Annotatemore /\ ~SeveralNames => \A one, other \in Range(calls) : one.entry[2] = other.entry[2]

NoMetaData == [entries |-> <<>>, entryName |-> <<>>]

(* Until it starts, request is the calls of addMetaData() and data the     *)
(* fields they set.                                                        *)
AddEntry ==
  /\ Is("setmetadata") /\ phase = "new" /\ Len(request) < MaxCalls
  /\ \E call \in [entry : Entries, value : MetaValues] :
       /\ request' = Append(request, call) /\ MaySet(request')
       /\ data' = AddMetaData(IF request = <<>> THEN NoMetaData ELSE data, call)
  /\ UNCHANGED <<jobVars, metaVars>>

SetStart ==
  /\ Is("setmetadata") /\ phase = "new" /\ request # <<>>
  /\ Start("setmetadata", [calls |-> request, before |-> stored, job |-> data], {})
  /\ stored' = IF InLiterals(data) THEN stored ELSE StoreAll(stored, data)
  /\ entriesIt' = 1
  /\ UNCHANGED capability

(* "+": the value that was announced, and the announcement of the next.    *)
SetContinue ==
  /\ Is("setmetadata") /\ phase = "running" /\ InLiterals(request.job)
  /\ entriesIt <= Len(Keys(request.job.entries))
  /\ LET key == Keys(request.job.entries)[entriesIt]
     IN stored' = Store(stored, key, Literal(request.job.entries[key]))
  /\ entriesIt' = entriesIt + 1
  /\ UNCHANGED <<jobVars, dataVars, capability>>

(* handleResponse(): a NO is looked at for its reason in the text that     *)
(* follows it, where the parser never leaves a response code; the job ends *)
(* without removing the tag.                                               *)
ErrorsOf(text) ==
  CASE text = "[METADATA TOOMANY]" -> {"TooMany"}
    [] text = "[METADATA MAXSIZE]" -> {"TooBig"}
    [] text = "[METADATA NOPRIVATE]" -> {"NoPrivate"}
    [] OTHER -> {}

(* Once everything was sent, or at the first literal, the server replies.  *)
SetReply(code, reason) ==
  /\ Is("setmetadata") /\ phase = "running"
  /\ code = "OK" /\ InLiterals(request.job) => entriesIt > Len(Keys(request.job.entries))
  /\ phase' = "done"
  /\ error' = ErrorAfter(1, code) /\ refused' = (code # "OK")
  /\ data' = data \union (IF code = "NO" THEN ErrorsOf("text") ELSE {})
  /\ told' = Append(told, [kind |-> reason, code |-> code])
  /\ stored' = IF code = "OK" THEN stored ELSE request.before
  /\ UNCHANGED <<class, tags, timer, reported, gone, request, capability, entriesIt>>

-----------------------------------------------------------------------------
(* GetMetaDataJob.  addRequestedEntry() and doStart(): every combination   *)
(* of the names and the attributes is asked for.                           *)
Asked(entries) == {AddPrefix(RemovePrefix(e), GetAttribute(f)) : e, f \in entries}

(* Mutant: shared and private values of an entry are not told apart.       *)
ReadUnderName(d, r) == Inserted(d, <<RemovePrefix(r.entry), "">>, r.value)

(* handleResponse(): a value, by entry and attribute.  Only the branch of  *)
(* METADATA looks for NIL, which leaves there what is there; that of       *)
(* ANNOTATEMORE keeps it as a text.                                        *)
GetRead(d, r) ==
  LET key == <<RemovePrefix(r.entry), GetAttribute(r.entry)>>
  IN CASE r.kind # "METADATA" -> d
       [] r.kind = "METADATA" /\ Annotatemore -> Inserted(d, key, NilAsText(r.value))
       [] OTHER -> IF r.value = "" /\ key \in DOMAIN d THEN d ELSE Inserted(d, key, r.value)

(* metaData() and allMetaData()                                            *)
MetaData(entry) ==
  LET key == <<RemovePrefix(entry), GetAttribute(entry)>>
  IN IF key \in DOMAIN data THEN data[key] ELSE ""

AllMetaData ==
  [entry \in {AddPrefix(key[1], key[2]) : key \in DOMAIN data} |->
     data[CHOOSE key \in DOMAIN data : AddPrefix(key[1], key[2]) = entry]]

GetNext ==
  \/ \E entries \in SUBSET Entries :
       entries # {} /\ Start("getmetadata", entries, <<>>) /\ UNCHANGED metaVars
  \/ /\ Is("getmetadata") /\ phase = "running"
     /\ \E entry \in Asked(request) :
          /\ [kind |-> "METADATA", entry |-> entry, value |-> stored[entry]] \notin Range(told)
          /\ Respond("getmetadata", [kind |-> "METADATA", entry |-> entry, value |-> stored[entry]], GetRead)
          /\ UNCHANGED metaVars
  \/ /\ Is("getmetadata") /\ phase = "running"
     /\ \E code \in Codes :
          /\ code = "OK" => \A entry \in Asked(request) : stored[entry] # "" => \E r \in Range(told) : r.entry = entry
          /\ Reply("getmetadata", code, [kind |-> code], Ignored)
          /\ UNCHANGED metaVars

MetaNext ==
  \/ AddEntry \/ SetStart \/ SetContinue
  \/ \E code \in Codes \ {"malformed"}, reason \in {"none", "TOOMANY"} :
       (reason = "TOOMANY" => code = "NO") /\ SetReply(code, reason)
  \/ GetNext
  \/ \E c \in {"setmetadata", "getmetadata"} : Lost(c) /\ UNCHANGED metaVars

-----------------------------------------------------------------------------
(* After a SETMETADATA that the server accepted every entry has the value  *)
(* of the last call for it, and the others are as they were.               *)
MetaDataIsSet ==
  Is("setmetadata") /\ Succeeded =>
    \A entry \in Entries :
      LET calls == {call \in Range(request.calls) : call.entry = entry}
      IN IF calls = {} THEN stored[entry] = request.before[entry]
         ELSE \E call \in LastOf(request.calls, calls) : stored[entry] = call.value

(* After a GETMETADATA that succeeded every entry that was asked for has   *)
(* the value it has on the server, by its own name and in the whole list,  *)
(* but for one: in ANNOTATEMORE an entry without a value that the server   *)
(* names is known as the text NIL (getmetadatajob.cpp:138).                *)
TakenForText(entry) ==
  Annotatemore /\ stored[entry] = "" /\ \E r \in OfKind("METADATA") : r.entry = entry

MetaDataIsKnown ==
  Is("getmetadata") /\ Succeeded /\ Last(told).kind = "OK" =>
    LET known(entry) == IF TakenForText(entry) THEN "NIL" ELSE stored[entry]
    IN /\ \A entry \in request : MetaData(entry) = known(entry)
       /\ \A entry \in DOMAIN AllMetaData : AllMetaData[entry] = known(entry)
=============================================================================
