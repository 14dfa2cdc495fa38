---------------------------- MODULE JobCommands ----------------------------
(***************************************************************************)
(* What an application sets of a job before the session starts it, and     *)
(* the commands that doStart() makes of it (src/src/*job.cpp).  start()    *)
(* only queues a job: what is set until doStart() counts.  What the jobs   *)
(* make of the answers is in the modules of their classes.                 *)
(***************************************************************************)
EXTENDS Integers, Sequences, SequencesExt, Functions

CONSTANTS CommandClasses, (* the classes of jobs of the instance            *)
          Names,          (* of mailboxes, users, roots and identifiers,    *)
                          (* and passwords                                  *)
          MailBoxSize,    (* messages 1 to MailBoxSize, each with the UID   *)
                          (* that follows its number                        *)
          Flags,          (* "Recent" among them                          *)
          Labels,
          ModSeqs,        (* modification sequences; 0 is none              *)
          Words           (* resources, entries, fields and data items      *)

VARIABLES class,          (* of the job                                     *)
          stage,          (* "new", "queued" by start(), or "sent"         *)
          settings,       (* what the application has set                  *)
          commands,       (* what doStart() has sent                       *)
          wanted          (* not in the code: what the calls of setQuota() *)
                          (* and addRequestedEntry() have asked for        *)

commandVars == <<class, stage, settings, commands, wanted>>

Ids == 1..MailBoxSize + 1
Texts == Names \union {""}

(* An argument between quotes; closed, if the second one is there.         *)
Quote(text) == [text |-> text, closed |-> TRUE]

-----------------------------------------------------------------------------
(* StoreJob.  An empty list asks for nothing, and \Recent is never sent.   *)
StoreMode == {"SetFlags", "AppendFlags", "RemoveFlags"}

StoreDefaults ==
  [set |-> {}, uidBased |-> FALSE, mode |-> "SetFlags", flags |-> {}, gmLabels |-> {}, lastModSeq |-> 0]

StoreSetters ==
  [set |-> SUBSET Ids, uidBased |-> BOOLEAN, mode |-> StoreMode,
   flags |-> SUBSET Flags, gmLabels |-> SUBSET Labels, lastModSeq |-> ModSeqs]

(* Mutant: the flag that only the server may set is sent.                  *)
AddAllFlags(param, mode, flags) ==
  [param |-> param, flags |-> flags,
   sign |-> CASE mode = "AppendFlags" -> "+" [] mode = "RemoveFlags" -> "-" [] OTHER -> ""]

AddFlags(param, mode, flags) ==
  [AddAllFlags(param, mode, flags) EXCEPT !.flags = flags \ {"Recent"}]

StoreCommand(s) ==
  IF s.set = {} THEN <<>>
  ELSE <<[verb |-> "STORE", uid |-> s.uidBased, set |-> s.set, unchangedSince |-> s.lastModSeq,
          items |-> (IF s.flags = {} THEN {} ELSE {AddFlags("FLAGS", s.mode, s.flags)})
                      \union (IF s.gmLabels = {} THEN {} ELSE {AddFlags("X-GM-LABELS", s.mode, s.gmLabels)})]>>

-----------------------------------------------------------------------------
(* CopyJob, MoveJob, FetchJob (its items are in FetchJob) and SearchJob.   *)
CopyDefaults == [mailBox |-> "", set |-> {}, uidBased |-> FALSE]
CopySetters  == [mailBox |-> Texts, set |-> SUBSET Ids, uidBased |-> BOOLEAN]
CopyCommand(s) == <<[verb |-> "COPY", uid |-> s.uidBased, set |-> s.set, mailBox |-> Quote(s.mailBox)]>>

MoveDefaults == [mailBox |-> "", set |-> {}, uidBased |-> FALSE]
MoveSetters  == [mailBox |-> Texts, set |-> SUBSET Ids, uidBased |-> BOOLEAN]
MoveCommand(s) == <<[verb |-> "MOVE", uid |-> s.uidBased, set |-> s.set, mailBox |-> Quote(s.mailBox)]>>

FetchDefaults == [set |-> {1}, uidBased |-> FALSE, scope |-> <<0, FALSE>>, gmailEnabled |-> FALSE]
FetchSetters ==
  [set |-> SUBSET Ids \ {{}}, uidBased |-> BOOLEAN, scope |-> ModSeqs \X BOOLEAN, gmailEnabled |-> BOOLEAN]
FetchCommand(s) ==
  <<[verb |-> "FETCH", uid |-> s.uidBased, set |-> s.set, gmail |-> s.gmailEnabled,
     changedSince |-> s.scope[1], vanished |-> s.scope[1] > 0 /\ s.scope[2]]>>

SearchDefaults == [charset |-> "", uidBased |-> FALSE]
SearchSetters  == [charset |-> Texts, uidBased |-> BOOLEAN]
(* No space follows the charset.                                           *)
SearchCommand(s) ==
  <<[verb |-> "SEARCH", uid |-> s.uidBased, charset |-> s.charset, separated |-> s.charset = ""]>>

-----------------------------------------------------------------------------
(* AppendJob.  The date is sent in UTC; size announces the content.        *)
AppendDefaults == [mailBox |-> "", flags |-> {}, internalDate |-> 0, content |-> 0]
AppendSetters  == [mailBox |-> Texts, flags |-> SUBSET Flags, internalDate |-> 0..1, content |-> 0..1]
AppendCommand(s) ==
  <<[verb |-> "APPEND", mailBox |-> Quote(s.mailBox), flags |-> s.flags \ {"Recent"},
     date |-> s.internalDate, size |-> s.content]>>

-----------------------------------------------------------------------------
(* SelectJob: setQResync() also enables CONDSTORE, which may be disabled   *)
(* again; without knowledge of the mailbox only CONDSTORE is asked for.    *)
NothingKnown == [lastUidvalidity |-> -1, lastModseq |-> 0, knownUids |-> {}]
SelectDefaults == [mailBox |-> "", readOnly |-> FALSE, condstoreEnabled |-> FALSE, qResync |-> NothingKnown]
SelectSetters == [mailBox |-> Texts, readOnly |-> BOOLEAN, condstoreEnabled |-> BOOLEAN]
Knowledge == [lastUidvalidity : {-1, 1}, lastModseq : ModSeqs, knownUids : SUBSET {1}]
SelectCommand(s) ==
  LET known == s.qResync
  IN <<[verb |-> IF s.readOnly THEN "EXAMINE" ELSE "SELECT", mailBox |-> Quote(s.mailBox),
        parameters |-> CASE ~s.condstoreEnabled -> <<>>
                         [] known.lastUidvalidity = -1 /\ known.lastModseq = 0 -> <<"CONDSTORE">>
                         [] OTHER -> <<"QRESYNC", known>>]>>

-----------------------------------------------------------------------------
(* ListJob.  A namespace is the name of a mailbox, perhaps followed by the *)
(* separator; a pattern matches one name, or all that begin with one.      *)
(* setReturnOptions() begins anew.                                         *)
ReturnOptions == {"SUBSCRIBED", "CHILDREN", "STATUS"}

Option == {"NoOption", "IncludeUnsubscribed", "IncludeFolderRoleFlags"}

ListDefaults == [option |-> "NoOption", listExtendedEnabled |-> FALSE, returnOptions |-> {}, namespaces |-> <<>>]
ListSetters ==
  [option |-> Option, listExtendedEnabled |-> BOOLEAN,
   returnOptions |-> SUBSET ReturnOptions,
   namespaces |-> BoundedSeq([name : Names, separated : BOOLEAN], 2)]

Verb(s) ==
  CASE s.option = "IncludeUnsubscribed" -> "LIST"
    [] s.option = "IncludeFolderRoleFlags" -> "XLIST"
    [] OTHER -> IF s.listExtendedEnabled THEN "LIST" ELSE "LSUB"

(* A namespace with its separator gives one pattern.                       *)
PatternsBelow(namespace) == <<[name |-> namespace.name, separated |-> namespace.separated, star |-> TRUE]>>

Patterns(namespace) ==
  (IF namespace.separated THEN <<[name |-> namespace.name, separated |-> FALSE, star |-> FALSE]>> ELSE <<>>)
    \o PatternsBelow(namespace)

ListCommands(s) ==
  LET command(patterns) ==
        [verb |-> Verb(s), patterns |-> patterns,
         subscribed |-> s.option = "NoOption" /\ s.listExtendedEnabled,
         return |-> IF s.listExtendedEnabled /\ Verb(s) = "LIST" THEN s.returnOptions ELSE {}]
      all == FlattenSeq([k \in DOMAIN s.namespaces |-> Patterns(s.namespaces[k])])
  IN CASE all = <<>> -> <<command(<<[name |-> "", separated |-> FALSE, star |-> TRUE]>>)>>
       [] all # <<>> /\ s.listExtendedEnabled -> <<command(all)>>
       [] OTHER -> [k \in DOMAIN all |-> command(<<all[k]>>)]

-----------------------------------------------------------------------------
(* The jobs that name one mailbox, or one root of quotas, and StatusJob,   *)
(* RenameJob, EnableJob and IdJob.  An ID without fields loses its         *)
(* opening parenthesis.                                                    *)
VerbOf == [create |-> "CREATE", delete |-> "DELETE", subscribe |-> "SUBSCRIBE", unsubscribe |-> "UNSUBSCRIBE",
           getacl |-> "GETACL", myrights |-> "MYRIGHTS", getquotaroot |-> "GETQUOTAROOT", getquota |-> "GETQUOTA"]

NamedDefaults == [mailBox |-> ""]
NamedSetters  == [mailBox |-> Texts]
NamedCommand(c, s) == <<[verb |-> VerbOf[c], mailBox |-> Quote(s.mailBox)]>>

StatusDefaults == [mailBox |-> "", dataItems |-> {}]
StatusSetters  == [mailBox |-> Texts, dataItems |-> SUBSET Words]
StatusCommand(s) == <<[verb |-> "STATUS", mailBox |-> Quote(s.mailBox), dataItems |-> s.dataItems]>>

RenameDefaults == [sourceMailBox |-> "", destinationMailBox |-> ""]
RenameSetters  == [sourceMailBox |-> Texts, destinationMailBox |-> Texts]
RenameCommand(s) ==
  <<[verb |-> "RENAME", mailBox |-> Quote(s.sourceMailBox), to |-> Quote(s.destinationMailBox)]>>

EnableDefaults == [reqCapabilities |-> {}]
EnableSetters  == [reqCapabilities |-> SUBSET Words]
EnableCommand(s) == <<[verb |-> "ENABLE", capabilities |-> s.reqCapabilities]>>

IdDefaults == [fields |-> <<>>]
SetField(s, name, value) == [s EXCEPT !.fields = (name :> value) @@ @]
IdCommand(s) == <<[verb |-> "ID", fields |-> s.fields, opened |-> DOMAIN s.fields # {}]>>

-----------------------------------------------------------------------------
(* SetQuotaJob: a resource is known by its name in upper case, whichever   *)
(* case the application wrote.                                             *)
SetQuotaDefaults == [root |-> "", setList |-> <<>>]
SetQuotaSetters  == [root |-> Texts]
Resources == Words \X {"upper", "lower"}
ToUpper(resource) == <<resource[1], "upper">>
SetQuotaOf(s, resource, limit) == [s EXCEPT !.setList = (ToUpper(resource) :> limit) @@ @]
SetQuotaCommand(s) == <<[verb |-> "SETQUOTA", root |-> Quote(s.root), setList |-> s.setList]>>

(* ListRightsJob and DeleteAclJob, which forgets a quotation mark.         *)
AclDefaults == [mailBox |-> "", id |-> ""]
AclSetters  == [mailBox |-> Texts, id |-> Texts]
ListRightsCommand(s) == <<[verb |-> "LISTRIGHTS", mailBox |-> Quote(s.mailBox), id |-> Quote(s.id)]>>
DeleteAclCommand(s) ==
  <<[verb |-> "DELETEACL", mailBox |-> Quote(s.mailBox), id |-> [text |-> s.id, closed |-> FALSE]]>>

(* GetMetaDataJob: a depth and a size are asked for with METADATA only,    *)
(* where an entry has no attribute.                                        *)
ServerCapability == {"Metadata", "Annotatemore"}
Depth == {"0", "1", "infinity"}

GetMetaDefaults ==
  [mailBox |-> "", serverCapability |-> "Metadata", depth |-> "0", maxSize |-> -1, entries |-> {}, attributes |-> {}]
GetMetaSetters ==
  [mailBox |-> Texts, serverCapability |-> ServerCapability,
   depth |-> Depth, maxSize |-> {-1, 1}]
AddRequestedEntry(s, scope, word) ==
  LET annotation == s.serverCapability = "Annotatemore"
  IN [s EXCEPT !.entries = @ \union {<<IF annotation THEN "" ELSE scope, word>>},
               !.attributes = @ \union {IF annotation THEN scope ELSE ""}]
GetMetaCommand(s) ==
  IF s.serverCapability = "Annotatemore"
  THEN <<[verb |-> "GETANNOTATION", mailBox |-> Quote(s.mailBox), entries |-> s.entries, attributes |-> s.attributes]>>
  ELSE <<[verb |-> "GETMETADATA", mailBox |-> Quote(s.mailBox), entries |-> s.entries,
          depth |-> s.depth, maxSize |-> s.maxSize]>>

-----------------------------------------------------------------------------
(* LoginJob: the mechanism of each mode.  NTLM has none, as if the mode    *)
(* were ClearText.                                                         *)
AuthenticationModes ==
  [ClearText |-> "", Login |-> "LOGIN", Plain |-> "PLAIN", CramMD5 |-> "CRAM-MD5", DigestMD5 |-> "DIGEST-MD5",
   NTLM |-> "", GSSAPI |-> "GSSAPI", Anonymous |-> "ANONYMOUS", XOAuth2 |-> "XOAUTH2"]

LoginDefaults == [userName |-> "", authorizationName |-> "", password |-> "", authMode |-> ""]
LoginSetters ==
  [userName |-> Texts, authorizationName |-> Texts, password |-> Texts, authMode |-> Range(AuthenticationModes)]

Exchange(mechanism, as, by, password) ==
  <<[verb |-> "LOGIN", mechanism |-> mechanism, as |-> as, by |-> by, password |-> password]>>

Or(text, default) == IF text = "" THEN default ELSE text

(* handleResponse(): the answer of PLAIN is the name to act as, the name   *)
(* the password belongs to, and the password.                              *)
PlainExchange(s) == Exchange("PLAIN", Or(s.authorizationName, s.userName), s.userName, s.password)

(* sasl_interact(): what the SASL library, external, is told.  AUTHNAME is *)
(* the name the password belongs to, USER the name to act as.              *)
SaslExchange(s) == Exchange(s.authMode, s.userName, Or(s.authorizationName, s.userName), s.password)

(* The library makes the first answer if the server knows SASL-IR; for     *)
(* PLAIN that is the whole exchange.                                       *)
LoginExchange(s, saslIr) ==
  CASE s.authMode = "" -> Exchange("", s.userName, s.userName, s.password)
    [] s.authMode = "PLAIN" /\ ~saslIr -> PlainExchange(s)
    [] OTHER -> SaslExchange(s)

-----------------------------------------------------------------------------
Defaults(c) ==
  CASE c = "store" -> StoreDefaults [] c = "copy" -> CopyDefaults [] c = "move" -> MoveDefaults
    [] c = "fetch" -> FetchDefaults [] c = "search" -> SearchDefaults [] c = "append" -> AppendDefaults
    [] c = "select" -> SelectDefaults [] c = "list" -> ListDefaults [] c = "login" -> LoginDefaults
    [] c = "status" -> StatusDefaults [] c = "rename" -> RenameDefaults [] c = "enable" -> EnableDefaults
    [] c = "id" -> IdDefaults [] c = "setquota" -> SetQuotaDefaults [] c = "getmetadata" -> GetMetaDefaults
    [] c \in {"listrights", "deleteacl"} -> AclDefaults
    [] c \in DOMAIN VerbOf -> NamedDefaults

(* What each setter that only keeps its argument may be given.             *)
Setters(c) ==
  CASE c = "store" -> StoreSetters [] c = "copy" -> CopySetters [] c = "move" -> MoveSetters
    [] c = "fetch" -> FetchSetters [] c = "search" -> SearchSetters [] c = "append" -> AppendSetters
    [] c = "select" -> SelectSetters [] c = "list" -> ListSetters [] c = "login" -> LoginSetters
    [] c = "status" -> StatusSetters [] c = "rename" -> RenameSetters [] c = "enable" -> EnableSetters
    [] c = "id" -> <<>> [] c = "setquota" -> SetQuotaSetters [] c = "getmetadata" -> GetMetaSetters
    [] c \in {"listrights", "deleteacl"} -> AclSetters
    [] c \in DOMAIN VerbOf -> NamedSetters

(* The commands that doStart(), or the login, sends.                       *)
Commands(c, s) ==
  CASE c = "store" -> StoreCommand(s) [] c = "copy" -> CopyCommand(s) [] c = "move" -> MoveCommand(s)
    [] c = "fetch" -> FetchCommand(s) [] c = "search" -> SearchCommand(s) [] c = "append" -> AppendCommand(s)
    [] c = "select" -> SelectCommand(s) [] c = "list" -> ListCommands(s)
    [] c = "status" -> StatusCommand(s) [] c = "rename" -> RenameCommand(s) [] c = "enable" -> EnableCommand(s)
    [] c = "id" -> IdCommand(s) [] c = "setquota" -> SetQuotaCommand(s) [] c = "getmetadata" -> GetMetaCommand(s)
    [] c = "listrights" -> ListRightsCommand(s) [] c = "deleteacl" -> DeleteAclCommand(s)
    [] c \in DOMAIN VerbOf -> NamedCommand(c, s)

CommandInit ==
  /\ class \in CommandClasses
  /\ stage = "new" /\ settings = Defaults(class) /\ commands = <<>> /\ wanted = <<>>

Set(s, w) == stage # "sent" /\ settings' = s /\ wanted' = w /\ UNCHANGED <<class, stage, commands>>

SetOne ==
  \E name \in DOMAIN Setters(class) : \E value \in Setters(class)[name] :
    Set([settings EXCEPT ![name] = value], wanted)

(* The setters that do more than that.                                     *)
SetQResync ==
  class = "select" /\ \E value \in Knowledge :
    Set([settings EXCEPT !.qResync = value, !.condstoreEnabled = TRUE], wanted)

(* wanted: the limit of a resource, whichever way its name was written.    *)
SetQuota ==
  class = "setquota" /\ \E resource \in Resources, limit \in 0..1 :
    Set(SetQuotaOf(settings, resource, limit), (resource[1] :> limit) @@ wanted)

SetIdField == class = "id" /\ \E name \in Words, value \in Texts : Set(SetField(settings, name, value), wanted)

(* wanted: the dialects that were set when the entry was requested.        *)
RequestEntry ==
  class = "getmetadata" /\ \E scope \in {"/shared", "/private"}, word \in Words :
    LET entry == <<scope, word>>
        before == IF entry \in DOMAIN wanted THEN wanted[entry] ELSE {}
    IN Set(AddRequestedEntry(settings, scope, word),
           (entry :> before \union {settings.serverCapability}) @@ wanted)

(* start() queues the job, the session starts it later.                    *)
Queue == stage = "new" /\ stage' = "queued" /\ UNCHANGED <<class, settings, commands, wanted>>

DoStart ==
  /\ stage = "queued" /\ stage' = "sent"
  /\ IF class = "login" THEN \E saslIr \in BOOLEAN : commands' = LoginExchange(settings, saslIr)
     ELSE commands' = Commands(class, settings)
  /\ UNCHANGED <<class, settings, wanted>>

CommandNext == SetOne \/ SetQResync \/ SetQuota \/ SetIdField \/ RequestEntry \/ Queue \/ DoStart

CommandSpec == CommandInit /\ [][CommandNext]_commandVars

-----------------------------------------------------------------------------
(* External: what a server makes of a command.                             *)
Reached(command, n) == (IF command.uid THEN n + 1 ELSE n) \in command.set

Change(sign, old, listed) ==
  CASE sign = "+" -> old \union listed [] sign = "-" -> old \ listed [] OTHER -> listed

Stored(command, n, modSeq, param, old) ==
  LET about == {item \in command.items : item.param = param}
      passed == command.unchangedSince = 0 \/ modSeq <= command.unchangedSince
  IN IF about = {} \/ ~Reached(command, n) \/ ~passed THEN old
     ELSE LET item == CHOOSE item \in about : TRUE IN Change(item.sign, old, item.flags)

(* A mailbox: one of Names, below one, or called like one but longer.      *)
MailBoxes == [name : Names, place : {"itself", "below", "beside"}]

Matches(pattern, box) ==
  \/ pattern.name = ""
  \/ /\ pattern.name = box.name
     /\ CASE ~pattern.star -> box.place = "itself"
          [] pattern.star /\ pattern.separated -> box.place = "below"
          [] OTHER -> TRUE

Listed(command) == {box \in MailBoxes : \E k \in DOMAIN command.patterns : Matches(command.patterns[k], box)}

(* The limits a server reads for a resource, of whose name case does not   *)
(* matter, and the entries it is asked for: in ANNOTATEMORE every          *)
(* combination of an entry and an attribute.                               *)
Limits(command, word) ==
  {command.setList[resource] : resource \in {r \in DOMAIN command.setList : r[1] = word}}

Requested(command) ==
  IF command.verb = "GETMETADATA" THEN command.entries
  ELSE {<<attribute, entry[2]>> : attribute \in command.attributes, entry \in command.entries}

(* What the grammars of the RFCs accept: closed quotes, lists that may not *)
(* be empty, VANISHED with UIDs only (RFC 7162), numbers where QRESYNC     *)
(* needs them, a list of fields that opens, and words apart.               *)
Quotes(command) == {command[name] : name \in DOMAIN command \intersect {"mailBox", "to", "root", "id"}}
Lists == {"set", "items", "dataItems", "capabilities", "entries", "attributes"}

Legible(command) ==
  /\ \A argument \in Quotes(command) : argument.closed
  /\ \A name \in DOMAIN command \intersect Lists : command[name] # {}
  /\ command.verb = "FETCH" /\ command.vanished => command.uid /\ command.changedSince > 0
  /\ command.verb \in {"SELECT", "EXAMINE"} /\ Len(command.parameters) = 2 =>
       command.parameters[2].lastUidvalidity > 0 /\ command.parameters[2].lastModseq > 0
  /\ command.verb = "ID" => command.opened
  /\ command.verb = "SEARCH" => command.separated

-----------------------------------------------------------------------------
(* STORE changes the flags and labels of the messages that were set, in    *)
(* the way that was set, unless they have changed since, and nothing else. *)
StoreIsMeant ==
  \A n \in 1..MailBoxSize, modSeq \in ModSeqs :
    LET meant(asked, old) ==
          CASE asked = {} \/ (IF settings.uidBased THEN n + 1 ELSE n) \notin settings.set -> old
            [] settings.lastModSeq \in 1..modSeq - 1 -> old
            [] settings.mode = "AppendFlags" -> old \union (asked \ {"Recent"})
            [] settings.mode = "RemoveFlags" -> old \ asked
            [] OTHER -> asked \ {"Recent"}
        stored(param, old) == IF commands = <<>> THEN old ELSE Stored(commands[1], n, modSeq, param, old)
    IN /\ \A old \in SUBSET (Flags \ {"Recent"}) : stored("FLAGS", old) = meant(settings.flags, old)
       /\ \A old \in SUBSET Labels : stored("X-GM-LABELS", old) = meant(settings.gmLabels, old)

(* The mailboxes that are listed are those of the namespaces, or all: the  *)
(* one that a namespace with its separator names, and those below it, but  *)
(* not the others whose names begin alike.  Only NoOption leaves out those *)
(* that are not subscribed.                                                *)
ListIsMeant ==
  LET meant == IF settings.namespaces = <<>> THEN MailBoxes
               ELSE {box \in MailBoxes : \E space \in Range(settings.namespaces) :
                       space.name = box.name /\ (space.separated => box.place # "beside")}
  IN /\ UNION {Listed(command) : command \in Range(commands)} = meant
     /\ \A command \in Range(commands) :
          (settings.option = "NoOption") <=> (command.subscribed \/ command.verb = "LSUB")

(* Without a name to act as, the user acts as such with their password.    *)
LoginIsMeant ==
  settings.authorizationName = "" =>
    /\ commands[1].as = settings.userName /\ commands[1].by = settings.userName
    /\ commands[1].password = settings.password

(* Each resource gets the limit of the last call for it, in upper or lower *)
(* case, and only those with a call get one.                               *)
QuotaIsMeant ==
  \A word \in Words :
    Limits(commands[1], word) = IF word \in DOMAIN wanted THEN {wanted[word]} ELSE {}

(* If the dialect was not changed after an entry was requested, METADATA   *)
(* is asked for the entries requested and no others, and ANNOTATEMORE for  *)
(* all combinations of their names and scopes.                             *)
EntriesAreMeant ==
  (\A entry \in DOMAIN wanted : wanted[entry] = {settings.serverCapability}) =>
    Requested(commands[1]) =
      IF settings.serverCapability = "Metadata" THEN DOMAIN wanted
      ELSE {<<e[1], f[2]>> : e, f \in DOMAIN wanted}

(* What the application has to set of a job: the lists a command cannot do *)
(* without, and by fetchjob.h:172 UIDs for QRESYNC.  Both numbers of       *)
(* setQResync() belong together.                                           *)
Complete ==
  /\ \A name \in DOMAIN settings \intersect {"set", "dataItems", "reqCapabilities", "entries"} : settings[name] # {}
  /\ class = "store" => settings.flags # {} \/ settings.gmLabels # {}
  /\ class = "id" => DOMAIN settings.fields # {}
  /\ class = "fetch" /\ settings.scope[2] => settings.uidBased
  /\ class = "select" => (settings.qResync.lastUidvalidity = -1 <=> settings.qResync.lastModseq = 0)

(* DELETEACL and SEARCH with a charset are not legible: a quote is not     *)
(* closed (deleteacljob.cpp:45), a space is missing (searchjob.cpp:288).   *)
LegibleByItself == class # "deleteacl" /\ (class = "search" => settings.charset = "")

CommandsAreLegible ==
  Complete /\ LegibleByItself => commands # <<>> /\ \A command \in Range(commands) : Legible(command)

(* Whichever setters the application used in which order, before and after *)
(* start(): what a server that follows the RFCs makes of STORE, LIST,      *)
(* SETQUOTA and the requests for metadata is what the setters add up to,   *)
(* and a login is of the user that was set; of the other classes, that     *)
(* the commands are ones which such a server can read, if nothing that     *)
(* they cannot do without was left out.                                    *)
CommandIsMeant ==
  stage = "sent" =>
    /\ class = "store" => StoreIsMeant
    /\ class = "list" => ListIsMeant
    /\ class = "setquota" => QuotaIsMeant
    /\ class = "getmetadata" => EntriesAreMeant
    /\ class = "login" => LoginIsMeant
    /\ class # "login" => CommandsAreLegible
=============================================================================
