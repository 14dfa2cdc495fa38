----------------------------- MODULE ServerJobs -----------------------------
(***************************************************************************)
(* The jobs about the server and its mailboxes: CapabilitiesJob,           *)
(* EnableJob, IdJob, NamespaceJob, StatusJob, CreateJob, DeleteJob,        *)
(* RenameJob, SubscribeJob and UnsubscribeJob (src/src/*job.cpp).          *)
(***************************************************************************)
EXTENDS DataJob, RfcCodecs

CONSTANTS Capabilities,   (* what a server may list, among it IMAP4REV2,    *)
                          (* QRESYNC, CONDSTORE, LITERAL+ and LITERAL-      *)
          FoldedIn,       (* what IMAP4rev2 includes                        *)
          NamespaceItems  (* the namespaces a server may have, [name,       *)
                          (* parts]: parts is how many could be parsed      *)

ASSUME FoldedInAssumption ==
  FoldedIn \intersect {"IMAP4REV2", "QRESYNC", "LITERAL+", "LITERAL-"} = {}

NamingJobs == {"rename", "subscribe", "unsubscribe"}
PlainServerJobs == {"id"} \union NamingJobs

-----------------------------------------------------------------------------
(* Mutant: CONDSTORE only if the server says so.                           *)
ImpliedByRev2(said) ==
  IF "IMAP4REV2" \in said
  THEN FoldedIn \union (IF {"LITERAL+", "LITERAL-"} \intersect said = {} THEN {"LITERAL-"} ELSE {})
  ELSE {}

(* CapabilitiesJob: what is implied is added, and of the two LITERALs only *)
(* one.                                                                    *)
Implied(said) ==
  ImpliedByRev2(said) \union (IF "QRESYNC" \in said THEN {"CONDSTORE"} ELSE {})

CapabilityRead(d, r) == IF r.kind = "CAPABILITY" THEN d \union r.value \union Implied(r.value) ELSE d

(* EnableJob takes every untagged response for ENABLED.                    *)
EnableRead(d, r) == IF r.kind \in {"ENABLED", "EXISTS"} THEN d \union r.value ELSE d

(* NamespaceJob: an item that cannot be parsed, or has no separator, is    *)
(* left out.  The order of the others is, too.                             *)
ProcessNamespaceList(items) == {item \in Range(items) : item.parts >= 2}

NamespaceRead(d, r) ==
  IF r.kind = "NAMESPACE"
  THEN [personal |-> ProcessNamespaceList(r.personal),
        user |-> ProcessNamespaceList(r.user),
        shared |-> ProcessNamespaceList(r.shared)]
  ELSE d

ContainsEmptyNamespace(d) == \E item \in d.personal \union d.user \union d.shared : item.name = ""

StatusRead(d, r) == IF r.kind = "STATUS" THEN d \o r.value ELSE d

-----------------------------------------------------------------------------
(* The names go into the command; rename has two of them.                  *)
NamedStart(c, names) ==
  Start(c, [mailBoxes |-> names], [k \in DOMAIN names |-> encodeImapFolderName(Utf8(names[k]), Utf8Enabled)])

SubscribeStart    == \E name \in FolderNames : NamedStart("subscribe", <<name>>)
UnsubscribeStart  == \E name \in FolderNames : NamedStart("unsubscribe", <<name>>)
RenameStart       == \E name \in FolderNames : NamedStart("rename", <<name, Reverse(name)>>)

IdStart           == Start("id", <<>>, <<>>)
CapabilitiesStart == Start("capabilities", <<>>, {})
EnableStart       == Start("enable", <<>>, {})
NamespaceStart    == Start("namespace", <<>>, [personal |-> {}, user |-> {}, shared |-> {}])
StatusStart       == Start("status", <<>>, <<>>)

(* exists is not known to the job (external).                              *)
CreateStart       == \E exists \in BOOLEAN : Start("create", [exists |-> exists], <<>>)
DeleteStart       == \E exists \in BOOLEAN : Start("delete", [exists |-> exists], <<>>)

ServerStart ==
  \/ SubscribeStart \/ UnsubscribeStart \/ RenameStart \/ CreateStart \/ DeleteStart
  \/ IdStart \/ CapabilitiesStart \/ EnableStart \/ NamespaceStart \/ StatusStart

(* Several namespaces of a kind, which are read alike, as personal ones.   *)
SomeNamespaces(max) == BoundedSeq(NamespaceItems, max)

ServerResponse ==
  \/ \E some \in SUBSET Capabilities :
       IsFirst("capabilities", "CAPABILITY") /\ Respond("capabilities", [kind |-> "CAPABILITY", value |-> some], CapabilityRead)
  \/ \E some \in SUBSET Capabilities : Respond("enable", [kind |-> "ENABLED", value |-> some], EnableRead)
  \/ /\ "unsolicited" \in Liberties
     /\ Respond("enable", [kind |-> "EXISTS", value |-> {"EXISTS"}], EnableRead)
  \/ \E personal \in SomeNamespaces(2), user, shared \in SomeNamespaces(1) :
       /\ IsFirst("namespace", "NAMESPACE")
       /\ Respond("namespace", [kind |-> "NAMESPACE", personal |-> personal, user |-> user, shared |-> shared],
                  NamespaceRead)
  \/ \E n, m \in 0..1 :
       Respond("status", [kind |-> "STATUS", value |-> <<<<"MESSAGES", n>>, <<"UNSEEN", m>>>>], StatusRead)
  \/ Respond("status", [kind |-> "OK"], StatusRead)

ServerReply ==
  \E c \in PlainServerJobs \union {"capabilities", "enable", "namespace", "status"}, code \in Codes :
    Reply(c, code, NoCode, Ignored)

(* Mutant: every refusal of a CREATE or DELETE is forgiven.                *)
ForgivenAll(c, r) == TRUE

(* CreateJob and DeleteJob: to find done what was asked for is a success.  *)
AlreadyThere(r) == r.kind = "ALREADYEXISTS"
AlreadyGone(r)  == r.kind = "NONEXISTENT"
Forgiven(c, r)  == IF c = "create" THEN AlreadyThere(r) ELSE AlreadyGone(r)

(* External: a server refuses to create what exists and to delete what     *)
(* does not, and may refuse anything; not all give a reason.               *)
MayAnswer(c, code, r) ==
  LET idle == request.exists = (c = "create")
  IN /\ idle => code # "OK"
     /\ r.kind \in {"ALREADYEXISTS", "NONEXISTENT"} => idle /\ code = "NO" /\ Forgiven(c, r)

MailBoxReply(c, code, r) ==
  /\ Is(c) /\ phase = "running" /\ MayAnswer(c, code, r)
  /\ \E tag \in tags : HandleErrorReplies(tag, IF code = "NO" /\ Forgiven(c, r) THEN "OK" ELSE code)
  /\ told' = Append(told, [kind |-> r.kind, code |-> code])
  /\ UNCHANGED <<timer, reported, dataVars>>

ServerNext ==
  \/ ServerStart \/ ServerResponse \/ ServerReply
  \/ \E c \in {"create", "delete"}, code \in Codes, reason \in {"none", "ALREADYEXISTS", "NONEXISTENT", "NOPERM"} :
       MailBoxReply(c, code, [kind |-> reason])
  \/ \E c \in PlainServerJobs \union {"capabilities", "enable", "namespace", "status", "create", "delete"} : Lost(c)

-----------------------------------------------------------------------------
(* CapabilitiesJob says what the server said and what that implies:        *)
(* IMAP4rev2 what it folds in, QRESYNC CONDSTORE, never both LITERALs of a *)
(* server that named one.  EnableJob has all that was enabled,             *)
(* NamespaceJob the last namespaces, each kind in its place, as far as     *)
(* they could be parsed, and StatusJob all items of all responses.  IdJob  *)
(* only logs what it is answered (idjob.cpp:60).                           *)
ServerIsKnown ==
  phase # "new" =>
    /\ Is("capabilities") =>
         LET said == UNION {r.value : r \in OfKind("CAPABILITY")}
         IN /\ said \subseteq data
            /\ "QRESYNC" \in data => "CONDSTORE" \in data
            /\ "IMAP4REV2" \in data => FoldedIn \subseteq data /\ {"LITERAL+", "LITERAL-"} \intersect data # {}
            /\ {"LITERAL+", "LITERAL-"} \subseteq data => {"LITERAL+", "LITERAL-"} \subseteq said
            /\ data \ said \subseteq FoldedIn \union {"CONDSTORE", "LITERAL-"}
    /\ Is("enable") => data = UNION {r.value : r \in OfKind("ENABLED")}
    /\ Is("namespace") =>
         LET said == OfKind("NAMESPACE")
             known(items) == {item \in Range(items) : item.parts >= 2}
         IN IF said = {} THEN data = [personal |-> {}, user |-> {}, shared |-> {}]
            ELSE \E r \in LastOf(told, said) :
                   /\ data = [personal |-> known(r.personal), user |-> known(r.user), shared |-> known(r.shared)]
                   /\ ContainsEmptyNamespace(data) <=>
                        \E item \in UNION {Range(r.personal), Range(r.user), Range(r.shared)} : item.name = "" /\ item.parts >= 2
    /\ Is("status") => Range(data) = UNION {Range(r.value) : r \in OfKind("STATUS")}

(* A mailbox is called by its name: what the job sends the server, who     *)
(* reads it by RFC 3501, takes for the mailbox the application named.      *)
MailBoxIsNamed ==
  class \in NamingJobs /\ phase # "new" =>
    \A k \in DOMAIN request.mailBoxes :
      Unquoted(data[k]) = IF Utf8Enabled THEN Utf8(request.mailBoxes[k]) ELSE ModifiedUtf7(request.mailBoxes[k])

(* A CreateJob or DeleteJob whose reply could be read ends without an      *)
(* error only if the mailbox is there, or not there, as it was asked for.  *)
MailBoxIsAsAsked ==
  (Is("create") \/ Is("delete")) /\ Succeeded /\ Last(told).code # "malformed" =>
    Last(told).code = "OK" \/ request.exists = Is("create")
=============================================================================
