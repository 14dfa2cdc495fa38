------------------------------ MODULE ListJob ------------------------------
(***************************************************************************)
(* ListJob (src/src/listjob.cpp): LIST responses, each of which may be     *)
(* followed by the STATUS of the same mailbox, are collected and reported  *)
(* in pairs, by a timer every 100 ms and before the result.                *)
(***************************************************************************)
EXTENDS Job

CONSTANTS MailBoxes,      (* the names on the server, as [top, below]      *)
          NonAscii        (* the tops that modified UTF-7 encodes          *)

ASSUME ListAssumption == \A name \in MailBoxes : name = [top |-> name.top, below |-> name.below]

VARIABLES command,        (* "LIST", "XLIST" or "LSUB"                     *)
          withStatus,     (* whether RETURN (STATUS ...) was asked for     *)
          pendingDescriptors, pendingStatus

listVars == <<command, withStatus, pendingDescriptors, pendingStatus>>

NoStatus == "none"

ListInit ==
  /\ command = "" /\ withStatus = FALSE
  /\ pendingDescriptors = <<>> /\ pendingStatus = <<>>

-----------------------------------------------------------------------------
(* A name as the server writes it, and what decodeImapFolderName() makes   *)
(* of it.                                                                  *)
Wire(name) == [text |-> name, encoded |-> name.top \in NonAscii /\ ~Utf8Enabled]
Decoded(wire) == wire.text

Inboxes == {"INBOX", "inbox"}

(* The Inbox and what is below it get one spelling.                        *)
ConvertInboxName(name) == IF name.top \in Inboxes THEN [name EXCEPT !.top = "INBOX"] ELSE name

(* Whether a STATUS is about the mailbox of the last LIST: its name is     *)
(* compared as the server wrote it.                                        *)
IsRelated(wire, name) ==
  IF wire.text.top \in Inboxes /\ name.top = "INBOX"
  THEN wire.text.below = name.below
  ELSE ~wire.encoded /\ wire.text = name

-----------------------------------------------------------------------------
Padded == [k \in DOMAIN pendingDescriptors |->
             IF k \in DOMAIN pendingStatus THEN pendingStatus[k] ELSE NoStatus]

Paired(descriptors, statuses) ==
  [k \in DOMAIN descriptors |->
     [name |-> descriptors[k].name, flags |-> descriptors[k].flags, status |-> statuses[k]]]

Pending == Paired(pendingDescriptors, Padded)

(* Mutant: what is pending is reported although a status may still come.   *)
EmitWithoutWaiting(finalEmit) ==
  /\ reported' = reported \o Pending
  /\ pendingDescriptors' = <<>> /\ pendingStatus' = <<>>

(* emitPendings(): a last mailbox whose status has not come yet waits for  *)
(* it, unless the job is at its end.                                       *)
EmitPendings(finalEmit) ==
  LET ready == IF finalEmit THEN Len(pendingDescriptors) ELSE Len(pendingStatus)
  IN /\ reported' = reported \o SubSeq(Pending, 1, ready)
     /\ pendingDescriptors' = SubSeq(pendingDescriptors, ready + 1, Len(pendingDescriptors))
     /\ pendingStatus' = <<>>

(* doStart(): one command, or one per pattern when several namespaces are  *)
(* asked for without LIST-EXTENDED; a namespace whose name ends with the   *)
(* separator gives two patterns.                                           *)
ListStart ==
  /\ Is("list")
  /\ \E option \in {"NoOption", "IncludeUnsubscribed", "IncludeFolderRoleFlags"},
        listExtendedEnabled, status \in BOOLEAN, patterns \in 0..2 :
       /\ command' = CASE option = "IncludeUnsubscribed" -> "LIST"
                       [] option = "IncludeFolderRoleFlags" -> "XLIST"
                       [] OTHER -> IF listExtendedEnabled THEN "LIST" ELSE "LSUB"
       /\ withStatus' = (status /\ listExtendedEnabled /\ command' = "LIST")
       /\ SendCommands(IF listExtendedEnabled \/ patterns = 0 THEN 1 ELSE patterns)
  /\ timer' = TRUE
  /\ UNCHANGED <<pendingDescriptors, pendingStatus>>

(* handleResponse(): a LIST response.  A selectable mailbox without a      *)
(* status before it gets none.                                             *)
ListResponse(name, flags) ==
  LET descriptor == [name |-> ConvertInboxName(Decoded(Wire(name))), flags |-> flags]
  IN /\ Is("list")
     /\ Tell([name |-> descriptor.name, flags |-> flags, status |-> NoStatus])
     /\ pendingDescriptors' = Append(pendingDescriptors, descriptor)
     /\ pendingStatus' = IF flags = "\\noselect" THEN Append(Padded, NoStatus) ELSE Padded
     /\ UNCHANGED <<command, withStatus, timer, reported>>

(* handleResponse(): the STATUS of the mailbox the server has just listed, *)
(* ignored when none is missing or when it seems to be about another one.  *)
StatusResponse(name, status) ==
  LET n == Len(told)
      missing == Len(pendingStatus) = Len(pendingDescriptors) - 1
  IN /\ Is("list") /\ withStatus /\ phase = "running"
     /\ n > 0 /\ told[n].name = ConvertInboxName(name)
     /\ told[n].flags # "\\noselect" /\ told[n].status = NoStatus
     /\ told' = [told EXCEPT ![n].status = status]
     /\ pendingStatus' = IF missing /\ IsRelated(Wire(name), Last(pendingDescriptors).name)
                         THEN Append(pendingStatus, status) ELSE pendingStatus
     /\ UNCHANGED <<class, phase, tags, error, timer, reported, refused, gone>>
     /\ UNCHANGED <<command, withStatus, pendingDescriptors>>

ListEmit ==
  /\ Is("list") /\ timer
  /\ EmitPendings(FALSE)
  /\ UNCHANGED <<class, phase, tags, error, timer, told, refused, gone, command, withStatus>>

(* Mutant: what is pending at the end is left to the timer.                *)
ListReplyUntimely(tag, code) ==
  /\ Is("list")
  /\ HandleErrorReplies(tag, code)
  /\ UNCHANGED <<timer, told, reported, listVars>>

(* handleResponse(): a tagged reply.                                       *)
ListReply(tag, code) ==
  /\ Is("list")
  /\ HandleErrorReplies(tag, code)
  /\ IF IsLastReply(tag)
     THEN timer' = FALSE /\ EmitPendings(TRUE)
     ELSE UNCHANGED <<timer, reported, pendingDescriptors, pendingStatus>>
  /\ UNCHANGED <<told, command, withStatus>>

ListNext ==
  \/ ListStart
  \/ \E name \in MailBoxes, flags \in {"", "\\noselect"} : ListResponse(name, flags)
  \/ \E name \in MailBoxes : StatusResponse(name, "some")
  \/ ListEmit
  \/ \E tag \in tags, code \in Codes : ListReply(tag, code)
  \/ Is("list") /\ ConnectionLost /\ UNCHANGED listVars

-----------------------------------------------------------------------------
(* Every mailbox that the server lists is reported once, in order and with *)
(* the status that the server gave for it, however LIST, STATUS, the timer *)
(* and the end of the commands interleave.                                 *)
ListedIsReported ==
  Is("list") /\ ~gone => /\ reported \o Pending = told
                         /\ phase = "done" => Pending = <<>>
=============================================================================
