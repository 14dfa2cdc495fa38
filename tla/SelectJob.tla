----------------------------- MODULE SelectJob -----------------------------
(***************************************************************************)
(* SelectJob (src/src/selectjob.cpp): the state of the mailbox, collected  *)
(* from untagged responses, and with CONDSTORE or QRESYNC the changes      *)
(* since the last time, which wait by number for the timer or the result.  *)
(***************************************************************************)
EXTENDS Job, RfcCodecs

CONSTANTS Counts,         (* the numbers a server may give                  *)
          ChangedMessages (* the numbers of messages whose flags changed    *)

VARIABLES sync,           (* "none", "CONDSTORE" or "QRESYNC"               *)
          readOnly,
          asked,          (* mailBox, and how the command names it          *)
          facts,          (* flags, messageCount, uidValidity and so on     *)
          pendingMessages (* the keys of a QMap by number                   *)

selectVars == <<sync, readOnly, asked, facts, pendingMessages>>

(* What the job reads, by the response code or the response it comes in.   *)
ListCodes    == {"PERMANENTFLAGS"}
NumberCodes  == {"HIGHESTMODSEQ", "UIDVALIDITY", "UNSEEN", "UIDNEXT"}
NumberLines  == {"EXISTS", "RECENT"}
Facts        == ListCodes \union NumberCodes \union NumberLines \union {"FLAGS"}

(* A number that cannot be read as one.                                    *)
Garbage == -2
Unknown == -1

SelectInit ==
  /\ sync = "none" /\ readOnly = FALSE
  /\ asked = [mailBox |-> <<>>, sent |-> <<>>]
  /\ facts = [f \in Facts |-> Unknown]
  /\ pendingMessages = {}

-----------------------------------------------------------------------------
(* setCondstoreEnabled(), setQResync() and doStart(): EXAMINE if read-only *)
(* was asked for, and the parameters of the extension, which the knowledge *)
(* of the last synchronisation decides.                                    *)
SelectStart ==
  /\ Is("select")
  /\ \E condstoreEnabled, lastKnown \in BOOLEAN :
       sync' = IF ~condstoreEnabled THEN "none" ELSE IF lastKnown THEN "QRESYNC" ELSE "CONDSTORE"
  /\ readOnly' \in BOOLEAN
  /\ \E name \in FolderNames :
       asked' = [mailBox |-> name, sent |-> encodeImapFolderName(Utf8(name), Utf8Enabled)]
  /\ SendCommands(1) /\ timer' = TRUE
  /\ UNCHANGED <<facts, pendingMessages>>

(* Mutant: the name is noted as it is on the wire.                         *)
UpcomingMailBoxEncoded ==
  LET args == Append(asked.sent, QuoteMark)
  IN SubSeq(args, 1, Min({k \in DOMAIN args : args[k] = QuoteMark}) - 1)

(* The name that SessionPrivate::sendCommand() notes for the time when the *)
(* mailbox will be selected: the command up to the next quotation mark.    *)
UpcomingMailBox ==
  LET args == Append(asked.sent, QuoteMark)
  IN decodeImapFolderName(SubSeq(args, 1, Min({k \in DOMAIN args : args[k] = QuoteMark}) - 1), Utf8Enabled)

(* handleResponse(): numbers that are none are ignored.                    *)
Readable(fact, value) == fact \in ListCodes \union {"FLAGS"} \/ value # Garbage

FactResponse(fact, value) ==
  /\ Is("select")
  /\ Tell([fact |-> fact, value |-> value])
  /\ facts' = IF Readable(fact, value) THEN [facts EXCEPT ![fact] = value] ELSE facts
  /\ UNCHANGED <<timer, reported, sync, readOnly, asked, pendingMessages>>

(* An untagged OK whose code has no argument is not looked at.             *)
BareResponse ==
  /\ Is("select")
  /\ Tell([fact |-> "NOMODSEQ", value |-> Garbage])
  /\ UNCHANGED <<timer, reported, selectVars>>

VanishedEarlier ==
  /\ Is("select") /\ sync = "QRESYNC"
  /\ Tell([fact |-> "VANISHED", value |-> 1])
  /\ reported' = Append(reported, [fact |-> "VANISHED", value |-> {1}])
  /\ UNCHANGED <<timer, selectVars>>

(* Mutant: only one change waits at a time.                                *)
ChangedOverwriting(n) ==
  /\ Is("select") /\ sync = "QRESYNC"
  /\ Tell([fact |-> "FETCH", value |-> n])
  /\ pendingMessages' = {n}
  /\ UNCHANGED <<timer, reported, sync, readOnly, asked, facts>>

(* FETCH: the server sends at most one for each message that has changed.  *)
Changed(n) ==
  /\ Is("select") /\ sync = "QRESYNC"
  /\ [fact |-> "FETCH", value |-> n] \notin Range(told)
  /\ Tell([fact |-> "FETCH", value |-> n])
  /\ pendingMessages' = pendingMessages \union {n}
  /\ UNCHANGED <<timer, reported, sync, readOnly, asked, facts>>

(* emitPendings(): one signal with all that waits, if anything does.       *)
EmitPendingMessages ==
  /\ reported' = IF pendingMessages = {} THEN reported
                 ELSE Append(reported, [fact |-> "FETCH", value |-> pendingMessages])
  /\ pendingMessages' = {}

SelectEmit ==
  /\ Is("select") /\ timer
  /\ EmitPendingMessages
  /\ UNCHANGED <<class, phase, tags, error, timer, told, refused, gone, sync, readOnly, asked, facts>>

(* READ-ONLY comes with the tagged reply and is noted before the result.   *)
SelectReply(tag, code, responseCode) ==
  /\ Is("select")
  /\ HandleErrorReplies(tag, code)
  /\ readOnly' = (readOnly \/ responseCode = "READ-ONLY")
  /\ IF IsLastReply(tag)
     THEN timer' = FALSE /\ EmitPendingMessages
     ELSE UNCHANGED <<timer, reported, pendingMessages>>
  /\ UNCHANGED <<told, sync, asked, facts>>

SelectNext ==
  \/ SelectStart
  \/ \E fact \in Facts, value \in Counts \union {Garbage} : FactResponse(fact, value)
  \/ BareResponse
  \/ VanishedEarlier
  \/ \E n \in ChangedMessages : Changed(n)
  \/ SelectEmit
  \/ \E tag \in tags, code \in Codes, responseCode \in {"", "READ-ONLY"} :
       SelectReply(tag, code, responseCode)
  \/ Is("select") /\ ConnectionLost /\ UNCHANGED selectVars

-----------------------------------------------------------------------------
Told(fact) == {k \in DOMAIN told : told[k].fact = fact}
Reported(fact) == {k \in DOMAIN reported : reported[k].fact = fact}

(* When a SELECT has ended every change since the last synchronisation     *)
(* has been reported, each in one signal and no other, and so has every    *)
(* VANISHED; and what the job says of the mailbox is the last readable     *)
(* thing the server said of it.                                            *)
SelectedIsReported ==
  Is("select") /\ phase = "done" /\ ~gone =>
    /\ UNION {reported[k].value : k \in Reported("FETCH")} = {told[k].value : k \in Told("FETCH")}
    /\ \A k, l \in Reported("FETCH") : k # l => reported[k].value \intersect reported[l].value = {}
    /\ Cardinality(Reported("VANISHED")) = Cardinality(Told("VANISHED"))
    /\ \A fact \in Facts :
         LET said == {r \in Range(told) : r.fact = fact /\ Readable(fact, r.value)}
         IN IF said = {} THEN facts[fact] = Unknown
            ELSE \E r \in LastOf(told, said) : facts[fact] = r.value

(* After a SELECT that succeeded the mailbox that the session takes for    *)
(* the selected one is the one that was asked for, if nothing in its name  *)
(* has to be quoted: sendCommand() does not undo that.                     *)
SelectedIsAsked ==
  Is("select") /\ Succeeded /\ Range(asked.mailBox) \intersect {QuoteMark, Backslash} = {} =>
    UpcomingMailBox = Utf8(asked.mailBox)
=============================================================================
