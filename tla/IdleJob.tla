------------------------------ MODULE IdleJob ------------------------------
(***************************************************************************)
(* IdleJob (src/src/idlejob.cpp): EXISTS and RECENT are reported together, *)
(* or after 200 ms if only one of them came.  The timeout of the session   *)
(* that the job switches off is in Session.                                *)
(***************************************************************************)
EXTENDS Job

CONSTANT MailBoxCounts    (* the counts a server may report                 *)

ASSUME IdleAssumption == MailBoxCounts \subseteq Nat

VARIABLES messageCount, recentCount,           (* -1 when there is none    *)
          lastMessageCount, lastRecentCount

idleVars == <<messageCount, recentCount, lastMessageCount, lastRecentCount>>

None == -1

IdleInit ==
  /\ messageCount = None /\ recentCount = None
  /\ lastMessageCount = None /\ lastRecentCount = None

-----------------------------------------------------------------------------
IdleStart ==
  /\ Is("idle")
  /\ SendCommand
  /\ UNCHANGED idleVars

Stats(messages, recent) == [messages |-> messages, recent |-> recent]

(* emitStats(): what there is, and then nothing.                           *)
EmitStats ==
  /\ timer' = FALSE
  /\ reported' = Append(reported, Stats(messageCount, recentCount))
  /\ lastMessageCount' = messageCount /\ lastRecentCount' = recentCount
  /\ messageCount' = None /\ recentCount' = None

(* The counts as they are after the response, to be reported if there are  *)
(* two and to wait if there is one.                                        *)
Settle(before, messages, recent) ==
  LET last == Stats(messages, recent)
      due == messages # None /\ recent # None
      all == IF due THEN Append(before, last) ELSE before
  IN /\ reported' = reported \o all
     /\ timer' = IF due THEN FALSE
                 ELSE IF messages # None \/ recent # None THEN TRUE
                 ELSE timer /\ before = <<>>
     /\ messageCount' = IF due THEN None ELSE messages
     /\ recentCount' = IF due THEN None ELSE recent
     /\ IF all = <<>> THEN UNCHANGED <<lastMessageCount, lastRecentCount>>
        ELSE lastMessageCount' = Last(all).messages /\ lastRecentCount' = Last(all).recent

Pair == Stats(messageCount, recentCount)

(* Mutant: a new EXISTS takes the place of one that waits.                 *)
ExistsOverwriting(n) ==
  /\ Is("idle") /\ Tell([kind |-> "EXISTS", value |-> n])
  /\ Settle(<<>>, n, recentCount)

(* An EXISTS while one is waiting sends that one off first.                *)
Exists(n) ==
  /\ Is("idle") /\ Tell([kind |-> "EXISTS", value |-> n])
  /\ IF messageCount # None THEN Settle(<<Pair>>, n, None) ELSE Settle(<<>>, n, recentCount)

Recent(n) ==
  /\ Is("idle") /\ Tell([kind |-> "RECENT", value |-> n])
  /\ IF recentCount # None THEN Settle(<<Pair>>, None, n) ELSE Settle(<<>>, messageCount, n)

(* FETCH is passed on at once; like every other response but "+" it starts *)
(* the timer anew while a count waits.                                     *)
FlagsChanged ==
  /\ Is("idle") /\ Tell([kind |-> "FETCH", value |-> None])
  /\ Settle(<<>>, messageCount, recentCount)

IdleContinuation ==
  /\ Is("idle") /\ Tell([kind |-> "+", value |-> None])
  /\ UNCHANGED <<timer, reported, idleVars>>

IdleTimeout ==
  /\ Is("idle") /\ timer
  /\ EmitStats
  /\ UNCHANGED <<class, phase, tags, error, told, refused, gone>>

IdleReply(tag, code) ==
  /\ Is("idle")
  /\ HandleErrorReplies(tag, code)
  /\ IF IsLastReply(tag) /\ Pair # Stats(None, None)
     THEN EmitStats ELSE UNCHANGED <<timer, reported, idleVars>>
  /\ UNCHANGED told

IdleNext ==
  \/ IdleStart
  \/ \E n \in MailBoxCounts : Exists(n) \/ Recent(n)
  \/ FlagsChanged
  \/ IdleContinuation
  \/ IdleTimeout
  \/ \E tag \in tags, code \in Codes : IdleReply(tag, code)
  \/ Is("idle") /\ ConnectionLost /\ UNCHANGED idleVars

-----------------------------------------------------------------------------
(* Where a history has responses of a kind, and where reports have a count *)
(* in a field.                                                             *)
Given(history, kind) == {k \in DOMAIN history : history[k].kind = kind}
Heard(reports, field) == {k \in DOMAIN reports : reports[k][field] # None}

(* Each of the responses is one of the reports, all of them, in order.     *)
InOrder(history, kind, reports, field) ==
  \E place \in [Given(history, kind) -> Heard(reports, field)] :
    /\ \A l \in Heard(reports, field) : \E k \in Given(history, kind) : place[k] = l
    /\ \A k, l \in Given(history, kind) : k < l => place[k] < place[l]
    /\ \A k \in Given(history, kind) : reports[place[k]][field] = history[k].value

(* Every count the server gives is reported, once and in order, or waits   *)
(* with the timer running; nothing waits when a reply has ended the job.   *)
CountsAreReported ==
  Is("idle") /\ ~gone =>
    /\ InOrder(told, "EXISTS", Append(reported, Pair), "messages")
    /\ InOrder(told, "RECENT", Append(reported, Pair), "recent")
    /\ timer <=> Pair # Stats(None, None)
    /\ phase = "done" => ~timer
=============================================================================
