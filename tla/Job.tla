-------------------------------- MODULE Job --------------------------------
(***************************************************************************)
(* What every job of KIMAP has in common (src/src/job.cpp) while it is the *)
(* session's current job: the tags of the commands it has sent, its error, *)
(* and its end.  The modules of the classes of jobs extend this one; the   *)
(* session that queues them is in Session.                                 *)
(*                                                                         *)
(* told and reported are the two ends a job stands between: what the       *)
(* server has said in untagged responses, and what the application has     *)
(* heard of it by the job's signals.                                       *)
(***************************************************************************)
EXTENDS Integers, Sequences, SequencesExt, FiniteSetsExt, Functions

CONSTANTS Classes,        (* the classes of jobs of the instance            *)
          Codes,          (* the second tokens of the tagged replies       *)
          FolderNames,    (* the names of mailboxes an application uses     *)
          Utf8Enabled,    (* SessionPrivate::isUtf8Enabled()               *)
          MaxTold,        (* bound: the untagged responses to one job      *)
          Liberties       (* of those that RFC 3501 allows a server:       *)
                          (* "split", one answer in several responses;     *)
                          (* "expunge", EXPUNGE during a UID FETCH;        *)
                          (* "unsolicited", responses nobody asked for     *)

VARIABLES class,          (* the class of the job                          *)
          phase,          (* "new", "running" or "done"                    *)
          tags,           (* d->tags, by position                          *)
          error,          (* KJob::error() # 0                             *)
          timer,          (* the QTimer of the job is active               *)
          told, reported,
          refused, gone   (* the server said NO; the connection was lost   *)

jobVars == <<class, phase, tags, error, timer, told, reported, refused, gone>>

JobInit ==
  /\ class \in Classes
  /\ phase = "new" /\ tags = {}
  /\ error = FALSE /\ timer = FALSE
  /\ told = <<>> /\ reported = <<>>
  /\ refused = FALSE /\ gone = FALSE

Is(c) == class = c

-----------------------------------------------------------------------------
(* doStart(): the commands are sent and their tags remembered.             *)
SendCommands(n) ==
  /\ phase = "new"
  /\ phase' = "running"
  /\ tags' = 1..n
  /\ UNCHANGED <<class, error, told, reported, refused, gone>>

SendCommand == SendCommands(1) /\ UNCHANGED timer

(* An untagged response of the server.                                     *)
Tell(r) ==
  /\ phase = "running" /\ Len(told) < MaxTold
  /\ told' = Append(told, r)
  /\ UNCHANGED <<class, phase, tags, error, refused, gone>>

(* Mutant: only the reply to the last command decides.                     *)
ErrorOfLast(tag, code) == code = "NO"

DoneWith(rest) == rest = {}

(* Whether the job has an error after this reply: a reply without a second *)
(* token sets only the text of one.                                        *)
ErrorAfter(tag, code) == error \/ code \notin {"OK", "malformed"}

HandleErrorReplies(tag, code) ==
  /\ phase = "running" /\ tag \in tags
  /\ tags' = tags \ {tag}
  /\ phase' = IF DoneWith(tags') THEN "done" ELSE phase
  /\ error' = ErrorAfter(tag, code)
  /\ refused' = (refused \/ code \notin {"OK", "malformed"})
  /\ UNCHANGED <<class, gone>>

(* Whether the reply will end the job: the classes with a timer stop it    *)
(* and report what is pending before that.                                 *)
IsLastReply(tag) == tags = {tag}

(* connectionLost() reports nothing and stops no timer.                    *)
ConnectionLost ==
  /\ phase = "running"
  /\ phase' = "done" /\ error' = TRUE /\ gone' = TRUE
  /\ UNCHANGED <<class, tags, timer, told, reported, refused>>

-----------------------------------------------------------------------------
(* Of some responses the last one in a history, if any is there: a set of  *)
(* at most one.                                                            *)
LastOf(history, some) ==
  {history[k] : k \in {i \in DOMAIN history :
                         history[i] \in some /\ \A l \in DOMAIN history : history[l] \in some => l <= i}}

Succeeded == phase = "done" /\ ~error

(* A job that the server has refused a command ends with an error, however *)
(* many more commands it had open and whatever came of them.               *)
RefusalIsTold == phase = "done" /\ refused => error

(* The result is the last the application hears of a job that a reply      *)
(* ends, though its timer may be due at that moment.                       *)
ResultIsLast == [][phase = "done" /\ ~gone => UNCHANGED reported]_jobVars
=============================================================================
