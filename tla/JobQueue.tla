------------------------------ MODULE JobQueue ------------------------------
(***************************************************************************)
(* What a session promises about the jobs it is given.                     *)
(*                                                                         *)
(* The jobs wait in one line, in the order they were submitted.  Only the  *)
(* job at the head of the line runs.  A job leaves the line from its head, *)
(* with a result; or because its owner cancels it; or because the          *)
(* connection is lost, which gives the head a result and drops the jobs    *)
(* behind it.  No job leaves the line in any other way, and none that left *)
(* it comes back.                                                          *)
(***************************************************************************)
EXTENDS Naturals, Sequences, SequencesExt

CONSTANT Jobs

VARIABLES line,      (* the jobs that are waiting or running               *)
          running,   (* the head of the line runs                          *)
          fate       (* how each job that left the line did so             *)

jobQueueVars == <<line, running, fate>>

Init == /\ line = <<>>
        /\ running = FALSE
        /\ fate = [j \in Jobs |-> "none"]

Fates(results, dropped) ==
  [j \in Jobs |-> IF j \in results THEN "result" ELSE IF j \in dropped THEN "dropped" ELSE fate[j]]

(* The line after at most one job has joined it: a submission may come     *)
(* from a slot that runs while the line moves.                             *)
Joined == {line} \cup {Append(line, j) : j \in {k \in Jobs \ ToSet(line) : fate[k] = "none"}}

(* The first n jobs get their results, and the next one may begin.         *)
Advance == \E l \in Joined : \E n \in 0..Len(l) :
             /\ line' = SubSeq(l, n + 1, Len(l))
             /\ fate' = Fates({l[i] : i \in 1..n}, {})
             /\ running' \in (IF line' = <<>> THEN {FALSE}
                              ELSE IF n = 0 /\ running THEN {TRUE} ELSE BOOLEAN)

Cancel == \E i \in DOMAIN line :
            /\ line' = RemoveAt(line, i)
            /\ fate' = Fates({}, {line[i]})
            /\ running' = (running /\ i # 1)

LoseConnection == \E l \in Joined \ {<<>>} :
                    /\ line' = <<>>
                    /\ fate' = Fates({Head(l)}, ToSet(Tail(l)))
                    /\ running' = FALSE

Next == Advance \/ Cancel \/ LoseConnection

Spec == Init /\ [][Next]_jobQueueVars
=============================================================================
