------------------------------ MODULE DataJob ------------------------------
(***************************************************************************)
(* The jobs that send one command, collect what the server answers, and    *)
(* hand it to the application on request: what they have in common.  data  *)
(* is what the accessors of the job return.                                *)
(***************************************************************************)
EXTENDS Job

CONSTANTS IntMax,         (* the largest int                                *)
          MaxCalls        (* bound: calls of a setter that collects         *)

VARIABLES request,        (* what the application set before start()        *)
          data

dataVars == <<request, data>>

DataInit == request = <<>> /\ data = <<>>

(* Like data, what the server tells is by job: a response is a record with *)
(* a kind, and so is what the response code of a tagged reply says.        *)
NoCode == [kind |-> "none"]

(* QByteArray::toInt(): 0 for what an int cannot hold.                     *)
ToInt(n) == IF n > IntMax THEN 0 ELSE n

Start(c, asked, empty) ==
  /\ Is(c)
  /\ SendCommand
  /\ request' = asked /\ data' = empty

Untagged(c, r) ==
  /\ Is(c) /\ Tell(r)
  /\ UNCHANGED <<timer, reported, request>>

(* What a response code says is read before the result is emitted.         *)
Tagged(c, code, r) ==
  /\ Is(c)
  /\ \E tag \in tags : HandleErrorReplies(tag, code)
  /\ told' = Append(told, r)
  /\ UNCHANGED <<timer, reported, request>>

(* Read is what the job makes of the response.                             *)
Respond(c, r, Read(_, _))     == Untagged(c, r) /\ data' = Read(data, r)
Reply(c, code, r, Read(_, _)) == Tagged(c, code, r) /\ data' = Read(data, r)
Ignored(d, r) == d

Lost(c) == Is(c) /\ ConnectionLost /\ UNCHANGED dataVars

(* QMap::insert(), and the same for all that another map has.              *)
Inserted(map, key, value) == [k \in DOMAIN map \union {key} |-> IF k = key THEN value ELSE map[k]]
InsertedAll(map, other)   == [k \in DOMAIN map \union DOMAIN other |-> IF k \in DOMAIN other THEN other[k] ELSE map[k]]

(* What the server has told of this kind.                                  *)
OfKind(kind) == {r \in Range(told) : r.kind = kind}

(* A server answers once, or in as many responses as it likes.             *)
IsFirst(c, kind) == Is(c) /\ ("split" \in Liberties \/ OfKind(kind) = {})
=============================================================================
