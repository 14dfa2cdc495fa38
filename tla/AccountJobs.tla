---------------------------- MODULE AccountJobs ----------------------------
(***************************************************************************)
(* The jobs about rights and quotas: GetAclJob, SetAclJob, DeleteAclJob,   *)
(* ListRightsJob, MyRightsJob, GetQuotaJob, GetQuotaRootJob and            *)
(* SetQuotaJob (src/src/*job.cpp, acl.cpp, quotajobbase.cpp).              *)
(***************************************************************************)
EXTENDS DataJob

CONSTANTS Rights,         (* the letters of rights, known or not            *)
          KnownRights,    (* those of RightsMap                             *)
          Identifiers,
          Resources, Amounts

(* The letters of Acl::Right, in its order, and how AclModifier is sent.   *)
Right == {"l", "r", "s", "w", "i", "p", "c", "k", "x", "t", "d", "a", "e", "n",
          "0", "1", "2", "3", "4", "5", "6", "7", "8", "9"}
AclModifier == {"+", "-", ""}

ASSUME RightsAssumption == KnownRights \subseteq Right

-----------------------------------------------------------------------------
(* acl.cpp.  A string of rights is a set of letters, after a modifier that *)
(* is skipped; letters that are not known are left out.                    *)
RightsFromString(string) == string.letters \intersect KnownRights

RightsToString(rights) == [modifier |-> "", letters |-> rights]

Replaced(rights, old, new) == IF old \in rights THEN (rights \ {old}) \union new ELSE rights

NormalizedRights(rights) == Replaced(Replaced(rights, "c", {"k", "x"}), "d", {"t", "e"})

Added(rights, old, new) == IF rights \intersect new # {} THEN rights \union {old} ELSE rights

DenormalizedRights(rights) ==
  Added(Added(NormalizedRights(rights), "c", {"k", "x"}), "d", {"t", "e"})

(* Mutant: the rights of the last call count.                              *)
SetRightsAnew(d, call) == [modifier |-> call.modifier, rightList |-> call.rights]

(* AclJobBasePrivate::setRights(): the rights of several calls are joined, *)
(* the last modifier counts.                                               *)
SetRights(d, call) == [modifier |-> call.modifier, rightList |-> d.rightList \union call.rights]

NoRights == [modifier |-> "", rightList |-> {}]

(* SetAclJob::doStart(): the modifier and the letters that are sent, and   *)
(* what a server makes of them (external).                                 *)
RightsSent(d) ==
  [RightsToString(d.rightList) EXCEPT !.modifier = d.modifier]

Granted(acl, string) ==
  CASE string.modifier = "+" -> acl \union string.letters
    [] string.modifier = "-" -> acl \ string.letters
    [] OTHER -> string.letters

-----------------------------------------------------------------------------
(* GetAclJob: the rights of each identifier; a pair that is not complete   *)
(* is left out.                                                            *)
GetAclRead(d, r) ==
  CASE r.kind = "ACL" -> Inserted(d, r.id, RightsFromString(r.string))
    [] OTHER -> d

MyRightsRead(d, r) == IF r.kind = "MYRIGHTS" THEN RightsFromString(r.string) ELSE d

(* ListRightsJob: the first set is granted anyway, the others possible.    *)
ListRightsRead(d, r) ==
  IF r.kind # "LISTRIGHTS" THEN d
  ELSE [default |-> RightsFromString(r.first),
        possible |-> d.possible \o [k \in DOMAIN r.others |-> RightsFromString(r.others[k])]]

Strings == [modifier : {"", "+"}, letters : SUBSET Rights]
Lettered(letters) == [modifier |-> "", letters |-> letters]

(* rights() of an identifier, none when the server has not named it.       *)
RightsOf(id) == IF id \in DOMAIN data THEN data[id] ELSE {}

GetAclStart     == Start("getacl", <<>>, <<>>)
DeleteAclStart  == Start("deleteacl", <<>>, <<>>)
ListRightsStart == Start("listrights", <<>>, [default |-> {}, possible |-> <<>>])
MyRightsStart   == Start("myrights", <<>>, {})

(* Until it starts, request is the calls of setRights() and data the       *)
(* fields they set.                                                        *)
SetAclRights ==
  /\ Is("setacl") /\ phase = "new" /\ Len(request) < MaxCalls
  /\ \E call \in [modifier : AclModifier, rights : SUBSET KnownRights] :
       /\ request' = Append(request, call)
       /\ data' = SetRights(IF request = <<>> THEN NoRights ELSE data, call)
  /\ UNCHANGED jobVars

(* The SETACL that is sent, as the server sees it when it accepts.         *)
SetAclStart ==
  /\ Is("setacl") /\ phase = "new" /\ request # <<>>
  /\ Start("setacl", [calls |-> request, sent |-> RightsSent(data)], {})

RightsNext ==
  \/ GetAclStart \/ SetAclRights \/ SetAclStart \/ DeleteAclStart \/ ListRightsStart \/ MyRightsStart
  \/ \E id \in Identifiers, string \in Strings :
       Respond("getacl", [kind |-> "ACL", id |-> id, string |-> string], GetAclRead)
  \/ \E string \in Strings : Respond("myrights", [kind |-> "MYRIGHTS", string |-> string], MyRightsRead)
  \/ \E first, other \in SUBSET Rights :
       Respond("listrights", [kind |-> "LISTRIGHTS", first |-> Lettered(first),
                              others |-> <<Lettered(other), Lettered(Rights \ other)>>], ListRightsRead)
  \/ \E c \in {"getacl", "setacl", "deleteacl", "listrights", "myrights"}, code \in Codes :
       Reply(c, code, NoCode, Ignored)

-----------------------------------------------------------------------------
(* Mutant: usage and limit are read the wrong way round.                   *)
ReadQuotaSwapped(quotas) ==
  [resource \in DOMAIN quotas |-> <<ToInt(quotas[resource][2]), ToInt(quotas[resource][1])>>]

(* QuotaJobBasePrivate::readQuota()                                        *)
ReadQuota(quotas) ==
  [resource \in DOMAIN quotas |-> <<ToInt(quotas[resource][1]), ToInt(quotas[resource][2])>>]

(* GetQuotaJob and SetQuotaJob: the last QUOTA, if its root has a name.    *)
QuotaRead(d, r) == IF r.kind = "QUOTA" /\ r.root # "" THEN ReadQuota(r.quotas) ELSE d

(* GetQuotaRootJob: the resources of one root add up; a root without a     *)
(* name goes by the empty one.                                             *)
QuotaRootRead(d, r) ==
  CASE r.kind = "QUOTAROOT" -> [d EXCEPT !.roots = IF r.roots = <<>> THEN <<"">> ELSE r.roots]
    [] r.kind = "QUOTA" ->
         LET before == IF r.root \in DOMAIN d.quotas THEN d.quotas[r.root] ELSE <<>>
         IN [d EXCEPT !.quotas = Inserted(@, r.root, InsertedAll(before, ReadQuota(r.quotas)))]
    [] OTHER -> d

Roots == {"", "root"}

QuotaResponses == [kind : {"QUOTA"}, root : Roots,
                   quotas : UNION {[some -> Amounts \X Amounts] : some \in SUBSET Resources}]

GetQuotaStart     == Start("getquota", <<>>, <<>>)
SetQuotaStart     == Start("setquota", <<>>, <<>>)
GetQuotaRootStart == Start("getquotaroot", <<>>, [roots |-> <<>>, quotas |-> <<>>])

(* usage() and limit(), for a root where there are several; -1 for what is *)
(* not known.                                                              *)
Quota(quotas, resource) == IF resource \in DOMAIN quotas THEN quotas[resource] ELSE <<-1, -1>>
QuotaOfRoot(root, resource) ==
  IF root \in DOMAIN data.quotas THEN Quota(data.quotas[root], resource) ELSE <<-1, -1>>

QuotaNext ==
  \/ GetQuotaStart \/ SetQuotaStart \/ GetQuotaRootStart
  \/ \E c \in {"getquota", "setquota"}, r \in QuotaResponses : IsFirst(c, "QUOTA") /\ Respond(c, r, QuotaRead)
  \/ \E r \in QuotaResponses : Respond("getquotaroot", r, QuotaRootRead)
  \/ \E roots \in BoundedSeq(Roots, 2) : Respond("getquotaroot", [kind |-> "QUOTAROOT", roots |-> roots], QuotaRootRead)
  \/ \E c \in {"getquota", "setquota", "getquotaroot"}, code \in Codes : Reply(c, code, NoCode, Ignored)

AccountNext ==
  \/ RightsNext \/ QuotaNext
  \/ \E c \in {"getacl", "setacl", "deleteacl", "listrights", "myrights", "getquota", "setquota", "getquotaroot"} :
       Lost(c)

-----------------------------------------------------------------------------
(* GetAclJob, by identifier, and MyRightsJob know the rights the server    *)
(* named last, as far as they are known at all; ListRightsJob those that   *)
(* are granted anyway and all the sets that may be added.  Translating     *)
(* rights to their successors loses none.  What SETACL asks of a server is *)
(* what the calls of setRights() add up to if they agree on the modifier.  *)
RightsAreKnown ==
  /\ Is("getacl") /\ phase # "new" =>
       \A id \in Identifiers :
         LET said == {r \in Range(told) : r.kind = "ACL" /\ r.id = id}
         IN IF said = {} THEN id \notin DOMAIN data /\ RightsOf(id) = {}
            ELSE /\ id \in DOMAIN data
                 /\ \E r \in LastOf(told, said) : RightsOf(id) = r.string.letters \intersect KnownRights
  /\ Is("setacl") /\ phase # "new" =>
       \A acl \in SUBSET KnownRights :
         (\A k \in DOMAIN request.calls : request.calls[k].modifier = request.calls[1].modifier) =>
           LET all == UNION {call.rights : call \in Range(request.calls)}
           IN Granted(acl, request.sent) =
                CASE request.calls[1].modifier = "+" -> acl \union all
                  [] request.calls[1].modifier = "-" -> acl \ all
                  [] OTHER -> all
  /\ Is("listrights") /\ phase # "new" =>
       LET said == OfKind("LISTRIGHTS")
       IN /\ IF said = {} THEN data.default = {}
             ELSE \E r \in LastOf(told, said) : data.default = r.first.letters \intersect KnownRights
          /\ Range(data.possible) = {other.letters \intersect KnownRights : other \in UNION {Range(r.others) : r \in said}}
  /\ Is("myrights") /\ phase # "new" =>
       LET said == OfKind("MYRIGHTS")
       IN IF said = {} THEN data = {}
          ELSE \E r \in LastOf(told, said) : data = r.string.letters \intersect KnownRights
  /\ Is("myrights") /\ phase # "new" =>
       LET new == NormalizedRights(data)
           both == DenormalizedRights(data)
       IN /\ {"c", "d"} \intersect new = {}
          /\ new \subseteq both /\ NormalizedRights(both) \subseteq both \union {"k", "x", "t", "e"}
          /\ \A pair \in {<<"c", {"k", "x"}>>, <<"d", {"t", "e"}>>} :
               /\ pair[1] \in data => pair[2] \subseteq new
               /\ pair[1] \in both <=> pair[2] \intersect both # {}
          /\ new \ {"k", "x", "t", "e"} = data \ {"c", "d", "k", "x", "t", "e"}

(* Usage and limit of a resource are those that the server gave last, for  *)
(* the root that it gave them for.                                         *)
QuotasAreKnown ==
  LET about(root, resource) ==
        {r \in Range(told) : r.kind = "QUOTA" /\ r.root = root /\ resource \in DOMAIN r.quotas}
      said(root, resource) ==
        IF about(root, resource) = {} THEN {<<-1, -1>>}
        ELSE {r.quotas[resource] : r \in LastOf(told, about(root, resource))}
  IN /\ Is("getquotaroot") /\ phase # "new" =>
          \A root \in Roots, resource \in Resources : QuotaOfRoot(root, resource) \in said(root, resource)
     /\ (Is("getquota") \/ Is("setquota")) /\ phase # "new" =>
          \A resource \in Resources : Quota(data, resource) \in said("root", resource)
=============================================================================
