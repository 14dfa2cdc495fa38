------------------------------ MODULE JobProofs ------------------------------
(***************************************************************************)
(* What the jobs promise, proved for every set of classes, every server    *)
(* and every number of responses.                                          *)
(***************************************************************************)
EXTENDS Jobs, SequenceTheorems, FiniteSetTheorems, TLAPS

(* A job that has been refused a command has an error already.             *)
RefusalInv == refused => error

MessageClasses == {"append", "store", "copy", "move", "expunge", "close", "search"}
AccountClasses == {"getacl", "setacl", "deleteacl", "listrights", "myrights",
                   "getquota", "setquota", "getquotaroot"}
ServerClasses  == PlainServerJobs \union {"capabilities", "enable", "namespace", "status", "create", "delete"}
MetaClasses    == {"setmetadata", "getmetadata"}

(* What a step of a job that reports nothing and has no timer does to what *)
(* the jobs have in common.                                                *)
QuietStep(c) ==
  /\ class = c
  /\ UNCHANGED <<class, timer, reported>>
  /\ RefusalInv => RefusalInv'
  /\ told' # told => phase = "running" /\ \E r : told' = Append(told, r)
  /\ phase' = "new" => phase = "new"

-----------------------------------------------------------------------------

(* The steps that DataJob offers are quiet ones.                           *)
LEMMA StartIsQuiet ==
  ASSUME NEW c, NEW asked_, NEW empty, Start(c, asked_, empty)
  PROVE  QuietStep(c)
BY DEF Start, SendCommand, SendCommands, Is, QuietStep, RefusalInv

(* So is an untagged response that is only noted.                          *)
LEMMA UntaggedIsQuiet ==
  ASSUME NEW c, NEW r, Untagged(c, r)
  PROVE  QuietStep(c)
BY DEF Untagged, Tell, Is, QuietStep, RefusalInv

(* A tagged reply that is not an OK is a refusal and an error.             *)
LEMMA HandledIsRefused ==
  ASSUME NEW tag, NEW code, HandleErrorReplies(tag, code)
  PROVE  class' = class /\ phase = "running" /\ phase' \in {"running", "done"} /\ (RefusalInv => RefusalInv')
BY DEF HandleErrorReplies, ErrorAfter, RefusalInv

(* So is a tagged reply whose response code is noted.                      *)
LEMMA TaggedIsQuiet ==
  ASSUME NEW c, NEW code, NEW r, Tagged(c, code, r)
  PROVE  QuietStep(c)
BY HandledIsRefused DEF Tagged, Is, QuietStep

(* And the end of the connection.                                          *)
LEMMA LostIsQuiet ==
  ASSUME NEW c, Lost(c)
  PROVE  QuietStep(c)
BY DEF Lost, ConnectionLost, Is, QuietStep, RefusalInv

(* Every step of the jobs about messages is a quiet one of one of these    *)
(* jobs.                                                                   *)
LEMMA MessageIsQuiet == MessageNext => \E c \in MessageClasses : QuietStep(c)
<1>1. ASSUME AppendNext PROVE QuietStep("append")
  BY <1>1, StartIsQuiet, UntaggedIsQuiet, TaggedIsQuiet DEF AppendNext, AppendStart, Respond, Reply
<1>2. ASSUME StoreNext PROVE QuietStep("store")
  <2>1. CASE StoreEmptySet
    BY <2>1 DEF StoreEmptySet, Is, QuietStep, RefusalInv
  <2>2. ASSUME NEW uidBased \in BOOLEAN, StoreStart(uidBased) PROVE QuietStep("store")
    BY <2>2, StartIsQuiet DEF StoreStart
  <2>3. ASSUME NEW id, NEW flags, NEW modSeq, StoreAnswer(id, flags, modSeq) \/ StoreUnsolicited(id, flags)
        PROVE  QuietStep("store")
    BY <2>3, UntaggedIsQuiet DEF StoreAnswer, StoreUnsolicited, Respond
  <2>4. ASSUME NEW code, NEW r, Reply("store", code, r, StoreRead) PROVE QuietStep("store")
    BY <2>4, TaggedIsQuiet DEF Reply
  <2>. QED BY <1>2, <2>1, <2>2, <2>3, <2>4 DEF StoreNext
<1>3. ASSUME CopyNext PROVE QuietStep("copy") \/ QuietStep("move")
  BY <1>3, StartIsQuiet, UntaggedIsQuiet, TaggedIsQuiet DEF CopyNext, CopyStart, MoveStart, Respond, Reply
<1>4. ASSUME ExpungeNext PROVE QuietStep("expunge") \/ QuietStep("close")
  BY <1>4, StartIsQuiet, UntaggedIsQuiet, TaggedIsQuiet DEF ExpungeNext, ExpungeStart, CloseStart, Respond, Reply
<1>5. ASSUME SearchNext PROVE QuietStep("search")
  BY <1>5, StartIsQuiet, UntaggedIsQuiet, TaggedIsQuiet DEF SearchNext, SearchStart, Respond, Reply
<1>. QED BY <1>1, <1>2, <1>3, <1>4, <1>5, LostIsQuiet DEF MessageNext, MessageClasses

(* The same of the jobs about rights and quotas.                           *)
LEMMA AccountIsQuiet == AccountNext => \E c \in AccountClasses : QuietStep(c)
<1>1. ASSUME RightsNext PROVE \E c \in AccountClasses : QuietStep(c)
  <2>1. GetAclStart \/ SetAclStart \/ DeleteAclStart \/ ListRightsStart \/ MyRightsStart
          => \E c \in AccountClasses : QuietStep(c)
    BY StartIsQuiet DEF GetAclStart, SetAclStart, DeleteAclStart, ListRightsStart, MyRightsStart, AccountClasses
  <2>2. ASSUME NEW c \in AccountClasses, NEW r, Untagged(c, r) PROVE \E d \in AccountClasses : QuietStep(d)
    BY <2>2, UntaggedIsQuiet
  <2>3. ASSUME NEW c \in AccountClasses, NEW code, NEW r, Tagged(c, code, r) PROVE \E d \in AccountClasses : QuietStep(d)
    BY <2>3, TaggedIsQuiet
  <2>4. SetAclRights => QuietStep("setacl")
    BY DEF SetAclRights, jobVars, Is, QuietStep, RefusalInv
  <2>. QED BY <1>1, <2>1, <2>2, <2>3, <2>4 DEF RightsNext, Respond, Reply, AccountClasses
<1>2. ASSUME QuotaNext PROVE \E c \in AccountClasses : QuietStep(c)
  <2>1. GetQuotaStart \/ SetQuotaStart \/ GetQuotaRootStart => \E c \in AccountClasses : QuietStep(c)
    BY StartIsQuiet DEF GetQuotaStart, SetQuotaStart, GetQuotaRootStart, AccountClasses
  <2>2. ASSUME NEW c \in AccountClasses, NEW r, Untagged(c, r) PROVE \E d \in AccountClasses : QuietStep(d)
    BY <2>2, UntaggedIsQuiet
  <2>3. ASSUME NEW c \in AccountClasses, NEW code, NEW r, Tagged(c, code, r) PROVE \E d \in AccountClasses : QuietStep(d)
    BY <2>3, TaggedIsQuiet
  <2>. QED BY <1>2, <2>1, <2>2, <2>3 DEF QuotaNext, Respond, Reply, AccountClasses
<1>. QED BY <1>1, <1>2, LostIsQuiet DEF AccountNext, AccountClasses

(* The same of the jobs about the server, CREATE and DELETE with their     *)
(* forgiven refusals among them.                                           *)
LEMMA ServerIsQuiet == ServerNext => \E c \in ServerClasses : QuietStep(c)
<1>1. ASSUME ServerStart PROVE \E c \in ServerClasses : QuietStep(c)
  BY <1>1, StartIsQuiet DEF ServerStart, NamedStart, SubscribeStart, UnsubscribeStart, RenameStart, IdStart,
     CapabilitiesStart, EnableStart, NamespaceStart, StatusStart, CreateStart, DeleteStart,
     ServerClasses, PlainServerJobs, NamingJobs
<1>2. ASSUME ServerResponse PROVE \E c \in ServerClasses : QuietStep(c)
  BY <1>2, UntaggedIsQuiet DEF ServerResponse, Respond, ServerClasses
<1>3. ASSUME ServerReply PROVE \E c \in ServerClasses : QuietStep(c)
  BY <1>3, TaggedIsQuiet DEF ServerReply, Reply, ServerClasses
<1>4. ASSUME NEW c \in {"create", "delete"}, NEW code, NEW r, MailBoxReply(c, code, r)
      PROVE  QuietStep(c)
  BY <1>4, HandledIsRefused DEF MailBoxReply, Is, QuietStep
<1>. QED BY <1>1, <1>2, <1>3, <1>4, LostIsQuiet DEF ServerNext, ServerClasses

(* The same of the jobs about metadata, one of which looks at its replies  *)
(* itself.                                                                 *)
LEMMA MetaIsQuiet == MetaNext => \E c \in MetaClasses : QuietStep(c)
<1>1. ASSUME SetStart \/ AddEntry PROVE QuietStep("setmetadata")
  BY <1>1, StartIsQuiet DEF SetStart, AddEntry, jobVars, Is, QuietStep, RefusalInv
<1>2. ASSUME SetContinue PROVE QuietStep("setmetadata")
  BY <1>2 DEF SetContinue, jobVars, Is, QuietStep, RefusalInv
<1>3. ASSUME NEW code \in Codes \ {"malformed"}, NEW reason, SetReply(code, reason) PROVE QuietStep("setmetadata")
  BY <1>3 DEF SetReply, ErrorAfter, Is, QuietStep, RefusalInv
<1>4. ASSUME GetNext PROVE QuietStep("getmetadata")
  BY <1>4, StartIsQuiet, UntaggedIsQuiet, TaggedIsQuiet DEF GetNext, Respond, Reply
<1>. QED BY <1>1, <1>2, <1>3, <1>4, LostIsQuiet DEF MetaNext, MetaClasses

-----------------------------------------------------------------------------

(* What these jobs have in common.                                         *)
QuietClasses == MessageClasses \union AccountClasses \union ServerClasses \union MetaClasses

(* Together: what holds for a quiet step holds for the steps of these four *)
(* modules.                                                                *)
LEMMA DataIsQuiet ==
  MessageNext \/ AccountNext \/ ServerNext \/ MetaNext => \E c \in QuietClasses : QuietStep(c)
BY MessageIsQuiet, AccountIsQuiet, ServerIsQuiet, MetaIsQuiet DEF QuietClasses

(* A step of a class is taken by a job of that class, which it stays.      *)
LEMMA LoginIsLogin == LoginNext => class = "login" /\ class' = class /\ UNCHANGED <<timer, reported>>
BY DEF LoginNext, LoginStart, LoginRefused, SslResponse, CapabilityResponse, Malformed, Continuation, LoginReply,
   ConnectionLost, Tell, Is

(* The same of ListJob.                                                    *)
LEMMA ListIsList == ListNext => class = "list" /\ class' = class
BY DEF ListNext, ListStart, ListResponse, StatusResponse, ListEmit, ListReply, HandleErrorReplies,
   ConnectionLost, SendCommands, Tell, Is

(* The same of FetchJob.                                                   *)
LEMMA FetchIsFetch == FetchNext => class = "fetch" /\ class' = class
BY DEF FetchNext, FetchStart, FetchRequested, FetchResponse, VanishedResponse, ExpungeResponse, FetchEmit, FetchReply,
   HandleErrorReplies, ConnectionLost, SendCommands, Tell, Is

(* What the server says to a FetchJob does not touch its timer.            *)
LEMMA FetchIsTold ==
  ASSUME \/ FetchRequested \/ VanishedResponse
         \/ \E n \in DOMAIN mailbox : FetchResponse(n, <<Item("FLAGS", "")>>, Leaf, FALSE) \/ ExpungeResponse(n)
  PROVE  timer' = timer /\ \E r : Tell(r)
<1>1. ASSUME NEW n, NEW items, NEW structure, NEW truncated, FetchResponse(n, items, structure, truncated)
      PROVE  timer' = timer /\ \E r : Tell(r)
  BY <1>1 DEF FetchResponse
<1>2. VanishedResponse \/ (\E n \in DOMAIN mailbox : ExpungeResponse(n)) => timer' = timer /\ \E r : Tell(r)
  BY DEF VanishedResponse, ExpungeResponse
<1>. QED BY <1>1, <1>2 DEF FetchRequested

(* The same of SelectJob.                                                  *)
LEMMA SelectIsSelect == SelectNext => class = "select" /\ class' = class
BY DEF SelectNext, SelectStart, FactResponse, BareResponse, VanishedEarlier, Changed, SelectEmit, SelectReply,
   HandleErrorReplies, ConnectionLost, SendCommands, Tell, Is

(* The same of IdleJob.                                                    *)
LEMMA IdleIsIdle == IdleNext => class = "idle" /\ class' = class
BY DEF IdleNext, IdleStart, Exists, Recent, FlagsChanged, IdleContinuation, IdleTimeout, IdleReply,
   HandleErrorReplies, ConnectionLost, SendCommand, SendCommands, Tell, Is

-----------------------------------------------------------------------------

(* The login.  The command that is open is the one of the state the job is *)
(* in; ENABLE follows an accepted login; SASL begins only where the        *)
(* connection is as safe as the application asked for; and the job knows   *)
(* what the server has offered last.                                       *)
LoginSteps == {"PreStartTlsCapability", "StartTls", "Capability", "Login", "Authenticate", "EnableUtf8"}

LoggedIn == {"Login", "Authenticate"} \intersect accepted # {}

SafeEnough == encryptionMode = "Unencrypted" \/ encrypted

OfferedAt == {k \in DOMAIN told : told[k].kind = "CAPABILITY"}

ToldInv ==
  /\ OfferedAt # {} => Max(OfferedAt) \in OfferedAt
  /\ told \in Seq([kind : {"CAPABILITY", "+"}, value : Offers \union {{}}])
  /\ capabilities = Offered
  /\ "LOGINDISABLED" \in capabilities => plainLoginDisabled

LoginInv ==
  /\ open \in LoginSteps \union {"none"}
  /\ open # "none" => authState = open
  /\ authState = "EnableUtf8" => LoggedIn
  /\ authState = "Authenticate" => SafeEnough
  /\ class = "login" =>
       /\ ToldInv
       /\ phase = "new" => authState = "Login"
       /\ phase = "done" => error \/ unreadable \/ LoggedIn
  /\ SecretsAreSafe

(* The state of the login after the effects its steps are made of.         *)
LEMMA SendIsOpen ==
  ASSUME NEW state \in LoginSteps, Send(state)
  PROVE  /\ open' = state /\ authState' = state /\ phase' = "running"
         /\ UNCHANGED <<error, refused, unreadable>>
BY DEF Send

(* Finish ends the job, with an error if it failed.                        *)
LEMMA FinishIsEnd ==
  ASSUME NEW failed \in BOOLEAN, Finish(failed)
  PROVE  /\ open' = "none" /\ phase' = "done"
         /\ error => error'
         /\ failed => error'
         /\ UNCHANGED <<authState, unreadable>>
BY DEF Finish

(* One more secret that leaves safely, or none, keeps the secrets safe.    *)
LEMMA SafeSecret ==
  ASSUME SecretsAreSafe, NEW with,
         \A secret \in secrets' : secret \in secrets \/ secret = Secret(with),
         \/ encryptionMode' = "Unencrypted"
         \/ /\ encrypted'
            /\ with = "" => "LOGINDISABLED" \notin Offered
            /\ with \in Mechanisms => with \in Offered
  PROVE  SecretsAreSafe'
<1>. DEFINE Safe(secret) == \/ secret.mode = "Unencrypted"
                            \/ /\ secret.encrypted
                               /\ secret.with = "" => "LOGINDISABLED" \notin secret.offered
                               /\ secret.with \in Mechanisms => secret.with \in secret.offered
<1>1. ASSUME NEW secret, secret = Secret(with) PROVE Safe(secret)
  <2>1. secret.mode = encryptionMode' /\ secret.with = with /\ secret.offered = Offered /\ secret.encrypted = encrypted'
    BY <1>1 DEF Secret
  <2>. QED BY <2>1, Zenon
<1>2. \A secret \in secrets : Safe(secret)
  BY DEF SecretsAreSafe
<1>. QED BY <1>1, <1>2 DEF SecretsAreSafe

(* LogIn sends a secret and opens a command, or fails; it is safe where    *)
(* its caller has seen to that.                                            *)
LEMMA LogInIsSafe ==
  ASSUME LogIn, SecretsAreSafe,
         \/ encryptionMode' = "Unencrypted"
         \/ /\ encrypted'
            /\ authMode' = "" => "LOGINDISABLED" \notin Offered
            /\ authMode' \in Mechanisms => authMode' \in Offered
  PROVE  /\ SecretsAreSafe'
         /\ refused' = refused
         /\ unreadable' = unreadable
         /\ error => error'
         /\ \/ phase' = "running" /\ open' = authState' /\ open' = IF authMode' = "" THEN "Login" ELSE "Authenticate"
            \/ phase' = "done" /\ error' /\ open' = "none" /\ authState' = authState
<1>1. CASE Send(IF authMode' = "" THEN "Login" ELSE "Authenticate") /\ secrets' = secrets \union {Secret(authMode')}
  <2>1. \A secret \in secrets' : secret \in secrets \/ secret = Secret(authMode')
    BY <1>1
  <2>2. SecretsAreSafe'
    BY <2>1, SafeSecret
  <2>3. "Login" \in LoginSteps /\ "Authenticate" \in LoginSteps
    BY DEF LoginSteps
  <2>4. /\ open' = (IF authMode' = "" THEN "Login" ELSE "Authenticate") /\ authState' = open' /\ phase' = "running"
        /\ UNCHANGED <<error, refused, unreadable>>
    BY <1>1, <2>3, SendIsOpen
  <2>. QED BY <2>2, <2>4
<1>2. CASE Finish(TRUE) /\ UNCHANGED <<refused, secrets>>
  <2>1. open' = "none" /\ phase' = "done" /\ error' /\ UNCHANGED <<authState, unreadable>>
    BY <1>2, FinishIsEnd
  <2>. QED BY <1>2, <2>1 DEF SecretsAreSafe
<1>. QED BY <1>1, <1>2 DEF LogIn

(* The last offer after one more response: this response if it is          *)
(* CAPABILITY, or else the one before.                                     *)
LEMMA OfferedGrows ==
  ASSUME NEW S, NEW r \in S, told \in Seq(S), told' = Append(told, r),
         OfferedAt # {} => Max(OfferedAt) \in OfferedAt
  PROVE  /\ Offered' = IF r.kind = "CAPABILITY" THEN r.value ELSE Offered
         /\ OfferedAt' # {} => Max(OfferedAt') \in OfferedAt'
<1>. DEFINE n == Len(told) + 1
<1>1. /\ Len(told) \in Nat /\ DOMAIN told = 1..Len(told) /\ DOMAIN told' = 1..n
      /\ told'[n] = r
      /\ \A k \in 1..Len(told) : told'[k] = told[k]
  OBVIOUS
<1>2. CASE r.kind = "CAPABILITY"
  <2>1. OfferedAt' = OfferedAt \union {n}
    BY <1>1, <1>2 DEF OfferedAt
  <2>2. n \in OfferedAt' /\ \A y \in OfferedAt' : n >= y
    BY <1>1, <2>1 DEF OfferedAt
  <2>3. \A x \in OfferedAt' : (\A y \in OfferedAt' : x >= y) => x = n
    BY <1>1, <2>1, <2>2 DEF OfferedAt
  <2>4. Max(OfferedAt') = n
    BY <2>2, <2>3 DEF Max
  <2>. QED BY <1>1, <1>2, <2>2, <2>4 DEF Offered, OfferedAt
<1>3. CASE r.kind # "CAPABILITY"
  <2>1. OfferedAt' = OfferedAt
    BY <1>1, <1>3 DEF OfferedAt
  <2>2. OfferedAt # {} => told'[Max(OfferedAt)] = told[Max(OfferedAt)]
    BY <1>1 DEF OfferedAt
  <2>. QED BY <1>3, <2>1, <2>2 DEF Offered, OfferedAt
<1>. QED BY <1>2, <1>3

(* What is kept by a step that appends nothing to the responses, and by    *)
(* the one that does.                                                      *)
LEMMA ToldStays ==
  ASSUME ToldInv, UNCHANGED <<told, offerVars>>
  PROVE  ToldInv'
BY DEF ToldInv, Offered, OfferedAt, offerVars

(* doStart() logs in at once only where no encryption was asked for.       *)
LEMMA LoginStartKeeps == LoginInv /\ LoginStart => LoginInv'
<1>. SUFFICES ASSUME LoginInv, LoginStart PROVE LoginInv'
  OBVIOUS
<1>1. /\ class = "login" /\ class' = "login" /\ phase = "new" /\ authState = "Login"
      /\ authMode' \in Mechanisms \union {""} /\ encryptionMode' \in EncryptionMode
      /\ negotiating' = (~encrypted' /\ encryptionMode' = "SSLorTLS") /\ encrypted' \in BOOLEAN
      /\ UNCHANGED <<told, offerVars, accepted>>
  BY DEF LoginStart, LoginInv, Is
<1>2. ToldInv'
  BY <1>1, ToldStays DEF LoginInv
<1>3. CASE \E state \in {"Capability", "PreStartTlsCapability"} : Send(state) /\ UNCHANGED secrets
  <2>1. PICK state \in {"Capability", "PreStartTlsCapability"} : Send(state) /\ UNCHANGED secrets
    BY <1>3
  <2>2. open' = state /\ authState' = state /\ phase' = "running"
    BY <2>1, SendIsOpen DEF LoginSteps
  <2>. QED BY <1>1, <1>2, <2>1, <2>2 DEF LoginInv, LoginSteps, SecretsAreSafe
<1>4. CASE phase' = "running" /\ UNCHANGED <<tags, error, refused, authState, open, unreadable, secrets>>
  BY <1>1, <1>2, <1>4 DEF LoginInv, SecretsAreSafe
<1>5. CASE LogIn /\ encryptionMode' = "Unencrypted"
  <2>1. /\ SecretsAreSafe'
        /\ \/ phase' = "running" /\ open' = authState' /\ open' = IF authMode' = "" THEN "Login" ELSE "Authenticate"
           \/ phase' = "done" /\ error' /\ open' = "none" /\ authState' = authState
    BY <1>5, LogInIsSafe DEF LoginInv
  <2>. QED BY <1>1, <1>2, <1>5, <2>1 DEF LoginInv, LoginSteps, SafeEnough
<1>. QED BY <1>1, <1>3, <1>4, <1>5 DEF LoginStart, EncryptionMode

(* sslResponse(): the negotiation has succeeded, or no encryption is asked *)
(* for any more.                                                           *)
LEMMA SslResponseKeeps ==
  ASSUME LoginInv, NEW response, SslResponse(response)
  PROVE  LoginInv'
<1>1. /\ class = "login" /\ class' = "login" /\ encrypted' = response
      /\ UNCHANGED <<told, offerVars, accepted, secrets>>
  BY DEF SslResponse, Is
<1>2. ToldInv' /\ SecretsAreSafe'
  BY <1>1, ToldStays DEF LoginInv, SecretsAreSafe
<1>3. CASE response
  <2>1. open' = "Capability" /\ authState' = "Capability" /\ phase' = "running"
    BY <1>3, SendIsOpen DEF SslResponse, LoginSteps
  <2>. QED BY <1>1, <1>2, <2>1 DEF LoginInv, LoginSteps
<1>4. CASE ~response
  <2>1. open' = "none" /\ authState' = authState /\ phase' = "done" /\ error' /\ encryptionMode' = "Unencrypted"
    BY <1>4, FinishIsEnd DEF SslResponse
  <2>. QED BY <1>1, <1>2, <2>1 DEF LoginInv, LoginSteps, LoggedIn, SafeEnough
<1>. QED BY <1>3, <1>4

(* CAPABILITY and "+": the job notes what is offered, or answers a         *)
(* challenge.                                                              *)
LEMMA ResponseKeeps ==
  ASSUME LoginInv,
         (\E offer \in Offers : CapabilityResponse(offer)) \/ (\E answerable \in BOOLEAN : Continuation(answerable))
  PROVE  LoginInv'
<1>. DEFINE Responses == [kind : {"CAPABILITY", "+"}, value : Offers \union {{}}]
<1>1. CASE \E offer \in Offers : CapabilityResponse(offer)
  <2>1. PICK offer \in Offers : CapabilityResponse(offer)
    BY <1>1
  <2>2. /\ class = "login" /\ class' = "login" /\ phase = "running" /\ phase' = "running"
        /\ told' = Append(told, [kind |-> "CAPABILITY", value |-> offer])
        /\ CapabilitiesUpdated(offer)
        /\ UNCHANGED <<choiceVars, authState, connectionVars, open, accepted, secrets>>
    BY <2>1 DEF CapabilityResponse, Tell, Is
  <2>3. [kind |-> "CAPABILITY", value |-> offer] \in Responses /\ told \in Seq(Responses)
    BY <2>2 DEF LoginInv, ToldInv
  <2>4. Offered' = offer /\ (OfferedAt' # {} => Max(OfferedAt') \in OfferedAt')
    BY <2>2, <2>3, OfferedGrows DEF LoginInv, ToldInv
  <2>5. ToldInv'
    <3>1. told' \in Seq(Responses)
      BY <2>2, <2>3
    <3>2. "LOGINDISABLED" \in capabilities' => plainLoginDisabled'
      BY <2>2 DEF CapabilitiesUpdated
    <3>3. capabilities' = Offered'
      BY <2>2, <2>4 DEF CapabilitiesUpdated
    <3>. QED BY <2>4, <3>1, <3>2, <3>3 DEF ToldInv
  <2>. QED BY <2>2, <2>5 DEF LoginInv, SecretsAreSafe, LoggedIn, SafeEnough, choiceVars, connectionVars
<1>2. CASE \E answerable \in BOOLEAN : Continuation(answerable)
  <2>1. PICK answerable \in BOOLEAN : Continuation(answerable)
    BY <1>2
  <2>2. /\ class = "login" /\ class' = "login" /\ phase = "running" /\ authState = "Authenticate"
        /\ told' = Append(told, [kind |-> "+", value |-> {}])
        /\ UNCHANGED <<choiceVars, authState, offerVars, connectionVars, accepted>>
        /\ \/ UNCHANGED <<phase, error, open>> /\ secrets' = secrets \union {Secret("+")}
           \/ phase' = "done" /\ error' = TRUE /\ open' = "none" /\ UNCHANGED secrets
    BY <2>1 DEF Continuation, AnswerChallenge, Is
  <2>3. [kind |-> "+", value |-> {}] \in Responses /\ told \in Seq(Responses)
    BY <2>2 DEF LoginInv, ToldInv
  <2>4. Offered' = Offered /\ (OfferedAt' # {} => Max(OfferedAt') \in OfferedAt')
    BY <2>2, <2>3, OfferedGrows DEF LoginInv, ToldInv
  <2>5. ToldInv'
    BY <2>2, <2>3, <2>4 DEF LoginInv, ToldInv, offerVars
  <2>6. (encryptionMode' = "Unencrypted" \/ encrypted') /\ SafeEnough'
    BY <2>2 DEF LoginInv, SafeEnough, choiceVars, connectionVars
  <2>7. SecretsAreSafe'
    <3>1. \A secret \in secrets' : secret \in secrets \/ secret = Secret("+")
      BY <2>2
    <3>. QED BY <2>6, <3>1, SafeSecret, LoginAssumption DEF LoginInv
  <2>. QED BY <2>2, <2>5, <2>6, <2>7 DEF LoginInv, LoggedIn
<1>. QED BY <1>1, <1>2

(* A tagged reply: the password leaves only after the job has looked at    *)
(* what is offered and at the connection, and only an accepted login goes  *)
(* on to its end.                                                          *)
LEMMA LoginReplyKeeps ==
  ASSUME LoginInv, NEW code, LoginReply(code)
  PROVE  LoginInv'
<1>1. /\ class = "login" /\ class' = "login" /\ phase = "running" /\ open \in LoginSteps /\ authState = open
      /\ UNCHANGED <<told, choiceVars, offerVars, encrypted>>
  BY DEF LoginReply, LoginInv, Is
<1>2. ToldInv' /\ (SafeEnough' <=> SafeEnough)
  BY <1>1, ToldStays DEF LoginInv, SafeEnough, choiceVars
<1>3. CASE LoginOk
  <2>1. accepted' = accepted \union {open} /\ (LoggedIn => LoggedIn') /\ (open \in {"Login", "Authenticate"} => LoggedIn')
    BY <1>3 DEF LoginOk, LoggedIn
  <2>2. CASE (\E state \in {"StartTls", "EnableUtf8"} : Send(state) /\ (state = "EnableUtf8" => LoggedIn')) /\ UNCHANGED secrets
    <3>1. PICK state \in {"StartTls", "EnableUtf8"} : Send(state) /\ (state = "EnableUtf8" => LoggedIn')
      BY <2>2
    <3>2. open' = state /\ authState' = state /\ phase' = "running"
      BY <3>1, SendIsOpen DEF LoginSteps
    <3>. QED BY <1>1, <1>2, <2>1, <2>2, <3>1, <3>2 DEF LoginInv, LoginSteps, SecretsAreSafe
  <2>3. CASE (Finish(TRUE) \/ (Finish(FALSE) /\ LoggedIn')) /\ UNCHANGED secrets
    <3>1. open' = "none" /\ phase' = "done" /\ authState' = authState /\ (error' \/ LoggedIn')
      BY <2>3, FinishIsEnd
    <3>. QED BY <1>1, <1>2, <2>1, <2>3, <3>1 DEF LoginInv, LoginSteps, SecretsAreSafe
  <2>4. CASE open' = "none" /\ UNCHANGED <<phase, authState, secrets>>
    BY <1>1, <1>2, <2>1, <2>4 DEF LoginInv, LoginSteps, SecretsAreSafe
  <2>5. CASE MayLogIn /\ LogIn
    <3>1. \/ encryptionMode' = "Unencrypted"
          \/ /\ encrypted'
             /\ authMode' = "" => "LOGINDISABLED" \notin Offered
             /\ authMode' \in Mechanisms => authMode' \in Offered
      BY <1>1, <2>5, LoginAssumption DEF MayLogIn, LoginInv, ToldInv, choiceVars
    <3>2. SafeEnough'
      BY <1>2, <2>5 DEF MayLogIn, SafeEnough
    <3>3. /\ SecretsAreSafe'
          /\ \/ phase' = "running" /\ open' = authState' /\ open' = IF authMode' = "" THEN "Login" ELSE "Authenticate"
             \/ phase' = "done" /\ error' /\ open' = "none" /\ authState' = authState
      BY <2>5, <3>1, LogInIsSafe DEF LoginInv
    <3>. QED BY <1>1, <1>2, <2>1, <3>2, <3>3 DEF LoginInv, LoginSteps
  <2>6. open = "EnableUtf8" => LoggedIn'
    BY <1>1, <2>1 DEF LoginInv
  <2>. QED
    BY <1>1, <1>3, <2>1, <2>2, <2>3, <2>4, <2>5, <2>6
    DEF LoginOk, AfterPreStartTlsCapability, AfterStartTls, AfterCapability, AfterLogin, LoginSteps
<1>4. CASE LoginError
  <2>1. UNCHANGED <<secrets, accepted>> /\ Finish(authState # "EnableUtf8")
    BY <1>4 DEF LoginError
  <2>2. open' = "none" /\ phase' = "done" /\ authState' = authState /\ (authState # "EnableUtf8" => error')
    BY <2>1, FinishIsEnd
  <2>. QED BY <1>1, <1>2, <2>1, <2>2 DEF LoginInv, LoginSteps, LoggedIn, SecretsAreSafe
<1>. QED BY <1>3, <1>4 DEF LoginReply

(* Every step of the login keeps its invariant.                            *)
LEMMA LoginKeepsLogin == LoginInv /\ LoginNext => LoginInv'
<1>. SUFFICES ASSUME LoginInv, LoginNext PROVE LoginInv'
  OBVIOUS
<1>1. CASE LoginRefused
  <2>1. /\ class = "login" /\ class' = "login" /\ UNCHANGED <<told, offerVars, choiceVars, connectionVars, accepted, secrets>>
        /\ open' = "none" /\ phase' = "done" /\ authState' = authState /\ error'
    BY <1>1, FinishIsEnd DEF LoginRefused, Is
  <2>2. ToldInv'
    BY <2>1, ToldStays DEF LoginInv
  <2>. QED BY <2>1, <2>2 DEF LoginInv, LoginSteps, LoggedIn, SafeEnough, SecretsAreSafe, choiceVars, connectionVars
<1>2. CASE Malformed
  <2>1. /\ class = "login" /\ class' = "login" /\ phase' = "done" /\ unreadable' = TRUE
        /\ UNCHANGED <<told, offerVars, choiceVars, connectionVars, authState, open, accepted, secrets>>
    BY <1>2 DEF Malformed, Is
  <2>2. ToldInv'
    BY <2>1, ToldStays DEF LoginInv
  <2>. QED BY <2>1, <2>2 DEF LoginInv, LoggedIn, SafeEnough, SecretsAreSafe, choiceVars, connectionVars
<1>3. CASE Is("login") /\ ConnectionLost /\ UNCHANGED loginVars
  <2>1. class = "login" /\ class' = "login" /\ phase' = "done" /\ error' = TRUE /\ UNCHANGED <<told, loginVars, offerVars>>
    BY <1>3 DEF ConnectionLost, Is, loginVars
  <2>2. ToldInv'
    BY <2>1, ToldStays DEF LoginInv
  <2>. QED BY <2>1, <2>2
       DEF LoginInv, LoggedIn, SafeEnough, SecretsAreSafe, loginVars, choiceVars, connectionVars
<1>. QED BY <1>1, <1>2, <1>3, LoginStartKeeps, SslResponseKeeps, ResponseKeeps, LoginReplyKeeps DEF LoginNext

(* What the other classes do is no concern of the login.                   *)
LEMMA OthersKeepLogin ==
  ASSUME LoginInv, class # "login", class' = class, UNCHANGED loginVars
  PROVE  LoginInv'
BY DEF LoginInv, LoggedIn, SafeEnough, SecretsAreSafe, loginVars, choiceVars, connectionVars

(* Every step keeps the invariant of the login.                            *)
LEMMA LoginInvIsKept == LoginInv /\ [Next]_vars => LoginInv'
<1>. SUFFICES ASSUME LoginInv, [Next]_vars PROVE LoginInv'
  OBVIOUS
<1>1. CASE UNCHANGED vars
  <2>1. UNCHANGED <<class, phase, error, told, loginVars, offerVars>>
    BY <1>1 DEF vars, jobVars, loginVars
  <2>2. class = "login" => ToldInv'
    BY <2>1, ToldStays DEF LoginInv
  <2>. QED BY <2>1, <2>2
       DEF LoginInv, LoggedIn, SafeEnough, SecretsAreSafe, loginVars, choiceVars, connectionVars
<1>2. CASE LoginNext
  BY <1>2, LoginKeepsLogin
<1>3. CASE \/ ListNext /\ UNCHANGED loginVars
           \/ FetchNext /\ UNCHANGED loginVars
           \/ SelectNext /\ UNCHANGED loginVars
           \/ IdleNext /\ UNCHANGED loginVars
  BY <1>3, ListIsList, FetchIsFetch, SelectIsSelect, IdleIsIdle, OthersKeepLogin
<1>4. CASE (MessageNext \/ AccountNext \/ ServerNext \/ MetaNext) /\ UNCHANGED loginVars
  <2>1. PICK c \in QuietClasses : QuietStep(c)
    BY <1>4, DataIsQuiet
  <2>2. class # "login" /\ class' = class
    BY <2>1 DEF QuietStep, QuietClasses, MessageClasses, AccountClasses, ServerClasses, PlainServerJobs, NamingJobs,
       MetaClasses
  <2>. QED BY <1>4, <2>2, OthersKeepLogin
<1>. QED BY <1>1, <1>2, <1>3, <1>4 DEF Next

-----------------------------------------------------------------------------

(* RefusalIsTold.  The classes that look at a reply in their own way keep  *)
(* the invariant too.                                                      *)
LEMMA LoginKeepsRefusal == LoginInv /\ RefusalInv /\ LoginNext => RefusalInv'
<1>. SUFFICES ASSUME LoginInv, RefusalInv, LoginNext PROVE RefusalInv'
  OBVIOUS
<1>1. \A state : Send(state) => UNCHANGED <<error, refused>>
  BY DEF Send
<1>2. \A failed \in BOOLEAN : Finish(failed) => (error => error') /\ (failed => error')
  BY DEF Finish
<1>3. LogIn => (error => error') /\ (refused' = refused)
  BY <1>1, <1>2 DEF LogIn
<1>4. LoginOk /\ open # "none" => (error => error') /\ (refused' = refused)
  BY <1>1, <1>2, <1>3 DEF LoginInv, LoginSteps, LoginOk, AfterPreStartTlsCapability, AfterStartTls, AfterCapability, AfterLogin
<1>5. LoginError => (refused' => error')
  BY <1>2 DEF LoginError
<1>6. LoginStart => (error => error') /\ (refused' = refused)
  BY <1>1, <1>3 DEF LoginStart
<1>7. ASSUME NEW response, SslResponse(response) PROVE (error => error') /\ (refused' = refused)
  BY <1>1, <1>2, <1>7 DEF SslResponse
<1>8. ASSUME NEW answerable, Continuation(answerable) PROVE (error => error') /\ (refused' = refused)
  BY <1>8 DEF Continuation, AnswerChallenge
<1>9. LoginRefused => (error => error') /\ (refused' = refused)
  BY <1>2 DEF LoginRefused
<1>. QED
  BY <1>4, <1>5, <1>6, <1>7, <1>8, <1>9
  DEF RefusalInv, LoginNext, CapabilityResponse, Malformed, LoginReply, ConnectionLost, Tell

(* So do the classes that report by signals of their own.                  *)
LEMMA ReportingKeepsRefusal ==
  RefusalInv /\ (ListNext \/ FetchNext \/ SelectNext \/ IdleNext) => RefusalInv'
<1>. SUFFICES ASSUME RefusalInv, ListNext \/ FetchNext \/ SelectNext \/ IdleNext
              PROVE  RefusalInv'
  OBVIOUS
<1>1. \A n : SendCommands(n) => RefusalInv'
  BY DEF SendCommands, RefusalInv
<1>2. \A r : Tell(r) => RefusalInv'
  BY DEF Tell, RefusalInv
<1>3. ConnectionLost => RefusalInv'
  BY DEF ConnectionLost, RefusalInv
<1>4. \A tag, code : HandleErrorReplies(tag, code) => RefusalInv'
  BY HandledIsRefused
<1>5. UNCHANGED <<error, refused>> => RefusalInv'
  BY DEF RefusalInv
<1>6. CASE ListNext
  BY <1>1, <1>2, <1>3, <1>4, <1>5, <1>6 DEF ListNext, ListStart, ListResponse, StatusResponse, ListEmit, ListReply
<1>7. CASE FetchNext
  BY <1>1, <1>2, <1>3, <1>4, <1>5, <1>7, FetchIsTold DEF FetchNext, FetchStart, FetchEmit, FetchReply
<1>8. CASE SelectNext
  BY <1>1, <1>2, <1>3, <1>4, <1>5, <1>8 DEF SelectNext, SelectStart, FactResponse, BareResponse, VanishedEarlier,
     Changed, SelectEmit, SelectReply
<1>9. CASE IdleNext
  BY <1>1, <1>2, <1>3, <1>4, <1>5, <1>9 DEF IdleNext, IdleStart, Exists, Recent, FlagsChanged, IdleContinuation,
     IdleTimeout, IdleReply, SendCommand
<1>. QED BY <1>6, <1>7, <1>8, <1>9

(* Every step keeps it.                                                    *)
LEMMA RefusalInvIsKept == LoginInv /\ RefusalInv /\ [Next]_vars => RefusalInv'
<1>1. RefusalInv /\ UNCHANGED vars => RefusalInv'
  BY DEF RefusalInv, vars, jobVars
<1>. QED BY <1>1, LoginKeepsRefusal, ReportingKeepsRefusal, DataIsQuiet DEF Next, QuietStep

-----------------------------------------------------------------------------

(* Only four classes have a timer.  What runs when a reply has ended a     *)
(* ListJob, FetchJob or SelectJob is not it, for the last reply stops it;  *)
(* that of an IdleJob runs exactly as long as a count waits.               *)
TimerInv ==
  /\ timer \in BOOLEAN
  /\ class \notin {"list", "fetch", "select", "idle"} => ~timer
  /\ phase = "done" /\ ~gone => ~timer
  /\ class = "idle" /\ ~gone => (timer <=> Pair # Stats(None, None))

(* A step that starts, is told something or loses the connection does not  *)
(* touch the end of the job, and the reply that ends it is the last one.   *)
LEMMA RunningIsNotDone ==
  /\ \A n : SendCommands(n) => phase = "new" /\ phase' = "running" /\ gone' = gone
  /\ \A r : Tell(r) => phase = "running" /\ phase' = "running" /\ gone' = gone
  /\ ConnectionLost => gone' /\ timer' = timer /\ reported' = reported /\ phase = "running"
  /\ \A tag, code : HandleErrorReplies(tag, code) =>
       phase = "running" /\ gone' = gone /\ (IsLastReply(tag) \/ phase' = "running")
BY DEF SendCommands, Tell, ConnectionLost, HandleErrorReplies, IsLastReply, DoneWith

(* What is asked of a step: the timer keeps its invariant and after the    *)
(* result nothing is reported.                                             *)
Punctual == TimerInv' /\ (phase = "done" /\ ~gone => UNCHANGED reported)

(* A quiet step of a class without a timer is punctual.                    *)
LEMMA QuietIsPunctual ==
  ASSUME TimerInv, class \notin {"list", "fetch", "select", "idle"}, UNCHANGED <<class, timer, reported>>
  PROVE  Punctual
BY DEF TimerInv, Punctual

(* So are the steps of ListJob, FetchJob and SelectJob: the timer starts   *)
(* with the commands and stops with the last reply.                        *)
LEMMA ReportingIsPunctual ==
  ASSUME TimerInv, class \in {"list", "fetch", "select"}, ListNext \/ FetchNext \/ SelectNext
  PROVE  Punctual
<1>0. class' = class
  BY ListIsList, FetchIsFetch, SelectIsSelect
<1>1. ASSUME NEW n, SendCommands(n), timer' = TRUE PROVE Punctual
  BY <1>0, <1>1, RunningIsNotDone DEF TimerInv, Punctual
<1>2. ASSUME NEW r, Tell(r), timer' = timer PROVE Punctual
  BY <1>0, <1>2, RunningIsNotDone DEF TimerInv, Punctual
<1>3. ASSUME ConnectionLost PROVE Punctual
  BY <1>0, <1>3, RunningIsNotDone DEF TimerInv, Punctual
<1>4. ASSUME NEW tag, NEW code, HandleErrorReplies(tag, code), IF IsLastReply(tag) THEN timer' = FALSE ELSE timer' = timer
      PROVE  Punctual
  BY <1>0, <1>4, RunningIsNotDone DEF TimerInv, Punctual
<1>5. ASSUME timer, UNCHANGED <<class, phase, timer, gone>> PROVE Punctual
  BY <1>0, <1>5 DEF TimerInv, Punctual
<1>6. ASSUME phase = "running", UNCHANGED <<class, phase, timer, gone>> PROVE Punctual
  BY <1>0, <1>6 DEF TimerInv, Punctual
<1>7. CASE ListNext
  BY <1>1, <1>2, <1>3, <1>4, <1>5, <1>6, <1>7
  DEF ListNext, ListStart, ListResponse, StatusResponse, ListEmit, ListReply
<1>8. CASE FetchNext
  BY <1>1, <1>2, <1>3, <1>4, <1>5, <1>8, FetchIsTold DEF FetchNext, FetchStart, FetchEmit, FetchReply
<1>9. CASE SelectNext
  BY <1>1, <1>2, <1>3, <1>4, <1>5, <1>9
  DEF SelectNext, SelectStart, FactResponse, BareResponse, VanishedEarlier, Changed, SelectEmit, SelectReply
<1>. QED BY <1>7, <1>8, <1>9

(* After Settle the timer runs if and only if a count waits.               *)
LEMMA SettledIsTimed ==
  ASSUME NEW before, NEW messages, NEW recent, Settle(before, messages, recent), timer \in BOOLEAN,
         before = <<>> => (timer => messages # None \/ recent # None),
         before # <<>> \/ messages # None \/ recent # None \/ ~timer
  PROVE  timer' \in BOOLEAN /\ (timer' <=> Pair' # Stats(None, None))
<1>. DEFINE due == messages # None /\ recent # None
<1>1. /\ timer' = (IF due THEN FALSE
                   ELSE IF messages # None \/ recent # None THEN TRUE
                   ELSE timer /\ before = <<>>)
      /\ messageCount' = IF due THEN None ELSE messages
      /\ recentCount' = IF due THEN None ELSE recent
  BY DEF Settle
<1>2. Pair' # Stats(None, None) <=> messageCount' # None \/ recentCount' # None
  BY DEF Pair, Stats
<1>3. CASE due
  BY <1>1, <1>2, <1>3
<1>4. CASE ~due /\ (messages # None \/ recent # None)
  BY <1>1, <1>2, <1>4
<1>5. CASE ~due /\ ~(messages # None \/ recent # None)
  BY <1>1, <1>2, <1>5
<1>. QED BY <1>3, <1>4, <1>5

(* So are those of IdleJob, whose timer is off when its last reply finds   *)
(* nothing that waits.                                                     *)
LEMMA IdleIsPunctual ==
  ASSUME TimerInv, IdleNext
  PROVE  Punctual
<1>0. class = "idle" /\ class' = "idle"
  BY IdleIsIdle
<1>1. Pair # Stats(None, None) <=> messageCount # None \/ recentCount # None
  BY DEF Pair, Stats
<1>2. ASSUME NEW r, Tell(r), ~gone => timer' \in BOOLEAN /\ (timer' <=> Pair' # Stats(None, None)), timer' \in BOOLEAN
      PROVE  Punctual
  BY <1>0, <1>2, RunningIsNotDone DEF TimerInv, Punctual
<1>3. CASE \E n \in MailBoxCounts : Exists(n) \/ Recent(n)
  <2>1. PICK n \in MailBoxCounts : Exists(n) \/ Recent(n)
    BY <1>3
  <2>2. n # None /\ <<Pair>> # <<>>
    BY IdleAssumption DEF None
  <2>3. timer' \in BOOLEAN /\ (timer' <=> Pair' # Stats(None, None))
    <3>1. timer \in BOOLEAN
      BY DEF TimerInv
    <3>2. \/ Settle(<<Pair>>, n, None) \/ Settle(<<>>, n, recentCount)
          \/ Settle(<<Pair>>, None, n) \/ Settle(<<>>, messageCount, n)
      BY <2>1 DEF Exists, Recent
    <3>. QED BY <2>2, <3>1, <3>2, SettledIsTimed
  <2>. QED BY <1>2, <2>1, <2>3 DEF Exists, Recent
<1>4. CASE FlagsChanged
  <2>1. PICK r : Tell(r)
    BY <1>4 DEF FlagsChanged
  <2>2. timer \in BOOLEAN /\ Settle(<<>>, messageCount, recentCount)
    BY <1>4 DEF FlagsChanged, TimerInv
  <2>3. timer' \in BOOLEAN
    BY <2>2 DEF Settle
  <2>4. ASSUME ~gone PROVE timer' <=> Pair' # Stats(None, None)
    BY <1>0, <1>1, <2>2, <2>4, SettledIsTimed DEF TimerInv
  <2>. QED BY <1>2, <2>1, <2>3, <2>4
<1>5. CASE IdleContinuation
  <2>1. PICK r : Tell(r)
    BY <1>5 DEF IdleContinuation
  <2>2. UNCHANGED <<timer, messageCount, recentCount>>
    BY <1>5 DEF IdleContinuation, idleVars
  <2>. QED BY <1>0, <1>2, <2>1, <2>2 DEF TimerInv, Pair
<1>6. CASE IdleTimeout
  <2>1. timer' = FALSE /\ Pair' = Stats(None, None) /\ timer /\ UNCHANGED <<phase, gone>>
    BY <1>6 DEF IdleTimeout, EmitStats, Pair
  <2>. QED BY <1>0, <2>1 DEF TimerInv, Punctual
<1>7. ASSUME NEW tag, NEW code, IdleReply(tag, code) PROVE Punctual
  <2>1. phase = "running" /\ gone' = gone /\ (IsLastReply(tag) \/ phase' = "running")
    BY <1>7, RunningIsNotDone DEF IdleReply
  <2>2. CASE IsLastReply(tag) /\ Pair # Stats(None, None)
    <3>1. timer' = FALSE /\ Pair' = Stats(None, None)
      BY <1>7, <2>2 DEF IdleReply, EmitStats, Pair
    <3>. QED BY <1>0, <2>1, <3>1 DEF TimerInv, Punctual
  <2>3. CASE ~(IsLastReply(tag) /\ Pair # Stats(None, None))
    <3>1. UNCHANGED <<timer, messageCount, recentCount>>
      BY <1>7, <2>3 DEF IdleReply, idleVars
    <3>2. Pair' = Pair
      BY <3>1 DEF Pair
    <3>. QED BY <1>0, <2>1, <2>3, <3>1, <3>2 DEF TimerInv, Punctual
  <2>. QED BY <2>2, <2>3
<1>8. CASE IdleStart
  <2>1. UNCHANGED <<timer, messageCount, recentCount, gone>> /\ phase = "new" /\ phase' = "running"
    BY <1>8, RunningIsNotDone DEF IdleStart, SendCommand, idleVars
  <2>. QED BY <1>0, <2>1 DEF TimerInv, Punctual, Pair
<1>9. CASE ConnectionLost
  BY <1>0, <1>9, RunningIsNotDone DEF TimerInv, Punctual
<1>. QED BY <1>3, <1>4, <1>5, <1>6, <1>7, <1>8, <1>9 DEF IdleNext

(* Every step is punctual.                                                 *)
LEMMA StepIsPunctual == TimerInv /\ [Next]_vars => Punctual
<1>. SUFFICES ASSUME TimerInv, [Next]_vars PROVE Punctual
  OBVIOUS
<1>1. CASE UNCHANGED vars
  BY <1>1 DEF TimerInv, Punctual, Pair, vars, jobVars, idleVars
<1>2. CASE LoginNext
  BY <1>2, LoginIsLogin, QuietIsPunctual
<1>3. CASE ListNext \/ FetchNext \/ SelectNext
  BY <1>3, ListIsList, FetchIsFetch, SelectIsSelect, ReportingIsPunctual
<1>4. CASE IdleNext
  BY <1>4, IdleIsPunctual
<1>5. CASE MessageNext \/ AccountNext \/ ServerNext \/ MetaNext
  <2>1. PICK c \in QuietClasses : QuietStep(c)
    BY <1>5, DataIsQuiet
  <2>2. class \notin {"list", "fetch", "select", "idle"} /\ UNCHANGED <<class, timer, reported>>
    BY <2>1 DEF QuietStep, QuietClasses, MessageClasses, AccountClasses, ServerClasses, PlainServerJobs, NamingJobs,
       MetaClasses
  <2>. QED BY <2>2, QuietIsPunctual
<1>. QED BY <1>1, <1>2, <1>3, <1>4, <1>5 DEF Next

-----------------------------------------------------------------------------

(* The three invariants, and what follows from them.                       *)
JobInv == LoginInv /\ RefusalInv /\ TimerInv

(* The invariants hold in every behaviour of every class.                  *)
LEMMA JobInvHolds == Spec => []JobInv
<1>1. Init => JobInv
  <2>1. ASSUME Init PROVE LoginInv
    <3>1. told = <<>> /\ capabilities = {} /\ secrets = {} /\ open = "none" /\ authState = "Login" /\ phase = "new"
      BY <2>1 DEF Init, JobInit, LoginInit
    <3>2. OfferedAt = {} /\ Offered = {}
      BY <3>1 DEF OfferedAt, Offered
    <3>3. told \in Seq([kind : {"CAPABILITY", "+"}, value : Offers \union {{}}])
      BY <3>1
    <3>4. ToldInv
      BY <3>1, <3>2, <3>3 DEF ToldInv
    <3>. QED BY <3>1, <3>4 DEF LoginInv, SecretsAreSafe
  <2>2. ASSUME Init PROVE RefusalInv /\ TimerInv
    BY <2>2 DEF Init, JobInit, IdleInit, RefusalInv, TimerInv, Pair
  <2>. QED BY <2>1, <2>2 DEF JobInv
<1>2. JobInv /\ [Next]_vars => JobInv'
  BY LoginInvIsKept, RefusalInvIsKept, StepIsPunctual DEF JobInv, Punctual
<1>. QED BY <1>1, <1>2, PTL DEF Spec

(* A job that the server has refused a command ends with an error, whatever *)
(* becomes of its other commands.                                          *)
THEOREM RefusedJobFails == Spec => []RefusalIsTold
<1>1. JobInv => RefusalIsTold
  BY DEF JobInv, RefusalInv, RefusalIsTold
<1>. QED BY <1>1, JobInvHolds, PTL

(* A login that ends without an error and could be read was accepted.      *)
THEOREM SuccessIsALogin == Spec => []LoginIsReal
<1>1. JobInv => LoginIsReal
  BY DEF JobInv, LoginInv, LoggedIn, LoginIsReal, Succeeded, Is
<1>. QED BY <1>1, JobInvHolds, PTL

(* The password leaves only on a connection as safe as was asked for and   *)
(* only in a way the server has offered last.                              *)
THEOREM SecretsStaySafe == Spec => []SecretsAreSafe
<1>1. JobInv => SecretsAreSafe
  BY DEF JobInv, LoginInv
<1>. QED BY <1>1, JobInvHolds, PTL

(* No timer fires into the application once a reply has ended a job.       *)
THEOREM NothingAfterTheResult == Spec => ResultIsLast
<1>1. JobInv /\ [Next]_vars => [phase = "done" /\ ~gone => UNCHANGED reported]_jobVars
  BY StepIsPunctual DEF JobInv, Punctual
<1>. QED BY <1>1, JobInvHolds, PTL DEF Spec, ResultIsLast

-----------------------------------------------------------------------------

(* ListedIsReported, where the server has no name that would have to be    *)
(* encoded.                                                                *)
Name       == [top : {"INBOX"} \union {name.top : name \in MailBoxes}, below : {name.below : name \in MailBoxes}]
Flags      == {"", "\\noselect"}
Status     == {NoStatus, "some"}
Descriptor == [name : Name, flags : Flags]
Listing    == [name : Name, flags : Flags, status : Status]

ListType ==
  /\ pendingDescriptors \in Seq(Descriptor) /\ pendingStatus \in Seq(Status)
  /\ told \in Seq(Listing) /\ reported \in Seq(Listing)
  /\ Len(pendingStatus) <= Len(pendingDescriptors) /\ Len(pendingDescriptors) <= Len(pendingStatus) + 1

(* What the k-th mailbox that waits will be reported as.                   *)
Waiting(k) ==
  [name |-> pendingDescriptors[k].name, flags |-> pendingDescriptors[k].flags,
   status |-> IF k <= Len(pendingStatus) THEN pendingStatus[k] ELSE NoStatus]

(* A mailbox of which the server may still say the status.                 *)
AwaitsStatus ==
  /\ phase = "running" /\ Len(told) > 0
  /\ told[Len(told)].flags # "\\noselect" /\ told[Len(told)].status = NoStatus

(* The responses are those reported and then those that wait, and the last *)
(* has a place for its status as long as that may come.                    *)
Accounted ==
  /\ Len(told) = Len(reported) + Len(pendingDescriptors)
  /\ \A k \in 1..Len(reported) : reported[k] = told[k]
  /\ \A k \in 1..Len(pendingDescriptors) : told[Len(reported) + k] = Waiting(k)

ListInv ==
  class = "list" =>
    /\ ListType
    /\ Accounted
    /\ AwaitsStatus => Len(pendingDescriptors) = Len(pendingStatus) + 1
    /\ phase = "new" => told = <<>>
    /\ phase = "done" /\ ~gone => pendingDescriptors = <<>>

(* What emitPendings() pairs, element by element.                          *)
LEMMA PendingIsWaiting ==
  ASSUME ListType
  PROVE  /\ Pending \in Seq(Listing) /\ Len(Pending) = Len(pendingDescriptors)
         /\ \A k \in 1..Len(pendingDescriptors) : Pending[k] = Waiting(k)
         /\ Padded \in Seq(Status) /\ Len(Padded) = Len(pendingDescriptors)
         /\ \A k \in 1..Len(pendingDescriptors) :
              Padded[k] = IF k <= Len(pendingStatus) THEN pendingStatus[k] ELSE NoStatus
<1>. DEFINE L == Len(pendingDescriptors)
            M == Len(pendingStatus)
<1>1. /\ L \in Nat /\ M \in Nat /\ M <= L
      /\ DOMAIN pendingDescriptors = 1..L /\ DOMAIN pendingStatus = 1..M
      /\ \A k \in 1..L : pendingDescriptors[k] \in Descriptor
      /\ \A k \in 1..M : pendingStatus[k] \in Status
  BY DEF ListType
<1>2. Padded = [k \in 1..L |-> IF k \in 1..M THEN pendingStatus[k] ELSE NoStatus]
  BY <1>1 DEF Padded
<1>3. \A k \in 1..L : (IF k \in 1..M THEN pendingStatus[k] ELSE NoStatus) \in Status
  BY <1>1 DEF Status
<1>4. /\ Padded \in Seq(Status) /\ Len(Padded) = L
      /\ \A k \in 1..L : Padded[k] = IF k <= M THEN pendingStatus[k] ELSE NoStatus
  BY <1>1, <1>2, <1>3
<1>5. Pending = [k \in 1..L |-> Waiting(k)]
  BY <1>1, <1>4 DEF Pending, Paired, Waiting
<1>6. \A k \in 1..L : Waiting(k) \in Listing
  BY <1>1, <1>3 DEF Waiting, Listing, Descriptor
<1>7. /\ Pending \in Seq(Listing) /\ Len(Pending) = L
      /\ \A k \in 1..L : Pending[k] = Waiting(k)
  BY <1>1, <1>5, <1>6
<1>. QED BY <1>4, <1>7

(* The name of a STATUS is recognised.                                     *)
LEMMA NameIsRelated ==
  ASSUME Utf8Enabled \/ NonAscii = {}, NEW name \in Name
  PROVE  IsRelated(Wire(name), ConvertInboxName(name))
<1>1. ~Wire(name).encoded /\ Wire(name).text = name
  BY DEF Wire
<1>2. CASE name.top \in Inboxes
  BY <1>1, <1>2 DEF IsRelated, ConvertInboxName, Name, Inboxes
<1>3. CASE name.top \notin Inboxes
  BY <1>1, <1>3 DEF IsRelated, ConvertInboxName
<1>. QED BY <1>2, <1>3

(* A mailbox of the server has a name.                                     *)
LEMMA MailBoxIsNameable == MailBoxes \subseteq Name
<1>. SUFFICES ASSUME NEW name \in MailBoxes PROVE name \in Name
  OBVIOUS
<1>1. name = [top |-> name.top, below |-> name.below]
  BY ListAssumption
<1>. QED BY <1>1 DEF Name

(* The one spelling of the Inbox makes a name of a name.                   *)
LEMMA NameIsConverted ==
  ASSUME NEW name \in Name
  PROVE  ConvertInboxName(name) \in Name
<1>1. [name EXCEPT !.top = "INBOX"] = [top |-> "INBOX", below |-> name.below]
  BY DEF Name
<1>2. name.below \in {n.below : n \in MailBoxes}
  BY DEF Name
<1>3. [top |-> "INBOX", below |-> name.below] \in Name
  BY <1>2 DEF Name
<1>4. CASE name.top \in Inboxes
  BY <1>1, <1>3, <1>4 DEF ConvertInboxName
<1>5. CASE name.top \notin Inboxes
  BY <1>5 DEF ConvertInboxName
<1>. QED BY <1>4, <1>5

(* LIST: the mailbox waits at the end, with a place for its status if it   *)
(* is selectable.                                                          *)
LEMMA ListResponseKeeps ==
  ASSUME ListInv, NEW name \in MailBoxes, NEW flags \in Flags, ListResponse(name, flags)
  PROVE  ListInv'
<1>. DEFINE descriptor == [name |-> ConvertInboxName(name), flags |-> flags]
            listing == [name |-> ConvertInboxName(name), flags |-> flags, status |-> NoStatus]
            L == Len(pendingDescriptors)
            N == Len(told)
<1>1. /\ class = "list" /\ class' = "list" /\ phase = "running" /\ phase' = "running"
      /\ told' = Append(told, listing)
      /\ pendingDescriptors' = Append(pendingDescriptors, descriptor)
      /\ pendingStatus' = IF flags = "\\noselect" THEN Append(Padded, NoStatus) ELSE Padded
      /\ reported' = reported
  BY DEF ListResponse, Tell, Is, Decoded, Wire
<1>2. ListType /\ Accounted
  BY <1>1 DEF ListInv
<1>3. descriptor \in Descriptor /\ listing \in Listing
  <2>1. ConvertInboxName(name) \in Name
    BY NameIsConverted, MailBoxIsNameable
  <2>. QED BY <2>1 DEF Descriptor, Listing, Status
<1>4. /\ pendingDescriptors' \in Seq(Descriptor) /\ Len(pendingDescriptors') = L + 1 /\ L \in Nat
      /\ pendingDescriptors'[L + 1] = descriptor
      /\ \A k \in 1..L : pendingDescriptors'[k] = pendingDescriptors[k]
  BY <1>1, <1>2, <1>3 DEF ListType
<1>5. /\ told' \in Seq(Listing) /\ Len(told') = N + 1 /\ N \in Nat
      /\ told'[N + 1] = listing
      /\ \A k \in 1..N : told'[k] = told[k]
  BY <1>1, <1>2, <1>3 DEF ListType
<1>6. /\ Padded \in Seq(Status) /\ Len(Padded) = L
      /\ \A k \in 1..L : Padded[k] = IF k <= Len(pendingStatus) THEN pendingStatus[k] ELSE NoStatus
  BY <1>2, PendingIsWaiting
<1>7. /\ pendingStatus' \in Seq(Status)
      /\ Len(pendingStatus') = IF flags = "\\noselect" THEN L + 1 ELSE L
      /\ \A k \in 1..L : pendingStatus'[k] = Padded[k]
      /\ flags = "\\noselect" => pendingStatus'[L + 1] = NoStatus
  <2>1. CASE flags = "\\noselect"
    BY <1>1, <1>6, <2>1 DEF Status
  <2>2. CASE flags # "\\noselect"
    BY <1>1, <1>4, <1>6, <2>2
  <2>. QED BY <2>1, <2>2
<1>8. \A k \in 1..L : Waiting(k)' = Waiting(k)
  BY <1>4, <1>6, <1>7 DEF Waiting
<1>9. \A k : k = L + 1 => Waiting(k)' = listing
  BY <1>4, <1>7 DEF Waiting
<1>10. ListType'
  BY <1>1, <1>2, <1>4, <1>5, <1>7 DEF ListType
<1>11. Accounted'
  <2>1. N = Len(reported) + L /\ Len(reported) \in Nat
    BY <1>2 DEF Accounted, ListType
  <2>2. ASSUME NEW k \in 1..Len(reported) PROVE reported'[k] = told'[k]
    <3>1. k \in 1..N
      BY <1>4, <2>1
    <3>. QED BY <1>1, <1>2, <1>5, <3>1 DEF Accounted
  <2>3. ASSUME NEW k \in 1..(L + 1) PROVE told'[Len(reported) + k] = Waiting(k)'
    <3>1. CASE k = L + 1
      BY <1>5, <1>9, <2>1, <3>1
    <3>2. CASE k \in 1..L
      <4>1. Len(reported) + k \in 1..N
        BY <1>4, <2>1, <3>2
      <4>. QED BY <1>2, <1>5, <1>8, <3>2, <4>1 DEF Accounted
    <3>. QED BY <1>4, <3>1, <3>2
  <2>4. Len(told') = Len(reported') + Len(pendingDescriptors') /\ Len(pendingDescriptors') = L + 1 /\ reported' = reported
    BY <1>1, <1>4, <1>5, <2>1
  <2>. QED BY <2>2, <2>3, <2>4 DEF Accounted
<1>12. AwaitsStatus' => Len(pendingDescriptors') = Len(pendingStatus') + 1
  BY <1>4, <1>5, <1>7 DEF AwaitsStatus
<1>. QED BY <1>1, <1>10, <1>11, <1>12 DEF ListInv

(* STATUS: what is missing is the status of the last mailbox that waits.   *)
LEMMA StatusResponseKeeps ==
  ASSUME ListInv, Utf8Enabled \/ NonAscii = {}, NEW name \in MailBoxes, StatusResponse(name, "some")
  PROVE  ListInv'
<1>. DEFINE L == Len(pendingDescriptors)
            N == Len(told)
            R == Len(reported)
<1>1. /\ class = "list" /\ class' = "list" /\ phase = "running" /\ phase' = "running"
      /\ N > 0 /\ told[N].name = ConvertInboxName(name)
      /\ told[N].flags # "\\noselect" /\ told[N].status = NoStatus
      /\ told' = [told EXCEPT ![N].status = "some"]
      /\ pendingStatus' = IF Len(pendingStatus) = L - 1 /\ IsRelated(Wire(name), Last(pendingDescriptors).name)
                          THEN Append(pendingStatus, "some") ELSE pendingStatus
      /\ UNCHANGED <<reported, pendingDescriptors>>
  BY DEF StatusResponse, Is
<1>2. ListType /\ Accounted
  BY <1>1 DEF ListInv
<1>3. N \in Nat /\ L \in Nat /\ R \in Nat /\ Len(pendingStatus) \in Nat /\ N = R + L
  BY <1>2 DEF ListType, Accounted
<1>4. L = Len(pendingStatus) + 1
  BY <1>1 DEF ListInv, AwaitsStatus
<1>5. Last(pendingDescriptors).name = told[N].name
  <2>1. told[R + L] = Waiting(L)
    BY <1>2, <1>3, <1>4 DEF Accounted
  <2>. QED BY <1>3, <2>1 DEF Waiting, Last
<1>6. pendingStatus' = Append(pendingStatus, "some")
  <2>1. IsRelated(Wire(name), ConvertInboxName(name))
    BY NameIsRelated, MailBoxIsNameable
  <2>2. Len(pendingStatus) = L - 1
    BY <1>3, <1>4
  <2>. QED BY <1>1, <1>5, <2>1, <2>2
<1>7. /\ pendingStatus' \in Seq(Status) /\ Len(pendingStatus') = L /\ pendingStatus'[L] = "some"
      /\ \A k \in 1..(L - 1) : pendingStatus'[k] = pendingStatus[k]
  <2>1. "some" \in Status /\ pendingStatus \in Seq(Status)
    BY <1>2 DEF Status, ListType
  <2>. QED BY <1>3, <1>4, <1>6, <2>1
<1>8. /\ told' \in Seq(Listing) /\ Len(told') = N
      /\ \A k \in 1..(N - 1) : told'[k] = told[k]
      /\ told'[N] = [told[N] EXCEPT !.status = "some"]
  <2>1. told \in Seq(Listing) /\ told[N] \in Listing
    BY <1>1, <1>2, <1>3 DEF ListType
  <2>2. [told[N] EXCEPT !.status = "some"] \in Listing
    BY <2>1 DEF Listing, Status
  <2>. QED BY <1>1, <1>3, <2>1, <2>2
<1>9. \A k \in 1..(L - 1) : Waiting(k)' = Waiting(k)
  BY <1>1, <1>3, <1>4, <1>7 DEF Waiting
<1>10. \A k : k = L => told'[N] = Waiting(k)'
  <2>1. told[N] = [name |-> pendingDescriptors[L].name, flags |-> pendingDescriptors[L].flags, status |-> NoStatus]
    <3>1. told[N] = Waiting(L) /\ ~(L <= Len(pendingStatus))
      BY <1>1, <1>2, <1>3, <1>4 DEF Accounted
    <3>. QED BY <3>1 DEF Waiting
  <2>2. \A k : k = L => Waiting(k)' = [name |-> pendingDescriptors[L].name, flags |-> pendingDescriptors[L].flags,
                                    status |-> "some"]
    BY <1>1, <1>3, <1>7 DEF Waiting
  <2>3. told'[N] = [name |-> pendingDescriptors[L].name, flags |-> pendingDescriptors[L].flags, status |-> "some"]
    BY <1>8, <2>1
  <2>. QED BY <2>2, <2>3
<1>11. ListType'
  BY <1>1, <1>2, <1>3, <1>7, <1>8 DEF ListType
<1>12. Accounted'
  <2>1. \A k \in 1..R : reported'[k] = told'[k]
    BY <1>1, <1>2, <1>3, <1>4, <1>8 DEF Accounted
  <2>2. ASSUME NEW k \in 1..L PROVE told'[R + k] = Waiting(k)'
    <3>1. CASE k = L
      BY <1>3, <1>10, <3>1
    <3>2. CASE k \in 1..(L - 1)
      <4>1. R + k \in 1..(N - 1)
        BY <1>3, <3>2
      <4>. QED BY <1>2, <1>3, <1>8, <1>9, <3>2, <4>1 DEF Accounted
    <3>. QED BY <1>3, <3>1, <3>2
  <2>. QED BY <1>1, <1>3, <1>8, <2>1, <2>2 DEF Accounted
<1>13. ~AwaitsStatus'
  <2>1. told'[N].status = "some"
    BY <1>1, <1>2, <1>3, <1>8 DEF ListType, Listing
  <2>. QED BY <1>8, <2>1 DEF AwaitsStatus, NoStatus
<1>. QED BY <1>1, <1>11, <1>12, <1>13 DEF ListInv

(* What is reported is the beginning of what waits, and the rest waits on. *)
LEMMA EmissionKeeps ==
  ASSUME ListType, Accounted, NEW finalEmit \in BOOLEAN, EmitPendings(finalEmit), told' = told
  PROVE  /\ ListType' /\ Accounted'
         /\ finalEmit => pendingDescriptors' = <<>>
         /\ ~finalEmit => Len(pendingDescriptors') = Len(pendingDescriptors) - Len(pendingStatus)
         /\ Len(pendingStatus') = 0
<1>. DEFINE ready == IF finalEmit THEN Len(pendingDescriptors) ELSE Len(pendingStatus)
            L == Len(pendingDescriptors)
            R == Len(reported)
            rest == L - ready
<1>1. /\ reported' = reported \o SubSeq(Pending, 1, ready)
      /\ pendingDescriptors' = SubSeq(pendingDescriptors, ready + 1, L)
      /\ pendingStatus' = <<>>
  BY DEF EmitPendings
<1>2. /\ L \in Nat /\ R \in Nat /\ Len(pendingStatus) \in Nat /\ ready \in 0..L
      /\ L <= Len(pendingStatus) + 1 /\ Len(pendingStatus) <= L
      /\ Len(told) = R + L
  BY DEF ListType, Accounted
<1>3. ~finalEmit => ready = Len(pendingStatus)
  OBVIOUS
<1>4. finalEmit => ready = L
  OBVIOUS
<1>. HIDE DEF ready
<1>5. /\ Pending \in Seq(Listing) /\ Len(Pending) = L
      /\ \A k \in 1..L : Pending[k] = Waiting(k)
  BY PendingIsWaiting
<1>6. /\ pendingDescriptors' \in Seq(Descriptor)
      /\ Len(pendingDescriptors') = rest
      /\ \A k \in 1..rest : pendingDescriptors'[k] = pendingDescriptors[ready + k]
  <2>1. /\ pendingDescriptors \in Seq(Descriptor)
        /\ \A k \in (ready + 1)..L : pendingDescriptors[k] \in Descriptor
    BY <1>2 DEF ListType
  <2>2. /\ pendingDescriptors' \in Seq(Descriptor)
        /\ Len(pendingDescriptors') = IF ready + 1 <= L THEN L - (ready + 1) + 1 ELSE 0
        /\ \A k \in 1..(L - (ready + 1) + 1) : pendingDescriptors'[k] = pendingDescriptors[ready + 1 + k - 1]
    BY <1>1, <1>2, <2>1, SubSeqProperties
  <2>3. L - (ready + 1) + 1 = rest /\ (IF ready + 1 <= L THEN L - (ready + 1) + 1 ELSE 0) = rest
    BY <1>2
  <2>4. \A k \in 1..rest : ready + 1 + k - 1 = ready + k
    BY <1>2
  <2>. QED BY <2>2, <2>3, <2>4
<1>7. /\ SubSeq(Pending, 1, ready) \in Seq(Listing)
      /\ Len(SubSeq(Pending, 1, ready)) = ready
      /\ \A k \in 1..ready : SubSeq(Pending, 1, ready)[k] = Waiting(k)
  BY <1>2, <1>5
<1>8. /\ reported' \in Seq(Listing)
      /\ Len(reported') = R + ready
      /\ \A k \in 1..R : reported'[k] = reported[k]
      /\ \A k \in 1..ready : reported'[R + k] = Waiting(k)
  BY <1>1, <1>2, <1>7 DEF ListType
<1>9. pendingStatus' \in Seq(Status) /\ Len(pendingStatus') = 0
  BY <1>1
<1>10. rest \in 0..1 /\ rest \in Nat
  BY <1>2, <1>3, <1>4
<1>11. ListType'
  BY <1>6, <1>8, <1>9, <1>10 DEF ListType
<1>12. Accounted'
  <2>1. Len(told') = Len(reported') + Len(pendingDescriptors')
    BY <1>2, <1>6, <1>8
  <2>2. ASSUME NEW k \in 1..(R + ready) PROVE reported'[k] = told'[k]
    <3>1. CASE k \in 1..R
      BY <1>8, <3>1 DEF Accounted
    <3>2. CASE k \notin 1..R
      <4>1. k - R \in 1..ready /\ k - R \in 1..L /\ R + (k - R) = k
        BY <1>2, <3>2
      <4>2. reported'[R + (k - R)] = Waiting(k - R)
        BY <1>8, <4>1
      <4>3. told[R + (k - R)] = Waiting(k - R)
        BY <4>1 DEF Accounted
      <4>. QED BY <4>1, <4>2, <4>3
    <3>. QED BY <3>1, <3>2
  <2>3. ASSUME NEW k \in 1..rest PROVE told'[R + ready + k] = Waiting(k)'
    <3>1. ready + k \in 1..L /\ R + ready + k = R + (ready + k) /\ ready + k > Len(pendingStatus)
      BY <1>2, <1>3, <1>4, <1>10
    <3>2. told[R + (ready + k)] = Waiting(ready + k)
      BY <3>1 DEF Accounted
    <3>3. Waiting(ready + k) = [name |-> pendingDescriptors[ready + k].name,
                                flags |-> pendingDescriptors[ready + k].flags, status |-> NoStatus]
      BY <1>2, <3>1 DEF Waiting
    <3>4. pendingDescriptors'[k] = pendingDescriptors[ready + k] /\ ~(k <= Len(pendingStatus'))
      BY <1>6, <1>9, <1>10
    <3>. QED BY <3>1, <3>2, <3>3, <3>4 DEF Waiting
  <2>. QED BY <1>6, <1>8, <2>1, <2>2, <2>3 DEF Accounted
<1>13. finalEmit => pendingDescriptors' = <<>>
  BY <1>2, <1>6, <1>4
<1>. QED BY <1>2, <1>6, <1>9, <1>3, <1>11, <1>12, <1>13

(* Every step of a ListJob keeps its invariant.                            *)
LEMMA ListKeepsList == ASSUME Utf8Enabled \/ NonAscii = {}, ListInv, ListNext PROVE ListInv'
<1>0. class = "list" /\ class' = "list"
  BY ListIsList
<1>1. ListType /\ Accounted
  BY <1>0 DEF ListInv
<1>2. CASE ListStart
  <2>1. /\ phase = "new" /\ phase' = "running" /\ told = <<>>
        /\ UNCHANGED <<told, reported, gone, pendingDescriptors, pendingStatus>>
    BY <1>0, <1>2 DEF ListStart, SendCommands, ListInv
  <2>2. Len(told) = 0
    BY <2>1
  <2>. QED BY <1>0, <1>1, <2>1, <2>2 DEF ListInv, ListType, Accounted, Waiting, AwaitsStatus
<1>3. CASE ListEmit
  <2>1. EmitPendings(FALSE) /\ UNCHANGED <<phase, told, gone>>
    BY <1>3 DEF ListEmit
  <2>2. /\ ListType' /\ Accounted'
        /\ Len(pendingDescriptors') = Len(pendingDescriptors) - Len(pendingStatus)
        /\ Len(pendingStatus') = 0
    BY <1>1, <2>1, EmissionKeeps
  <2>3. Len(pendingDescriptors) \in Nat /\ Len(pendingStatus) \in Nat
    BY <1>1 DEF ListType
  <2>4. AwaitsStatus' => Len(pendingDescriptors') = Len(pendingStatus') + 1
    BY <1>0, <2>1, <2>2, <2>3 DEF AwaitsStatus, ListInv
  <2>5. phase' = "done" /\ ~gone' => pendingDescriptors' = <<>>
    <3>1. ASSUME phase' = "done", ~gone' PROVE pendingDescriptors' = <<>>
      <4>1. pendingDescriptors = <<>>
        BY <1>0, <2>1, <3>1 DEF ListInv
      <4>2. Len(pendingDescriptors) = 0 /\ Len(pendingStatus) = 0
        BY <1>1, <2>3, <4>1 DEF ListType
      <4>3. Len(pendingDescriptors') = 0 /\ pendingDescriptors' \in Seq(Descriptor)
        BY <2>2, <4>2 DEF ListType
      <4>. QED BY <4>3
    <3>. QED BY <3>1
  <2>. QED BY <1>0, <2>1, <2>2, <2>4, <2>5 DEF ListInv
<1>4. ASSUME NEW tag, NEW code, ListReply(tag, code) PROVE ListInv'
  <2>1. phase = "running" /\ gone' = gone /\ told' = told /\ phase' \in {"running", "done"}
        /\ (IsLastReply(tag) => phase' = "done") /\ (IsLastReply(tag) \/ phase' = "running")
    BY <1>4 DEF ListReply, HandleErrorReplies, IsLastReply, DoneWith
  <2>2. CASE IsLastReply(tag)
    <3>1. EmitPendings(TRUE)
      BY <1>4, <2>2 DEF ListReply
    <3>2. ListType' /\ Accounted' /\ pendingDescriptors' = <<>>
      BY <1>1, <2>1, <3>1, EmissionKeeps
    <3>. QED BY <1>0, <2>1, <2>2, <3>2 DEF ListInv, AwaitsStatus
  <2>3. CASE ~IsLastReply(tag)
    <3>1. phase' = "running" /\ UNCHANGED <<told, reported, pendingDescriptors, pendingStatus>>
      BY <1>4, <2>1, <2>3 DEF ListReply
    <3>. QED BY <1>0, <1>1, <2>1, <3>1 DEF ListInv, ListType, Accounted, Waiting, AwaitsStatus
  <2>. QED BY <2>2, <2>3
<1>5. CASE ConnectionLost /\ UNCHANGED listVars
  <2>1. phase' = "done" /\ gone' = TRUE /\ UNCHANGED <<told, reported, pendingDescriptors, pendingStatus>>
    BY <1>5 DEF ConnectionLost, listVars
  <2>. QED BY <1>0, <1>1, <2>1 DEF ListInv, ListType, Accounted, Waiting, AwaitsStatus
<1>. QED
  BY <1>2, <1>3, <1>4, <1>5, ListResponseKeeps, StatusResponseKeeps DEF ListNext, Flags

(* Every step keeps it.                                                    *)
LEMMA ListInvIsKept == ASSUME Utf8Enabled \/ NonAscii = {} PROVE ListInv /\ [Next]_vars => ListInv'
<1>. SUFFICES ASSUME ListInv, [Next]_vars PROVE ListInv'
  OBVIOUS
<1>1. CASE UNCHANGED vars
  <2>1. UNCHANGED <<class, phase, gone, told, reported, pendingDescriptors, pendingStatus>>
    BY <1>1 DEF vars, jobVars, listVars
  <2>. QED BY <2>1 DEF ListInv, ListType, Accounted, Waiting, AwaitsStatus
<1>2. CASE ListNext
  BY <1>2, ListKeepsList
<1>3. CASE LoginNext \/ FetchNext \/ SelectNext \/ IdleNext
  BY <1>3, LoginIsLogin, FetchIsFetch, SelectIsSelect, IdleIsIdle DEF ListInv
<1>4. CASE MessageNext \/ AccountNext \/ ServerNext \/ MetaNext
  <2>1. PICK c \in QuietClasses : QuietStep(c)
    BY <1>4, DataIsQuiet
  <2>2. class # "list" /\ class' = class
    BY <2>1 DEF QuietStep, QuietClasses, MessageClasses, AccountClasses, ServerClasses, PlainServerJobs, NamingJobs,
       MetaClasses
  <2>. QED BY <2>2 DEF ListInv
<1>. QED BY <1>1, <1>2, <1>3, <1>4 DEF Next

(* Every mailbox listed is reported once, in order and with its status,    *)
(* however LIST, STATUS, the timer and the end interleave, unless names    *)
(* have to be encoded, where the job misses the STATUS.                    *)
THEOREM ListingsAreReported ==
  ASSUME Utf8Enabled \/ NonAscii = {}
  PROVE  Spec => []ListedIsReported
<1>1. Init => ListInv
  <2>. SUFFICES ASSUME Init PROVE ListInv
    OBVIOUS
  <2>1. /\ told = <<>> /\ reported = <<>> /\ pendingDescriptors = <<>> /\ pendingStatus = <<>> /\ phase = "new"
    BY DEF Init, JobInit, ListInit
  <2>2. Len(told) = 0 /\ Len(reported) = 0 /\ Len(pendingDescriptors) = 0 /\ Len(pendingStatus) = 0
    BY <2>1
  <2>. QED BY <2>1, <2>2 DEF ListInv, ListType, Accounted, AwaitsStatus
<1>2. ListInv => ListedIsReported
  <2>. SUFFICES ASSUME ListInv, Is("list"), ~gone
                PROVE  reported \o Pending = told /\ (phase = "done" => Pending = <<>>)
    BY DEF ListedIsReported
  <2>1. ListType /\ Accounted /\ (phase = "done" => pendingDescriptors = <<>>)
    BY DEF ListInv, Is
  <2>2. /\ Pending \in Seq(Listing) /\ Len(Pending) = Len(pendingDescriptors)
        /\ \A k \in 1..Len(pendingDescriptors) : Pending[k] = Waiting(k)
    BY <2>1, PendingIsWaiting
  <2>3. phase = "done" => Pending = <<>>
    <3>1. phase = "done" => Len(Pending) = 0
      BY <2>1, <2>2
    <3>. QED BY <2>2, <3>1, EmptySeq
  <2>4. told \in Seq(Listing) /\ reported \in Seq(Listing) /\ reported \o Pending \in Seq(Listing)
    BY <2>1, <2>2 DEF ListType
  <2>5. Len(reported \o Pending) = Len(told)
    <3>1. Len(reported \o Pending) = Len(reported) + Len(Pending)
      BY <2>2, <2>4, ConcatProperties
    <3>. QED BY <2>1, <2>2, <3>1 DEF Accounted
  <2>6. ASSUME NEW k \in 1..Len(told) PROVE (reported \o Pending)[k] = told[k]
    <3>1. Len(reported) \in Nat /\ Len(Pending) \in Nat /\ Len(told) = Len(reported) + Len(Pending)
      BY <2>1, <2>2, <2>4 DEF Accounted
    <3>2. CASE k <= Len(reported)
      BY <2>1, <2>2, <2>4, <3>1, <3>2 DEF Accounted
    <3>3. CASE ~(k <= Len(reported))
      <4>1. k - Len(reported) \in 1..Len(Pending) /\ Len(reported) + (k - Len(reported)) = k
        BY <3>1, <3>3
      <4>2. (reported \o Pending)[k] = Pending[k - Len(reported)]
        BY <2>2, <2>4, <3>1, <3>3
      <4>3. told[Len(reported) + (k - Len(reported))] = Waiting(k - Len(reported))
        BY <2>1, <2>2, <4>1 DEF Accounted
      <4>. QED BY <2>2, <4>1, <4>2, <4>3
    <3>. QED BY <3>1, <3>2, <3>3
  <2>. QED BY <2>3, <2>4, <2>5, <2>6, SeqEqual
<1>. QED BY <1>1, <1>2, ListInvIsKept, PTL DEF Spec

-----------------------------------------------------------------------------

(* MailBoxIsAsAsked.  CREATE and DELETE are one command, whose reply ends  *)
(* the job and is all the server says to it.                               *)
MailBoxClasses == {"create", "delete"}

MailBoxInv ==
  class \in MailBoxClasses =>
    /\ phase \in {"new", "running", "done"}
    /\ phase # "done" => told = <<>>
    /\ phase = "running" => tags = {1}
    /\ MailBoxIsAsAsked

(* The reply: an error that is forgiven says that nothing was left to do.  *)
LEMMA MailBoxReplyKeeps ==
  ASSUME MailBoxInv, NEW c \in MailBoxClasses, NEW code, NEW r, MailBoxReply(c, code, r)
  PROVE  MailBoxInv'
<1>. DEFINE answer == IF code = "NO" /\ Forgiven(c, r) THEN "OK" ELSE code
<1>1. /\ class = c /\ class' = c /\ phase = "running" /\ tags = {1} /\ told = <<>>
      /\ told' = Append(told, [kind |-> r.kind, code |-> code])
      /\ request' = request
      /\ MayAnswer(c, code, r)
      /\ \E tag \in tags : HandleErrorReplies(tag, answer)
  BY HandledIsRefused DEF MailBoxReply, MailBoxInv, Is, dataVars
<1>2. phase' = "done" /\ (~error' => answer \in {"OK", "malformed"})
  BY <1>1 DEF HandleErrorReplies, ErrorAfter, DoneWith
<1>3. Last(told').code = code
  BY <1>1 DEF Last
<1>4. code = "NO" /\ Forgiven(c, r) => request.exists = (c = "create")
  BY <1>1 DEF MayAnswer, Forgiven, AlreadyThere, AlreadyGone
<1>5. ~error' /\ code # "malformed" => code = "OK" \/ request.exists = (c = "create")
  BY <1>2, <1>4
<1>6. MailBoxIsAsAsked'
  BY <1>1, <1>3, <1>5 DEF MailBoxIsAsAsked, Succeeded, Is
<1>. QED BY <1>2, <1>6 DEF MailBoxInv

(* One command, and nothing said yet.                                      *)
LEMMA MailBoxStartKeeps ==
  ASSUME MailBoxInv, NEW c, NEW asked_, NEW empty, Start(c, asked_, empty)
  PROVE  MailBoxInv'
<1>1. phase = "new" /\ phase' = "running" /\ class' = class /\ told' = told /\ tags' = 1..1
  BY DEF Start, SendCommand, SendCommands
<1>2. tags' = {1}
  BY <1>1
<1>. QED BY <1>1, <1>2 DEF MailBoxInv, MailBoxIsAsAsked, Succeeded

(* Every step of the jobs about the server keeps the invariant.            *)
LEMMA ServerKeepsMailBox == MailBoxInv /\ ServerNext => MailBoxInv'
<1>. SUFFICES ASSUME MailBoxInv, ServerNext PROVE MailBoxInv'
  OBVIOUS
<1>1. CASE ServerStart
  BY <1>1, MailBoxStartKeeps
  DEF ServerStart, NamedStart, SubscribeStart, UnsubscribeStart, RenameStart, IdStart,
      CapabilitiesStart, EnableStart, NamespaceStart, StatusStart, CreateStart, DeleteStart
<1>2. ASSUME NEW c \in ServerClasses \ MailBoxClasses, QuietStep(c) PROVE MailBoxInv'
  BY <1>2 DEF QuietStep, MailBoxInv
<1>3. CASE ServerResponse \/ ServerReply
  <2>1. \A c \in {"capabilities", "enable", "namespace", "status"} \union PlainServerJobs : c \in ServerClasses \ MailBoxClasses
    BY DEF ServerClasses, MailBoxClasses, PlainServerJobs, NamingJobs
  <2>. QED BY <1>2, <1>3, <2>1, UntaggedIsQuiet, TaggedIsQuiet DEF ServerResponse, ServerReply, Respond, Reply
<1>4. ASSUME NEW c, Lost(c) PROVE MailBoxInv'
  BY <1>4 DEF Lost, ConnectionLost, MailBoxInv, MailBoxIsAsAsked, Succeeded
<1>. QED BY <1>1, <1>3, <1>4, MailBoxReplyKeeps DEF ServerNext, MailBoxClasses

(* Every step keeps it.                                                    *)
LEMMA MailBoxInvIsKept == MailBoxInv /\ [Next]_vars => MailBoxInv'
<1>. SUFFICES ASSUME MailBoxInv, [Next]_vars PROVE MailBoxInv'
  OBVIOUS
<1>1. CASE UNCHANGED vars
  BY <1>1 DEF vars, jobVars, dataVars, MailBoxInv, MailBoxIsAsAsked, Succeeded, Is
<1>2. CASE LoginNext \/ ListNext \/ FetchNext \/ SelectNext \/ IdleNext
  <2>1. class \notin MailBoxClasses /\ class' = class
    BY <1>2, LoginIsLogin, ListIsList, FetchIsFetch, SelectIsSelect, IdleIsIdle DEF MailBoxClasses
  <2>. QED BY <2>1 DEF MailBoxInv
<1>3. CASE MessageNext \/ AccountNext \/ MetaNext
  <2>1. PICK c \in MessageClasses \union AccountClasses \union MetaClasses : QuietStep(c)
    BY <1>3, MessageIsQuiet, AccountIsQuiet, MetaIsQuiet
  <2>2. class \notin MailBoxClasses /\ class' = class
    BY <2>1 DEF QuietStep, MessageClasses, AccountClasses, MetaClasses, MailBoxClasses
  <2>. QED BY <2>2 DEF MailBoxInv
<1>. QED BY <1>1, <1>2, <1>3, ServerKeepsMailBox DEF Next

(* A CreateJob or DeleteJob that could read its reply succeeds only if the *)
(* mailbox is there, or not there, as it was asked for.                    *)
THEOREM MailBoxIsAsAskedAlways == Spec => []MailBoxIsAsAsked
<1>1. Init => MailBoxInv
  BY DEF Init, JobInit, MailBoxInv, MailBoxIsAsAsked, Succeeded
<1>2. MailBoxInv => MailBoxIsAsAsked
  BY DEF MailBoxInv, MailBoxIsAsAsked, MailBoxClasses, Is
<1>. QED BY <1>1, <1>2, MailBoxInvIsKept, PTL DEF Spec

-----------------------------------------------------------------------------

(* What the jobs that are asked for their data know of what was told: the  *)
(* history grows by one response at a time, and what is last in it.        *)
HistoryInv == class \in QuietClasses => /\ told \in Seq(Range(told))
                                        /\ phase = "new" => told = <<>>

(* A history and one more response.                                        *)
LEMMA HistoryGrows ==
  ASSUME NEW s, s \in Seq(Range(s)), NEW r
  PROVE  /\ Append(s, r) \in Seq(Range(Append(s, r)))
         /\ Range(Append(s, r)) = Range(s) \union {r}
<1>. DEFINE t == Append(s, r)
            S == Range(s) \union {r}
<1>1. s \in Seq(S) /\ r \in S
  <2>1. Len(s) \in Nat /\ s \in [1..Len(s) -> Range(s)]
    OBVIOUS
  <2>2. s \in [1..Len(s) -> S]
    BY <2>1
  <2>. QED BY <2>1, <2>2, SeqDef
<1>2. /\ t \in Seq(S) /\ Len(t) = Len(s) + 1 /\ t[Len(s) + 1] = r
      /\ \A k \in 1..Len(s) : t[k] = s[k]
      /\ Len(s) \in Nat /\ DOMAIN s = 1..Len(s) /\ DOMAIN t = 1..Len(s) + 1
  BY <1>1
<1>. HIDE DEF t
<1>3. Range(t) = S
  BY <1>2 DEF Range
<1>. QED BY <1>2, <1>3 DEF t

(* A history after one more response, by position.                         *)
LEMMA HistoryByPosition ==
  ASSUME NEW s, s \in Seq(Range(s)), NEW r
  PROVE  LET t == Append(s, r)
         IN /\ Len(s) \in Nat /\ DOMAIN s = 1..Len(s) /\ DOMAIN t = 1..(Len(s) + 1)
            /\ t[Len(s) + 1] = r /\ \A k \in 1..Len(s) : t[k] = s[k] /\ s[k] \in Range(s)
<1>. DEFINE t == Append(s, r)
<1>1. t \in Seq(Range(t))
  BY HistoryGrows
<1>2. Len(t) = Len(s) + 1 /\ t[Len(s) + 1] = r /\ \A k \in 1..Len(s) : t[k] = s[k]
  OBVIOUS
<1>. QED BY <1>1, <1>2 DEF Range

(* The last of some responses is a new one that is among them.             *)
LEMMA LastIsNew ==
  ASSUME NEW s, s \in Seq(Range(s)), NEW r, NEW some, r \in some
  PROVE  LastOf(Append(s, r), some) = {r}
<1>. DEFINE t == Append(s, r)
            n == Len(s) + 1
<1>1. Len(s) \in Nat /\ DOMAIN t = 1..n /\ t[n] = r
  BY HistoryByPosition
<1>. HIDE DEF t
<1>2. {i \in DOMAIN t : t[i] \in some /\ \A l \in DOMAIN t : t[l] \in some => l <= i} = {n}
  BY <1>1
<1>3. LastOf(t, some) = {r}
  BY <1>1, <1>2 DEF LastOf
<1>. QED BY <1>3 DEF t

(* Or else it is the one it was before.                                    *)
LEMMA LastStays ==
  ASSUME NEW s, s \in Seq(Range(s)), NEW r, NEW some, NEW before,
         r \notin some, some \intersect Range(s) = before \intersect Range(s)
  PROVE  LastOf(Append(s, r), some) = LastOf(s, before)
<1>. DEFINE t == Append(s, r)
            n == Len(s) + 1
<1>1. /\ Len(s) \in Nat /\ DOMAIN s = 1..Len(s) /\ DOMAIN t = 1..n
      /\ t[n] = r /\ \A k \in 1..Len(s) : t[k] = s[k] /\ s[k] \in Range(s)
  BY HistoryByPosition
<1>. HIDE DEF t
<1>2. \A k \in 1..Len(s) : t[k] \in some <=> s[k] \in before
  BY <1>1
<1>3. {i \in DOMAIN t : t[i] \in some /\ \A l \in DOMAIN t : t[l] \in some => l <= i}
        = {i \in DOMAIN s : s[i] \in before /\ \A l \in DOMAIN s : s[l] \in before => l <= i}
  BY <1>1, <1>2
<1>4. LastOf(t, some) = LastOf(s, before)
  BY <1>1, <1>3 DEF LastOf
<1>. QED BY <1>4 DEF t

(* The last of some is one of them.                                        *)
LEMMA LastIsAmong == ASSUME NEW s, NEW some PROVE LastOf(s, some) \subseteq Range(s) \intersect some
BY DEF LastOf, Range

(* Two values are a list of these two.                                     *)
LEMMA TwoAreAList ==
  ASSUME NEW a, NEW b
  PROVE  <<a, b>> \in Seq(Range(<<a, b>>)) /\ Range(<<a, b>>) = {a, b}
<1>. DEFINE s == <<a, b>>
<1>1. s \in Seq({a, b}) /\ DOMAIN s = 1..2 /\ s[1] = a /\ s[2] = b
  OBVIOUS
<1>. HIDE DEF s
<1>2. Range(s) = {a, b}
  BY <1>1 DEF Range
<1>. QED BY <1>1, <1>2 DEF s

(* What is in two lists joined to one.                                     *)
LEMMA JoinedRange ==
  ASSUME NEW s, s \in Seq(Range(s)), NEW t, t \in Seq(Range(t))
  PROVE  s \o t \in Seq(Range(s \o t)) /\ Range(s \o t) = Range(s) \union Range(t)
<1>. DEFINE S == Range(s) \union Range(t)
<1>1. s \in Seq(S) /\ t \in Seq(S)
  <2>1. Len(s) \in Nat /\ s \in [1..Len(s) -> Range(s)] /\ Len(t) \in Nat /\ t \in [1..Len(t) -> Range(t)]
    OBVIOUS
  <2>2. s \in [1..Len(s) -> S] /\ t \in [1..Len(t) -> S]
    BY <2>1
  <2>. HIDE DEF S
  <2>. QED BY <2>1, <2>2, SeqDef
<1>2. /\ Len(s) \in Nat /\ DOMAIN s = 1..Len(s) /\ Len(t) \in Nat /\ DOMAIN t = 1..Len(t)
  BY <1>1
<1>. DEFINE u == s \o t
<1>3. /\ u \in Seq(S) /\ DOMAIN u = 1..(Len(s) + Len(t))
      /\ \A k \in 1..Len(s) : u[k] = s[k]
      /\ \A k \in 1..Len(t) : u[Len(s) + k] = t[k]
      /\ \A k \in (Len(s) + 1)..(Len(s) + Len(t)) : k - Len(s) \in 1..Len(t) /\ u[k] = t[k - Len(s)]
  <2>. HIDE DEF S
  <2>. QED BY <1>1
<1>. HIDE DEF u
<1>4. \A x \in S : x \in Range(u)
  <2>1. ASSUME NEW k \in 1..Len(s) PROVE s[k] \in Range(u)
    <3>1. k \in DOMAIN u
      BY <1>2, <1>3
    <3>. QED BY <1>3, <3>1 DEF Range
  <2>2. ASSUME NEW k \in 1..Len(t) PROVE t[k] \in Range(u)
    <3>1. Len(s) + k \in DOMAIN u
      BY <1>2, <1>3
    <3>. QED BY <1>3, <3>1 DEF Range
  <2>. QED BY <1>2, <2>1, <2>2 DEF Range
<1>5. Range(u) \subseteq S
  <2>. SUFFICES ASSUME NEW k \in DOMAIN u PROVE u[k] \in S
    BY DEF Range
  <2>1. k \in 1..Len(s) \/ k \in (Len(s) + 1)..(Len(s) + Len(t))
    BY <1>2, <1>3
  <2>. QED BY <1>2, <1>3, <2>1 DEF Range
<1>6. Range(u) = S
  BY <1>4, <1>5
<1>. QED BY <1>3, <1>6 DEF u

(* What inserting all of another map makes of one.                         *)
LEMMA AllInserted ==
  ASSUME NEW map, NEW other
  PROVE  /\ DOMAIN InsertedAll(map, other) = DOMAIN map \union DOMAIN other
         /\ \A k \in DOMAIN map \union DOMAIN other :
              InsertedAll(map, other)[k] = IF k \in DOMAIN other THEN other[k] ELSE map[k]
BY DEF InsertedAll

(* Nothing is said at first.                                               *)
LEMMA EmptyHistory == <<>> \in Seq(Range(<<>>)) /\ Range(<<>>) = {}
<1>1. DOMAIN <<>> = {} /\ <<>> \in Seq({})
  OBVIOUS
<1>2. Range(<<>>) = {}
  BY <1>1 DEF Range
<1>. QED BY <1>1, <1>2

(* A step is taken by the module of the class of the job, which stays.     *)
LEMMA StepOfClass ==
  ASSUME [Next]_vars
  PROVE  /\ class' = class
         /\ class \in MessageClasses => MessageNext \/ UNCHANGED vars
         /\ class \in AccountClasses => AccountNext \/ UNCHANGED vars
         /\ class \in ServerClasses => ServerNext \/ UNCHANGED vars
         /\ class \in MetaClasses => MetaNext \/ UNCHANGED vars
<1>1. CASE UNCHANGED vars
  BY <1>1 DEF vars, jobVars
<1>2. CASE LoginNext \/ ListNext \/ FetchNext \/ SelectNext \/ IdleNext
  BY <1>2, LoginIsLogin, ListIsList, FetchIsFetch, SelectIsSelect, IdleIsIdle
  DEF MessageClasses, AccountClasses, ServerClasses, MetaClasses, PlainServerJobs, NamingJobs
<1>3. CASE MessageNext \/ AccountNext \/ ServerNext \/ MetaNext
  <2>1. PICK c \in QuietClasses : QuietStep(c)
    BY <1>3, DataIsQuiet
  <2>2. class' = class
    BY <2>1 DEF QuietStep
  <2>3. /\ MessageNext => class \in MessageClasses
        /\ AccountNext => class \in AccountClasses
        /\ ServerNext => class \in ServerClasses
        /\ MetaNext => class \in MetaClasses
    BY MessageIsQuiet, AccountIsQuiet, ServerIsQuiet, MetaIsQuiet DEF QuietStep
  <2>4. /\ class \in MessageClasses => class \notin AccountClasses /\ class \notin ServerClasses /\ class \notin MetaClasses
        /\ class \in AccountClasses => class \notin ServerClasses /\ class \notin MetaClasses
        /\ class \in ServerClasses => class \notin MetaClasses
    BY DEF MessageClasses, AccountClasses, ServerClasses, MetaClasses, PlainServerJobs, NamingJobs
  <2>. QED BY <1>3, <2>2, <2>3, <2>4, Zenon
<1>4. CASE Next
  BY <1>2, <1>3, <1>4, Zenon DEF Next
<1>. QED BY <1>1, <1>4

(* The history is one in every state.                                      *)
LEMMA HistoryHolds == Spec => []HistoryInv
<1>1. Init => HistoryInv
  BY EmptyHistory DEF Init, JobInit, HistoryInv
<1>2. HistoryInv /\ [Next]_vars => HistoryInv'
  <2>. SUFFICES ASSUME HistoryInv, [Next]_vars, class' \in QuietClasses
                PROVE  told' \in Seq(Range(told')) /\ (phase' = "new" => told' = <<>>)
    BY DEF HistoryInv
  <2>1. class \in QuietClasses /\ told \in Seq(Range(told)) /\ (phase = "new" => told = <<>>)
    BY StepOfClass DEF HistoryInv
  <2>2. CASE UNCHANGED vars
    BY <2>1, <2>2 DEF vars, jobVars
  <2>3. CASE \E c : QuietStep(c)
    <3>1. (told' # told => phase = "running" /\ \E r : told' = Append(told, r)) /\ (phase' = "new" => phase = "new")
      BY <2>3 DEF QuietStep
    <3>2. told' \in Seq(Range(told'))
      <4>1. CASE told' = told
        BY <2>1, <4>1
      <4>2. ASSUME NEW r, told' = Append(told, r) PROVE told' \in Seq(Range(told'))
        BY <2>1, <4>2, HistoryGrows
      <4>. QED BY <3>1, <4>1, <4>2
    <3>3. told' # told => phase = "running"
      BY <3>1
    <3>4. phase' = "new" => told' = <<>>
      BY <2>1, <3>1, <3>3
    <3>. QED BY <3>2, <3>4
  <2>4. UNCHANGED vars \/ MessageNext \/ AccountNext \/ ServerNext \/ MetaNext
    <3>1. class \in MessageClasses \/ class \in AccountClasses \/ class \in ServerClasses \/ class \in MetaClasses
      BY <2>1 DEF QuietClasses
    <3>. QED BY <3>1, StepOfClass
  <2>5. UNCHANGED vars \/ \E c : QuietStep(c)
    BY <2>4, DataIsQuiet, Zenon
  <2>. QED BY <2>2, <2>3, <2>5
<1>. QED BY <1>1, <1>2, PTL DEF Spec

-----------------------------------------------------------------------------

(* ServerIsKnown.  Each of the four jobs has what was said so far, and     *)
(* CAPABILITY is said once.                                                *)
TellingClasses == {"capabilities", "enable", "namespace", "status"}

NoNamespaces == [personal |-> {}, user |-> {}, shared |-> {}]
NamespacesOf(r) ==
  [personal |-> ProcessNamespaceList(r.personal), user |-> ProcessNamespaceList(r.user),
   shared |-> ProcessNamespaceList(r.shared)]

Statuses(responses) == UNION {Range(r.value) : r \in responses}

ServerInv ==
  phase # "new" =>
    /\ class = "capabilities" =>
         LET said == UNION {r.value : r \in OfKind("CAPABILITY")} IN data = said \union Implied(said)
    /\ class = "enable" => data = UNION {r.value : r \in OfKind("ENABLED")}
    /\ class = "namespace" =>
         IF OfKind("NAMESPACE") = {} THEN data = NoNamespaces
         ELSE \E r \in LastOf(told, OfKind("NAMESPACE")) : data = NamespacesOf(r)
    /\ class = "status" => data \in Seq(Range(data)) /\ Range(data) = Statuses(OfKind("STATUS"))

(* What it means: nothing that is implied implies more.                    *)
LEMMA ServerInvMeaning == ServerInv => ServerIsKnown
<1>. SUFFICES ASSUME ServerInv, phase # "new" PROVE ServerIsKnown
  BY DEF ServerIsKnown
<1>1. ASSUME class = "capabilities"
      PROVE  LET said == UNION {r.value : r \in OfKind("CAPABILITY")}
             IN /\ said \subseteq data
                /\ "QRESYNC" \in data => "CONDSTORE" \in data
                /\ "IMAP4REV2" \in data => FoldedIn \subseteq data /\ {"LITERAL+", "LITERAL-"} \intersect data # {}
                /\ {"LITERAL+", "LITERAL-"} \subseteq data => {"LITERAL+", "LITERAL-"} \subseteq said
                /\ data \ said \subseteq FoldedIn \union {"CONDSTORE", "LITERAL-"}
  <2>. DEFINE said == UNION {r.value : r \in OfKind("CAPABILITY")}
  <2>1. data = said \union Implied(said)
    BY <1>1 DEF ServerInv, OfKind
  <2>. HIDE DEF said
  <2>2. /\ said \subseteq data
        /\ "QRESYNC" \in data => "CONDSTORE" \in data
        /\ "IMAP4REV2" \in data => FoldedIn \subseteq data /\ {"LITERAL+", "LITERAL-"} \intersect data # {}
        /\ {"LITERAL+", "LITERAL-"} \subseteq data => {"LITERAL+", "LITERAL-"} \subseteq said
        /\ data \ said \subseteq FoldedIn \union {"CONDSTORE", "LITERAL-"}
    BY <2>1, FoldedInAssumption DEF Implied, ImpliedByRev2
  <2>. QED BY <2>2 DEF said
<1>2. ASSUME class = "namespace", OfKind("NAMESPACE") # {}
      PROVE  LET known(items) == {item \in Range(items) : item.parts >= 2}
             IN \E r \in LastOf(told, OfKind("NAMESPACE")) :
                  /\ data = [personal |-> known(r.personal), user |-> known(r.user), shared |-> known(r.shared)]
                  /\ ContainsEmptyNamespace(data) <=>
                       \E item \in UNION {Range(r.personal), Range(r.user), Range(r.shared)} : item.name = "" /\ item.parts >= 2
  <2>. DEFINE known(items) == {item \in Range(items) : item.parts >= 2}
  <2>1. PICK r \in LastOf(told, OfKind("NAMESPACE")) : data = NamespacesOf(r)
    BY <1>2 DEF ServerInv
  <2>2. data = [personal |-> known(r.personal), user |-> known(r.user), shared |-> known(r.shared)]
    BY <2>1 DEF NamespacesOf, ProcessNamespaceList
  <2>3. data.personal = known(r.personal) /\ data.user = known(r.user) /\ data.shared = known(r.shared)
    BY <2>2
  <2>4. ContainsEmptyNamespace(data) <=>
          \E item \in UNION {Range(r.personal), Range(r.user), Range(r.shared)} : item.name = "" /\ item.parts >= 2
    BY <2>3 DEF ContainsEmptyNamespace
  <2>. QED BY <2>2, <2>4
<1>3. class = "namespace" /\ OfKind("NAMESPACE") = {} => data = [personal |-> {}, user |-> {}, shared |-> {}]
  BY DEF ServerInv, NoNamespaces
<1>4. class = "status" => Range(data) = UNION {Range(r.value) : r \in OfKind("STATUS")}
  BY DEF ServerInv, Statuses
<1>. QED BY <1>1, <1>2, <1>3, <1>4 DEF ServerInv, ServerIsKnown, Is

(* What is told of a kind, after one more response.                        *)
LEMMA ToldGrows ==
  ASSUME told \in Seq(Range(told)), NEW r, told' = Append(told, r), NEW kind
  PROVE  OfKind(kind)' = IF r.kind = kind THEN OfKind(kind) \union {r} ELSE OfKind(kind)
<1>1. Range(told') = Range(told) \union {r}
  BY HistoryGrows
<1>. QED BY <1>1 DEF OfKind

(* Before the first response.                                              *)
LEMMA NothingTold == told = <<>> => \A kind : OfKind(kind) = {}
BY EmptyHistory DEF OfKind

(* The values of one response more.                                        *)
LEMMA UnionGrows == ASSUME NEW V, NEW v PROVE UNION (V \union {v}) = (UNION V) \union v
OBVIOUS

(* The same of a field of the responses.                                   *)
LEMMA ValuesGrow ==
  ASSUME NEW S, NEW r
  PROVE  UNION {t.value : t \in S \union {r}} = (UNION {t.value : t \in S}) \union r.value
<1>. DEFINE V(T) == {t.value : t \in T}
<1>1. V(S \union {r}) = V(S) \union {r.value}
  OBVIOUS
<1>2. UNION (V(S) \union {r.value}) = (UNION V(S)) \union r.value
  <2>. HIDE DEF V
  <2>. QED BY UnionGrows
<1>. HIDE DEF V
<1>3. UNION V(S \union {r}) = (UNION V(S)) \union r.value
  BY <1>1, <1>2, Zenon
<1>. QED BY <1>3, Zenon DEF V

(* CAPABILITY is told once.                                                *)
LEMMA CapabilitiesAreKept ==
  ASSUME HistoryInv, ServerInv, "split" \notin Liberties, NEW some,
         IsFirst("capabilities", "CAPABILITY"),
         Respond("capabilities", [kind |-> "CAPABILITY", value |-> some], CapabilityRead)
  PROVE  ServerInv'
<1>. DEFINE r == [kind |-> "CAPABILITY", value |-> some]
<1>1. /\ class = "capabilities" /\ class' = class /\ phase = "running"
      /\ told' = Append(told, r) /\ data' = data \union some \union Implied(some)
  BY DEF Respond, Untagged, Tell, Is, CapabilityRead
<1>2. told \in Seq(Range(told))
  BY <1>1 DEF HistoryInv, QuietClasses, ServerClasses
<1>3. OfKind("CAPABILITY") = {}
  BY DEF IsFirst
<1>4. OfKind("CAPABILITY")' = {r}
  BY <1>1, <1>2, <1>3, ToldGrows
<1>5. data = Implied({}) /\ Implied({}) = {}
  BY <1>1, <1>3 DEF ServerInv, Implied, ImpliedByRev2
<1>6. UNION {t.value : t \in OfKind("CAPABILITY")'} = some
  BY <1>4
<1>7. data' = some \union Implied(some)
  BY <1>1, <1>5
<1>. QED BY <1>1, <1>6, <1>7 DEF ServerInv

(* ENABLED may be told more than once.                                     *)
LEMMA EnabledIsKept ==
  ASSUME HistoryInv, ServerInv, NEW some, Respond("enable", [kind |-> "ENABLED", value |-> some], EnableRead)
  PROVE  ServerInv'
<1>. DEFINE r == [kind |-> "ENABLED", value |-> some]
<1>1. /\ class = "enable" /\ class' = class /\ phase = "running"
      /\ told' = Append(told, r) /\ data' = data \union some
  BY DEF Respond, Untagged, Tell, Is, EnableRead
<1>2. told \in Seq(Range(told))
  BY <1>1 DEF HistoryInv, QuietClasses, ServerClasses
<1>3. OfKind("ENABLED")' = OfKind("ENABLED") \union {r}
  BY <1>1, <1>2, ToldGrows
<1>4. UNION {t.value : t \in OfKind("ENABLED") \union {r}} = (UNION {t.value : t \in OfKind("ENABLED")}) \union r.value
  BY ValuesGrow
<1>5. data = UNION {t.value : t \in OfKind("ENABLED")}
  BY <1>1 DEF ServerInv
<1>6. data' = UNION {t.value : t \in OfKind("ENABLED") \union {r}}
  BY <1>1, <1>4, <1>5
<1>7. data' = UNION {t.value : t \in OfKind("ENABLED")'}
  BY <1>3, <1>6
<1>. QED BY <1>1, <1>7 DEF ServerInv

(* The last NAMESPACE counts.                                              *)
LEMMA NamespacesAreKept ==
  ASSUME HistoryInv, ServerInv, NEW r, r.kind = "NAMESPACE", Respond("namespace", r, NamespaceRead)
  PROVE  ServerInv'
<1>1. /\ class = "namespace" /\ class' = class /\ phase = "running"
      /\ told' = Append(told, r) /\ data' = NamespacesOf(r)
  BY DEF Respond, Untagged, Tell, Is, NamespaceRead, NamespacesOf
<1>2. told \in Seq(Range(told))
  BY <1>1 DEF HistoryInv, QuietClasses, ServerClasses
<1>3. r \in OfKind("NAMESPACE")'
  BY <1>1, <1>2, ToldGrows
<1>4. LastOf(told', OfKind("NAMESPACE")') = {r}
  BY <1>1, <1>2, <1>3, LastIsNew
<1>. QED BY <1>1, <1>3, <1>4 DEF ServerInv

(* The items of one STATUS more.                                           *)
LEMMA StatusesGrow == ASSUME NEW S, NEW r PROVE Statuses(S \union {r}) = Statuses(S) \union Range(r.value)
<1>. DEFINE V(T) == {Range(t.value) : t \in T}
<1>1. V(S \union {r}) = V(S) \union {Range(r.value)}
  OBVIOUS
<1>2. UNION (V(S) \union {Range(r.value)}) = (UNION V(S)) \union Range(r.value)
  <2>. HIDE DEF V
  <2>. QED BY UnionGrows
<1>. HIDE DEF V
<1>3. UNION V(S \union {r}) = (UNION V(S)) \union Range(r.value)
  BY <1>1, <1>2, Zenon
<1>. QED BY <1>3, Zenon DEF V, Statuses

(* STATUS adds its items to those of the others.                           *)
LEMMA StatusIsKept ==
  ASSUME HistoryInv, ServerInv, NEW r, r.kind = "STATUS" => r.value \in Seq(Range(r.value)),
         Respond("status", r, StatusRead)
  PROVE  ServerInv'
<1>1. /\ class = "status" /\ class' = class /\ phase = "running"
      /\ told' = Append(told, r) /\ data' = StatusRead(data, r)
  BY DEF Respond, Untagged, Tell, Is
<1>2. told \in Seq(Range(told))
  BY <1>1 DEF HistoryInv, QuietClasses, ServerClasses
<1>3. data \in Seq(Range(data)) /\ Range(data) = Statuses(OfKind("STATUS"))
  BY <1>1 DEF ServerInv
<1>4. OfKind("STATUS")' = IF r.kind = "STATUS" THEN OfKind("STATUS") \union {r} ELSE OfKind("STATUS")
  BY <1>1, <1>2, ToldGrows
<1>5. CASE r.kind = "STATUS"
  <2>1. data' = data \o r.value
    BY <1>1, <1>5 DEF StatusRead
  <2>2. data' \in Seq(Range(data')) /\ Range(data') = Range(data) \union Range(r.value)
    BY <1>3, <1>5, <2>1, JoinedRange
  <2>3. Range(data') = Statuses(OfKind("STATUS")')
    BY <1>3, <1>4, <1>5, <2>2, StatusesGrow
  <2>. QED BY <1>1, <2>2, <2>3 DEF ServerInv
<1>6. CASE r.kind # "STATUS"
  <2>1. data' = data
    BY <1>1, <1>6 DEF StatusRead
  <2>. QED BY <1>1, <1>3, <1>4, <1>6, <2>1 DEF ServerInv
<1>. QED BY <1>5, <1>6

(* What a reply says, these jobs do not read.                              *)
LEMMA ReplyKeepsServer ==
  ASSUME HistoryInv, ServerInv, NEW c, NEW code, Reply(c, code, NoCode, Ignored)
  PROVE  ServerInv'
<1>1. Tagged(c, code, NoCode) /\ data' = data
  BY DEF Reply, Ignored
<1>2. class' = class /\ phase = "running" /\ told' = Append(told, NoCode)
  BY <1>1, HandledIsRefused DEF Tagged
<1>3. ASSUME class \in TellingClasses
      PROVE  /\ \A kind \in {"CAPABILITY", "ENABLED", "NAMESPACE", "STATUS"} : OfKind(kind)' = OfKind(kind)
             /\ LastOf(told', OfKind("NAMESPACE")) = LastOf(told, OfKind("NAMESPACE"))
  <2>1. told \in Seq(Range(told))
    BY <1>3 DEF HistoryInv, QuietClasses, ServerClasses, TellingClasses
  <2>2. \A kind : OfKind(kind)' = IF NoCode.kind = kind THEN OfKind(kind) \union {NoCode} ELSE OfKind(kind)
    BY <1>2, <2>1, ToldGrows
  <2>3. NoCode.kind = "none"
    BY DEF NoCode
  <2>4. NoCode \notin OfKind("NAMESPACE")
    BY <2>3 DEF OfKind
  <2>5. LastOf(told', OfKind("NAMESPACE")) = LastOf(told, OfKind("NAMESPACE"))
    BY <1>2, <2>1, <2>4, LastStays
  <2>. QED BY <2>2, <2>3, <2>5
<1>4. ASSUME class \in TellingClasses PROVE ServerInv'
  <2>1. /\ OfKind("CAPABILITY")' = OfKind("CAPABILITY") /\ OfKind("ENABLED")' = OfKind("ENABLED")
        /\ OfKind("NAMESPACE")' = OfKind("NAMESPACE") /\ OfKind("STATUS")' = OfKind("STATUS")
        /\ LastOf(told', OfKind("NAMESPACE")') = LastOf(told, OfKind("NAMESPACE"))
    BY <1>3, <1>4
  <2>. QED BY <1>1, <1>2, <2>1 DEF ServerInv
<1>5. ASSUME class \notin TellingClasses PROVE ServerInv'
  BY <1>2, <1>5 DEF ServerInv, TellingClasses
<1>. QED BY <1>4, <1>5

(* Every step of the jobs about the server keeps the invariant.            *)
LEMMA ServerKeepsServer ==
  ASSUME Liberties \intersect {"split", "unsolicited"} = {}, HistoryInv, ServerInv, ServerNext
  PROVE  ServerInv'
<1>1. CASE class' = class /\ class \notin TellingClasses
  BY <1>1 DEF ServerInv, TellingClasses
<1>2. CASE ServerStart
  <2>1. class' = class
    BY <1>2, ServerIsQuiet DEF ServerNext, QuietStep
  <2>2. class \in TellingClasses =>
          \E empty : /\ Start(class, <<>>, empty)
                     /\ class \in {"capabilities", "enable"} => empty = {}
                     /\ class = "namespace" => empty = NoNamespaces
                     /\ class = "status" => empty = <<>>
    BY <1>2 DEF ServerStart, NamedStart, SubscribeStart, UnsubscribeStart, RenameStart, IdStart, NoNamespaces,
        CapabilitiesStart, EnableStart, NamespaceStart, StatusStart, CreateStart, DeleteStart, Start, Is, TellingClasses
  <2>3. CASE class \in TellingClasses
    <3>1. PICK empty : /\ Start(class, <<>>, empty)
                       /\ class \in {"capabilities", "enable"} => empty = {}
                       /\ class = "namespace" => empty = NoNamespaces
                       /\ class = "status" => empty = <<>>
      BY <2>2, <2>3
    <3>2. phase = "new" /\ told' = told /\ data' = empty
      BY <3>1 DEF Start, SendCommand, SendCommands
    <3>3. told = <<>>
      BY <2>3, <3>2 DEF HistoryInv, QuietClasses, ServerClasses, TellingClasses
    <3>4. \A kind : OfKind(kind)' = {}
      BY <3>2, <3>3, NothingTold DEF OfKind
    <3>5. Statuses({}) = {} /\ Implied({}) = {}
      BY DEF Statuses, Implied, ImpliedByRev2
    <3>6. CASE class \in {"capabilities", "enable"}
      BY <2>1, <3>1, <3>2, <3>4, <3>5, <3>6 DEF ServerInv
    <3>7. CASE class = "namespace"
      BY <2>1, <3>1, <3>2, <3>4, <3>7 DEF ServerInv
    <3>8. CASE class = "status"
      BY <2>1, <3>1, <3>2, <3>4, <3>5, <3>8, EmptyHistory DEF ServerInv
    <3>. QED BY <2>3, <3>6, <3>7, <3>8 DEF TellingClasses
  <2>. QED BY <1>1, <2>1, <2>3
<1>3. CASE ServerResponse
  <2>1. ASSUME NEW n, NEW m,
               Respond("status", [kind |-> "STATUS", value |-> <<<<"MESSAGES", n>>, <<"UNSEEN", m>>>>], StatusRead)
        PROVE  ServerInv'
    <3>. DEFINE a == <<"MESSAGES", n>>
                b == <<"UNSEEN", m>>
                r == [kind |-> "STATUS", value |-> <<a, b>>]
    <3>1. r.value = <<a, b>>
      OBVIOUS
    <3>. HIDE DEF a, b
    <3>2. r.value \in Seq(Range(r.value))
      BY <3>1, TwoAreAList
    <3>. QED BY <2>1, <3>2, StatusIsKept DEF a, b
  <2>2. ASSUME Respond("status", [kind |-> "OK"], StatusRead) PROVE ServerInv'
    BY <2>2, StatusIsKept
  <2>3. ASSUME NEW some, IsFirst("capabilities", "CAPABILITY"),
               Respond("capabilities", [kind |-> "CAPABILITY", value |-> some], CapabilityRead)
        PROVE  ServerInv'
    BY <2>3, CapabilitiesAreKept
  <2>4. ASSUME NEW some, Respond("enable", [kind |-> "ENABLED", value |-> some], EnableRead) PROVE ServerInv'
    BY <2>4, EnabledIsKept
  <2>5. ASSUME NEW r, r.kind = "NAMESPACE", Respond("namespace", r, NamespaceRead) PROVE ServerInv'
    BY <2>5, NamespacesAreKept
  <2>. QED BY <1>3, <2>1, <2>2, <2>3, <2>4, <2>5 DEF ServerResponse
<1>4. CASE ServerReply
  BY <1>4, ReplyKeepsServer DEF ServerReply
<1>5. ASSUME NEW c \in {"create", "delete"}, NEW code, NEW r, MailBoxReply(c, code, r) PROVE ServerInv'
  BY <1>1, <1>5, HandledIsRefused DEF MailBoxReply, Is, TellingClasses
<1>6. ASSUME NEW c, Lost(c) PROVE ServerInv'
  BY <1>6 DEF Lost, ConnectionLost, ServerInv, OfKind, dataVars
<1>. QED BY <1>2, <1>3, <1>4, <1>5, <1>6 DEF ServerNext

(* What CapabilitiesJob, EnableJob, NamespaceJob and StatusJob say of the  *)
(* server is what it said, and what that implies, each kind of namespace   *)
(* in its place.  The server gives its capabilities in one response, and   *)
(* says nothing it was not asked for: what other untagged responses do to  *)
(* EnableJob is in the README.                                             *)
THEOREM ServerIsAlwaysKnown ==
  ASSUME Liberties \intersect {"split", "unsolicited"} = {}
  PROVE  Spec => []ServerIsKnown
<1>1. Init => ServerInv
  BY DEF Init, JobInit, ServerInv
<1>2. HistoryInv /\ ServerInv /\ [Next]_vars => ServerInv'
  <2>. SUFFICES ASSUME HistoryInv, ServerInv, [Next]_vars PROVE ServerInv'
    OBVIOUS
  <2>1. CASE UNCHANGED vars
    BY <2>1 DEF vars, jobVars, dataVars, ServerInv, OfKind
  <2>2. CASE class \notin ServerClasses
    BY <2>2, StepOfClass DEF ServerInv, ServerClasses
  <2>. QED BY <2>1, <2>2, StepOfClass, ServerKeepsServer
<1>. QED BY <1>1, <1>2, HistoryHolds, ServerInvMeaning, PTL DEF Spec

-----------------------------------------------------------------------------

(* QuotasAreKnown.  What is said of a resource of a root is what the last  *)
(* QUOTA of this root said that names it.                                  *)
QuotaClasses  == {"getquota", "setquota", "getquotaroot"}
RightsClasses == {"getacl", "setacl", "deleteacl", "listrights", "myrights"}

AboutQuota(history, root, resource) ==
  {r \in Range(history) : r.kind = "QUOTA" /\ r.root = root /\ resource \in DOMAIN r.quotas}

QuotaSaid(history, root, resource) ==
  IF AboutQuota(history, root, resource) = {} THEN {<<-1, -1>>}
  ELSE {r.quotas[resource] : r \in LastOf(history, AboutQuota(history, root, resource))}

QuotaInv ==
  phase # "new" =>
    /\ class \in {"getquota", "setquota"} =>
         /\ OfKind("QUOTA") = {} => data = <<>>
         /\ \A resource \in Resources : Quota(data, resource) \in QuotaSaid(told, "root", resource)
    /\ class = "getquotaroot" =>
         /\ "quotas" \in DOMAIN data
         /\ \A root \in Roots, resource \in Resources :
              QuotaOfRoot(root, resource) \in QuotaSaid(told, root, resource)

(* One more response says something of the resource, or it does not.       *)
LEMMA QuotaIsSaid ==
  ASSUME NEW s, s \in Seq(Range(s)), NEW r, NEW root, NEW resource
  PROVE  QuotaSaid(Append(s, r), root, resource) =
           IF r.kind = "QUOTA" /\ r.root = root /\ resource \in DOMAIN r.quotas THEN {r.quotas[resource]}
           ELSE QuotaSaid(s, root, resource)
<1>. DEFINE new == AboutQuota(Append(s, r), root, resource)
            old == AboutQuota(s, root, resource)
<1>1. Range(Append(s, r)) = Range(s) \union {r}
  BY HistoryGrows
<1>2. CASE r.kind = "QUOTA" /\ r.root = root /\ resource \in DOMAIN r.quotas
  <2>1. r \in new
    BY <1>1, <1>2 DEF AboutQuota
  <2>2. LastOf(Append(s, r), new) = {r}
    <3>. HIDE DEF new
    <3>. QED BY <2>1, LastIsNew
  <2>. QED BY <1>2, <2>1, <2>2 DEF QuotaSaid
<1>3. CASE ~(r.kind = "QUOTA" /\ r.root = root /\ resource \in DOMAIN r.quotas)
  <2>1. new = old /\ r \notin new
    BY <1>1, <1>3 DEF AboutQuota
  <2>2. LastOf(Append(s, r), new) = LastOf(s, old)
    <3>. HIDE DEF new, old
    <3>. QED BY <2>1, LastStays
  <2>. QED BY <1>3, <2>1, <2>2 DEF QuotaSaid
<1>. QED BY <1>2, <1>3

(* Before the first response nothing is said.                              *)
LEMMA NoQuotaSaid == \A root, resource : QuotaSaid(<<>>, root, resource) = {<<-1, -1>>}
BY EmptyHistory DEF QuotaSaid, AboutQuota

(* The amounts are read as they were sent.                                 *)
LEMMA QuotaIsRead ==
  ASSUME IntMax \in Nat, Amounts \subseteq 0..IntMax, NEW r \in QuotaResponses
  PROVE  /\ DOMAIN ReadQuota(r.quotas) = DOMAIN r.quotas
         /\ \A resource \in DOMAIN r.quotas : ReadQuota(r.quotas)[resource] = r.quotas[resource]
<1>1. PICK some \in SUBSET Resources : r.quotas \in [some -> Amounts \X Amounts]
  BY DEF QuotaResponses
<1>2. ASSUME NEW resource \in DOMAIN r.quotas PROVE ReadQuota(r.quotas)[resource] = r.quotas[resource]
  <2>1. r.quotas[resource] \in Amounts \X Amounts
    BY <1>1
  <2>. DEFINE q == r.quotas[resource]
  <2>2. q[1] \in Amounts /\ q[2] \in Amounts /\ q = <<q[1], q[2]>>
    BY <2>1
  <2>3. ToInt(q[1]) = q[1] /\ ToInt(q[2]) = q[2]
    <3>. HIDE DEF q
    <3>. QED BY <2>2 DEF ToInt
  <2>4. ReadQuota(r.quotas)[resource] = <<ToInt(q[1]), ToInt(q[2])>>
    BY DEF ReadQuota
  <2>. QED BY <2>2, <2>3, <2>4
<1>. QED BY <1>2 DEF ReadQuota

(* The start of a job about quotas.                                        *)
LEMMA QuotaStartKeeps ==
  ASSUME HistoryInv, QuotaInv, class \in QuotaClasses, GetQuotaStart \/ SetQuotaStart \/ GetQuotaRootStart
  PROVE  QuotaInv'
<1>1. /\ class' = class /\ told' = told /\ told = <<>>
      /\ class \in {"getquota", "setquota"} => data' = <<>>
      /\ class = "getquotaroot" => data' = [roots |-> <<>>, quotas |-> <<>>]
  BY DEF GetQuotaStart, SetQuotaStart, GetQuotaRootStart, Start, SendCommand, SendCommands, Is,
     HistoryInv, QuietClasses, AccountClasses, QuotaClasses
<1>2. \A resource : Quota(<<>>, resource) = <<-1, -1>>
  BY DEF Quota
<1>3. \A root, resource : QuotaSaid(told', root, resource) = {<<-1, -1>>}
  BY <1>1, NoQuotaSaid
<1>4. class = "getquotaroot" => \A root, resource : QuotaOfRoot(root, resource)' = <<-1, -1>>
  BY <1>1 DEF QuotaOfRoot
<1>. QED BY <1>1, <1>2, <1>3, <1>4 DEF QuotaInv

(* A QUOTA is the only one for GetQuotaJob and SetQuotaJob.                *)
LEMMA OneQuotaKeeps ==
  ASSUME "split" \notin Liberties, IntMax \in Nat, Amounts \subseteq 0..IntMax, HistoryInv, QuotaInv,
         NEW c \in {"getquota", "setquota"}, NEW r \in QuotaResponses,
         IsFirst(c, "QUOTA"), Respond(c, r, QuotaRead)
  PROVE  QuotaInv'
<1>1. /\ class = c /\ class' = class /\ phase = "running"
      /\ told' = Append(told, r) /\ data' = QuotaRead(data, r) /\ OfKind("QUOTA") = {}
  BY DEF Respond, Untagged, Tell, Is, IsFirst
<1>2. told \in Seq(Range(told))
  BY <1>1 DEF HistoryInv, QuietClasses, AccountClasses
<1>3. r.kind = "QUOTA"
  BY DEF QuotaResponses
<1>4. OfKind("QUOTA")' # {}
  BY <1>1, <1>2, <1>3, ToldGrows
<1>5. data = <<>>
  BY <1>1 DEF QuotaInv
<1>6. \A resource : QuotaSaid(told, "root", resource) = {<<-1, -1>>}
  BY <1>1 DEF QuotaSaid, AboutQuota, OfKind
<1>7. ASSUME NEW resource \in Resources PROVE Quota(data', resource) \in QuotaSaid(told', "root", resource)
  <2>1. QuotaSaid(told', "root", resource) =
          IF r.root = "root" /\ resource \in DOMAIN r.quotas THEN {r.quotas[resource]} ELSE {<<-1, -1>>}
    BY <1>1, <1>2, <1>3, <1>6, QuotaIsSaid
  <2>2. CASE r.root = ""
    <3>1. r.root # "root" /\ data' = data
      BY <1>1, <2>2, Zenon DEF QuotaRead
    <3>. QED BY <1>5, <2>1, <3>1 DEF Quota
  <2>3. CASE r.root # ""
    <3>1. r.root = "root"
      BY <2>3 DEF QuotaResponses, Roots
    <3>2. data' = ReadQuota(r.quotas)
      BY <1>1, <1>3, <2>3 DEF QuotaRead
    <3>. QED BY <2>1, <3>1, <3>2, QuotaIsRead DEF Quota
  <2>. QED BY <2>2, <2>3
<1>. QED BY <1>1, <1>4, <1>7 DEF QuotaInv

(* The resources of a root add up for GetQuotaRootJob.                     *)
LEMMA QuotaOfRootKeeps ==
  ASSUME IntMax \in Nat, Amounts \subseteq 0..IntMax, HistoryInv, QuotaInv,
         NEW r \in QuotaResponses, Respond("getquotaroot", r, QuotaRootRead)
  PROVE  QuotaInv'
<1>1. /\ class = "getquotaroot" /\ class' = class /\ phase = "running"
      /\ told' = Append(told, r) /\ data' = QuotaRootRead(data, r)
  BY DEF Respond, Untagged, Tell, Is
<1>2. told \in Seq(Range(told))
  BY <1>1 DEF HistoryInv, QuietClasses, AccountClasses
<1>3. r.kind = "QUOTA"
  BY DEF QuotaResponses
<1>4. /\ "quotas" \in DOMAIN data
      /\ \A root \in Roots, resource \in Resources : QuotaOfRoot(root, resource) \in QuotaSaid(told, root, resource)
  BY <1>1 DEF QuotaInv
<1>. DEFINE old == data.quotas
            before == IF r.root \in DOMAIN old THEN old[r.root] ELSE <<>>
            here == InsertedAll(before, ReadQuota(r.quotas))
<1>5. "quotas" \in DOMAIN data' /\ data'.quotas = Inserted(old, r.root, here)
  BY <1>1, <1>3, <1>4 DEF QuotaRootRead
<1>6. /\ DOMAIN here = DOMAIN r.quotas \union DOMAIN before
      /\ \A resource \in DOMAIN here :
           here[resource] = IF resource \in DOMAIN r.quotas THEN r.quotas[resource] ELSE before[resource]
  <2>. DEFINE read == ReadQuota(r.quotas)
  <2>1. DOMAIN read = DOMAIN r.quotas /\ \A resource \in DOMAIN r.quotas : read[resource] = r.quotas[resource]
    BY QuotaIsRead
  <2>2. /\ DOMAIN here = DOMAIN before \union DOMAIN read
        /\ \A k \in DOMAIN before \union DOMAIN read : here[k] = IF k \in DOMAIN read THEN read[k] ELSE before[k]
    <3>. HIDE DEF before
    <3>. QED BY AllInserted
  <2>. HIDE DEF read, before, here
  <2>. QED BY <2>1, <2>2
<1>. HIDE DEF here
<1>7. /\ r.root \in DOMAIN data'.quotas /\ data'.quotas[r.root] = here
      /\ \A root : root # r.root =>
           /\ root \in DOMAIN data'.quotas <=> root \in DOMAIN old
           /\ root \in DOMAIN old => data'.quotas[root] = old[root]
  <2>. HIDE DEF old
  <2>. QED BY <1>5 DEF Inserted
<1>8. ASSUME NEW root \in Roots, NEW resource \in Resources
      PROVE  QuotaOfRoot(root, resource)' \in QuotaSaid(told', root, resource)
  <2>1. QuotaSaid(told', root, resource) =
          IF r.root = root /\ resource \in DOMAIN r.quotas THEN {r.quotas[resource]}
          ELSE QuotaSaid(told, root, resource)
    BY <1>1, <1>2, <1>3, QuotaIsSaid
  <2>2. CASE root # r.root
    <3>1. QuotaOfRoot(root, resource)' = QuotaOfRoot(root, resource)
      BY <1>7, <2>2 DEF QuotaOfRoot
    <3>. QED BY <1>4, <2>1, <2>2, <3>1
  <2>3. CASE root = r.root
    <3>1. QuotaOfRoot(root, resource)' = Quota(here, resource)
      BY <1>7, <2>3 DEF QuotaOfRoot
    <3>2. resource \in DOMAIN r.quotas => Quota(here, resource) = r.quotas[resource]
      BY <1>6 DEF Quota
    <3>3. resource \notin DOMAIN r.quotas => Quota(here, resource) = Quota(before, resource)
      BY <1>6 DEF Quota
    <3>4. Quota(before, resource) = QuotaOfRoot(root, resource)
      BY <2>3 DEF QuotaOfRoot, Quota
    <3>. QED BY <1>4, <2>1, <2>3, <3>1, <3>2, <3>3, <3>4
  <2>. QED BY <2>2, <2>3
<1>. QED BY <1>1, <1>5, <1>8 DEF QuotaInv

(* A response that is no QUOTA says nothing of quotas.                     *)
LEMMA OtherQuotaKeeps ==
  ASSUME HistoryInv, QuotaInv, class \in QuotaClasses, phase = "running", class' = class,
         NEW r, r.kind # "QUOTA", told' = Append(told, r),
         data' = data \/ (class = "getquotaroot" /\ \E roots : data' = [data EXCEPT !.roots = roots])
  PROVE  QuotaInv'
<1>1. told \in Seq(Range(told))
  BY DEF HistoryInv, QuietClasses, AccountClasses, QuotaClasses
<1>2. \A root, resource : QuotaSaid(told', root, resource) = QuotaSaid(told, root, resource)
  BY <1>1, QuotaIsSaid
<1>3. OfKind("QUOTA")' = OfKind("QUOTA")
  BY <1>1, ToldGrows
<1>4. /\ class \in {"getquota", "setquota"} => data' = data
      /\ class = "getquotaroot" => DOMAIN data' = DOMAIN data /\ data'.quotas = data.quotas
  <2>1. CASE data' = data
    BY <2>1
  <2>2. ASSUME NEW roots, data' = [data EXCEPT !.roots = roots], class = "getquotaroot"
        PROVE  DOMAIN data' = DOMAIN data /\ data'.quotas = data.quotas
    <3>1. "quotas" \in DOMAIN data
      BY <2>2 DEF QuotaInv
    <3>. QED BY <2>2, <3>1
  <2>. QED BY <2>1, <2>2
<1>5. class = "getquotaroot" =>
        \A root, resource : QuotaOfRoot(root, resource)' = QuotaOfRoot(root, resource)
  BY <1>4 DEF QuotaOfRoot
<1>. QED BY <1>2, <1>3, <1>4, <1>5 DEF QuotaInv

(* Every step of the jobs about accounts keeps the invariant.              *)
LEMMA AccountKeepsQuotas ==
  ASSUME "split" \notin Liberties, IntMax \in Nat, Amounts \subseteq 0..IntMax,
         HistoryInv, QuotaInv, AccountNext, class' = class
  PROVE  QuotaInv'
<1>1. CASE class \notin QuotaClasses
  BY <1>1 DEF QuotaInv, QuotaClasses
<1>2. RightsNext => class \in RightsClasses
  BY DEF RightsNext, GetAclStart, SetAclRights, SetAclStart, DeleteAclStart, ListRightsStart, MyRightsStart,
     Start, Respond, Reply, Untagged, Tagged, Is, RightsClasses
<1>3. class \in QuotaClasses => ~RightsNext
  BY <1>2 DEF RightsClasses, QuotaClasses
<1>4. CASE QuotaNext
  <2>1. ASSUME NEW c \in {"getquota", "setquota", "getquotaroot"}, NEW code, Reply(c, code, NoCode, Ignored)
        PROVE  QuotaInv'
    <3>1. class = c /\ phase = "running" /\ told' = Append(told, NoCode) /\ data' = data
      BY <2>1, HandledIsRefused DEF Reply, Tagged, Is, Ignored
    <3>2. NoCode.kind # "QUOTA"
      BY DEF NoCode
    <3>3. class \in QuotaClasses
      BY <2>1, <3>1 DEF QuotaClasses
    <3>. QED BY <3>1, <3>2, <3>3, OtherQuotaKeeps
  <2>2. ASSUME NEW roots, Respond("getquotaroot", [kind |-> "QUOTAROOT", roots |-> roots], QuotaRootRead)
        PROVE  QuotaInv'
    <3>. DEFINE r == [kind |-> "QUOTAROOT", roots |-> roots]
    <3>1. /\ class = "getquotaroot" /\ phase = "running" /\ told' = Append(told, r)
          /\ \E some : data' = [data EXCEPT !.roots = some]
      BY <2>2 DEF Respond, Untagged, Tell, Is, QuotaRootRead
    <3>. QED BY <3>1, OtherQuotaKeeps DEF QuotaClasses
  <2>. QED BY <1>1, <1>4, <2>1, <2>2, QuotaStartKeeps, OneQuotaKeeps, QuotaOfRootKeeps DEF QuotaNext
<1>5. ASSUME NEW c, Lost(c) PROVE QuotaInv'
  <2>1. UNCHANGED <<told, data>> /\ phase # "new"
    BY <1>5 DEF Lost, ConnectionLost, dataVars
  <2>. QED BY <2>1 DEF QuotaInv, OfKind, QuotaOfRoot
<1>. QED BY <1>1, <1>3, <1>4, <1>5 DEF AccountNext

(* Usage and limit of a resource are those that the server gave last, for  *)
(* the root that it gave them for, as long as an int holds them and the    *)
(* server answers GETQUOTA and SETQUOTA in one response.                   *)
THEOREM QuotasAreAlwaysKnown ==
  ASSUME "split" \notin Liberties, IntMax \in Nat, Amounts \subseteq 0..IntMax
  PROVE  Spec => []QuotasAreKnown
<1>1. Init => QuotaInv
  BY DEF Init, JobInit, QuotaInv
<1>2. HistoryInv /\ QuotaInv /\ [Next]_vars => QuotaInv'
  <2>. SUFFICES ASSUME HistoryInv, QuotaInv, [Next]_vars PROVE QuotaInv'
    OBVIOUS
  <2>1. CASE UNCHANGED vars
    BY <2>1 DEF vars, jobVars, dataVars, QuotaInv, OfKind, QuotaOfRoot
  <2>2. CASE class \notin AccountClasses
    BY <2>2, StepOfClass DEF QuotaInv, AccountClasses
  <2>. QED BY <2>1, <2>2, StepOfClass, AccountKeepsQuotas
<1>3. QuotaInv => QuotasAreKnown
  BY DEF QuotaInv, QuotasAreKnown, QuotaSaid, AboutQuota, Roots, Is
<1>. QED BY <1>1, <1>2, <1>3, HistoryHolds, PTL DEF Spec

-----------------------------------------------------------------------------

(* RightsAreKnown.  What is said of an identifier is its last ACL, and the *)
(* same of the rights of MYRIGHTS and the first ones of LISTRIGHTS, whose  *)
(* others add up.  The calls of setRights() add up to what SETACL sends:   *)
(* the last modifier, and the rights of all.                               *)
AclOf(history, id) == {r \in Range(history) : r.kind = "ACL" /\ r.id = id}

AddedUp(calls, modifier, rights) ==
  /\ calls \in Seq(Range(calls)) /\ calls # <<>>
  /\ modifier = calls[Len(calls)].modifier
  /\ rights = UNION {call.rights : call \in Range(calls)}

MayBeAdded(responses) ==
  {other.letters \intersect KnownRights : other \in UNION {Range(r.others) : r \in responses}}

MyRightsInv ==
  IF OfKind("MYRIGHTS") = {} THEN data = {}
  ELSE \E r \in LastOf(told, OfKind("MYRIGHTS")) : data = r.string.letters \intersect KnownRights

ListRightsInv ==
  /\ IF OfKind("LISTRIGHTS") = {} THEN data.default = {}
     ELSE \E r \in LastOf(told, OfKind("LISTRIGHTS")) : data.default = r.first.letters \intersect KnownRights
  /\ data.possible \in Seq(Range(data.possible))
  /\ Range(data.possible) = MayBeAdded(OfKind("LISTRIGHTS"))

RightsInv ==
  /\ class = "getacl" /\ phase # "new" =>
       \A id \in Identifiers :
         IF AclOf(told, id) = {} THEN id \notin DOMAIN data
         ELSE /\ id \in DOMAIN data
              /\ \E r \in LastOf(told, AclOf(told, id)) : data[id] = r.string.letters \intersect KnownRights
  /\ class = "setacl" /\ phase = "new" =>
       request = <<>> \/ AddedUp(request, data.modifier, data.rightList)
  /\ class = "setacl" /\ phase # "new" =>
       AddedUp(request.calls, request.sent.modifier, request.sent.letters)
  /\ class = "myrights" /\ phase # "new" => MyRightsInv
  /\ class = "listrights" /\ phase # "new" => ListRightsInv

(* Translating rights to their successors, for every set of them.          *)
LEMMA RightsAreTranslated ==
  ASSUME NEW rights
  PROVE  LET new == NormalizedRights(rights)
             both == DenormalizedRights(rights)
         IN /\ {"c", "d"} \intersect new = {}
            /\ new \subseteq both /\ NormalizedRights(both) \subseteq both \union {"k", "x", "t", "e"}
            /\ \A pair \in {<<"c", {"k", "x"}>>, <<"d", {"t", "e"}>>} :
                 /\ pair[1] \in rights => pair[2] \subseteq new
                 /\ pair[1] \in both <=> pair[2] \intersect both # {}
            /\ new \ {"k", "x", "t", "e"} = rights \ {"c", "d", "k", "x", "t", "e"}
<1>. DEFINE new == NormalizedRights(rights)
            both == DenormalizedRights(rights)
<1>1. \A r : r \in new <=> \/ r \in rights \ {"c", "d"}
                           \/ "c" \in rights /\ r \in {"k", "x"}
                           \/ "d" \in rights /\ r \in {"t", "e"}
  BY DEF NormalizedRights, Replaced
<1>. HIDE DEF new
<1>2. both = Added(Added(new, "c", {"k", "x"}), "d", {"t", "e"})
  BY DEF DenormalizedRights, new
<1>. HIDE DEF both
<1>3. \A r : r \in both <=> \/ r \in new
                            \/ r = "c" /\ new \intersect {"k", "x"} # {}
                            \/ r = "d" /\ new \intersect {"t", "e"} # {}
  BY <1>2 DEF Added
<1>4. \A r \in NormalizedRights(both) : r \in both \/ r \in {"k", "x", "t", "e"}
  BY DEF NormalizedRights, Replaced
<1>5. {"c", "d"} \intersect new = {} /\ new \subseteq both
  BY <1>1, <1>3
<1>6. /\ "c" \in rights => {"k", "x"} \subseteq new
      /\ "d" \in rights => {"t", "e"} \subseteq new
  BY <1>1
<1>7. /\ "c" \in both <=> {"k", "x"} \intersect both # {}
      /\ "d" \in both <=> {"t", "e"} \intersect both # {}
  BY <1>3, <1>5
<1>8. new \ {"k", "x", "t", "e"} = rights \ {"c", "d", "k", "x", "t", "e"}
  BY <1>1
<1>9. \A pair \in {<<"c", {"k", "x"}>>, <<"d", {"t", "e"}>>} :
        /\ pair[1] \in rights => pair[2] \subseteq new
        /\ pair[1] \in both <=> pair[2] \intersect both # {}
  BY <1>6, <1>7
<1>. QED BY <1>4, <1>5, <1>8, <1>9 DEF new, both

(* What the invariant means.                                               *)
LEMMA RightsInvMeaning == RightsInv => RightsAreKnown
<1>. SUFFICES ASSUME RightsInv PROVE RightsAreKnown
  OBVIOUS
<1>1. ASSUME class = "getacl", phase # "new", NEW id \in Identifiers
      PROVE  IF AclOf(told, id) = {} THEN id \notin DOMAIN data /\ RightsOf(id) = {}
             ELSE /\ id \in DOMAIN data
                  /\ \E r \in LastOf(told, AclOf(told, id)) : RightsOf(id) = r.string.letters \intersect KnownRights
  BY <1>1 DEF RightsInv, RightsOf
<1>2. ASSUME class = "setacl", phase # "new", NEW acl \in SUBSET KnownRights,
             \A k \in DOMAIN request.calls : request.calls[k].modifier = request.calls[1].modifier
      PROVE  LET all == UNION {call.rights : call \in Range(request.calls)}
             IN Granted(acl, request.sent) =
                  CASE request.calls[1].modifier = "+" -> acl \union all
                    [] request.calls[1].modifier = "-" -> acl \ all
                    [] OTHER -> all
  <2>. DEFINE calls == request.calls
              all == UNION {call.rights : call \in Range(calls)}
  <2>1. /\ calls \in Seq(Range(calls)) /\ calls # <<>>
        /\ request.sent.modifier = calls[Len(calls)].modifier /\ request.sent.letters = all
    BY <1>2 DEF RightsInv, AddedUp
  <2>2. Len(calls) \in DOMAIN calls
    <3>. HIDE DEF calls
    <3>. QED BY <2>1
  <2>3. request.sent.modifier = calls[1].modifier
    BY <1>2, <2>1, <2>2
  <2>. HIDE DEF calls, all
  <2>4. Granted(acl, request.sent) =
          CASE calls[1].modifier = "+" -> acl \union all
            [] calls[1].modifier = "-" -> acl \ all
            [] OTHER -> all
    BY <2>1, <2>3 DEF Granted
  <2>. QED BY <2>4 DEF calls, all
<1>3. ASSUME class = "listrights", phase # "new"
      PROVE  LET said == OfKind("LISTRIGHTS")
             IN /\ IF said = {} THEN data.default = {}
                   ELSE \E r \in LastOf(told, said) : data.default = r.first.letters \intersect KnownRights
                /\ Range(data.possible) = {other.letters \intersect KnownRights : other \in UNION {Range(r.others) : r \in said}}
  BY <1>3 DEF RightsInv, ListRightsInv, MayBeAdded
<1>4. ASSUME class = "myrights", phase # "new"
      PROVE  LET said == OfKind("MYRIGHTS")
             IN IF said = {} THEN data = {}
                ELSE \E r \in LastOf(told, said) : data = r.string.letters \intersect KnownRights
  BY <1>4 DEF RightsInv, MyRightsInv
<1>. QED BY <1>1, <1>2, <1>3, <1>4, RightsAreTranslated DEF RightsAreKnown, AclOf, Is

(* What the calls add up to after one more of them.                        *)
LEMMA OneCallMore ==
  ASSUME NEW calls, NEW call, calls = <<>> \/ calls \in Seq(Range(calls))
  PROVE  LET new == Append(calls, call)
         IN /\ new \in Seq(Range(new)) /\ new # <<>> /\ new[Len(new)] = call
            /\ Range(new) = Range(calls) \union {call}
<1>1. calls \in Seq(Range(calls))
  BY EmptyHistory
<1>. DEFINE new == Append(calls, call)
<1>2. new \in Seq(Range(new)) /\ Range(new) = Range(calls) \union {call}
  BY <1>1, HistoryGrows
<1>3. new # <<>> /\ Len(new) = Len(calls) + 1 /\ new[Len(calls) + 1] = call
  BY <1>1
<1>. QED BY <1>2, <1>3

(* SetAclJob is asked for one more change.                                 *)
LEMMA SetAclRightsKeeps == ASSUME RightsInv, SetAclRights PROVE RightsInv'
<1>1. PICK call : /\ request' = Append(request, call)
                  /\ data' = SetRights(IF request = <<>> THEN NoRights ELSE data, call)
  BY DEF SetAclRights
<1>2. class' = class /\ phase' = phase /\ class = "setacl" /\ phase = "new"
  BY DEF SetAclRights, jobVars, Is
<1>3. request = <<>> \/ AddedUp(request, data.modifier, data.rightList)
  BY <1>2 DEF RightsInv
<1>4. /\ request' \in Seq(Range(request')) /\ request' # <<>> /\ request'[Len(request')] = call
      /\ Range(request') = Range(request) \union {call}
  BY <1>1, <1>3, OneCallMore DEF AddedUp
<1>. DEFINE Sum(calls) == UNION {c.rights : c \in calls}
<1>5. Sum(Range(request) \union {call}) = Sum(Range(request)) \union call.rights
  <2>. DEFINE S(calls) == {c.rights : c \in calls}
              all == S(Range(request))
  <2>1. S(Range(request) \union {call}) = all \union {call.rights}
    OBVIOUS
  <2>2. UNION (all \union {call.rights}) = (UNION all) \union call.rights
    <3>. HIDE DEF all
    <3>. QED BY UnionGrows
  <2>3. UNION S(Range(request) \union {call}) = (UNION all) \union call.rights
    <3>. HIDE DEF S
    <3>. QED BY <2>1, <2>2, Zenon
  <2>. QED BY <2>3, Zenon
<1>6. data'.modifier = call.modifier /\ data'.rightList = Sum(Range(request)) \union call.rights
  <2>1. CASE request = <<>>
    <3>1. Sum(Range(request)) = {}
      BY <2>1, EmptyHistory
    <3>2. data' = [modifier |-> call.modifier, rightList |-> {} \union call.rights]
      BY <1>1, <2>1 DEF SetRights, NoRights
    <3>. HIDE DEF Sum
    <3>. QED BY <3>1, <3>2
  <2>2. CASE request # <<>>
    <3>1. data.rightList = Sum(Range(request))
      BY <1>3, <2>2 DEF AddedUp
    <3>2. data' = [modifier |-> call.modifier, rightList |-> data.rightList \union call.rights]
      BY <1>1, <2>2 DEF SetRights
    <3>. HIDE DEF Sum
    <3>. QED BY <3>1, <3>2
  <2>. QED BY <2>1, <2>2
<1>7. data'.rightList = Sum(Range(request'))
  BY <1>4, <1>5, <1>6
<1>8. AddedUp(request', data'.modifier, data'.rightList)
  BY <1>4, <1>6, <1>7 DEF AddedUp
<1>. QED BY <1>2, <1>8 DEF RightsInv

(* SETACL is sent.                                                         *)
LEMMA SetAclStartKeeps == ASSUME RightsInv, SetAclStart PROVE RightsInv'
<1>1. /\ class' = class /\ class = "setacl" /\ phase = "new" /\ phase' # "new" /\ request # <<>>
      /\ request' = [calls |-> request, sent |-> RightsSent(data)]
  BY DEF SetAclStart, Start, SendCommand, SendCommands, Is
<1>2. AddedUp(request, data.modifier, data.rightList)
  BY <1>1 DEF RightsInv
<1>3. RightsSent(data) = [modifier |-> data.modifier, letters |-> data.rightList]
  <2>1. PICK none : RightsToString(data.rightList) = [modifier |-> none, letters |-> data.rightList]
    BY Zenon DEF RightsToString
  <2>2. RightsSent(data) = [RightsToString(data.rightList) EXCEPT !.modifier = data.modifier]
    BY DEF RightsSent
  <2>. QED BY <2>1, <2>2
<1>4. request'.calls = request /\ request'.sent.modifier = data.modifier /\ request'.sent.letters = data.rightList
  BY <1>1, <1>3
<1>. QED BY <1>1, <1>2, <1>4 DEF RightsInv

(* An ACL is the last one of its identifier.                               *)
LEMMA AclKeeps ==
  ASSUME HistoryInv, RightsInv, NEW id, NEW string,
         Respond("getacl", [kind |-> "ACL", id |-> id, string |-> string], GetAclRead)
  PROVE  RightsInv'
<1>. DEFINE r == [kind |-> "ACL", id |-> id, string |-> string]
<1>1. /\ class = "getacl" /\ class' = class /\ phase = "running" /\ told' = Append(told, r)
      /\ data' = Inserted(data, id, string.letters \intersect KnownRights)
  BY DEF Respond, Untagged, Tell, Is, GetAclRead, RightsFromString
<1>2. told \in Seq(Range(told))
  BY <1>1 DEF HistoryInv, QuietClasses, AccountClasses
<1>3. Range(told') = Range(told) \union {r}
  BY <1>1, <1>2, HistoryGrows
<1>4. /\ DOMAIN data' = DOMAIN data \union {id} /\ data'[id] = string.letters \intersect KnownRights
      /\ \A k \in DOMAIN data : k # id => data'[k] = data[k]
  BY <1>1 DEF Inserted
<1>5. ASSUME NEW one \in Identifiers
      PROVE  IF AclOf(told', one) = {} THEN one \notin DOMAIN data'
             ELSE /\ one \in DOMAIN data'
                  /\ \E s \in LastOf(told', AclOf(told', one)) : data'[one] = s.string.letters \intersect KnownRights
  <2>1. CASE one = id
    <3>1. r \in AclOf(told', one)
      BY <1>3, <2>1 DEF AclOf
    <3>2. LastOf(told', AclOf(told', one)) = {r}
      BY <1>1, <1>2, <3>1, LastIsNew
    <3>3. r.string = string
      OBVIOUS
    <3>. HIDE DEF r
    <3>. QED BY <1>4, <2>1, <3>1, <3>2, <3>3
  <2>2. CASE one # id
    <3>1. AclOf(told', one) = AclOf(told, one) /\ r \notin AclOf(told', one)
      BY <1>3, <2>2 DEF AclOf
    <3>2. LastOf(told', AclOf(told', one)) = LastOf(told, AclOf(told, one))
      BY <1>1, <1>2, <3>1, LastStays
    <3>3. IF AclOf(told, one) = {} THEN one \notin DOMAIN data
          ELSE /\ one \in DOMAIN data
               /\ \E s \in LastOf(told, AclOf(told, one)) : data[one] = s.string.letters \intersect KnownRights
      BY <1>1 DEF RightsInv
    <3>. QED BY <1>4, <2>2, <3>1, <3>2, <3>3
  <2>. QED BY <2>1, <2>2
<1>. QED BY <1>1, <1>5 DEF RightsInv

(* The last MYRIGHTS counts.                                               *)
LEMMA MyRightsKeeps ==
  ASSUME HistoryInv, NEW string, Respond("myrights", [kind |-> "MYRIGHTS", string |-> string], MyRightsRead)
  PROVE  RightsInv'
<1>. DEFINE r == [kind |-> "MYRIGHTS", string |-> string]
<1>1. /\ class = "myrights" /\ class' = class /\ told' = Append(told, r)
      /\ data' = string.letters \intersect KnownRights
  BY DEF Respond, Untagged, Tell, Is, MyRightsRead, RightsFromString
<1>2. told \in Seq(Range(told))
  BY <1>1 DEF HistoryInv, QuietClasses, AccountClasses
<1>3. r.kind = "MYRIGHTS" /\ r.string = string
  OBVIOUS
<1>. HIDE DEF r
<1>4. r \in OfKind("MYRIGHTS")'
  BY <1>1, <1>2, <1>3, ToldGrows
<1>5. LastOf(told', OfKind("MYRIGHTS")') = {r}
  BY <1>1, <1>2, <1>4, LastIsNew
<1>6. MyRightsInv'
  BY <1>1, <1>3, <1>4, <1>5 DEF MyRightsInv
<1>. QED BY <1>1, <1>6 DEF RightsInv

(* The rights of each of two strings.                                      *)
LEMMA RightsOfTwo ==
  ASSUME NEW a, NEW b
  PROVE  LET s == <<a, b>>
             t == [k \in DOMAIN s |-> RightsFromString(s[k])]
         IN t \in Seq(Range(t)) /\ Range(t) = {other.letters \intersect KnownRights : other \in Range(s)}
<1>. DEFINE s == <<a, b>>
            t == [k \in DOMAIN s |-> RightsFromString(s[k])]
<1>1. DOMAIN s = 1..2 /\ s[1] = a /\ s[2] = b
  OBVIOUS
<1>2. Range(s) = {a, b}
  BY TwoAreAList
<1>3. DOMAIN t = 1..2 /\ t[1] = RightsFromString(a) /\ t[2] = RightsFromString(b)
  BY <1>1
<1>4. t = [k \in 1..2 |-> t[k]]
  BY <1>1
<1>. HIDE DEF s, t
<1>5. Range(t) = {RightsFromString(a), RightsFromString(b)}
  BY <1>3 DEF Range
<1>6. t \in [1..2 -> Range(t)]
  BY <1>3, <1>4 DEF Range
<1>7. t \in Seq(Range(t))
  BY <1>6, SeqDef
<1>8. Range(t) = {other.letters \intersect KnownRights : other \in Range(s)}
  BY <1>2, <1>5 DEF RightsFromString
<1>. QED BY <1>7, <1>8 DEF s, t

(* What may be added after one more LISTRIGHTS.                            *)
LEMMA MoreMayBeAdded ==
  ASSUME NEW S, NEW r
  PROVE  MayBeAdded(S \union {r}) = MayBeAdded(S) \union {other.letters \intersect KnownRights : other \in Range(r.others)}
<1>. DEFINE V(T) == {Range(t.others) : t \in T}
<1>1. V(S \union {r}) = V(S) \union {Range(r.others)}
  OBVIOUS
<1>2. UNION (V(S) \union {Range(r.others)}) = (UNION V(S)) \union Range(r.others)
  <2>. HIDE DEF V
  <2>. QED BY UnionGrows
<1>. HIDE DEF V
<1>3. UNION V(S \union {r}) = (UNION V(S)) \union Range(r.others)
  BY <1>1, <1>2, Zenon
<1>4. \A T : MayBeAdded(T) = {other.letters \intersect KnownRights : other \in UNION V(T)}
  BY Zenon DEF MayBeAdded, V
<1>. QED BY <1>3, <1>4

(* The first set of the last LISTRIGHTS counts, and the others of all.     *)
LEMMA ListRightsKeeps ==
  ASSUME HistoryInv, RightsInv, NEW first, NEW one, NEW other,
         Respond("listrights", [kind |-> "LISTRIGHTS", first |-> first, others |-> <<one, other>>], ListRightsRead)
  PROVE  RightsInv'
<1>. DEFINE r == [kind |-> "LISTRIGHTS", first |-> first, others |-> <<one, other>>]
            more == [k \in DOMAIN r.others |-> RightsFromString(r.others[k])]
<1>1. r.kind = "LISTRIGHTS" /\ r.first = first /\ r.others = <<one, other>>
  OBVIOUS
<1>. HIDE DEF r
<1>2. /\ class = "listrights" /\ class' = class /\ phase = "running" /\ told' = Append(told, r)
      /\ data' = ListRightsRead(data, r)
  BY DEF Respond, Untagged, Tell, Is, r
<1>3. told \in Seq(Range(told))
  BY <1>2 DEF HistoryInv, QuietClasses, AccountClasses
<1>4. ListRightsInv
  BY <1>2 DEF RightsInv
<1>5. OfKind("LISTRIGHTS")' = OfKind("LISTRIGHTS") \union {r}
  BY <1>1, <1>2, <1>3, ToldGrows
<1>6. LastOf(told', OfKind("LISTRIGHTS")') = {r}
  BY <1>2, <1>3, <1>5, LastIsNew
<1>7. data' = [default |-> RightsFromString(r.first), possible |-> data.possible \o more]
  BY <1>1, <1>2 DEF ListRightsRead
<1>8. more \in Seq(Range(more)) /\ Range(more) = {o.letters \intersect KnownRights : o \in Range(r.others)}
  BY <1>1, RightsOfTwo
<1>. HIDE DEF more
<1>9. data'.default = first.letters \intersect KnownRights /\ data'.possible = data.possible \o more
  BY <1>1, <1>7 DEF RightsFromString
<1>10. /\ data'.possible \in Seq(Range(data'.possible))
       /\ Range(data'.possible) = Range(data.possible) \union Range(more)
  BY <1>4, <1>8, <1>9, JoinedRange DEF ListRightsInv
<1>11. Range(data'.possible) = MayBeAdded(OfKind("LISTRIGHTS")')
  <2>1. MayBeAdded(OfKind("LISTRIGHTS") \union {r}) =
          MayBeAdded(OfKind("LISTRIGHTS")) \union {o.letters \intersect KnownRights : o \in Range(r.others)}
    BY MoreMayBeAdded
  <2>2. Range(data.possible) = MayBeAdded(OfKind("LISTRIGHTS"))
    BY <1>4 DEF ListRightsInv
  <2>3. MayBeAdded(OfKind("LISTRIGHTS")') = MayBeAdded(OfKind("LISTRIGHTS") \union {r})
    BY <1>5
  <2>. QED BY <1>8, <1>10, <2>1, <2>2, <2>3, Zenon
<1>12. ListRightsInv'
  BY <1>1, <1>5, <1>6, <1>9, <1>10, <1>11 DEF ListRightsInv, MayBeAdded
<1>. QED BY <1>2, <1>12 DEF RightsInv

(* Nothing is said to MyRightsJob and ListRightsJob when they start.       *)
LEMMA RightsStartKeeps == ASSUME HistoryInv, MyRightsStart \/ ListRightsStart PROVE RightsInv'
<1>1. /\ class' = class /\ phase = "new" /\ told' = told
      /\ \/ class = "myrights" /\ data' = {}
         \/ class = "listrights" /\ data' = [default |-> {}, possible |-> <<>>]
  BY DEF MyRightsStart, ListRightsStart, Start, SendCommand, SendCommands, Is
<1>2. told = <<>>
  BY <1>1 DEF HistoryInv, QuietClasses, AccountClasses
<1>3. OfKind("MYRIGHTS")' = {} /\ OfKind("LISTRIGHTS")' = {}
  BY <1>1, <1>2, NothingTold DEF OfKind
<1>4. MayBeAdded({}) = {}
  BY DEF MayBeAdded
<1>5. CASE class = "myrights"
  BY <1>1, <1>3, <1>5 DEF RightsInv, MyRightsInv
<1>6. CASE class = "listrights"
  <2>1. data'.default = {} /\ data'.possible = <<>>
    BY <1>1, <1>6
  <2>2. ListRightsInv'
    BY <1>3, <1>4, <2>1, EmptyHistory DEF ListRightsInv, MayBeAdded
  <2>. QED BY <1>1, <1>6, <2>2 DEF RightsInv
<1>. QED BY <1>1, <1>5, <1>6

(* What a reply says, these jobs do not read.                              *)
LEMMA ReplyKeepsRights ==
  ASSUME HistoryInv, RightsInv, NEW c, NEW code, Reply(c, code, NoCode, Ignored)
  PROVE  RightsInv'
<1>1. /\ class' = class /\ phase = "running" /\ phase' \in {"running", "done"}
      /\ told' = Append(told, NoCode) /\ data' = data /\ request' = request
  BY HandledIsRefused DEF Reply, Tagged, Ignored, HandleErrorReplies
<1>2. CASE class = "setacl"
  BY <1>1, <1>2 DEF RightsInv
<1>3. ASSUME class \in {"getacl", "myrights", "listrights"}
      PROVE  /\ \A id : /\ AclOf(told', id) = AclOf(told, id)
                         /\ LastOf(told', AclOf(told', id)) = LastOf(told, AclOf(told, id))
             /\ \A kind \in {"MYRIGHTS", "LISTRIGHTS"} :
                  OfKind(kind)' = OfKind(kind) /\ LastOf(told', OfKind(kind)) = LastOf(told, OfKind(kind))
  <2>1. told \in Seq(Range(told))
    BY <1>3 DEF HistoryInv, QuietClasses, AccountClasses
  <2>2. Range(told') = Range(told) \union {NoCode} /\ NoCode.kind = "none"
    BY <1>1, <2>1, HistoryGrows DEF NoCode
  <2>3. ASSUME NEW id
        PROVE  AclOf(told', id) = AclOf(told, id) /\ LastOf(told', AclOf(told', id)) = LastOf(told, AclOf(told, id))
    <3>1. AclOf(told', id) = AclOf(told, id) /\ NoCode \notin AclOf(told', id)
      BY <2>2 DEF AclOf
    <3>. QED BY <1>1, <2>1, <3>1, LastStays
  <2>4. ASSUME NEW kind \in {"MYRIGHTS", "LISTRIGHTS"}
        PROVE  OfKind(kind)' = OfKind(kind) /\ LastOf(told', OfKind(kind)) = LastOf(told, OfKind(kind))
    <3>1. OfKind(kind)' = OfKind(kind) /\ NoCode \notin OfKind(kind)
      BY <2>2 DEF OfKind
    <3>. QED BY <1>1, <2>1, <3>1, LastStays
  <2>. QED BY <2>3, <2>4
<1>4. CASE class = "getacl"
  BY <1>1, <1>3, <1>4 DEF RightsInv
<1>5. CASE class = "myrights"
  <2>1. /\ OfKind("MYRIGHTS")' = OfKind("MYRIGHTS")
        /\ LastOf(told', OfKind("MYRIGHTS")') = LastOf(told, OfKind("MYRIGHTS"))
    BY <1>3, <1>5
  <2>2. MyRightsInv
    BY <1>1, <1>5 DEF RightsInv
  <2>3. MyRightsInv'
    BY <1>1, <2>1, <2>2 DEF MyRightsInv
  <2>. QED BY <1>1, <1>5, <2>3 DEF RightsInv
<1>6. CASE class = "listrights"
  <2>1. /\ OfKind("LISTRIGHTS")' = OfKind("LISTRIGHTS")
        /\ LastOf(told', OfKind("LISTRIGHTS")') = LastOf(told, OfKind("LISTRIGHTS"))
    BY <1>3, <1>6
  <2>2. ListRightsInv
    BY <1>1, <1>6 DEF RightsInv
  <2>3. ListRightsInv'
    BY <1>1, <2>1, <2>2 DEF ListRightsInv, MayBeAdded
  <2>. QED BY <1>1, <1>6, <2>3 DEF RightsInv
<1>7. CASE class \notin {"getacl", "setacl", "myrights", "listrights"}
  BY <1>1, <1>7 DEF RightsInv
<1>. QED BY <1>2, <1>4, <1>5, <1>6, <1>7

(* Every step of the jobs about accounts keeps the invariant.              *)
LEMMA AccountKeepsRights ==
  ASSUME HistoryInv, RightsInv, AccountNext, class' = class
  PROVE  RightsInv'
<1>1. CASE class \notin {"getacl", "setacl", "myrights", "listrights"}
  BY <1>1 DEF RightsInv
<1>2. QuotaNext => class \in QuotaClasses
  BY DEF QuotaNext, GetQuotaStart, SetQuotaStart, GetQuotaRootStart,
     Start, Respond, Reply, Untagged, Tagged, Is, QuotaClasses
<1>3. class \in {"getacl", "setacl", "myrights", "listrights"} => ~QuotaNext
  BY <1>2 DEF QuotaClasses
<1>4. CASE GetAclStart
  <2>1. class = "getacl" /\ told' = told /\ told = <<>> /\ data' = <<>>
    BY <1>4 DEF GetAclStart, Start, SendCommand, SendCommands, Is, HistoryInv, QuietClasses, AccountClasses
  <2>2. \A id : AclOf(told', id) = {}
    BY <2>1, EmptyHistory DEF AclOf
  <2>. QED BY <2>1, <2>2 DEF RightsInv
<1>5. ASSUME NEW c, Lost(c) PROVE RightsInv'
  <2>1. UNCHANGED <<told, request, data>> /\ phase # "new" /\ phase' # "new"
    BY <1>5 DEF Lost, ConnectionLost, dataVars
  <2>. QED BY <2>1 DEF RightsInv, MyRightsInv, ListRightsInv, MayBeAdded, OfKind
<1>6. CASE RightsNext
  <2>1. ASSUME NEW id, NEW string, Respond("getacl", [kind |-> "ACL", id |-> id, string |-> string], GetAclRead)
        PROVE  RightsInv'
    BY <2>1, AclKeeps
  <2>2. ASSUME NEW string, Respond("myrights", [kind |-> "MYRIGHTS", string |-> string], MyRightsRead)
        PROVE  RightsInv'
    BY <2>2, MyRightsKeeps
  <2>3. ASSUME NEW first, NEW one, NEW other,
               Respond("listrights", [kind |-> "LISTRIGHTS", first |-> first, others |-> <<one, other>>], ListRightsRead)
        PROVE  RightsInv'
    BY <2>3, ListRightsKeeps
  <2>4. DeleteAclStart => class \notin {"getacl", "setacl", "myrights", "listrights"}
    BY DEF DeleteAclStart, Start, Is
  <2>. QED BY <1>1, <1>4, <1>6, <2>1, <2>2, <2>3, <2>4, SetAclRightsKeeps, SetAclStartKeeps, RightsStartKeeps,
              ReplyKeepsRights DEF RightsNext
<1>. QED BY <1>1, <1>3, <1>5, <1>6 DEF AccountNext

(* GetAclJob and MyRightsJob know the rights the server named last, and    *)
(* ListRightsJob those granted anyway and all that may be added;           *)
(* translating rights loses none; and what SetAclJob sends is what the     *)
(* calls of setRights() add up to, however many there were.                *)
THEOREM RightsAreAlwaysKnown == Spec => []RightsAreKnown
<1>1. Init => RightsInv
  BY DEF Init, JobInit, DataInit, RightsInv
<1>2. HistoryInv /\ RightsInv /\ [Next]_vars => RightsInv'
  <2>. SUFFICES ASSUME HistoryInv, RightsInv, [Next]_vars PROVE RightsInv'
    OBVIOUS
  <2>1. CASE UNCHANGED vars
    BY <2>1 DEF vars, jobVars, dataVars, RightsInv, MyRightsInv, ListRightsInv, MayBeAdded, OfKind
  <2>2. CASE class \notin AccountClasses
    BY <2>2, StepOfClass DEF RightsInv, AccountClasses
  <2>. QED BY <2>1, <2>2, StepOfClass, AccountKeepsRights
<1>. QED BY <1>1, <1>2, HistoryHolds, RightsInvMeaning, PTL DEF Spec

-----------------------------------------------------------------------------

(* NumbersAreKnown.  Each of the jobs about messages has the last of what  *)
(* the server gave it, a StoreJob by key.                                  *)
KindOf(history, kind) == {r \in Range(history) : r.kind = kind}

ValueSaid(history, kind, default) ==
  IF KindOf(history, kind) = {} THEN {default} ELSE {r.value : r \in LastOf(history, KindOf(history, kind))}

WholeCodes(history) == {r \in KindOf(history, "COPYUID") : r.arguments = 3}

KeyIn(uidBased, r) == IF uidBased THEN r.uid ELSE r.id

FetchOf(history, uidBased, key) == {r \in KindOf(history, "FETCH") : KeyIn(uidBased, r) = key}
ModSeqOf(history, uidBased, key) == {r \in FetchOf(history, uidBased, key) : r.modSeq # Unset}

(* What FlagsRead() may make of the flags of a response.                   *)
Meant(flags) == flags \ {""}

StoreInv(uidBased, d) ==
  /\ d = [flags |-> d.flags, modSeqs |-> d.modSeqs, unchanged |-> d.unchanged]
  /\ \A key : key \in DOMAIN d.flags <=> key # Unset /\ FetchOf(told, uidBased, key) # {}
  /\ \A key \in DOMAIN d.flags : \E r \in LastOf(told, FetchOf(told, uidBased, key)) : Meant(d.flags[key]) = r.flags
  /\ \A key : key \in DOMAIN d.modSeqs <=> key # Unset /\ ModSeqOf(told, uidBased, key) # {}
  /\ \A key \in DOMAIN d.modSeqs : \E r \in LastOf(told, ModSeqOf(told, uidBased, key)) : d.modSeqs[key] = r.modSeq
  /\ d.unchanged \in ValueSaid(told, "MODIFIED", {})

NumbersInv ==
  phase # "new" =>
    /\ class = "append" => /\ data = [sent |-> data.sent, uid |-> data.uid]
                           /\ data.uid \in ValueSaid(told, "APPENDUID", Unset)
    /\ class = "store" /\ (told # <<>> \/ phase = "running") => StoreInv(request.uidBased, data)
    /\ class \in {"copy", "move"} =>
         IF WholeCodes(told) = {} THEN data = {} ELSE \E r \in LastOf(told, WholeCodes(told)) : data = r.value
    /\ class \in {"expunge", "close"} =>
         /\ data = [vanished |-> data.vanished, highestModSeq |-> data.highestModSeq]
         /\ data.vanished = UNION {r.value : r \in OfKind("VANISHED")}
         /\ data.highestModSeq \in ValueSaid(told, "HIGHESTMODSEQ", Unset)

(* One response more is the last of its kind.                              *)
LEMMA ValueIsSaid ==
  ASSUME NEW s, s \in Seq(Range(s)), NEW r, NEW kind, NEW default
  PROVE  ValueSaid(Append(s, r), kind, default) = IF r.kind = kind THEN {r.value} ELSE ValueSaid(s, kind, default)
<1>. DEFINE new == KindOf(Append(s, r), kind)
            old == KindOf(s, kind)
<1>1. Range(Append(s, r)) = Range(s) \union {r}
  BY HistoryGrows
<1>2. CASE r.kind = kind
  <2>1. r \in new
    BY <1>1, <1>2 DEF KindOf
  <2>2. LastOf(Append(s, r), new) = {r}
    <3>. HIDE DEF new
    <3>. QED BY <2>1, LastIsNew
  <2>. QED BY <1>2, <2>1, <2>2 DEF ValueSaid
<1>3. CASE r.kind # kind
  <2>1. new = old /\ r \notin new
    BY <1>1, <1>3 DEF KindOf
  <2>2. LastOf(Append(s, r), new) = LastOf(s, old)
    <3>. HIDE DEF new, old
    <3>. QED BY <2>1, LastStays
  <2>. QED BY <1>3, <2>1, <2>2 DEF ValueSaid
<1>. QED BY <1>2, <1>3

(* Before the first response nothing is said.                              *)
LEMMA NoValueSaid ==
  /\ \A kind : KindOf(<<>>, kind) = {}
  /\ \A kind, default : ValueSaid(<<>>, kind, default) = {default}
<1>1. \A kind : KindOf(<<>>, kind) = {}
  BY EmptyHistory DEF KindOf
<1>. QED BY <1>1 DEF ValueSaid

(* The flags are meant as they were sent.                                  *)
LEMMA FlagsAreMeant == ASSUME NEW flags \in FlagSets PROVE Meant(FlagsRead(flags)) = flags
<1>1. CASE flags = {}
  BY <1>1, Zenon DEF Meant, FlagsRead
<1>2. CASE flags # {}
  <2>1. "" \notin flags
    BY FlagsAssumption, Zenon
  <2>2. \A x : x \in flags \ {""} <=> x \in flags
    BY <2>1, Zenon
  <2>3. flags \ {""} = flags
    BY <2>2, Zenon
  <2>. QED BY <1>2, <2>3, Zenon DEF Meant, FlagsRead
<1>. QED BY <1>1, <1>2

(* What the invariant means.                                               *)
LEMMA NumbersInvMeaning == NumbersInv => NumbersAreKnown
<1>. SUFFICES ASSUME NumbersInv PROVE NumbersAreKnown
  OBVIOUS
<1>1. \A kind, default : Final(kind, default) = ValueSaid(told, kind, default)
  BY Zenon DEF Final, ValueSaid, OfKind, KindOf
<1>2. class = "append" /\ phase # "new" => data.uid \in Final("APPENDUID", Unset)
  BY <1>1 DEF NumbersInv
<1>3. ASSUME class = "store", phase # "new", told # <<>>
      PROVE  LET id(r) == IF request.uidBased THEN r.uid ELSE r.id
                 about(key) == {r \in OfKind("FETCH") : id(r) = key}
                 keys == {id(r) : r \in OfKind("FETCH")} \ {Unset}
                 withModSeq(key) == {r \in about(key) : r.modSeq # Unset}
             IN /\ DOMAIN data.flags = keys
                /\ \A key \in keys : \E r \in LastOf(told, about(key)) : data.flags[key] \ {""} = r.flags
                /\ DOMAIN data.modSeqs = {key \in keys : withModSeq(key) # {}}
                /\ \A key \in DOMAIN data.modSeqs :
                     \E r \in LastOf(told, withModSeq(key)) : data.modSeqs[key] = r.modSeq
                /\ data.unchanged \in Final("MODIFIED", {})
  <2>. DEFINE u == request.uidBased
              id(r) == IF u THEN r.uid ELSE r.id
              about(key) == {r \in OfKind("FETCH") : id(r) = key}
              keys == {id(r) : r \in OfKind("FETCH")} \ {Unset}
              withModSeq(key) == {r \in about(key) : r.modSeq # Unset}
  <2>1. StoreInv(u, data)
    BY <1>3 DEF NumbersInv
  <2>2. \A key : about(key) = FetchOf(told, u, key)
    BY Zenon DEF OfKind, FetchOf, KindOf, KeyIn
  <2>3. \A key : withModSeq(key) = ModSeqOf(told, u, key)
    BY <2>2, Zenon DEF ModSeqOf
  <2>4. \A key : key \in keys <=> key # Unset /\ about(key) # {}
    <3>. HIDE DEF u
    <3>. QED OBVIOUS
  <2>5. \A key : ModSeqOf(told, u, key) # {} => FetchOf(told, u, key) # {}
    BY DEF ModSeqOf
  <2>. HIDE DEF about, keys, withModSeq
  <2>6. DOMAIN data.flags = keys
    BY <2>1, <2>2, <2>4 DEF StoreInv
  <2>7. DOMAIN data.modSeqs = {key \in keys : withModSeq(key) # {}}
    BY <2>1, <2>2, <2>3, <2>4, <2>5 DEF StoreInv
  <2>8. ASSUME NEW key \in keys PROVE \E r \in LastOf(told, about(key)) : data.flags[key] \ {""} = r.flags
    <3>1. \E r \in LastOf(told, about(key)) : Meant(data.flags[key]) = r.flags
      BY <2>1, <2>2, <2>6 DEF StoreInv
    <3>. QED BY <3>1, Zenon DEF Meant
  <2>9. \A key \in DOMAIN data.modSeqs : \E r \in LastOf(told, withModSeq(key)) : data.modSeqs[key] = r.modSeq
    BY <2>1, <2>3 DEF StoreInv
  <2>10. data.unchanged \in Final("MODIFIED", {})
    BY <1>1, <2>1 DEF StoreInv
  <2>. QED BY <2>6, <2>7, <2>8, <2>9, <2>10, Zenon DEF about, keys, withModSeq
<1>4. ASSUME class \in {"copy", "move"}, phase # "new"
      PROVE  LET whole == {r \in OfKind("COPYUID") : r.arguments = 3}
             IN IF whole = {} THEN data = {} ELSE \E r \in LastOf(told, whole) : data = r.value
  BY <1>4 DEF NumbersInv, WholeCodes, OfKind, KindOf
<1>5. class \in {"expunge", "close"} /\ phase # "new" =>
        /\ data.vanished = UNION {r.value : r \in OfKind("VANISHED")}
        /\ data.highestModSeq \in Final("HIGHESTMODSEQ", Unset)
  BY <1>1 DEF NumbersInv
<1>. QED BY <1>2, <1>3, <1>4, <1>5, Zenon DEF NumbersAreKnown, Is

(* What every response to a job about messages does.                       *)
LEMMA MessageIsTold ==
  ASSUME HistoryInv, NEW c \in MessageClasses, NEW r, Untagged(c, r) \/ \E code : Tagged(c, code, r)
  PROVE  /\ class = c /\ class' = class /\ phase = "running" /\ phase' # "new" /\ request' = request
         /\ told' = Append(told, r) /\ told \in Seq(Range(told))
<1>1. /\ class = c /\ class' = class /\ phase = "running" /\ phase' # "new" /\ request' = request
      /\ told' = Append(told, r)
  BY HandledIsRefused DEF Untagged, Tagged, Tell, Is
<1>. QED BY <1>1 DEF HistoryInv, QuietClasses

(* What every start of one does.                                           *)
LEMMA MessageIsStarted ==
  ASSUME HistoryInv, NEW c \in MessageClasses, NEW asked_, NEW empty, Start(c, asked_, empty)
  PROVE  /\ class = c /\ class' = class /\ told' = <<>> /\ request' = asked_ /\ data' = empty
<1>1. class = c /\ class' = class /\ phase = "new" /\ told' = told /\ request' = asked_ /\ data' = empty
  BY DEF Start, SendCommand, SendCommands, Is
<1>. QED BY <1>1 DEF HistoryInv, QuietClasses

(* AppendJob.                                                              *)
LEMMA AppendKeeps == ASSUME HistoryInv, NumbersInv, AppendNext PROVE NumbersInv'
<1>1. CASE AppendStart
  <2>1. class' = "append" /\ told' = <<>> /\ data' = [sent |-> 0, uid |-> Unset]
    BY <1>1, MessageIsStarted DEF AppendStart, MessageClasses
  <2>. QED BY <2>1, NoValueSaid DEF NumbersInv
<1>2. ASSUME NEW r, Untagged("append", r) \/ (\E code : Tagged("append", code, r)), data' = AppendRead(data, r),
             r.kind \in {"+", "APPENDUID", "none"}
      PROVE  NumbersInv'
  <2>1. /\ class = "append" /\ class' = class /\ phase = "running"
        /\ told' = Append(told, r) /\ told \in Seq(Range(told))
    BY <1>2, MessageIsTold DEF MessageClasses
  <2>2. data = [sent |-> data.sent, uid |-> data.uid] /\ data.uid \in ValueSaid(told, "APPENDUID", Unset)
    BY <2>1 DEF NumbersInv
  <2>3. ValueSaid(told', "APPENDUID", Unset) =
          IF r.kind = "APPENDUID" THEN {r.value} ELSE ValueSaid(told, "APPENDUID", Unset)
    BY <2>1, ValueIsSaid
  <2>4. /\ data' = [sent |-> data'.sent, uid |-> data'.uid]
        /\ data'.uid = IF r.kind = "APPENDUID" THEN r.value ELSE data.uid
    <3>1. CASE r.kind = "+"
      BY <1>2, <2>2, <3>1 DEF AppendRead
    <3>2. CASE r.kind = "APPENDUID"
      BY <1>2, <2>2, <3>2 DEF AppendRead
    <3>3. CASE r.kind = "none"
      BY <1>2, <2>2, <3>3 DEF AppendRead
    <3>. QED BY <1>2, <3>1, <3>2, <3>3
  <2>. QED BY <2>1, <2>2, <2>3, <2>4 DEF NumbersInv
<1>3. ASSUME Respond("append", [kind |-> "+"], AppendRead) PROVE NumbersInv'
  BY <1>2, <1>3 DEF Respond
<1>4. ASSUME NEW code, NEW uid, Reply("append", code, [kind |-> "APPENDUID", value |-> uid], AppendRead)
      PROVE  NumbersInv'
  BY <1>2, <1>4 DEF Reply
<1>5. ASSUME NEW code, Reply("append", code, NoCode, AppendRead) PROVE NumbersInv'
  BY <1>2, <1>5 DEF Reply, NoCode
<1>. QED BY <1>1, <1>3, <1>4, <1>5 DEF AppendNext

(* CopyJob and MoveJob.                                                    *)
LEMMA CopyKeeps == ASSUME HistoryInv, NumbersInv, CopyNext PROVE NumbersInv'
<1>1. CASE CopyStart \/ MoveStart
  <2>1. class' \in {"copy", "move"} /\ told' = <<>> /\ data' = {}
    BY <1>1, MessageIsStarted DEF CopyStart, MoveStart, MessageClasses
  <2>2. WholeCodes(told') = {}
    BY <2>1, NoValueSaid DEF WholeCodes
  <2>. QED BY <2>1, <2>2 DEF NumbersInv
<1>2. ASSUME NEW c \in {"copy", "move"}, NEW r, Untagged(c, r) \/ (\E code : Tagged(c, code, r)),
             data' = CopyRead(data, r)
      PROVE  NumbersInv'
  <2>1. /\ class \in {"copy", "move"} /\ class' = class /\ phase = "running"
        /\ told' = Append(told, r) /\ told \in Seq(Range(told))
    BY <1>2, MessageIsTold DEF MessageClasses
  <2>2. IF WholeCodes(told) = {} THEN data = {} ELSE \E s \in LastOf(told, WholeCodes(told)) : data = s.value
    BY <2>1 DEF NumbersInv
  <2>3. Range(told') = Range(told) \union {r}
    BY <2>1, HistoryGrows
  <2>4. CASE r.kind = "COPYUID" /\ r.arguments = 3
    <3>1. r \in WholeCodes(told')
      BY <2>3, <2>4 DEF WholeCodes, KindOf
    <3>2. LastOf(told', WholeCodes(told')) = {r} /\ data' = r.value
      BY <1>2, <2>1, <2>4, <3>1, LastIsNew DEF CopyRead
    <3>. QED BY <2>1, <3>1, <3>2 DEF NumbersInv
  <2>5. CASE ~(r.kind = "COPYUID" /\ r.arguments = 3)
    <3>1. WholeCodes(told') = WholeCodes(told) /\ r \notin WholeCodes(told')
      BY <2>3, <2>5 DEF WholeCodes, KindOf
    <3>2. LastOf(told', WholeCodes(told')) = LastOf(told, WholeCodes(told)) /\ data' = data
      BY <1>2, <2>1, <2>5, <3>1, LastStays DEF CopyRead
    <3>. QED BY <2>1, <2>2, <3>1, <3>2 DEF NumbersInv
  <2>. QED BY <2>4, <2>5
<1>3. ASSUME NEW r, Respond("move", r, CopyRead) PROVE NumbersInv'
  BY <1>2, <1>3 DEF Respond
<1>4. ASSUME NEW c \in {"copy", "move"}, NEW code, NEW r, Reply(c, code, r, CopyRead) PROVE NumbersInv'
  BY <1>2, <1>4 DEF Reply
<1>. QED BY <1>1, <1>3, <1>4 DEF CopyNext

(* ExpungeJob and CloseJob.                                                *)
LEMMA ExpungeKeeps == ASSUME "split" \notin Liberties, HistoryInv, NumbersInv, ExpungeNext PROVE NumbersInv'
<1>1. CASE ExpungeStart \/ CloseStart
  <2>1. class' \in {"expunge", "close"} /\ told' = <<>> /\ data' = [vanished |-> {}, highestModSeq |-> Unset]
    BY <1>1, MessageIsStarted DEF ExpungeStart, CloseStart, MessageClasses
  <2>2. OfKind("VANISHED")' = {} /\ ValueSaid(told', "HIGHESTMODSEQ", Unset) = {Unset}
    BY <2>1, NoValueSaid, EmptyHistory DEF OfKind
  <2>. QED BY <2>1, <2>2 DEF NumbersInv
<1>2. ASSUME NEW c \in {"expunge", "close"}, NEW r, Untagged(c, r) \/ (\E code : Tagged(c, code, r)),
             data' = ExpungeRead(data, r), r.kind = "VANISHED" => OfKind("VANISHED") = {}
      PROVE  NumbersInv'
  <2>1. /\ class \in {"expunge", "close"} /\ class' = class /\ phase = "running"
        /\ told' = Append(told, r) /\ told \in Seq(Range(told))
    BY <1>2, MessageIsTold DEF MessageClasses
  <2>2. /\ data = [vanished |-> data.vanished, highestModSeq |-> data.highestModSeq]
        /\ data.vanished = UNION {s.value : s \in OfKind("VANISHED")}
        /\ data.highestModSeq \in ValueSaid(told, "HIGHESTMODSEQ", Unset)
    BY <2>1 DEF NumbersInv
  <2>3. ValueSaid(told', "HIGHESTMODSEQ", Unset) =
          IF r.kind = "HIGHESTMODSEQ" THEN {r.value} ELSE ValueSaid(told, "HIGHESTMODSEQ", Unset)
    BY <2>1, ValueIsSaid
  <2>4. OfKind("VANISHED")' = IF r.kind = "VANISHED" THEN {r} ELSE OfKind("VANISHED")
    BY <1>2, <2>1, ToldGrows
  <2>5. /\ data' = [vanished |-> data'.vanished, highestModSeq |-> data'.highestModSeq]
        /\ data'.vanished = IF r.kind = "VANISHED" THEN r.value ELSE data.vanished
        /\ data'.highestModSeq = IF r.kind = "HIGHESTMODSEQ" THEN r.value ELSE data.highestModSeq
    <3>1. CASE r.kind = "HIGHESTMODSEQ"
      BY <1>2, <2>2, <3>1 DEF ExpungeRead
    <3>2. CASE r.kind = "VANISHED"
      BY <1>2, <2>2, <3>2 DEF ExpungeRead
    <3>3. CASE r.kind \notin {"HIGHESTMODSEQ", "VANISHED"}
      <4>1. data' = data
        BY <1>2, <3>3 DEF ExpungeRead
      <4>. QED BY <2>2, <3>3, <4>1
    <3>. QED BY <3>1, <3>2, <3>3
  <2>6. data'.vanished = UNION {s.value : s \in OfKind("VANISHED")'}
    <3>1. CASE r.kind = "VANISHED"
      <4>1. UNION {s.value : s \in {r}} = r.value
        OBVIOUS
      <4>. QED BY <2>4, <2>5, <3>1, <4>1
    <3>. QED BY <2>2, <2>4, <2>5, <3>1
  <2>. QED BY <2>1, <2>2, <2>3, <2>5, <2>6 DEF NumbersInv
<1>3. ASSUME NEW uids, IsFirst("expunge", "VANISHED"), Respond("expunge", [kind |-> "VANISHED", value |-> uids], ExpungeRead)
      PROVE  NumbersInv'
  BY <1>2, <1>3 DEF Respond, IsFirst
<1>4. ASSUME NEW n, Respond("expunge", [kind |-> "EXPUNGE", value |-> n], ExpungeRead) PROVE NumbersInv'
  BY <1>2, <1>4 DEF Respond
<1>5. ASSUME NEW c \in {"expunge", "close"}, NEW code, NEW n, Reply(c, code, ModSeqCode(n), ExpungeRead)
      PROVE  NumbersInv'
  BY <1>2, <1>5 DEF Reply, ModSeqCode
<1>. QED BY <1>1, <1>3, <1>4, <1>5 DEF ExpungeNext

(* StoreJob: a response with a FETCH is the last one of its key.           *)
LEMMA StoreFetchIsTold ==
  ASSUME NEW s, s \in Seq(Range(s)), NEW r, NEW u, NEW key
  PROVE  /\ r.kind = "FETCH" /\ KeyIn(u, r) = key =>
              /\ FetchOf(Append(s, r), u, key) # {} /\ LastOf(Append(s, r), FetchOf(Append(s, r), u, key)) = {r}
              /\ r.modSeq # Unset =>
                   /\ ModSeqOf(Append(s, r), u, key) # {}
                   /\ LastOf(Append(s, r), ModSeqOf(Append(s, r), u, key)) = {r}
         /\ r.kind # "FETCH" \/ KeyIn(u, r) # key =>
              /\ FetchOf(Append(s, r), u, key) = FetchOf(s, u, key)
              /\ LastOf(Append(s, r), FetchOf(Append(s, r), u, key)) = LastOf(s, FetchOf(s, u, key))
         /\ r.kind # "FETCH" \/ KeyIn(u, r) # key \/ r.modSeq = Unset =>
              /\ ModSeqOf(Append(s, r), u, key) = ModSeqOf(s, u, key)
              /\ LastOf(Append(s, r), ModSeqOf(Append(s, r), u, key)) = LastOf(s, ModSeqOf(s, u, key))
<1>. DEFINE t == Append(s, r)
<1>1. Range(t) = Range(s) \union {r}
  BY HistoryGrows
<1>2. ASSUME r.kind = "FETCH", KeyIn(u, r) = key
      PROVE  /\ FetchOf(t, u, key) # {} /\ LastOf(t, FetchOf(t, u, key)) = {r}
             /\ r.modSeq # Unset => ModSeqOf(t, u, key) # {} /\ LastOf(t, ModSeqOf(t, u, key)) = {r}
  <2>1. r \in FetchOf(t, u, key)
    BY <1>1, <1>2 DEF FetchOf, KindOf
  <2>2. r.modSeq # Unset => r \in ModSeqOf(t, u, key)
    BY <2>1 DEF ModSeqOf
  <2>. QED BY <2>1, <2>2, LastIsNew
<1>3. ASSUME r.kind # "FETCH" \/ KeyIn(u, r) # key
      PROVE  FetchOf(t, u, key) = FetchOf(s, u, key) /\ LastOf(t, FetchOf(t, u, key)) = LastOf(s, FetchOf(s, u, key))
  <2>1. FetchOf(t, u, key) = FetchOf(s, u, key) /\ r \notin FetchOf(t, u, key)
    BY <1>1, <1>3 DEF FetchOf, KindOf
  <2>. QED BY <2>1, LastStays
<1>4. ASSUME r.kind # "FETCH" \/ KeyIn(u, r) # key \/ r.modSeq = Unset
      PROVE  ModSeqOf(t, u, key) = ModSeqOf(s, u, key) /\ LastOf(t, ModSeqOf(t, u, key)) = LastOf(s, ModSeqOf(s, u, key))
  <2>1. ModSeqOf(t, u, key) = ModSeqOf(s, u, key) /\ r \notin ModSeqOf(t, u, key)
    BY <1>1, <1>4 DEF ModSeqOf, FetchOf, KindOf
  <2>. QED BY <2>1, LastStays
<1>. QED BY <1>2, <1>3, <1>4

(* What a FETCH does to the data.                                          *)
LEMMA StoreFetchKeeps ==
  ASSUME HistoryInv, NumbersInv, NEW r, Untagged("store", r), data' = StoreRead(data, r),
         r.kind = "FETCH", r.flags \in FlagSets
  PROVE  NumbersInv'
<1>. DEFINE u == request.uidBased
            k == KeyIn(u, r)
<1>1. /\ class = "store" /\ class' = class /\ phase = "running" /\ request' = request
      /\ told' = Append(told, r) /\ told \in Seq(Range(told))
  BY MessageIsTold DEF MessageClasses
<1>2. StoreInv(u, data)
  BY <1>1 DEF NumbersInv
<1>3. KeyOf(r) = k
  BY Zenon DEF KeyOf, KeyIn
<1>4. data' = IF k = Unset THEN data
              ELSE [data EXCEPT !.flags = Inserted(@, k, FlagsRead(r.flags)),
                                !.modSeqs = IF r.modSeq = Unset THEN @ ELSE Inserted(@, k, r.modSeq)]
  <2>1. data' = StoreFetch(data, r)
    BY DEF StoreRead
  <2>2. StoreFetch(data, r) =
          IF k = Unset THEN data
          ELSE [data EXCEPT !.flags = Inserted(@, k, FlagsRead(r.flags)),
                            !.modSeqs = IF r.modSeq = Unset THEN @ ELSE Inserted(@, k, r.modSeq)]
    BY <1>3, Zenon DEF StoreFetch
  <2>. QED BY <2>1, <2>2
<1>5. /\ data' = [flags |-> data'.flags, modSeqs |-> data'.modSeqs, unchanged |-> data'.unchanged]
      /\ data'.flags = IF k = Unset THEN data.flags ELSE Inserted(data.flags, k, FlagsRead(r.flags))
      /\ data'.modSeqs = IF k = Unset \/ r.modSeq = Unset THEN data.modSeqs ELSE Inserted(data.modSeqs, k, r.modSeq)
      /\ data'.unchanged = data.unchanged
  <2>1. data = [flags |-> data.flags, modSeqs |-> data.modSeqs, unchanged |-> data.unchanged]
    BY <1>2 DEF StoreInv
  <2>. HIDE DEF k
  <2>. QED BY <1>4, <2>1
<1>. HIDE DEF u, k
<1>6. /\ DOMAIN data'.flags = IF k = Unset THEN DOMAIN data.flags ELSE DOMAIN data.flags \union {k}
      /\ k # Unset => data'.flags[k] = FlagsRead(r.flags)
      /\ \A key \in DOMAIN data.flags : key # k => data'.flags[key] = data.flags[key]
  BY <1>5 DEF Inserted
<1>7. /\ DOMAIN data'.modSeqs = IF k = Unset \/ r.modSeq = Unset THEN DOMAIN data.modSeqs
                                ELSE DOMAIN data.modSeqs \union {k}
      /\ k # Unset /\ r.modSeq # Unset => data'.modSeqs[k] = r.modSeq
      /\ \A key \in DOMAIN data.modSeqs : key # k \/ r.modSeq = Unset => data'.modSeqs[key] = data.modSeqs[key]
  BY <1>5 DEF Inserted
<1>8. /\ FetchOf(told', u, k) # {} /\ LastOf(told', FetchOf(told', u, k)) = {r}
      /\ r.modSeq # Unset => ModSeqOf(told', u, k) # {} /\ LastOf(told', ModSeqOf(told', u, k)) = {r}
  BY <1>1, StoreFetchIsTold DEF k
<1>9. \A key : key # k =>
        /\ FetchOf(told', u, key) = FetchOf(told, u, key)
        /\ LastOf(told', FetchOf(told', u, key)) = LastOf(told, FetchOf(told, u, key))
  BY <1>1, StoreFetchIsTold DEF k
<1>10. \A key : key # k \/ r.modSeq = Unset =>
         /\ ModSeqOf(told', u, key) = ModSeqOf(told, u, key)
         /\ LastOf(told', ModSeqOf(told', u, key)) = LastOf(told, ModSeqOf(told, u, key))
  BY <1>1, StoreFetchIsTold DEF k
<1>11. Meant(FlagsRead(r.flags)) = r.flags
  BY FlagsAreMeant
<1>12. \A key : key \in DOMAIN data'.flags <=> key # Unset /\ FetchOf(told', u, key) # {}
  BY <1>2, <1>6, <1>8, <1>9 DEF StoreInv
<1>13. ASSUME NEW key \in DOMAIN data'.flags
       PROVE  \E one \in LastOf(told', FetchOf(told', u, key)) : Meant(data'.flags[key]) = one.flags
  <2>0. key # Unset
    BY <1>12
  <2>1. CASE key = k
    BY <1>6, <1>8, <1>11, <2>0, <2>1
  <2>2. CASE key # k
    <3>1. key \in DOMAIN data.flags
      BY <1>6, <2>2
    <3>. QED BY <1>2, <1>6, <1>9, <2>2, <3>1 DEF StoreInv
  <2>. QED BY <2>1, <2>2
<1>14. \A key : key \in DOMAIN data'.modSeqs <=> key # Unset /\ ModSeqOf(told', u, key) # {}
  BY <1>2, <1>7, <1>8, <1>10 DEF StoreInv
<1>15. ASSUME NEW key \in DOMAIN data'.modSeqs
       PROVE  \E one \in LastOf(told', ModSeqOf(told', u, key)) : data'.modSeqs[key] = one.modSeq
  <2>0. key # Unset
    BY <1>14
  <2>1. CASE key = k /\ r.modSeq # Unset
    BY <1>7, <1>8, <2>0, <2>1
  <2>2. CASE key # k \/ r.modSeq = Unset
    <3>1. key \in DOMAIN data.modSeqs
      BY <1>7, <2>2
    <3>. QED BY <1>2, <1>7, <1>10, <2>2, <3>1 DEF StoreInv
  <2>. QED BY <2>1, <2>2
<1>16. ValueSaid(told', "MODIFIED", {}) = ValueSaid(told, "MODIFIED", {})
  BY <1>1, ValueIsSaid
<1>17. data'.unchanged \in ValueSaid(told', "MODIFIED", {})
  BY <1>2, <1>5, <1>16 DEF StoreInv
<1>18. StoreInv(u, data)'
  BY <1>1, <1>5, <1>12, <1>13, <1>14, <1>15, <1>17 DEF StoreInv, u
<1>. QED BY <1>1, <1>18 DEF NumbersInv, u

(* What the reply does.                                                    *)
LEMMA StoreReplyKeeps ==
  ASSUME HistoryInv, NumbersInv, NEW r, NEW code, Tagged("store", code, r), data' = StoreRead(data, r),
         r.kind \in {"MODIFIED", "none"}
  PROVE  NumbersInv'
<1>. DEFINE u == request.uidBased
<1>1. /\ class = "store" /\ class' = class /\ phase = "running" /\ request' = request
      /\ told' = Append(told, r) /\ told \in Seq(Range(told))
  BY MessageIsTold DEF MessageClasses
<1>2. StoreInv(u, data)
  BY <1>1 DEF NumbersInv
<1>3. /\ data' = [flags |-> data'.flags, modSeqs |-> data'.modSeqs, unchanged |-> data'.unchanged]
      /\ data'.flags = data.flags /\ data'.modSeqs = data.modSeqs
      /\ data'.unchanged = IF r.kind = "MODIFIED" THEN r.value ELSE data.unchanged
  <2>1. data = [flags |-> data.flags, modSeqs |-> data.modSeqs, unchanged |-> data.unchanged]
    BY <1>2 DEF StoreInv
  <2>2. data' = IF r.kind = "MODIFIED" THEN [data EXCEPT !.unchanged = r.value] ELSE data
    BY Zenon DEF StoreRead
  <2>. QED BY <2>1, <2>2
<1>4. \A key : /\ FetchOf(told', u, key) = FetchOf(told, u, key)
               /\ LastOf(told', FetchOf(told', u, key)) = LastOf(told, FetchOf(told, u, key))
               /\ ModSeqOf(told', u, key) = ModSeqOf(told, u, key)
               /\ LastOf(told', ModSeqOf(told', u, key)) = LastOf(told, ModSeqOf(told, u, key))
  <2>1. r.kind # "FETCH"
    OBVIOUS
  <2>. HIDE DEF u
  <2>. QED BY <1>1, <2>1, StoreFetchIsTold
<1>5. ValueSaid(told', "MODIFIED", {}) = IF r.kind = "MODIFIED" THEN {r.value} ELSE ValueSaid(told, "MODIFIED", {})
  BY <1>1, ValueIsSaid
<1>6. StoreInv(u, data)'
  BY <1>1, <1>2, <1>3, <1>4, <1>5 DEF StoreInv
<1>. QED BY <1>1, <1>6 DEF NumbersInv

(* StoreJob.                                                               *)
LEMMA StoreKeeps == ASSUME HistoryInv, NumbersInv, StoreNext PROVE NumbersInv'
<1>1. CASE StoreEmptySet
  <2>1. class = "store" /\ class' = class /\ phase = "new" /\ phase' = "done" /\ told' = told
    BY <1>1 DEF StoreEmptySet, Is
  <2>2. told = <<>>
    BY <2>1 DEF HistoryInv, QuietClasses, MessageClasses
  <2>. QED BY <2>1, <2>2 DEF NumbersInv
<1>2. ASSUME NEW uidBased, StoreStart(uidBased) PROVE NumbersInv'
  <2>1. /\ class' = "store" /\ told' = <<>>
        /\ data' = [flags |-> <<>>, modSeqs |-> <<>>, unchanged |-> {}]
    BY <1>2, MessageIsStarted DEF StoreStart, MessageClasses
  <2>2. DOMAIN <<>> = {}
    OBVIOUS
  <2>3. \A u, key : FetchOf(<<>>, u, key) = {} /\ ModSeqOf(<<>>, u, key) = {}
    BY NoValueSaid DEF FetchOf, ModSeqOf
  <2>4. ASSUME NEW u PROVE StoreInv(u, data)'
    BY <2>1, <2>2, <2>3, NoValueSaid DEF StoreInv
  <2>. QED BY <2>1, <2>4 DEF NumbersInv
<1>3. ASSUME NEW id, NEW flags \in FlagSets, NEW modSeq, StoreAnswer(id, flags, modSeq) PROVE NumbersInv'
  <2>. DEFINE r == [kind |-> "FETCH", id |-> id, modSeq |-> modSeq, flags |-> flags,
                    uid |-> IF request.uidBased THEN UidOf(id) ELSE Unset]
  <2>1. Untagged("store", r) /\ data' = StoreRead(data, r)
    BY <1>3, Zenon DEF StoreAnswer, Respond
  <2>2. r.kind = "FETCH" /\ r.flags \in FlagSets
    OBVIOUS
  <2>. HIDE DEF r
  <2>. QED BY <2>1, <2>2, StoreFetchKeeps
<1>4. ASSUME NEW id, NEW flags \in FlagSets, StoreUnsolicited(id, flags) PROVE NumbersInv'
  <2>. DEFINE r == [kind |-> "FETCH", id |-> id, modSeq |-> Unset, flags |-> flags, uid |-> Unset]
  <2>1. Untagged("store", r) /\ data' = StoreRead(data, r)
    BY <1>4, Zenon DEF StoreUnsolicited, Respond
  <2>2. r.kind = "FETCH" /\ r.flags \in FlagSets
    OBVIOUS
  <2>. HIDE DEF r
  <2>. QED BY <2>1, <2>2, StoreFetchKeeps
<1>5. ASSUME NEW code, NEW r, r.kind \in {"MODIFIED", "none"}, Reply("store", code, r, StoreRead) PROVE NumbersInv'
  BY <1>5, StoreReplyKeeps DEF Reply
<1>6. ASSUME NEW code, NEW modified, Reply("store", code, [kind |-> "MODIFIED", value |-> modified], StoreRead)
      PROVE  NumbersInv'
  BY <1>5, <1>6
<1>7. ASSUME NEW code, Reply("store", code, NoCode, StoreRead) PROVE NumbersInv'
  BY <1>5, <1>7 DEF NoCode
<1>. QED BY <1>1, <1>2, <1>3, <1>4, <1>6, <1>7 DEF StoreNext

(* The numbers a job about messages gives are those the server gave, under *)
(* the right keys, as long as the server tells in one response what has    *)
(* vanished.                                                               *)
THEOREM NumbersAreAlwaysKnown ==
  ASSUME "split" \notin Liberties
  PROVE  Spec => []NumbersAreKnown
<1>1. Init => NumbersInv
  BY DEF Init, JobInit, NumbersInv
<1>2. HistoryInv /\ NumbersInv /\ [Next]_vars => NumbersInv'
  <2>. SUFFICES ASSUME HistoryInv, NumbersInv, [Next]_vars PROVE NumbersInv'
    OBVIOUS
  <2>1. CASE UNCHANGED vars
    BY <2>1 DEF vars, jobVars, dataVars, NumbersInv, StoreInv, OfKind
  <2>2. CASE class \notin MessageClasses
    BY <2>2, StepOfClass DEF NumbersInv, MessageClasses
  <2>3. CASE class = "search"
    BY <2>3, StepOfClass DEF NumbersInv
  <2>4. ASSUME NEW c, Lost(c) PROVE NumbersInv'
    <3>1. UNCHANGED <<class, told, request, data>> /\ phase # "new" /\ (phase' = "running" => phase = "running")
      BY <2>4 DEF Lost, ConnectionLost, dataVars
    <3>. QED BY <3>1 DEF NumbersInv, StoreInv, OfKind
  <2>5. CASE SearchNext
    <3>1. class = "search"
      BY <2>5 DEF SearchNext, SearchStart, Start, Respond, Reply, Untagged, Tagged, Is
    <3>. QED BY <2>3, <3>1
  <2>6. CASE MessageNext
    BY <2>4, <2>5, <2>6, AppendKeeps, StoreKeeps, CopyKeeps, ExpungeKeeps DEF MessageNext
  <2>. QED BY <2>1, <2>2, <2>6, StepOfClass
<1>. QED BY <1>1, <1>2, HistoryHolds, NumbersInvMeaning, PTL DEF Spec

-----------------------------------------------------------------------------

(* MetaDataIsKnown.  GetMetaDataJob keeps a value by name and attribute:   *)
(* together they say of which entry it is.                                 *)
EntryKey(entry) == <<RemovePrefix(entry), GetAttribute(entry)>>
EntryOf(key) == AddPrefix(key[1], key[2])

(* What the server says has no value.                                      *)
NoValue(entry) == stored[entry] = ""

(* What GetMetaDataJob takes it for, and which entries the server named.   *)
ValueOf(entry) == IF Annotatemore THEN NilAsText(stored[entry]) ELSE stored[entry]
NamedEntry(entry) == \E r \in OfKind("METADATA") : r.entry = entry

GetInv ==
  class = "getmetadata" /\ phase # "new" =>
    /\ request \subseteq Entries
    /\ \A entry \in Entries : EntryKey(entry) \in DOMAIN data => data[EntryKey(entry)] = ValueOf(entry)
    /\ \A key \in DOMAIN data : \E entry \in Entries : key = EntryKey(entry)
    /\ phase = "running" => /\ \A tag \in tags : tags = {tag}
                            /\ \A r \in Range(told) : r.kind = "METADATA"
    /\ phase = "running" \/ (Succeeded /\ Last(told).kind = "OK") =>
         \A entry \in Entries : NamedEntry(entry) <=> EntryKey(entry) \in DOMAIN data
    /\ Succeeded /\ Last(told).kind = "OK" =>
         \A entry \in request : NoValue(entry) \/ EntryKey(entry) \in DOMAIN data

(* The key of an entry is of no other one.                                 *)
LEMMA KeysAreApart ==
  /\ \A entry \in Entries : AddPrefix(RemovePrefix(entry), GetAttribute(entry)) = entry
  /\ \A entry \in Entries : EntryOf(EntryKey(entry)) = entry
  /\ \A e, f \in Entries : AddPrefix(RemovePrefix(e), GetAttribute(f)) \in Entries
<1>1. \A entry \in Entries : entry = <<entry[1], entry[2]>> /\ entry[1] \in {"/shared", "/private"} /\ entry[2] \in Names
  BY DEF Entries, Scopes
<1>2. \A name \in Names : <<"/shared", name>> \in Entries /\ <<"/private", name>> \in Entries
  BY DEF Entries, Scopes
<1>3. \A a, b : <<a, b>>[1] = a /\ <<a, b>>[2] = b
  OBVIOUS
<1>4. \A entry : ~Annotatemore => RemovePrefix(entry) = entry /\ AddPrefix(RemovePrefix(entry), GetAttribute(entry)) = entry
  BY Zenon DEF RemovePrefix, AddPrefix
<1>5. \A e, f : ~Annotatemore => AddPrefix(RemovePrefix(e), GetAttribute(f)) = e
  BY Zenon DEF RemovePrefix, AddPrefix
<1>6. \A e : Annotatemore => RemovePrefix(e)[2] = e[2]
  BY <1>3, Zenon DEF RemovePrefix
<1>7. \A e : Annotatemore => GetAttribute(e) = IF e[1] = "/shared" THEN "value.shared" ELSE "value.priv"
  BY Zenon DEF GetAttribute
<1>8. \A e, f : Annotatemore => AddPrefix(RemovePrefix(e), GetAttribute(f)) =
                                  IF f[1] = "/shared" THEN <<"/shared", e[2]>> ELSE <<"/private", e[2]>>
  BY <1>6, <1>7 DEF AddPrefix
<1>9. \A entry \in Entries : AddPrefix(RemovePrefix(entry), GetAttribute(entry)) = entry
  BY <1>1, <1>5, <1>8
<1>10. \A entry \in Entries : EntryOf(EntryKey(entry)) = entry
  BY <1>9, <1>3 DEF EntryOf, EntryKey
<1>11. \A e, f \in Entries : AddPrefix(RemovePrefix(e), GetAttribute(f)) \in Entries
  BY <1>1, <1>2, <1>5, <1>8
<1>. QED BY <1>9, <1>10, <1>11

(* What the invariant means.                                               *)
LEMMA GetInvMeaning == GetInv => MetaDataIsKnown
<1>. SUFFICES ASSUME GetInv, Is("getmetadata"), Succeeded, Last(told).kind = "OK" PROVE MetaDataIsKnown
  BY DEF MetaDataIsKnown
<1>1. /\ request \subseteq Entries
      /\ \A entry \in Entries : EntryKey(entry) \in DOMAIN data => data[EntryKey(entry)] = ValueOf(entry)
      /\ \A key \in DOMAIN data : \E entry \in Entries : key = EntryKey(entry)
      /\ \A entry \in Entries : NamedEntry(entry) <=> EntryKey(entry) \in DOMAIN data
      /\ \A entry \in request : NoValue(entry) \/ EntryKey(entry) \in DOMAIN data
  BY DEF GetInv, Is, Succeeded
<1>. DEFINE known(entry) == IF TakenForText(entry) THEN "NIL" ELSE stored[entry]
<1>2. ASSUME NEW entry \in Entries, EntryKey(entry) \in DOMAIN data PROVE data[EntryKey(entry)] = known(entry)
  <2>1. data[EntryKey(entry)] = ValueOf(entry) /\ \E r \in OfKind("METADATA") : r.entry = entry
    BY <1>1, <1>2, Zenon DEF NamedEntry
  <2>. QED BY <2>1, Zenon DEF ValueOf, TakenForText, NilAsText
<1>3. ASSUME NEW entry \in request PROVE MetaData(entry) = known(entry)
  <2>1. entry \in Entries
    BY <1>1
  <2>2. CASE EntryKey(entry) \in DOMAIN data
    <3>1. MetaData(entry) = data[EntryKey(entry)]
      BY <2>2, Zenon DEF MetaData, EntryKey
    <3>. QED BY <1>2, <2>1, <2>2, <3>1, Zenon
  <2>3. CASE EntryKey(entry) \notin DOMAIN data
    <3>1. NoValue(entry) /\ ~NamedEntry(entry)
      BY <1>1, <2>1, <2>3
    <3>2. MetaData(entry) = ""
      BY <2>3, Zenon DEF MetaData, EntryKey
    <3>. QED BY <3>1, <3>2, Zenon DEF NoValue, NamedEntry, TakenForText
  <2>. QED BY <2>2, <2>3
<1>4. ASSUME NEW entry \in DOMAIN AllMetaData PROVE AllMetaData[entry] = known(entry)
  <2>. DEFINE key == CHOOSE k \in DOMAIN data : AddPrefix(k[1], k[2]) = entry
  <2>1. AllMetaData[entry] = data[key] /\ \E k \in DOMAIN data : AddPrefix(k[1], k[2]) = entry
    BY <1>4, Zenon DEF AllMetaData
  <2>2. key \in DOMAIN data /\ EntryOf(key) = entry
    BY <2>1, Zenon DEF EntryOf
  <2>. HIDE DEF key
  <2>3. PICK e \in Entries : key = EntryKey(e)
    BY <1>1, <2>2
  <2>4. e = entry
    BY <2>2, <2>3, KeysAreApart
  <2>. QED BY <1>2, <2>1, <2>2, <2>3, <2>4, Zenon
<1>. QED BY <1>3, <1>4, Zenon DEF MetaDataIsKnown

(* GETMETADATA is sent.                                                    *)
LEMMA GetStartKeeps ==
  ASSUME HistoryInv, NEW entries \in SUBSET Entries, Start("getmetadata", entries, <<>>)
  PROVE  GetInv'
<1>1. /\ class = "getmetadata" /\ phase = "new" /\ phase' = "running" /\ tags' = 1..1 /\ told' = told
      /\ request' = entries /\ data' = <<>>
  BY DEF Start, SendCommand, SendCommands, Is
<1>2. Range(told') = {}
  BY <1>1, EmptyHistory DEF HistoryInv, QuietClasses, MetaClasses
<1>3. DOMAIN data' = {} /\ \A tag \in tags' : tags' = {tag}
  BY <1>1
<1>4. \A entry : ~NamedEntry(entry)'
  BY <1>2 DEF NamedEntry, OfKind
<1>. QED BY <1>1, <1>2, <1>3, <1>4 DEF GetInv, Succeeded

(* An entry has its value on the server.                                   *)
LEMMA GetValueKeeps ==
  ASSUME HistoryInv, GetInv, NEW entry \in Entries, UNCHANGED metaVars,
         Respond("getmetadata", [kind |-> "METADATA", entry |-> entry, value |-> stored[entry]], GetRead)
  PROVE  GetInv'
<1>. DEFINE r == [kind |-> "METADATA", entry |-> entry, value |-> stored[entry]]
            key == EntryKey(entry)
<1>1. /\ class = "getmetadata" /\ class' = class /\ phase = "running" /\ phase' = phase /\ tags' = tags
      /\ told' = Append(told, r) /\ request' = request /\ data' = GetRead(data, r)
  BY DEF Respond, Untagged, Tell, Is
<1>2. told \in Seq(Range(told))
  BY <1>1 DEF HistoryInv, QuietClasses, MetaClasses
<1>3. Range(told') = Range(told) \union {r}
  BY <1>1, <1>2, HistoryGrows
<1>4. /\ request \subseteq Entries
      /\ \A one \in Entries : EntryKey(one) \in DOMAIN data => data[EntryKey(one)] = ValueOf(one)
      /\ \A k \in DOMAIN data : \E one \in Entries : k = EntryKey(one)
      /\ \A tag \in tags : tags = {tag}
      /\ \A s \in Range(told) : s.kind = "METADATA"
      /\ \A one \in Entries : NamedEntry(one) <=> EntryKey(one) \in DOMAIN data
  BY <1>1 DEF GetInv
<1>5. r.entry = entry /\ r.kind = "METADATA" /\ r.value = stored[entry]
  OBVIOUS
<1>6. (data' = data /\ key \in DOMAIN data) \/ data' = Inserted(data, key, ValueOf(entry))
  <2>. HIDE DEF r
  <2>. QED BY <1>1, <1>5, Zenon DEF GetRead, EntryKey, ValueOf
<1>7. /\ DOMAIN data' = DOMAIN data \union {key} /\ data'[key] = ValueOf(entry)
      /\ \A k \in DOMAIN data : k # key => data'[k] = data[k]
  <2>. HIDE DEF key
  <2>1. CASE data' = data /\ key \in DOMAIN data
    BY <1>4, <2>1 DEF key
  <2>2. CASE data' = Inserted(data, key, ValueOf(entry))
    BY <2>2 DEF Inserted
  <2>. QED BY <1>6, <2>1, <2>2
<1>8. \A one : EntryKey(one)' = EntryKey(one) /\ ValueOf(one)' = ValueOf(one)
  BY Zenon DEF metaVars, EntryKey, RemovePrefix, GetAttribute, Annotatemore, ValueOf
<1>9. \A one \in Entries : EntryKey(one) = key => one = entry
  BY KeysAreApart
<1>. HIDE DEF r, key
<1>10. ASSUME NEW one \in Entries, EntryKey(one) \in DOMAIN data' PROVE data'[EntryKey(one)] = ValueOf(one)
  BY <1>4, <1>7, <1>9, <1>10
<1>11. \A k \in DOMAIN data' : \E one \in Entries : k = EntryKey(one)
  BY <1>4, <1>7 DEF key
<1>12. ASSUME NEW one \in Entries PROVE NamedEntry(one)' <=> EntryKey(one) \in DOMAIN data'
  <2>1. OfKind("METADATA")' = OfKind("METADATA") \union {r}
    BY <1>1, <1>2, <1>5, ToldGrows
  <2>2. NamedEntry(one)' <=> NamedEntry(one) \/ one = entry
    BY <1>5, <2>1 DEF NamedEntry
  <2>3. EntryKey(one) \in DOMAIN data' <=> EntryKey(one) \in DOMAIN data \/ one = entry
    BY <1>7, <1>9 DEF key
  <2>. QED BY <1>4, <2>2, <2>3
<1>13. \A s \in Range(told') : s.kind = "METADATA"
  BY <1>3, <1>4, <1>5
<1>. QED BY <1>1, <1>4, <1>8, <1>10, <1>11, <1>12, <1>13 DEF GetInv, Succeeded

(* The server has said all it has.                                         *)
LEMMA GetReplyKeeps ==
  ASSUME HistoryInv, GetInv, UNCHANGED metaVars, NEW code,
         code = "OK" => \A entry \in Asked(request) : NoValue(entry) \/ \E r \in Range(told) : r.entry = entry,
         Reply("getmetadata", code, [kind |-> code], Ignored)
  PROVE  GetInv'
<1>. DEFINE r == [kind |-> code]
<1>1. /\ class = "getmetadata" /\ class' = class /\ phase = "running" /\ told' = Append(told, r)
      /\ request' = request /\ data' = data
  BY HandledIsRefused DEF Reply, Tagged, Is, Ignored
<1>2. /\ request \subseteq Entries
      /\ \A one \in Entries : EntryKey(one) \in DOMAIN data => data[EntryKey(one)] = ValueOf(one)
      /\ \A k \in DOMAIN data : \E one \in Entries : k = EntryKey(one)
      /\ \A tag \in tags : tags = {tag}
      /\ \A s \in Range(told) : s.kind = "METADATA"
      /\ \A one \in Entries : NamedEntry(one) <=> EntryKey(one) \in DOMAIN data
  BY <1>1 DEF GetInv
<1>3. phase' = "done"
  <2>1. PICK tag \in tags : HandleErrorReplies(tag, code)
    BY DEF Reply, Tagged, HandleErrorReplies
  <2>2. tags \ {tag} = {}
    BY <1>2, <2>1
  <2>. QED BY <2>1, <2>2 DEF HandleErrorReplies, DoneWith
<1>4. \A one : EntryKey(one)' = EntryKey(one) /\ ValueOf(one)' = ValueOf(one) /\ (NoValue(one)' <=> NoValue(one))
  <2>1. capability' = capability /\ stored' = stored
    BY DEF metaVars
  <2>. QED BY <2>1, Zenon DEF EntryKey, RemovePrefix, GetAttribute, Annotatemore, NoValue, ValueOf
<1>5. r.kind = "OK" => \A one : NamedEntry(one)' <=> NamedEntry(one)
  <2>1. told \in Seq(Range(told))
    BY <1>1 DEF HistoryInv, QuietClasses, MetaClasses
  <2>2. r.kind = "OK" => OfKind("METADATA")' = OfKind("METADATA")
    <3>. HIDE DEF r
    <3>. QED BY <1>1, <2>1, ToldGrows
  <2>. QED BY <2>2, Zenon DEF NamedEntry
<1>6. Last(told') = r
  <2>1. told \in Seq(Range(told))
    BY <1>1 DEF HistoryInv, QuietClasses, MetaClasses
  <2>2. told' \in Seq(Range(told')) /\ Len(told') = Len(told) + 1
    BY <1>1, <2>1, HistoryGrows
  <2>3. told'[Len(told')] = r
    BY <1>1, <2>1, <2>2
  <2>. QED BY <2>3, Zenon DEF Last
<1>7. request \subseteq Asked(request)
  BY <1>2, KeysAreApart DEF Asked
<1>8. ASSUME code = "OK", NEW one \in request PROVE NoValue(one) \/ EntryKey(one) \in DOMAIN data
  <2>1. NoValue(one) \/ \E s \in Range(told) : s.entry = one
    BY <1>7, <1>8
  <2>2. (\E s \in Range(told) : s.entry = one) => NamedEntry(one)
    BY <1>2 DEF NamedEntry, OfKind
  <2>. QED BY <1>2, <2>1, <2>2
<1>9. r.kind = code
  OBVIOUS
<1>. HIDE DEF r
<1>. QED BY <1>1, <1>2, <1>3, <1>4, <1>5, <1>6, <1>8, <1>9 DEF GetInv, Succeeded

(* Every step of the jobs about metadata keeps the invariant.              *)
LEMMA MetaKeepsGet ==
  ASSUME HistoryInv, GetInv, MetaNext, class' = class
  PROVE  GetInv'
<1>1. CASE class = "setmetadata"
  BY <1>1 DEF GetInv
<1>2. CASE AddEntry \/ SetStart \/ SetContinue \/ \E code, reason : SetReply(code, reason)
  <2>1. class = "setmetadata"
    BY <1>2 DEF AddEntry, SetStart, SetContinue, SetReply, Is
  <2>. QED BY <1>1, <2>1
<1>3. ASSUME NEW c, Lost(c), UNCHANGED metaVars PROVE GetInv'
  <2>1. /\ UNCHANGED <<class, told, request, data>> /\ phase = "running" /\ phase' = "done" /\ error' = TRUE
    BY <1>3 DEF Lost, ConnectionLost, dataVars
  <2>2. \A one : EntryKey(one)' = EntryKey(one) /\ ValueOf(one)' = ValueOf(one)
    BY <1>3, Zenon DEF metaVars, EntryKey, RemovePrefix, GetAttribute, Annotatemore, ValueOf
  <2>. QED BY <2>1, <2>2 DEF GetInv, Succeeded
<1>4. CASE GetNext
  <2>1. ASSUME NEW entries \in SUBSET Entries, Start("getmetadata", entries, <<>>) PROVE GetInv'
    BY <2>1, GetStartKeeps
  <2>2. ASSUME Is("getmetadata"), phase = "running", NEW entry \in Asked(request), UNCHANGED metaVars,
               Respond("getmetadata", [kind |-> "METADATA", entry |-> entry, value |-> stored[entry]], GetRead)
        PROVE  GetInv'
    <3>1. request \subseteq Entries
      BY <2>2 DEF GetInv, Is
    <3>2. entry \in Entries
      BY <3>1, KeysAreApart DEF Asked
    <3>. QED BY <2>2, <3>2, GetValueKeeps
  <2>3. ASSUME NEW code, UNCHANGED metaVars,
               code = "OK" => \A entry \in Asked(request) : stored[entry] # "" => \E r \in Range(told) : r.entry = entry,
               Reply("getmetadata", code, [kind |-> code], Ignored)
        PROVE  GetInv'
    BY <2>3, GetReplyKeeps, Zenon DEF NoValue
  <2>. QED BY <1>4, <2>1, <2>2, <2>3, Zenon DEF GetNext
<1>. QED BY <1>2, <1>3, <1>4 DEF MetaNext

(* After a GETMETADATA that succeeded every entry that was asked for has   *)
(* the value it has on the server, in METADATA and in ANNOTATEMORE, but    *)
(* for the entries without a value that a server of ANNOTATEMORE names:    *)
(* these are known as the text NIL.                                        *)
THEOREM MetaDataIsAlwaysKnown == Spec => []MetaDataIsKnown
<1>1. Init => GetInv
  BY DEF Init, JobInit, GetInv
<1>2. HistoryInv /\ GetInv /\ [Next]_vars => GetInv'
  <2>. SUFFICES ASSUME HistoryInv, GetInv, [Next]_vars PROVE GetInv'
    OBVIOUS
  <2>1. CASE UNCHANGED vars
    <3>1. UNCHANGED <<class, phase, tags, error, told, request, data, capability, stored>>
      BY <2>1 DEF vars, jobVars, dataVars, metaVars
    <3>2. \A one : /\ EntryKey(one)' = EntryKey(one) /\ ValueOf(one)' = ValueOf(one)
                   /\ (NoValue(one)' <=> NoValue(one)) /\ (NamedEntry(one)' <=> NamedEntry(one))
      BY <3>1, Zenon DEF EntryKey, RemovePrefix, GetAttribute, Annotatemore, NoValue, ValueOf, NamedEntry, OfKind
    <3>. QED BY <3>1, <3>2 DEF GetInv, Succeeded
  <2>2. CASE class \notin MetaClasses
    BY <2>2, StepOfClass DEF GetInv, MetaClasses
  <2>. QED BY <2>1, <2>2, StepOfClass, MetaKeepsGet
<1>. QED BY <1>1, <1>2, HistoryHolds, GetInvMeaning, PTL DEF Spec

-----------------------------------------------------------------------------
(* MetaDataIsSet.  What SetMetaDataJob keeps is, for each entry, the value *)
(* of the last call for it; and what the server has stored while values go *)
(* out as literals are those of the keys that the iterator has left.       *)
CallsOf(calls, entry) == {call \in Range(calls) : call.entry = entry}

Collected(calls, d) ==
  /\ calls \in Seq(Range(calls))
  /\ \A call \in Range(calls) : call.entry \in Entries
  /\ \A one, other \in Range(calls) : one.value = "lines" => Literal(other.value) = other.value
  /\ Annotatemore => \A call \in Range(calls) : RemovePrefix(call.entry) = d.entryName
  /\ IsFiniteSet(DOMAIN d.entries)
  /\ \A key \in DOMAIN d.entries : \E entry \in Entries : key = KeyOfEntry(entry) /\ IsGiven(d, entry)
  /\ \A entry \in Entries :
       IF CallsOf(calls, entry) = {} THEN ~IsGiven(d, entry)
       ELSE /\ IsGiven(d, entry)
            /\ \E call \in LastOf(calls, CallsOf(calls, entry)) : d.entries[KeyOfEntry(entry)] = call.value

Sent(d, n) == {Keys(d.entries)[k] : k \in 1..(n - 1)}

SetInv ==
  class = "setmetadata" =>
    /\ DOMAIN stored = Entries
    /\ phase = "new" => request = <<>> \/ Collected(request, data)
    /\ phase # "new" => /\ Collected(request.calls, request.job)
                        /\ DOMAIN request.before = Entries
                        /\ entriesIt \in Nat \ {0}
    /\ phase = "running" =>
         \A entry \in Entries :
           stored[entry] = IF IsGiven(request.job, entry) /\ (InLiterals(request.job) => entry \in Sent(request.job, entriesIt))
                           THEN request.job.entries[KeyOfEntry(entry)] ELSE request.before[entry]
    /\ Succeeded =>
         \A entry \in Entries :
           stored[entry] = IF IsGiven(request.job, entry) THEN request.job.entries[KeyOfEntry(entry)]
                           ELSE request.before[entry]

(* What is kept for an entry is kept for no other of the same name.        *)
LEMMA SetKeysAreApart ==
  /\ \A e, f \in Entries : e # f => KeyOfEntry(e) # KeyOfEntry(f) \/ (Annotatemore /\ RemovePrefix(e) # RemovePrefix(f))
  /\ \A e, f \in Entries : Annotatemore /\ e[2] = f[2] => RemovePrefix(e) = RemovePrefix(f)
  /\ \A e : ~Annotatemore => KeyOfEntry(e) = e
<1>1. \A e : KeyOfEntry(e) = IF Annotatemore THEN GetAttribute(e) ELSE e
  BY Zenon DEF KeyOfEntry
<1>2. \A e, f \in Entries : EntryKey(e) = EntryKey(f) => e = f
  BY KeysAreApart
<1>3. \A e, f \in Entries : RemovePrefix(e) = RemovePrefix(f) /\ GetAttribute(e) = GetAttribute(f) => e = f
  BY <1>2, Zenon DEF EntryKey
<1>4. \A e, f \in Entries : Annotatemore /\ e[2] = f[2] => RemovePrefix(e) = RemovePrefix(f)
  BY Zenon DEF RemovePrefix
<1>. QED BY <1>1, <1>3, <1>4

(* What an application may set.                                            *)
LEMMA CallsAreSane ==
  ASSUME ~EmptyAmongLines, ~SeveralNames, NEW calls, MaySet(calls)
  PROVE  /\ \A one, other \in Range(calls) : one.value = "lines" => Literal(other.value) = other.value
         /\ Annotatemore => \A one, other \in Range(calls) : one.entry[2] = other.entry[2]
<1>1. ~({"", "lines"} \subseteq {call.value : call \in Range(calls)})
  BY Zenon DEF MaySet
<1>2. ASSUME NEW one \in Range(calls), NEW other \in Range(calls), one.value = "lines" PROVE other.value # ""
  BY <1>1, <1>2, Zenon
<1>3. \A value : value # "" => Literal(value) = value
  BY Zenon DEF Literal, NilAsText
<1>4. Annotatemore => \A one, other \in Range(calls) : one.entry[2] = other.entry[2]
  BY Zenon DEF MaySet
<1>. QED BY <1>2, <1>3, <1>4, Zenon

(* Before the first call.                                                  *)
LEMMA NothingCollected == Collected(<<>>, NoMetaData)
<1>1. DOMAIN NoMetaData.entries = {}
  BY DEF NoMetaData
<1>2. Range(<<>>) = {} /\ <<>> \in Seq(Range(<<>>)) /\ \A entry : CallsOf(<<>>, entry) = {}
  BY EmptyHistory DEF CallsOf
<1>3. \A entry : ~IsGiven(NoMetaData, entry)
  BY <1>1 DEF IsGiven
<1>. QED BY <1>1, <1>2, <1>3, FS_EmptySet DEF Collected

(* One call more takes the place of those for the same entry.              *)
LEMMA CollectOneMore ==
  ASSUME NEW calls, NEW d, Collected(calls, d), NEW call, call.entry \in Entries,
         \A one, other \in Range(Append(calls, call)) : one.value = "lines" => Literal(other.value) = other.value,
         Annotatemore => \A one, other \in Range(Append(calls, call)) : one.entry[2] = other.entry[2]
  PROVE  Collected(Append(calls, call), AddMetaData(d, call))
<1>. DEFINE x == call.entry
            all == Append(calls, call)
            e == AddMetaData(d, call)
            keys == DOMAIN d.entries
<1>1. /\ calls \in Seq(Range(calls)) /\ IsFiniteSet(keys)
      /\ \A one \in Range(calls) : one.entry \in Entries
      /\ Annotatemore => \A one \in Range(calls) : RemovePrefix(one.entry) = d.entryName
      /\ \A key \in keys : \E entry \in Entries : key = KeyOfEntry(entry) /\ IsGiven(d, entry)
      /\ \A entry \in Entries :
           IF CallsOf(calls, entry) = {} THEN ~IsGiven(d, entry)
           ELSE /\ IsGiven(d, entry)
                /\ \E one \in LastOf(calls, CallsOf(calls, entry)) : d.entries[KeyOfEntry(entry)] = one.value
  BY DEF Collected
<1>2. all \in Seq(Range(all)) /\ Range(all) = Range(calls) \union {call}
  BY <1>1, HistoryGrows
<1>3. /\ DOMAIN e.entries = keys \union {KeyOfEntry(x)} /\ e.entries[KeyOfEntry(x)] = call.value
      /\ \A key \in keys : key # KeyOfEntry(x) => e.entries[key] = d.entries[key]
      /\ e.entryName = RemovePrefix(x)
  BY DEF AddMetaData, Inserted
<1>. HIDE DEF e, all
<1>4. Annotatemore => \A one \in Range(calls) : RemovePrefix(one.entry) = RemovePrefix(x)
  BY <1>1, <1>2, SetKeysAreApart DEF all
<1>5. Annotatemore /\ Range(calls) # {} => d.entryName = RemovePrefix(x)
  BY <1>1, <1>4
<1>6. IsGiven(e, x)
  BY <1>3 DEF IsGiven
<1>7. LastOf(all, CallsOf(all, x)) = {call} /\ CallsOf(all, x) # {}
  <2>1. call \in CallsOf(all, x)
    BY <1>2 DEF CallsOf
  <2>. HIDE DEF x
  <2>. DEFINE some == CallsOf(all, x)
  <2>2. call \in some
    BY <2>1
  <2>. HIDE DEF some
  <2>3. LastOf(Append(calls, call), some) = {call}
    BY <1>1, <2>2, LastIsNew
  <2>. QED BY <2>2, <2>3 DEF some, all
<1>8. ASSUME NEW entry \in Entries, entry # x
      PROVE  IF CallsOf(all, entry) = {} THEN ~IsGiven(e, entry)
             ELSE /\ IsGiven(e, entry)
                  /\ \E one \in LastOf(all, CallsOf(all, entry)) : e.entries[KeyOfEntry(entry)] = one.value
  <2>1. CallsOf(all, entry) = CallsOf(calls, entry)
    BY <1>2, <1>8 DEF CallsOf
  <2>2. LastOf(all, CallsOf(all, entry)) = LastOf(calls, CallsOf(calls, entry))
    <3>. DEFINE some == CallsOf(all, entry)
                before == CallsOf(calls, entry)
    <3>1. call \notin some /\ some \intersect Range(calls) = before \intersect Range(calls)
      BY <1>8, <2>1 DEF CallsOf
    <3>. HIDE DEF some, before
    <3>2. LastOf(Append(calls, call), some) = LastOf(calls, before)
      BY <1>1, <3>1, LastStays
    <3>. QED BY <3>2 DEF some, before, all
  <2>3. CASE Annotatemore /\ RemovePrefix(entry) # RemovePrefix(x)
    <3>1. ~IsGiven(e, entry)
      BY <1>3, <2>3 DEF IsGiven
    <3>2. CallsOf(all, entry) = {}
      BY <1>4, <2>1, <2>3 DEF CallsOf
    <3>. QED BY <3>1, <3>2
  <2>4. CASE KeyOfEntry(entry) # KeyOfEntry(x) /\ (Annotatemore => RemovePrefix(entry) = RemovePrefix(x))
    <3>1. CASE Annotatemore => d.entryName = RemovePrefix(x)
      <4>1. IsGiven(e, entry) <=> IsGiven(d, entry)
        BY <1>3, <2>4, <3>1 DEF IsGiven
      <4>2. IsGiven(d, entry) => e.entries[KeyOfEntry(entry)] = d.entries[KeyOfEntry(entry)]
        BY <1>3, <2>4 DEF IsGiven
      <4>. QED BY <1>1, <2>1, <2>2, <4>1, <4>2
    <3>2. CASE Range(calls) = {}
      <4>1. CallsOf(calls, entry) = {} /\ \A one : CallsOf(calls, one) = {}
        BY <3>2 DEF CallsOf
      <4>2. keys = {}
        BY <1>1, <4>1
      <4>. QED BY <1>3, <2>1, <2>4, <4>1, <4>2 DEF IsGiven
    <3>. QED BY <1>5, <3>1, <3>2
  <2>. QED BY <1>8, <2>3, <2>4, SetKeysAreApart
<1>9. ASSUME NEW key \in DOMAIN e.entries PROVE \E entry \in Entries : key = KeyOfEntry(entry) /\ IsGiven(e, entry)
  <2>1. CASE key = KeyOfEntry(x)
    BY <1>6, <2>1
  <2>2. CASE key # KeyOfEntry(x)
    <3>1. PICK entry \in Entries : key = KeyOfEntry(entry) /\ IsGiven(d, entry)
      BY <1>1, <1>3, <1>9, <2>2
    <3>2. CallsOf(calls, entry) # {}
      BY <1>1, <3>1
    <3>3. Range(calls) # {}
      BY <3>2 DEF CallsOf
    <3>. QED BY <1>3, <1>5, <1>9, <3>1, <3>3 DEF IsGiven
  <2>. QED BY <2>1, <2>2
<1>10. IsFiniteSet(DOMAIN e.entries)
  BY <1>1, <1>3, FS_AddElement
<1>11. Annotatemore => \A one \in Range(all) : RemovePrefix(one.entry) = e.entryName
  BY <1>2, <1>3, <1>4
<1>12. \A one \in Range(all) : one.entry \in Entries
  BY <1>1, <1>2
<1>13. \A entry \in Entries :
         IF CallsOf(all, entry) = {} THEN ~IsGiven(e, entry)
         ELSE /\ IsGiven(e, entry)
              /\ \E one \in LastOf(all, CallsOf(all, entry)) : e.entries[KeyOfEntry(entry)] = one.value
  BY <1>3, <1>6, <1>7, <1>8
<1>14. \A one, other \in Range(all) : one.value = "lines" => Literal(other.value) = other.value
  BY DEF all
<1>15. Collected(all, e)
  BY <1>2, <1>9, <1>10, <1>11, <1>12, <1>13, <1>14 DEF Collected
<1>. QED BY <1>15 DEF all, e

(* The keys of a map, one after the other.                                 *)
LEMMA AllKeys ==
  ASSUME NEW S, IsFiniteSet(S)
  PROVE  /\ Len(SetToSeq(S)) \in Nat
         /\ \A key \in S : \E k \in 1..Len(SetToSeq(S)) : SetToSeq(S)[k] = key
         /\ \A k \in 1..Len(SetToSeq(S)) : SetToSeq(S)[k] \in S
<1>. DEFINE n == Cardinality(S)
            s == SetToSeq(S)
<1>1. n \in Nat /\ ExistsBijection(1..n, S)
  BY FS_CardinalityType
<1>2. \E f : f \in [1..n -> S] /\ IsInjective(f)
  BY <1>1 DEF ExistsBijection, Bijection, Injection
<1>3. s \in [1..n -> S] /\ IsInjective(s)
  BY <1>2, Zenon DEF SetToSeq
<1>. HIDE DEF s
<1>4. s \in Injection(1..n, S)
  BY <1>3 DEF Injection
<1>5. Cardinality(1..n) = n
  BY <1>1, FS_Interval
<1>6. s \in Surjection(1..n, S)
  <2>. HIDE DEF n
  <2>1. Cardinality(1..n) = Cardinality(S) <=> s \in Surjection(1..n, S)
    BY <1>4, FS_Injection
  <2>. QED BY <1>5, <2>1 DEF n
<1>7. s \in Seq(S)
  BY <1>1, <1>3, SeqDef
<1>8. Len(s) = n
  BY <1>1, <1>3, <1>7
<1>. QED BY <1>1, <1>3, <1>6, <1>8 DEF Surjection, s

(* A value among others that span lines is sent as it is.                  *)
LEMMA ValuesAreLiteral ==
  ASSUME NEW calls, NEW d, Collected(calls, d), InLiterals(d), NEW key \in DOMAIN d.entries
  PROVE  Literal(d.entries[key]) = d.entries[key] /\ key \in Entries /\ KeyOfEntry(key) = key /\ IsGiven(d, key)
<1>1. \A k \in DOMAIN d.entries : \E one \in Range(calls) : d.entries[k] = one.value
  <2>. SUFFICES ASSUME NEW k \in DOMAIN d.entries PROVE \E one \in Range(calls) : d.entries[k] = one.value
    OBVIOUS
  <2>1. PICK entry \in Entries : k = KeyOfEntry(entry) /\ IsGiven(d, entry)
    BY DEF Collected
  <2>2. PICK one \in LastOf(calls, CallsOf(calls, entry)) : d.entries[k] = one.value
    BY <2>1 DEF Collected
  <2>. QED BY <2>2, LastIsAmong
<1>2. \E k \in DOMAIN d.entries : d.entries[k] = "lines"
  BY DEF InLiterals, SpansLines, Range
<1>3. Literal(d.entries[key]) = d.entries[key]
  BY <1>1, <1>2 DEF Collected
<1>4. ~Annotatemore
  BY DEF InLiterals
<1>. QED BY <1>3, <1>4, SetKeysAreApart DEF Collected

(* While the dialect stays, everything is called as before.                *)
LEMMA SetOperatorsStay ==
  ASSUME capability' = capability
  PROVE  /\ \A entry : RemovePrefix(entry)' = RemovePrefix(entry) /\ KeyOfEntry(entry)' = KeyOfEntry(entry)
         /\ Annotatemore' <=> Annotatemore
         /\ \A d, entry : IsGiven(d, entry)' <=> IsGiven(d, entry)
         /\ \A d : InLiterals(d)' <=> InLiterals(d)
         /\ \A calls, d : Collected(calls, d)' <=> Collected(calls, d)
<1>1. Annotatemore' <=> Annotatemore
  BY DEF Annotatemore
<1>2. \A entry : RemovePrefix(entry)' = RemovePrefix(entry)
  BY <1>1, Zenon DEF RemovePrefix
<1>3. \A entry : KeyOfEntry(entry)' = KeyOfEntry(entry)
  <2>1. \A entry : GetAttribute(entry)' = GetAttribute(entry)
    BY <1>1, Zenon DEF GetAttribute
  <2>. QED BY <1>1, <2>1, Zenon DEF KeyOfEntry
<1>4. \A d, entry : IsGiven(d, entry)' <=> IsGiven(d, entry)
  BY <1>1, <1>2, <1>3 DEF IsGiven
<1>5. \A d : InLiterals(d)' <=> InLiterals(d)
  BY <1>1 DEF InLiterals
<1>6. \A calls, d : Collected(calls, d)' <=> Collected(calls, d)
  BY <1>1, <1>2, <1>3, <1>4 DEF Collected
<1>. QED BY <1>1, <1>2, <1>3, <1>4, <1>5, <1>6

(* addMetaData()                                                           *)
LEMMA AddEntryKeeps ==
  ASSUME ~EmptyAmongLines, ~SeveralNames, SetInv, AddEntry
  PROVE  SetInv'
<1>1. /\ class = "setmetadata" /\ phase = "new"
      /\ UNCHANGED <<class, phase, error, stored, capability, entriesIt>>
  BY DEF AddEntry, jobVars, metaVars, Is
<1>. DEFINE d == IF request = <<>> THEN NoMetaData ELSE data
<1>2. Collected(request, d)
  BY <1>1, NothingCollected DEF SetInv
<1>. HIDE DEF d
<1>3. PICK call \in [entry : Entries, value : MetaValues] :
        request' = Append(request, call) /\ MaySet(request') /\ data' = AddMetaData(d, call)
  BY DEF AddEntry, d
<1>4. /\ \A one, other \in Range(Append(request, call)) : one.value = "lines" => Literal(other.value) = other.value
      /\ Annotatemore => \A one, other \in Range(Append(request, call)) : one.entry[2] = other.entry[2]
  BY <1>3, CallsAreSane
<1>5. Collected(request', data')
  BY <1>2, <1>3, <1>4, CollectOneMore
<1>6. Collected(request, data)'
  BY <1>1, <1>5, SetOperatorsStay
<1>. QED BY <1>1, <1>6 DEF SetInv, Succeeded

(* SETMETADATA is sent, whole or up to the first literal.                  *)
LEMMA SetStartKeeps ==
  ASSUME SetInv, SetStart
  PROVE  SetInv'
<1>1. /\ class = "setmetadata" /\ class' = class /\ phase = "new" /\ phase' = "running"
      /\ request' = [calls |-> request, before |-> stored, job |-> data]
      /\ stored' = IF InLiterals(data) THEN stored ELSE StoreAll(stored, data)
      /\ entriesIt' = 1 /\ capability' = capability /\ request # <<>>
  BY DEF SetStart, Start, SendCommand, SendCommands, Is
<1>2. Collected(request, data) /\ DOMAIN stored = Entries
  BY <1>1 DEF SetInv
<1>3. request'.calls = request /\ request'.before = stored /\ request'.job = data
  BY <1>1
<1>4. Collected(request.calls, request.job)'
  BY <1>1, <1>2, <1>3, SetOperatorsStay
<1>5. \A entry \in Entries :
        stored'[entry] = IF IsGiven(data, entry) /\ (InLiterals(data) => entry \in Sent(data, 1))
                         THEN data.entries[KeyOfEntry(entry)] ELSE stored[entry]
  <2>1. Sent(data, 1) = {}
    BY DEF Sent
  <2>2. CASE InLiterals(data)
    BY <1>1, <2>1, <2>2
  <2>3. CASE ~InLiterals(data)
    BY <1>1, <2>3 DEF StoreAll, Quoted
  <2>. QED BY <2>2, <2>3
<1>6. DOMAIN stored' = Entries
  BY <1>1, <1>2 DEF StoreAll
<1>7. \A entry \in Entries :
        (stored[entry] = IF IsGiven(request.job, entry) /\ (InLiterals(request.job) => entry \in Sent(request.job, entriesIt))
                         THEN request.job.entries[KeyOfEntry(entry)] ELSE request.before[entry])'
  <2>1. \A entry : IsGiven(request.job, entry)' <=> IsGiven(data, entry)
    BY <1>1, <1>3, SetOperatorsStay
  <2>2. InLiterals(request.job)' <=> InLiterals(data)
    BY <1>1, <1>3, SetOperatorsStay
  <2>3. Sent(request.job, entriesIt)' = Sent(data, 1)
    BY <1>1, <1>3 DEF Sent, Keys
  <2>4. \A entry : KeyOfEntry(entry)' = KeyOfEntry(entry)
    BY <1>1, SetOperatorsStay
  <2>. QED BY <1>3, <1>5, <2>1, <2>2, <2>3, <2>4
<1>. QED BY <1>1, <1>2, <1>3, <1>4, <1>6, <1>7 DEF SetInv, Succeeded

(* A literal is stored, and the iterator moves on.                         *)
LEMMA SetContinueKeeps ==
  ASSUME SetInv, SetContinue
  PROVE  SetInv'
<1>. DEFINE d == request.job
            key == Keys(d.entries)[entriesIt]
<1>1. /\ class = "setmetadata" /\ phase = "running" /\ InLiterals(d) /\ entriesIt <= Len(Keys(d.entries))
      /\ stored' = [stored EXCEPT ![key] = Literal(d.entries[key])] /\ entriesIt' = entriesIt + 1
      /\ UNCHANGED <<class, phase, error, request, data, capability>>
  BY DEF SetContinue, Store, Is, jobVars, dataVars
<1>2. /\ Collected(request.calls, d) /\ DOMAIN request.before = Entries /\ DOMAIN stored = Entries
      /\ entriesIt \in Nat \ {0}
      /\ \A entry \in Entries :
           stored[entry] = IF IsGiven(d, entry) /\ entry \in Sent(d, entriesIt)
                           THEN d.entries[KeyOfEntry(entry)] ELSE request.before[entry]
  BY <1>1 DEF SetInv
<1>3. key \in DOMAIN d.entries
  <2>1. IsFiniteSet(DOMAIN d.entries)
    BY <1>2 DEF Collected
  <2>. DEFINE S == DOMAIN d.entries
  <2>. HIDE DEF S
  <2>2. \A k \in 1..Len(SetToSeq(S)) : SetToSeq(S)[k] \in S
    BY <2>1, AllKeys DEF S
  <2>3. entriesIt \in 1..Len(SetToSeq(S))
    <3>1. Len(SetToSeq(S)) \in Nat
      BY <2>1, AllKeys DEF S
    <3>. QED BY <1>1, <1>2, <3>1 DEF Keys, S
  <2>. QED BY <2>2, <2>3 DEF Keys, S
<1>4. Literal(d.entries[key]) = d.entries[key] /\ key \in Entries /\ KeyOfEntry(key) = key /\ IsGiven(d, key)
  BY <1>1, <1>2, <1>3, ValuesAreLiteral
<1>5. Sent(d, entriesIt + 1) = Sent(d, entriesIt) \union {key}
  <2>1. 1..(entriesIt + 1 - 1) = 1..(entriesIt - 1) \union {entriesIt}
    BY <1>2
  <2>. QED BY <2>1 DEF Sent
<1>. HIDE DEF key
<1>6. DOMAIN stored' = Entries /\ stored'[key] = d.entries[key] /\ \A entry \in Entries : entry # key => stored'[entry] = stored[entry]
  BY <1>1, <1>2, <1>4
<1>7. \A entry \in Entries :
        stored'[entry] = IF IsGiven(d, entry) /\ entry \in Sent(d, entriesIt + 1)
                         THEN d.entries[KeyOfEntry(entry)] ELSE request.before[entry]
  BY <1>2, <1>4, <1>5, <1>6
<1>8. \A entry \in Entries :
        (stored[entry] = IF IsGiven(request.job, entry) /\ (InLiterals(request.job) => entry \in Sent(request.job, entriesIt))
                         THEN request.job.entries[KeyOfEntry(entry)] ELSE request.before[entry])'
  <2>1. \A entry : IsGiven(request.job, entry)' <=> IsGiven(d, entry)
    BY <1>1, SetOperatorsStay
  <2>2. InLiterals(request.job)'
    BY <1>1, SetOperatorsStay
  <2>3. Sent(request.job, entriesIt)' = Sent(d, entriesIt + 1)
    BY <1>1 DEF Sent, Keys
  <2>4. \A entry : KeyOfEntry(entry)' = KeyOfEntry(entry)
    BY <1>1, SetOperatorsStay
  <2>. QED BY <1>1, <1>7, <2>1, <2>2, <2>3, <2>4
<1>9. Collected(request.calls, request.job)'
  BY <1>1, <1>2, SetOperatorsStay
<1>. QED BY <1>1, <1>2, <1>6, <1>8, <1>9 DEF SetInv, Succeeded

(* The server has taken all values, or none.                               *)
LEMMA SetReplyKeeps ==
  ASSUME SetInv, NEW code, code # "malformed", NEW reason, SetReply(code, reason)
  PROVE  SetInv'
<1>. DEFINE d == request.job
<1>1. /\ class = "setmetadata" /\ phase = "running" /\ phase' = "done" /\ request' = request
      /\ UNCHANGED <<class, request, capability, entriesIt>>
      /\ code = "OK" /\ InLiterals(d) => entriesIt > Len(Keys(d.entries))
      /\ stored' = IF code = "OK" THEN stored ELSE request.before
      /\ code # "OK" => error' = TRUE
  BY DEF SetReply, ErrorAfter, Is
<1>2. /\ Collected(request.calls, d) /\ DOMAIN request.before = Entries /\ DOMAIN stored = Entries
      /\ entriesIt \in Nat \ {0}
      /\ \A entry \in Entries :
           stored[entry] = IF IsGiven(d, entry) /\ (InLiterals(d) => entry \in Sent(d, entriesIt))
                           THEN d.entries[KeyOfEntry(entry)] ELSE request.before[entry]
  BY <1>1 DEF SetInv
<1>3. ASSUME code = "OK", InLiterals(d), NEW entry \in Entries, IsGiven(d, entry) PROVE entry \in Sent(d, entriesIt)
  <2>1. entry \in DOMAIN d.entries
    BY <1>3, SetKeysAreApart DEF IsGiven, InLiterals
  <2>. DEFINE S == DOMAIN d.entries
  <2>2. IsFiniteSet(S)
    BY <1>2 DEF Collected
  <2>3. entriesIt > Len(SetToSeq(S))
    BY <1>1, <1>3 DEF Keys
  <2>. HIDE DEF S
  <2>4. Len(SetToSeq(S)) \in Nat /\ \E k \in 1..Len(SetToSeq(S)) : SetToSeq(S)[k] = entry
    BY <2>1, <2>2, AllKeys DEF S
  <2>5. \E k \in 1..(entriesIt - 1) : SetToSeq(S)[k] = entry
    BY <1>2, <2>3, <2>4
  <2>. QED BY <2>5 DEF Sent, Keys, S
<1>4. code = "OK" => \A entry \in Entries :
        stored'[entry] = IF IsGiven(d, entry) THEN d.entries[KeyOfEntry(entry)] ELSE request.before[entry]
  BY <1>1, <1>2, <1>3
<1>5. /\ \A entry : IsGiven(request.job, entry)' <=> IsGiven(d, entry)
      /\ \A entry : KeyOfEntry(entry)' = KeyOfEntry(entry)
      /\ Collected(request.calls, request.job)'
  BY <1>1, <1>2, SetOperatorsStay
<1>. QED BY <1>1, <1>2, <1>4, <1>5 DEF SetInv, Succeeded

(* What the invariant means.                                               *)
LEMMA SetInvMeaning == SetInv => MetaDataIsSet
<1>. SUFFICES ASSUME SetInv, class = "setmetadata", Succeeded, NEW entry \in Entries
              PROVE  LET calls == {call \in Range(request.calls) : call.entry = entry}
                     IN IF calls = {} THEN stored[entry] = request.before[entry]
                        ELSE \E call \in LastOf(request.calls, calls) : stored[entry] = call.value
  BY DEF MetaDataIsSet, Is
<1>1. /\ Collected(request.calls, request.job)
      /\ stored[entry] = IF IsGiven(request.job, entry) THEN request.job.entries[KeyOfEntry(entry)]
                         ELSE request.before[entry]
  BY DEF SetInv, Succeeded
<1>. DEFINE calls == CallsOf(request.calls, entry)
<1>2. IF calls = {} THEN ~IsGiven(request.job, entry)
      ELSE /\ IsGiven(request.job, entry)
           /\ \E call \in LastOf(request.calls, calls) : request.job.entries[KeyOfEntry(entry)] = call.value
  BY <1>1 DEF Collected
<1>. HIDE DEF calls
<1>3. IF calls = {} THEN stored[entry] = request.before[entry]
      ELSE \E call \in LastOf(request.calls, calls) : stored[entry] = call.value
  BY <1>1, <1>2
<1>. QED BY <1>3 DEF calls, CallsOf

(* After a SETMETADATA that the server accepted every entry has the value  *)
(* of the last call of addMetaData() for it, in one command or in          *)
(* literals, and no other entry has changed.  The two kinds of calls that  *)
(* the hypotheses exclude are in the README.                               *)
THEOREM MetaDataIsAlwaysSet ==
  ASSUME ~EmptyAmongLines, ~SeveralNames
  PROVE  Spec => []MetaDataIsSet
<1>1. Init => SetInv
  BY DEF Init, JobInit, DataInit, MetaInit, SetInv, Succeeded
<1>2. SetInv /\ [Next]_vars => SetInv'
  <2>. SUFFICES ASSUME SetInv, [Next]_vars PROVE SetInv'
    OBVIOUS
  <2>1. CASE UNCHANGED vars
    <3>1. UNCHANGED <<class, phase, error, request, data, capability, stored, entriesIt>>
      BY <2>1 DEF vars, jobVars, dataVars, metaVars
    <3>2. /\ \A entry : KeyOfEntry(entry)' = KeyOfEntry(entry)
          /\ \A d, entry : IsGiven(d, entry)' <=> IsGiven(d, entry)
          /\ \A d : InLiterals(d)' <=> InLiterals(d)
          /\ \A calls, d : Collected(calls, d)' <=> Collected(calls, d)
      BY <3>1, SetOperatorsStay
    <3>. QED BY <3>1, <3>2 DEF SetInv, Succeeded, Sent
  <2>2. CASE class # "setmetadata"
    BY <2>2, StepOfClass DEF SetInv
  <2>3. ASSUME class = "setmetadata", NEW c, Lost(c), UNCHANGED metaVars PROVE SetInv'
    <3>1. /\ UNCHANGED <<class, request, data, capability, stored, entriesIt>>
          /\ phase = "running" /\ phase' = "done" /\ error' = TRUE
      BY <2>3 DEF Lost, ConnectionLost, dataVars, metaVars
    <3>2. Collected(request.calls, request.job)'
      BY <2>3, <3>1, SetOperatorsStay DEF SetInv
    <3>. QED BY <2>3, <3>1, <3>2 DEF SetInv, Succeeded
  <2>4. CASE class = "setmetadata" /\ MetaNext
    <3>1. ~GetNext
      BY <2>4, Zenon DEF GetNext, Start, Respond, Reply, Untagged, Tagged, Is
    <3>2. ASSUME NEW code \in Codes \ {"malformed"}, NEW reason, SetReply(code, reason) PROVE SetInv'
      BY <3>2, SetReplyKeeps
    <3>. QED BY <2>3, <2>4, <3>1, <3>2, AddEntryKeeps, SetStartKeeps, SetContinueKeeps, Zenon DEF MetaNext
  <2>. QED BY <2>1, <2>2, <2>4, StepOfClass DEF MetaClasses
<1>. QED BY <1>1, <1>2, SetInvMeaning, PTL DEF Spec
-----------------------------------------------------------------------------
(* CountsAreReported.  The history and the reports are in order, with what *)
(* waits as the last report; and at most one count waits.                  *)
IdleInv ==
  class = "idle" =>
    /\ told \in Seq(Range(told)) /\ reported \in Seq(Range(reported))
    /\ InOrder(told, "EXISTS", Append(reported, Pair), "messages")
    /\ InOrder(told, "RECENT", Append(reported, Pair), "recent")
    /\ messageCount = None \/ recentCount = None

(* Nothing given and nothing heard is in order.                            *)
LEMMA NothingIsInOrder ==
  ASSUME NEW s, NEW kind, NEW t, NEW field, Given(s, kind) = {}, Heard(t, field) = {}
  PROVE  InOrder(s, kind, t, field)
<1>. DEFINE place == [k \in {} |-> 0]
<1>1. place \in [Given(s, kind) -> Heard(t, field)]
  OBVIOUS
<1>. QED BY <1>1 DEF InOrder

(* What is neither given nor heard does not disturb the order.             *)
LEMMA StaysInOrder ==
  ASSUME NEW s, NEW s2, NEW kind, NEW t, NEW t2, NEW field, InOrder(s, kind, t, field),
         Given(s2, kind) = Given(s, kind), \A k \in Given(s, kind) : s2[k] = s[k],
         Heard(t2, field) = Heard(t, field), \A l \in Heard(t, field) : t2[l][field] = t[l][field]
  PROVE  InOrder(s2, kind, t2, field)
<1>1. PICK place \in [Given(s, kind) -> Heard(t, field)] :
        /\ \A l \in Heard(t, field) : \E k \in Given(s, kind) : place[k] = l
        /\ \A k, l \in Given(s, kind) : k < l => place[k] < place[l]
        /\ \A k \in Given(s, kind) : t[place[k]][field] = s[k].value
  BY DEF InOrder
<1>2. \A k \in Given(s, kind) : t2[place[k]][field] = s2[k].value
  BY <1>1
<1>3. place \in [Given(s2, kind) -> Heard(t2, field)]
  BY <1>1
<1>4. /\ \A l \in Heard(t2, field) : \E k \in Given(s2, kind) : place[k] = l
      /\ \A k, l \in Given(s2, kind) : k < l => place[k] < place[l]
      /\ \A k \in Given(s2, kind) : t2[place[k]][field] = s2[k].value
  BY <1>1, <1>2
<1>. QED BY <1>3, <1>4 DEF InOrder

(* Nor does what is given last and heard last.                             *)
LEMMA GrowsInOrder ==
  ASSUME NEW s, NEW s2, NEW kind, NEW t, NEW t2, NEW field, InOrder(s, kind, t, field),
         NEW n \in Nat, NEW m \in Nat, Given(s, kind) \subseteq Nat, Heard(t, field) \subseteq Nat,
         \A k \in Given(s, kind) : k < n, \A l \in Heard(t, field) : l < m,
         Given(s2, kind) = Given(s, kind) \union {n}, \A k \in Given(s, kind) : s2[k] = s[k],
         Heard(t2, field) = Heard(t, field) \union {m}, \A l \in Heard(t, field) : t2[l][field] = t[l][field],
         t2[m][field] = s2[n].value
  PROVE  InOrder(s2, kind, t2, field)
<1>1. PICK place \in [Given(s, kind) -> Heard(t, field)] :
        /\ \A l \in Heard(t, field) : \E k \in Given(s, kind) : place[k] = l
        /\ \A k, l \in Given(s, kind) : k < l => place[k] < place[l]
        /\ \A k \in Given(s, kind) : t[place[k]][field] = s[k].value
  BY DEF InOrder
<1>. DEFINE G == Given(s, kind)
            H == Heard(t, field)
            more == [k \in G \union {n} |-> IF k = n THEN m ELSE place[k]]
<1>2. /\ n \notin G /\ m \notin H /\ more \in [G \union {n} -> H \union {m}]
      /\ more[n] = m /\ \A k \in G : more[k] = place[k] /\ place[k] \in H
  BY <1>1
<1>. HIDE DEF more, G, H
<1>3. /\ \A l \in H : \E k \in G : place[k] = l
      /\ \A k, l \in G : k < l => place[k] < place[l]
      /\ \A k \in G : t2[place[k]][field] = s2[k].value
  BY <1>1, <1>2 DEF G, H
<1>4. G \subseteq Nat /\ H \subseteq Nat /\ (\A k \in G : k < n) /\ (\A l \in H : l < m)
  BY DEF G, H
<1>5. \A l \in H \union {m} : \E k \in G \union {n} : more[k] = l
  BY <1>2, <1>3
<1>6. ASSUME NEW k \in G \union {n}, NEW l \in G \union {n}, k < l PROVE more[k] < more[l]
  <2>1. k \in Nat /\ l \in Nat /\ k # n
    BY <1>4, <1>6
  <2>2. CASE l = n
    BY <1>2, <1>4, <2>1, <2>2
  <2>3. CASE l # n
    BY <1>2, <1>3, <1>6, <2>1, <2>3
  <2>. QED BY <2>2, <2>3
<1>7. \A k \in G \union {n} : t2[more[k]][field] = s2[k].value
  <2>1. t2[more[n]][field] = s2[n].value
    BY <1>2
  <2>2. \A k \in G : t2[more[k]][field] = s2[k].value
    BY <1>2, <1>3
  <2>. QED BY <2>1, <2>2
<1>8. Given(s2, kind) = G \union {n} /\ Heard(t2, field) = H \union {m}
  BY DEF G, H
<1>9. /\ more \in [Given(s2, kind) -> Heard(t2, field)]
      /\ \A l \in Heard(t2, field) : \E k \in Given(s2, kind) : more[k] = l
      /\ \A k, l \in Given(s2, kind) : k < l => more[k] < more[l]
      /\ \A k \in Given(s2, kind) : t2[more[k]][field] = s2[k].value
  BY <1>2, <1>5, <1>6, <1>7, <1>8, Zenon
<1>. QED BY <1>9 DEF InOrder

(* What is given after one more response.                                  *)
LEMMA GivenGrows ==
  ASSUME NEW s, s \in Seq(Range(s)), NEW r, NEW kind
  PROVE  LET t == Append(s, r)
         IN /\ Given(s, kind) \subseteq 1..Len(s) /\ Len(s) \in Nat
            /\ Given(t, kind) = Given(s, kind) \union {k \in {Len(s) + 1} : r.kind = kind}
            /\ \A k \in Given(s, kind) : t[k] = s[k]
            /\ t[Len(s) + 1] = r
<1>. DEFINE t == Append(s, r)
<1>1. /\ Len(s) \in Nat /\ DOMAIN s = 1..Len(s) /\ DOMAIN t = 1..(Len(s) + 1)
      /\ t[Len(s) + 1] = r /\ \A k \in 1..Len(s) : t[k] = s[k]
  BY HistoryByPosition
<1>. HIDE DEF t
<1>2. Given(s, kind) \subseteq 1..Len(s) /\ \A k \in Given(s, kind) : t[k] = s[k]
  BY <1>1 DEF Given
<1>3. Given(t, kind) = Given(s, kind) \union {k \in {Len(s) + 1} : r.kind = kind}
  BY <1>1 DEF Given
<1>. QED BY <1>1, <1>2, <1>3 DEF t

(* What is heard with one more report.                                     *)
LEMMA HeardGrows ==
  ASSUME NEW s, s \in Seq(Range(s)), NEW r, NEW field
  PROVE  LET t == Append(s, r)
         IN /\ Heard(s, field) \subseteq 1..Len(s) /\ Len(s) \in Nat
            /\ Heard(t, field) = Heard(s, field) \union {k \in {Len(s) + 1} : r[field] # None}
            /\ \A k \in Heard(s, field) : t[k] = s[k]
            /\ t[Len(s) + 1] = r
<1>. DEFINE t == Append(s, r)
<1>1. /\ Len(s) \in Nat /\ DOMAIN s = 1..Len(s) /\ DOMAIN t = 1..(Len(s) + 1)
      /\ t[Len(s) + 1] = r /\ \A k \in 1..Len(s) : t[k] = s[k]
  BY HistoryByPosition
<1>. HIDE DEF t
<1>2. Heard(s, field) \subseteq 1..Len(s) /\ \A k \in Heard(s, field) : t[k] = s[k]
  BY <1>1 DEF Heard
<1>3. Heard(t, field) = Heard(s, field) \union {k \in {Len(s) + 1} : r[field] # None}
  BY <1>1 DEF Heard
<1>. QED BY <1>1, <1>2, <1>3 DEF t
(* Reports that say nothing of a count leave it in order.                  *)
LEMMA AccountWithNothing ==
  ASSUME NEW s, NEW kind, NEW t, t \in Seq(Range(t)), NEW field, NEW z, InOrder(s, kind, t, field), z[field] = None
  PROVE  InOrder(s, kind, Append(t, z), field)
<1>. DEFINE t2 == Append(t, z)
<1>1. /\ Heard(t2, field) = Heard(t, field) \union {k \in {Len(t) + 1} : z[field] # None}
      /\ \A k \in Heard(t, field) : t2[k] = t[k]
  BY HeardGrows
<1>. HIDE DEF t2
<1>2. Heard(t2, field) = Heard(t, field) /\ \A k \in Heard(t, field) : t2[k][field] = t[k][field]
  BY <1>1
<1>3. InOrder(s, kind, t2, field)
  BY <1>2, StaysInOrder
<1>. QED BY <1>3 DEF t2

(* A count that is given when none waits is the last that is heard.        *)
LEMMA AccountOfNew ==
  ASSUME NEW s, s \in Seq(Range(s)), NEW r, NEW kind, r.kind = kind, r.value # None,
         NEW t, t \in Seq(Range(t)), NEW field, NEW x, NEW y, InOrder(s, kind, Append(t, x), field),
         x[field] = None, y[field] = r.value
  PROVE  InOrder(Append(s, r), kind, Append(t, y), field)
<1>. DEFINE s2 == Append(s, r)
            before == Append(t, x)
            after == Append(t, y)
            n == Len(s) + 1
            m == Len(t) + 1
<1>1. /\ Given(s, kind) \subseteq 1..Len(s) /\ Len(s) \in Nat /\ s2[n] = r
      /\ Given(s2, kind) = Given(s, kind) \union {k \in {n} : r.kind = kind}
      /\ \A k \in Given(s, kind) : s2[k] = s[k]
  BY GivenGrows
<1>2. /\ Heard(t, field) \subseteq 1..Len(t) /\ Len(t) \in Nat
      /\ Heard(before, field) = Heard(t, field) \union {k \in {m} : x[field] # None}
      /\ \A k \in Heard(t, field) : before[k] = t[k]
  BY HeardGrows
<1>3. /\ Heard(after, field) = Heard(t, field) \union {k \in {m} : y[field] # None}
      /\ after[m] = y /\ \A k \in Heard(t, field) : after[k] = t[k]
  BY HeardGrows
<1>. HIDE DEF s2, before, after
<1>4. /\ Given(s2, kind) = Given(s, kind) \union {n} /\ Given(s, kind) \subseteq Nat
      /\ n \in Nat /\ \A k \in Given(s, kind) : k < n
  BY <1>1
<1>5. /\ Heard(after, field) = Heard(before, field) \union {m} /\ Heard(before, field) \subseteq Nat
      /\ m \in Nat /\ \A k \in Heard(before, field) : k < m
  BY <1>2, <1>3
<1>6. /\ \A k \in Heard(before, field) : after[k][field] = before[k][field]
      /\ after[m][field] = s2[n].value
  BY <1>1, <1>2, <1>3
<1>. HIDE DEF n, m
<1>7. InOrder(s2, kind, after, field)
  BY <1>1, <1>4, <1>5, <1>6, GrowsInOrder DEF before
<1>. QED BY <1>7 DEF s2, after

(* A response of another kind changes nothing.                             *)
LEMMA AccountOfOther ==
  ASSUME NEW s, s \in Seq(Range(s)), NEW r, NEW kind, r.kind # kind,
         NEW t, t \in Seq(Range(t)), NEW field, NEW x, NEW y, InOrder(s, kind, Append(t, x), field), y[field] = x[field]
  PROVE  InOrder(Append(s, r), kind, Append(t, y), field)
<1>. DEFINE s2 == Append(s, r)
            before == Append(t, x)
            after == Append(t, y)
            m == Len(t) + 1
<1>1. /\ Given(s2, kind) = Given(s, kind) \union {k \in {Len(s) + 1} : r.kind = kind}
      /\ \A k \in Given(s, kind) : s2[k] = s[k]
  BY GivenGrows
<1>2. /\ Heard(before, field) = Heard(t, field) \union {k \in {m} : x[field] # None}
      /\ before[m] = x /\ \A k \in Heard(t, field) : before[k] = t[k]
  BY HeardGrows
<1>3. /\ Heard(after, field) = Heard(t, field) \union {k \in {m} : y[field] # None}
      /\ after[m] = y /\ \A k \in Heard(t, field) : after[k] = t[k]
  BY HeardGrows
<1>. HIDE DEF s2, before, after, m
<1>4. Given(s2, kind) = Given(s, kind)
  BY <1>1
<1>5. Heard(after, field) = Heard(before, field) /\ \A k \in Heard(before, field) : after[k][field] = before[k][field]
  BY <1>2, <1>3
<1>6. InOrder(s, kind, before, field)
  BY DEF before
<1>7. InOrder(s2, kind, after, field)
  BY <1>1, <1>4, <1>5, <1>6, StaysInOrder
<1>. QED BY <1>7 DEF s2, after

(* What joining nothing and one more to a history makes of it.             *)
LEMMA HistoryIsJoined ==
  ASSUME NEW s, s \in Seq(Range(s)), NEW x
  PROVE  s \o <<>> = s /\ s \o <<x>> = Append(s, x) /\ Append(<<>>, x) = <<x>>
OBVIOUS

(* Settle reports everything that it does not let wait.                    *)
LEMMA SettledInOrder ==
  ASSUME NEW before, NEW messages, NEW recent, Settle(before, messages, recent), reported \in Seq(Range(reported)),
         before = <<>> \/ (before = <<Pair>> /\ (messages = None \/ recent = None))
  PROVE  LET all == IF before = <<>> THEN reported ELSE Append(reported, Pair)
         IN /\ reported' \in Seq(Range(reported')) /\ (messageCount' = None \/ recentCount' = None)
            /\ \A s, kind : \A field \in {"messages", "recent"} :
                 InOrder(s, kind, Append(all, Stats(messages, recent)), field)
                   => InOrder(s, kind, Append(reported', Pair'), field)
<1>. DEFINE all == IF before = <<>> THEN reported ELSE Append(reported, Pair)
            last == Stats(messages, recent)
            due == messages # None /\ recent # None
<1>1. all \in Seq(Range(all))
  BY HistoryGrows
<1>2. /\ reported' = reported \o (IF due THEN Append(before, last) ELSE before)
      /\ messageCount' = (IF due THEN None ELSE messages)
      /\ recentCount' = (IF due THEN None ELSE recent)
  BY DEF Settle
<1>3. Pair' = IF due THEN Stats(None, None) ELSE last
  BY <1>2 DEF Pair
<1>4. reported' = IF due THEN Append(all, last) ELSE all
  <2>1. CASE before = <<>>
    <3>. HIDE DEF last, due
    <3>1. Append(before, last) = <<last>>
      BY <2>1
    <3>. QED BY <1>2, <2>1, <3>1, HistoryIsJoined
  <2>2. CASE before # <<>>
    <3>1. before = <<Pair>> /\ ~due
      BY <2>2
    <3>. QED BY <1>2, <2>2, <3>1, HistoryIsJoined
  <2>. QED BY <2>1, <2>2
<1>. HIDE DEF all, last
<1>5. reported' \in Seq(Range(reported'))
  BY <1>1, <1>4, HistoryGrows
<1>6. ASSUME NEW s, NEW kind, NEW field \in {"messages", "recent"}, InOrder(s, kind, Append(all, last), field)
      PROVE  InOrder(s, kind, Append(reported', Pair'), field)
  <2>1. CASE due
    <3>1. Append(all, last) \in Seq(Range(Append(all, last)))
      BY <1>1, HistoryGrows
    <3>2. Stats(None, None)[field] = None
      BY DEF Stats
    <3>3. InOrder(s, kind, Append(Append(all, last), Stats(None, None)), field)
      BY <1>6, <3>1, <3>2, AccountWithNothing
    <3>. QED BY <1>3, <1>4, <2>1, <3>3
  <2>2. CASE ~due
    BY <1>3, <1>4, <1>6, <2>2
  <2>. QED BY <2>1, <2>2
<1>7. messageCount' = None \/ recentCount' = None
  BY <1>2
<1>. QED BY <1>5, <1>6, <1>7 DEF all, last
(* EXISTS and RECENT: the count takes the last place, and one of its kind  *)
(* that waited is sent off before it.                                      *)
LEMMA CountKeeps ==
  ASSUME IdleInv, Is("idle"), NEW n \in MailBoxCounts, Exists(n) \/ Recent(n)
  PROVE  IdleInv'
<1>. DEFINE t == Append(reported, Pair)
<1>1. /\ told \in Seq(Range(told)) /\ reported \in Seq(Range(reported))
      /\ InOrder(told, "EXISTS", t, "messages") /\ InOrder(told, "RECENT", t, "recent")
      /\ messageCount = None \/ recentCount = None
  BY DEF IdleInv, Is
<1>2. n # None /\ t \in Seq(Range(t))
  BY <1>1, HistoryGrows, IdleAssumption DEF None
<1>3. /\ Pair["messages"] = messageCount /\ Pair["recent"] = recentCount
      /\ \A a, b : Stats(a, b)["messages"] = a /\ Stats(a, b)["recent"] = b
  BY DEF Pair, Stats
<1>4. InOrder(told, "EXISTS", Append(t, Stats(None, None)), "messages") /\ InOrder(told, "RECENT", Append(t, Stats(None, None)), "recent")
  <2>. HIDE DEF t
  <2>. QED BY <1>1, <1>2, <1>3, AccountWithNothing
<1>5. CASE Exists(n)
  <2>. DEFINE r == [kind |-> "EXISTS", value |-> n]
  <2>1. told' = Append(told, r) /\ r.kind = "EXISTS" /\ r.value = n /\ r.kind # "RECENT"
    BY <1>5 DEF Exists, Tell
  <2>. HIDE DEF r
  <2>2. told' \in Seq(Range(told'))
    BY <1>1, <2>1, HistoryGrows
  <2>3. CASE messageCount # None
    <3>1. Settle(<<Pair>>, n, None) /\ <<Pair>> # <<>>
      BY <1>5, <2>3 DEF Exists
    <3>. HIDE DEF t
    <3>2. InOrder(Append(told, r), "EXISTS", Append(t, Stats(n, None)), "messages")
      <4>. DEFINE x == Stats(None, None)
                  y == Stats(n, None)
      <4>1. x["messages"] = None /\ y["messages"] = r.value /\ r.value # None
        BY <1>2, <1>3, <2>1
      <4>2. InOrder(told, "EXISTS", Append(t, x), "messages")
        BY <1>4
      <4>. HIDE DEF x, y
      <4>3. InOrder(Append(told, r), "EXISTS", Append(t, y), "messages")
        BY <1>1, <1>2, <2>1, <4>1, <4>2, AccountOfNew
      <4>. QED BY <4>3 DEF y
    <3>3. InOrder(told', "RECENT", Append(t, Stats(n, None)), "recent")
      BY <1>1, <1>2, <1>3, <1>4, <2>1, AccountOfOther
    <3>. QED BY <1>1, <2>1, <2>2, <3>1, <3>2, <3>3, SettledInOrder DEF IdleInv, t
  <2>4. CASE messageCount = None
    <3>1. Settle(<<>>, n, recentCount)
      BY <1>5, <2>4 DEF Exists
    <3>2. InOrder(told', "EXISTS", Append(reported, Stats(n, recentCount)), "messages")
      BY <1>1, <1>2, <1>3, <2>1, <2>4, AccountOfNew
    <3>3. InOrder(told', "RECENT", Append(reported, Stats(n, recentCount)), "recent")
      BY <1>1, <1>3, <2>1, AccountOfOther
    <3>. QED BY <1>1, <2>2, <3>1, <3>2, <3>3, SettledInOrder DEF IdleInv
  <2>. QED BY <2>3, <2>4
<1>6. CASE Recent(n)
  <2>. DEFINE r == [kind |-> "RECENT", value |-> n]
  <2>1. told' = Append(told, r) /\ r.kind = "RECENT" /\ r.value = n /\ r.kind # "EXISTS"
    BY <1>6 DEF Recent, Tell
  <2>. HIDE DEF r
  <2>2. told' \in Seq(Range(told'))
    BY <1>1, <2>1, HistoryGrows
  <2>3. CASE recentCount # None
    <3>1. Settle(<<Pair>>, None, n) /\ <<Pair>> # <<>>
      BY <1>6, <2>3 DEF Recent
    <3>. HIDE DEF t
    <3>2. InOrder(Append(told, r), "RECENT", Append(t, Stats(None, n)), "recent")
      BY <1>1, <1>2, <1>3, <1>4, <2>1, AccountOfNew
    <3>3. InOrder(told', "EXISTS", Append(t, Stats(None, n)), "messages")
      BY <1>1, <1>2, <1>3, <1>4, <2>1, AccountOfOther
    <3>. QED BY <1>1, <2>1, <2>2, <3>1, <3>2, <3>3, SettledInOrder DEF IdleInv, t
  <2>4. CASE recentCount = None
    <3>1. Settle(<<>>, messageCount, n)
      BY <1>6, <2>4 DEF Recent
    <3>2. InOrder(told', "RECENT", Append(reported, Stats(messageCount, n)), "recent")
      BY <1>1, <1>2, <1>3, <2>1, <2>4, AccountOfNew
    <3>3. InOrder(told', "EXISTS", Append(reported, Stats(messageCount, n)), "messages")
      BY <1>1, <1>3, <2>1, AccountOfOther
    <3>. QED BY <1>1, <2>2, <3>1, <3>2, <3>3, SettledInOrder DEF IdleInv
  <2>. QED BY <2>3, <2>4
<1>. QED BY <1>5, <1>6

(* A response of another kind, with or without what it does to the timer.  *)
LEMMA OtherKeepsCounts ==
  ASSUME IdleInv, Is("idle"), FlagsChanged \/ IdleContinuation
  PROVE  IdleInv'
<1>1. PICK r : Tell(r) /\ r.kind \notin {"EXISTS", "RECENT"}
  BY DEF FlagsChanged, IdleContinuation
<1>2. /\ told \in Seq(Range(told)) /\ reported \in Seq(Range(reported))
      /\ InOrder(told, "EXISTS", Append(reported, Pair), "messages")
      /\ InOrder(told, "RECENT", Append(reported, Pair), "recent")
      /\ messageCount = None \/ recentCount = None
  BY DEF IdleInv, Is
<1>3. told' = Append(told, r) /\ r.kind # "EXISTS" /\ r.kind # "RECENT"
  BY <1>1 DEF Tell
<1>4. told' \in Seq(Range(told'))
  BY <1>2, <1>3, HistoryGrows
<1>5. /\ InOrder(told', "EXISTS", Append(reported, Pair), "messages")
      /\ InOrder(told', "RECENT", Append(reported, Pair), "recent")
  BY <1>2, <1>3, AccountOfOther
<1>6. CASE Settle(<<>>, messageCount, recentCount)
  <2>1. Pair = Stats(messageCount, recentCount)
    BY DEF Pair
  <2>. QED BY <1>2, <1>4, <1>5, <1>6, <2>1, SettledInOrder DEF IdleInv
<1>7. CASE UNCHANGED <<reported, idleVars>>
  <2>1. Pair' = Pair
    BY <1>7 DEF Pair, idleVars
  <2>. QED BY <1>2, <1>4, <1>5, <1>7, <2>1 DEF IdleInv, idleVars
<1>. QED BY <1>6, <1>7 DEF FlagsChanged, IdleContinuation

(* What waits is sent off, by the timer or by the reply.                   *)
LEMMA EmittedInOrder ==
  ASSUME IdleInv, Is("idle"), EmitStats, UNCHANGED told
  PROVE  IdleInv'
<1>. DEFINE t == Append(reported, Pair)
<1>1. /\ told \in Seq(Range(told)) /\ reported \in Seq(Range(reported))
      /\ InOrder(told, "EXISTS", t, "messages") /\ InOrder(told, "RECENT", t, "recent")
  BY DEF IdleInv, Is
<1>2. reported' = t /\ Pair' = Stats(None, None) /\ messageCount' = None
  BY DEF EmitStats, Pair
<1>3. t \in Seq(Range(t))
  BY <1>1, HistoryGrows
<1>4. Stats(None, None)["messages"] = None /\ Stats(None, None)["recent"] = None
  BY DEF Stats
<1>. HIDE DEF t
<1>5. InOrder(told, "EXISTS", Append(t, Stats(None, None)), "messages") /\ InOrder(told, "RECENT", Append(t, Stats(None, None)), "recent")
  BY <1>1, <1>3, <1>4, AccountWithNothing
<1>. QED BY <1>1, <1>2, <1>3, <1>5 DEF IdleInv

(* Every step of IDLE keeps the invariant.                                 *)
LEMMA IdleKeepsCounts == ASSUME IdleInv, IdleNext PROVE IdleInv'
<1>1. ASSUME UNCHANGED <<told, reported, idleVars>>, Is("idle"), class' = class PROVE IdleInv'
  <2>1. Pair' = Pair
    BY <1>1 DEF Pair, idleVars
  <2>. QED BY <1>1, <2>1 DEF IdleInv, idleVars, Is
<1>2. Is("idle") /\ class' = class
  BY IdleIsIdle DEF Is
<1>3. CASE IdleStart
  BY <1>1, <1>2, <1>3 DEF IdleStart, SendCommand, SendCommands
<1>4. CASE IdleTimeout
  BY <1>2, <1>4, EmittedInOrder DEF IdleTimeout
<1>5. ASSUME NEW tag, NEW code, IdleReply(tag, code) PROVE IdleInv'
  BY <1>1, <1>2, <1>5, EmittedInOrder DEF IdleReply
<1>6. CASE ConnectionLost /\ UNCHANGED idleVars
  BY <1>1, <1>2, <1>6 DEF ConnectionLost
<1>. QED BY <1>2, <1>3, <1>4, <1>5, <1>6, CountKeeps, OtherKeepsCounts DEF IdleNext

(* While it idles and when it has ended, every EXISTS and every RECENT has *)
(* reached the application, once and in the order of the server, or waits  *)
(* with the timer running.                                                 *)
THEOREM CountsAlwaysReported == Spec => []CountsAreReported
<1>1. Init => IdleInv
  <2>. SUFFICES ASSUME Init PROVE IdleInv
    OBVIOUS
  <2>1. told = <<>> /\ reported = <<>> /\ messageCount = None /\ recentCount = None
    BY DEF Init, JobInit, IdleInit
  <2>2. \A kind : Given(<<>>, kind) = {}
    BY DEF Given
  <2>3. <<>> \in Seq(Range(<<>>)) /\ Pair.messages = None /\ Pair.recent = None
    BY <2>1, EmptyHistory DEF Pair, Stats
  <2>4. Heard(<<>>, "messages") = {} /\ Heard(<<>>, "recent") = {}
    BY DEF Heard
  <2>5. InOrder(<<>>, "EXISTS", <<>>, "messages") /\ InOrder(<<>>, "RECENT", <<>>, "recent")
    BY <2>2, <2>4, NothingIsInOrder
  <2>6. InOrder(<<>>, "EXISTS", Append(<<>>, Pair), "messages") /\ InOrder(<<>>, "RECENT", Append(<<>>, Pair), "recent")
    BY <2>3, <2>5, AccountWithNothing
  <2>. QED BY <2>1, <2>3, <2>6 DEF IdleInv
<1>2. IdleInv /\ [Next]_vars => IdleInv'
  <2>. SUFFICES ASSUME IdleInv, [Next]_vars PROVE IdleInv'
    OBVIOUS
  <2>1. CASE UNCHANGED vars
    <3>1. Pair' = Pair /\ UNCHANGED <<class, told, reported, messageCount, recentCount>>
      BY <2>1 DEF vars, jobVars, idleVars, Pair
    <3>. QED BY <3>1 DEF IdleInv
  <2>2. CASE class # "idle"
    BY <2>2, StepOfClass DEF IdleInv
  <2>3. CASE class = "idle" /\ ~IdleNext /\ Next
    <3>1. ~LoginNext /\ ~ListNext /\ ~FetchNext /\ ~SelectNext
      BY <2>3, LoginIsLogin, ListIsList, FetchIsFetch, SelectIsSelect
    <3>2. MessageNext \/ AccountNext \/ ServerNext \/ MetaNext
      BY <2>3, <3>1 DEF Next
    <3>3. PICK c \in QuietClasses : class = c
      BY <3>2, DataIsQuiet DEF QuietStep
    <3>. QED BY <2>3, <3>3 DEF QuietClasses, MessageClasses, AccountClasses, ServerClasses, PlainServerJobs, NamingJobs, MetaClasses
  <2>. QED BY <2>1, <2>2, <2>3, IdleKeepsCounts
<1>3. JobInv /\ IdleInv => CountsAreReported
  BY DEF JobInv, TimerInv, IdleInv, CountsAreReported, Is
<1>. QED BY <1>1, <1>2, <1>3, JobInvHolds, PTL DEF Spec
-----------------------------------------------------------------------------
(* SelectedIsReported.  What waits and what was reported together are what *)
(* was told, and nothing is in two of them; what the job says of the       *)
(* mailbox is the last readable thing it was told.                         *)
OfFact(history, fact) == {k \in DOMAIN history : history[k].fact = fact}
FactValues(history, fact) == {history[k].value : k \in OfFact(history, fact)}
SaidOf(history, fact) == {r \in Range(history) : r.fact = fact /\ Readable(fact, r.value)}

KnownAs(history, fact, value) ==
  IF SaidOf(history, fact) = {} THEN value = Unknown
  ELSE \E r \in LastOf(history, SaidOf(history, fact)) : value = r.value

FactsInv ==
  /\ told \in Seq(Range(told))
  /\ \A r \in Range(told) : r = [fact |-> r.fact, value |-> r.value]
  /\ DOMAIN facts = Facts
  /\ \A fact \in Facts : KnownAs(told, fact, facts[fact])

ChangesInv ==
  /\ reported \in Seq(Range(reported))
  /\ pendingMessages \union (UNION FactValues(reported, "FETCH")) = FactValues(told, "FETCH")
  /\ pendingMessages \intersect (UNION FactValues(reported, "FETCH")) = {}
  /\ \A k, l \in OfFact(reported, "FETCH") : k # l => reported[k].value \intersect reported[l].value = {}
  /\ Cardinality(OfFact(reported, "VANISHED")) = Cardinality(OfFact(told, "VANISHED"))

SelectInv ==
  class = "select" =>
    /\ FactsInv /\ ChangesInv
    /\ phase = "done" /\ ~gone => pendingMessages = {}

(* One more of a fact, by position, value and number.                      *)
LEMMA FactGrows ==
  ASSUME NEW s, s \in Seq(Range(s)), NEW r, NEW fact
  PROVE  LET t == Append(s, r)
             n == Len(s) + 1
         IN /\ OfFact(s, fact) \subseteq 1..Len(s) /\ Len(s) \in Nat
            /\ OfFact(t, fact) = OfFact(s, fact) \union {k \in {n} : r.fact = fact}
            /\ t[n] = r /\ \A k \in OfFact(s, fact) : t[k] = s[k]
            /\ FactValues(t, fact) = FactValues(s, fact) \union {v \in {r.value} : r.fact = fact}
            /\ Cardinality(OfFact(t, fact)) = Cardinality(OfFact(s, fact)) + (IF r.fact = fact THEN 1 ELSE 0)
<1>. DEFINE t == Append(s, r)
            n == Len(s) + 1
            S == OfFact(s, fact)
            T == OfFact(t, fact)
<1>1. /\ Len(s) \in Nat /\ DOMAIN s = 1..Len(s) /\ DOMAIN t = 1..n
      /\ t[n] = r /\ \A k \in 1..Len(s) : t[k] = s[k]
  BY HistoryByPosition
<1>. HIDE DEF t
<1>2. S \subseteq 1..Len(s) /\ n \notin S
  BY <1>1 DEF OfFact
<1>3. T = S \union {k \in {n} : r.fact = fact} /\ \A k \in S : t[k] = s[k]
  BY <1>1 DEF OfFact
<1>4. FactValues(t, fact) = FactValues(s, fact) \union {v \in {r.value} : r.fact = fact}
  <2>. HIDE DEF S, T, n
  <2>1. FactValues(t, fact) = {t[k].value : k \in T} /\ FactValues(s, fact) = {s[k].value : k \in S}
    BY DEF FactValues, S, T
  <2>2. CASE r.fact = fact
    <3>1. T = S \union {n}
      BY <1>3, <2>2
    <3>2. {t[k].value : k \in T} = {s[k].value : k \in S} \union {r.value}
      BY <1>1, <1>3, <3>1
    <3>. QED BY <2>1, <2>2, <3>2
  <2>3. CASE r.fact # fact
    <3>1. T = S
      BY <1>3, <2>3
    <3>2. {t[k].value : k \in T} = {s[k].value : k \in S}
      BY <1>3, <3>1
    <3>. QED BY <2>1, <2>3, <3>2
  <2>. QED BY <2>2, <2>3
<1>5. Cardinality(T) = Cardinality(S) + (IF r.fact = fact THEN 1 ELSE 0)
  <2>1. IsFiniteSet(S)
    <3>1. IsFiniteSet(1..Len(s))
      BY <1>1, FS_Interval
    <3>. QED BY <1>2, <3>1, FS_Subset
  <2>2. Cardinality(S) \in Nat
    BY <2>1, FS_CardinalityType
  <2>. HIDE DEF S, T, n
  <2>3. CASE r.fact = fact
    <3>1. T = S \union {n}
      BY <1>3, <2>3
    <3>. QED BY <1>2, <2>1, <2>2, <2>3, <3>1, FS_AddElement
  <2>4. CASE r.fact # fact
    <3>1. T = S
      BY <1>3, <2>4
    <3>. QED BY <2>2, <2>4, <3>1
  <2>. QED BY <2>3, <2>4
<1>. QED BY <1>1, <1>2, <1>3, <1>4, <1>5 DEF t

(* What is known of a fact after one more response.                        *)
LEMMA KnownGrows ==
  ASSUME NEW s, s \in Seq(Range(s)), NEW r, NEW fact, NEW value, KnownAs(s, fact, value)
  PROVE  KnownAs(Append(s, r), fact, IF r.fact = fact /\ Readable(fact, r.value) THEN r.value ELSE value)
<1>. DEFINE t == Append(s, r)
            before == SaidOf(s, fact)
            after == SaidOf(t, fact)
            read == r.fact = fact /\ Readable(fact, r.value)
<1>1. Range(t) = Range(s) \union {r}
  BY HistoryGrows
<1>. HIDE DEF t
<1>2. after = before \union {one \in {r} : read}
  BY <1>1 DEF SaidOf
<1>3. before \subseteq Range(s) /\ (~read => r \notin after)
  BY DEF SaidOf
<1>4. IF before = {} THEN value = Unknown ELSE \E one \in LastOf(s, before) : value = one.value
  BY DEF KnownAs
<1>5. KnownAs(t, fact, IF read THEN r.value ELSE value)
        <=> IF after = {} THEN (IF read THEN r.value ELSE value) = Unknown
            ELSE \E one \in LastOf(t, after) : (IF read THEN r.value ELSE value) = one.value
  BY DEF KnownAs
<1>. HIDE DEF before, after, read
<1>6. CASE read
  <2>1. r \in after
    BY <1>2, <1>6
  <2>2. LastOf(t, after) = {r}
    BY <2>1, LastIsNew DEF t
  <2>3. KnownAs(t, fact, IF read THEN r.value ELSE value)
    BY <1>5, <1>6, <2>1, <2>2
  <2>. QED BY <2>3 DEF t, read
<1>7. CASE ~read
  <2>1. after = before /\ r \notin after
    BY <1>2, <1>3, <1>7
  <2>2. LastOf(t, after) = LastOf(s, before)
    BY <2>1, LastStays DEF t
  <2>3. KnownAs(t, fact, IF read THEN r.value ELSE value)
    BY <1>4, <1>5, <1>7, <2>1, <2>2
  <2>. QED BY <2>3 DEF t, read
<1>. QED BY <1>6, <1>7

(* A response is read if it can be, and then it is what is known.          *)
LEMMA FactsKeep ==
  ASSUME FactsInv, NEW fact, NEW value,
         told' = Append(told, [fact |-> fact, value |-> value]),
         facts' = IF fact \in Facts /\ Readable(fact, value) THEN [facts EXCEPT ![fact] = value] ELSE facts
  PROVE  FactsInv'
<1>. DEFINE r == [fact |-> fact, value |-> value]
<1>1. /\ told \in Seq(Range(told)) /\ DOMAIN facts = Facts
      /\ \A one \in Range(told) : one = [fact |-> one.fact, value |-> one.value]
      /\ \A one \in Facts : KnownAs(told, one, facts[one])
  BY DEF FactsInv
<1>2. r.fact = fact /\ r.value = value /\ r = [fact |-> r.fact, value |-> r.value] /\ told' = Append(told, r)
  OBVIOUS
<1>. HIDE DEF r
<1>3. told' \in Seq(Range(told')) /\ Range(told') = Range(told) \union {r}
  BY <1>1, <1>2, HistoryGrows
<1>4. DOMAIN facts' = Facts
  BY <1>1
<1>5. ASSUME NEW one \in Facts PROVE KnownAs(told', one, facts'[one])
  <2>1. KnownAs(Append(told, r), one, IF r.fact = one /\ Readable(one, r.value) THEN r.value ELSE facts[one])
    BY <1>1, KnownGrows
  <2>2. facts'[one] = IF r.fact = one /\ Readable(one, r.value) THEN r.value ELSE facts[one]
    BY <1>1, <1>2
  <2>. QED BY <1>2, <2>1, <2>2
<1>6. \A one : KnownAs(told, one, facts[one])' <=> KnownAs(told', one, facts'[one])
  BY DEF KnownAs, SaidOf, LastOf
<1>7. \A one \in Range(told') : one = [fact |-> one.fact, value |-> one.value]
  BY <1>1, <1>2, <1>3
<1>. QED BY <1>3, <1>4, <1>5, <1>6, <1>7 DEF FactsInv
(* A fact that the response is not about.                                  *)
LEMMA OtherFact ==
  ASSUME NEW s, s \in Seq(Range(s)), NEW r, NEW fact, r.fact # fact
  PROVE  /\ OfFact(Append(s, r), fact) = OfFact(s, fact)
         /\ \A k \in OfFact(s, fact) : Append(s, r)[k] = s[k]
         /\ FactValues(Append(s, r), fact) = FactValues(s, fact)
<1>. DEFINE t == Append(s, r)
            n == Len(s) + 1
<1>1. /\ OfFact(t, fact) = OfFact(s, fact) \union {k \in {n} : r.fact = fact}
      /\ \A k \in OfFact(s, fact) : t[k] = s[k]
      /\ FactValues(t, fact) = FactValues(s, fact) \union {v \in {r.value} : r.fact = fact}
  BY FactGrows
<1>. HIDE DEF t, n
<1>2. OfFact(t, fact) = OfFact(s, fact) /\ FactValues(t, fact) = FactValues(s, fact)
  BY <1>1
<1>. QED BY <1>1, <1>2 DEF t

(* And the one it is about.                                                *)
LEMMA ThisFact ==
  ASSUME NEW s, s \in Seq(Range(s)), NEW r
  PROVE  LET n == Len(s) + 1
         IN /\ OfFact(Append(s, r), r.fact) = OfFact(s, r.fact) \union {n}
            /\ Append(s, r)[n] = r /\ \A k \in OfFact(s, r.fact) : Append(s, r)[k] = s[k]
            /\ FactValues(Append(s, r), r.fact) = FactValues(s, r.fact) \union {r.value}
            /\ Cardinality(OfFact(Append(s, r), r.fact)) = Cardinality(OfFact(s, r.fact)) + 1
<1>. DEFINE t == Append(s, r)
            n == Len(s) + 1
<1>. SUFFICES ASSUME NEW fact, r.fact = fact
     PROVE  /\ OfFact(t, fact) = OfFact(s, fact) \union {n}
            /\ t[n] = r /\ \A k \in OfFact(s, fact) : t[k] = s[k]
            /\ FactValues(t, fact) = FactValues(s, fact) \union {r.value}
            /\ Cardinality(OfFact(t, fact)) = Cardinality(OfFact(s, fact)) + 1
  OBVIOUS
<1>1. /\ OfFact(t, fact) = OfFact(s, fact) \union {k \in {n} : r.fact = fact}
      /\ t[n] = r /\ \A k \in OfFact(s, fact) : t[k] = s[k]
      /\ FactValues(t, fact) = FactValues(s, fact) \union {v \in {r.value} : r.fact = fact}
      /\ Cardinality(OfFact(t, fact)) = Cardinality(OfFact(s, fact)) + (IF r.fact = fact THEN 1 ELSE 0)
  BY FactGrows
<1>. HIDE DEF t, n
<1>2. OfFact(t, fact) = OfFact(s, fact) \union {n} /\ FactValues(t, fact) = FactValues(s, fact) \union {r.value}
  BY <1>1
<1>3. Cardinality(OfFact(t, fact)) = Cardinality(OfFact(s, fact)) + 1
  BY <1>1
<1>. QED BY <1>1, <1>2, <1>3

(* The invariant after a step.                                             *)
LEMMA ChangesNext ==
  ChangesInv' <=>
    /\ reported' \in Seq(Range(reported'))
    /\ pendingMessages' \union (UNION FactValues(reported', "FETCH")) = FactValues(told', "FETCH")
    /\ pendingMessages' \intersect (UNION FactValues(reported', "FETCH")) = {}
    /\ \A k, l \in OfFact(reported', "FETCH") : k # l => reported'[k].value \intersect reported'[l].value = {}
    /\ Cardinality(OfFact(reported', "VANISHED")) = Cardinality(OfFact(told', "VANISHED"))
BY Zenon DEF ChangesInv, FactValues, OfFact

(* A response that says nothing of changes.                                *)
LEMMA OtherFactKeeps ==
  ASSUME FactsInv, ChangesInv, NEW r, r.fact \notin {"FETCH", "VANISHED"},
         told' = Append(told, r), UNCHANGED <<reported, pendingMessages>>
  PROVE  ChangesInv'
<1>1. told \in Seq(Range(told)) /\ r.fact # "FETCH" /\ r.fact # "VANISHED"
  BY DEF FactsInv
<1>2. FactValues(told', "FETCH") = FactValues(told, "FETCH") /\ OfFact(told', "VANISHED") = OfFact(told, "VANISHED")
  BY <1>1, OtherFact
<1>. QED BY <1>2, ChangesNext DEF ChangesInv

(* VANISHED is passed on at once.                                          *)
LEMMA VanishedKeeps == ASSUME FactsInv, ChangesInv, VanishedEarlier PROVE ChangesInv'
<1>. DEFINE r == [fact |-> "VANISHED", value |-> 1]
            p == [fact |-> "VANISHED", value |-> {1}]
<1>1. /\ told' = Append(told, r) /\ reported' = Append(reported, p) /\ pendingMessages' = pendingMessages
      /\ r.fact = "VANISHED" /\ p.fact = "VANISHED" /\ r.fact # "FETCH" /\ p.fact # "FETCH"
  BY DEF VanishedEarlier, Tell, selectVars
<1>. HIDE DEF r, p
<1>2. told \in Seq(Range(told)) /\ reported \in Seq(Range(reported))
  BY DEF FactsInv, ChangesInv
<1>3. /\ FactValues(told', "FETCH") = FactValues(told, "FETCH")
      /\ FactValues(reported', "FETCH") = FactValues(reported, "FETCH")
  BY <1>1, <1>2, OtherFact
<1>4. OfFact(reported', "FETCH") = OfFact(reported, "FETCH") /\ \A k \in OfFact(reported, "FETCH") : reported'[k] = reported[k]
  BY <1>1, <1>2, OtherFact
<1>5. /\ Cardinality(OfFact(told', "VANISHED")) = Cardinality(OfFact(told, "VANISHED")) + 1
      /\ Cardinality(OfFact(reported', "VANISHED")) = Cardinality(OfFact(reported, "VANISHED")) + 1
  BY <1>1, <1>2, ThisFact
<1>6. reported' \in Seq(Range(reported'))
  BY <1>1, <1>2, HistoryGrows
<1>7. /\ pendingMessages' \union (UNION FactValues(reported', "FETCH")) = FactValues(told', "FETCH")
      /\ pendingMessages' \intersect (UNION FactValues(reported', "FETCH")) = {}
  BY <1>1, <1>3 DEF ChangesInv
<1>8. \A k, l \in OfFact(reported', "FETCH") : k # l => reported'[k].value \intersect reported'[l].value = {}
  BY <1>4 DEF ChangesInv
<1>9. Cardinality(OfFact(reported', "VANISHED")) = Cardinality(OfFact(told', "VANISHED"))
  BY <1>5 DEF ChangesInv
<1>. QED BY <1>6, <1>7, <1>8, <1>9, ChangesNext

(* The message of a FETCH waits, and it was not told before.               *)
LEMMA ChangedKeeps == ASSUME FactsInv, ChangesInv, NEW n, Changed(n) PROVE ChangesInv'
<1>. DEFINE r == [fact |-> "FETCH", value |-> n]
<1>1. /\ told' = Append(told, r) /\ reported' = reported /\ pendingMessages' = pendingMessages \union {n}
      /\ r.fact = "FETCH" /\ r.value = n /\ r.fact # "VANISHED" /\ r \notin Range(told)
  BY DEF Changed, Tell
<1>2. told \in Seq(Range(told)) /\ \A one \in Range(told) : one = [fact |-> one.fact, value |-> one.value]
  BY DEF FactsInv
<1>3. n \notin FactValues(told, "FETCH")
  <2>. SUFFICES ASSUME n \in FactValues(told, "FETCH") PROVE FALSE
    OBVIOUS
  <2>1. PICK k \in DOMAIN told : told[k].fact = "FETCH" /\ told[k].value = n
    BY DEF FactValues, OfFact
  <2>2. told[k] \in Range(told)
    BY DEF Range
  <2>. QED BY <1>1, <1>2, <2>1, <2>2
<1>. HIDE DEF r
<1>4. FactValues(told', "FETCH") = FactValues(told, "FETCH") \union {n}
  BY <1>1, <1>2, ThisFact
<1>5. OfFact(told', "VANISHED") = OfFact(told, "VANISHED")
  BY <1>1, <1>2, OtherFact
<1>. DEFINE R == UNION FactValues(reported, "FETCH")
<1>6. pendingMessages \union R = FactValues(told, "FETCH") /\ pendingMessages \intersect R = {}
  BY DEF ChangesInv
<1>. HIDE DEF R
<1>7. pendingMessages' \union R = FactValues(told', "FETCH") /\ pendingMessages' \intersect R = {}
  BY <1>1, <1>3, <1>4, <1>6
<1>. QED BY <1>1, <1>5, <1>7, ChangesNext DEF ChangesInv, R

(* What waits is reported in one signal.                                   *)
LEMMA EmittedChangesKeep == ASSUME ChangesInv, EmitPendingMessages, UNCHANGED told PROVE ChangesInv'
<1>1. pendingMessages' = {} /\ reported \in Seq(Range(reported))
  BY DEF EmitPendingMessages, ChangesInv
<1>2. CASE pendingMessages = {}
  <2>1. reported' = reported
    BY <1>2 DEF EmitPendingMessages
  <2>. QED BY <1>1, <1>2, <2>1, ChangesNext DEF ChangesInv
<1>3. CASE pendingMessages # {}
  <2>. DEFINE p == [fact |-> "FETCH", value |-> pendingMessages]
              n == Len(reported) + 1
  <2>1. reported' = Append(reported, p) /\ p.fact = "FETCH" /\ p.value = pendingMessages /\ p.fact # "VANISHED"
    BY <1>3 DEF EmitPendingMessages
  <2>. HIDE DEF p
  <2>2. /\ OfFact(reported', "FETCH") = OfFact(reported, "FETCH") \union {n}
        /\ reported'[n] = p /\ \A k \in OfFact(reported, "FETCH") : reported'[k] = reported[k]
        /\ FactValues(reported', "FETCH") = FactValues(reported, "FETCH") \union {pendingMessages}
    <3>1. OfFact(Append(reported, p), p.fact) = OfFact(reported, p.fact) \union {n}
      BY <1>1, ThisFact
    <3>2. Append(reported, p)[n] = p
      BY <1>1, ThisFact
    <3>3. ASSUME NEW k \in OfFact(reported, p.fact) PROVE Append(reported, p)[k] = reported[k]
      <4>1. k \in 1..Len(reported)
        BY <1>1, FactGrows
      <4>. QED BY <1>1, <4>1, HistoryByPosition
    <3>4. FactValues(Append(reported, p), p.fact) = FactValues(reported, p.fact) \union {p.value}
      BY <1>1, ThisFact
    <3>. HIDE DEF n
    <3>. QED BY <2>1, <3>1, <3>2, <3>3, <3>4, Zenon
  <2>3. OfFact(reported', "VANISHED") = OfFact(reported, "VANISHED")
    BY <1>1, <2>1, OtherFact
  <2>. HIDE DEF n
  <2>4. UNION FactValues(reported', "FETCH") = (UNION FactValues(reported, "FETCH")) \union pendingMessages
    <3>. DEFINE V == FactValues(reported, "FETCH")
    <3>1. FactValues(reported', "FETCH") = V \union {pendingMessages}
      BY <2>2
    <3>2. UNION (V \union {pendingMessages}) = (UNION V) \union pendingMessages
      BY UnionGrows
    <3>. HIDE DEF V
    <3>3. UNION FactValues(reported', "FETCH") = (UNION V) \union pendingMessages
      BY <3>1, <3>2
    <3>. QED BY <3>3 DEF V
  <2>5. /\ pendingMessages' \union (UNION FactValues(reported', "FETCH")) = FactValues(told, "FETCH")
        /\ pendingMessages' \intersect (UNION FactValues(reported', "FETCH")) = {}
    <3>. DEFINE R == UNION FactValues(reported, "FETCH")
    <3>1. pendingMessages \union R = FactValues(told, "FETCH")
      BY DEF ChangesInv
    <3>2. UNION FactValues(reported', "FETCH") = R \union pendingMessages
      BY <2>4
    <3>. HIDE DEF R
    <3>. QED BY <1>1, <3>1, <3>2
  <2>6. \A k \in OfFact(reported, "FETCH") : reported[k].value \intersect pendingMessages = {}
    BY DEF ChangesInv, FactValues
  <2>7. \A k, l \in OfFact(reported', "FETCH") : k # l => reported'[k].value \intersect reported'[l].value = {}
    BY <2>1, <2>2, <2>6 DEF ChangesInv
  <2>8. reported' \in Seq(Range(reported'))
    BY <1>1, <2>1, HistoryGrows
  <2>. QED BY <2>3, <2>5, <2>7, <2>8, ChangesNext DEF ChangesInv
<1>. QED BY <1>2, <1>3
(* Every step of SELECT keeps the invariant.                               *)
LEMMA SelectKeeps == ASSUME SelectInv, SelectNext PROVE SelectInv'
<1>1. class = "select" /\ class' = class /\ FactsInv /\ ChangesInv
  BY SelectIsSelect DEF SelectInv
<1>2. ASSUME UNCHANGED <<told, reported, facts, pendingMessages>> PROVE FactsInv' /\ ChangesInv'
  BY <1>1, <1>2, ChangesNext DEF FactsInv, ChangesInv, KnownAs, SaidOf, LastOf
<1>3. ASSUME UNCHANGED <<told, facts>> PROVE FactsInv'
  BY <1>1, <1>3 DEF FactsInv, KnownAs, SaidOf, LastOf
<1>4. "FETCH" \notin Facts /\ "VANISHED" \notin Facts /\ "NOMODSEQ" \notin Facts
  BY DEF Facts, ListCodes, NumberCodes, NumberLines
<1>5. ASSUME NEW r, Tell(r), FactsInv', ChangesInv' PROVE SelectInv'
  <2>1. phase' = "running"
    BY <1>5, RunningIsNotDone
  <2>. QED BY <1>5, <2>1 DEF SelectInv
<1>6. CASE SelectStart
  <2>1. UNCHANGED <<told, reported, facts, pendingMessages>> /\ phase' = "running"
    BY <1>6 DEF SelectStart, SendCommands
  <2>. QED BY <1>2, <2>1 DEF SelectInv
<1>7. ASSUME NEW fact \in Facts, NEW value, FactResponse(fact, value) PROVE SelectInv'
  <2>. DEFINE r == [fact |-> fact, value |-> value]
  <2>1. /\ Tell(r) /\ told' = Append(told, r) /\ UNCHANGED <<reported, pendingMessages>>
        /\ facts' = IF Readable(fact, value) THEN [facts EXCEPT ![fact] = value] ELSE facts
    BY <1>7 DEF FactResponse, Tell
  <2>2. FactsInv'
    BY <1>1, <2>1, FactsKeep
  <2>3. r.fact \notin {"FETCH", "VANISHED"}
    BY <1>4
  <2>4. ChangesInv'
    BY <1>1, <2>1, <2>3, OtherFactKeeps
  <2>. QED BY <1>5, <2>1, <2>2, <2>4
<1>8. ASSUME NEW fact, NEW value, fact \notin Facts, Tell([fact |-> fact, value |-> value]), UNCHANGED facts PROVE FactsInv'
  <2>1. told' = Append(told, [fact |-> fact, value |-> value])
    BY <1>8 DEF Tell
  <2>. QED BY <1>1, <1>8, <2>1, FactsKeep
<1>9. CASE BareResponse
  <2>. DEFINE r == [fact |-> "NOMODSEQ", value |-> Garbage]
  <2>1. Tell(r) /\ told' = Append(told, r) /\ UNCHANGED <<reported, facts, pendingMessages>>
    BY <1>9 DEF BareResponse, Tell, selectVars
  <2>2. FactsInv'
    BY <1>4, <1>8, <2>1
  <2>3. r.fact \notin {"FETCH", "VANISHED"}
    OBVIOUS
  <2>4. ChangesInv'
    BY <1>1, <2>1, <2>3, OtherFactKeeps
  <2>. QED BY <1>5, <2>1, <2>2, <2>4
<1>10. CASE VanishedEarlier
  <2>1. Tell([fact |-> "VANISHED", value |-> 1]) /\ UNCHANGED facts
    BY <1>10 DEF VanishedEarlier, selectVars
  <2>. QED BY <1>1, <1>4, <1>5, <1>8, <1>10, <2>1, VanishedKeeps
<1>11. ASSUME NEW n, Changed(n) PROVE SelectInv'
  <2>1. Tell([fact |-> "FETCH", value |-> n]) /\ UNCHANGED facts
    BY <1>11 DEF Changed
  <2>. QED BY <1>1, <1>4, <1>5, <1>8, <1>11, <2>1, ChangedKeeps
<1>12. CASE SelectEmit
  <2>1. EmitPendingMessages /\ UNCHANGED <<told, facts>> /\ pendingMessages' = {}
    BY <1>12 DEF SelectEmit, EmitPendingMessages
  <2>. QED BY <1>1, <1>3, <2>1, EmittedChangesKeep DEF SelectInv
<1>13. ASSUME NEW tag, NEW code, NEW responseCode, SelectReply(tag, code, responseCode) PROVE SelectInv'
  <2>1. IsLastReply(tag) \/ phase' = "running"
    BY <1>13, RunningIsNotDone DEF SelectReply
  <2>2. UNCHANGED <<told, facts>>
    BY <1>13 DEF SelectReply
  <2>3. CASE IsLastReply(tag)
    <3>1. EmitPendingMessages /\ pendingMessages' = {}
      BY <1>13, <2>3 DEF SelectReply, EmitPendingMessages
    <3>. QED BY <1>1, <1>3, <2>2, <3>1, EmittedChangesKeep DEF SelectInv
  <2>4. CASE ~IsLastReply(tag)
    <3>1. UNCHANGED <<reported, pendingMessages>>
      BY <1>13, <2>4 DEF SelectReply
    <3>. QED BY <1>2, <2>1, <2>2, <2>4, <3>1 DEF SelectInv
  <2>. QED BY <2>3, <2>4
<1>14. CASE ConnectionLost /\ UNCHANGED selectVars
  <2>1. UNCHANGED <<told, reported, facts, pendingMessages>> /\ gone'
    BY <1>14 DEF ConnectionLost, selectVars
  <2>. QED BY <1>2, <2>1 DEF SelectInv
<1>. QED BY <1>6, <1>7, <1>9, <1>10, <1>11, <1>12, <1>13, <1>14 DEF SelectNext

(* When a SELECT has ended, what it was told of changes and of the mailbox *)
(* is what it has reported and what it says.                               *)
LEMMA SelectInvMeaning == SelectInv => SelectedIsReported
<1>. SUFFICES ASSUME SelectInv, class = "select", phase = "done", ~gone
              PROVE  /\ UNION FactValues(reported, "FETCH") = FactValues(told, "FETCH")
                     /\ \A k, l \in OfFact(reported, "FETCH") : k # l => reported[k].value \intersect reported[l].value = {}
                     /\ Cardinality(OfFact(reported, "VANISHED")) = Cardinality(OfFact(told, "VANISHED"))
                     /\ \A fact \in Facts : KnownAs(told, fact, facts[fact])
  BY Zenon DEF SelectedIsReported, Is, Told, Reported, FactValues, OfFact, KnownAs, SaidOf
<1>1. pendingMessages = {} /\ FactsInv /\ ChangesInv
  BY DEF SelectInv
<1>2. pendingMessages \union (UNION FactValues(reported, "FETCH")) = FactValues(told, "FETCH")
  BY <1>1 DEF ChangesInv
<1>. QED BY <1>1, <1>2 DEF FactsInv, ChangesInv

(* When a SELECT has ended every change since the last synchronisation has *)
(* been reported, in one signal and no other, and so has every VANISHED;   *)
(* and what the job says of the mailbox is the last readable thing it was  *)
(* told.                                                                   *)
THEOREM SelectedIsAlwaysReported == Spec => []SelectedIsReported
<1>1. Init => SelectInv
  <2>. SUFFICES ASSUME Init PROVE SelectInv
    OBVIOUS
  <2>1. told = <<>> /\ reported = <<>> /\ facts = [f \in Facts |-> Unknown] /\ pendingMessages = {} /\ phase = "new"
    BY DEF Init, JobInit, SelectInit
  <2>2. <<>> \in Seq(Range(<<>>)) /\ Range(<<>>) = {}
    BY EmptyHistory
  <2>3. \A fact : OfFact(<<>>, fact) = {} /\ FactValues(<<>>, fact) = {} /\ SaidOf(<<>>, fact) = {}
    BY <2>2 DEF OfFact, FactValues, SaidOf
  <2>4. FactsInv
    BY <2>1, <2>2, <2>3 DEF FactsInv, KnownAs
  <2>5. ChangesInv
    BY <2>1, <2>2, <2>3 DEF ChangesInv
  <2>. QED BY <2>1, <2>4, <2>5 DEF SelectInv
<1>2. SelectInv /\ [Next]_vars => SelectInv'
  <2>. SUFFICES ASSUME SelectInv, [Next]_vars PROVE SelectInv'
    OBVIOUS
  <2>1. CASE UNCHANGED vars
    <3>1. UNCHANGED <<class, phase, gone, told, reported, facts, pendingMessages>>
      BY <2>1 DEF vars, jobVars, selectVars
    <3>2. (FactsInv' <=> FactsInv) /\ (ChangesInv' <=> ChangesInv)
      BY <3>1, ChangesNext DEF FactsInv, ChangesInv, KnownAs, SaidOf, LastOf
    <3>. QED BY <3>1, <3>2 DEF SelectInv
  <2>2. CASE class # "select"
    BY <2>2, StepOfClass DEF SelectInv
  <2>3. CASE class = "select" /\ ~SelectNext /\ Next
    <3>1. ~LoginNext /\ ~ListNext /\ ~FetchNext /\ ~IdleNext
      BY <2>3, LoginIsLogin, ListIsList, FetchIsFetch, IdleIsIdle
    <3>2. MessageNext \/ AccountNext \/ ServerNext \/ MetaNext
      BY <2>3, <3>1 DEF Next
    <3>3. PICK c \in QuietClasses : class = c
      BY <3>2, DataIsQuiet DEF QuietStep
    <3>. QED BY <2>3, <3>3 DEF QuietClasses, MessageClasses, AccountClasses, ServerClasses, PlainServerJobs, NamingJobs, MetaClasses
  <2>. QED BY <2>1, <2>2, <2>3, SelectKeeps
<1>. QED BY <1>1, <1>2, SelectInvMeaning, PTL DEF Spec
==============================================================================
