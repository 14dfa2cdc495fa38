------------------------------ MODULE LoginJob ------------------------------
(***************************************************************************)
(* LoginJob (src/src/loginjob.cpp): which commands it sends, on what kind  *)
(* of connection and after what the server has offered.  Session has the   *)
(* same job without SASL and with a free choice for every offer, in its    *)
(* place among the other jobs and the threads.                             *)
(***************************************************************************)
EXTENDS Job

CONSTANTS Offers,         (* the sets of capabilities a server may list; a  *)
                          (* mechanism stands for AUTH= and its name        *)
          Mechanisms      (* values of authMode but the empty one           *)

(* A mechanism has a name, and none is called like a continuation.         *)
ASSUME LoginAssumption == "" \notin Mechanisms /\ "+" \notin Mechanisms

VARIABLES encryptionMode, authMode, authState, capabilities, plainLoginDisabled,
          encrypted,      (* negotiatedEncryption() is known                *)
          negotiating,    (* external: a TLS negotiation is under way       *)
          open,           (* external: the command without an answer yet    *)
          accepted,       (* external: the steps that were answered with OK *)
          unreadable,     (* the last response could not be made sense of   *)
          secrets         (* external: how the job has tried to log in      *)

connectionVars == <<encrypted, negotiating>>
choiceVars == <<encryptionMode, authMode>>
offerVars == <<capabilities, plainLoginDisabled>>
loginVars == <<choiceVars, authState, offerVars, connectionVars, open, accepted, unreadable, secrets>>

EncryptionMode == {"Unencrypted", "SSLorTLS", "STARTTLS"}

LoginInit ==
  /\ encryptionMode = "Unencrypted" /\ authMode = "" /\ authState = "Login"
  /\ capabilities = {} /\ plainLoginDisabled = FALSE
  /\ encrypted = FALSE /\ negotiating = FALSE
  /\ open = "none" /\ accepted = {} /\ unreadable = FALSE /\ secrets = {}

-----------------------------------------------------------------------------
(* What the server has offered last, whatever the job made of it.          *)
Offered == LET said == {k \in DOMAIN told : told[k].kind = "CAPABILITY"}
           IN IF said = {} THEN {} ELSE told[Max(said)].value

(* What leaves at this moment: LOGIN, the name of a mechanism, or an       *)
(* answer to a "+".                                                        *)
Secret(with) == [mode |-> encryptionMode', with |-> with, encrypted |-> encrypted', offered |-> Offered]

(* The next command, which puts the job into a state; or the end of it.    *)
Send(state) ==
  /\ phase' = "running" /\ authState' = state /\ open' = state
  /\ tags' = tags \union {Cardinality(tags) + 1}
  /\ UNCHANGED <<error, refused, unreadable>>

Finish(failed) ==
  /\ phase' = "done" /\ error' = (error \/ failed) /\ open' = "none"
  /\ UNCHANGED <<tags, authState, unreadable>>

(* LOGIN, or AUTHENTICATE by startAuthentication(), maybe with the first   *)
(* answer, unless the SASL library fails.                                  *)
LogIn ==
  \/ /\ Send(IF authMode' = "" THEN "Login" ELSE "Authenticate")
     /\ secrets' = secrets \union {Secret(authMode')}
  \/ authMode' # "" /\ Finish(TRUE) /\ UNCHANGED <<refused, secrets>>

(* doStart(): the connection of an implicit TLS may still be negotiating,  *)
(* and one that is encrypted already needs no other encryption.            *)
LoginStart ==
  /\ Is("login") /\ phase = "new"
  /\ authMode' \in Mechanisms \union {""}
  /\ encryptionMode' \in EncryptionMode
  /\ encrypted' \in BOOLEAN
  /\ negotiating' = (~encrypted' /\ encryptionMode' = "SSLorTLS")
  /\ CASE encrypted' -> Send("Capability") /\ UNCHANGED secrets
       [] negotiating' ->
            /\ phase' = "running"
            /\ UNCHANGED <<tags, error, refused, authState, open, unreadable, secrets>>
       [] ~encrypted' /\ encryptionMode' = "STARTTLS" -> Send("PreStartTlsCapability") /\ UNCHANGED secrets
       [] OTHER -> LogIn
  /\ UNCHANGED <<class, timer, told, reported, refused, gone, offerVars, accepted>>

(* doStart() on a session that a PREAUTH greeting has authenticated.       *)
LoginRefused ==
  /\ Is("login") /\ phase = "new"
  /\ Finish(TRUE)
  /\ UNCHANGED <<class, timer, told, reported, refused, gone>>
  /\ UNCHANGED <<choiceVars, offerVars, connectionVars, accepted, secrets>>

(* sslResponse()                                                           *)
SslResponse(response) ==
  /\ Is("login") /\ phase = "running" /\ negotiating
  /\ negotiating' = FALSE
  /\ encrypted' = response
  /\ IF response
     THEN Send("Capability") /\ UNCHANGED encryptionMode
     ELSE Finish(TRUE) /\ encryptionMode' = "Unencrypted" /\ UNCHANGED refused
  /\ UNCHANGED <<class, timer, told, reported, gone, authMode, offerVars, accepted, secrets>>

-----------------------------------------------------------------------------
(* CAPABILITY: that a plain login is disabled is never forgotten.          *)
CapabilitiesUpdated(offer) ==
  /\ capabilities' = offer
  /\ plainLoginDisabled' = (plainLoginDisabled \/ "LOGINDISABLED" \in offer)

CapabilityResponse(offer) ==
  /\ Is("login") /\ ~negotiating
  /\ Tell([kind |-> "CAPABILITY", value |-> offer])
  /\ CapabilitiesUpdated(offer)
  /\ UNCHANGED <<timer, reported, choiceVars, authState, connectionVars, open, accepted, unreadable, secrets>>

(* A response that makes no sense ends the job with the text of an error   *)
(* and no error: a "*" alone, a tag alone, a "+" nobody waits for.         *)
Malformed ==
  /\ Is("login") /\ phase = "running" /\ ~negotiating
  /\ phase' = "done" /\ unreadable' = TRUE
  /\ UNCHANGED <<class, tags, error, timer, told, reported, refused, gone>>
  /\ UNCHANGED <<choiceVars, authState, offerVars, connectionVars, open, accepted, secrets>>

(* answerChallenge(): the SASL library has an answer, or that is the end.  *)
AnswerChallenge(answerable) ==
  IF answerable
  THEN UNCHANGED <<phase, error, open>> /\ secrets' = secrets \union {Secret("+")}
  ELSE phase' = "done" /\ error' = TRUE /\ open' = "none" /\ UNCHANGED secrets

(* "+": PLAIN needs no library to answer.                                  *)
Continuation(answerable) ==
  /\ Is("login") /\ authState = "Authenticate"
  /\ phase = "running" /\ Len(told) < MaxTold
  /\ told' = Append(told, [kind |-> "+", value |-> {}])
  /\ UNCHANGED <<class, tags, timer, reported, refused, gone>>
  /\ UNCHANGED <<choiceVars, authState, offerVars, connectionVars, accepted, unreadable>>
  /\ AnswerChallenge(answerable \/ authMode = "PLAIN")

-----------------------------------------------------------------------------
(* The steps that follow an OK.                                            *)
(* Mutant: without STARTTLS on offer, the login goes on without it.        *)
StartTlsIfOffered ==
  /\ IF "STARTTLS" \in capabilities THEN Send("StartTls") /\ UNCHANGED secrets
     ELSE LogIn
  /\ UNCHANGED negotiating

AfterPreStartTlsCapability ==
  /\ IF "STARTTLS" \in capabilities THEN Send("StartTls") ELSE Finish(TRUE)
  /\ UNCHANGED <<negotiating, secrets>>

AfterStartTls ==
  /\ negotiating' = TRUE /\ open' = "none"
  /\ UNCHANGED <<phase, tags, error, authState, unreadable, secrets>>

MayLogIn ==
  /\ encryptionMode = "Unencrypted" \/ encrypted
  /\ IF authMode = "" THEN ~plainLoginDisabled ELSE authMode \in capabilities

AfterCapability ==
  /\ IF MayLogIn THEN LogIn ELSE Finish(TRUE) /\ UNCHANGED secrets
  /\ UNCHANGED negotiating

AfterLogin ==
  /\ IF "UTF8=ACCEPT" \in capabilities THEN Send("EnableUtf8") ELSE Finish(FALSE)
  /\ UNCHANGED <<negotiating, secrets>>

LoginOk ==
  /\ CASE open = "PreStartTlsCapability" -> AfterPreStartTlsCapability
       [] open = "StartTls" -> AfterStartTls
       [] open = "Capability" -> AfterCapability
       [] open \in {"Login", "Authenticate"} -> AfterLogin
       [] open = "EnableUtf8" -> Finish(FALSE) /\ UNCHANGED <<negotiating, secrets>>
  /\ accepted' = accepted \union {open}
  /\ UNCHANGED refused

(* Mutant: a refusal in the last step of SASL goes by unnoticed.           *)
LoginErrorUnlessSasl ==
  /\ Finish(authState \notin {"Authenticate", "EnableUtf8"})
  /\ refused' = (authState # "EnableUtf8")
  /\ UNCHANGED <<negotiating, secrets, accepted>>

(* NO and BAD, which only ENABLE survives.                                 *)
LoginError ==
  /\ Finish(authState # "EnableUtf8")
  /\ refused' = (authState # "EnableUtf8")
  /\ UNCHANGED <<negotiating, secrets, accepted>>

LoginReply(code) ==
  /\ Is("login") /\ phase = "running" /\ open # "none"
  /\ UNCHANGED <<class, timer, told, reported, gone, choiceVars, offerVars, encrypted>>
  /\ IF code = "OK" THEN LoginOk ELSE LoginError

LoginNext ==
  \/ LoginStart \/ LoginRefused
  \/ \E response \in BOOLEAN : SslResponse(response)
  \/ \E offer \in Offers : CapabilityResponse(offer)
  \/ Malformed
  \/ \E answerable \in BOOLEAN : Continuation(answerable)
  \/ \E code \in Codes \ {"malformed"} : LoginReply(code)
  \/ Is("login") /\ ConnectionLost /\ UNCHANGED loginVars

-----------------------------------------------------------------------------
(* The password never leaves on a connection less safe than the            *)
(* application asked for, and where it asked for TLS only in a way that    *)
(* the last CAPABILITY response before offers.                             *)
SecretsAreSafe ==
  \A secret \in secrets :
    \/ secret.mode = "Unencrypted"
    \/ /\ secret.encrypted
       /\ secret.with = "" => "LOGINDISABLED" \notin secret.offered
       /\ secret.with \in Mechanisms => secret.with \in secret.offered

(* A login that ends without an error is one: the server accepted the      *)
(* LOGIN or AUTHENTICATE, unless it said something the job could not read. *)
LoginIsReal ==
  Is("login") /\ Succeeded => unreadable \/ {"Login", "Authenticate"} \intersect accepted # {}
=============================================================================
