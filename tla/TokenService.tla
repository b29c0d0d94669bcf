---------------------------- MODULE TokenService ----------------------------
(***************************************************************************)
(* AskToken and ValidateToken, step by step, one request at a time, while  *)
(* the administration thread changes usercol between any two steps.        *)
(***************************************************************************)
EXTENDS Tokens, FiniteSets

CONSTANTS
  MaxIssued,      \* how many tokens are issued in a run (a bound)
  Foreign         \* stray payloads signed with jwtKey by some other program

ASSUME TokenAssumption == MaxIssued \in Nat /\ Foreign \subseteq Strays

VARIABLES
  usercol, usedOids,
  pc,          \* where the handler is; idle between requests
  ask,         \* the request being served
  dbRes,       \* the document the cursor yielded, as a string
  answer,      \* the response being built
  issued,      \* history: every token constructed so far
  removed,     \* history: identifiers deleted so far
  removedAtOpen  \* history: removed, when the request was read

reqVars == <<pc, ask, dbRes, answer, removedAtOpen>>
adminVars == <<usercol, usedOids, removed>>
vars == <<reqVars, adminVars, issued>>

NoDoc == [none |-> "doc"]
NoRequest == [kind |-> "none"]

\* What may come as the body of a validation: a token issued here or signed
\* elsewhere, or one whose header, payload or signature was changed since.
Signed == issued \cup {Token(p) : p \in Foreign}

Altered ==
  {[t EXCEPT !.header = "other"] : t \in Signed} \cup
  {[t EXCEPT !.payload = u.payload] : t, u \in Signed} \cup
  {[t EXCEPT !.payload = d] : t \in Signed, d \in {usercol[i] : i \in DOMAIN usercol}}

Init ==
  /\ usercol = <<>> /\ usedOids = {} /\ removed = {}
  /\ pc = "idle" /\ ask = NoRequest /\ dbRes = NoDoc
  /\ answer = Answer("none") /\ removedAtOpen = {}
  /\ issued = {}

-----------------------------------------------------------------------------
\* The request has been read and parsed, RunMethod calls the handler.
OpenToken ==
  /\ pc = "idle"
  /\ Cardinality(issued) < MaxIssued
  /\ \E name \in Names \cup {NoName} :
       /\ ask' = [kind |-> "token", arg |-> name]
       /\ pc' = "name"
  /\ removedAtOpen' = removed
  /\ UNCHANGED <<dbRes, answer, adminVars, issued>>

OpenValidate ==
  /\ pc = "idle"
  /\ \E body \in Signed \cup Altered \cup {NoBody} :
       ask' = [kind |-> "validate", arg |-> body]
  /\ pc' = "body"
  /\ removedAtOpen' = removed
  /\ UNCHANGED <<dbRes, answer, adminVars, issued>>

Responds(status) == answer' = Answer(status) /\ pc' = "reply"

\* AskToken: is there a "name" parameter?
LooksUpName ==
  /\ pc = "name"
  /\ IF ask.arg = NoName THEN Responds("BAD_REQUEST")
                         ELSE pc' = "findAsked" /\ UNCHANGED answer
  /\ UNCHANGED <<ask, dbRes, removedAtOpen, adminVars, issued>>

\* The query runs when the cursor is advanced; its first document is a copy.
FindsAsked ==
  /\ pc = "findAsked"
  /\ \/ /\ Named(usercol, ask.arg) = {} \/ CursorFails
        /\ Responds("BAD_REQUEST") /\ UNCHANGED dbRes
     \/ /\ Named(usercol, ask.arg) # {}
        /\ dbRes' = FirstNamed(usercol, ask.arg)
        /\ pc' = "construct" /\ UNCHANGED answer
  /\ UNCHANGED <<ask, removedAtOpen, adminVars, issued>>

\* Variant: the signature is computed over another header.
ConstructsOtherToken ==
  /\ pc = "construct"
  /\ issued' = issued \cup {[Token(dbRes) EXCEPT !.sign = Hmac("other", dbRes)]}
  /\ answer' = Issue(dbRes)
  /\ pc' = "reply"
  /\ UNCHANGED <<ask, dbRes, removedAtOpen, adminVars>>

\* AddJsonAsPayload and ConstructJwt.
ConstructsToken ==
  /\ pc = "construct"
  /\ issued' = issued \cup {Token(dbRes)}
  /\ answer' = Issue(dbRes)
  /\ pc' = "reply"
  /\ UNCHANGED <<ask, dbRes, removedAtOpen, adminVars>>

\* ValidateToken: a body, a header, a signature, a payload with a username.
ChecksBody ==
  /\ pc = "body"
  /\ IF ask.arg = NoBody THEN Responds("BAD_REQUEST")
                         ELSE pc' = "header" /\ UNCHANGED answer
  /\ UNCHANGED <<ask, dbRes, removedAtOpen, adminVars, issued>>

ChecksHeader ==
  /\ pc = "header"
  /\ IF HeaderOK(ask.arg) THEN pc' = "sign" /\ UNCHANGED answer
                          ELSE Responds("FORBIDDEN")
  /\ UNCHANGED <<ask, dbRes, removedAtOpen, adminVars, issued>>

\* Variant: the result of CheckJwtSign is not looked at.
ChecksNoSign ==
  /\ pc = "sign" /\ pc' = "payload"
  /\ UNCHANGED <<ask, dbRes, answer, removedAtOpen, adminVars, issued>>

ChecksSign ==
  /\ pc = "sign"
  /\ IF SignOK(ask.arg) THEN pc' = "payload" /\ UNCHANGED answer
                        ELSE Responds("FORBIDDEN")
  /\ UNCHANGED <<ask, dbRes, removedAtOpen, adminVars, issued>>

ChecksPayload ==
  /\ pc = "payload"
  /\ IF IsJson(ask.arg.payload) /\ HasUsername(ask.arg.payload)
       THEN pc' = "findOwner" /\ UNCHANGED answer
       ELSE Responds("FORBIDDEN")
  /\ UNCHANGED <<ask, dbRes, removedAtOpen, adminVars, issued>>

FindsOwner ==
  /\ pc = "findOwner"
  /\ \/ /\ Named(usercol, ask.arg.payload.username) = {} \/ CursorFails
        /\ Responds("FORBIDDEN") /\ UNCHANGED dbRes
     \/ /\ Named(usercol, ask.arg.payload.username) # {}
        /\ dbRes' = FirstNamed(usercol, ask.arg.payload.username)
        /\ pc' = "compare" /\ UNCHANGED answer
  /\ UNCHANGED <<ask, removedAtOpen, adminVars, issued>>

\* Variant: only the name is compared.
ComparesName ==
  /\ pc = "compare"
  /\ IF ask.arg.payload.username = dbRes.username
       THEN Responds("OK") ELSE Responds("FORBIDDEN")
  /\ UNCHANGED <<ask, dbRes, removedAtOpen, adminVars, issued>>

\* strcmp of the decoded payload and the document.
Compares ==
  /\ pc = "compare"
  /\ IF ask.arg.payload = dbRes THEN Responds("OK") ELSE Responds("FORBIDDEN")
  /\ UNCHANGED <<ask, dbRes, removedAtOpen, adminVars, issued>>

\* ConstructStrResp, SSL_write, and the connection is over.
Replies ==
  /\ pc = "reply"
  /\ pc' = "idle"
  /\ ask' = NoRequest /\ dbRes' = NoDoc
  /\ answer' = Answer("none") /\ removedAtOpen' = {}
  /\ UNCHANGED <<adminVars, issued>>

Serve ==
  \/ OpenToken \/ OpenValidate \/ LooksUpName \/ FindsAsked \/ ConstructsToken
  \/ ChecksBody \/ ChecksHeader \/ ChecksSign \/ ChecksPayload
  \/ FindsOwner \/ Compares \/ Replies

-----------------------------------------------------------------------------
\* The administration thread: each driver call is atomic in the database.
AddsUser ==
  /\ \E oid \in Oids \ usedOids, name \in Names :
       /\ usercol' = Append(usercol, NewUser(oid, name))
       /\ usedOids' = usedOids \cup {oid}
  /\ UNCHANGED <<removed, reqVars, issued>>

DeletesUser ==
  /\ \E oid \in {usercol[i].oid : i \in DOMAIN usercol} :
       /\ usercol' = DeleteOne(usercol, oid)
       /\ removed' = removed \cup {oid}
  /\ UNCHANGED <<usedOids, reqVars, issued>>

UpdatesUser ==
  /\ \E oid \in {usercol[i].oid : i \in DOMAIN usercol}, service \in ServiceNames :
       \/ usercol' = AddToSetOne(usercol, oid, service)
       \/ usercol' = PullOne(usercol, oid, service)
  /\ UNCHANGED <<usedOids, removed, reqVars, issued>>

Administer == AddsUser \/ DeletesUser \/ UpdatesUser

Next == Serve \/ Administer

Spec == Init /\ [][Next]_vars

-----------------------------------------------------------------------------
TypeOK ==
  /\ usercol \in Seq(Docs)
  /\ usedOids \subseteq Oids /\ removed \subseteq usedOids
  /\ pc \in {"idle", "name", "findAsked", "construct", "body", "header", "sign",
             "payload", "findOwner", "compare", "reply"}
  /\ ask.kind \in {"none", "token", "validate"}
  /\ dbRes \in Docs \cup {NoDoc}
  /\ answer.status \in {"none", "OK", "BAD_REQUEST", "FORBIDDEN"}
  /\ \A t \in issued : t.payload \in Docs /\ t = Token(t.payload)
  /\ removedAtOpen \subseteq removed

Accepting == pc = "reply" /\ ask.kind = "validate" /\ answer.status = "OK"

\* A body is accepted only if this service has constructed it as a token:
\* changing any part of it, or signing something else with the key, does not
\* pass the checks of ValidateToken.
AcceptedWasIssued == Accepting => ask.arg \in issued

\* A token of a user who was deleted before the validation was asked for is
\* refused, whoever has taken the name since.
DeletedIsRefused == Accepting => ask.arg.payload.oid \notin removedAtOpen

\* A token handed out names a user who existed when it was asked for or since.
IssuedToExisting ==
  pc = "reply" /\ ask.kind = "token" /\ answer.status = "OK" =>
    answer.token.payload.oid \notin removedAtOpen

\* Adding a user, under a name already taken or not, makes no token of
\* another user good or bad: lookups take the oldest document of a name.
AddingKeepsTokens ==
  [][AddsUser => \A t \in issued : Good(t, usercol) <=> Good(t, usercol')]_vars

\* A token issued before its user had any service never comes back once it
\* has stopped being good: no sequence of updates, deletions and additions
\* restores the document it was made from.
FirstTokenNeverReturns ==
  [][\A t \in issued : t.payload.services = NoServices /\ ~Good(t, usercol) =>
       ~Good(t, usercol')]_vars

\* A request is decided at one instant: the step that runs its query, or the
\* check that refuses it.
DecisionAt ==
  CASE pc = "reply"     -> answer
    [] pc = "construct" -> Issue(dbRes)
    [] pc = "compare"   -> Answer(IF ask.arg.payload = dbRes THEN "OK" ELSE "FORBIDDEN")
    [] OTHER            -> Answer("none")

Authority == INSTANCE TokenAuthority WITH
  phase <- CASE pc = "idle" -> "idle"
             [] pc \in {"reply", "construct", "compare"} -> "decided"
             [] OTHER -> "open",
  answer <- DecisionAt

\* Whatever administrators do meanwhile, every answer is the one the service
\* owed at some instant while the request was open.
DecidesAtOneInstant == Authority!Spec
=============================================================================
