------------------------- MODULE TokenServiceProofs -------------------------
(***************************************************************************)
(* Theorems about TokenService, for every set of documents, names and      *)
(* services, any number of tokens, and queries that fail or not.           *)
(*                                                                         *)
(* The invariant follows a request through its handler: what the handler   *)
(* has checked by a point of its code holds of the token it was sent       *)
(* (Checked), and what it took from the database was there during the      *)
(* request (Taken).  Beside it, identifiers are used once (StoreOK), and   *)
(* every token was made from a document that is still the first of its     *)
(* name wherever it is (IssuedOK).                                         *)
(***************************************************************************)
EXTENDS TokenService, UserStoreProofs

TokenPcs == {"name", "findAsked", "construct"}
ValidatePcs == {"body", "header", "sign", "payload", "findOwner", "compare"}

StoreOK ==
  /\ Keyed(usercol)
  /\ \A i \in DOMAIN usercol : usercol[i].oid \in usedOids \ removed

Vouched(doc) == doc.oid \in usedOids /\ FirstOfName(doc, usercol)

IssuedOK == \A t \in issued : Vouched(t.payload)

KindOK ==
  /\ pc \in TokenPcs => ask.kind = "token"
  /\ pc = "findAsked" => ask.arg # NoName
  /\ pc \in ValidatePcs => ask.kind = "validate"

\* A body that passes CheckJwtHeader and CheckJwtSign was signed with jwtKey.
Genuine(body) == body # NoBody /\ HeaderOK(body) /\ SignOK(body) => body \in Signed

Checked ==
  /\ ask.kind = "validate" => Genuine(ask.arg)
  /\ pc \in ValidatePcs \ {"body"} => ask.arg # NoBody
  /\ pc \in {"sign", "payload", "findOwner", "compare"} => HeaderOK(ask.arg)
  /\ pc \in {"payload", "findOwner", "compare"} => SignOK(ask.arg)
  /\ pc \in {"findOwner", "compare"} => HasUsername(ask.arg.payload)

Taken ==
  /\ pc \in {"construct", "compare"} =>
       dbRes \in Docs /\ dbRes.oid \notin removedAtOpen /\ Vouched(dbRes)
  /\ Accepting => ask.arg \in issued /\ ask.arg.payload.oid \notin removedAtOpen
  /\ IssuedToExisting

IInv == TypeOK /\ StoreOK /\ IssuedOK /\ KindOK /\ Checked /\ Taken

-----------------------------------------------------------------------------
\* Whatever was changed in a token, a body that checks is one that was signed.
LEMMA OnlySignedIsGenuine ==
  ASSUME TypeOK, NEW body \in Signed \cup Altered \cup {NoBody}
  PROVE  Genuine(body)
<1>1. \A t \in Signed : t = Token(t.payload)
  BY DEF Signed, TypeOK, Token
<1>2. ASSUME NEW t \in Signed, NEW p,
             HeaderOK([t EXCEPT !.payload = p]), SignOK([t EXCEPT !.payload = p])
      PROVE  [t EXCEPT !.payload = p] = t
  BY <1>1, <1>2 DEF SignOK, HeaderOK, Token, Hmac
<1>3. ASSUME NEW t \in Signed
      PROVE  ~HeaderOK([t EXCEPT !.header = "other"])
  BY <1>1 DEF HeaderOK, Token
<1> QED  BY <1>2, <1>3 DEF Genuine, Altered

\* A genuine body that names a user was issued by this service.
LEMMA GenuineIsIssued ==
  ASSUME Genuine(ask.arg), ask.arg # NoBody, HeaderOK(ask.arg), SignOK(ask.arg),
         HasUsername(ask.arg.payload)
  PROVE  ask.arg \in issued
<1>1. \A p \in Foreign : ~HasUsername(Token(p).payload)
  BY TokenAssumption DEF HasUsername, Token
<1> QED  BY <1>1 DEF Genuine, Signed

\* The first document of a name is a document, not deleted, and the first of
\* its name.
LEMMA FoundIsVouched ==
  ASSUME TypeOK, StoreOK, NEW name, Named(usercol, name) # {}
  PROVE  LET doc == FirstNamed(usercol, name) IN
           /\ doc \in Docs /\ doc.username = name
           /\ doc.oid \notin removed /\ Vouched(doc)
<1>1. PICK i \in Named(usercol, name) :
        /\ \A j \in Named(usercol, name) : i <= j
        /\ FirstNamed(usercol, name) = usercol[i]
  BY FirstNamedAt DEF TypeOK
<1>2. i \in DOMAIN usercol /\ usercol[i].username = name
  BY DEF Named
<1>3. usercol[i] \in Docs
  BY <1>2, ElementOfSeq, LenProperties DEF TypeOK
<1>4. FirstOfName(usercol[i], usercol)
  BY <1>1, <1>2 DEF FirstOfName, StoreOK, Keyed
<1> QED  BY <1>1, <1>2, <1>3, <1>4 DEF StoreOK, Vouched

LEMMA IInvInit == Init => IInv
<1> SUFFICES ASSUME Init PROVE IInv
  OBVIOUS
<1>1. usercol \in Seq(Docs) /\ DOMAIN usercol = {}
  BY EmptySeq DEF Init
<1> QED
  BY <1>1 DEF Init, IInv, TypeOK, StoreOK, Keyed, IssuedOK, KindOK, Checked, Taken,
     TokenPcs, ValidatePcs, NoRequest, Answer, Accepting, IssuedToExisting

-----------------------------------------------------------------------------
\* A step of a handler preserves the invariant.
LEMMA ServeKeepsIInv ==
  ASSUME IInv, Serve
  PROVE  IInv'
<1> USE DEF IInv, TypeOK, KindOK, Checked, Taken, TokenPcs, ValidatePcs, adminVars,
            Answer, Accepting, IssuedToExisting
<1>1. UNCHANGED adminVars
  BY DEF Serve, OpenToken, OpenValidate, LooksUpName, FindsAsked, ConstructsToken,
     ChecksBody, ChecksHeader, ChecksSign, ChecksPayload, FindsOwner, Compares, Replies
<1>2. StoreOK' /\ \A doc : Vouched(doc) => Vouched(doc)'
  BY <1>1 DEF StoreOK, Vouched
<1>3. issued' = issued => IssuedOK' /\ \A body : Genuine(body) => Genuine(body)'
  BY <1>2 DEF IssuedOK, Genuine, Signed
<1>4. CASE OpenToken
  BY <1>4, <1>1, <1>2, <1>3 DEF OpenToken
<1>5. CASE OpenValidate
  <2>1. PICK body \in Signed \cup Altered \cup {NoBody} :
           ask' = [kind |-> "validate", arg |-> body]
    BY <1>5 DEF OpenValidate
  <2>2. Genuine(body)
    BY <2>1, OnlySignedIsGenuine
  <2> QED  BY <2>1, <2>2, <1>5, <1>1, <1>2, <1>3 DEF OpenValidate
<1>6. CASE LooksUpName
  BY <1>6, <1>1, <1>2, <1>3 DEF LooksUpName, Responds
<1>7. CASE FindsAsked
  <2>1. CASE Responds("BAD_REQUEST") /\ UNCHANGED dbRes
    BY <2>1, <1>7, <1>1, <1>2, <1>3 DEF FindsAsked, Responds
  <2>2. CASE /\ Named(usercol, ask.arg) # {} /\ dbRes' = FirstNamed(usercol, ask.arg)
             /\ pc' = "construct" /\ UNCHANGED answer
    BY <2>2, <1>7, <1>1, <1>2, <1>3, FoundIsVouched DEF FindsAsked
  <2> QED  BY <1>7, <2>1, <2>2 DEF FindsAsked
<1>8. CASE ConstructsToken
  <2>1. dbRes \in Docs /\ Vouched(dbRes) /\ dbRes.oid \notin removedAtOpen
    BY <1>8 DEF ConstructsToken
  <2>2. /\ Token(dbRes).payload = dbRes /\ Token(dbRes) = Token(Token(dbRes).payload)
        /\ Issue(dbRes).token.payload = dbRes /\ Issue(dbRes).status = "OK"
    BY DEF Token, Issue
  <2>3. IssuedOK'
    BY <2>1, <2>2, <1>8, <1>2 DEF ConstructsToken, IssuedOK
  <2> QED  BY <2>1, <2>2, <2>3, <1>8, <1>1, <1>2 DEF ConstructsToken
<1>9. CASE ChecksBody
  BY <1>9, <1>1, <1>2, <1>3 DEF ChecksBody, Responds
<1>10. CASE ChecksHeader
  BY <1>10, <1>1, <1>2, <1>3 DEF ChecksHeader, Responds
<1>11. CASE ChecksSign
  BY <1>11, <1>1, <1>2, <1>3 DEF ChecksSign, Responds
<1>12. CASE ChecksPayload
  BY <1>12, <1>1, <1>2, <1>3 DEF ChecksPayload, Responds
<1>13. CASE FindsOwner
  <2>1. CASE Responds("FORBIDDEN") /\ UNCHANGED dbRes
    BY <2>1, <1>13, <1>1, <1>2, <1>3 DEF FindsOwner, Responds
  <2>2. CASE /\ Named(usercol, ask.arg.payload.username) # {}
             /\ dbRes' = FirstNamed(usercol, ask.arg.payload.username)
             /\ pc' = "compare" /\ UNCHANGED answer
    BY <2>2, <1>13, <1>1, <1>2, <1>3, FoundIsVouched DEF FindsOwner
  <2> QED  BY <1>13, <2>1, <2>2 DEF FindsOwner
<1>14. CASE Compares
  <2>1. ask.arg \in issued
    BY <1>14, GenuineIsIssued DEF Compares
  <2> QED  BY <2>1, <1>14, <1>1, <1>2, <1>3 DEF Compares, Responds
<1>15. CASE Replies
  BY <1>15, <1>1, <1>2, <1>3 DEF Replies, NoRequest
<1> QED
  BY <1>4, <1>5, <1>6, <1>7, <1>8, <1>9, <1>10, <1>11, <1>12, <1>13, <1>14, <1>15
  DEF Serve

-----------------------------------------------------------------------------
\* What an administrator's step must leave as it is.
LEMMA AdminKeepsIInv ==
  ASSUME IInv, UNCHANGED <<reqVars, issued>>,
         usercol' \in Seq(Docs), StoreOK',
         usedOids \subseteq usedOids', usedOids' \subseteq Oids,
         removed \subseteq removed', removed' \subseteq usedOids',
         \A doc : Vouched(doc) => FirstOfName(doc, usercol')
  PROVE  IInv'
<1>1. \A doc : Vouched(doc) => Vouched(doc)'
  BY DEF Vouched
<1>2. \A body : Genuine(body) => Genuine(body)'
  BY DEF Genuine, Signed
<1>3. TypeOK'
  BY DEF IInv, TypeOK, reqVars
<1>4. IssuedOK'
  BY <1>1 DEF IInv, IssuedOK
<1>5. KindOK' /\ Checked'
  BY <1>2 DEF IInv, KindOK, Checked, reqVars
<1>6. Taken'
  BY <1>1 DEF IInv, Taken, Accepting, IssuedToExisting, reqVars
<1> QED  BY <1>3, <1>4, <1>5, <1>6 DEF IInv

LEMMA AddsUserKeepsIInv ==
  ASSUME IInv, AddsUser
  PROVE  IInv'
<1>1. PICK oid \in Oids \ usedOids, name \in Names :
        /\ usercol' = Append(usercol, NewUser(oid, name))
        /\ usedOids' = usedOids \cup {oid}
  BY DEF AddsUser
<1>. DEFINE doc == NewUser(oid, name)
<1>2. usercol \in Seq(Docs) /\ Keyed(usercol)
  BY DEF IInv, TypeOK, StoreOK
<1>3. doc \in Docs /\ doc.oid = oid
  BY DEF NewUser, Docs, UserDocs
<1>4. ~HasOid(usercol, doc.oid)
  BY <1>3 DEF IInv, StoreOK, HasOid, PositionsOf
<1>. HIDE DEF doc
<1>5. usercol' \in Seq(Docs)
  BY <1>1, <1>2, <1>3, AppendProperties DEF doc
<1>6. /\ Keyed(usercol')
      /\ \A i \in DOMAIN usercol' :
           \/ usercol'[i] = doc
           \/ i \in DOMAIN usercol /\ usercol'[i] = usercol[i]
  BY <1>1, <1>2, <1>3, <1>4, AppendKeyed DEF doc
<1>7. removed' = removed /\ removed \subseteq usedOids /\ usedOids \subseteq Oids
  BY DEF AddsUser, IInv, TypeOK
<1>8. StoreOK'
  BY <1>1, <1>3, <1>6, <1>7 DEF IInv, StoreOK
<1>9. \A d : Vouched(d) => FirstOfName(d, usercol')
  BY <1>1, <1>2, <1>3, AppendFirst DEF Vouched, doc
<1> QED  BY <1>1, <1>5, <1>7, <1>8, <1>9, AdminKeepsIInv DEF AddsUser

LEMMA DeletesUserKeepsIInv ==
  ASSUME IInv, DeletesUser
  PROVE  IInv'
<1>1. PICK i \in DOMAIN usercol :
        /\ usercol' = DeleteOne(usercol, usercol[i].oid)
        /\ removed' = removed \cup {usercol[i].oid}
  BY DEF DeletesUser
<1>. DEFINE oid == usercol[i].oid
<1>2. usercol \in Seq(Docs) /\ Keyed(usercol) /\ oid \in usedOids
  BY DEF IInv, TypeOK, StoreOK
<1>. HIDE DEF oid
<1>3. HasOid(usercol, oid)
  BY DEF HasOid, PositionsOf, oid
<1>4. usercol' \in Seq(Docs)
  BY <1>1, <1>2, DeleteOneType DEF oid
<1>5. Thins(usercol', usercol) /\ ~HasOid(usercol', oid)
  BY <1>1, <1>2, <1>3, DeleteOneThins DEF oid
<1>6. /\ Keyed(usercol')
      /\ \A j \in DOMAIN usercol' : \E k \in DOMAIN usercol : usercol'[j].oid = usercol[k].oid
  BY <1>2, <1>4, <1>5, ThinsKeys
<1>7. usedOids' = usedOids /\ removed \subseteq usedOids /\ usedOids \subseteq Oids
  BY DEF DeletesUser, IInv, TypeOK
<1>8. \A j \in DOMAIN usercol' : usercol'[j].oid # oid
  BY <1>5 DEF HasOid, PositionsOf
<1>9. StoreOK'
  BY <1>1, <1>6, <1>7, <1>8 DEF IInv, StoreOK, oid
<1>10. \A d : Vouched(d) => FirstOfName(d, usercol')
  BY <1>2, <1>4, <1>5, ThinsFirst DEF Vouched
<1>11. removed \subseteq removed' /\ removed' \subseteq usedOids'
  BY <1>1, <1>2, <1>7 DEF oid
<1> QED  BY <1>4, <1>7, <1>9, <1>10, <1>11, AdminKeepsIInv DEF DeletesUser

\* An update of usercol, of either kind.
LEMMA UpdateThins ==
  ASSUME IInv, UpdatesUser
  PROVE  usercol' \in Seq(Docs) /\ Thins(usercol', usercol)
<1>1. usercol \in Seq(UserDocs(Oids, Names, ServiceNames))
  BY DEF IInv, TypeOK, Docs
<1>2. PICK oid \in {usercol[i].oid : i \in DOMAIN usercol}, service \in ServiceNames :
        \/ usercol' = AddToSetOne(usercol, oid, service)
        \/ usercol' = PullOne(usercol, oid, service)
  BY DEF UpdatesUser
<1>3. CASE usercol' = AddToSetOne(usercol, oid, service)
  BY <1>1, <1>3, AddToSetOneType, AddToSetOneThins, NoServicesAssumption DEF Docs
<1>4. CASE usercol' = PullOne(usercol, oid, service)
  BY <1>1, <1>4, PullOneType, PullOneThins, NoServicesAssumption DEF Docs
<1> QED  BY <1>2, <1>3, <1>4

LEMMA UpdatesUserKeepsIInv ==
  ASSUME IInv, UpdatesUser
  PROVE  IInv'
<1>1. usercol' \in Seq(Docs) /\ Thins(usercol', usercol)
  BY UpdateThins
<1>2. usercol \in Seq(Docs) /\ Keyed(usercol) /\ removed \subseteq usedOids
      /\ usedOids \subseteq Oids
  BY DEF IInv, TypeOK, StoreOK
<1>3. /\ Keyed(usercol')
      /\ \A j \in DOMAIN usercol' : \E k \in DOMAIN usercol : usercol'[j].oid = usercol[k].oid
  BY <1>1, <1>2, ThinsKeys
<1>4. StoreOK'
  BY <1>3 DEF IInv, StoreOK, UpdatesUser
<1>5. \A d : Vouched(d) => FirstOfName(d, usercol')
  BY <1>1, <1>2, ThinsFirst DEF Vouched
<1> QED  BY <1>1, <1>2, <1>4, <1>5, AdminKeepsIInv DEF UpdatesUser

LEMMA IInvStep == IInv /\ [Next]_vars => IInv'
<1> SUFFICES ASSUME IInv, [Next]_vars PROVE IInv'
  OBVIOUS
<1>1. CASE Serve       BY <1>1, ServeKeepsIInv
<1>2. CASE AddsUser    BY <1>2, AddsUserKeepsIInv
<1>3. CASE DeletesUser BY <1>3, DeletesUserKeepsIInv
<1>4. CASE UpdatesUser BY <1>4, UpdatesUserKeepsIInv
<1>5. CASE UNCHANGED vars
  <2>1. StoreOK' /\ UNCHANGED <<reqVars, issued>>
    BY <1>5 DEF IInv, StoreOK, vars, adminVars
  <2> QED
    BY <2>1, <1>5, AdminKeepsIInv DEF IInv, TypeOK, vars, adminVars, Vouched
<1> QED  BY <1>1, <1>2, <1>3, <1>4, <1>5 DEF Next, Administer

\* What the handlers have checked and taken, at every point of their code.
THEOREM TokenInvariant == Spec => []IInv
<1> QED  BY IInvInit, IInvStep, PTL DEF Spec

\* Every state is well typed; every token issued is one CreateJwt builds.
THEOREM TypeAlwaysOK == Spec => []TypeOK
<1>1. IInv => TypeOK
  BY DEF IInv
<1> QED  BY <1>1, TokenInvariant, PTL

\* ValidateToken accepts a token only if AskToken has constructed it, however
\* many tokens there are and whatever parts of them are exchanged.
THEOREM AcceptedWasAlwaysIssued == Spec => []AcceptedWasIssued
<1>1. IInv => AcceptedWasIssued
  BY DEF IInv, Taken, AcceptedWasIssued
<1> QED  BY <1>1, TokenInvariant, PTL

\* No token of a user who was deleted before the request is accepted.
THEOREM DeletedIsAlwaysRefused == Spec => []DeletedIsRefused
<1>1. IInv => DeletedIsRefused
  BY DEF IInv, Taken, DeletedIsRefused
<1> QED  BY <1>1, TokenInvariant, PTL

\* No token is issued for a user who was deleted before the request.
THEOREM IssuedToExistingAlways == Spec => []IssuedToExisting
<1>1. IInv => IssuedToExisting
  BY DEF IInv, Taken
<1> QED  BY <1>1, TokenInvariant, PTL

-----------------------------------------------------------------------------
(* Which steps may make a token good or bad.                               *)

\* Adding a user does not change what is good among the tokens issued.
THEOREM AddingAlwaysKeepsTokens == Spec => AddingKeepsTokens
<1>1. ASSUME IInv, AddsUser, NEW t \in issued
      PROVE  Good(t, usercol) <=> Good(t, usercol')
  <2>1. PICK oid \in Oids \ usedOids, name \in Names :
           usercol' = Append(usercol, NewUser(oid, name))
    BY <1>1 DEF AddsUser
  <2>. DEFINE doc == NewUser(oid, name)
              owner == t.payload.username
  <2>2. doc \in Docs /\ doc.oid = oid /\ t.payload.oid \in usedOids
    BY <1>1 DEF NewUser, Docs, UserDocs, IInv, IssuedOK, Vouched
  <2>3. doc # t.payload
    BY <2>2
  <2>. HIDE DEF doc, owner
  <2>4. /\ Named(usercol, owner) # {} =>
             Named(usercol', owner) # {} /\ FirstNamed(usercol', owner) = FirstNamed(usercol, owner)
        /\ Named(usercol, owner) = {} /\ Named(usercol', owner) # {} =>
             FirstNamed(usercol', owner) = doc
    BY <1>1, <2>1, <2>2, AppendNamed DEF IInv, TypeOK, doc
  <2> QED  BY <2>3, <2>4 DEF Good, owner
<1>2. IInv /\ [Next]_vars => [AddsUser => \A t \in issued : Good(t, usercol) <=> Good(t, usercol')]_vars
  BY <1>1
<1> QED  BY <1>2, TokenInvariant, PTL DEF Spec, AddingKeepsTokens

\* A deletion or an update makes no token good that was made from a document
\* without services.
LEMMA ThinningRevivesNothing ==
  ASSUME IInv, usercol' \in Seq(Docs), Thins(usercol', usercol),
         NEW t \in issued, t.payload.services = NoServices, Good(t, usercol')
  PROVE  Good(t, usercol)
<1>1. usercol \in Seq(Docs) /\ FirstOfName(t.payload, usercol)
  BY DEF IInv, TypeOK, IssuedOK, Vouched
<1> QED  BY <1>1, ThinsFound DEF Good

\* A token made before its user had a service is never good again once it is not.
THEOREM FirstTokenNeverComesBack == Spec => FirstTokenNeverReturns
<1>1. ASSUME IInv, [Next]_vars, NEW t \in issued,
             t.payload.services = NoServices, Good(t, usercol')
      PROVE  Good(t, usercol)
  <2>1. CASE UNCHANGED usercol
    BY <2>1, <1>1
  <2>2. CASE AddsUser
    <3>1. PICK oid \in Oids \ usedOids, name \in Names :
             usercol' = Append(usercol, NewUser(oid, name))
      BY <2>2 DEF AddsUser
    <3>2. /\ NewUser(oid, name) \in Docs /\ NewUser(oid, name).oid = oid
          /\ t.payload.oid \in usedOids /\ usercol \in Seq(Docs)
      BY <1>1 DEF NewUser, Docs, UserDocs, IInv, TypeOK, IssuedOK, Vouched
    <3>3. NewUser(oid, name) # t.payload
      BY <3>2
    <3> QED  BY <1>1, <3>1, <3>2, <3>3, AppendNamed DEF Good
  <2>3. CASE DeletesUser
    <3>1. PICK i \in DOMAIN usercol : usercol' = DeleteOne(usercol, usercol[i].oid)
      BY <2>3 DEF DeletesUser
    <3>2. usercol \in Seq(Docs) /\ Keyed(usercol) /\ HasOid(usercol, usercol[i].oid)
      BY <1>1 DEF IInv, TypeOK, StoreOK, HasOid, PositionsOf
    <3>3. usercol' \in Seq(Docs) /\ Thins(usercol', usercol)
      BY <3>1, <3>2, DeleteOneType, DeleteOneThins
    <3> QED  BY <1>1, <3>3, ThinningRevivesNothing
  <2>4. CASE UpdatesUser
    BY <1>1, <2>4, UpdateThins, ThinningRevivesNothing
  <2>5. CASE Serve
    BY <2>1, <2>5 DEF Serve, OpenToken, OpenValidate, LooksUpName, FindsAsked,
       ConstructsToken, ChecksBody, ChecksHeader, ChecksSign, ChecksPayload,
       FindsOwner, Compares, Replies, adminVars
  <2> QED  BY <1>1, <2>1, <2>2, <2>3, <2>4, <2>5 DEF Next, Administer, vars, adminVars
<1>2. IInv /\ [Next]_vars =>
        [\A t \in issued : t.payload.services = NoServices /\ ~Good(t, usercol) =>
           ~Good(t, usercol')]_vars
  BY <1>1
<1> QED  BY <1>2, TokenInvariant, PTL DEF Spec, FirstTokenNeverReturns

-----------------------------------------------------------------------------
(* The handlers implement TokenAuthority.                                  *)

\* What the abstract state is at a point of the code.
Phase ==
  CASE pc = "idle" -> "idle"
    [] pc \in {"reply", "construct", "compare"} -> "decided"
    [] OTHER -> "open"

\* TokenAuthority decides with the same operators.
LEMMA AuthorityOperators ==
  /\ \A status : Authority!Answer(status) = Answer(status)
  /\ \A kind : Authority!Refusal(kind) =
       Answer(IF kind = "token" THEN "BAD_REQUEST" ELSE "FORBIDDEN")
  /\ \A name, coll : Authority!AskVerdict(name, coll) = AskVerdict(name, coll)
  /\ \A body, coll : Authority!ValidateVerdict(body, coll) = ValidateVerdict(body, coll)
  /\ Authority!NoRequest = NoRequest
<1>1. /\ \A header, payload : Authority!Hmac(header, payload) = Hmac(header, payload)
      /\ \A status : Authority!Answer(status) = Answer(status)
      /\ Authority!Strays = Strays /\ Authority!NoBody = NoBody
      /\ \A coll, name : Authority!Named(coll, name) = Named(coll, name)
  BY DEF Authority!Hmac, Hmac, Authority!Answer, Answer, Authority!Strays, Strays,
     Authority!NoBody, NoBody, Authority!Named, Named
<1>2. \A coll, name : Authority!FirstNamed(coll, name) = FirstNamed(coll, name)
  BY <1>1 DEF Authority!FirstNamed, FirstNamed
<1>3. \A payload : Authority!Issue(payload) = Issue(payload)
  BY <1>1 DEF Authority!Issue, Issue, Authority!Token, Token
<1>4. \A token, coll : Authority!Good(token, coll) = Good(token, coll)
  BY <1>1, <1>2 DEF Authority!Good, Good, Authority!HeaderOK, HeaderOK,
     Authority!SignOK, SignOK, Authority!HasUsername, HasUsername
<1>5. \A name, coll : Authority!AskVerdict(name, coll) = AskVerdict(name, coll)
  BY <1>1, <1>2, <1>3 DEF Authority!AskVerdict, AskVerdict
<1>6. \A body, coll : Authority!ValidateVerdict(body, coll) = ValidateVerdict(body, coll)
  BY <1>1, <1>4 DEF Authority!ValidateVerdict, ValidateVerdict
<1> QED
  BY <1>1, <1>5, <1>6 DEF Authority!Refusal, Authority!NoRequest, NoRequest

LEMMA ServeImplements ==
  ASSUME IInv, Serve
  PROVE  [Authority!Next]_(Authority!vars)
<1> USE DEF Authority!Next, Authority!vars, Phase, DecisionAt
<1>1. UNCHANGED usercol
  BY DEF Serve, OpenToken, OpenValidate, LooksUpName, FindsAsked, ConstructsToken,
     ChecksBody, ChecksHeader, ChecksSign, ChecksPayload, FindsOwner, Compares,
     Replies, adminVars
<1>2. CASE OpenToken
  BY <1>1, <1>2 DEF OpenToken, Authority!Open
<1>3. CASE OpenValidate
  BY <1>1, <1>3 DEF OpenValidate, Authority!Open
<1>4. CASE LooksUpName
  BY <1>1, <1>4, AuthorityOperators DEF LooksUpName, Responds, Authority!Decide, AskVerdict, IInv, KindOK, TokenPcs
<1>5. CASE FindsAsked
  BY <1>1, <1>5, AuthorityOperators, NoNameAssumption
  DEF FindsAsked, Responds, Authority!Decide, AskVerdict,
      IInv, KindOK, TokenPcs
<1>6. CASE ConstructsToken
  BY <1>1, <1>6 DEF ConstructsToken
<1>7. CASE ChecksBody
  BY <1>1, <1>7, AuthorityOperators DEF ChecksBody, Responds, Authority!Decide, ValidateVerdict, IInv, KindOK, ValidatePcs
<1>8. CASE ChecksHeader
  BY <1>1, <1>8, AuthorityOperators
  DEF ChecksHeader, Responds, Authority!Decide, ValidateVerdict, Good, IInv, KindOK, ValidatePcs, Checked
<1>9. CASE ChecksSign
  BY <1>1, <1>9, AuthorityOperators
  DEF ChecksSign, Responds, Authority!Decide, ValidateVerdict, Good, IInv, KindOK, ValidatePcs, Checked
<1>10. CASE ChecksPayload
  BY <1>1, <1>10, AuthorityOperators
  DEF ChecksPayload, Responds, Authority!Decide, ValidateVerdict, Good, IsJson,
      HasUsername, Strays, IInv, KindOK, ValidatePcs, Checked
<1>11. CASE FindsOwner
  BY <1>1, <1>11, AuthorityOperators
  DEF FindsOwner, Responds, Authority!Decide, ValidateVerdict, Good,
      IInv, KindOK, ValidatePcs, Checked
<1>12. CASE Compares
  BY <1>1, <1>12 DEF Compares, Responds
<1>13. CASE Replies
  BY <1>1, <1>13, AuthorityOperators DEF Replies, Authority!Reply
<1> QED
  BY <1>2, <1>3, <1>4, <1>5, <1>6, <1>7, <1>8, <1>9, <1>10, <1>11, <1>12, <1>13
  DEF Serve

\* Every answer is the one owed at some instant of its request.
THEOREM AlwaysDecidesAtOneInstant == Spec => DecidesAtOneInstant
<1>1. Init => Authority!Init
  BY AuthorityOperators DEF Init, Authority!Init, DecisionAt
<1>2. IInv /\ [Next]_vars => [Authority!Next]_(Authority!vars)
  <2> SUFFICES ASSUME IInv, [Next]_vars PROVE [Authority!Next]_(Authority!vars)
    OBVIOUS
  <2>1. CASE Serve
    BY <2>1, ServeImplements
  <2>2. CASE Administer
    BY <2>2 DEF Administer, AddsUser, DeletesUser, UpdatesUser, reqVars,
       Authority!Next, Authority!Administer, DecisionAt
  <2>3. CASE UNCHANGED vars
    BY <2>3 DEF vars, reqVars, adminVars, Authority!vars, DecisionAt
  <2> QED  BY <2>1, <2>2, <2>3 DEF Next
<1> QED  BY <1>1, <1>2, TokenInvariant, PTL DEF Spec, DecidesAtOneInstant, Authority!Spec
=============================================================================
