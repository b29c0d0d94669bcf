------------------------------- MODULE Tokens -------------------------------
(***************************************************************************)
(* Requests, tokens and answers of the REST interface.  A token carries a  *)
(* whole document of usercol as its payload.  HmacSha256 is a free         *)
(* constructor: equal signatures have equal data, and only what was signed *)
(* with jwtKey has a signature that checks.                                *)
(***************************************************************************)
EXTENDS UserStore

CONSTANTS
  Oids, Names, ServiceNames,
  NoName,       \* the "name" parameter of a query that has none

  CursorFails   \* whether a query may fail, which reads as "no document"

ASSUME NoNameAssumption == NoName \notin Names
ASSUME NoServicesAssumption == NoServices \notin Seq(ServiceNames)
ASSUME CursorAssumption == CursorFails \in BOOLEAN

Docs == UserDocs(Oids, Names, ServiceNames)

\* Payloads that are not a document: not JSON, or without a string "username".
Strays == {[stray |-> "notJson"], [stray |-> "noUsername"]}

\* The header CreateJwt writes, and one that names another algorithm or type.
Headers == {"HS256.JWT", "other"}

Hmac(header, payload) == [header |-> header, payload |-> payload]

\* ConstructJwt.
Token(payload) ==
  [header |-> "HS256.JWT", payload |-> payload, sign |-> Hmac("HS256.JWT", payload)]

\* CheckJwtHeader and CheckJwtSign.
HeaderOK(token) == token.header = "HS256.JWT"
SignOK(token) == token.sign = Hmac(token.header, token.payload)

\* The "username" of a payload that is a document; every other text fails to
\* parse or lacks the field.
IsJson(payload) == payload # [stray |-> "notJson"]
HasUsername(payload) == payload \notin Strays

\* A request without a body.
NoBody == [none |-> "body"]

Answer(status) == [status |-> status]
Issue(payload) == [status |-> "OK", token |-> Token(payload)]

\* What the service decides about a request on the documents of coll: the
\* owner of a token is the first document with the name, and the token is
\* good exactly while it equals that document.
AskVerdict(name, coll) ==
  IF name # NoName /\ Named(coll, name) # {}
    THEN Issue(FirstNamed(coll, name))
    ELSE Answer("BAD_REQUEST")

Good(token, coll) ==
  /\ HeaderOK(token) /\ SignOK(token) /\ HasUsername(token.payload)
  /\ Named(coll, token.payload.username) # {}
  /\ FirstNamed(coll, token.payload.username) = token.payload

ValidateVerdict(body, coll) ==
  IF body = NoBody THEN Answer("BAD_REQUEST")
  ELSE IF Good(body, coll) THEN Answer("OK")
  ELSE Answer("FORBIDDEN")
=============================================================================
