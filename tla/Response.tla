------------------------------ MODULE Response ------------------------------
(***************************************************************************)
(* The handlers' answers, from what is left in ResponseParam_s to what     *)
(* SSL_write sends: ConstructStrResp of response.c prints the answer piece *)
(* by piece, strncpy copies it into sendBuf, strlen finds its end there.   *)
(***************************************************************************)
EXTENDS JwtSign

CONSTANT Documents   \* sizes of the documents that become payloads

ASSUME DocumentsAssumption == Documents \subseteq Nat

VARIABLES
  rs,        \* status, contentType, body
  sendBuf,   \* the text copied, how many characters of it, and a terminator or not
  written    \* how many characters SSL_write is given
responseVars == <<rs, sendBuf, written>>

OK == 200
BAD_REQUEST == 400
FORBIDDEN == 401
INTERNAL_SERVER_ERROR == 500
MAX_RESPONSE_SIZE == 4096

\* A text is what it was printed from, piece by piece, and its length.
Piece(piece, n) == [pieces |-> <<piece>>, chars |-> n]
t ++ u == [pieces |-> t.pieces \o u.pieces, chars |-> t.chars + u.chars]
Nothing == [pieces |-> <<>>, chars |-> 0]

Printed ==
  {"CRLF", "SP", "status", "OK", "BadRequest", "Forbidden", "InternalServerError",
   "ContentType", "plain/text", "token"}

ASSUME NullIsNoText == NULL \notin [pieces : Seq(Printed), chars : Nat]

LineEnd == Piece("CRLF", 2)
Space == Piece("SP", 1)

\* What ConstructJwt returns for a document of n characters: the header (29),
\* the document and the signature (32) in base64, with two dots.
EncodedLen(n) == 4 * ((n + 2) \div 3)
ConstructJwt(n) == Piece("token", EncodedLen(29) + 1 + EncodedLen(n) + 1 + EncodedLen(32))

EmptyResp == [status |-> 0, contentType |-> NULL, body |-> NULL]
EmptyBuf == [pieces |-> <<>>, chars |-> 0, terminated |-> TRUE]

GetStatusMessage(status) ==
  CASE status = OK -> Piece("OK", 2)
    [] status = BAD_REQUEST -> Piece("BadRequest", 11)
    [] status = FORBIDDEN -> Piece("Forbidden", 9)
    [] status = INTERNAL_SERVER_ERROR -> Piece("InternalServerError", 21)

\* asprintf(&r, "%d ", status) replaces the copy of "HTTP/1.0 " in r; only the
\* calls behind it print r again in front.
StatusLine(status) == Piece("status", 3) ++ Space ++ Space ++ GetStatusMessage(status) ++ LineEnd

ContentType(type) ==
  IF type = NULL THEN Nothing ELSE Piece("ContentType", 14) ++ type ++ LineEnd

\* Variant: no empty line unless there is a body.
NoEmptyLine(resp) ==
  StatusLine(resp.status) ++ ContentType(resp.contentType) ++
  (IF resp.body = NULL THEN Nothing ELSE LineEnd ++ resp.body)

\* The handlers set a status on every path: the branch for 0 is not reached.
ConstructStrResp(resp) ==
  StatusLine(resp.status) ++ ContentType(resp.contentType) ++ LineEnd ++
  (IF resp.body = NULL THEN Nothing ELSE resp.body)

-----------------------------------------------------------------------------
Responds(status) ==
  /\ rs' = [EmptyResp EXCEPT !.status = status]
  /\ pc' = "construct"

UnchangedByHandlers == UNCHANGED <<sent, text, ptr, rq, handler, fate, sendBuf, written>>

\* RunMethod: "no registered method? or t is UNSUPPORTED? or p is unknown?"
NoHandler ==
  /\ pc = "run" /\ handler = NULL
  /\ Responds(BAD_REQUEST)
  /\ UnchangedByHandlers /\ UNCHANGED signVars

\* AskToken: without a name or a document BAD_REQUEST, else its token; the
\* query's result is any.
AskToken ==
  /\ pc = "run" /\ handler = "AskToken"
  /\ \/ Responds(BAD_REQUEST)
     \/ /\ LookUp(rq.query, <<"name">>) # NULL
        /\ \E n \in Documents :
             rs' = [status |-> OK, contentType |-> Piece("plain/text", 10),
                    body |-> ConstructJwt(n)]
        /\ pc' = "construct"
  /\ UnchangedByHandlers /\ UNCHANGED signVars

\* ValidateToken up to CheckJwtSign; the header of the token is any.
ValidateToken ==
  /\ pc = "run" /\ handler = "ValidateToken"
  /\ \/ rq.body = NULL /\ Responds(BAD_REQUEST)
     \/ rq.body # NULL /\ Responds(FORBIDDEN)
     \/ rq.body # NULL /\ pc' = "sign" /\ UNCHANGED rs
  /\ UnchangedByHandlers /\ UNCHANGED signVars

\* ValidateToken behind CheckJwtSign; what payload and query say is any.
ValidatesPayload ==
  /\ pc = "signed"
  /\ \/ Responds(FORBIDDEN)
     \/ verdict /\ Responds(OK)
  /\ UnchangedByHandlers /\ UNCHANGED signVars

\* What strncpy has room for: only a token, the last piece, can be too long.
Cut(r) ==
  IF r.chars <= MAX_RESPONSE_SIZE THEN r.pieces ELSE Append(Front(r.pieces), "cut")

\* Variant: sizeof of the pointer `response' bounds the copy.
CopiesPointerSize ==
  /\ pc = "construct" /\ pc' = "release"
  /\ LET r == ConstructStrResp(rs) IN
       sendBuf' = [pieces |-> Cut(r), chars |-> Min({r.chars, 8}), terminated |-> TRUE]
  /\ UNCHANGED <<sent, text, ptr, rq, handler, fate, signVars, rs, written>>

\* strncpy: what is left of the buffer becomes zeros, if anything is left.
Copies ==
  /\ pc = "construct" /\ pc' = "release"
  /\ LET r == ConstructStrResp(rs) IN
       sendBuf' = [pieces |-> Cut(r), chars |-> Min({r.chars, MAX_RESPONSE_SIZE}),
                   terminated |-> r.chars < MAX_RESPONSE_SIZE]
  /\ UNCHANGED <<sent, text, ptr, rq, handler, fate, signVars, rs, written>>

\* Without a terminator strlen reads on behind sendBuf; one character more
\* stands for any number.
Writes ==
  /\ pc = "write" /\ pc' = "over"
  /\ written' \in {sendBuf.chars} \cup
                  (IF sendBuf.terminated THEN {} ELSE {sendBuf.chars + 1})
  /\ UNCHANGED <<sent, text, ptr, rq, handler, fate, signVars, rs, sendBuf>>
=============================================================================
