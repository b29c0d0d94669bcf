-------------------------- MODULE RunMethodProofs --------------------------
(***************************************************************************)
(* Theorems about RunMethod: what a handler is given and what a client is  *)
(* answered, for requests of any length and any words, also some that are  *)
(* not well-formed, cut anywhere.                                          *)
(***************************************************************************)
EXTENDS RunMethod, RequestParserProofs

-----------------------------------------------------------------------------
(* Answers.                                                                *)

\* What the handlers leave in ResponseParam_s.
Answerable(resp) ==
  \/ \E status \in {OK, BAD_REQUEST, FORBIDDEN} :
       resp = [status |-> status, contentType |-> NULL, body |-> NULL]
  \/ \E n \in Documents :
       resp = [status |-> OK, contentType |-> Piece("plain/text", 10), body |-> ConstructJwt(n)]

\* A piece printed behind a text.
LEMMA Prints ==
  \A n \in Nat : \A t : \A x \in Printed : Long(t, n, Printed) =>
    /\ Long(Then(t, x), n + 1, Printed) /\ Then(t, x)[n + 1] = x
    /\ \A p \in 1 .. n : Then(t, x)[p] = t[p]
<1>. SUFFICES ASSUME NEW n \in Nat, NEW t, NEW x \in Printed, Long(t, n, Printed)
              PROVE  /\ Long(Then(t, x), n + 1, Printed) /\ Then(t, x)[n + 1] = x
                     /\ \A p \in 1 .. n : Then(t, x)[p] = t[p]
  OBVIOUS
<1>1. Long(Then(t, x), n + 1, Printed) /\ Then(t, x)[n + 1] = x /\ Holds(Then(t, x), 0, t, n)
  BY Appends
<1>. QED BY <1>1 DEF Holds

LEMMA StatusLineText ==
  ASSUME NEW status \in {OK, BAD_REQUEST, FORBIDDEN}, NEW h, h = StatusLine(status)
  PROVE  /\ Long(h.pieces, 5, Printed)
         /\ \A p \in 1 .. 4 : h.pieces[p] # "CRLF"
         /\ h.pieces[5] = "CRLF"
         /\ h.chars \in 9 .. 18 /\ (status = OK => h.chars = 9)
<1>. DEFINE m == GetStatusMessage(status)
            word == IF status = OK THEN "OK"
                    ELSE IF status = BAD_REQUEST THEN "BadRequest" ELSE "Forbidden"
<1>1. /\ m.pieces = <<word>> /\ word \in Printed /\ word # "CRLF"
      /\ m.chars \in 2 .. 11 /\ (status = OK => m.chars = 2)
  <2>1. CASE status = OK
    <3>1. m = Piece("OK", 2)
      BY <2>1 DEF GetStatusMessage, OK, BAD_REQUEST, FORBIDDEN, INTERNAL_SERVER_ERROR
    <3>. QED BY <2>1, <3>1 DEF Piece, Printed
  <2>2. CASE status = BAD_REQUEST
    <3>1. m = Piece("BadRequest", 11) /\ status # OK
      BY <2>2 DEF GetStatusMessage, OK, BAD_REQUEST, FORBIDDEN, INTERNAL_SERVER_ERROR
    <3>. QED BY <2>2, <3>1 DEF Piece, Printed
  <2>3. CASE status = FORBIDDEN
    <3>1. m = Piece("Forbidden", 9) /\ status # OK /\ status # BAD_REQUEST
      BY <2>3 DEF GetStatusMessage, OK, BAD_REQUEST, FORBIDDEN, INTERNAL_SERVER_ERROR
    <3>. QED BY <2>3, <3>1 DEF Piece, Printed
  <2>. QED BY <2>1, <2>2, <2>3
<1>. HIDE DEF m, word
<1>2. /\ h.pieces = Then(Then(Then(Then(<<"status">>, "SP"), "SP"), word), "CRLF")
      /\ h.chars = 3 + 1 + 1 + m.chars + 2
  BY <1>1 DEF StatusLine, ++, Piece, Space, LineEnd, m, Then, Join
<1>3. "status" \in Printed /\ "SP" \in Printed /\ "CRLF" \in Printed
  BY DEF Printed
<1>. DEFINE a == <<"status">>   b == Then(a, "SP")   c == Then(b, "SP")
            d == Then(c, word)   e == Then(d, "CRLF")
<1>4. Long(a, 1, Printed) /\ a[1] = "status"
  BY <1>3, Singles
<1>. HIDE DEF a
<1>5. Long(b, 2, Printed) /\ b[1] = "status" /\ b[2] = "SP"
  BY <1>3, <1>4, Prints
<1>. HIDE DEF b
<1>6. Long(c, 3, Printed) /\ c[1] = "status" /\ c[2] = "SP" /\ c[3] = "SP"
  BY <1>3, <1>5, Prints
<1>. HIDE DEF c
<1>7. /\ Long(d, 4, Printed)
      /\ d[1] = "status" /\ d[2] = "SP" /\ d[3] = "SP" /\ d[4] = word
  BY <1>1, <1>6, Prints
<1>. HIDE DEF d
<1>8. /\ Long(e, 5, Printed)
      /\ e[1] = "status" /\ e[2] = "SP" /\ e[3] = "SP" /\ e[4] = word /\ e[5] = "CRLF"
  BY <1>3, <1>7, Prints
<1>9. h.pieces = e
  BY <1>2 DEF a, b, c, d
<1>. HIDE DEF e
<1>10. \A p \in 1 .. 4 : p = 1 \/ p = 2 \/ p = 3 \/ p = 4
  OBVIOUS
<1>11. \A p \in 1 .. 4 : e[p] # "CRLF"
  BY <1>1, <1>8, <1>10
<1>12. h.chars \in 9 .. 18 /\ (status = OK => h.chars = 9)
  BY <1>1, <1>2
<1>. QED BY <1>8, <1>9, <1>11, <1>12

\* An answer without a body ends with the empty line that ends its headers.
LEMMA ShortAnswer ==
  ASSUME NEW status \in {OK, BAD_REQUEST, FORBIDDEN},
         NEW resp, resp = [status |-> status, contentType |-> NULL, body |-> NULL]
  PROVE  LET r == ConstructStrResp(resp) IN
         /\ HeadersEndAt(r.pieces, 6) /\ Len(r.pieces) = 6
         /\ SubSeq(r.pieces, 7, Len(r.pieces)) = <<>>
         /\ r.chars \in 11 .. 20
<1>. DEFINE h == StatusLine(status)   r == ConstructStrResp(resp)
            q == Then(h.pieces \o <<>>, "CRLF") \o <<>>
<1>1. r.pieces = q /\ r.chars = ((h.chars + 0) + 2) + 0
  BY DEF ConstructStrResp, ContentType, ++, Nothing, LineEnd, Piece, Then, Join
<1>2. /\ Long(h.pieces, 5, Printed)
      /\ \A p \in 1 .. 4 : h.pieces[p] # "CRLF"
      /\ h.pieces[5] = "CRLF"
      /\ h.chars \in 9 .. 18
  BY StatusLineText
<1>. HIDE DEF h, r
<1>3. h.pieces \o <<>> = h.pieces
  BY <1>2, ConcatEmptySeq DEF Long
<1>4. "CRLF" \in Printed
  BY DEF Printed
<1>5. /\ Long(Then(h.pieces, "CRLF"), 6, Printed)
      /\ Then(h.pieces, "CRLF")[6] = "CRLF"
      /\ \A p \in 1 .. 5 : Then(h.pieces, "CRLF")[p] = h.pieces[p]
  BY <1>2, <1>4, Prints
<1>6. q = Then(h.pieces, "CRLF")
  BY <1>3, <1>5, ConcatEmptySeq DEF Long
<1>. HIDE DEF q
<1>7. Long(q, 6, Printed) /\ q[6] = "CRLF" /\ \A p \in 1 .. 5 : q[p] = h.pieces[p]
  BY <1>5, <1>6
<1>8. HeadersEndAt(q, 6)
  <2>1. \A p \in 2 .. 5 : p - 1 \in 1 .. 4 /\ p - 1 \in 1 .. 5
    OBVIOUS
  <2>2. \A p \in 2 .. 5 : q[p - 1] # "CRLF"
    BY <1>2, <1>7, <2>1
  <2>3. q[5] = "CRLF"
    BY <1>2, <1>7
  <2>. QED BY <1>7, <2>2, <2>3 DEF HeadersEndAt
<1>9. SubSeq(q, 7, 6) = <<>>
  BY SubSeqEmpty
<1>10. Len(q) = 6
  BY <1>7 DEF Long
<1>11. r.chars \in 11 .. 20
  BY <1>1, <1>2
<1>. QED BY <1>1, <1>8, <1>9, <1>10, <1>11 DEF r

\* An answer with a token has nothing else behind the empty line.
LEMMA TokenAnswer ==
  ASSUME NEW n \in Documents,
         NEW resp, resp = [status |-> OK, contentType |-> Piece("plain/text", 10),
                           body |-> ConstructJwt(n)]
  PROVE  LET r == ConstructStrResp(resp) IN
         /\ HeadersEndAt(r.pieces, 9) /\ Long(r.pieces, 10, Printed)
         /\ SubSeq(r.pieces, 10, Len(r.pieces)) = ConstructJwt(n).pieces
         /\ r.chars = 37 + ConstructJwt(n).chars
         /\ ConstructJwt(n).chars \in Nat /\ ConstructJwt(n) # NULL
<1>. DEFINE h == StatusLine(OK)   r == ConstructStrResp(resp)   jwt == ConstructJwt(n)
            ct == Then(Then(<<"ContentType">>, "plain/text"), "CRLF")
            q == Then(Then(Join(h.pieces, ct), "CRLF"), "token")
<1>1. {"ContentType", "plain/text", "CRLF", "token"} \subseteq Printed
  BY DEF Printed
<1>2. /\ jwt.pieces = <<"token">> /\ jwt.chars \in Nat
      /\ jwt \in [pieces : Seq(Printed), chars : Nat]
  <2>1. <<"token">> \in Seq(Printed)
    BY <1>1, Singles DEF Long
  <2>2. n \in Nat
    BY DocumentsAssumption
  <2>3. EncodedLen(n) \in Nat /\ EncodedLen(29) \in Nat /\ EncodedLen(32) \in Nat
    BY <2>2 DEF EncodedLen
  <2>. QED BY <2>1, <2>3 DEF ConstructJwt, Piece
<1>3. jwt # NULL
  BY <1>2, NullIsNoText
<1>4. Piece("plain/text", 10) # NULL
  <2>1. <<"plain/text">> \in Seq(Printed)
    BY <1>1, Singles DEF Long
  <2>2. Piece("plain/text", 10) \in [pieces : Seq(Printed), chars : Nat]
    BY <2>1 DEF Piece
  <2>. QED BY <2>2, NullIsNoText
<1>5. r.pieces = q /\ r.chars = ((h.chars + (14 + 10 + 2)) + 2) + jwt.chars
  <2>. HIDE DEF h, jwt
  <2>1. resp.body = jwt /\ resp.body # NULL /\ resp.status = OK
        /\ resp.contentType = Piece("plain/text", 10) /\ resp.contentType # NULL
    BY <1>3, <1>4 DEF jwt
  <2>2. r = ((h ++ ContentType(resp.contentType)) ++ LineEnd) ++ jwt
    BY <2>1 DEF ConstructStrResp, h
  <2>3. ContentType(resp.contentType) =
          (Piece("ContentType", 14) ++ Piece("plain/text", 10)) ++ LineEnd
    BY <2>1, <1>4 DEF ContentType
  <2>4. r.pieces = ((h.pieces \o ((<<"ContentType">> \o <<"plain/text">>) \o <<"CRLF">>))
                      \o <<"CRLF">>) \o jwt.pieces
    <3>1. \A t, u : (t ++ u).pieces = t.pieces \o u.pieces
      BY DEF ++
    <3>2. /\ Piece("ContentType", 14).pieces = <<"ContentType">> /\ LineEnd.pieces = <<"CRLF">>
          /\ Piece("plain/text", 10).pieces = <<"plain/text">>
      BY DEF Piece, LineEnd
    <3>. DEFINE k == ContentType(resp.contentType)
                l == Piece("ContentType", 14) ++ Piece("plain/text", 10)
    <3>3. l.pieces = <<"ContentType">> \o <<"plain/text">>
      BY <3>1, <3>2
    <3>. HIDE DEF l
    <3>4. k = l ++ LineEnd
      BY <2>3 DEF l
    <3>. HIDE DEF k
    <3>5. k.pieces = (<<"ContentType">> \o <<"plain/text">>) \o <<"CRLF">>
      BY <3>1, <3>2, <3>3, <3>4
    <3>6. r = ((h ++ k) ++ LineEnd) ++ jwt
      BY <2>2 DEF k
    <3>. HIDE DEF r
    <3>7. r.pieces = ((h.pieces \o k.pieces) \o LineEnd.pieces) \o jwt.pieces
      BY <3>6 DEF ++
    <3>. QED BY <3>2, <3>5, <3>7
  <2>5. r.chars = ((h.chars + (14 + 10 + 2)) + 2) + jwt.chars
    BY <2>2, <2>3 DEF ++, LineEnd, Piece
  <2>. QED BY <1>2, <2>4, <2>5 DEF Then, Join
<1>6. /\ Long(h.pieces, 5, Printed)
      /\ \A p \in 1 .. 4 : h.pieces[p] # "CRLF"
      /\ h.pieces[5] = "CRLF" /\ h.chars = 9
  BY StatusLineText
<1>. DEFINE a == <<"ContentType">>   b == Then(a, "plain/text")
<1>. HIDE DEF h, r, jwt
<1>7. Long(a, 1, Printed) /\ a[1] = "ContentType"
  BY <1>1, Singles
<1>. HIDE DEF a
<1>8. Long(b, 2, Printed) /\ b[1] = "ContentType" /\ b[2] = "plain/text"
  BY <1>1, <1>7, Prints
<1>. HIDE DEF b
<1>9. ct = Then(b, "CRLF")
  BY DEF a, b
<1>. HIDE DEF ct
<1>10. /\ Long(ct, 3, Printed)
       /\ ct[1] = "ContentType" /\ ct[2] = "plain/text" /\ ct[3] = "CRLF"
  BY <1>1, <1>8, <1>9, Prints
<1>. DEFINE u == Join(h.pieces, ct)   v == Then(u, "CRLF")
<1>11. /\ Long(u, 8, Printed)
       /\ \A p \in 1 .. 5 : u[p] = h.pieces[p]
       /\ \A p \in 1 .. 3 : u[5 + p] = ct[p]
  <2>1. Long(u, 5 + 3, Printed) /\ Holds(u, 0, h.pieces, 5) /\ Holds(u, 5, ct, 3)
    BY <1>6, <1>10, Joined
  <2>. QED BY <2>1 DEF Holds
<1>12. /\ \A p \in 1 .. 4 : u[p] # "CRLF"
       /\ u[5] = "CRLF" /\ u[6] = "ContentType" /\ u[7] = "plain/text" /\ u[8] = "CRLF"
  <2>1. u[5 + 1] = ct[1] /\ u[5 + 2] = ct[2] /\ u[5 + 3] = ct[3]
    BY <1>11
  <2>. QED BY <1>6, <1>10, <1>11, <2>1
<1>. HIDE DEF u
<1>13. /\ Long(v, 9, Printed) /\ v[9] = "CRLF"
       /\ \A p \in 1 .. 8 : v[p] = u[p]
  BY <1>1, <1>11, Prints
<1>. HIDE DEF v
<1>14. q = Then(v, "token")
  BY DEF u, v
<1>. HIDE DEF q
<1>15. /\ Long(q, 10, Printed) /\ q[10] = "token"
       /\ \A p \in 1 .. 9 : q[p] = v[p]
  BY <1>1, <1>13, <1>14, Prints
<1>16. HeadersEndAt(q, 9)
  <2>1. \A p \in 1 .. 8 : q[p] = u[p]
    BY <1>13, <1>15
  <2>2. q[8] = "CRLF" /\ q[9] = "CRLF"
    BY <1>12, <1>13, <1>15, <2>1
  <2>3. ASSUME NEW p \in 2 .. 8, q[p - 1] = "CRLF" PROVE q[p] # "CRLF"
    <3>1. p - 1 \in 1 .. 7 /\ q[p - 1] = u[p - 1]
      BY <2>1
    <3>2. p - 1 \notin 1 .. 4 /\ p - 1 # 6 /\ p - 1 # 7
      BY <1>12, <2>3, <3>1
    <3>3. p = 6
      BY <3>1, <3>2
    <3>. QED BY <1>12, <2>1, <3>3
  <2>. QED BY <2>2, <2>3 DEF HeadersEndAt
<1>17. SubSeq(q, 10, 10) = <<"token">>
  <2>1. q[10] \in Printed
    BY <1>1, <1>15
  <2>2. \A p \in 10 .. 10 : q[p] \in Printed
    BY <2>1
  <2>3. /\ SubSeq(q, 10, 10) \in Seq(Printed) /\ Len(SubSeq(q, 10, 10)) = 1
        /\ SubSeq(q, 10, 10)[1] = q[10]
    BY <2>2, SubSeqProperties
  <2>. DEFINE y == <<"token">>   z == SubSeq(q, 10, 10)
  <2>4. y \in Seq(Printed) /\ Len(y) = 1 /\ y[1] = "token"
    BY <1>1, Singles DEF Long
  <2>5. z \in Seq(Printed) /\ Len(z) = 1 /\ z[1] = "token"
    BY <1>15, <2>3
  <2>. HIDE DEF y, z
  <2>6. \A p \in 1 .. Len(z) : z[p] = y[p]
    BY <2>4, <2>5
  <2>7. z = y
    BY <2>4, <2>5, <2>6, SeqEqual
  <2>. QED BY <2>7 DEF y, z
<1>18. Long(q, 10, Printed) /\ Len(q) = 10
  BY <1>15 DEF Long
<1>19. r.chars = 37 + jwt.chars
  BY <1>2, <1>5, <1>6
<1>. QED BY <1>2, <1>3, <1>5, <1>16, <1>17, <1>18, <1>19 DEF r, jwt

\* A token that is too long is cut, and still nothing else follows the empty line.
LEMMA TokenCut ==
  ASSUME NEW q, Long(q, 10, Printed), HeadersEndAt(q, 9)
  PROVE  LET u == Append(Front(q), "cut") IN
         /\ HeadersEndAt(u, 9) /\ Len(u) = 10
         /\ SubSeq(u, 10, Len(u)) = <<"cut">>
<1>. DEFINE T == Printed \cup {"cut"}   f == Front(q)   u == Append(f, "cut")
<1>1. q \in Seq(Printed) /\ Len(q) = 10
  BY DEF Long
<1>2. f = SubSeq(q, 1, 9)
  BY <1>1 DEF Front
<1>3. Long(SubSeq(q, 1, 9), 9, Printed) /\ Holds(q, 0, SubSeq(q, 1, 9), 9)
  <2>1. 9 \in Nat /\ 9 <= Len(q)
    BY <1>1
  <2>. QED BY <1>1, <2>1, FrontPart
<1>. HIDE DEF f
<1>4. f \in Seq(Printed) /\ Len(f) = 9 /\ \A p \in 1 .. 9 : f[p] = q[p]
  <2>1. \A p \in 1 .. 9 : 0 + p = p
    OBVIOUS
  <2>. QED BY <1>2, <1>3, <2>1 DEF Long, Holds
<1>5. f \in Seq(T) /\ "cut" \in T
  <2>1. Printed \subseteq T
    OBVIOUS
  <2>. QED BY <1>4, <2>1, SeqMonotonic
<1>. HIDE DEF T
<1>6. u \in Seq(T) /\ Len(u) = 9 + 1 /\ (\A p \in 1 .. 9 : u[p] = f[p]) /\ u[9 + 1] = "cut"
  <2>1. /\ u \in Seq(T) /\ Len(u) = Len(f) + 1 /\ u[Len(f) + 1] = "cut"
        /\ \A p \in 1 .. Len(f) : u[p] = f[p]
    BY ONLY <1>5, AppendProperties
  <2>. QED BY <1>4, <2>1
<1>. HIDE DEF u
<1>7. Len(u) = 10 /\ u[10] = "cut" /\ \A p \in 1 .. 9 : u[p] = q[p]
  BY <1>4, <1>6
<1>8. HeadersEndAt(u, 9)
  <2>1. \A p \in 2 .. 8 : p \in 1 .. 9 /\ p - 1 \in 1 .. 9
    OBVIOUS
  <2>. QED BY <1>7, <2>1 DEF HeadersEndAt
<1>9. SubSeq(u, 10, 10) = <<"cut">>
  <2>1. \A p \in 10 .. 10 : u[p] \in T
    BY <1>5, <1>7
  <2>. DEFINE y == <<"cut">>   z == SubSeq(u, 10, 10)
  <2>2. z \in Seq(T) /\ Len(z) = 1 /\ z[1] = "cut"
    <3>1. /\ z \in Seq(T) /\ Len(z) = 1 /\ z[1] = u[10]
      BY <2>1, SubSeqProperties
    <3>. QED BY <1>7, <3>1
  <2>3. y \in Seq(T) /\ Len(y) = 1 /\ y[1] = "cut"
    BY <1>5, Singles DEF Long
  <2>. HIDE DEF y, z
  <2>4. \A p \in 1 .. Len(z) : z[p] = y[p]
    BY <2>2, <2>3
  <2>5. z = y
    BY <2>2, <2>3, <2>4, SeqEqual
  <2>. QED BY <2>5 DEF y, z
<1>. QED BY <1>7, <1>8, <1>9 DEF u, f

\* The token of a larger document than LargestDocument is longer than the buffer.
LEMMA NextToken ==
  ASSUME NEW n \in Documents, NEW body, body = ConstructJwt(n)
  PROVE  /\ body.chars \in Nat
         /\ Fits(body) => body.chars <= 4058
         /\ ~Fits(body) => body.chars >= 4062
<1>. DEFINE x == (n + 2) \div 3
<1>1. n \in Nat
  BY DocumentsAssumption
<1>2. x \in Nat
  BY <1>1
<1>3. EncodedLen(29) = 40 /\ EncodedLen(32) = 44 /\ EncodedLen(LargestDocument) = 3972
  BY DEF EncodedLen, LargestDocument
<1>4. body.chars = 40 + 1 + 4 * x + 1 + 44
  BY <1>3 DEF ConstructJwt, Piece, EncodedLen
<1>5. ConstructJwt(LargestDocument).chars = 4058
  BY <1>3 DEF ConstructJwt, Piece
<1>. HIDE DEF x
<1>6. Fits(body) <=> body.chars <= 4058
  BY <1>5 DEF Fits
<1>. QED BY <1>2, <1>4, <1>6

\* What strncpy leaves in sendBuf.
Copied ==
  LET r == ConstructStrResp(rs) IN
  sendBuf = [pieces |-> Cut(r), chars |-> Min({r.chars, MAX_RESPONSE_SIZE}),
             terminated |-> r.chars < MAX_RESPONSE_SIZE]

AnswerInv ==
  /\ pc \in {"construct", "release", "write"} => Answerable(rs)
  /\ pc \in {"release", "write"} => Copied
  /\ pc = "over" /\ fate = "fine" =>
       Answerable(rs) /\ Copied /\ (sendBuf.terminated => written = sendBuf.chars)

LEMMA AnswerStep ==
  ASSUME AnswerInv, [Next]_vars
  PROVE  AnswerInv'
<1>1. ASSUME Accepts \/ Reads \/ Parses, UNCHANGED <<signVars, responseVars>> PROVE AnswerInv'
  <2>1. ASSUME Accepts PROVE AnswerInv'
    BY <2>1 DEF Accepts, AnswerInv
  <2>2. ASSUME Reads PROVE AnswerInv'
    BY <2>2 DEF Reads, AnswerInv
  <2>3. ASSUME GetRequestType PROVE AnswerInv'
    BY <2>3 DEF GetRequestType, AnswerInv
  <2>4. ASSUME GetRequestPath PROVE AnswerInv'
    BY <2>4 DEF GetRequestPath, AnswerInv
  <2>5. ASSUME GetQueries PROVE AnswerInv'
    BY <2>5 DEF GetQueries, AnswerInv
  <2>6. ASSUME AddsQuery PROVE AnswerInv'
    BY <2>6 DEF AddsQuery, RunsOff, AnswerInv
  <2>7. ASSUME AddsHeader PROVE AnswerInv'
    BY <2>7 DEF AddsHeader, RunsOff, AnswerInv
  <2>8. ASSUME HeadersRunOff PROVE AnswerInv'
    BY <2>8 DEF HeadersRunOff, RunsOff, AnswerInv
  <2>9. ASSUME HeadersEnd \/ GetBody \/ LookUpHandler PROVE AnswerInv'
    BY <2>9 DEF HeadersEnd, GetBody, RunsOff, LookUpHandler, AnswerInv
  <2>. QED BY <1>1, <2>1, <2>2, <2>3, <2>4, <2>5, <2>6, <2>7, <2>8, <2>9 DEF Parses
<1>2. ASSUME NEW status \in {OK, BAD_REQUEST, FORBIDDEN}, Responds(status) PROVE AnswerInv'
  <2>1. rs' = [status |-> status, contentType |-> NULL, body |-> NULL] /\ pc' = "construct"
    BY <1>2 DEF Responds, EmptyResp
  <2>2. Answerable(rs')
    BY <2>1 DEF Answerable
  <2>. QED BY <2>1, <2>2 DEF AnswerInv
<1>3. ASSUME NoHandler PROVE AnswerInv'
  BY <1>2, <1>3 DEF NoHandler
<1>4. ASSUME AskToken PROVE AnswerInv'
  <2>1. CASE Responds(BAD_REQUEST)
    BY <1>2, <2>1
  <2>2. ASSUME NEW n \in Documents,
               rs' = [status |-> OK, contentType |-> Piece("plain/text", 10),
                      body |-> ConstructJwt(n)], pc' = "construct"
        PROVE  AnswerInv'
    <3>1. Answerable(rs')
      BY <2>2 DEF Answerable
    <3>. QED BY <2>2, <3>1 DEF AnswerInv
  <2>. QED BY <1>4, <2>1, <2>2 DEF AskToken
<1>5. ASSUME ValidateToken PROVE AnswerInv'
  <2>1. CASE pc' = "sign"
    BY <2>1 DEF AnswerInv
  <2>. QED BY <1>2, <1>5, <2>1 DEF ValidateToken
<1>6. ASSUME ValidatesPayload PROVE AnswerInv'
  BY <1>2, <1>6 DEF ValidatesPayload
<1>7. ASSUME ChecksSign, UNCHANGED responseVars PROVE AnswerInv'
  <2>1. ASSUME Splits \/ Base64Decode \/ ComparesSign PROVE AnswerInv'
    BY <2>1 DEF Splits, Base64Decode, ComparesSign, parserVars, AnswerInv
  <2>2. ASSUME Returns PROVE AnswerInv'
    BY <2>2 DEF Returns, AnswerInv
  <2>. QED BY <1>7, <2>1, <2>2 DEF ChecksSign
<1>8. ASSUME Copies PROVE AnswerInv'
  <2>1. pc = "construct" /\ pc' = "release" /\ rs' = rs
    BY <1>8 DEF Copies
  <2>2. Answerable(rs)
    BY <2>1 DEF AnswerInv
  <2>3. Copied'
    <3>. DEFINE r == ConstructStrResp(rs)
    <3>1. ConstructStrResp(rs') = r
      BY <2>1, Zenon
    <3>2. sendBuf' = [pieces |-> Cut(r), chars |-> Min({r.chars, MAX_RESPONSE_SIZE}),
                      terminated |-> r.chars < MAX_RESPONSE_SIZE]
      BY <1>8, Zenon DEF Copies
    <3>. HIDE DEF r
    <3>. QED BY <3>1, <3>2, Zenon DEF Copied
  <2>. QED BY <2>1, <2>2, <2>3 DEF AnswerInv
<1>9. ASSUME ReleaseReq PROVE AnswerInv'
  BY <1>9 DEF ReleaseReq, AnswerInv, responseVars, Copied
<1>10. ASSUME Writes PROVE AnswerInv'
  <2>1. /\ pc = "write" /\ pc' = "over" /\ rs' = rs /\ sendBuf' = sendBuf
        /\ sendBuf.terminated => written' = sendBuf.chars
    BY <1>10 DEF Writes
  <2>2. Answerable(rs) /\ Copied
    BY <2>1 DEF AnswerInv
  <2>3. Copied'
    BY <2>1, <2>2, Zenon DEF Copied
  <2>. QED BY <2>1, <2>2, <2>3 DEF AnswerInv
<1>11. ASSUME Over \/ UNCHANGED vars PROVE AnswerInv'
  BY <1>11 DEF Over, vars, parserVars, responseVars, AnswerInv, Copied
<1>. QED BY <1>1, <1>3, <1>4, <1>5, <1>6, <1>7, <1>8, <1>9, <1>10, <1>11 DEF Next

LEMMA AnswersKept == Spec => []AnswerInv
<1>1. Init => AnswerInv
  BY DEF Init, AnswerInv
<1>. QED BY <1>1, AnswerStep, PTL DEF Spec

\* The headers of every answer end with its first empty line, and behind it stands
\* the token alone or nothing: ConstructStrResp of response.c puts the empty line
\* there whatever the handlers have left, and strncpy cuts only a token that is too
\* long for sendBuf.
THEOREM AnswerAlwaysHasItsBody == Spec => []AnswerHasItsBody
<1>1. AnswerInv => AnswerHasItsBody
  <2>. DEFINE behind == IF rs.body = NULL THEN <<>>
                        ELSE IF Fits(rs.body) THEN rs.body.pieces ELSE <<"cut">>
  <2>. SUFFICES ASSUME AnswerInv, pc = "write"
                PROVE  \E j \in 2 .. Len(sendBuf.pieces) :
                         /\ HeadersEndAt(sendBuf.pieces, j)
                         /\ SubSeq(sendBuf.pieces, j + 1, Len(sendBuf.pieces)) = behind
    BY DEF AnswerHasItsBody
  <2>. DEFINE r == ConstructStrResp(rs)   u == Cut(r)
  <2>1. Answerable(rs) /\ sendBuf.pieces = u
    <3>1. Answerable(rs) /\ Copied
      BY DEF AnswerInv
    <3>. HIDE DEF r, u
    <3>2. sendBuf.pieces = Cut(r)
      BY <3>1 DEF Copied, r
    <3>. QED BY <3>1, <3>2 DEF u
  <2>2. ASSUME NEW status \in {OK, BAD_REQUEST, FORBIDDEN},
               rs = [status |-> status, contentType |-> NULL, body |-> NULL]
        PROVE  \E j \in 2 .. Len(u) : HeadersEndAt(u, j) /\ SubSeq(u, j + 1, Len(u)) = behind
    <3>1. /\ HeadersEndAt(r.pieces, 6) /\ Len(r.pieces) = 6
          /\ SubSeq(r.pieces, 7, Len(r.pieces)) = <<>> /\ r.chars \in 11 .. 20
      BY <2>2, ShortAnswer
    <3>2. behind = <<>>
      BY <2>2
    <3>. HIDE DEF r, behind
    <3>3. u = r.pieces
      BY <3>1 DEF Cut, MAX_RESPONSE_SIZE
    <3>. HIDE DEF u
    <3>4. 6 \in 2 .. Len(u) /\ 6 + 1 = 7
      <4>1. Len(u) = 6
        BY <3>1, <3>3
      <4>. QED BY <4>1
    <3>. QED BY <3>1, <3>2, <3>3, <3>4
  <2>3. ASSUME NEW n \in Documents,
               rs = [status |-> OK, contentType |-> Piece("plain/text", 10),
                     body |-> ConstructJwt(n)]
        PROVE  \E j \in 2 .. Len(u) : HeadersEndAt(u, j) /\ SubSeq(u, j + 1, Len(u)) = behind
    <3>1. /\ HeadersEndAt(r.pieces, 9) /\ Long(r.pieces, 10, Printed)
          /\ SubSeq(r.pieces, 10, Len(r.pieces)) = ConstructJwt(n).pieces
          /\ r.chars = 37 + ConstructJwt(n).chars /\ ConstructJwt(n) # NULL
      BY <2>3, TokenAnswer
    <3>2. /\ rs.body = ConstructJwt(n)
          /\ behind = IF Fits(rs.body) THEN rs.body.pieces ELSE <<"cut">>
      BY <2>3, <3>1
    <3>3. /\ rs.body.chars \in Nat
          /\ Fits(rs.body) => rs.body.chars <= 4058
          /\ ~Fits(rs.body) => rs.body.chars >= 4062
      BY <3>2, NextToken
    <3>4. Len(r.pieces) = 10
      BY <3>1 DEF Long
    <3>. HIDE DEF r, behind
    <3>5. r.chars <= MAX_RESPONSE_SIZE <=> Fits(rs.body)
      BY <3>1, <3>2, <3>3 DEF MAX_RESPONSE_SIZE
    <3>6. CASE Fits(rs.body)
      <4>1. u = r.pieces
        BY <3>5, <3>6 DEF Cut
      <4>. HIDE DEF u
      <4>2. 9 \in 2 .. Len(u) /\ 9 + 1 = 10
        <5>1. Len(u) = 10
          BY <3>4, <4>1
        <5>. QED BY <5>1
      <4>. QED BY <3>1, <3>2, <3>6, <4>1, <4>2
    <3>7. CASE ~Fits(rs.body)
      <4>1. u = Append(Front(r.pieces), "cut")
        BY <3>5, <3>7 DEF Cut
      <4>. HIDE DEF u
      <4>2. HeadersEndAt(u, 9) /\ Len(u) = 10 /\ SubSeq(u, 10, Len(u)) = <<"cut">>
        BY <3>1, <4>1, TokenCut
      <4>3. 9 \in 2 .. Len(u) /\ 9 + 1 = 10
        BY <4>2
      <4>. QED BY <3>2, <3>7, <4>2, <4>3
    <3>. QED BY <3>6, <3>7
  <2>. HIDE DEF r, u, behind
  <2>. QED BY <2>1, <2>2, <2>3 DEF Answerable
<1>. QED BY <1>1, AnswersKept, PTL

\* Up to the document the module names, the token and its headers leave room for
\* the terminator of strncpy, and SSL_write sends the whole answer.
THEOREM WholeAnswerIsAlwaysWritten == Spec => []WholeAnswerIsWritten
<1>1. AnswerInv => WholeAnswerIsWritten
  <2>. DEFINE r == ConstructStrResp(rs)
  <2>. SUFFICES ASSUME AnswerInv, pc = "over", fate = "fine",
                       rs.body # NULL => Fits(rs.body)
                PROVE  written = r.chars
    BY DEF WholeAnswerIsWritten
  <2>1. r.chars \in Nat /\ r.chars < 4096
    <3>1. ConstructJwt(LargestDocument).chars = 4058
      BY DEF ConstructJwt, LargestDocument, EncodedLen, Piece
    <3>2. ASSUME NEW status \in {OK, BAD_REQUEST, FORBIDDEN},
                 rs = [status |-> status, contentType |-> NULL, body |-> NULL]
          PROVE  r.chars \in 11 .. 20
      BY <3>2, ShortAnswer
    <3>3. ASSUME NEW n \in Documents,
                 rs = [status |-> OK, contentType |-> Piece("plain/text", 10),
                       body |-> ConstructJwt(n)]
          PROVE  r.chars \in Nat /\ r.chars < 4096
      <4>1. /\ r.chars = 37 + ConstructJwt(n).chars
            /\ ConstructJwt(n).chars \in Nat /\ ConstructJwt(n) # NULL
        BY <3>3, TokenAnswer
      <4>. HIDE DEF r
      <4>2. ConstructJwt(n).chars <= 4058
        BY <3>1, <3>3, <4>1 DEF Fits
      <4>. QED BY <4>1, <4>2
    <3>. HIDE DEF r
    <3>4. Answerable(rs)
      BY DEF AnswerInv
    <3>. QED BY <3>2, <3>3, <3>4 DEF Answerable
  <2>2. /\ sendBuf.chars = Min({r.chars, MAX_RESPONSE_SIZE})
        /\ sendBuf.terminated = (r.chars < MAX_RESPONSE_SIZE)
    BY DEF AnswerInv, Copied
  <2>3. sendBuf.terminated => written = sendBuf.chars
    BY DEF AnswerInv
  <2>. HIDE DEF r
  <2>4. Min({r.chars, MAX_RESPONSE_SIZE}) = r.chars
    <3>. DEFINE I == {r.chars, MAX_RESPONSE_SIZE}
    <3>1. MAX_RESPONSE_SIZE \in Nat /\ r.chars <= MAX_RESPONSE_SIZE /\ r.chars <= r.chars
      BY <2>1 DEF MAX_RESPONSE_SIZE
    <3>2. I \subseteq Nat /\ r.chars \in I /\ \A j \in I : r.chars <= j
      BY <2>1, <3>1
    <3>. HIDE DEF I
    <3>3. Min(I) = r.chars
      BY <3>2, FirstPlaceIs
    <3>. QED BY <3>3 DEF I
  <2>5. sendBuf.terminated
    <3>1. r.chars < MAX_RESPONSE_SIZE
      BY <2>1 DEF MAX_RESPONSE_SIZE
    <3>. QED BY <2>2, <3>1, Zenon
  <2>. QED BY <2>2, <2>3, <2>4, <2>5
<1>. QED BY <1>1, AnswersKept, PTL

-----------------------------------------------------------------------------
(* Signatures.                                                             *)

LEMMA HmacIs == \A u, i : Hmac(u, i)[1] = "hmac" /\ Hmac(u, i)[2] = u /\ Hmac(u, i)[3] = i
BY DEF Hmac

\* A word decodes to its place in one signature only.
LEMMA WordsApart ==
  ASSUME NEW d \in Data
  PROVE  /\ \A w \in SignHead[d] : /\ w \in HeadWords /\ w \notin EndWords /\ w \notin {"CR", "LF"}
                                   /\ SignerOf(SignHead, w) = d /\ w \in Words
         /\ \A w \in SignEnd[d] : /\ w \in EndWords /\ w \notin HeadWords /\ w \notin {"CR", "LF"}
                                  /\ SignerOf(SignEnd, w) = d /\ w \in Words
<1>1. SignHead[d] \subseteq Words /\ SignEnd[d] \subseteq Words
  BY SignaturesAssumption
<1>2. \A e \in Data : SignHead[d] \cap SignEnd[e] = {} /\ SignHead[e] \cap SignEnd[d] = {}
  BY SignaturesAssumption
<1>3. \A e \in Data : /\ \A w \in SignHead[d] : w \in SignHead[e] => e = d
                     /\ \A w \in SignEnd[d] : w \in SignEnd[e] => e = d
  BY SignaturesAssumption
<1>4. \A w \in Words : w \notin {"CR", "LF"}
  BY Apart
<1>5. ASSUME NEW w \in SignHead[d] PROVE SignerOf(SignHead, w) = d
  BY <1>3 DEF SignerOf
<1>6. ASSUME NEW w \in SignEnd[d] PROVE SignerOf(SignEnd, w) = d
  BY <1>3 DEF SignerOf
<1>. QED BY <1>1, <1>2, <1>4, <1>5, <1>6 DEF HeadWords, EndWords

LEMMA HeadByte ==
  ASSUME NEW d \in Data, NEW w \in SignHead[d], NEW place \in Nat, NEW m \in 0 .. 2
  PROVE  Byte(<<w, place>>, m) = Hmac(<<d>>, 3 * (place \div 4) + m)
<1>. DEFINE c == <<w, place>>
<1>1. c[1] = w /\ c[2] = place
  OBVIOUS
<1>. HIDE DEF c
<1>2. w \in HeadWords /\ w \notin EndWords /\ w \notin {"CR", "LF"} /\ SignerOf(SignHead, w) = d
  BY WordsApart
<1>3. Byte(c, m) = Hmac(<<SignerOf(SignHead, c[1])>>, 3 * (c[2] \div 4) + m)
  BY <1>1, <1>2 DEF Byte
<1>. QED BY <1>1, <1>2, <1>3 DEF c

LEMMA EndByte ==
  ASSUME NEW d \in Data, NEW w \in SignEnd[d], NEW place \in Nat, NEW m \in 0 .. 1
  PROVE  Byte(<<w, place>>, m) = Hmac(<<d>>, 30 + m)
<1>. DEFINE c == <<w, place>>
<1>1. c[1] = w
  OBVIOUS
<1>. HIDE DEF c
<1>2. w \in EndWords /\ w \notin HeadWords /\ w \notin {"CR", "LF"} /\ SignerOf(SignEnd, w) = d
  BY WordsApart
<1>3. m < 2 /\ m # 2
  OBVIOUS
<1>4. Byte(c, m) = Hmac(<<SignerOf(SignEnd, c[1])>>, 30 + m)
  BY <1>1, <1>2, <1>3 DEF Byte
<1>. QED BY <1>1, <1>2, <1>4 DEF c

\* A byte of an HMAC comes only from a signature of what was hashed, from its place there.
LEMMA ByteIsHmac ==
  ASSUME NEW w, NEW place \in Nat, NEW m \in 0 .. 2, NEW pre, NEW i \in Nat,
         Byte(<<w, place>>, m) = Hmac(pre, i)
  PROVE  \E d \in Data : /\ pre = <<d>>
                         /\ \/ w \in SignHead[d] /\ i = 3 * (place \div 4) + m
                            \/ w \in SignEnd[d] /\ i = 30 + m
<1>. DEFINE c == <<w, place>>
<1>1. c[1] = w /\ c[2] = place
  OBVIOUS
<1>2. CASE w \in HeadWords
  <2>1. PICK d \in Data : w \in SignHead[d]
    BY <1>2 DEF HeadWords
  <2>2. Byte(<<w, place>>, m) = Hmac(<<d>>, 3 * (place \div 4) + m)
    BY <2>1, HeadByte
  <2>3. pre = <<d>> /\ i = 3 * (place \div 4) + m
    <3>1. Hmac(pre, i) = Hmac(<<d>>, 3 * (place \div 4) + m)
      BY <2>2
    <3>2. Hmac(pre, i)[2] = pre /\ Hmac(pre, i)[3] = i
      BY HmacIs
    <3>3. /\ Hmac(<<d>>, 3 * (place \div 4) + m)[2] = <<d>>
          /\ Hmac(<<d>>, 3 * (place \div 4) + m)[3] = 3 * (place \div 4) + m
      BY HmacIs
    <3>. QED BY <3>1, <3>2, <3>3, Zenon
  <2>. QED BY <2>1, <2>3
<1>3. CASE w \in EndWords /\ m < 2
  <2>1. PICK d \in Data : w \in SignEnd[d]
    BY <1>3 DEF EndWords
  <2>0. m \in 0 .. 1
    BY <1>3
  <2>2. Byte(<<w, place>>, m) = Hmac(<<d>>, 30 + m)
    BY <2>0, <2>1, EndByte
  <2>3. pre = <<d>> /\ i = 30 + m
    <3>1. Hmac(pre, i) = Hmac(<<d>>, 30 + m)
      BY <2>2
    <3>2. Hmac(pre, i)[2] = pre /\ Hmac(pre, i)[3] = i
      BY HmacIs
    <3>3. /\ Hmac(<<d>>, 30 + m)[2] = <<d>>
          /\ Hmac(<<d>>, 30 + m)[3] = 30 + m
      BY HmacIs
    <3>. QED BY <3>1, <3>2, <3>3, Zenon
  <2>. QED BY <2>1, <2>3
<1>4. CASE w \notin HeadWords /\ ~(w \in EndWords /\ m < 2)
  <2>0. w \in EndWords => m = 2
    BY <1>4
  <2>4. w \in EndWords => w \notin {"CR", "LF"}
    BY WordsApart DEF EndWords
  <2>1. Byte(c, m) = Zero \/ Byte(c, m) = <<"other", m>> \/ Byte(c, m) = <<"left over", w>>
    <3>. HIDE DEF c
    <3>1. CASE w \in EndWords
      BY <1>1, <1>4, <2>0, <2>4, <3>1 DEF Byte
    <3>2. CASE w \notin EndWords
      BY <1>1, <1>4, <3>2 DEF Byte
    <3>. QED BY <3>1, <3>2
  <2>2. Hmac(pre, i)[1] = "hmac"
    BY HmacIs
  <2>3. Zero[1] = "zero" /\ <<"other", m>>[1] = "other" /\ <<"left over", w>>[1] = "left over"
    BY DEF Zero
  <2>. QED BY <2>1, <2>2, <2>3
<1>. QED BY <1>2, <1>3, <1>4

\* The characters of word i stand behind place o[i].
CharSet == Symbols \X Nat

Spread(words, n, o) ==
  /\ Long(Chars(words), o[n], CharSet) /\ o[0] = 0
  /\ \A i \in 1 .. n :
       /\ o[i] = o[i - 1] + Width(words[i])
       /\ \A p \in 1 .. Width(words[i]) : Chars(words)[o[i - 1] + p] = <<words[i], p>>

LEMMA CharsOf ==
  ASSUME NEW words, NEW n \in Nat, Long(words, n, Symbols)
  PROVE  \E o \in [0 .. n -> Nat] : Spread(words, n, o)
<1>. DEFINE part(i) == [place \in 1 .. Width(words[i]) |-> <<words[i], place>>]
            parts == [i \in DOMAIN words |-> part(i)]
<1>1. words \in Seq(Symbols) /\ Len(words) = n /\ DOMAIN words = 1 .. n
  BY LenProperties DEF Long
<1>2. \A i \in 1 .. n : words[i] \in Symbols /\ Width(words[i]) \in Nat
  <2>1. \A i \in 1 .. n : words[i] \in Symbols
    BY <1>1, ElementOfSeq
  <2>. QED BY <2>1 DEF Width
<1>3. \A i \in 1 .. n : Long(part(i), Width(words[i]), CharSet)
  <2>. SUFFICES ASSUME NEW i \in 1 .. n PROVE Long(part(i), Width(words[i]), CharSet)
    OBVIOUS
  <2>1. part(i) \in [1 .. Width(words[i]) -> CharSet]
    BY <1>2 DEF CharSet
  <2>. HIDE DEF part
  <2>. QED BY <1>2, <2>1, FunctionIsSeq
<1>4. \A i \in 1 .. n : \A p \in 1 .. Width(words[i]) : part(i)[p] = <<words[i], p>>
  OBVIOUS
<1>. HIDE DEF part
<1>5. Long(parts, n, Seq(CharSet)) /\ \A i \in 1 .. n : parts[i] = part(i)
  <2>1. parts \in [1 .. n -> Seq(CharSet)]
    BY <1>1, <1>3 DEF Long
  <2>2. \A i \in 1 .. n : parts[i] = part(i)
    BY <1>1
  <2>. HIDE DEF parts
  <2>. QED BY <2>1, <2>2, FunctionIsSeq
<1>6. Chars(words) = FlattenSeq(parts)
  BY DEF Chars, part
<1>. HIDE DEF parts
<1>7. PICK o \in [0 .. n -> Nat] : PutTogether(parts, o, Chars(words), CharSet)
  <2>1. parts \in Seq(Seq(CharSet)) /\ Len(parts) = n
    BY <1>5 DEF Long
  <2>2. \E o \in [0 .. Len(parts) -> Nat] : PutTogether(parts, o, FlattenSeq(parts), CharSet)
    BY <2>1, Flattened
  <2>. QED BY <1>6, <2>1, <2>2
<1>8. Long(Chars(words), o[n], CharSet) /\ o[0] = 0
  <2>1. Len(parts) = n
    BY <1>5 DEF Long
  <2>. QED BY <1>7, <2>1 DEF PutTogether, Long
<1>9. ASSUME NEW i \in 1 .. n
      PROVE  /\ o[i] = o[i - 1] + Width(words[i])
             /\ \A p \in 1 .. Width(words[i]) : Chars(words)[o[i - 1] + p] = <<words[i], p>>
  <2>1. Len(parts) = n /\ parts[i] = part(i) /\ Len(part(i)) = Width(words[i])
    BY <1>3, <1>5 DEF Long
  <2>2. /\ o[i] = o[i - 1] + Len(parts[i])
        /\ \A p \in 1 .. Len(parts[i]) : Chars(words)[o[i - 1] + p] = parts[i][p]
    BY <1>7, <2>1 DEF PutTogether
  <2>. QED BY <1>4, <2>1, <2>2
<1>10. Spread(words, n, o)
  BY <1>8, <1>9 DEF Spread
<1>. QED BY <1>10

\* What the first two words behind the dot become.
LEMMA FirstChars ==
  ASSUME NEW words, NEW n \in Nat, Long(words, n, Symbols)
  PROVE  /\ Len(Chars(words)) \in Nat
         /\ n = 0 => Len(Chars(words)) = 0
         /\ n >= 1 => /\ Len(Chars(words)) >= Width(words[1])
                      /\ \A p \in 1 .. Width(words[1]) : Chars(words)[p] = <<words[1], p>>
         /\ n = 1 => Len(Chars(words)) = Width(words[1])
         /\ n >= 2 => /\ Len(Chars(words)) >= Width(words[1]) + Width(words[2])
                      /\ \A p \in 1 .. Width(words[2]) :
                           Chars(words)[Width(words[1]) + p] = <<words[2], p>>
<1>1. PICK o \in [0 .. n -> Nat] : Spread(words, n, o)
  BY CharsOf
<1>2. Len(Chars(words)) = o[n] /\ o[0] = 0
  BY <1>1 DEF Spread, Long
<1>3. \A i \in 1 .. n : Width(words[i]) \in Nat
  BY DEF Width
<1>4. \A i \in 1 .. n : o[i] = o[i - 1] + Width(words[i])
  BY <1>1 DEF Spread
<1>5. \A i \in 1 .. n : o[i] >= o[i - 1]
  BY <1>3, <1>4
<1>6. \A j \in 0 .. n : \A i \in 0 .. j : o[i] <= o[j]
  BY <1>5, Grows
<1>7. o[n] \in Nat
  OBVIOUS
<1>8. n >= 1 => /\ o[1] = Width(words[1]) /\ o[1] <= o[n]
                /\ \A p \in 1 .. Width(words[1]) : Chars(words)[p] = <<words[1], p>>
  <2>. SUFFICES ASSUME n >= 1
                PROVE  /\ o[1] = Width(words[1]) /\ o[1] <= o[n]
                       /\ \A p \in 1 .. Width(words[1]) : Chars(words)[p] = <<words[1], p>>
    OBVIOUS
  <2>1. 1 \in 1 .. n /\ n \in 0 .. n /\ 1 \in 0 .. n
    OBVIOUS
  <2>2. o[1] = o[1 - 1] + Width(words[1])
    BY <1>4, <2>1
  <2>3. \A p \in 1 .. Width(words[1]) : Chars(words)[o[1 - 1] + p] = <<words[1], p>>
    BY <1>1, <2>1 DEF Spread
  <2>4. o[1 - 1] = 0 /\ Width(words[1]) \in Nat
    BY <1>2, <1>3, <2>1
  <2>5. \A p \in 1 .. Width(words[1]) : 0 + p = p
    BY <2>4
  <2>6. o[1] <= o[n]
    BY <1>6, <2>1
  <2>. QED BY <2>2, <2>3, <2>4, <2>5, <2>6
<1>9. n >= 2 => /\ o[2] = Width(words[1]) + Width(words[2]) /\ o[2] <= o[n]
                /\ \A p \in 1 .. Width(words[2]) :
                     Chars(words)[Width(words[1]) + p] = <<words[2], p>>
  <2>. SUFFICES ASSUME n >= 2
                PROVE  /\ o[2] = Width(words[1]) + Width(words[2]) /\ o[2] <= o[n]
                       /\ \A p \in 1 .. Width(words[2]) :
                            Chars(words)[Width(words[1]) + p] = <<words[2], p>>
    OBVIOUS
  <2>1. 2 \in 1 .. n /\ n \in 0 .. n /\ 2 \in 0 .. n
    OBVIOUS
  <2>2. o[2] = o[2 - 1] + Width(words[2])
    BY <1>4, <2>1
  <2>3. \A p \in 1 .. Width(words[2]) : Chars(words)[o[2 - 1] + p] = <<words[2], p>>
    BY <1>1, <2>1 DEF Spread
  <2>4. o[2 - 1] = Width(words[1])
    BY <1>8
  <2>6. o[2] <= o[n]
    BY <1>6, <2>1
  <2>. QED BY <2>2, <2>3, <2>4, <2>6
<1>10. n = 1 => Len(Chars(words)) = Width(words[1])
  BY <1>2, <1>8
<1>11. n = 0 => Len(Chars(words)) = 0
  BY <1>2
<1>. QED BY <1>2, <1>7, <1>8, <1>9, <1>10, <1>11

\* What is decoded at byte i, and when CheckJwtSign finds it to be the HMAC.
DecodedByte(i) ==
  IF i \div 3 < Groups THEN Byte(Sign[4 * (i \div 3) + 1], i % 3) ELSE Zero

Agrees == Dot # 0 /\ \A i \in 0 .. 31 : DecodedByte(i) = Hmac(SubSeq(rq.body, 1, Dot - 1), i)

LEMMA DotType ==
  ASSUME rq.body \in Seq(Symbols)
  PROVE  /\ Len(rq.body) \in Nat /\ Dot \in 0 .. Len(rq.body)
         /\ Dot # 0 => rq.body[Dot] = "."
<1>. DEFINE n == Len(rq.body)   I == {i \in 1 .. n : rq.body[i] = "."}
<1>1. n \in Nat
  BY LenProperties
<1>2. Dot = IF I # {} THEN Max(I) ELSE 0
  BY DEF Dot, SelectLastInSeq
<1>3. I # {} => Max(I) \in I
  <2>1. I \subseteq 1 .. n
    OBVIOUS
  <2>. HIDE DEF I, n
  <2>. QED BY <1>1, <2>1, LastPlace
<1>. QED BY <1>1, <1>2, <1>3

\* The words behind the dot.
LEMMA SignWords ==
  ASSUME rq.body \in Seq(Symbols)
  PROVE  LET words == SubSeq(rq.body, Dot + 1, Len(rq.body)) IN
         /\ Long(words, Len(rq.body) - Dot, Symbols)
         /\ \A p \in 1 .. Len(rq.body) - Dot : words[p] = rq.body[Dot + p]
<1>1. Len(rq.body) \in Nat /\ Dot \in 0 .. Len(rq.body)
  BY DotType
<1>. DEFINE n == Len(rq.body)   k == Dot   words == SubSeq(rq.body, k + 1, n)
<1>2. n \in Nat /\ k \in 0 .. n
  BY <1>1
<1>. HIDE DEF k
<1>3. Long(words, (n + 1) - (k + 1), Symbols) /\ Holds(rq.body, (k + 1) - 1, words, (n + 1) - (k + 1))
  BY <1>2, CutOut
<1>4. (n + 1) - (k + 1) = n - k /\ (k + 1) - 1 = k
  BY <1>2
<1>. QED BY <1>3, <1>4 DEF Holds, k

LEMMA HmacLiteral == \A u, i : Hmac(u, i) # Zero
<1>1. Zero[1] = "zero"
  BY DEF Zero
<1>. QED BY <1>1, HmacIs

LEMMA AgreesOnlyWith ==
  ASSUME rq.body \in Seq(Symbols), Agrees
  PROVE  Dot = 2 /\ \E d \in Data : \E token \in Signed(d) : IsPrefix(token, rq.body)
<1>. DEFINE n == Len(rq.body) - Dot
            words == SubSeq(rq.body, Dot + 1, Len(rq.body))
            pre == SubSeq(rq.body, 1, Dot - 1)
<1>1. Len(rq.body) \in Nat /\ Dot \in 1 .. Len(rq.body) /\ rq.body[Dot] = "."
  <2>1. Dot # 0
    BY DEF Agrees
  <2>. QED BY <2>1, DotType
<1>2. Long(words, n, Symbols) /\ \A p \in 1 .. n : words[p] = rq.body[Dot + p]
  BY SignWords
<1>3. Sign = Chars(words) /\ Groups = Len(Sign) \div 4
  BY DEF Sign, Groups
<1>4. DecodedByte(0) = Hmac(pre, 0) /\ DecodedByte(30) = Hmac(pre, 30)
  BY DEF Agrees
<1>5. DecodedByte(0) = IF 0 < Groups THEN Byte(Sign[1], 0) ELSE Zero
  <2>1. 0 \div 3 = 0 /\ 4 * 0 + 1 = 1 /\ 0 % 3 = 0
    OBVIOUS
  <2>. QED BY <2>1, Zenon DEF DecodedByte
<1>6. DecodedByte(30) = IF 10 < Groups THEN Byte(Sign[41], 0) ELSE Zero
  <2>1. 30 \div 3 = 10 /\ 4 * 10 + 1 = 41 /\ 30 % 3 = 0
    OBVIOUS
  <2>. QED BY <2>1, Zenon DEF DecodedByte
<1>7. n \in Nat
  BY <1>1
<1>. HIDE DEF n, words, pre
<1>8. /\ Len(Sign) \in Nat
      /\ n = 0 => Len(Sign) = 0
      /\ n >= 1 => \A p \in 1 .. Width(words[1]) : Sign[p] = <<words[1], p>>
      /\ n = 1 => Len(Sign) = Width(words[1])
      /\ n >= 2 => \A p \in 1 .. Width(words[2]) :
                     Sign[Width(words[1]) + p] = <<words[2], p>>
  BY <1>2, <1>3, <1>7, FirstChars
<1>9. 0 < Groups /\ 10 < Groups
  BY <1>4, <1>5, <1>6, HmacLiteral
<1>10. n >= 1
  BY <1>3, <1>7, <1>8, <1>9
<1>11. \A w : Width(w) \in {1, 4, 40}
  BY DEF Width
<1>12. Sign[1] = <<words[1], 1>>
  <2>1. 1 \in 1 .. Width(words[1])
    BY <1>11
  <2>. QED BY <1>8, <1>10, <2>1
<1>13. Byte(<<words[1], 1>>, 0) = Hmac(pre, 0)
  BY <1>4, <1>5, <1>9, <1>12
<1>14. PICK d \in Data :
         /\ pre = <<d>>
         /\ \/ words[1] \in SignHead[d] /\ 0 = 3 * (1 \div 4) + 0
            \/ words[1] \in SignEnd[d] /\ 0 = 30 + 0
  <2>1. \A i \in Nat, m \in 0 .. 2 :
          Byte(<<words[1], 1>>, m) = Hmac(pre, i) =>
            \E d \in Data : /\ pre = <<d>>
                           /\ \/ words[1] \in SignHead[d] /\ i = 3 * (1 \div 4) + m
                              \/ words[1] \in SignEnd[d] /\ i = 30 + m
    <3>1. 1 \in Nat
      OBVIOUS
    <3>. QED BY <3>1, ByteIsHmac
  <2>2. 0 \in Nat /\ 0 \in 0 .. 2
    OBVIOUS
  <2>. QED BY <1>13, <2>1, <2>2, Zenon
<1>15. words[1] \in SignHead[d]
  BY <1>14
<1>16. Width(words[1]) = 40
  BY <1>15, WordsApart DEF Width
<1>17. n >= 2
  <2>. SUFFICES ASSUME n = 1 PROVE FALSE
    BY <1>7, <1>10
  <2>1. Len(Sign) = 40
    BY <1>8, <1>16
  <2>2. Groups = 10
    BY <1>3, <2>1
  <2>. QED BY <1>9, <2>2
<1>18. Sign[41] = <<words[2], 1>>
  <2>1. 1 \in 1 .. Width(words[2])
    BY <1>11
  <2>2. Sign[40 + 1] = <<words[2], 1>>
    BY <1>8, <1>16, <1>17, <2>1
  <2>. QED BY <2>2
<1>19. Byte(<<words[2], 1>>, 0) = Hmac(<<d>>, 30)
  BY <1>4, <1>6, <1>9, <1>14, <1>18
<1>20. PICK e \in Data :
         /\ <<d>> = <<e>>
         /\ \/ words[2] \in SignHead[e] /\ 30 = 3 * (1 \div 4) + 0
            \/ words[2] \in SignEnd[e] /\ 30 = 30 + 0
  <2>1. 0 \in 0 .. 2 /\ 30 \in Nat /\ 1 \in Nat
    OBVIOUS
  <2>. QED BY <1>19, <2>1, ByteIsHmac
<1>21. words[2] \in SignEnd[d]
  <2>1. 1 \div 4 = 0
    OBVIOUS
  <2>2. words[2] \in SignEnd[e]
    BY <1>20, <2>1
  <2>3. <<d>>[1] = <<e>>[1]
    BY <1>20
  <2>4. d = e
    BY <2>3
  <2>. QED BY <2>2, <2>4
<1>22. Dot = 2 /\ rq.body[1] = d
  <2>1. Long(pre, Dot - 1, Symbols) /\ Holds(rq.body, 0, pre, Dot - 1)
    <3>. DEFINE k == Dot - 1
    <3>1. k \in Nat /\ k <= Len(rq.body)
      BY <1>1
    <3>. HIDE DEF k
    <3>2. Long(SubSeq(rq.body, 1, k), k, Symbols) /\ Holds(rq.body, 0, SubSeq(rq.body, 1, k), k)
      BY <3>1, FrontPart
    <3>. QED BY <3>2 DEF pre, k
  <2>2. Long(<<d>>, 1, Data) /\ <<d>>[1] = d
    BY Singles
  <2>3. Dot - 1 = 1
    BY <1>14, <2>1, <2>2 DEF Long
  <2>4. rq.body[0 + 1] = pre[1]
    <3>1. 1 \in 1 .. Dot - 1
      BY <2>3
    <3>. QED BY <2>1, <3>1 DEF Holds
  <2>. QED BY <1>1, <1>14, <2>2, <2>3, <2>4
<1>23. rq.body[3] \in SignHead[d] /\ rq.body[4] \in SignEnd[d] /\ Len(rq.body) >= 4
  <2>1. words[1] = rq.body[Dot + 1] /\ words[2] = rq.body[Dot + 2]
    BY <1>2, <1>7, <1>17
  <2>2. Dot + 1 = 3 /\ Dot + 2 = 4 /\ Len(rq.body) >= 4
    BY <1>1, <1>17, <1>22 DEF n
  <2>. QED BY <1>15, <1>21, <2>1, <2>2
<1>24. \E token \in Signed(d) : IsPrefix(token, rq.body)
  <2>. DEFINE head == rq.body[3]   end == rq.body[4]   t == <<d, ".", head, end>>
  <2>1. {d, ".", head, end} \subseteq Symbols
    BY <1>23, WordsApart, SignaturesAssumption DEF Symbols, Marks
  <2>. HIDE DEF head, end
  <2>2. Long(t, 4, Symbols) /\ t[1] = d /\ t[2] = "." /\ t[3] = head /\ t[4] = end
    BY <2>1, Singles
  <2>6. t \in Signed(d)
    BY <1>23 DEF Signed, head, end
  <2>. HIDE DEF t
  <2>3. \A p \in 1 .. 4 : p = 1 \/ p = 2 \/ p = 3 \/ p = 4
    OBVIOUS
  <2>4. \A p \in 1 .. 4 : t[p] = rq.body[p]
    BY <1>1, <1>22, <2>2, <2>3 DEF head, end
  <2>5. t \in Seq(Symbols) /\ Len(t) = 4
    BY <2>2 DEF Long
  <2>7. IsPrefix(t, rq.body)
    BY <1>23, <2>4, <2>5, PrefixIs
  <2>. QED BY <2>6, <2>7
<1>. QED BY <1>22, <1>24

LEMMA AgreesWithSignature ==
  ASSUME rq.body \in Seq(Symbols), Dot = 2, NEW d \in Data,
         NEW token \in Signed(d), IsPrefix(token, rq.body)
  PROVE  Agrees
<1>. DEFINE n == Len(rq.body) - 2
            words == SubSeq(rq.body, Dot + 1, Len(rq.body))
<1>0. PICK head \in SignHead[d], end \in SignEnd[d] : token = <<d, ".", head, end>>
  BY DEF Signed
<1>1. Len(rq.body) >= 4 /\ rq.body[1] = d /\ rq.body[3] = head /\ rq.body[4] = end
  <2>1. {d, ".", head, end} \subseteq Symbols
    BY WordsApart, SignaturesAssumption DEF Symbols, Marks
  <2>2. Long(token, 4, Symbols) /\ token[1] = d /\ token[2] = "."
        /\ token[3] = head /\ token[4] = end
    BY <1>0, <2>1, Singles
  <2>3. token \in Seq(Symbols) /\ Len(token) = 4
    BY <2>2 DEF Long
  <2>5. Len(token) <= Len(rq.body) /\ \A p \in 1 .. Len(token) : token[p] = rq.body[p]
    <3>1. PICK u : u = rq.body
      OBVIOUS
    <3>2. u \in Seq(Symbols) /\ IsPrefix(token, u)
      BY <3>1
    <3>3. IsPrefix(token, u) <=> Len(token) <= Len(u) /\ \A p \in 1 .. Len(token) : token[p] = u[p]
      <4>1. token \in Seq(Symbols) /\ u \in Seq(Symbols)
        BY <2>3, <3>2
      <4>. QED BY ONLY <4>1, PrefixIs
    <3>. QED BY <3>1, <3>2, <3>3
  <2>6. Len(rq.body) \in Nat
    BY LenProperties
  <2>7. Len(rq.body) >= 4 /\ \A p \in 1 .. 4 : token[p] = rq.body[p]
    BY <2>3, <2>5, <2>6
  <2>. QED BY <2>2, <2>7
<1>2. Long(words, n, Symbols) /\ \A p \in 1 .. n : words[p] = rq.body[Dot + p]
  BY SignWords
<1>3. Len(rq.body) \in Nat /\ n \in Nat /\ n >= 2
  BY <1>1, LenProperties
<1>4. words[1] = head /\ words[2] = end
  <2>1. words[1] = rq.body[Dot + 1] /\ words[2] = rq.body[Dot + 2]
    BY <1>2, <1>3
  <2>2. Dot + 1 = 3 /\ Dot + 2 = 4
    OBVIOUS
  <2>. QED BY <1>1, <2>1, <2>2
<1>5. Sign = Chars(words) /\ Groups = Len(Sign) \div 4
  BY DEF Sign, Groups
<1>6. Width(words[1]) = 40 /\ Width(words[2]) = 4
  <2>1. head \in HeadWords /\ end \notin HeadWords /\ end \notin {"CR", "LF"}
    BY WordsApart
  <2>. HIDE DEF words
  <2>. QED BY <1>4, <2>1 DEF Width
<1>. HIDE DEF n, words
<1>7. /\ Len(Sign) \in Nat /\ Len(Sign) >= Width(words[1]) + Width(words[2])
      /\ \A p \in 1 .. Width(words[1]) : Sign[p] = <<words[1], p>>
      /\ \A p \in 1 .. Width(words[2]) : Sign[Width(words[1]) + p] = <<words[2], p>>
  <2>1. /\ Len(Chars(words)) \in Nat
        /\ n >= 1 => \A p \in 1 .. Width(words[1]) : Chars(words)[p] = <<words[1], p>>
        /\ n >= 2 => /\ Len(Chars(words)) >= Width(words[1]) + Width(words[2])
                     /\ \A p \in 1 .. Width(words[2]) :
                          Chars(words)[Width(words[1]) + p] = <<words[2], p>>
    BY <1>2, <1>3, FirstChars
  <2>2. n >= 1
    BY <1>3
  <2>. QED BY <1>3, <1>5, <2>1, <2>2, Zenon
<1>8. Groups \in Nat /\ 10 < Groups
  <2>1. Len(Sign) \in Nat /\ Len(Sign) >= 44
    BY <1>6, <1>7
  <2>2. \A l \in Nat : l >= 44 => l \div 4 \in Nat /\ 10 < l \div 4
    OBVIOUS
  <2>3. Groups = Len(Sign) \div 4
    BY <1>5
  <2>. HIDE DEF words
  <2>. QED BY <2>1, <2>2, <2>3
<1>9. \A p \in 1 .. 40 : Sign[p] = <<head, p>>
  BY <1>4, <1>6, <1>7
<1>10. Sign[41] = <<end, 1>>
  <2>1. 1 \in 1 .. Width(words[2])
    BY <1>6
  <2>2. Sign[40 + 1] = <<words[2], 1>>
    BY <1>6, <1>7, <2>1
  <2>. QED BY <1>4, <2>2
<1>11. SubSeq(rq.body, 1, Dot - 1) = <<d>>
  <2>. DEFINE b == SubSeq(rq.body, 1, 1)   a == <<d>>
  <2>1. Long(b, 1, Symbols) /\ Holds(rq.body, 0, b, 1)
    <3>1. 1 \in Nat /\ 1 <= Len(rq.body)
      BY <1>1, <1>3
    <3>. QED BY <3>1, FrontPart
  <2>2. b \in Seq(Symbols) /\ Len(b) = 1 /\ rq.body[0 + 1] = b[1]
    BY <2>1 DEF Long, Holds
  <2>3. d \in Symbols
    BY SignaturesAssumption DEF Symbols
  <2>4. a \in Seq(Symbols) /\ Len(a) = 1 /\ a[1] = d
    BY <2>3, Singles DEF Long
  <2>. HIDE DEF a, b
  <2>5. \A p \in 1 .. Len(b) : b[p] = a[p]
    BY <1>1, <2>2, <2>4
  <2>6. b = a
    BY <2>2, <2>4, <2>5, SeqEqual
  <2>7. Dot - 1 = 1
    OBVIOUS
  <2>. QED BY <2>6, <2>7 DEF a, b
<1>12. ASSUME NEW i \in 0 .. 31 PROVE DecodedByte(i) = Hmac(<<d>>, i)
  <2>. DEFINE g == i \div 3   m == i % 3
  <2>1. g \in 0 .. 10 /\ m \in 0 .. 2 /\ i = 3 * g + m /\ g < Groups
    BY <1>8
  <2>. HIDE DEF g, m
  <2>2. DecodedByte(i) = Byte(Sign[4 * g + 1], m)
    BY <2>1, Zenon DEF DecodedByte, g, m
  <2>3. CASE g < 10
    <3>1. 4 * g + 1 \in 1 .. 40 /\ (4 * g + 1) \div 4 = g /\ 4 * g + 1 \in Nat
      BY <2>1, <2>3
    <3>2. Sign[4 * g + 1] = <<head, 4 * g + 1>>
      BY <1>9, <3>1
    <3>3. Byte(<<head, 4 * g + 1>>, m) = Hmac(<<d>>, 3 * ((4 * g + 1) \div 4) + m)
      BY <2>1, <3>1, HeadByte
    <3>. QED BY <2>1, <2>2, <3>1, <3>2, <3>3
  <2>4. CASE g = 10
    <3>1. m \in 0 .. 1 /\ 4 * g + 1 = 41 /\ i = 30 + m
      BY <2>1, <2>4
    <3>2. Byte(<<end, 1>>, m) = Hmac(<<d>>, 30 + m)
      BY <3>1, EndByte
    <3>3. DecodedByte(i) = Byte(Sign[41], m)
      BY <2>2, <3>1
    <3>. QED BY <1>10, <3>1, <3>2, <3>3
  <2>5. g < 10 \/ g = 10
    BY <2>1
  <2>. QED BY <2>3, <2>4, <2>5, Zenon
<1>13. \A i \in 0 .. 31 : DecodedByte(i) = Hmac(SubSeq(rq.body, 1, Dot - 1), i)
  BY <1>11, <1>12, Zenon
<1>14. Dot # 0
  OBVIOUS
<1>. QED BY <1>13, <1>14, Zenon DEF Agrees

-----------------------------------------------------------------------------
(* Requests.                                                               *)

ParsedInv == ParserInv /\ LaterInv

LEMMA ParsedStart == Init => ParsedInv
BY DEF Init, ParsedInv, ParserInv, LaterInv, Later, RunOffInv, RunOffs

LEMMA ParsedStep ==
  ASSUME ParsedInv, [Next]_vars
  PROVE  ParsedInv'
<1>. USE DEF ParsedInv
<1>1. CASE Accepts \/ Reads \/ Parses
  BY <1>1, ParsesKeeps
<1>2. CASE Over \/ UNCHANGED vars
  <2>1. UNCHANGED parserVars
    BY <1>2 DEF Over, vars
  <2>. QED BY <2>1, NothingChanges
<1>3. CASE NoHandler \/ AskToken
  <2>1. /\ pc \in Later /\ pc' \in Later \cup {"over"}
        /\ UNCHANGED <<sent, text, rq, handler, fate>>
    BY <1>3 DEF NoHandler, AskToken, Responds, UnchangedByHandlers, Later
  <2>. QED BY <2>1, LaterKeeps
<1>4. CASE ValidateToken \/ ValidatesPayload
  <2>1. /\ pc \in Later /\ pc' \in Later \cup {"over"}
        /\ UNCHANGED <<sent, text, rq, handler, fate>>
    BY <1>4 DEF ValidateToken, ValidatesPayload, Responds, UnchangedByHandlers, Later
  <2>. QED BY <2>1, LaterKeeps
<1>5. CASE ChecksSign
  <2>1. /\ pc \in Later /\ pc' \in Later \cup {"over"}
        /\ UNCHANGED <<sent, text, rq, handler>>
        /\ fate' = fate \/ fate' = "overran"
    BY <1>5 DEF ChecksSign, Splits, Base64Decode, ComparesSign, Returns, Later, parserVars
  <2>2. fate' = fate \/ fate' \notin RunOffs
    BY <2>1 DEF RunOffs
  <2>. QED BY <2>1, <2>2, LaterKeeps
<1>6. CASE Copies \/ ReleaseReq \/ Writes
  <2>1. /\ pc \in Later /\ pc' \in Later \cup {"over"}
        /\ UNCHANGED <<sent, text, rq, handler>>
        /\ fate' = fate \/ fate' = "freesLiteral"
    BY <1>6 DEF Copies, ReleaseReq, Writes, Later
  <2>2. fate' = fate \/ fate' \notin RunOffs
    BY <2>1 DEF RunOffs
  <2>. QED BY <2>1, <2>2, LaterKeeps
<1>. QED BY <1>1, <1>2, <1>3, <1>4, <1>5, <1>6 DEF Next

LEMMA RequestsKept == Spec => []ParsedInv
<1>1. ParsedInv /\ [Next]_vars => ParsedInv'
  BY ParsedStep
<1>. QED BY <1>1, ParsedStart, PTL DEF Spec

\* A text that is cut short has no empty line behind its headers.
LEMMA CutBefore ==
  ASSUME CutShort
  PROVE  EmptyLine(1) = 0
<1>. DEFINE e == Ends(sent)[Len(Headers(sent))]   n == Len(text)
<1>1. Received /\ n < e + 2
  BY DEF CutShort
<1>2. e \in Nat /\ n \in Nat
  BY <1>1, RestSeen
<1>3. EmptyLine(1) = IF e + 2 <= n THEN e - 1 ELSE 0
  BY <1>1, EmptyLineFound
<1>. HIDE DEF e, n
<1>4. ~(e + 2 <= n)
  BY <1>1, <1>2
<1>. QED BY <1>3, <1>4

\* GetBody and the loops of GetQueries and GetHeaders run off, or clear a body of an
\* impossible length, only in a request that ends before the empty line or whose
\* sender has left out a '=' or ':' or has announced such a length, or that takes
\* its parameters from behind the first line.
THEOREM OnlyMalformedEverRunOff == Spec => []OnlyMalformedRunOff
<1>1. ASSUME ParsedInv
      PROVE  OnlyMalformedRunOff
  <2>1. RunOffInv /\ (pc = "over" => Received)
    BY <1>1 DEF ParsedInv, ParserInv
  <2>2. ASSUME fate = "badLength", Colons(sent)
        PROVE  LengthOf(sent) \notin -1 .. MaxInt - 1
    <3>1. Parsed /\ BadLength /\ pc = "over"
      BY <2>1, <2>2 DEF RunOffInv, RunOffs
    <3>2. Received /\ HeadersListed(Len(Headers(sent)))
      BY <2>1, <2>2, <3>1 DEF Parsed
    <3>3. ContentLength = LengthOf(sent)
      BY <3>2, LengthIs
    <3>. QED BY <3>1, <3>3 DEF BadLength
  <2>3. fate = "noValue" => EmptyLine(1) = 0 \/ ~Equals(sent) \/ StrayQuery(sent)
    BY <2>1, CutBefore DEF RunOffInv
  <2>4. fate \in {"noColon", "noEmptyLine"} => EmptyLine(1) = 0 \/ ~Colons(sent)
    BY <2>1, CutBefore DEF RunOffInv
  <2>. QED BY <2>2, <2>3, <2>4 DEF OnlyMalformedRunOff
<1>2. ParsedInv => OnlyMalformedRunOff
  BY <1>1
<1>. QED BY <1>2, RequestsKept, PTL

LEMMA LastOfIs ==
  ASSUME NEW T, NEW pairs \in Seq(T), NEW name, NEW n, n = Len(pairs)
  PROVE  \/ LastOf(pairs, name) = NULL /\ \A i \in 1 .. n : pairs[i].name # name
         \/ \E j \in 1 .. n : /\ LastOf(pairs, name) = pairs[j].value /\ pairs[j].name = name
                              /\ \A k \in j + 1 .. n : pairs[k].name # name
<1>. DEFINE I == {i \in 1 .. Len(pairs) : pairs[i].name = name}
<1>1. /\ I = {} => LastOf(pairs, name) = NULL
      /\ I # {} /\ Max(I) # 0 => LastOf(pairs, name) = pairs[Max(I)].value
  BY DEF LastOf, SelectLastInSeq
<1>2. n \in Nat /\ I \subseteq 1 .. n
  BY LenProperties
<1>3. CASE I = {}
  BY <1>1, <1>3
<1>4. CASE I # {}
  <2>1. \A i \in I : i \in 1 .. n /\ pairs[i].name = name
    OBVIOUS
  <2>2. \A i \in 1 .. n : i \notin I => pairs[i].name # name
    OBVIOUS
  <2>. HIDE DEF I
  <2>3. Max(I) \in I /\ \A j \in I : j <= Max(I)
    BY <1>2, <1>4, LastPlace
  <2>. DEFINE j == Max(I)
  <2>4. j \in 1 .. n /\ j # 0 /\ \A k \in j + 1 .. n : k \in 1 .. n /\ ~(k <= j)
    <3>1. j \in 1 .. n
      BY <1>2, <2>3
    <3>. HIDE DEF j
    <3>. QED BY <1>2, <3>1
  <2>5. pairs[j].name = name /\ \A k \in j + 1 .. n : pairs[k].name # name
    BY <2>1, <2>2, <2>3, <2>4
  <2>6. LastOf(pairs, name) = pairs[j].value
    BY <1>1, <1>4, <2>4
  <2>. HIDE DEF j
  <2>. QED BY <2>4, <2>5, <2>6
<1>. QED BY <1>3, <1>4

LEMMA QueryAsSent ==
  ASSUME Received, QueryListed(Len(sent.query)), NEW name
  PROVE  LookUp(rq.query, <<name>>) =
           LET v == LastOf(sent.query, name) IN IF v = NULL THEN NULL ELSE ValueText(v)
<1>. DEFINE q == Len(sent.query)   v == LookUp(rq.query, <<name>>)   z == LastOf(sent.query, name)
            N == QNames(sent)   V == QValues(sent)
<1>1. RequestOK(sent) /\ sent.query \in Seq(Pairs) /\ q \in Nat
  BY ReceivedLayout DEF RequestOK
<1>2. \/ v = NULL /\ \A j \in 1 .. q : N[j] # <<name>>
      \/ \E j \in 1 .. q : /\ v = V[j] /\ N[j] = <<name>>
                           /\ \A k \in j + 1 .. q : N[k] # <<name>>
  BY DEF QueryListed, Listed
<1>3. \A j \in 1 .. q : /\ N[j] = <<sent.query[j].name>>
                        /\ V[j] = ValueText(sent.query[j].value)
  BY DEF QNames, QValues
<1>4. \A j \in 1 .. q : N[j] = <<name>> <=> sent.query[j].name = name
  BY <1>3
<1>5. \/ z = NULL /\ \A i \in 1 .. q : sent.query[i].name # name
      \/ \E j \in 1 .. q : /\ z = sent.query[j].value /\ sent.query[j].name = name
                           /\ \A k \in j + 1 .. q : sent.query[k].name # name
  <2>1. PICK u : u = sent.query
    OBVIOUS
  <2>2. u \in Seq(Pairs) /\ q = Len(u)
    BY <1>1, <2>1
  <2>3. \/ LastOf(u, name) = NULL /\ \A i \in 1 .. q : u[i].name # name
        \/ \E j \in 1 .. q : /\ LastOf(u, name) = u[j].value /\ u[j].name = name
                             /\ \A k \in j + 1 .. q : u[k].name # name
    <3>. HIDE DEF q
    <3>. QED BY <2>2, LastOfIs
  <2>. QED BY <2>1, <2>3
<1>6. \A j \in 1 .. q : sent.query[j].value # NULL
  <2>1. ASSUME NEW j \in 1 .. q PROVE sent.query[j].value # NULL
    <3>1. sent.query[j] \in Pairs
      BY <1>1, ElementOfSeq
    <3>2. sent.query[j].value \in Symbols
      BY <3>1 DEF Pairs, Symbols, Marks
    <3>. QED BY <3>2, NullAssumption
  <2>. QED BY <2>1
<1>. HIDE DEF q, v, z, N, V
<1>7. \A j, k \in 1 .. q : j = k \/ j \in k + 1 .. q \/ k \in j + 1 .. q
  BY <1>1
<1>8. CASE \A j \in 1 .. q : N[j] # <<name>>
  <2>1. v = NULL /\ z = NULL
    BY <1>2, <1>4, <1>5, <1>8
  <2>. QED BY <2>1 DEF v, z
<1>9. CASE \E j \in 1 .. q : N[j] = <<name>>
  <2>1. PICK j \in 1 .. q : /\ v = V[j] /\ N[j] = <<name>>
                            /\ \A k \in j + 1 .. q : N[k] # <<name>>
    BY <1>2, <1>9
  <2>2. PICK i \in 1 .. q : /\ z = sent.query[i].value /\ sent.query[i].name = name
                            /\ \A k \in i + 1 .. q : sent.query[k].name # name
    BY <1>4, <1>5, <1>9
  <2>3. i = j
    <3>1. i \notin j + 1 .. q /\ j \notin i + 1 .. q
      BY <1>4, <2>1, <2>2
    <3>. QED BY <1>7, <3>1
  <2>4. v = ValueText(z) /\ z # NULL
    BY <1>3, <1>6, <2>1, <2>2, <2>3
  <2>. QED BY <2>4 DEF v, z
<1>. QED BY <1>8, <1>9

LEMMA HostAsSent ==
  ASSUME Received, HeadersListed(Len(Headers(sent)))
  PROVE  LookUp(rq.headers, <<"Host">>) = LastOf(sent.headers, "Host")
<1>. DEFINE h == Headers(sent)   m == Len(h)   q == Len(sent.headers)   N == HNames(sent)
            V == HValues(sent)   v == LookUp(rq.headers, <<"Host">>)
            z == LastOf(sent.headers, "Host")
<1>1. RequestOK(sent) /\ sent.headers \in Seq(HeaderPairs) /\ q \in Nat /\ m \in Nat
  <2>1. sent.headers \in Seq(HeaderPairs)
    BY ReceivedLayout DEF RequestOK
  <2>. QED BY <2>1, ReceivedLayout, LenProperties
<1>2. \/ v = NULL /\ \A j \in 1 .. m : N[j] # <<"Host">>
      \/ \E j \in 1 .. m : /\ v = V[j] /\ N[j] = <<"Host">>
                           /\ \A k \in j + 1 .. m : N[k] # <<"Host">>
  BY DEF HeadersListed, Listed
<1>3. /\ q <= m /\ (m = q \/ m = q + 1)
      /\ \A j \in 1 .. q : N[j] = <<sent.headers[j].name>> /\ V[j] = sent.headers[j].value
      /\ \A j \in 1 .. m : j \notin 1 .. q => N[j] # <<"Host">>
  <2>1. \A j \in 1 .. m : N[j] = <<h[j].name>> /\ V[j] = h[j].value
    BY DEF HNames, HValues
  <2>2. CASE sent.length = "none"
    <3>1. h = sent.headers
      BY <1>1, <2>2, HeadersType
    <3>2. m = q
      BY <3>1
    <3>. QED BY <1>1, <2>1, <3>1, <3>2
  <2>3. CASE sent.length # "none"
    <3>1. /\ m = q + 1 /\ \A i \in 1 .. q : h[i] = sent.headers[i]
          /\ h[q + 1] = [name |-> "Content-Length", mark |-> ":", value |-> <<sent.length>>]
      BY <1>1, <2>3, HeadersType
    <3>2. h[m].name = "Content-Length"
      BY <3>1
    <3>. HIDE DEF h, m, q, N, V
    <3>3. /\ q <= m /\ \A j \in 1 .. q : j \in 1 .. m
          /\ \A j \in 1 .. m : j \notin 1 .. q => j = m
      BY <1>1, <3>1
    <3>4. <<"Content-Length">> # <<"Host">>
      OBVIOUS
    <3>. QED BY <2>1, <3>1, <3>2, <3>3, <3>4
  <2>. QED BY <2>2, <2>3
<1>4. \A j \in 1 .. q : sent.headers[j].name = "Host"
  <2>1. \A j \in DOMAIN sent.headers : sent.headers[j].name = "Host"
    BY <1>1 DEF RequestOK
  <2>. QED BY <1>1, <2>1, LenProperties
<1>5. \/ z = NULL /\ \A i \in 1 .. q : sent.headers[i].name # "Host"
      \/ \E j \in 1 .. q : /\ z = sent.headers[j].value /\ sent.headers[j].name = "Host"
                           /\ \A k \in j + 1 .. q : sent.headers[k].name # "Host"
  <2>. DEFINE name == "Host"
  <2>. HIDE DEF name
  <2>1. \/ LastOf(sent.headers, name) = NULL /\ \A i \in 1 .. q : sent.headers[i].name # name
        \/ \E j \in 1 .. q : /\ LastOf(sent.headers, name) = sent.headers[j].value
                             /\ sent.headers[j].name = name
                             /\ \A k \in j + 1 .. q : sent.headers[k].name # name
    <3>1. sent.headers \in Seq(HeaderPairs) /\ q = Len(sent.headers)
      BY <1>1
    <3>. HIDE DEF q
    <3>. QED BY <3>1, LastOfIs
  <2>. QED BY <2>1 DEF name
<1>. HIDE DEF h, m, q, N, V, v, z
<1>6. \A j \in 1 .. q : N[j] = <<"Host">> /\ j \in 1 .. m
  BY <1>1, <1>3, <1>4
<1>7. \A j, k \in 1 .. q : j = k \/ j \in k + 1 .. q \/ k \in j + 1 .. q
  BY <1>1
<1>8. CASE q = 0
  <2>1. \A j \in 1 .. q : FALSE
    BY <1>8
  <2>2. \A j \in 1 .. m : N[j] # <<"Host">>
    BY <1>3, <2>1
  <2>3. v = NULL /\ z = NULL
    BY <1>2, <1>5, <2>1, <2>2
  <2>. QED BY <2>3 DEF v, z
<1>9. CASE q # 0
  <2>1. q \in 1 .. q
    BY <1>1, <1>9
  <2>2. PICK j \in 1 .. m : /\ v = V[j] /\ N[j] = <<"Host">>
                            /\ \A k \in j + 1 .. m : N[k] # <<"Host">>
    BY <1>2, <1>6, <2>1
  <2>3. j \in 1 .. q
    BY <1>3, <2>2
  <2>4. PICK i \in 1 .. q : /\ z = sent.headers[i].value /\ sent.headers[i].name = "Host"
                            /\ \A k \in i + 1 .. q : sent.headers[k].name # "Host"
    BY <1>4, <1>5, <2>1
  <2>5. i = j
    <3>1. \A k \in j + 1 .. q : k \in j + 1 .. m
      BY <1>1, <1>3, <2>3
    <3>2. i \notin j + 1 .. q /\ j \notin i + 1 .. q
      BY <1>4, <1>6, <2>2, <2>3, <2>4, <3>1
    <3>. QED BY <1>7, <2>3, <3>2
  <2>6. v = z
    BY <1>3, <2>2, <2>3, <2>4, <2>5
  <2>. QED BY <2>6 DEF v, z
<1>. QED BY <1>8, <1>9

LEMMA PossibleLengths == \A d \in -1 .. MaxInt - 1 : d \in Nat \cup {-1}
<1>1. MaxInt \in Int
  BY SMT DEF MaxInt
<1>2. \A i, d \in Int : d \in -1 .. i - 1 => d \in Nat \cup {-1}
  OBVIOUS
<1>. QED BY <1>1, <1>2

\* The part of the body that was read, and all that the sender means by it.
LEMMA BodyAsSent ==
  ASSUME Received, HeadersListed(Len(Headers(sent))), ~BadLength
  PROVE  /\ Complete => BodyOf = BodyMeant
         /\ BodyOf # NULL => \E k \in Nat : \E j \in Nat :
              /\ k <= j /\ j <= Len(Rest(sent))
              /\ BodyOf = SubSeq(Rest(sent), 1, k) /\ BodyMeant = SubSeq(Rest(sent), 1, j)
<1>. DEFINE n == Len(text)   u == Rest(sent)   r == Len(u)   e == Ends(sent)[Len(Headers(sent))]
            c == e + 2   d == LengthOf(sent)
            k == IF n - c <= d THEN n - c ELSE d   j == IF d <= r THEN d ELSE r
<1>1. /\ e \in Nat /\ r \in Nat /\ n \in Nat /\ n <= c + r /\ Len(Text(sent)) = c + r
  BY RestSeen
<1>2. RequestOK(sent) /\ u \in Seq(Symbols)
  BY RestType DEF Received
<1>3. ContentLength = d
  BY LengthIs
<1>4. Complete => n = c + r
  BY <1>1 DEF Complete
<1>5. u = SubSeq(u, 1, r)
  BY <1>2, SubSeqFull
<1>6. u # NULL
  BY <1>2, NullAssumption
<1>7. EmptyLine(1) = IF c <= n THEN e - 1 ELSE 0
  BY EmptyLineFound
<1>8. e >= 7
  BY LastLineEnds
<1>9. CASE ~(c <= n)
  <2>1. EmptyLine(1) = 0
    BY <1>7, <1>9
  <2>2. BodyOf = NULL
    BY <2>1 DEF BodyOf
  <2>. HIDE DEF n, r, e
  <2>3. n # c + r
    BY <1>1, <1>9
  <2>. QED BY <1>4, <2>2, <2>3
<1>10. CASE c <= n
  <2>1. EmptyLine(1) # 0
    <3>. HIDE DEF e, n
    <3>1. e - 1 # 0
      BY <1>1, <1>8
    <3>. QED BY <1>7, <1>10, <3>1
  <2>2. d \in -1 .. MaxInt - 1
    <3>. HIDE DEF d
    <3>. QED BY <1>3, <2>1 DEF BadLength
  <2>3. d \in Nat \cup {-1}
    <3>. HIDE DEF d
    <3>. QED BY <2>2, PossibleLengths
  <2>4. BodyOf = IF n < c THEN NULL
                 ELSE IF d # -1 THEN SubSeq(u, 1, k)
                 ELSE IF sent.closed /\ n = Len(Text(sent)) THEN u ELSE NULL
    <3>. HIDE DEF d
    <3>1. BodyOf = IF n < c THEN NULL
                   ELSE IF d # -1 THEN SubSeq(u, 1, IF n - c <= d THEN n - c ELSE d)
                   ELSE IF sent.closed /\ n = Len(Text(sent)) THEN u ELSE NULL
      BY <1>3, <2>3, BodyIs
    <3>. QED BY <3>1
  <2>5. ~(n < c)
    <3>. HIDE DEF e, n
    <3>. QED BY <1>1, <1>10
  <2>6. CASE d # -1
    <3>0. d \in Nat
      <4>. HIDE DEF d
      <4>. QED BY <2>3, <2>6
    <3>1. BodyMeant = SubSeq(u, 1, j)
      <4>1. BodyMeant = SubSeq(u, 1, Min({d, r}))
        BY <2>6 DEF BodyMeant
      <4>. HIDE DEF d, r
      <4>2. Min({d, r}) = j
        BY <1>1, <3>0, FirstOfTwo
      <4>. QED BY <4>1, <4>2
    <3>2. BodyOf = SubSeq(u, 1, k)
      BY <2>4, <2>5, <2>6
    <3>. HIDE DEF n, u, r, e, d
    <3>3. k \in Nat /\ k <= j /\ j <= r /\ j \in Nat
      BY <1>1, <2>5, <3>0
    <3>4. n = c + r => k = j
      BY <1>1, <3>0
    <3>. HIDE DEF k, j
    <3>. QED BY <1>4, <3>1, <3>2, <3>3, <3>4 DEF u, r
  <2>7. CASE d = -1
    <3>1. BodyMeant = IF sent.closed THEN u ELSE NULL
      BY <2>7 DEF BodyMeant
    <3>2. BodyOf = IF sent.closed /\ n = Len(Text(sent)) THEN u ELSE NULL
      BY <2>4, <2>5, <2>7
    <3>3. Complete => n = Len(Text(sent))
      BY DEF Complete
    <3>. HIDE DEF n, u, r, e, d, k, j
    <3>4. Complete => BodyOf = BodyMeant
      BY <3>1, <3>2, <3>3
    <3>5. BodyOf # NULL => BodyOf = u /\ BodyMeant = u
      BY <3>1, <3>2
    <3>6. BodyOf # NULL => r \in Nat /\ r <= r /\ BodyOf = SubSeq(u, 1, r) /\ BodyMeant = SubSeq(u, 1, r)
      BY <1>1, <1>5, <3>5
    <3>. QED BY <3>4, <3>6 DEF u, r
  <2>. QED BY <2>6, <2>7
<1>. QED BY <1>9, <1>10

\* A body is the front part of what follows the empty line, whatever the headers say.
LEMMA BodyIsFront ==
  ASSUME Received, ~BadLength, BodyOf # NULL
  PROVE  \E k \in Nat : k <= Len(Rest(sent)) /\ BodyOf = SubSeq(Rest(sent), 1, k)
<1>. DEFINE n == Len(text)   u == Rest(sent)   r == Len(u)   e == Ends(sent)[Len(Headers(sent))]
            c == e + 2   d == ContentLength   k == IF n - c <= d THEN n - c ELSE d
<1>1. /\ e \in Nat /\ r \in Nat /\ n \in Nat /\ n <= c + r
  BY RestSeen
<1>2. u \in Seq(Symbols)
  BY RestType DEF Received
<1>3. u = SubSeq(u, 1, r)
  BY <1>2, SubSeqFull
<1>4. EmptyLine(1) # 0
  BY DEF BodyOf
<1>5. d \in Nat \cup {-1}
  <2>1. d \in -1 .. MaxInt - 1
    BY <1>4 DEF BadLength
  <2>. HIDE DEF d
  <2>. QED BY <2>1, PossibleLengths
<1>6. BodyOf = IF n < c THEN NULL
               ELSE IF d # -1 THEN SubSeq(u, 1, k)
               ELSE IF sent.closed /\ n = Len(Text(sent)) THEN u ELSE NULL
  <2>1. PICK x \in Nat \cup {-1} : x = ContentLength
    BY <1>5
  <2>2. BodyOf = IF n < c THEN NULL
                 ELSE IF x # -1 THEN SubSeq(u, 1, IF n - c <= x THEN n - c ELSE x)
                 ELSE IF sent.closed /\ n = Len(Text(sent)) THEN u ELSE NULL
    BY <2>1, BodyIs
  <2>. QED BY <2>1, <2>2
<1>7. CASE d # -1
  <2>1. ~(n < c) /\ BodyOf = SubSeq(u, 1, k)
    BY <1>6, <1>7
  <2>2. k \in Nat /\ k <= r
    <3>. HIDE DEF n, u, r, e, d
    <3>. QED BY <1>1, <1>5, <1>7, <2>1
  <2>. HIDE DEF k
  <2>. QED BY <2>1, <2>2
<1>8. CASE d = -1
  <2>1. BodyOf = SubSeq(u, 1, r)
    BY <1>3, <1>6, <1>8
  <2>2. r \in Nat /\ r <= r
    BY <1>1
  <2>. QED BY <2>1, <2>2
<1>. QED BY <1>7, <1>8

\* A shorter front part is a prefix of a longer one.
LEMMA FrontIsPrefix ==
  ASSUME NEW S, NEW u \in Seq(S), NEW k \in Nat, NEW j \in Nat, k <= j, j <= Len(u)
  PROVE  /\ SubSeq(u, 1, k) \in Seq(S) /\ SubSeq(u, 1, j) \in Seq(S)
         /\ IsPrefix(SubSeq(u, 1, k), SubSeq(u, 1, j))
<1>. DEFINE a == SubSeq(u, 1, k)   b == SubSeq(u, 1, j)   n == Len(u)
<1>0. n \in Nat
  BY LenProperties
<1>1. j <= n /\ k <= n
  <2>. HIDE DEF n
  <2>1. j <= n
    BY DEF n
  <2>. QED BY <1>0, <2>1
<1>2. Long(a, k, S) /\ Holds(u, 0, a, k) /\ Long(b, j, S) /\ Holds(u, 0, b, j)
  BY <1>1, FrontPart
<1>. HIDE DEF a, b
<1>3. a \in Seq(S) /\ b \in Seq(S) /\ Len(a) = k /\ Len(b) = j
  BY <1>2 DEF Long
<1>4. \A p \in 1 .. k : a[p] = b[p]
  <2>1. \A p \in 1 .. k : p \in 1 .. j /\ 0 + p = p
    OBVIOUS
  <2>. QED BY <1>2, <2>1 DEF Holds
<1>5. IsPrefix(a, b)
  BY <1>3, <1>4, PrefixIs
<1>. QED BY <1>3, <1>5 DEF a, b

\* What the handlers are given when the request's type is supported.
LEMMA GivenToHandlers ==
  ASSUME ParsedInv, pc \in Later
  PROVE  /\ Received
         /\ \/ rq = EmptyReq /\ MethodOf(sent.method) = "UNSUPPORTED"
            \/ Parsed /\ rq.body = BodyOf /\ ~BadLength /\ MethodOf(sent.method) # "UNSUPPORTED"
         /\ Parsed => /\ rq.type = MethodOf(sent.method)
                       /\ PathIsAsSent /\ QueryIsAsSent /\ HeadersAreAsSent
         /\ handler = LookUp(Handlers, <<rq.type, rq.path>>)
<1>1. /\ Received /\ Finished /\ handler = LookUp(Handlers, <<rq.type, rq.path>>)
  BY DEF ParsedInv, ParserInv, LaterInv, Looked, Later
<1>2. ASSUME Parsed
      PROVE  /\ rq.type = MethodOf(sent.method) /\ rq.type # "UNSUPPORTED"
             /\ PathIsAsSent /\ QueryIsAsSent /\ HeadersAreAsSent
  <2>1. Pathed /\ BehindLine
    BY <1>2 DEF Parsed
  <2>2. rq.type = MethodOf(sent.method) /\ rq.type # "UNSUPPORTED"
    BY <2>1 DEF Pathed, Typed, TypeOf
  <2>3. Len(text) >= 3
    <3>1. Len(text) \in Nat /\ Len(sent.query) \in Nat
      BY <1>1, ReceivedLayout
    <3>2. 4 * Len(sent.query) + 7 <= Len(text)
      BY <2>1 DEF BehindLine
    <3>. QED BY <3>1, <3>2
  <2>4. PathIsAsSent
    BY <2>1, <2>3 DEF Pathed, PathOK, PathIsAsSent
  <2>5. QueryIsAsSent
    <3>1. ASSUME ~StrayQuery(sent), NEW name \in {"name", "age"}
          PROVE  LookUp(rq.query, <<name>>) =
                   LET v == LastOf(sent.query, name) IN IF v = NULL THEN NULL ELSE ValueText(v)
      <4>1. QueryListed(Len(sent.query))
        BY <2>1, <3>1 DEF BehindLine
      <4>. QED BY <1>1, <4>1, QueryAsSent
    <3>. QED BY <3>1 DEF QueryIsAsSent
  <2>6. HeadersAreAsSent
    <3>1. ASSUME Colons(sent)
          PROVE  LookUp(rq.headers, <<"Host">>) = LastOf(sent.headers, "Host")
      <4>1. HeadersListed(Len(Headers(sent)))
        BY <1>2, <3>1 DEF Parsed
      <4>. QED BY <1>1, <4>1, HostAsSent
    <3>. QED BY <3>1 DEF HeadersAreAsSent
  <2>. QED BY <2>2, <2>4, <2>5, <2>6
<1>. QED BY <1>1, <1>2 DEF Finished, TypeOf

\* What a body is in terms of the sender's.
LEMMA BodyGiven ==
  ASSUME ParsedInv, pc \in Later, Parsed
  PROVE  /\ Complete /\ Colons(sent) => rq.body = BodyMeant
         /\ rq.body # NULL =>
              /\ rq.body \in Seq(Symbols) /\ IsPrefix(rq.body, Rest(sent))
              /\ Colons(sent) => BodyMeant # NULL /\ IsPrefix(rq.body, BodyMeant)
<1>. DEFINE u == Rest(sent)
<1>1. Received /\ rq.body = BodyOf /\ ~BadLength
  <2>1. rq.type # "UNSUPPORTED"
    BY DEF Parsed, Pathed, Typed
  <2>. QED BY <2>1, GivenToHandlers DEF EmptyReq
<1>2. u \in Seq(Symbols) /\ Len(u) \in Nat
  BY <1>1, RestType, RestSeen DEF Received
<1>3. Colons(sent) => HeadersListed(Len(Headers(sent)))
  BY DEF Parsed
<1>4. Complete /\ Colons(sent) => BodyOf = BodyMeant
  BY <1>1, <1>3, BodyAsSent
<1>5. ASSUME BodyOf # NULL
      PROVE  BodyOf \in Seq(Symbols) /\ IsPrefix(BodyOf, u)
  <2>1. PICK k \in Nat : k <= Len(u) /\ BodyOf = SubSeq(u, 1, k)
    BY <1>1, <1>5, BodyIsFront
  <2>2. SubSeq(u, 1, Len(u)) = u
    BY <1>2, SubSeqFull
  <2>. HIDE DEF u
  <2>3. PICK j \in Nat : j = Len(u)
    BY <1>2
  <2>4. SubSeq(u, 1, k) \in Seq(Symbols) /\ IsPrefix(SubSeq(u, 1, k), SubSeq(u, 1, j))
    <3>1. k <= j /\ j <= Len(u)
      BY <2>1, <2>3
    <3>. QED BY <1>2, <3>1, FrontIsPrefix
  <2>. QED BY <2>1, <2>2, <2>3, <2>4
<1>6. ASSUME BodyOf # NULL, Colons(sent)
      PROVE  BodyMeant # NULL /\ IsPrefix(BodyOf, BodyMeant)
  <2>1. PICK k \in Nat : \E j \in Nat :
          /\ k <= j /\ j <= Len(u)
          /\ BodyOf = SubSeq(u, 1, k) /\ BodyMeant = SubSeq(u, 1, j)
    BY <1>1, <1>3, <1>6, BodyAsSent
  <2>2. PICK j \in Nat : /\ k <= j /\ j <= Len(u)
                         /\ BodyOf = SubSeq(u, 1, k) /\ BodyMeant = SubSeq(u, 1, j)
    BY <2>1
  <2>. HIDE DEF u
  <2>3. SubSeq(u, 1, j) \in Seq(Symbols) /\ IsPrefix(SubSeq(u, 1, k), SubSeq(u, 1, j))
    BY <1>2, <2>2, FrontIsPrefix
  <2>. QED BY <2>2, <2>3, NullAssumption
<1>. QED BY <1>1, <1>4, <1>5, <1>6

\* ParseParams makes of a complete request of a supported type what its sender
\* meant: the path, the parameters and headers asked for, the last value of each,
\* and a body as long as announced.  Another part of the request gives the path or
\* the parameters only where the request line has none, and the body when a header
\* lacks its ':'; no other request gives anything.
THEOREM AlwaysParsesWhatWasSent == Spec => []ParsesWhatWasSent
<1>1. ASSUME ParsedInv
      PROVE  ParsesWhatWasSent
  <2>1. SUFFICES ASSUME pc = "run", Complete, MethodOf(sent.method) # "UNSUPPORTED"
                 PROVE  /\ rq.type = MethodOf(sent.method)
                        /\ PathIsAsSent /\ QueryIsAsSent /\ HeadersAreAsSent
                        /\ IF Colons(sent) THEN rq.body = BodyMeant
                           ELSE rq.body # NULL => IsPrefix(rq.body, Rest(sent))
    BY DEF ParsesWhatWasSent
  <2>2. pc \in Later
    BY <2>1 DEF Later
  <2>3. Parsed
    BY <1>1, <2>1, <2>2, GivenToHandlers
  <2>4. /\ rq.type = MethodOf(sent.method)
        /\ PathIsAsSent /\ QueryIsAsSent /\ HeadersAreAsSent
    BY <1>1, <2>2, <2>3, GivenToHandlers
  <2>5. /\ Colons(sent) => rq.body = BodyMeant
        /\ rq.body # NULL => IsPrefix(rq.body, Rest(sent))
    BY <1>1, <2>1, <2>2, <2>3, BodyGiven
  <2>. QED BY <2>4, <2>5
<1>2. ParsedInv => ParsesWhatWasSent
  BY <1>1
<1>. QED BY <1>2, RequestsKept, PTL

\* A request cut at any place that ParseParams parses to the end has its path, its
\* parameters and its headers whole; only of its body may something be missing.
THEOREM OnlyTheBodyIsEverCut == Spec => []OnlyTheBodyIsCut
<1>1. ASSUME ParsedInv
      PROVE  OnlyTheBodyIsCut
  <2>1. SUFFICES ASSUME pc = "run", rq.type # "UNSUPPORTED"
                 PROVE  /\ PathIsAsSent /\ QueryIsAsSent /\ HeadersAreAsSent
                        /\ rq.body # NULL =>
                             /\ IsPrefix(rq.body, Rest(sent))
                             /\ Colons(sent) => BodyMeant # NULL /\ IsPrefix(rq.body, BodyMeant)
    BY DEF OnlyTheBodyIsCut
  <2>2. pc \in Later
    BY <2>1 DEF Later
  <2>3. EmptyReq.type = "UNSUPPORTED"
    BY DEF EmptyReq
  <2>4. Parsed
    BY <1>1, <2>1, <2>2, <2>3, GivenToHandlers
  <2>5. PathIsAsSent /\ QueryIsAsSent /\ HeadersAreAsSent
    BY <1>1, <2>2, <2>4, GivenToHandlers
  <2>6. rq.body # NULL => /\ IsPrefix(rq.body, Rest(sent))
                          /\ Colons(sent) => BodyMeant # NULL /\ IsPrefix(rq.body, BodyMeant)
    BY <1>1, <2>2, <2>4, BodyGiven
  <2>. QED BY <2>5, <2>6
<1>2. ParsedInv => OnlyTheBodyIsCut
  BY <1>1
<1>. QED BY <1>2, RequestsKept, PTL

\* The path of a request that is one word is the target, or stands behind the first
\* line when the target is no path.
LEMMA PathAskedFor ==
  ASSUME PathIsAsSent, NEW p \in Paths, rq.path = <<p>>
  PROVE  AskedFor(p)
<1>1. \A x, y : <<x>> = <<y>> => x = y
  OBVIOUS
<1>2. p # "Unknown"
  BY DEF Paths
<1>3. CASE sent.target \in Paths
  BY <1>1, <1>3 DEF PathIsAsSent, AskedFor
<1>4. CASE sent.target \notin Paths
  <2>1. rq.path # Unknown
    BY <1>1, <1>2 DEF Unknown
  <2>2. PICK x \in Behind(sent) \cap Paths : IsPrefix(<<x>>, rq.path)
    BY <1>4, <2>1 DEF PathIsAsSent
  <2>3. x = p
    <3>. DEFINE a == <<x>>   b == <<p>>
    <3>1. /\ a \in Seq(Paths) /\ Len(a) = 1 /\ a[1] = x
          /\ b \in Seq(Paths) /\ Len(b) = 1 /\ b[1] = p
      BY <2>2
    <3>2. IsPrefix(a, b)
      BY <2>2
    <3>. HIDE DEF a, b
    <3>3. \A i \in 1 .. Len(a) : a[i] = b[i]
      BY <3>1, <3>2, PrefixIs
    <3>. QED BY <3>1, <3>3
  <2>. QED BY <1>4, <2>2, <2>3 DEF AskedFor
<1>. QED BY <1>3, <1>4

\* LookUpHandler finds the handler that RegisterMethod was given for the way the
\* request's method begins and for its whole path, and none for any other request;
\* a path behind the first line counts only for a line without one.
THEOREM AlwaysReachesItsHandler == Spec => []ReachesItsHandler
<1>1. ASSUME ParsedInv
      PROVE  ReachesItsHandler
  <2>. DEFINE type == MethodOf(sent.method)
  <2>1. SUFFICES ASSUME pc = "run"
                 PROVE  \/ handler = HandlerFor(type, sent.target)
                        \/ /\ sent.target \notin Paths
                           /\ \E p \in Behind(sent) \cap Paths : handler = HandlerFor(type, p)
    BY DEF ReachesItsHandler
  <2>2. pc \in Later
    BY <2>1 DEF Later
  <2>3. handler = LookUp(Handlers, <<rq.type, rq.path>>)
    BY <1>1, <2>2, GivenToHandlers
  <2>4. handler = IF rq.type = "POST" /\ rq.path = <<"/validate">> THEN "ValidateToken"
                  ELSE IF rq.type = "GET" /\ rq.path = <<"/token">> THEN "AskToken" ELSE NULL
    BY <2>3, HandlerIs
  <2>5. "/token" \in Paths /\ "/validate" \in Paths
    BY DEF Paths
  <2>6. CASE rq = EmptyReq /\ type = "UNSUPPORTED"
    <3>1. rq.type = "UNSUPPORTED"
      BY <2>6 DEF EmptyReq
    <3>. QED BY <2>4, <2>6, <3>1 DEF HandlerFor
  <2>7. CASE Parsed
    <3>1. rq.type = type /\ PathIsAsSent
      BY <1>1, <2>2, <2>7, GivenToHandlers
    <3>. HIDE DEF type
    <3>2. CASE type = "POST" /\ rq.path = <<"/validate">>
      <4>1. handler = "ValidateToken" /\ HandlerFor(type, "/validate") = "ValidateToken"
        BY <2>4, <3>1, <3>2 DEF HandlerFor
      <4>2. AskedFor("/validate")
        BY <2>5, <3>1, <3>2, PathAskedFor
      <4>. QED BY <2>5, <4>1, <4>2 DEF AskedFor
    <3>3. CASE type = "GET" /\ rq.path = <<"/token">>
      <4>1. handler = "AskToken" /\ HandlerFor(type, "/token") = "AskToken"
        BY <2>4, <3>1, <3>3 DEF HandlerFor
      <4>2. AskedFor("/token")
        BY <2>5, <3>1, <3>3, PathAskedFor
      <4>. QED BY <2>5, <4>1, <4>2 DEF AskedFor
    <3>4. CASE /\ ~(type = "POST" /\ rq.path = <<"/validate">>)
               /\ ~(type = "GET" /\ rq.path = <<"/token">>)
      <4>1. handler = NULL
        BY <2>4, <3>1, <3>4
      <4>2. CASE sent.target \in Paths
        <5>1. rq.path = <<sent.target>>
          BY <3>1, <4>2 DEF PathIsAsSent
        <5>2. HandlerFor(type, sent.target) = NULL
          BY <3>4, <5>1 DEF HandlerFor
        <5>. QED BY <4>1, <5>2
      <4>3. CASE sent.target \notin Paths
        <5>1. HandlerFor(type, sent.target) = NULL
          BY <2>5, <4>3 DEF HandlerFor
        <5>. QED BY <4>1, <5>1
      <4>. QED BY <4>2, <4>3
    <3>. QED BY <3>2, <3>3, <3>4
  <2>. QED BY <1>1, <2>2, <2>6, <2>7, GivenToHandlers
<1>2. ParsedInv => ReachesItsHandler
  BY <1>1
<1>. QED BY <1>2, RequestsKept, PTL

-----------------------------------------------------------------------------
(* CheckJwtSign and what is answered.                                      *)

LEMMA SignStays ==
  ASSUME rq' = rq
  PROVE  /\ Dot' = Dot /\ Sign' = Sign /\ Groups' = Groups /\ Agrees' = Agrees
         /\ \A i : DecodedByte(i)' = DecodedByte(i)
<1>1. Dot' = Dot
  BY DEF Dot, SelectLastInSeq
<1>2. Sign' = Sign
  BY <1>1 DEF Sign
<1>3. Groups' = Groups
  BY <1>2 DEF Groups
<1>4. \A i : DecodedByte(i)' = DecodedByte(i)
  BY <1>2, <1>3 DEF DecodedByte
<1>5. Agrees' = Agrees
  BY <1>1, <1>4 DEF Agrees
<1>. QED BY <1>1, <1>2, <1>3, <1>4, <1>5

\* The groups decoded so far are at their place, and the rest of decSign is still zero.
DecodedSoFar ==
  /\ Dot # 0 /\ decoded \in 0 .. Groups
  /\ \A i \in 0 .. 31 :
       stack[i] = IF i \div 3 < decoded THEN Byte(Sign[4 * (i \div 3) + 1], i % 3) ELSE Zero

\* What an answer OK rests on.
Entitled ==
  \/ handler = "AskToken" /\ rs.body # NULL /\ LookUp(rq.query, <<"name">>) # NULL
  \/ handler = "ValidateToken" /\ rs.body = NULL /\ rq.body # NULL
     /\ \E d \in Data : \E token \in Signed(d) : IsPrefix(token, rq.body)

SignInv ==
  /\ pc \in {"sign", "decode", "return", "signed"} => handler = "ValidateToken" /\ rq.body # NULL
  /\ pc = "decode" => DecodedSoFar
  /\ pc \in {"return", "signed"} => (verdict <=> Agrees)
  /\ pc \in {"construct", "release", "write"} /\ rs.status = OK => Entitled

LEMMA BodyType ==
  ASSUME ParsedInv, pc \in Later, rq.body # NULL
  PROVE  rq.body \in Seq(Symbols) /\ IsPrefix(rq.body, Rest(sent)) /\ Received
<1>1. EmptyReq.body = NULL
  BY DEF EmptyReq
<1>2. Received /\ Parsed
  BY <1>1, GivenToHandlers
<1>. QED BY <1>2, BodyGiven

LEMMA GroupsType ==
  ASSUME rq.body \in Seq(Symbols)
  PROVE  Groups \in Nat
<1>. DEFINE words == SubSeq(rq.body, Dot + 1, Len(rq.body))   n == Len(rq.body) - Dot
<1>1. Len(rq.body) \in Nat /\ Dot \in 0 .. Len(rq.body)
  BY DotType
<1>2. n \in Nat
  <2>. DEFINE l == Len(rq.body)   d == Dot
  <2>. HIDE DEF l, d
  <2>1. l - d \in Nat
    BY <1>1 DEF l, d
  <2>. QED BY <2>1 DEF l, d
<1>3. Long(words, n, Symbols)
  BY SignWords
<1>. HIDE DEF words, n
<1>4. Len(Chars(words)) \in Nat
  BY <1>2, <1>3, FirstChars
<1>. QED BY <1>4 DEF Groups, Sign, words

LEMMA SplitsKeeps ==
  ASSUME ParsedInv, SignInv, Splits
  PROVE  SignInv'
<1>1. pc = "sign" /\ rq' = rq /\ handler' = handler
  BY DEF Splits
<1>2. handler = "ValidateToken" /\ rq.body # NULL
  BY <1>1 DEF SignInv
<1>3. Groups \in Nat
  BY <1>1, <1>2, BodyType, GroupsType DEF Later
<1>4. Dot' = Dot /\ Groups' = Groups /\ Agrees' = Agrees
  BY <1>1, SignStays
<1>5. CASE Dot = 0
  <2>1. pc' = "signed" /\ ~verdict' /\ ~Agrees
    BY <1>5 DEF Splits, Agrees
  <2>. QED BY <1>1, <1>2, <1>4, <2>1 DEF SignInv
<1>6. CASE Dot # 0
  <2>1. pc' = "decode" /\ decoded' = 0
        /\ stack' = [i \in 0 .. 38 |-> IF i < 32 THEN Zero ELSE Neighbour]
    BY <1>6 DEF Splits
  <2>2. \A i \in 0 .. 31 : stack'[i] = Zero
    <3>1. \A i \in 0 .. 31 : i \in 0 .. 38 /\ i < 32
      OBVIOUS
    <3>. QED BY <2>1, <3>1
  <2>3. \A i \in 0 .. 31 : ~(i \div 3 < 0)
    OBVIOUS
  <2>4. DecodedSoFar'
    BY <1>3, <1>4, <1>6, <2>1, <2>2, <2>3 DEF DecodedSoFar
  <2>. QED BY <1>1, <1>2, <2>1, <2>4 DEF SignInv
<1>. QED BY <1>5, <1>6

LEMMA DecodeKeeps ==
  ASSUME ParsedInv, SignInv, Base64Decode
  PROVE  SignInv'
<1>1. /\ pc = "decode" /\ pc' = pc /\ rq' = rq /\ handler' = handler /\ decoded < Groups
      /\ decoded' = decoded + 1
      /\ stack' = [i \in 0 .. 38 |->
                     IF i \div 3 = decoded THEN Byte(Sign[4 * decoded + 1], i % 3) ELSE stack[i]]
  BY DEF Base64Decode, parserVars
<1>2. /\ handler = "ValidateToken" /\ rq.body # NULL /\ DecodedSoFar
  BY <1>1 DEF SignInv
<1>3. Groups \in Nat
  BY <1>1, <1>2, BodyType, GroupsType DEF Later
<1>4. Dot' = Dot /\ Groups' = Groups /\ Sign' = Sign
  BY <1>1, SignStays
<1>5. decoded \in Nat /\ decoded + 1 \in 0 .. Groups
  BY <1>1, <1>2, <1>3 DEF DecodedSoFar
<1>6. ASSUME NEW i \in 0 .. 31
      PROVE  stack'[i] = IF i \div 3 < decoded + 1 THEN Byte(Sign[4 * (i \div 3) + 1], i % 3) ELSE Zero
  <2>. DEFINE g == i \div 3
  <2>1. stack'[i] = IF g = decoded THEN Byte(Sign[4 * decoded + 1], i % 3) ELSE stack[i]
    <3>1. i \in 0 .. 38
      OBVIOUS
    <3>. QED BY <1>1, <3>1
  <2>2. stack[i] = IF g < decoded THEN Byte(Sign[4 * g + 1], i % 3) ELSE Zero
    BY <1>2 DEF DecodedSoFar
  <2>3. g \in Nat
    OBVIOUS
  <2>. HIDE DEF g
  <2>4. g < decoded + 1 <=> g < decoded \/ g = decoded
    BY <1>5, <2>3
  <2>5. stack'[i] = IF g < decoded + 1 THEN Byte(Sign[4 * g + 1], i % 3) ELSE Zero
    <3>1. CASE g = decoded
      BY <2>1, <2>4, <3>1
    <3>2. CASE g # decoded
      BY <2>1, <2>2, <2>4, <3>2
    <3>. QED BY <3>1, <3>2
  <2>. QED BY <2>5 DEF g
<1>7. DecodedSoFar'
  <2>1. Dot' # 0
    BY <1>2, <1>4 DEF DecodedSoFar
  <2>. QED BY <1>1, <1>4, <1>5, <1>6, <2>1 DEF DecodedSoFar
<1>. QED BY <1>1, <1>2, <1>7 DEF SignInv

LEMMA CompareKeeps ==
  ASSUME ParsedInv, SignInv, ComparesSign
  PROVE  SignInv'
<1>1. /\ pc = "decode" /\ pc' = "return" /\ rq' = rq /\ handler' = handler /\ decoded = Groups
      /\ verdict' = \A i \in 0 .. 31 : stack[i] = Hmac(SubSeq(rq.body, 1, Dot - 1), i)
  BY DEF ComparesSign
<1>2. /\ handler = "ValidateToken" /\ rq.body # NULL /\ DecodedSoFar
  BY <1>1 DEF SignInv
<1>3. \A i \in 0 .. 31 : stack[i] = DecodedByte(i)
  BY <1>1, <1>2 DEF DecodedSoFar, DecodedByte
<1>4. verdict' <=> Agrees
  <2>1. Dot # 0
    BY <1>2 DEF DecodedSoFar
  <2>. QED BY <1>1, <1>3, <2>1 DEF Agrees
<1>5. Agrees' = Agrees
  BY <1>1, SignStays
<1>. QED BY <1>1, <1>2, <1>4, <1>5 DEF SignInv

LEMMA Stays ==
  ASSUME SignInv, UNCHANGED <<rq, handler, pc, signVars, rs>>
  PROVE  SignInv'
<1>1. /\ rq' = rq /\ handler' = handler /\ pc' = pc /\ stack' = stack /\ decoded' = decoded
      /\ verdict' = verdict /\ rs' = rs
  BY DEF signVars
<1>2. Dot' = Dot /\ Groups' = Groups /\ Sign' = Sign /\ Agrees' = Agrees
  BY <1>1, SignStays
<1>3. DecodedSoFar' = DecodedSoFar
  BY <1>1, <1>2 DEF DecodedSoFar
<1>4. Entitled' = Entitled
  BY <1>1 DEF Entitled
<1>. QED BY <1>1, <1>2, <1>3, <1>4 DEF SignInv

\* ValidateToken says OK only behind a signature that is the right one.
LEMMA PayloadKeeps ==
  ASSUME ParsedInv, SignInv, ValidatesPayload
  PROVE  SignInv'
<1>1. pc = "signed" /\ pc' = "construct" /\ rq' = rq /\ handler' = handler
  BY DEF ValidatesPayload, Responds, UnchangedByHandlers
<1>2. handler = "ValidateToken" /\ rq.body # NULL /\ (verdict <=> Agrees)
  BY <1>1 DEF SignInv
<1>3. rq.body \in Seq(Symbols)
  BY <1>1, <1>2, BodyType DEF Later
<1>4. CASE Responds(FORBIDDEN)
  <2>1. rs'.status # OK
    BY <1>4 DEF Responds, EmptyResp, FORBIDDEN, OK
  <2>. QED BY <1>1, <2>1 DEF SignInv
<1>5. CASE verdict /\ Responds(OK)
  <2>1. rs'.body = NULL
    BY <1>5 DEF Responds, EmptyResp, OK
  <2>2. \E d \in Data : \E token \in Signed(d) : IsPrefix(token, rq.body)
    BY <1>2, <1>3, <1>5, AgreesOnlyWith
  <2>3. Entitled'
    BY <1>1, <1>2, <2>1, <2>2 DEF Entitled
  <2>. QED BY <1>1, <2>3 DEF SignInv
<1>. QED BY <1>4, <1>5 DEF ValidatesPayload

LEMMA HandlersKeep ==
  ASSUME SignInv, NoHandler \/ AskToken \/ ValidateToken
  PROVE  SignInv'
<1>1. pc = "run" /\ rq' = rq /\ handler' = handler
  BY DEF NoHandler, AskToken, ValidateToken, UnchangedByHandlers
<1>2. CASE \E status \in {BAD_REQUEST, FORBIDDEN} : Responds(status)
  <2>1. rs'.status # OK /\ pc' = "construct"
    BY <1>2 DEF Responds, EmptyResp, BAD_REQUEST, FORBIDDEN, OK
  <2>. QED BY <2>1 DEF SignInv
<1>3. CASE /\ handler = "AskToken" /\ LookUp(rq.query, <<"name">>) # NULL
           /\ pc' = "construct"
           /\ \E n \in Documents :
                rs' = [status |-> OK, contentType |-> Piece("plain/text", 10), body |-> ConstructJwt(n)]
  <2>1. rs'.body # NULL
    BY <1>3, TokenAnswer
  <2>2. Entitled'
    BY <1>1, <1>3, <2>1 DEF Entitled
  <2>. QED BY <1>3, <2>2 DEF SignInv
<1>4. CASE handler = "ValidateToken" /\ rq.body # NULL /\ pc' = "sign"
  BY <1>1, <1>4 DEF SignInv
<1>. QED BY <1>2, <1>3, <1>4 DEF NoHandler, AskToken, ValidateToken

LEMMA SignStep ==
  ASSUME ParsedInv, SignInv, [Next]_vars
  PROVE  SignInv'
<1>1. CASE Accepts \/ Reads \/ Parses
  <2>1. pc' \notin {"sign", "decode", "return", "signed", "construct", "release", "write"}
    <3>1. CASE Accepts \/ Reads \/ GetRequestType \/ GetRequestPath
      BY <3>1 DEF Accepts, Reads, GetRequestType, GetRequestPath
    <3>2. CASE GetQueries \/ GetBody \/ LookUpHandler
      BY <3>2 DEF GetQueries, GetBody, LookUpHandler, RunsOff
    <3>3. CASE AddsQuery
      BY <3>3 DEF AddsQuery, RunsOff
    <3>4. CASE AddsHeader
      BY <3>4 DEF AddsHeader, RunsOff
    <3>5. CASE HeadersRunOff \/ HeadersEnd
      BY <3>5 DEF HeadersRunOff, HeadersEnd, RunsOff
    <3>. QED BY <1>1, <3>1, <3>2, <3>3, <3>4, <3>5 DEF Parses
  <2>. QED BY <2>1 DEF SignInv
<1>2. CASE Over \/ UNCHANGED vars
  <2>1. UNCHANGED <<rq, handler, pc, signVars, rs>>
    BY <1>2 DEF Over, vars, parserVars, responseVars
  <2>. QED BY <2>1, Stays
<1>3. CASE NoHandler \/ AskToken \/ ValidateToken
  BY <1>3, HandlersKeep
<1>4. CASE ValidatesPayload
  BY <1>4, PayloadKeeps
<1>5. CASE ChecksSign
  <2>1. CASE Returns
    <3>1. /\ pc = "return" /\ pc' \in {"signed", "over"} /\ rq' = rq /\ handler' = handler
          /\ verdict' = verdict
      BY <2>1 DEF Returns, signVars
    <3>2. Agrees' = Agrees
      BY <3>1, SignStays
    <3>. QED BY <3>1, <3>2 DEF SignInv
  <2>. QED BY <1>5, <2>1, SplitsKeeps, DecodeKeeps, CompareKeeps DEF ChecksSign
<1>6. CASE Copies \/ ReleaseReq
  <2>1. /\ pc \in {"construct", "release"} /\ pc' \in {"release", "write", "over"}
        /\ rq' = rq /\ handler' = handler /\ rs' = rs
    BY <1>6 DEF Copies, ReleaseReq, responseVars
  <2>2. Entitled' = Entitled
    BY <2>1 DEF Entitled
  <2>. QED BY <2>1, <2>2 DEF SignInv
<1>7. CASE Writes
  <2>1. pc' = "over"
    BY <1>7 DEF Writes
  <2>. QED BY <2>1 DEF SignInv
<1>. QED BY <1>1, <1>2, <1>3, <1>4, <1>5, <1>6, <1>7 DEF Next

LEMMA SignaturesKept == Spec => [](ParsedInv /\ SignInv)
<1>1. Init => ParsedInv /\ SignInv
  BY ParsedStart DEF Init, SignInv
<1>2. (ParsedInv /\ SignInv) /\ [Next]_vars => (ParsedInv /\ SignInv)'
  BY ParsedStep, SignStep
<1>. QED BY <1>1, <1>2, PTL DEF Spec

\* CheckJwtSign decodes whatever stands behind the last dot, without a length, and
\* compares 32 bytes: it returns true exactly for data, a dot and words that decode
\* to the signature of that data, followed by anything without a dot.
THEOREM AlwaysAcceptsOnlyTheSignature == Spec => []AcceptsOnlyTheSignature
<1>1. ASSUME ParsedInv, SignInv
      PROVE  AcceptsOnlyTheSignature
  <2>. DEFINE Begins == \E d \in Data : \E token \in Signed(d) : IsPrefix(token, rq.body)
  <2>1. SUFFICES ASSUME pc = "signed"
                 PROVE  verdict <=> Dot = 2 /\ Begins
    BY DEF AcceptsOnlyTheSignature
  <2>2. rq.body # NULL /\ (verdict <=> Agrees)
    BY <1>1, <2>1 DEF SignInv
  <2>3. rq.body \in Seq(Symbols)
    BY <1>1, <2>1, <2>2, BodyType DEF Later
  <2>4. Agrees => Dot = 2 /\ Begins
    BY <2>3, AgreesOnlyWith
  <2>5. Dot = 2 /\ Begins => Agrees
    BY <2>3, AgreesWithSignature
  <2>. QED BY <2>2, <2>4, <2>5
<1>2. ParsedInv /\ SignInv => AcceptsOnlyTheSignature
  BY <1>1
<1>. QED BY <1>2, SignaturesKept, PTL

\* No mark is a word of a signature or of data.
LEMMA SignedWords ==
  ASSUME NEW d \in Data, NEW token \in Signed(d)
  PROVE  token \in Seq(Symbols) /\ Len(token) = 4 /\ \A p \in 1 .. 4 : token[p] # "CR"
<1>1. PICK a \in SignHead[d], b \in SignEnd[d] : token = <<d, ".", a, b>>
  BY DEF Signed
<1>2. d \in Words /\ a \in Words /\ b \in Words
  BY WordsApart, SignaturesAssumption
<1>3. \A w \in Words : w \in Symbols /\ w # "CR"
  BY Apart DEF Symbols
<1>4. "." \in Symbols /\ "." # "CR"
  BY DEF Symbols, Marks
<1>5. d \in Symbols /\ a \in Symbols /\ b \in Symbols /\ d # "CR" /\ a # "CR" /\ b # "CR"
  BY <1>2, <1>3
<1>6. /\ Long(token, 4, Symbols)
      /\ token[1] = d /\ token[2] = "." /\ token[3] = a /\ token[4] = b
  BY <1>1, <1>4, <1>5, Singles
<1>7. \A p \in 1 .. 4 : p = 1 \/ p = 2 \/ p = 3 \/ p = 4
  OBVIOUS
<1>8. \A p \in 1 .. 4 : token[p] # "CR"
  BY <1>4, <1>5, <1>6, <1>7
<1>. QED BY <1>6, <1>8 DEF Long

\* A token in front of what follows the empty line is in the body: the ends of
\* lines behind it are no part of a signature.
LEMMA SignedInBody ==
  ASSUME NEW u \in Seq(Symbols), NEW d \in Data, NEW s \in Signed(d), IsPrefix(s, u),
         RequestOK(sent), IsPrefix(u, Rest(sent))
  PROVE  IsPrefix(s, sent.body)
<1>. DEFINE r == Rest(sent)   l == Len(sent.body)
<1>1. r \in Seq(Symbols) /\ sent.body \in Seq(Symbols)
  BY RestType DEF RequestOK
<1>2. /\ l \in Nat /\ Len(r) = l + (IF sent.closed THEN 4 ELSE 0)
      /\ \A p \in 1 .. l : r[p] = sent.body[p]
      /\ sent.closed => r[l + 1] = "CR"
  BY RestType
<1>3. s \in Seq(Symbols) /\ Len(s) = 4 /\ \A p \in 1 .. 4 : s[p] # "CR"
  BY SignedWords
<1>4. Len(s) <= Len(u) /\ \A p \in 1 .. Len(s) : s[p] = u[p]
  BY <1>3, PrefixIs
<1>. HIDE DEF r, l
<1>5. Len(u) <= Len(r) /\ \A p \in 1 .. Len(u) : u[p] = r[p]
  <2>1. IsPrefix(u, r)
    BY DEF r
  <2>. QED BY <1>1, <2>1, PrefixIs
<1>6. Len(u) \in Nat
  BY LenProperties
<1>7. 4 <= Len(r) /\ \A p \in 1 .. 4 : s[p] = r[p]
  <2>1. 4 <= Len(u) /\ Len(r) \in Nat
    BY <1>1, <1>3, <1>4, LenProperties
  <2>2. \A p \in 1 .. 4 : p \in 1 .. Len(u)
    BY <1>6, <2>1
  <2>. QED BY <1>3, <1>4, <1>5, <1>6, <2>1, <2>2
<1>8. 4 <= l
  <2>1. SUFFICES ASSUME ~(4 <= l) PROVE FALSE
    OBVIOUS
  <2>2. CASE sent.closed
    <3>1. l + 1 \in 1 .. 4
      BY <1>2, <2>1
    <3>2. r[l + 1] = "CR"
      BY <1>2, <2>2
    <3>. QED BY <1>3, <1>7, <3>1, <3>2
  <2>3. CASE ~sent.closed
    <3>1. Len(r) = l
      BY <1>2, <2>3
    <3>. QED BY <1>7, <2>1, <3>1
  <2>. QED BY <2>2, <2>3
<1>9. \A p \in 1 .. 4 : s[p] = sent.body[p]
  <2>1. \A p \in 1 .. 4 : p \in 1 .. l
    BY <1>2, <1>8
  <2>. QED BY <1>2, <1>7, <2>1
<1>. QED BY <1>1, <1>3, <1>8, <1>9, PrefixIs DEF l

\* A token goes only to a GET of its path that gives a name, and OK to a validation
\* only when its body begins with a token of the service, however the request was
\* cut; path and name come from behind the first line only where that has none.
THEOREM AlwaysAnswersWhatWasAsked == Spec => []AnswersWhatWasAsked
<1>1. ASSUME ParsedInv, SignInv
      PROVE  AnswersWhatWasAsked
  <2>. DEFINE type == MethodOf(sent.method)
  <2>1. SUFFICES ASSUME pc = "write", rs.status = OK
                 PROVE  \/ /\ type = "GET" /\ AskedFor("/token") /\ rs.body # NULL
                           /\ LastOf(sent.query, "name") # NULL \/ StrayQuery(sent)
                        \/ /\ type = "POST" /\ AskedFor("/validate") /\ rs.body = NULL
                           /\ \E d \in Data : \E token \in Signed(d) : IsPrefix(token, sent.body)
    BY DEF AnswersWhatWasAsked
  <2>2. pc \in Later
    BY <2>1 DEF Later
  <2>3. Entitled
    BY <1>1, <2>1 DEF SignInv
  <2>4. handler = IF rq.type = "POST" /\ rq.path = <<"/validate">> THEN "ValidateToken"
                  ELSE IF rq.type = "GET" /\ rq.path = <<"/token">> THEN "AskToken" ELSE NULL
    <3>1. handler = LookUp(Handlers, <<rq.type, rq.path>>)
      BY <1>1, <2>2, GivenToHandlers
    <3>. QED BY <3>1, HandlerIs
  <2>5. NULL # "AskToken" /\ NULL # "ValidateToken" /\ "AskToken" # "ValidateToken"
    BY NullAssumption
  <2>6. Parsed
    <3>1. rq.type # "UNSUPPORTED"
      BY <2>3, <2>4, <2>5 DEF Entitled
    <3>. QED BY <1>1, <2>2, <3>1, GivenToHandlers DEF EmptyReq
  <2>7. rq.type = type /\ PathIsAsSent /\ QueryIsAsSent /\ Received
    BY <1>1, <2>2, <2>6, GivenToHandlers
  <2>8. /\ rq.path = <<"/token">> => AskedFor("/token")
        /\ rq.path = <<"/validate">> => AskedFor("/validate")
    <3>1. "/token" \in Paths /\ "/validate" \in Paths
      BY DEF Paths
    <3>. QED BY <2>7, <3>1, PathAskedFor
  <2>. HIDE DEF type
  <2>9. CASE handler = "AskToken" /\ rs.body # NULL /\ LookUp(rq.query, <<"name">>) # NULL
    <3>1. type = "GET" /\ AskedFor("/token")
      BY <2>4, <2>5, <2>7, <2>8, <2>9
    <3>2. LastOf(sent.query, "name") # NULL \/ StrayQuery(sent)
      BY <2>7, <2>9 DEF QueryIsAsSent
    <3>. QED BY <2>9, <3>1, <3>2
  <2>10. CASE /\ handler = "ValidateToken" /\ rs.body = NULL /\ rq.body # NULL
              /\ \E d \in Data : \E token \in Signed(d) : IsPrefix(token, rq.body)
    <3>1. type = "POST" /\ AskedFor("/validate")
      BY <2>4, <2>5, <2>7, <2>8, <2>10
    <3>2. PICK d \in Data : \E token \in Signed(d) : IsPrefix(token, rq.body)
      BY <2>10
    <3>3. PICK token \in Signed(d) : IsPrefix(token, rq.body)
      BY <3>2
    <3>4. rq.body \in Seq(Symbols) /\ IsPrefix(rq.body, Rest(sent)) /\ RequestOK(sent)
      BY <1>1, <2>2, <2>7, <2>10, BodyType DEF Received
    <3>5. PICK u : u = rq.body
      OBVIOUS
    <3>6. IsPrefix(token, sent.body)
      BY <3>3, <3>4, <3>5, SignedInBody
    <3>. QED BY <2>10, <3>1, <3>6
  <2>. QED BY <2>3, <2>9, <2>10 DEF Entitled
<1>2. ParsedInv /\ SignInv => AnswersWhatWasAsked
  BY <1>1
<1>. QED BY <1>2, SignaturesKept, PTL
=============================================================================
