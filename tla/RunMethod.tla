----------------------------- MODULE RunMethod -----------------------------
(***************************************************************************)
(* One connection of the network thread, from accept to SSL_write: module  *)
(* RequestParser reads and parses, RunMethod calls the handler that is     *)
(* registered, JwtSign checks signatures for ValidateToken, Response       *)
(* answers.  What database and cJSON say is any.                           *)
(***************************************************************************)
EXTENDS Response

vars == <<parserVars, signVars, responseVars>>

Init ==
  /\ text \in Leftovers
  /\ pc = "accept" /\ sent = NULL /\ ptr = 1 /\ rq = EmptyReq /\ handler = NULL
  /\ fate = "fine"
  /\ stack = <<>> /\ decoded = 0 /\ verdict = FALSE
  /\ rs = EmptyResp /\ sendBuf = EmptyBuf /\ written = 0

\* ReleaseReq frees what the request holds, also a path that was not allocated.
ReleaseReq ==
  /\ pc = "release"
  /\ IF rq.path = Unknown THEN pc' = "over" /\ fate' = "freesLiteral"
                          ELSE pc' = "write" /\ UNCHANGED fate
  /\ UNCHANGED <<sent, text, ptr, rq, handler, signVars, responseVars>>

Over == pc = "over" /\ UNCHANGED vars

Next ==
  \/ (Accepts \/ Reads \/ Parses) /\ UNCHANGED <<signVars, responseVars>>
  \/ NoHandler \/ AskToken \/ ValidateToken \/ ValidatesPayload
  \/ ChecksSign /\ UNCHANGED responseVars
  \/ Copies \/ ReleaseReq \/ Writes \/ Over

Spec == Init /\ [][Next]_vars

-----------------------------------------------------------------------------
\* The value a list of the request gives to a name: the last one.
LastOf(pairs, name) ==
  LET i == SelectLastInSeq(pairs, LAMBDA p : p.name = name) IN
  IF i = 0 THEN NULL ELSE pairs[i].value

\* What a body is worth to the handlers.
BodyMeant ==
  IF LengthOf(sent) # -1
    THEN SubSeq(Rest(sent), 1, Min({LengthOf(sent), Len(Rest(sent))}))
  ELSE IF sent.closed THEN Rest(sent) ELSE NULL

Complete == text = Text(sent)

\* The path is the target; for a target that does not begin with '/' it begins
\* with a word that does and comes from a header or the body, if there is one.
PathIsAsSent ==
  IF sent.target \in Paths THEN rq.path = <<sent.target>>
  ELSE rq.path = Unknown \/ \E p \in Behind(sent) \cap Paths : IsPrefix(<<p>>, rq.path)

\* The parameters are the ones in the request line, with their last values, unless
\* it has none and a '?' stands behind it.
QueryIsAsSent ==
  ~StrayQuery(sent) =>
    \A name \in {"name", "age"} :
      LookUp(rq.query, <<name>>) =
        LET v == LastOf(sent.query, name) IN IF v = NULL THEN NULL ELSE ValueText(v)

\* The headers are the ones sent, with their last values, unless a ':' is missing.
HeadersAreAsSent ==
  Colons(sent) => LookUp(rq.headers, <<"Host">>) = LastOf(sent.headers, "Host")

\* A complete request is parsed to what its sender meant.  Text of one part turns
\* up in another only as path or parameters of a request line that has none, or
\* behind a header without ':'; text of an earlier request turns up nowhere.
ParsesWhatWasSent ==
  pc = "run" /\ Complete /\ MethodOf(sent.method) # "UNSUPPORTED" =>
    /\ rq.type = MethodOf(sent.method)
    /\ PathIsAsSent /\ QueryIsAsSent /\ HeadersAreAsSent
    /\ IF Colons(sent) THEN rq.body = BodyMeant
                      ELSE rq.body # NULL => IsPrefix(rq.body, Rest(sent))

\* A request cut anywhere that is parsed to the end has lost at most some of
\* its body: a handler never sees half of the parameters or headers.
OnlyTheBodyIsCut ==
  pc = "run" /\ rq.type # "UNSUPPORTED" =>
    /\ PathIsAsSent /\ QueryIsAsSent /\ HeadersAreAsSent
    /\ rq.body # NULL =>
         /\ IsPrefix(rq.body, Rest(sent))
         /\ Colons(sent) => BodyMeant # NULL /\ IsPrefix(rq.body, BodyMeant)

HandlerFor(type, path) ==
  CASE type = "GET" /\ path = "/token" -> "AskToken"
    [] type = "POST" /\ path = "/validate" -> "ValidateToken"
    [] OTHER -> NULL

\* The first line names the handler, by how its method begins and its whole path;
\* RunMethod answers BAD_REQUEST for another.  Only a line without a path leaves
\* that to a header or the body.
ReachesItsHandler ==
  pc = "run" =>
    \/ handler = HandlerFor(MethodOf(sent.method), sent.target)
    \/ /\ sent.target \notin Paths
       /\ \E p \in Behind(sent) \cap Paths : handler = HandlerFor(MethodOf(sent.method), p)

\* The parser runs off its text, or clears a body of an impossible length, only if
\* what was read ends before the empty line or the sender has left out a '=' or ':'
\* or announced such a length, or if its parameters come from behind the first line.
OnlyMalformedRunOff ==
  /\ fate = "noValue" => EmptyLine(1) = 0 \/ ~Equals(sent) \/ StrayQuery(sent)
  /\ fate \in {"noColon", "noEmptyLine"} => EmptyLine(1) = 0 \/ ~Colons(sent)
  /\ fate = "badLength" => ~Colons(sent) \/ LengthOf(sent) \notin -1 .. MaxInt - 1

\* CheckJwtSign says whether what stands before the last dot is data and what
\* stands behind it begins with a text for the 32 bytes of its signature, whatever
\* follows and wherever the request was cut.
AcceptsOnlyTheSignature ==
  pc = "signed" =>
    (verdict <=> Dot = 2 /\ \E d \in Data : \E token \in Signed(d) : IsPrefix(token, rq.body))

\* The first line names this path, or it names none and the rest of the text does.
AskedFor(path) ==
  sent.target = path \/ (sent.target \notin Paths /\ path \in Behind(sent))

\* However little of a request was read, a token goes only to a GET of its path
\* that gives a name, in the first line or, where that has no parameters, behind a
\* '?' elsewhere; and a validation answered OK was a POST of its path with a token
\* and its whole signature in front of its body.
AnswersWhatWasAsked ==
  pc = "write" /\ rs.status = OK =>
    \/ /\ MethodOf(sent.method) = "GET" /\ AskedFor("/token") /\ rs.body # NULL
       /\ LastOf(sent.query, "name") # NULL \/ StrayQuery(sent)
    \/ /\ MethodOf(sent.method) = "POST" /\ AskedFor("/validate") /\ rs.body = NULL
       /\ \E d \in Data : \E token \in Signed(d) : IsPrefix(token, sent.body)

\* The empty line that ends the headers is at place j.
HeadersEndAt(pieces, j) ==
  /\ pieces[j - 1] = "CRLF" /\ pieces[j] = "CRLF"
  /\ \A i \in 2 .. j - 1 : pieces[i - 1] = "CRLF" => pieces[i] # "CRLF"

\* Up to this many characters of a document, no more, the token leaves room for
\* the terminator in sendBuf.
LargestDocument == 2979
Fits(body) == body.chars <= ConstructJwt(LargestDocument).chars

\* A client that reads up to the first empty line finds the token behind it when
\* there is one, whole if it fits and cut if it does not, and otherwise nothing.
AnswerHasItsBody ==
  pc = "write" =>
    \E j \in 2 .. Len(sendBuf.pieces) :
      /\ HeadersEndAt(sendBuf.pieces, j)
      /\ SubSeq(sendBuf.pieces, j + 1, Len(sendBuf.pieces)) =
           IF rs.body = NULL THEN <<>>
           ELSE IF Fits(rs.body) THEN rs.body.pieces ELSE <<"cut">>

\* SSL_write sends an answer that fits, all of it and nothing else.
WholeAnswerIsWritten ==
  pc = "over" /\ fate = "fine" /\ (rs.body # NULL => Fits(rs.body)) =>
    written = ConstructStrResp(rs).chars

\* The "Test case 3: Valid token validation request" of client.c:133, a token
\* and an empty line that Content-Length counts in, is to be answered.
ValidTokenIsAnswered ==
  pc = "over" /\ Complete /\ sent.closed /\ LengthOf(sent) = Len(Rest(sent)) /\
  handler = "ValidateToken" /\ (\E d \in Data : sent.body \in Signed(d)) => fate = "fine"
=============================================================================
