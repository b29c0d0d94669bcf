--------------------------- MODULE RequestParser ---------------------------
(***************************************************************************)
(* What SSL_read has left in recBuf is parsed and its handler looked up.   *)
(* Position Len + 1 of a text holds its NUL and nothing lies behind it: a  *)
(* pointer that is read beyond has run off, and what happens then is       *)
(* undefined.  The loops over parameters and headers make one step per     *)
(* round.                                                                  *)
(***************************************************************************)
EXTENDS RequestText, ParamList

CONSTANT Leftovers   \* texts that earlier connections may have left in recBuf

ASSUME NullAssumption == NULL \notin Symbols \cup Seq(Symbols) \cup {"AskToken", "ValidateToken"}

VARIABLES
  sent,       \* the request as its sender means it
  text,       \* recBuf up to its NUL
  pc, ptr,    \* the function in progress and its pointer into the text
  rq,         \* struct RequestParam_s
  handler,    \* what LookUpHandler has returned
  fate        \* fine, or how the behaviour became undefined

parserVars == <<sent, text, pc, ptr, rq, handler, fate>>

\* GetRequestPath returns this literal, not a copy, when it finds no path.
Unknown == <<"Unknown">>

\* RegisterMethod, twice; a handler is listed under its type and path.
Handlers ==
  Add(Add(<<>>, <<"GET", <<"/token">>>>, "AskToken"),
      <<"POST", <<"/validate">>>>, "ValidateToken")

At(i) == IF i <= Len(text) THEN text[i] ELSE "NUL"

\* strcspn and strchr: the first of the marks from i on, or the NUL.
NextOf(i, marks) ==
  LET found == SelectInSubSeq(text, i, Len(text), LAMBDA w : w \in marks) IN
  IF found = 0 THEN Len(text) + 1 ELSE found

\* strspn: the first symbol from i on that is another.
After(i, mark) ==
  LET found == SelectInSubSeq(text, i, Len(text), LAMBDA w : w # mark) IN
  IF found = 0 THEN Len(text) + 1 ELSE found

\* Where strtok finds the words between blanks.
Starts == {i \in DOMAIN text : text[i] # "SP" /\ (i = 1 \/ text[i - 1] = "SP")}

EmptyReq ==
  [type |-> "UNSUPPORTED", path |-> NULL, query |-> <<>>, headers |-> <<>>,
   body |-> NULL]

\* Variant: the buffer keeps what an earlier connection has left.
AcceptsWithoutMemset ==
  /\ pc = "accept" /\ pc' = "read"
  /\ UNCHANGED <<sent, text, ptr, rq, handler, fate>>

\* A connection is accepted; memset clears recBuf.
Accepts ==
  /\ pc = "accept" /\ pc' = "read"
  /\ text' = <<>>
  /\ UNCHANGED <<sent, ptr, rq, handler, fate>>

\* One SSL_read brings the request or only the beginning of it.
Reads ==
  /\ pc = "read" /\ pc' = "type"
  /\ \E s \in Requests : \E n \in 1 .. Len(Text(s)) :
       /\ sent' = s
       /\ text' = SubSeq(Text(s), 1, n) \o SubSeq(text, n + 1, Len(text))
  /\ ptr' = 1 /\ rq' = EmptyReq /\ handler' = NULL
  /\ UNCHANGED fate

RunsOff(how) == fate' = how /\ pc' = "over" /\ UNCHANGED <<ptr, rq, handler>>

-----------------------------------------------------------------------------
\* GetRequestType looks at how the first word begins; another type ends ParseParams.
GetRequestType ==
  /\ pc = "type"
  /\ rq' = [rq EXCEPT !.type =
               IF Starts = {} THEN "UNSUPPORTED" ELSE MethodOf(text[Min(Starts)])]
  /\ pc' = IF rq'.type = "UNSUPPORTED" THEN "lookup" ELSE "path"
  /\ UNCHANGED <<sent, text, ptr, handler, fate>>

\* GetRequestPath: the first word, anywhere, that begins with '/', up to '?'.
GetRequestPath ==
  /\ pc = "path"
  /\ LET paths == {i \in Starts : text[i] \in Paths} IN
     rq' = [rq EXCEPT !.path =
              IF paths = {} THEN Unknown
              ELSE SubSeq(text, Min(paths), NextOf(Min(paths), {"SP", "?"}) - 1)]
  /\ pc' = "queries"
  /\ UNCHANGED <<sent, text, ptr, handler, fate>>

\* GetQueries: the first word, anywhere, that has a '?'.  strtok_r skips any '&'
\* before a parameter, here and in AddsQuery.
GetQueries ==
  /\ pc = "queries"
  /\ IF "?" \in ToSet(text)
       THEN ptr' = After(NextOf(1, {"?"}) + 1, "&") /\ pc' = "query"
       ELSE ptr' = NextOf(1, {"LF"}) + 1 /\ pc' = "headers"
  /\ UNCHANGED <<sent, text, rq, handler, fate>>

\* One round over the parameters: the text up to '&', split at its '='.
\* GetHeaders then starts behind the first line.
AddsQuery ==
  /\ pc = "query"
  /\ LET end == NextOf(ptr, {"&", "SP"})
         equals == NextOf(ptr, {"="})
     IN \/ /\ ptr < end /\ equals >= end
           /\ RunsOff("noValue")
        \/ /\ ptr < end /\ equals < end
           /\ rq' = [rq EXCEPT !.query =
                       Add(@, SubSeq(text, ptr, equals - 1),
                              SubSeq(text, equals + 1, end - 1))]
           /\ ptr' = After(end, "&")
           /\ UNCHANGED <<pc, handler, fate>>
        \/ /\ ptr = end
           /\ ptr' = NextOf(1, {"LF"}) + 1 /\ pc' = "headers"
           /\ UNCHANGED <<rq, handler, fate>>
  /\ UNCHANGED <<sent, text>>

\* The test of the loop looks at two characters.
AtEmptyLine == At(ptr) = "CR" \/ At(ptr + 1) = "LF"

\* Variant: only one of the two characters that end a line is skipped.
AddsHeaderAndSkipsOne ==
  /\ pc = "headers" /\ ptr <= Len(text) /\ ~AtEmptyLine
  /\ LET colon == NextOf(ptr, {":"})
         value == After(colon + 1, "SP")
         end == NextOf(value, {"CR", "LF"})
     IN /\ rq' = [rq EXCEPT !.headers = Add(@, SubSeq(text, ptr, colon - 1),
                                               SubSeq(text, value, end - 1))]
        /\ ptr' = end + 1
  /\ UNCHANGED <<sent, text, pc, handler, fate>>

\* One round over the headers: a name up to ':', blanks, a value up to the
\* end of its line.
AddsHeader ==
  /\ pc = "headers" /\ ptr <= Len(text) /\ ~AtEmptyLine
  /\ LET colon == NextOf(ptr, {":"})
         value == After(colon + 1, "SP")
         end == NextOf(value, {"CR", "LF"})
     IN IF colon > Len(text) THEN RunsOff("noColon")
        ELSE /\ rq' = [rq EXCEPT !.headers = Add(@, SubSeq(text, ptr, colon - 1),
                                                    SubSeq(text, value, end - 1))]
             /\ ptr' = end + 2
             /\ UNCHANGED <<pc, handler, fate>>
  /\ UNCHANGED <<sent, text>>

HeadersRunOff ==
  /\ pc = "headers" /\ ptr > Len(text)
  /\ RunsOff("noEmptyLine")
  /\ UNCHANGED <<sent, text>>

HeadersEnd ==
  /\ pc = "headers" /\ ptr <= Len(text) /\ AtEmptyLine
  /\ pc' = "body"
  /\ UNCHANGED <<sent, text, ptr, rq, handler, fate>>

-----------------------------------------------------------------------------
MaxInt == 2147483647

\* The position of "\r\n\r\n" from i on; 0 if there is none.
EmptyLine(i) ==
  LET found == {j \in i .. Len(text) - 3 : SubSeq(text, j, j + 3) = CRLF \o CRLF} IN
  IF found = {} THEN 0 ELSE Min(found)

\* atoi of the value of Content-Length; -1 stands for no such header, and for
\* one that says so.
ContentLength ==
  LET value == LookUp(rq.headers, <<"Content-Length">>) IN
  IF value = NULL THEN -1
  ELSE IF value # <<>> /\ value[1] \in DOMAIN Number THEN Number[value[1]] ELSE 0

\* Variant: the length counts from the empty line.
BodyFromEmptyLine ==
  LET start == EmptyLine(1) IN
  IF start = 0 THEN NULL
  ELSE SubSeq(text, start, Min({Len(text), start + ContentLength - 1}))

\* GetBody: what is announced as far as it is there; without announcement
\* everything up to and with the next empty line, if there is one.
BodyOf ==
  LET start == EmptyLine(1) + 4
      close == EmptyLine(start)
  IN IF EmptyLine(1) = 0 THEN NULL
     ELSE IF ContentLength # -1
       THEN SubSeq(text, start, Min({Len(text), start + ContentLength - 1}))
     ELSE IF close = 0 THEN NULL
     ELSE SubSeq(text, start, close + 3)

\* malloc(contentLength + 1) fails for a negative size and for one that the
\* addition makes negative, and memset writes through NULL.
BadLength == EmptyLine(1) # 0 /\ ContentLength \notin -1 .. MaxInt - 1

GetBody ==
  /\ pc = "body"
  /\ IF BadLength THEN RunsOff("badLength")
     ELSE /\ rq' = [rq EXCEPT !.body = BodyOf]
          /\ pc' = "lookup"
          /\ UNCHANGED <<ptr, handler, fate>>
  /\ UNCHANGED <<sent, text>>

\* Variant: the path alone is compared.
LooksUpPath ==
  /\ pc = "lookup"
  /\ handler' = LET i == SelectInSeq(Handlers, LAMBDA h : h.name[2] = rq.path)
                IN IF i = 0 THEN NULL ELSE Handlers[i].value
  /\ pc' = "run"
  /\ UNCHANGED <<sent, text, ptr, rq, fate>>

\* LookUpHandler, by type and then path; none means BAD_REQUEST.
LookUpHandler ==
  /\ pc = "lookup"
  /\ handler' = LookUp(Handlers, <<rq.type, rq.path>>)
  /\ pc' = "run"
  /\ UNCHANGED <<sent, text, ptr, rq, fate>>

Parses ==
  \/ GetRequestType \/ GetRequestPath \/ GetQueries \/ AddsQuery
  \/ AddsHeader \/ HeadersRunOff \/ HeadersEnd \/ GetBody \/ LookUpHandler
=============================================================================
