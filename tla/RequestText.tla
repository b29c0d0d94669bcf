---------------------------- MODULE RequestText ----------------------------
(***************************************************************************)
(* The requests of the REST interface as a sender means them, and the text *)
(* it writes: "METHOD /path?query HTTP/1.0", headers, an empty line, a     *)
(* body.  A text is a sequence of words and marks, each standing for its   *)
(* characters; lengths count them.                                         *)
(***************************************************************************)
EXTENDS Integers, SequencesExt

CONSTANTS
  Words,                     \* what a text is made of besides marks
  GetWords, PostWords,       \* words that begin with "GET" and "POST"
  Number,                    \* what atoi makes of the words for Content-Length
  Targets, ParamValues,      \* words for the path, and for values of parameters
  HeaderValues, Bodies,      \* values of headers and bodies, each a text
  Senders                    \* who send: methods, marks, lengths, and bounds

CRLF == <<"CR", "LF">>
Marks == {"SP", "?", "&", "=", ":", ".", "CR", "LF"}
Paths == {"/token", "/validate", "/other", "/page"}     \* words that begin with '/'
Symbols == Words \cup Marks

OnOneLine(text) == text \in Seq(Symbols) /\ {"CR", "LF"} \cap ToSet(text) = {}

\* A parameter is name=value; as a sender may get it wrong, its '=' is left out or
\* its value is, and '&' stands there.  A header may lack its ':'.  Values of
\* headers do not begin with a blank; headers and bodies hold no ends of lines.
ASSUME TextAssumption ==
  /\ Words \cap Marks = {}
  /\ Paths \cup {"HTTP/1.0", "Host", "Content-Length", "name", "age"} \subseteq Words
  /\ GetWords \cap PostWords = {}
  /\ Targets \subseteq Words /\ ParamValues \subseteq Words \cup {"&"}
  /\ \A value \in HeaderValues : OnOneLine(value) /\ (value # <<>> => value[1] # "SP")
  /\ DOMAIN Number \subseteq Words \ (Paths \cup {"none"})
  /\ \A word \in DOMAIN Number : Number[word] \in Int
  /\ \A body \in Bodies : OnOneLine(body)
  /\ \A who \in Senders :
       /\ who.methods \subseteq Words \ Paths
       /\ who.paramMarks \subseteq {"=", "&"} /\ who.headerMarks \subseteq {":", "="}
       /\ who.lengths \subseteq DOMAIN Number \cup {"none"}
       /\ who.params \in Nat /\ who.headers \in Nat

\* A body may be announced by Content-Length, truly or not, and may be closed by
\* an empty line, which client.c counts as part of it.
RequestsOf(who) ==
  [method : who.methods, target : Targets,
   query : SeqOf([name : {"name", "age"}, mark : who.paramMarks, value : ParamValues],
                 who.params),
   headers : SeqOf([name : {"Host"}, mark : who.headerMarks, value : HeaderValues],
                   who.headers),
   length : who.lengths, body : Bodies, closed : BOOLEAN]

Requests == UNION {RequestsOf(who) : who \in Senders}

QueryText(query) ==
  FlattenSeq([i \in DOMAIN query |->
    <<IF i = 1 THEN "?" ELSE "&", query[i].name, query[i].mark, query[i].value>>])

HeaderText(header) == <<header.name, header.mark, "SP">> \o header.value \o CRLF

Headers(s) ==
  s.headers \o IF s.length = "none" THEN <<>>
               ELSE <<[name |-> "Content-Length", mark |-> ":", value |-> <<s.length>>]>>

\* What follows the empty line.
Rest(s) == s.body \o IF s.closed THEN CRLF \o CRLF ELSE <<>>

Text(s) ==
  <<s.method, "SP", s.target>> \o QueryText(s.query) \o <<"SP", "HTTP/1.0">> \o CRLF \o
  FlattenSeq([i \in DOMAIN Headers(s) |-> HeaderText(Headers(s)[i])]) \o CRLF \o Rest(s)

-----------------------------------------------------------------------------
\* What a request means.
MethodOf(word) ==
  IF word \in GetWords THEN "GET" ELSE IF word \in PostWords THEN "POST" ELSE "UNSUPPORTED"

ValueText(value) == IF value = "&" THEN <<>> ELSE <<value>>

LengthOf(s) == IF s.length = "none" THEN -1 ELSE Number[s.length]

\* GetRequestPath and GetQueries search the whole text: what stands behind the
\* first line is a path where the line has none, or parameters.
Behind(s) == (UNION {ToSet(header.value) : header \in ToSet(s.headers)}) \cup ToSet(s.body)
StrayQuery(s) == s.query = <<>> /\ "?" \in Behind(s)

\* Every parameter has its '=', and every header its ':'.
Equals(s) == \A i \in DOMAIN s.query : s.query[i].mark = "="
Colons(s) == \A i \in DOMAIN s.headers : s.headers[i].mark = ":"
=============================================================================
