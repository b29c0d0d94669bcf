---------------------------- MODULE MCRunMethod ----------------------------
(* Small instances of RunMethod. *)
EXTENDS RunMethod

\* What atoi makes of them: lengths around those of the bodies, -1, which counts as
\* none, and two that no buffer has.
Lengths ==
  ("4" :> 4) @@ ("8" :> 8) @@
  ("x" :> 0) @@ ("-1" :> -1) @@ ("-2" :> -2) @@ ("2147483647" :> MaxInt)

\* One who leaves nothing out, one with more to ask, one who leaves out a '=' or ':',
\* and one who announces lengths that no body has.
Careful ==
  [methods |-> {"GETX", "POST", "PUT"}, paramMarks |-> {"="}, headerMarks |-> {":"},
   lengths |-> {"4", "8", "none"}, params |-> 1, headers |-> 1]
Curious ==
  [methods |-> {"GET", "POST"}, paramMarks |-> {"="}, headerMarks |-> {":"},
   lengths |-> {"none"}, params |-> 2, headers |-> 1]
Careless ==
  [methods |-> {"GET", "POST"}, paramMarks |-> {"=", "&"}, headerMarks |-> {":", "="},
   lengths |-> {"4", "none"}, params |-> 1, headers |-> 1]
Boastful ==
  [methods |-> {"GET", "POST"}, paramMarks |-> {}, headerMarks |-> {":"},
   lengths |-> {"x", "-1", "-2", "2147483647"}, params |-> 0, headers |-> 1]
AllSenders == {Careful, Curious, Careless, Boastful}

\* The test client.
TestClient ==
  {[methods |-> {"POST"}, paramMarks |-> {}, headerMarks |-> {},
    lengths |-> {"4", "8", "none"}, params |-> 0, headers |-> 0]}

SomeWords ==
  Paths \cup {"GET", "GETX", "POST", "PUT", "other", "HTTP/1.0", "Host", "Content-Length",
             "name", "age", "bob", "eve", "bob.head", "bob.end", "bob.end2", "eve.head",
             "eve.end", "x"} \cup DOMAIN Lengths
GetLike == {"GET", "GETX"}
PostLike == {"POST"}
People == {"bob", "eve"}
SomeHeads == [bob |-> {"bob.head"}, eve |-> {"eve.head"}]
SomeEnds == [bob |-> {"bob.end", "bob.end2"}, eve |-> {"eve.end"}]

\* A value with a path and the marks that end other parts, and one that is taken
\* for a path with a parameter.
SomeValues ==
  {<<"/page", "SP", "=", "&", ":">>, <<"/token", "?", "name", "=", "bob", "SP", "x">>}

\* None, two tokens, and one with another's signature and more behind it.
SomeBodies == {<<>>, <<"bob", ".", "eve.head", "eve.end", "?">>} \cup Signed("bob")

\* A validation, of which a shorter request leaves the end.
Earlier ==
  {<<"POST", "SP", "/validate", "SP", "HTTP/1.0">> \o CRLF \o
   <<"Host", ":", "SP", "x">> \o CRLF \o CRLF \o token \o CRLF \o CRLF : token \in Signed("bob")}

\* Documents around the largest whose token fits the answer.
Sizes == {60, 2979, 2980}
=============================================================================
