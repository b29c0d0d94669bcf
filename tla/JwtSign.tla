------------------------------ MODULE JwtSign ------------------------------
(***************************************************************************)
(* CheckJwtSign of jwt.c on the body of a request: what is behind the last *)
(* dot is decoded, four characters to three bytes, into decSign on the     *)
(* stack, and compared with the HMAC of what is before it.                 *)
(*                                                                         *)
(* A token is a word for its data, a dot and two words for its signature,  *)
(* of 40 and 4 characters: 32 bytes are eleven groups of four characters.  *)
(* Of the last group only two bytes are compared, so that several words    *)
(* stand for the same end, and characters that are none of base64 count    *)
(* for nothing before others, as several words stand for the same head.    *)
(***************************************************************************)
EXTENDS RequestParser

CONSTANTS
  Data,               \* what tokens are made of, each a word for "header.payload"
  SignHead, SignEnd   \* the words that decode to its signature's two parts

ASSUME SignaturesAssumption ==
  /\ Data \subseteq Words
  /\ SignHead \in [Data -> SUBSET Words] /\ SignEnd \in [Data -> SUBSET Words]
  /\ \A d, e \in Data :
       /\ SignHead[d] \cap SignEnd[e] = {}
       /\ d # e => SignHead[d] \cap SignHead[e] = {} /\ SignEnd[d] \cap SignEnd[e] = {}

VARIABLES
  stack,     \* the bytes from decSign on: 32 of its own, then its neighbours
  decoded,   \* how many groups have been decoded
  verdict    \* what CheckJwtSign returns
signVars == <<stack, decoded, verdict>>

HeadWords == UNION {SignHead[d] : d \in Data}
EndWords == UNION {SignEnd[d] : d \in Data}

\* The tokens of some data.
Signed(d) == {<<d, ".", head, end>> : head \in SignHead[d], end \in SignEnd[d]}

Width(word) == IF word \in HeadWords THEN 40 ELSE IF word \in {"CR", "LF"} THEN 1 ELSE 4

\* The characters of a text, each as its word and its place in the word.
Chars(words) ==
  FlattenSeq([i \in DOMAIN words |-> [place \in 1 .. Width(words[i]) |-> <<words[i], place>>]])

\* strrchr.
Dot == SelectLastInSeq(rq.body, LAMBDA word : word = ".")
Sign == Chars(SubSeq(rq.body, Dot + 1, Len(rq.body)))
Groups == Len(Sign) \div 4

\* Byte i of the HMAC of a text; a token's signature is that of its data.
Hmac(words, i) == <<"hmac", words, i>>
Zero == <<"zero">>
Neighbour == <<"neighbour">>

\* The data a word signs.
SignerOf(parts, word) == CHOOSE d \in Data : word \in parts[d]

\* Base64DecStep: byte m of a group that begins with this character; line ends
\* are no characters of base64 and add nothing.  The third byte of the last group
\* is what two bytes leave over of its characters.
Byte(char, m) ==
  LET word == char[1] IN
  CASE word \in HeadWords -> Hmac(<<SignerOf(SignHead, word)>>, 3 * (char[2] \div 4) + m)
    [] word \in EndWords /\ m < 2 -> Hmac(<<SignerOf(SignEnd, word)>>, 30 + m)
    [] word \in EndWords /\ m = 2 -> <<"left over", word>>
    [] word \in {"CR", "LF"} -> Zero
    [] OTHER -> <<"other", m>>

-----------------------------------------------------------------------------
\* strrchr, memset.
Splits ==
  /\ pc = "sign"
  /\ IF Dot = 0
       THEN pc' = "signed" /\ verdict' = FALSE /\ UNCHANGED <<stack, decoded>>
       ELSE /\ stack' = [i \in 0 .. 38 |-> IF i < 32 THEN Zero ELSE Neighbour]
            /\ decoded' = 0
            /\ pc' = "decode" /\ UNCHANGED verdict
  /\ UNCHANGED <<sent, text, ptr, rq, handler, fate>>

\* A round of Base64Decode, which is not told the size of decSign.
Base64Decode ==
  /\ pc = "decode" /\ decoded < Groups
  /\ stack' = [i \in 0 .. 38 |->
                 IF i \div 3 = decoded THEN Byte(Sign[4 * decoded + 1], i % 3) ELSE stack[i]]
  /\ decoded' = decoded + 1
  /\ UNCHANGED <<parserVars, verdict>>

\* Variant: only whole groups of the signature are compared.
ComparesWholeGroups ==
  /\ pc = "decode" /\ decoded = Groups
  /\ verdict' = \A i \in 0 .. 29 : stack[i] = Hmac(SubSeq(rq.body, 1, Dot - 1), i)
  /\ pc' = "return"
  /\ UNCHANGED <<sent, text, ptr, rq, handler, fate, stack, decoded>>

\* HmacSha256 of what is before the dot, memcmp of 32 bytes.
ComparesSign ==
  /\ pc = "decode" /\ decoded = Groups
  /\ verdict' = \A i \in 0 .. 31 : stack[i] = Hmac(SubSeq(rq.body, 1, Dot - 1), i)
  /\ pc' = "return"
  /\ UNCHANGED <<sent, text, ptr, rq, handler, fate, stack, decoded>>

\* Whatever lay behind decSign has been written over: the build decides whether
\* that matters, a stack protector ends the process here.
Overrun == \E i \in 32 .. 38 : stack[i] # Neighbour

Returns ==
  /\ pc = "return"
  /\ \/ pc' = "signed" /\ UNCHANGED fate
     \/ Overrun /\ pc' = "over" /\ fate' = "overran"
  /\ UNCHANGED <<sent, text, ptr, rq, handler, signVars>>

ChecksSign == Splits \/ Base64Decode \/ ComparesSign \/ Returns
=============================================================================
