------------------------------- MODULE Base64 -------------------------------
(***************************************************************************)
(* base64.c: Base64Encode and, on what it has produced, Base64Decode, one  *)
(* step per round of their loops.  A byte is its number and a character    *)
(* its code.  Both loops write their output in order, so an output buffer  *)
(* is the sequence of what has been written to it.                         *)
(***************************************************************************)
EXTENDS Integers, Sequences

CONSTANTS
  Inputs,    \* what is encoded
  Tails      \* what the text of a request may hold behind an encoding

Byte == 0 .. 255
PAD == 61                       \* '='
LineEnds == <<13, 10, 13, 10>>  \* no characters of the alphabet

ASSUME InputsAssumption == Inputs \subseteq Seq(Byte)
ASSUME TailsAssumption == Tails \subseteq {<<>>, LineEnds}

VARIABLES source, encoded, tail, decoded,
          inputConsumed,        \* of the source, then of the text decoded
          phase

base64Vars == <<source, encoded, tail, decoded, inputConsumed, phase>>

binToBase64(v) ==
  CASE v \in 0 .. 25  -> 65 + v           \* 'A' ..
    [] v \in 26 .. 51 -> 97 + (v - 26)    \* 'a' ..
    [] v \in 52 .. 61 -> 48 + (v - 52)    \* '0' ..
    [] v = 62         -> 43               \* '+'
    [] OTHER          -> 47               \* '/'

\* Variant: the allocation knows nothing of the group begun.
CalcEncodedLenOfFullGroups(toEncodeLen) == (toEncodeLen \div 3) * 4

CalcEncodedLen(toEncodeLen) == ((toEncodeLen + 3) \div 3) * 4
CalcDecodedLen(toDecodeLen) == (toDecodeLen \div 4) * 3

inputRemaining == Len(source) - inputConsumed
Ahead(k) == source[inputConsumed + k]

\* The six bits from the low part of one byte and the high part of the next.
Second(b, next) == (b % 4) * 16 + next \div 16
Third(b, next) == (b % 16) * 4 + next \div 64

-----------------------------------------------------------------------------
Base64Init ==
  /\ source \in Inputs /\ tail \in Tails
  /\ encoded = <<>> /\ decoded = <<>> /\ inputConsumed = 0 /\ phase = "encode"

\* A round of the loop of Base64Encode: three bytes.
Base64EncStep ==
  /\ phase = "encode" /\ inputRemaining >= 3
  /\ encoded' = encoded \o
       <<binToBase64(Ahead(1) \div 4),
         binToBase64(Second(Ahead(1), Ahead(2))),
         binToBase64(Third(Ahead(2), Ahead(3))),
         binToBase64(Ahead(3) % 64)>>
  /\ inputConsumed' = inputConsumed + 3
  /\ UNCHANGED <<source, tail, decoded, phase>>

\* Variant: the low bits of a second byte are not moved up.
EncodesTailUnshifted ==
  IF inputRemaining = 1
    THEN <<binToBase64(Ahead(1) \div 4), binToBase64((Ahead(1) % 4) * 16), PAD, PAD>>
    ELSE <<binToBase64(Ahead(1) \div 4), binToBase64(Second(Ahead(1), Ahead(2))),
           binToBase64(Ahead(2) % 16), PAD>>

EncodedTail ==
  IF inputRemaining = 1
    THEN <<binToBase64(Ahead(1) \div 4), binToBase64((Ahead(1) % 4) * 16), PAD, PAD>>
    ELSE <<binToBase64(Ahead(1) \div 4), binToBase64(Second(Ahead(1), Ahead(2))),
           binToBase64((Ahead(2) % 16) * 4), PAD>>

\* After the loop: one or two bytes left, filled up with '='.
EndsEncoding ==
  /\ phase = "encode" /\ inputRemaining < 3
  /\ encoded' = encoded \o IF inputRemaining = 0 THEN <<>> ELSE EncodedTail
  /\ inputConsumed' = 0 /\ phase' = "decode"
  /\ UNCHANGED <<source, tail, decoded>>

\* What the decoder is given.
ToDecode == encoded \o tail

\* Variant: '=' is skipped like an unknown character.
SkipsPad(x, c) ==
  CASE c \in 65 .. 90  -> x * 64 + (c - 65)
    [] c \in 97 .. 122 -> x * 64 + (c - 97 + 26)
    [] c \in 48 .. 57  -> x * 64 + (c - 48 + 52)
    [] c = 43          -> x * 64 + 62
    [] c = 47          -> x * 64 + 63
    [] OTHER           -> x

\* A character's part in x; '=' shifts and an unknown one changes nothing.
Shifted(x, c) ==
  CASE c \in 65 .. 90  -> x * 64 + (c - 65)
    [] c \in 97 .. 122 -> x * 64 + (c - 97 + 26)
    [] c \in 48 .. 57  -> x * 64 + (c - 48 + 52)
    [] c = 43          -> x * 64 + 62
    [] c = 47          -> x * 64 + 63
    [] c = PAD         -> x * 64
    [] OTHER           -> x

\* The three bytes of four characters.
Group(s, i) ==
  LET x == Shifted(Shifted(Shifted(Shifted(0, s[i + 1]), s[i + 2]), s[i + 3]), s[i + 4])
  IN <<(x \div 65536) % 256, (x \div 256) % 256, x % 256>>

\* A round of the loop of Base64Decode; characters that fill no group are left.
Base64DecStep ==
  /\ phase = "decode" /\ inputConsumed + 4 <= Len(ToDecode)
  /\ decoded' = decoded \o Group(ToDecode, inputConsumed)
  /\ inputConsumed' = inputConsumed + 4
  /\ UNCHANGED <<source, encoded, tail, phase>>

EndsDecoding ==
  /\ phase = "decode" /\ inputConsumed + 4 > Len(ToDecode)
  /\ phase' = "done"
  /\ UNCHANGED <<source, encoded, tail, decoded, inputConsumed>>

Base64Done == phase = "done" /\ UNCHANGED base64Vars

Base64Next == Base64EncStep \/ EndsEncoding \/ Base64DecStep \/ EndsDecoding \/ Base64Done

Base64Spec == Base64Init /\ [][Base64Next]_base64Vars

-----------------------------------------------------------------------------
\* The byte at k of the source; zero behind its end.
Padded(k) == IF k <= Len(source) THEN source[k] ELSE 0

\* What is decoded is what was encoded, followed by zero bytes only: those of
\* the '=' and of line ends that come with the text.
RoundTrip ==
  phase = "done" =>
    /\ Len(decoded) >= Len(source)
    /\ \A k \in 1 .. Len(decoded) : decoded[k] = Padded(k)

\* The encoder stays within CalcEncodedLen of its source and the decoder within
\* CalcDecodedLen of its text, the sizes their callers allocate.
StaysWithinItsBuffers ==
  /\ Len(encoded) <= CalcEncodedLen(Len(source))
  /\ Len(decoded) <= CalcDecodedLen(Len(ToDecode))

\* Bit n of a byte and bit j of the source, most significant first, as RFC 4648
\* numbers them.
BitOf(b, n) == (b \div <<128, 64, 32, 16, 8, 4, 2, 1>>[n + 1]) % 2
Bit(j) == BitOf(Padded(j \div 8 + 1), j % 8)

\* The i-th character is that of the i-th six bits of the source; the
\* remaining ones of its last group are '='.
EncodesAsRFC4648 ==
  phase = "done" =>
    \A i \in 1 .. 4 * ((Len(source) + 2) \div 3) :
      encoded[i] =
        IF 6 * (i - 1) >= 8 * Len(source) THEN PAD
        ELSE LET b(m) == Bit(6 * (i - 1) + m) IN
             binToBase64(32 * b(0) + 16 * b(1) + 8 * b(2) + 4 * b(3) + 2 * b(4) + b(5))
=============================================================================
