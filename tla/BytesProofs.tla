----------------------------- MODULE BytesProofs -----------------------------
(* The code that works on bytes: base64.c, then sha.c and hmac_sha2.c on it. *)
EXTENDS Hmac, Base64, SequenceTheorems, TLAPS

-----------------------------------------------------------------------------
(* base64.c.                                                               *)

\* These four characters stand in s behind position i.
Has(s, i, c1, c2, c3, c4) ==
  s[i + 1] = c1 /\ s[i + 2] = c2 /\ s[i + 3] = c3 /\ s[i + 4] = c4

LEMMA CharOfSextet ==
  ASSUME NEW v \in 0 .. 63, NEW x \in Nat
  PROVE  Shifted(x, binToBase64(v)) = x * 64 + v
<1>1. CASE v \in 0 .. 25
  BY <1>1 DEF Shifted, binToBase64, PAD
<1>2. CASE v \in 26 .. 51
  BY <1>2 DEF Shifted, binToBase64, PAD
<1>3. CASE v \in 52 .. 61
  BY <1>3 DEF Shifted, binToBase64, PAD
<1>4. CASE v = 62
  BY <1>4 DEF Shifted, binToBase64, PAD
<1>5. CASE v = 63
  BY <1>5 DEF Shifted, binToBase64, PAD
<1>. QED BY <1>1, <1>2, <1>3, <1>4, <1>5

LEMMA SplitByte ==
  ASSUME NEW b \in Byte
  PROVE  /\ b \div 4 \in 0 .. 63 /\ b % 4 \in 0 .. 3 /\ b = (b \div 4) * 4 + (b % 4)
         /\ b \div 16 \in 0 .. 15 /\ b % 16 \in 0 .. 15 /\ b = (b \div 16) * 16 + (b % 16)
         /\ b \div 64 \in 0 .. 3 /\ b % 64 \in 0 .. 63 /\ b = (b \div 64) * 64 + (b % 64)
BY DEF Byte

LEMMA JoinBytes ==
  ASSUME NEW a \in Byte, NEW b \in Byte, NEW c \in Byte,
         NEW x, x = a * 65536 + b * 256 + c
  PROVE  /\ (x \div 65536) % 256 = a /\ (x \div 256) % 256 = b /\ x % 256 = c
BY DEF Byte

\* t is s with q behind it.
Extends(t, s, q) ==
  /\ t \in Seq(Int) /\ Len(t) = Len(s) + Len(q)
  /\ \A j \in 1 .. Len(s) : t[j] = s[j]
  /\ \A j \in 1 .. Len(q) : t[Len(s) + j] = q[j]

LEMMA Appended ==
  ASSUME NEW s \in Seq(Int), NEW q \in Seq(Int)
  PROVE  Extends(s \o q, s, q)
BY DEF Extends

LEMMA ExtendedByFour ==
  ASSUME NEW t, NEW s \in Seq(Int), NEW q, Extends(t, s, q), Len(q) = 4,
         NEW n, Len(s) = n
  PROVE  /\ t \in Seq(Int) /\ Len(t) = n + 4
         /\ \A j \in 1 .. n : t[j] = s[j]
         /\ Has(t, n, q[1], q[2], q[3], q[4])
<1>1. 1 \in 1 .. Len(q) /\ 2 \in 1 .. Len(q) /\ 3 \in 1 .. Len(q) /\ 4 \in 1 .. Len(q)
  OBVIOUS
<1>. QED BY <1>1 DEF Has, Extends

\* The decoder takes c for the six bits v.
Means(c, v) == \A x \in Nat : Shifted(x, c) = x * 64 + v

\* The four characters of s behind position i stand for these six bits each.
Spells(s, i, v1, v2, v3, v4) ==
  /\ v1 \in 0 .. 63 /\ Means(s[i + 1], v1) /\ v2 \in 0 .. 63 /\ Means(s[i + 2], v2)
  /\ v3 \in 0 .. 63 /\ Means(s[i + 3], v3) /\ v4 \in 0 .. 63 /\ Means(s[i + 4], v4)

LEMMA GroupOfSextets ==
  ASSUME NEW s, NEW i \in Nat, NEW v1, NEW v2, NEW v3, NEW v4,
         Spells(s, i, v1, v2, v3, v4),
         NEW a \in Byte, NEW b \in Byte, NEW c \in Byte,
         v1 * 262144 + v2 * 4096 + v3 * 64 + v4 = a * 65536 + b * 256 + c
  PROVE  Group(s, i) = <<a, b, c>>
<1>. v1 \in 0 .. 63 /\ v2 \in 0 .. 63 /\ v3 \in 0 .. 63 /\ v4 \in 0 .. 63
  BY DEF Spells
<1>1. Shifted(0, s[i + 1]) = v1
  BY DEF Spells, Means
<1>2. Shifted(v1, s[i + 2]) = v1 * 64 + v2
  BY DEF Spells, Means
<1>3. Shifted(v1 * 64 + v2, s[i + 3]) = v1 * 4096 + v2 * 64 + v3
  <2>1. v1 * 64 + v2 \in Nat /\ (v1 * 64 + v2) * 64 + v3 = v1 * 4096 + v2 * 64 + v3
    OBVIOUS
  <2>. QED BY <2>1 DEF Spells, Means
<1>4. Shifted(v1 * 4096 + v2 * 64 + v3, s[i + 4]) = v1 * 262144 + v2 * 4096 + v3 * 64 + v4
  <2>1. /\ v1 * 4096 + v2 * 64 + v3 \in Nat
        /\ (v1 * 4096 + v2 * 64 + v3) * 64 + v4 = v1 * 262144 + v2 * 4096 + v3 * 64 + v4
    OBVIOUS
  <2>. QED BY <2>1 DEF Spells, Means
<1>. DEFINE y == v1 * 262144 + v2 * 4096 + v3 * 64 + v4
<1>5. Group(s, i) = <<(y \div 65536) % 256, (y \div 256) % 256, y % 256>>
  BY <1>1, <1>2, <1>3, <1>4 DEF Group
<1>6. y = a * 65536 + b * 256 + c
  OBVIOUS
<1>. HIDE DEF y
<1>. QED BY <1>5, <1>6, JoinBytes

LEMMA CharMeans ==
  /\ \A v \in 0 .. 63 : Means(binToBase64(v), v)
  /\ Means(PAD, 0)
<1>1. \A v \in 0 .. 63 : Means(binToBase64(v), v)
  BY CharOfSextet DEF Means
<1>2. Means(PAD, 0)
  BY DEF Means, Shifted, PAD
<1>. QED BY <1>1, <1>2

LEMMA GroupOfThree ==
  ASSUME NEW a \in Byte, NEW b \in Byte, NEW c \in Byte, NEW s, NEW i \in Nat,
         Has(s, i, binToBase64(a \div 4), binToBase64(Second(a, b)),
                   binToBase64(Third(b, c)), binToBase64(c % 64))
  PROVE  Group(s, i) = <<a, b, c>>
<1>. DEFINE ah == a \div 4   al == a % 4   bh == b \div 16   bl == b % 16
            ch == c \div 64  cl == c % 64
<1>1. /\ ah \in 0 .. 63 /\ al \in 0 .. 3 /\ a = ah * 4 + al
      /\ bh \in 0 .. 15 /\ bl \in 0 .. 15 /\ b = bh * 16 + bl
      /\ ch \in 0 .. 3 /\ cl \in 0 .. 63 /\ c = ch * 64 + cl
  BY SplitByte
<1>2. Second(a, b) = al * 16 + bh /\ Third(b, c) = bl * 4 + ch
  BY DEF Second, Third
<1>. HIDE DEF ah, al, bh, bl, ch, cl
<1>3. Second(a, b) \in 0 .. 63 /\ Third(b, c) \in 0 .. 63
  BY <1>1, <1>2
<1>4. Spells(s, i, ah, Second(a, b), Third(b, c), cl)
  BY <1>1, <1>3, CharMeans DEF Has, Spells, ah, cl
<1>5. ah * 262144 + Second(a, b) * 4096 + Third(b, c) * 64 + cl
        = a * 65536 + b * 256 + c
  BY <1>1, <1>2
<1>. QED BY <1>4, <1>5, GroupOfSextets

LEMMA GroupOfTwo ==
  ASSUME NEW a \in Byte, NEW b \in Byte, NEW s, NEW i \in Nat,
         Has(s, i, binToBase64(a \div 4), binToBase64(Second(a, b)),
                   binToBase64((b % 16) * 4), PAD)
  PROVE  Group(s, i) = <<a, b, 0>>
<1>. DEFINE ah == a \div 4   al == a % 4   bh == b \div 16   bl == b % 16
<1>1. /\ ah \in 0 .. 63 /\ al \in 0 .. 3 /\ a = ah * 4 + al
      /\ bh \in 0 .. 15 /\ bl \in 0 .. 15 /\ b = bh * 16 + bl
  BY SplitByte
<1>2. Second(a, b) = al * 16 + bh
  BY DEF Second
<1>. HIDE DEF ah, al, bh, bl
<1>3. Second(a, b) \in 0 .. 63 /\ bl * 4 \in 0 .. 63 /\ 0 \in 0 .. 63 /\ 0 \in Byte
  BY <1>1, <1>2 DEF Byte
<1>4. Spells(s, i, ah, Second(a, b), bl * 4, 0)
  BY <1>1, <1>3, CharMeans DEF Has, Spells, ah, bl
<1>5. ah * 262144 + Second(a, b) * 4096 + (bl * 4) * 64 + 0
        = a * 65536 + b * 256 + 0
  BY <1>1, <1>2
<1>. QED BY <1>3, <1>4, <1>5, GroupOfSextets

LEMMA GroupOfOne ==
  ASSUME NEW a \in Byte, NEW s, NEW i \in Nat,
         Has(s, i, binToBase64(a \div 4), binToBase64((a % 4) * 16), PAD, PAD)
  PROVE  Group(s, i) = <<a, 0, 0>>
<1>. DEFINE ah == a \div 4   al == a % 4
<1>1. ah \in 0 .. 63 /\ al \in 0 .. 3 /\ a = ah * 4 + al
  BY SplitByte
<1>. HIDE DEF ah, al
<1>3. al * 16 \in 0 .. 63 /\ 0 \in 0 .. 63 /\ 0 \in Byte
  BY <1>1 DEF Byte
<1>4. Spells(s, i, ah, al * 16, 0, 0)
  BY <1>1, <1>3, CharMeans DEF Has, Spells, ah, al
<1>5. ah * 262144 + (al * 16) * 4096 + 0 * 64 + 0 = a * 65536 + 0 * 256 + 0
  BY <1>1
<1>. QED BY <1>3, <1>4, <1>5, GroupOfSextets

LEMMA GroupOfLineEnds ==
  ASSUME NEW s, NEW i \in Nat,
         Has(s, i, 13, 10, 13, 10)
  PROVE  Group(s, i) = <<0, 0, 0>>
<1>1. Shifted(0, 13) = 0 /\ Shifted(0, 10) = 0
  BY DEF Shifted, PAD
<1>. QED BY <1>1 DEF Group, Has

LEMMA SameGroup ==
  ASSUME NEW s, NEW t, NEW i \in Nat, \A j \in i + 1 .. i + 4 : t[j] = s[j]
  PROVE  Group(t, i) = Group(s, i)
<1>1. t[i + 1] = s[i + 1] /\ t[i + 2] = s[i + 2] /\ t[i + 3] = s[i + 3] /\ t[i + 4] = s[i + 4]
  OBVIOUS
<1>. QED BY <1>1 DEF Group

-----------------------------------------------------------------------------
\* The i-th group as RFC 4648 has it: '=' where the source has no byte left to
\* give a character any of its bits.
Coded(i) ==
  LET a == Padded(3 * i + 1)   b == Padded(3 * i + 2)   c == Padded(3 * i + 3)
      left == Len(source) - 3 * i
  IN  Has(encoded, 4 * i, binToBase64(a \div 4), binToBase64(Second(a, b)),
          IF left = 1 THEN PAD ELSE binToBase64(Third(b, c)),
          IF left < 3 THEN PAD ELSE binToBase64(c % 64))

Written(m) == \A i \in 0 .. m - 1 : Coded(i)

\* The three bytes of the source that the i-th group stands for.
Three(i) == <<Padded(3 * i + 1), Padded(3 * i + 2), Padded(3 * i + 3)>>

Stands(m) == \A i \in 0 .. m - 1 : Group(encoded, 4 * i) = Three(i)

Groups == (Len(source) + 2) \div 3

Base64Typed ==
  /\ source \in Seq(Byte) /\ tail \in {<<>>, LineEnds}
  /\ encoded \in Seq(Int) /\ decoded \in Seq(Int)
  /\ phase \in {"encode", "decode", "done"}

\* After m rounds of the encoder.
Encoded(m) ==
  /\ inputConsumed = 3 * m /\ 3 * m <= Len(source)
  /\ Len(encoded) = 4 * m /\ Written(m) /\ decoded = <<>>

\* After m rounds of the decoder.
Decoded(m) ==
  /\ inputConsumed = 4 * m /\ 4 * m <= Len(ToDecode)
  /\ Len(decoded) = 3 * m /\ \A p \in 1 .. 3 * m : decoded[p] = Padded(p)
  /\ phase = "done" => 4 * m + 4 > Len(ToDecode)

Base64Inv ==
  /\ Base64Typed
  /\ phase = "encode" => \E m \in Nat : Encoded(m)
  /\ phase # "encode" =>
       /\ Len(encoded) = 4 * Groups /\ Written(Groups)
       /\ \E m \in Nat : Decoded(m)

\* A group is not touched by what is written behind it.
LEMMA SameCode ==
  ASSUME NEW i \in Nat, Coded(i), source' = source,
         \A j \in 4 * i + 1 .. 4 * i + 4 : encoded'[j] = encoded[j]
  PROVE  Coded(i)'
<1>1. /\ encoded'[4 * i + 1] = encoded[4 * i + 1] /\ encoded'[4 * i + 2] = encoded[4 * i + 2]
      /\ encoded'[4 * i + 3] = encoded[4 * i + 3] /\ encoded'[4 * i + 4] = encoded[4 * i + 4]
  OBVIOUS
<1>. QED BY <1>1 DEF Coded, Has, Padded

\* Groups as RFC 4648 has them decode to the source.
LEMMA WrittenStands ==
  ASSUME source \in Seq(Byte), Written(Groups)
  PROVE  Stands(Groups)
<1>. SUFFICES ASSUME NEW i \in 0 .. Groups - 1
              PROVE  Group(encoded, 4 * i) = Three(i)
  BY DEF Stands
<1>. DEFINE a == Padded(3 * i + 1)   b == Padded(3 * i + 2)   c == Padded(3 * i + 3)
            left == Len(source) - 3 * i
<1>1. /\ Len(source) \in Nat /\ Groups \in Nat /\ left \in Nat /\ left >= 1
      /\ i \in Nat /\ 4 * i \in Nat
  BY DEF Groups
<1>2. /\ a \in Byte
      /\ left >= 2 => b \in Byte
      /\ left >= 3 => c \in Byte
      /\ left = 1 => b = 0 /\ c = 0
      /\ left = 2 => c = 0
  BY <1>1 DEF Padded
<1>3. Coded(i)
  BY DEF Written
<1>4. Three(i) = <<a, b, c>>
  BY DEF Three
<1>5. Has(encoded, 4 * i, binToBase64(a \div 4), binToBase64(Second(a, b)),
          IF left = 1 THEN PAD ELSE binToBase64(Third(b, c)),
          IF left < 3 THEN PAD ELSE binToBase64(c % 64))
  BY <1>3 DEF Coded
<1>. HIDE DEF a, b, c, left
<1>6. CASE left = 1
  <2>1. Second(a, b) = (a % 4) * 16
    BY <1>6, <1>2, SplitByte DEF Second
  <2>2. Has(encoded, 4 * i, binToBase64(a \div 4), binToBase64((a % 4) * 16), PAD, PAD)
    BY <2>1, <1>5, <1>6
  <2>. QED BY <2>2, <1>1, <1>2, <1>4, <1>6, GroupOfOne
<1>7. CASE left = 2
  <2>1. b \in Byte /\ c = 0
    BY <1>7, <1>2
  <2>2. Third(b, c) = (b % 16) * 4
    BY <2>1, SplitByte DEF Third
  <2>3. Has(encoded, 4 * i, binToBase64(a \div 4), binToBase64(Second(a, b)),
            binToBase64((b % 16) * 4), PAD)
    BY <2>2, <1>5, <1>7
  <2>. QED BY <2>1, <2>3, <1>1, <1>2, <1>4, GroupOfTwo
<1>8. CASE left >= 3
  <2>1. b \in Byte /\ c \in Byte /\ ~(left = 1) /\ ~(left < 3)
    BY <1>8, <1>1, <1>2
  <2>2. Has(encoded, 4 * i, binToBase64(a \div 4), binToBase64(Second(a, b)),
            binToBase64(Third(b, c)), binToBase64(c % 64))
    BY <2>1, <1>5
  <2>. QED BY <2>1, <2>2, <1>1, <1>2, <1>4, GroupOfThree
<1>. QED BY <1>1, <1>6, <1>7, <1>8

LEMMA InitInv == Base64Init => Base64Inv
<1>. SUFFICES ASSUME Base64Init PROVE Base64Inv
  OBVIOUS
<1>1. Base64Typed
  BY InputsAssumption, TailsAssumption DEF Base64Init, Base64Typed
<1>2. Encoded(0)
  BY <1>1 DEF Base64Init, Encoded, Written, Base64Typed
<1>. QED BY <1>1, <1>2 DEF Base64Inv, Base64Init

LEMMA EncStepInv ==
  ASSUME Base64Inv, Base64EncStep PROVE Base64Inv'
<1>1. PICK m \in Nat : Encoded(m)
  BY DEF Base64Inv, Base64EncStep
<1>. DEFINE a == source[3 * m + 1]   b == source[3 * m + 2]   c == source[3 * m + 3]
<1>2. 3 * m + 3 <= Len(source)
  BY <1>1 DEF Base64EncStep, inputRemaining, Encoded
<1>3. a \in Byte /\ b \in Byte /\ c \in Byte
  BY <1>2 DEF Base64Inv, Base64Typed
<1>4. a = Padded(3 * m + 1) /\ b = Padded(3 * m + 2) /\ c = Padded(3 * m + 3)
  BY <1>2 DEF Padded, Base64Inv, Base64Typed
<1>. DEFINE c1 == binToBase64(a \div 4)        c2 == binToBase64(Second(a, b))
            c3 == binToBase64(Third(b, c))   c4 == binToBase64(c % 64)
<1>5. encoded' = encoded \o <<c1, c2, c3, c4>>
  BY <1>1 DEF Base64EncStep, Ahead, Encoded
<1>6. c1 \in Int /\ c2 \in Int /\ c3 \in Int /\ c4 \in Int
  <2>1. \A v \in Int : binToBase64(v) \in Int
    BY DEF binToBase64
  <2>2. a \div 4 \in Int /\ Second(a, b) \in Int /\ Third(b, c) \in Int /\ c % 64 \in Int
    <3>. HIDE DEF a, b, c
    <3>. QED BY <1>3 DEF Second, Third, Byte
  <2>. HIDE DEF a, b, c
  <2>. QED BY <2>1, <2>2
<1>. HIDE DEF c1, c2, c3, c4
<1>7. /\ encoded' \in Seq(Int) /\ Len(encoded') = 4 * m + 4
      /\ \A j \in 1 .. 4 * m : encoded'[j] = encoded[j]
      /\ Has(encoded', 4 * m, c1, c2, c3, c4)
  <2>1. encoded \in Seq(Int) /\ Len(encoded) = 4 * m
    BY <1>1 DEF Encoded, Base64Inv, Base64Typed
  <2>. DEFINE q == <<c1, c2, c3, c4>>
  <2>2. q \in Seq(Int) /\ Len(q) = 4 /\ q[1] = c1 /\ q[2] = c2 /\ q[3] = c3 /\ q[4] = c4
    BY <1>6
  <2>3. encoded' = encoded \o q
    BY <1>5
  <2>. HIDE DEF q
  <2>4. Extends(encoded', encoded, q)
    BY <2>1, <2>2, <2>3, Appended
  <2>5. /\ encoded' \in Seq(Int) /\ Len(encoded') = 4 * m + 4
        /\ \A j \in 1 .. 4 * m : encoded'[j] = encoded[j]
        /\ Has(encoded', 4 * m, q[1], q[2], q[3], q[4])
    BY <2>1, <2>2, <2>4, ExtendedByFour
  <2>. QED BY <2>2, <2>5
<1>8. UNCHANGED <<source, tail, decoded, phase>> /\ inputConsumed' = 3 * (m + 1)
  BY <1>1 DEF Base64EncStep, Encoded
<1>9. Coded(m)'
  <2>1. /\ Padded(3 * m + 1)' = a /\ Padded(3 * m + 2)' = b /\ Padded(3 * m + 3)' = c
        /\ ~(Len(source) - 3 * m = 1) /\ ~(Len(source) - 3 * m < 3) /\ source' = source
    <3>1. Len(source) \in Nat
      BY DEF Base64Inv, Base64Typed
    <3>. HIDE DEF a, b, c
    <3>. QED BY <3>1, <1>2, <1>4, <1>8 DEF Padded
  <2>. HIDE DEF a, b, c
  <2>. QED BY <2>1, <1>7 DEF Coded, c1, c2, c3, c4
<1>10. Written(m + 1)'
  <2>. SUFFICES ASSUME NEW i \in 0 .. m PROVE Coded(i)'
    BY DEF Written
  <2>1. CASE i = m
    BY <2>1, <1>9
  <2>2. CASE i < m
    <3>1. Coded(i)
      BY <2>2, <1>1 DEF Encoded, Written
    <3>2. \A j \in 4 * i + 1 .. 4 * i + 4 : encoded'[j] = encoded[j]
      <4>1. \A j \in 4 * i + 1 .. 4 * i + 4 : j \in 1 .. 4 * m
        BY <2>2
      <4>. QED BY <4>1, <1>7
    <3>. QED BY <3>1, <3>2, <1>8, SameCode
  <2>. QED BY <2>1, <2>2
<1>11. Encoded(m + 1)'
  BY <1>1, <1>2, <1>7, <1>8, <1>10 DEF Encoded
<1>. QED BY <1>7, <1>8, <1>11 DEF Base64Inv, Base64Typed, Base64EncStep

LEMMA EndsEncodingInv ==
  ASSUME Base64Inv, EndsEncoding PROVE Base64Inv'
<1>1. PICK m \in Nat : Encoded(m)
  BY DEF Base64Inv, EndsEncoding
<1>2. Len(source) \in Nat /\ Len(source) - 3 * m \in 0 .. 2
  BY <1>1 DEF EndsEncoding, inputRemaining, Encoded, Base64Inv, Base64Typed
<1>3. /\ UNCHANGED <<source, tail, decoded>> /\ inputConsumed' = 0 /\ phase' = "decode"
      /\ decoded = <<>>
  BY <1>1 DEF EndsEncoding, Encoded
<1>4. encoded' \in Seq(Int) /\ Len(encoded') = 4 * Groups /\ Written(Groups)'
  <2>1. CASE Len(source) = 3 * m
    <3>1. Groups = m /\ encoded' = encoded
      BY <2>1, <1>1 DEF Groups, EndsEncoding, inputRemaining, Encoded, Base64Inv, Base64Typed
    <3>2. Written(m)'
      BY <3>1, <1>1, <1>3 DEF Encoded, Written, Coded, Has, Padded
    <3>. QED BY <3>1, <3>2, <1>1, <1>3 DEF Encoded, Base64Inv, Base64Typed, Written, Groups
  <2>2. CASE Len(source) # 3 * m
    <3>1. Groups = m + 1
      BY <2>2, <1>2 DEF Groups
    <3>. DEFINE a == Padded(3 * m + 1)   b == Padded(3 * m + 2)
                left == Len(source) - 3 * m
                c1 == binToBase64(a \div 4)   c2 == binToBase64(Second(a, b))
                c3 == IF left = 1 THEN PAD ELSE binToBase64(Third(b, 0))
    <3>2. left \in {1, 2} /\ 3 * m + 1 \in Nat /\ 3 * m + 2 \in Nat
      BY <1>2, <2>2
    <3>3. /\ a = source[3 * m + 1] /\ a \in Byte /\ Padded(3 * m + 3) = 0
          /\ left = 1 => b = 0
          /\ left = 2 => b = source[3 * m + 2] /\ b \in Byte
      BY <1>2, <3>2 DEF Base64Inv, Base64Typed, Padded
    <3>4. EncodedTail = <<c1, c2, c3, PAD>>
      <4>1. inputRemaining = left /\ Ahead(1) = a /\ (left = 2 => Ahead(2) = b)
        BY <1>1, <3>3 DEF inputRemaining, Ahead, Encoded
      <4>2. left = 1 => Second(a, b) = (a % 4) * 16
        <5>. HIDE DEF a, b, left
        <5>. QED BY <3>3, SplitByte DEF Second
      <4>3. left = 2 => Third(b, 0) = (b % 16) * 4
        <5>. HIDE DEF a, b, left
        <5>. QED BY <3>3, SplitByte DEF Third
      <4>. HIDE DEF a, b, left
      <4>. QED BY <4>1, <4>2, <4>3, <3>2 DEF EncodedTail
    <3>5. encoded' = encoded \o <<c1, c2, c3, PAD>>
      <4>1. inputRemaining > 0
        BY <3>2, <1>1 DEF inputRemaining, Encoded
      <4>2. encoded' = encoded \o EncodedTail
        BY <4>1, <1>1 DEF EndsEncoding
      <4>. QED BY <4>2, <3>4
    <3>6. c1 \in Int /\ c2 \in Int /\ c3 \in Int /\ PAD \in Int
      <4>1. \A v \in Int : binToBase64(v) \in Int
        BY DEF binToBase64
      <4>2. a \in Int /\ b \in Int
        <5>. HIDE DEF a, b, left
        <5>. QED BY <3>2, <3>3 DEF Byte
      <4>3. a \div 4 \in Int /\ Second(a, b) \in Int /\ Third(b, 0) \in Int
        <5>. HIDE DEF a, b, left
        <5>. QED BY <4>2 DEF Second, Third
      <4>. HIDE DEF a, b, left
      <4>. QED BY <4>1, <4>3 DEF PAD
    <3>. HIDE DEF a, b, left, c1, c2, c3
    <3>7. /\ encoded' \in Seq(Int) /\ Len(encoded') = 4 * m + 4
          /\ \A j \in 1 .. 4 * m : encoded'[j] = encoded[j]
          /\ Has(encoded', 4 * m, c1, c2, c3, PAD)
      <4>1. encoded \in Seq(Int) /\ Len(encoded) = 4 * m
        BY <1>1 DEF Encoded, Base64Inv, Base64Typed
      <4>. DEFINE t == <<c1, c2, c3, PAD>>
      <4>2. /\ t \in Seq(Int) /\ Len(t) = 4
            /\ t[1] = c1 /\ t[2] = c2 /\ t[3] = c3 /\ t[4] = PAD
        BY <3>6
      <4>3. encoded' = encoded \o t
        BY <3>5
      <4>. HIDE DEF t
      <4>4. Extends(encoded', encoded, t)
        BY <4>1, <4>2, <4>3, Appended
      <4>5. /\ encoded' \in Seq(Int) /\ Len(encoded') = 4 * m + 4
            /\ \A j \in 1 .. 4 * m : encoded'[j] = encoded[j]
            /\ Has(encoded', 4 * m, t[1], t[2], t[3], t[4])
        BY <4>1, <4>2, <4>4, ExtendedByFour
      <4>. QED BY <4>2, <4>5
    <3>8. Coded(m)'
      <4>1. /\ Padded(3 * m + 1)' = a /\ Padded(3 * m + 2)' = b /\ Padded(3 * m + 3)' = 0
            /\ (Len(source) - 3 * m)' = left /\ left < 3
        BY <1>3, <3>2, <3>3 DEF Padded, a, b, left
      <4>. QED BY <4>1, <3>7 DEF Coded, c1, c2, c3
    <3>9. Written(m + 1)'
      <4>. SUFFICES ASSUME NEW i \in 0 .. m PROVE Coded(i)'
        BY DEF Written
      <4>1. CASE i = m
        BY <4>1, <3>8
      <4>2. CASE i < m
        <5>1. Coded(i)
          BY <4>2, <1>1 DEF Encoded, Written
        <5>2. \A j \in 4 * i + 1 .. 4 * i + 4 : encoded'[j] = encoded[j]
          <6>1. \A j \in 4 * i + 1 .. 4 * i + 4 : j \in 1 .. 4 * m
            BY <4>2
          <6>. QED BY <6>1, <3>7
        <5>. QED BY <5>1, <5>2, <1>3, SameCode
      <4>. QED BY <4>1, <4>2
    <3>10. Groups' = m + 1
      BY <3>1, <1>3 DEF Groups
    <3>. QED BY <3>1, <3>7, <3>9, <3>10
  <2>. QED BY <2>1, <2>2
<1>5. Decoded(0)'
  BY <1>3, <1>4 DEF Decoded, ToDecode, Base64Inv, Base64Typed, LineEnds
<1>. QED BY <1>3, <1>4, <1>5 DEF Base64Inv, Base64Typed, Groups

\* Every group of the text decodes to the source, padded with zero bytes.
LEMMA TextStands ==
  ASSUME Base64Typed, Len(encoded) = 4 * Groups, Written(Groups),
         NEW i \in Nat, 4 * i + 4 <= Len(ToDecode)
  PROVE  Group(ToDecode, 4 * i) = Three(i)
<1>1. Groups \in Nat /\ 3 * Groups >= Len(source) /\ Len(source) \in Nat
  BY DEF Groups, Base64Typed
<1>2. CASE i < Groups
  <2>1. 4 * i \in Nat /\ \A j \in 4 * i + 1 .. 4 * i + 4 : ToDecode[j] = encoded[j]
    <3>1. \A j \in 4 * i + 1 .. 4 * i + 4 : j \in 1 .. Len(encoded)
      BY <1>1, <1>2
    <3>2. \A j \in 1 .. Len(encoded) : ToDecode[j] = encoded[j]
      BY DEF ToDecode, Base64Typed, LineEnds
    <3>. QED BY <3>1, <3>2
  <2>2. Group(ToDecode, 4 * i) = Group(encoded, 4 * i)
    BY <2>1, SameGroup
  <2>3. Stands(Groups)
    BY WrittenStands DEF Base64Typed
  <2>. QED BY <2>2, <2>3, <1>1, <1>2 DEF Stands
<1>3. CASE i >= Groups
  <2>0. encoded \in Seq(Int) /\ tail \in Seq(Int)
    <3>1. <<>> \in Seq(Int) /\ <<13, 10, 13, 10>> \in Seq(Int)
      OBVIOUS
    <3>2. encoded \in Seq(Int) /\ (tail = <<>> \/ tail = <<13, 10, 13, 10>>)
      BY DEF Base64Typed, LineEnds
    <3>. QED BY <3>1, <3>2
  <2>. Extends(ToDecode, encoded, tail)
    BY <2>0, Appended DEF ToDecode
  <2>1. Len(ToDecode) = 4 * Groups + Len(tail)
    BY DEF Extends
  <2>2. tail # <<>>
    <3>1. Len(tail) > 0
      BY <1>1, <1>3, <2>1 DEF Base64Typed, LineEnds
    <3>. QED BY <3>1
  <2>3. tail = <<13, 10, 13, 10>>
    BY <2>2 DEF Base64Typed, LineEnds
  <2>4. Len(tail) = 4
    BY <2>3
  <2>5. i = Groups
    BY <1>1, <1>3, <2>1, <2>4
  <2>6. Has(ToDecode, 4 * i, 13, 10, 13, 10) /\ 4 * i \in Nat
    <3>1. encoded \in Seq(Int) /\ Len(encoded) = 4 * i
      BY <2>0, <2>5
    <3>2. tail[1] = 13 /\ tail[2] = 10 /\ tail[3] = 13 /\ tail[4] = 10
      BY <2>3
    <3>3. Has(ToDecode, 4 * i, tail[1], tail[2], tail[3], tail[4])
      BY <3>1, <2>4, ExtendedByFour
    <3>. QED BY <3>2, <3>3
  <2>7. Three(i) = <<0, 0, 0>>
    BY <1>1, <2>5 DEF Three, Padded
  <2>. QED BY <2>6, <2>7, GroupOfLineEnds
<1>. QED BY <1>1, <1>2, <1>3

LEMMA DecStepInv ==
  ASSUME Base64Inv, Base64DecStep PROVE Base64Inv'
<1>1. PICK m \in Nat : Decoded(m)
  BY DEF Base64Inv, Base64DecStep
<1>2. UNCHANGED <<source, encoded, tail, phase>> /\ inputConsumed' = 4 * (m + 1) /\ phase = "decode"
  BY <1>1 DEF Base64DecStep, Decoded
<1>3. 4 * m + 4 <= Len(ToDecode)
  BY <1>1 DEF Base64DecStep, Decoded
<1>4. decoded' = decoded \o <<Padded(3 * m + 1), Padded(3 * m + 2), Padded(3 * m + 3)>>
  BY <1>1, <1>2, <1>3, TextStands DEF Base64Inv, Base64DecStep, Decoded, Three
<1>5. Padded(3 * m + 1) \in Int /\ Padded(3 * m + 2) \in Int /\ Padded(3 * m + 3) \in Int
  <2>1. \A p \in Nat \ {0} : Padded(p) \in Int
    <3>1. Len(source) \in Nat /\ \A p \in 1 .. Len(source) : source[p] \in Int
      <4>1. source \in Seq(Byte) /\ \A b \in Byte : b \in Int
        BY DEF Base64Inv, Base64Typed, Byte
      <4>. QED BY <4>1
    <3>. QED BY <3>1 DEF Padded
  <2>2. 3 * m + 1 \in Nat \ {0} /\ 3 * m + 2 \in Nat \ {0} /\ 3 * m + 3 \in Nat \ {0}
    OBVIOUS
  <2>. QED BY <2>1, <2>2
<1>6. /\ decoded' \in Seq(Int) /\ Len(decoded') = 3 * m + 3
      /\ \A p \in 1 .. 3 * m : decoded'[p] = decoded[p]
      /\ decoded'[3 * m + 1] = Padded(3 * m + 1) /\ decoded'[3 * m + 2] = Padded(3 * m + 2)
      /\ decoded'[3 * m + 3] = Padded(3 * m + 3)
  <2>1. decoded \in Seq(Int) /\ Len(decoded) = 3 * m
    BY <1>1 DEF Base64Inv, Base64Typed, Decoded
  <2>. DEFINE q == <<Padded(3 * m + 1), Padded(3 * m + 2), Padded(3 * m + 3)>>
  <2>2. /\ q \in Seq(Int) /\ Len(q) = 3 /\ q[1] = Padded(3 * m + 1)
        /\ q[2] = Padded(3 * m + 2) /\ q[3] = Padded(3 * m + 3)
    BY <1>5
  <2>3. decoded' = decoded \o q
    BY <1>4
  <2>. HIDE DEF q
  <2>4. Extends(decoded', decoded, q)
    BY <2>1, <2>2, <2>3, Appended
  <2>5. 1 \in 1 .. Len(q) /\ 2 \in 1 .. Len(q) /\ 3 \in 1 .. Len(q)
    BY <2>2
  <2>6. /\ decoded' \in Seq(Int) /\ Len(decoded') = 3 * m + 3
        /\ \A p \in 1 .. 3 * m : decoded'[p] = decoded[p]
        /\ \A p \in 1 .. Len(q) : decoded'[3 * m + p] = q[p]
    BY <2>1, <2>2, <2>4 DEF Extends
  <2>7. decoded'[3 * m + 1] = q[1] /\ decoded'[3 * m + 2] = q[2] /\ decoded'[3 * m + 3] = q[3]
    BY <2>5, <2>6
  <2>. QED BY <2>2, <2>6, <2>7
<1>7. \A p \in 1 .. 3 * (m + 1) : decoded'[p] = Padded(p)
  <2>1. \A p \in 1 .. 3 * m : decoded'[p] = Padded(p)
    BY <1>1, <1>6 DEF Decoded
  <2>2. ASSUME NEW p \in 1 .. 3 * (m + 1) PROVE decoded'[p] = Padded(p)
    <3>1. p \in 1 .. 3 * m \/ p = 3 * m + 1 \/ p = 3 * m + 2 \/ p = 3 * m + 3
      OBVIOUS
    <3>. QED BY <3>1, <2>1, <1>6
  <2>. QED BY <2>2
<1>8. Decoded(m + 1)'
  BY <1>2, <1>3, <1>6, <1>7 DEF Decoded, ToDecode, Padded
<1>. QED BY <1>2, <1>6, <1>8 DEF Base64Inv, Base64Typed, Written, Coded, Padded, Groups

LEMMA NextInv == Base64Inv /\ [Base64Next]_base64Vars => Base64Inv'
<1>. SUFFICES ASSUME Base64Inv, [Base64Next]_base64Vars PROVE Base64Inv'
  OBVIOUS
<1>1. CASE Base64EncStep
  BY <1>1, EncStepInv
<1>2. CASE EndsEncoding
  BY <1>2, EndsEncodingInv
<1>3. CASE Base64DecStep
  BY <1>3, DecStepInv
<1>4. CASE EndsDecoding
  <2>1. PICK m \in Nat : Decoded(m)
    BY <1>4 DEF Base64Inv, EndsDecoding
  <2>2. Decoded(m)'
    BY <1>4, <2>1 DEF EndsDecoding, Decoded, ToDecode, Padded
  <2>. QED BY <1>4, <2>2 DEF Base64Inv, EndsDecoding, Base64Typed, Written, Coded, Padded, Groups
<1>5. CASE UNCHANGED base64Vars
  BY <1>5 DEF base64Vars, Base64Inv, Base64Typed, Encoded, Decoded, ToDecode, Written, Coded, Padded, Groups
<1>. QED BY <1>1, <1>2, <1>3, <1>4, <1>5 DEF Base64Next, Base64Done

LEMMA InvImpliesRoundTrip == Base64Inv => RoundTrip
<1>. SUFFICES ASSUME Base64Inv, phase = "done"
              PROVE  /\ Len(decoded) >= Len(source)
                     /\ \A p \in 1 .. Len(decoded) : decoded[p] = Padded(p)
  BY DEF RoundTrip
<1>1. PICK m \in Nat : Decoded(m)
  BY DEF Base64Inv
<1>2. Groups \in Nat /\ 3 * Groups >= Len(source) /\ Len(source) \in Nat
  BY DEF Groups, Base64Inv, Base64Typed
<1>3. Len(ToDecode) >= 4 * Groups
  BY <1>2 DEF ToDecode, Base64Inv, Base64Typed, LineEnds
<1>4. Len(ToDecode) \in Nat
  BY DEF ToDecode, Base64Inv, Base64Typed, LineEnds
<1>. QED BY <1>1, <1>2, <1>3, <1>4 DEF Decoded

LEMMA PartsOfBits ==
  ASSUME NEW b0 \in 0 .. 1, NEW b1 \in 0 .. 1, NEW b2 \in 0 .. 1, NEW b3 \in 0 .. 1,
         NEW b4 \in 0 .. 1, NEW b5 \in 0 .. 1, NEW b6 \in 0 .. 1, NEW b7 \in 0 .. 1,
         NEW b \in Byte,
         b = b0 * 128 + b1 * 64 + b2 * 32 + b3 * 16 + b4 * 8 + b5 * 4 + b6 * 2 + b7
  PROVE  /\ b \div 4 = 32 * b0 + 16 * b1 + 8 * b2 + 4 * b3 + 2 * b4 + b5
         /\ b % 4 = 2 * b6 + b7
         /\ b \div 16 = 8 * b0 + 4 * b1 + 2 * b2 + b3
         /\ b % 16 = 8 * b4 + 4 * b5 + 2 * b6 + b7
         /\ b \div 64 = 2 * b0 + b1
         /\ b % 64 = 32 * b2 + 16 * b3 + 8 * b4 + 4 * b5 + 2 * b6 + b7
OBVIOUS

LEMMA BitsOfByte ==
  ASSUME NEW b \in Byte
  PROVE  /\ \A n \in 0 .. 7 : BitOf(b, n) \in 0 .. 1
         /\ b = BitOf(b, 0) * 128 + BitOf(b, 1) * 64 + BitOf(b, 2) * 32 + BitOf(b, 3) * 16
                + BitOf(b, 4) * 8 + BitOf(b, 5) * 4 + BitOf(b, 6) * 2 + BitOf(b, 7)
<1>. DEFINE b0 == BitOf(b, 0)  b1 == BitOf(b, 1)  b2 == BitOf(b, 2)  b3 == BitOf(b, 3)
            b4 == BitOf(b, 4)  b5 == BitOf(b, 5)  b6 == BitOf(b, 6)  b7 == BitOf(b, 7)
<1>1. /\ b0 = (b \div 128) % 2 /\ b1 = (b \div 64) % 2 /\ b2 = (b \div 32) % 2
      /\ b3 = (b \div 16) % 2 /\ b4 = (b \div 8) % 2 /\ b5 = (b \div 4) % 2
      /\ b6 = (b \div 2) % 2 /\ b7 = b % 2
  BY DEF BitOf, Byte
<1>. HIDE DEF b0, b1, b2, b3, b4, b5, b6, b7
<1>2. b \in 0 .. 255
  BY DEF Byte
<1>3. b = (b \div 2) * 2 + b7 /\ b7 \in 0 .. 1
  BY <1>1, <1>2
<1>4. b \div 2 = (b \div 4) * 2 + b6 /\ b6 \in 0 .. 1
  BY <1>1, <1>2
<1>5. b \div 4 = (b \div 8) * 2 + b5 /\ b5 \in 0 .. 1
  BY <1>1, <1>2
<1>6. b \div 8 = (b \div 16) * 2 + b4 /\ b4 \in 0 .. 1
  BY <1>1, <1>2
<1>7. b \div 16 = (b \div 32) * 2 + b3 /\ b3 \in 0 .. 1
  BY <1>1, <1>2
<1>8. b \div 32 = (b \div 64) * 2 + b2 /\ b2 \in 0 .. 1
  BY <1>1, <1>2
<1>9. b \div 64 = (b \div 128) * 2 + b1 /\ b1 \in 0 .. 1
  BY <1>1, <1>2
<1>10. b \div 128 = b0 /\ b0 \in 0 .. 1
  BY <1>1, <1>2
<1>11. b = b0 * 128 + b1 * 64 + b2 * 32 + b3 * 16 + b4 * 8 + b5 * 4 + b6 * 2 + b7
  BY <1>2, <1>3, <1>4, <1>5, <1>6, <1>7, <1>8, <1>9, <1>10
<1>12. ASSUME NEW n \in 0 .. 7 PROVE BitOf(b, n) \in 0 .. 1
  <2>1. n = 0 \/ n = 1 \/ n = 2 \/ n = 3 \/ n = 4 \/ n = 5 \/ n = 6 \/ n = 7
    OBVIOUS
  <2>. QED BY <2>1, <1>3, <1>4, <1>5, <1>6, <1>7, <1>8, <1>9, <1>10
            DEF b0, b1, b2, b3, b4, b5, b6, b7
<1>. QED BY <1>11, <1>12 DEF b0, b1, b2, b3, b4, b5, b6, b7

\* The six bits of each character of a group, in the numbers of base64.c.
LEMMA SextetsInBits ==
  ASSUME NEW a \in Byte, NEW b \in Byte, NEW c \in Byte
  PROVE  /\ a \div 4 = 32 * BitOf(a, 0) + 16 * BitOf(a, 1) + 8 * BitOf(a, 2)
                         + 4 * BitOf(a, 3) + 2 * BitOf(a, 4) + BitOf(a, 5)
         /\ Second(a, b) = 32 * BitOf(a, 6) + 16 * BitOf(a, 7) + 8 * BitOf(b, 0)
                            + 4 * BitOf(b, 1) + 2 * BitOf(b, 2) + BitOf(b, 3)
         /\ Third(b, c) = 32 * BitOf(b, 4) + 16 * BitOf(b, 5) + 8 * BitOf(b, 6)
                           + 4 * BitOf(b, 7) + 2 * BitOf(c, 0) + BitOf(c, 1)
         /\ c % 64 = 32 * BitOf(c, 2) + 16 * BitOf(c, 3) + 8 * BitOf(c, 4)
                      + 4 * BitOf(c, 5) + 2 * BitOf(c, 6) + BitOf(c, 7)
<1>1. ASSUME NEW x \in Byte
      PROVE  /\ BitOf(x, 0) \in 0 .. 1 /\ BitOf(x, 1) \in 0 .. 1 /\ BitOf(x, 2) \in 0 .. 1
             /\ BitOf(x, 3) \in 0 .. 1 /\ BitOf(x, 4) \in 0 .. 1 /\ BitOf(x, 5) \in 0 .. 1
             /\ BitOf(x, 6) \in 0 .. 1 /\ BitOf(x, 7) \in 0 .. 1
  BY BitsOfByte
<1>2. ASSUME NEW x \in Byte
      PROVE  /\ x \div 4 = 32 * BitOf(x, 0) + 16 * BitOf(x, 1) + 8 * BitOf(x, 2)
                            + 4 * BitOf(x, 3) + 2 * BitOf(x, 4) + BitOf(x, 5)
             /\ x % 4 = 2 * BitOf(x, 6) + BitOf(x, 7)
             /\ x \div 16 = 8 * BitOf(x, 0) + 4 * BitOf(x, 1) + 2 * BitOf(x, 2) + BitOf(x, 3)
             /\ x % 16 = 8 * BitOf(x, 4) + 4 * BitOf(x, 5) + 2 * BitOf(x, 6) + BitOf(x, 7)
             /\ x \div 64 = 2 * BitOf(x, 0) + BitOf(x, 1)
             /\ x % 64 = 32 * BitOf(x, 2) + 16 * BitOf(x, 3) + 8 * BitOf(x, 4)
                         + 4 * BitOf(x, 5) + 2 * BitOf(x, 6) + BitOf(x, 7)
  BY <1>1, BitsOfByte, PartsOfBits
<1>3. Second(a, b) = 32 * BitOf(a, 6) + 16 * BitOf(a, 7) + 8 * BitOf(b, 0)
                     + 4 * BitOf(b, 1) + 2 * BitOf(b, 2) + BitOf(b, 3)
  <2>1. a % 4 = 2 * BitOf(a, 6) + BitOf(a, 7)
    BY <1>2
  <2>2. b \div 16 = 8 * BitOf(b, 0) + 4 * BitOf(b, 1) + 2 * BitOf(b, 2) + BitOf(b, 3)
    BY <1>2
  <2>. QED BY <1>1, <2>1, <2>2 DEF Second
<1>4. Third(b, c) = 32 * BitOf(b, 4) + 16 * BitOf(b, 5) + 8 * BitOf(b, 6)
                    + 4 * BitOf(b, 7) + 2 * BitOf(c, 0) + BitOf(c, 1)
  <2>1. b % 16 = 8 * BitOf(b, 4) + 4 * BitOf(b, 5) + 2 * BitOf(b, 6) + BitOf(b, 7)
    BY <1>2
  <2>2. c \div 64 = 2 * BitOf(c, 0) + BitOf(c, 1)
    BY <1>2
  <2>. QED BY <1>1, <2>1, <2>2 DEF Third
<1>. QED BY <1>2, <1>3, <1>4

\* Where a bit of a group is in its three bytes.
LEMMA BitAt ==
  ASSUME NEW g \in Nat, NEW p \in 0 .. 2, NEW n \in 0 .. 7
  PROVE  Bit(24 * g + 8 * p + n) = BitOf(Padded(3 * g + p + 1), n)
<1>1. (24 * g + 8 * p + n) \div 8 = 3 * g + p /\ (24 * g + 8 * p + n) % 8 = n
  OBVIOUS
<1>. QED BY <1>1 DEF Bit

\* The six bits that RFC 4648 has for character r of group g.
Sextet(g, r) ==
  LET b(m) == Bit(24 * g + 6 * r + m)
  IN  32 * b(0) + 16 * b(1) + 8 * b(2) + 4 * b(3) + 2 * b(4) + b(5)

LEMMA SextetsOfGroup ==
  ASSUME NEW g \in Nat, source \in Seq(Byte), NEW a, NEW b, NEW c,
         a = Padded(3 * g + 1), b = Padded(3 * g + 2), c = Padded(3 * g + 3)
  PROVE  /\ Sextet(g, 0) = a \div 4 /\ Sextet(g, 1) = Second(a, b)
         /\ Sextet(g, 2) = Third(b, c) /\ Sextet(g, 3) = c % 64
<1>1. a \in Byte /\ b \in Byte /\ c \in Byte
  <2>1. \A p \in Nat \ {0} : Padded(p) \in Byte
    <3>1. Len(source) \in Nat /\ \A p \in 1 .. Len(source) : source[p] \in Byte
      OBVIOUS
    <3>2. 0 \in Byte
      BY DEF Byte
    <3>. QED BY <3>1, <3>2 DEF Padded
  <2>2. 3 * g + 1 \in Nat \ {0} /\ 3 * g + 2 \in Nat \ {0} /\ 3 * g + 3 \in Nat \ {0}
    OBVIOUS
  <2>. QED BY <2>1, <2>2
<1>2. /\ \A n \in 0 .. 7 : Bit(24 * g + 8 * 0 + n) = BitOf(a, n)
      /\ \A n \in 0 .. 7 : Bit(24 * g + 8 * 1 + n) = BitOf(b, n)
      /\ \A n \in 0 .. 7 : Bit(24 * g + 8 * 2 + n) = BitOf(c, n)
  <2>1. 0 \in 0 .. 2 /\ 1 \in 0 .. 2 /\ 2 \in 0 .. 2
    OBVIOUS
  <2>2. 3 * g + 0 + 1 = 3 * g + 1 /\ 3 * g + 1 + 1 = 3 * g + 2 /\ 3 * g + 2 + 1 = 3 * g + 3
    OBVIOUS
  <2>. QED BY <2>1, <2>2, BitAt
<1>3. PICK s0, s1, s2, s3 : s0 = a \div 4 /\ s1 = Second(a, b) /\ s2 = Third(b, c) /\ s3 = c % 64
  OBVIOUS
<1>4. /\ s0 = 32 * BitOf(a, 0) + 16 * BitOf(a, 1) + 8 * BitOf(a, 2)
             + 4 * BitOf(a, 3) + 2 * BitOf(a, 4) + BitOf(a, 5)
      /\ s1 = 32 * BitOf(a, 6) + 16 * BitOf(a, 7) + 8 * BitOf(b, 0)
             + 4 * BitOf(b, 1) + 2 * BitOf(b, 2) + BitOf(b, 3)
      /\ s2 = 32 * BitOf(b, 4) + 16 * BitOf(b, 5) + 8 * BitOf(b, 6)
             + 4 * BitOf(b, 7) + 2 * BitOf(c, 0) + BitOf(c, 1)
      /\ s3 = 32 * BitOf(c, 2) + 16 * BitOf(c, 3) + 8 * BitOf(c, 4)
             + 4 * BitOf(c, 5) + 2 * BitOf(c, 6) + BitOf(c, 7)
  BY <1>3, <1>1, SextetsInBits
<1>5. Sextet(g, 0) = s0
  <2>1. /\ 24 * g + 6 * 0 + 0 = 24 * g + 8 * 0 + 0 /\ 24 * g + 6 * 0 + 1 = 24 * g + 8 * 0 + 1
        /\ 24 * g + 6 * 0 + 2 = 24 * g + 8 * 0 + 2 /\ 24 * g + 6 * 0 + 3 = 24 * g + 8 * 0 + 3
        /\ 24 * g + 6 * 0 + 4 = 24 * g + 8 * 0 + 4 /\ 24 * g + 6 * 0 + 5 = 24 * g + 8 * 0 + 5
    OBVIOUS
  <2>2. /\ Bit(24 * g + 6 * 0 + 0) = BitOf(a, 0) /\ Bit(24 * g + 6 * 0 + 1) = BitOf(a, 1)
        /\ Bit(24 * g + 6 * 0 + 2) = BitOf(a, 2) /\ Bit(24 * g + 6 * 0 + 3) = BitOf(a, 3)
        /\ Bit(24 * g + 6 * 0 + 4) = BitOf(a, 4) /\ Bit(24 * g + 6 * 0 + 5) = BitOf(a, 5)
    <3>1. 0 .. 7 = {0, 1, 2, 3, 4, 5, 6, 7}
      OBVIOUS
    <3>. QED BY <2>1, <3>1, <1>2
  <2>. QED BY <2>2, <1>4 DEF Sextet
<1>6. Sextet(g, 1) = s1
  <2>1. /\ 24 * g + 6 * 1 + 0 = 24 * g + 8 * 0 + 6 /\ 24 * g + 6 * 1 + 1 = 24 * g + 8 * 0 + 7
        /\ 24 * g + 6 * 1 + 2 = 24 * g + 8 * 1 + 0 /\ 24 * g + 6 * 1 + 3 = 24 * g + 8 * 1 + 1
        /\ 24 * g + 6 * 1 + 4 = 24 * g + 8 * 1 + 2 /\ 24 * g + 6 * 1 + 5 = 24 * g + 8 * 1 + 3
    OBVIOUS
  <2>2. /\ Bit(24 * g + 6 * 1 + 0) = BitOf(a, 6) /\ Bit(24 * g + 6 * 1 + 1) = BitOf(a, 7)
        /\ Bit(24 * g + 6 * 1 + 2) = BitOf(b, 0) /\ Bit(24 * g + 6 * 1 + 3) = BitOf(b, 1)
        /\ Bit(24 * g + 6 * 1 + 4) = BitOf(b, 2) /\ Bit(24 * g + 6 * 1 + 5) = BitOf(b, 3)
    <3>1. 0 .. 7 = {0, 1, 2, 3, 4, 5, 6, 7}
      OBVIOUS
    <3>. QED BY <2>1, <3>1, <1>2
  <2>. QED BY <2>2, <1>4 DEF Sextet
<1>7. Sextet(g, 2) = s2
  <2>1. /\ 24 * g + 6 * 2 + 0 = 24 * g + 8 * 1 + 4 /\ 24 * g + 6 * 2 + 1 = 24 * g + 8 * 1 + 5
        /\ 24 * g + 6 * 2 + 2 = 24 * g + 8 * 1 + 6 /\ 24 * g + 6 * 2 + 3 = 24 * g + 8 * 1 + 7
        /\ 24 * g + 6 * 2 + 4 = 24 * g + 8 * 2 + 0 /\ 24 * g + 6 * 2 + 5 = 24 * g + 8 * 2 + 1
    OBVIOUS
  <2>2. /\ Bit(24 * g + 6 * 2 + 0) = BitOf(b, 4) /\ Bit(24 * g + 6 * 2 + 1) = BitOf(b, 5)
        /\ Bit(24 * g + 6 * 2 + 2) = BitOf(b, 6) /\ Bit(24 * g + 6 * 2 + 3) = BitOf(b, 7)
        /\ Bit(24 * g + 6 * 2 + 4) = BitOf(c, 0) /\ Bit(24 * g + 6 * 2 + 5) = BitOf(c, 1)
    <3>1. 0 .. 7 = {0, 1, 2, 3, 4, 5, 6, 7}
      OBVIOUS
    <3>. QED BY <2>1, <3>1, <1>2
  <2>. QED BY <2>2, <1>4 DEF Sextet
<1>8. Sextet(g, 3) = s3
  <2>1. /\ 24 * g + 6 * 3 + 0 = 24 * g + 8 * 2 + 2 /\ 24 * g + 6 * 3 + 1 = 24 * g + 8 * 2 + 3
        /\ 24 * g + 6 * 3 + 2 = 24 * g + 8 * 2 + 4 /\ 24 * g + 6 * 3 + 3 = 24 * g + 8 * 2 + 5
        /\ 24 * g + 6 * 3 + 4 = 24 * g + 8 * 2 + 6 /\ 24 * g + 6 * 3 + 5 = 24 * g + 8 * 2 + 7
    OBVIOUS
  <2>2. /\ Bit(24 * g + 6 * 3 + 0) = BitOf(c, 2) /\ Bit(24 * g + 6 * 3 + 1) = BitOf(c, 3)
        /\ Bit(24 * g + 6 * 3 + 2) = BitOf(c, 4) /\ Bit(24 * g + 6 * 3 + 3) = BitOf(c, 5)
        /\ Bit(24 * g + 6 * 3 + 4) = BitOf(c, 6) /\ Bit(24 * g + 6 * 3 + 5) = BitOf(c, 7)
    <3>1. 0 .. 7 = {0, 1, 2, 3, 4, 5, 6, 7}
      OBVIOUS
    <3>. QED BY <2>1, <3>1, <1>2
  <2>. QED BY <2>2, <1>4 DEF Sextet
<1>. QED BY <1>3, <1>5, <1>6, <1>7, <1>8

LEMMA InvImpliesEncodes == Base64Inv => EncodesAsRFC4648
<1>. SUFFICES ASSUME Base64Inv, phase = "done", NEW i \in 1 .. 4 * ((Len(source) + 2) \div 3)
              PROVE  encoded[i] =
                       IF 6 * (i - 1) >= 8 * Len(source) THEN PAD
                       ELSE LET b(m) == Bit(6 * (i - 1) + m) IN
                            binToBase64(32 * b(0) + 16 * b(1) + 8 * b(2) + 4 * b(3) + 2 * b(4) + b(5))
  BY DEF EncodesAsRFC4648
<1>. DEFINE g == (i - 1) \div 4   r == (i - 1) % 4   left == Len(source) - 3 * g
<1>1. source \in Seq(Byte) /\ Written(Groups) /\ Len(source) \in Nat
  BY DEF Base64Inv, Base64Typed
<1>2. /\ g \in Nat /\ r \in 0 .. 3 /\ i = 4 * g + r + 1 /\ g \in 0 .. Groups - 1
      /\ left \in Nat /\ left >= 1
  <2>1. i - 1 \in Nat /\ g \in Nat /\ r \in 0 .. 3 /\ i - 1 = g * 4 + r
    BY <1>1
  <2>. HIDE DEF g, r
  <2>2. Groups \in Nat /\ i <= 4 * Groups /\ 3 * Groups <= Len(source) + 2
    BY <1>1 DEF Groups
  <2>. QED BY <2>1, <2>2, <1>1
<1>3. Coded(g)
  BY <1>1, <1>2 DEF Written
<1>. DEFINE a == Padded(3 * g + 1)   b == Padded(3 * g + 2)   c == Padded(3 * g + 3)
<1>4. Has(encoded, 4 * g, binToBase64(a \div 4), binToBase64(Second(a, b)),
          IF left = 1 THEN PAD ELSE binToBase64(Third(b, c)),
          IF left < 3 THEN PAD ELSE binToBase64(c % 64))
  BY <1>3 DEF Coded
<1>5. 6 * (i - 1) >= 8 * Len(source) <=> (r = 2 /\ left = 1) \/ (r = 3 /\ left < 3)
  <2>1. Len(source) = 3 * g + left
    BY <1>1, <1>2
  <2>. HIDE DEF g, r, left
  <2>. QED BY <2>1, <1>1, <1>2
<1>6. /\ Sextet(g, 0) = a \div 4 /\ Sextet(g, 1) = Second(a, b)
      /\ Sextet(g, 2) = Third(b, c) /\ Sextet(g, 3) = c % 64
  <2>. HIDE DEF g
  <2>. QED BY <1>1, <1>2, SextetsOfGroup
<1>. HIDE DEF a, b, c
<1>7. encoded[i] = IF (r = 2 /\ left = 1) \/ (r = 3 /\ left < 3) THEN PAD
                   ELSE binToBase64(Sextet(g, r))
  <2>. HIDE DEF g, r, left
  <2>1. CASE r = 0
    BY <2>1, <1>2, <1>4, <1>6 DEF Has
  <2>2. CASE r = 1
    BY <2>2, <1>2, <1>4, <1>6 DEF Has
  <2>3. CASE r = 2
    BY <2>3, <1>2, <1>4, <1>6 DEF Has
  <2>4. CASE r = 3
    BY <2>4, <1>2, <1>4, <1>6 DEF Has
  <2>. QED BY <2>1, <2>2, <2>3, <2>4, <1>2
<1>8. 24 * g + 6 * r = 6 * (i - 1)
  <2>. HIDE DEF g, r
  <2>. QED BY <1>2
<1>. HIDE DEF g, r, left
<1>. QED BY <1>5, <1>7, <1>8 DEF Sextet

LEMMA InvImpliesBuffers == Base64Inv => StaysWithinItsBuffers
<1>. SUFFICES ASSUME Base64Inv PROVE StaysWithinItsBuffers
  OBVIOUS
<1>1. Len(source) \in Nat /\ Len(encoded) \in Nat /\ Len(ToDecode) \in Nat
  BY DEF ToDecode, Base64Inv, Base64Typed, LineEnds
<1>2. CASE phase = "encode"
  <2>1. PICK m \in Nat : Encoded(m)
    BY <1>2 DEF Base64Inv
  <2>. QED BY <1>1, <2>1 DEF Encoded, StaysWithinItsBuffers, CalcEncodedLen, CalcDecodedLen
<1>3. CASE phase # "encode"
  <2>1. PICK m \in Nat : Decoded(m)
    BY <1>3 DEF Base64Inv
  <2>2. Len(encoded) = 4 * ((Len(source) + 2) \div 3)
    BY <1>3 DEF Base64Inv, Groups
  <2>3. Len(encoded) <= CalcEncodedLen(Len(source))
    BY <1>1, <2>2 DEF CalcEncodedLen
  <2>4. Len(decoded) <= CalcDecodedLen(Len(ToDecode))
    BY <1>1, <2>1 DEF Decoded, CalcDecodedLen
  <2>. QED BY <2>3, <2>4 DEF StaysWithinItsBuffers
<1>. QED BY <1>2, <1>3

\* For inputs of every length: Base64Decode of what Base64Encode has written,
\* with line ends behind it or not, is the source and then zero bytes.
THEOREM RoundTripAlways == Base64Spec => []RoundTrip
<1>. QED BY InitInv, NextInv, InvImpliesRoundTrip, PTL DEF Base64Spec

\* For inputs of every length neither loop writes more than CalcEncodedLen and
\* CalcDecodedLen announce.
THEOREM BuffersAlways == Base64Spec => []StaysWithinItsBuffers
<1>. QED BY InitInv, NextInv, InvImpliesBuffers, PTL DEF Base64Spec

\* For inputs of every length Base64Encode writes the characters RFC 4648 has for
\* it, bit by bit, and '=' for those of the last group that get no bit.
THEOREM EncodesAsRFC4648Always == Base64Spec => []EncodesAsRFC4648
<1>. QED BY InitInv, NextInv, InvImpliesEncodes, PTL DEF Base64Spec

-----------------------------------------------------------------------------
(* sha.c and hmac_sha2.c.                                                  *)

\* What bytes are made of: constants, data, keys and what lay on the stack; hashes
\* of those; pads; hashes of those.
Basic == {<<origin, v>> : origin \in {"const", "data", "junk", "key"}, v \in Int}
Digests(S) == {<<"digest", h, i>> : h \in Seq(S), i \in 1 .. 32}
Xors(S) == {<<"xor", b, c>> : b \in S, c \in Int}

KeyByte == Basic \cup Digests(Basic)
PadByte == KeyByte \cup Xors(KeyByte)
Term == PadByte \cup Digests(PadByte)

ShaTyped ==
  /\ w \in [0 .. 63 -> Term] /\ addedW \in 0 .. 64 /\ msgLen \in Nat
  /\ hashed \in Seq(Term) /\ input \in Seq(Term) /\ fed \in Seq(Term)
  /\ pc \in {"idle", "process", "pad", "final"} /\ reused \in BOOLEAN
  /\ addedW = 64 => pc = "pad"

\* What the struct holds is the beginning of the bytes m(1), m(2) and so on.
Compressed(m, h) == \A i \in 1 .. Len(h) : h[i] = m[i]
InBlock(m, h, b, n) == \A j \in 0 .. n - 1 : b[j] = m[Len(h) + j + 1]

PaddedFed == [i \in 1 .. PaddedLen(Len(fed)) |-> PaddedByte(fed, i)]

Loading ==
  /\ Len(hashed) = msgLen /\ msgLen % 64 = 0 /\ Len(fed) = msgLen + addedW
  /\ Compressed(fed, hashed) /\ InBlock(fed, hashed, w, addedW)

\* The padding bit is in; one block or, if the length has no room, two remain.
Padding ==
  /\ msgLen = Len(fed) /\ Len(fed) + 1 <= Len(hashed) + addedW
  /\ PaddedLen(Len(fed)) = Len(hashed) + IF LengthFits THEN 64 ELSE 128
  /\ Compressed(PaddedFed, hashed) /\ InBlock(PaddedFed, hashed, w, addedW)

ShaInv ==
  /\ ShaTyped
  /\ ~reused /\ pc \in {"idle", "process"} => Loading
  /\ ~reused /\ pc = "pad" => Padding
  /\ ~reused /\ pc = "final" =>
       Len(hashed) = PaddedLen(Len(fed)) /\ Compressed(PaddedFed, hashed)

-----------------------------------------------------------------------------
LEMMA BasicBytes ==
  /\ Basic \subseteq KeyByte /\ KeyByte \subseteq PadByte /\ PadByte \subseteq Term
  /\ \A v \in Int : Const(v) \in Basic /\ Data(v) \in Term /\ <<"junk", v>> \in Term
<1>1. \A v \in Int : Const(v) \in Basic /\ Data(v) \in Basic /\ <<"junk", v>> \in Basic
  BY DEF Const, Data, Basic
<1>. QED BY <1>1 DEF KeyByte, PadByte, Term

LEMMA ConstIsByte == \A v \in Int : Const(v) \in Term
BY BasicBytes

\* t is s with the n elements q(1), q(2) and so on behind it.
Continues(t, s, q, n) ==
  /\ t \in Seq(Term) /\ Len(t) = Len(s) + n
  /\ \A i \in 1 .. Len(s) : t[i] = s[i]
  /\ \A i \in 1 .. n : t[Len(s) + i] = q[i]

LEMMA Continued ==
  ASSUME NEW s \in Seq(Term), NEW q \in Seq(Term)
  PROVE  Continues(s \o q, s, q, Len(q))
<1>1. \A i \in 1 .. Len(s) : (s \o q)[i] = s[i]
  BY ConcatProperties
<1>2. \A i \in 1 .. Len(q) : (s \o q)[Len(s) + i] = q[i]
  OBVIOUS
<1>. QED BY <1>1, <1>2, ConcatProperties DEF Continues

LEMMA FirstOf ==
  ASSUME NEW q \in Seq(Term), NEW n \in 0 .. Len(q)
  PROVE  /\ SubSeq(q, 1, n) \in Seq(Term) /\ Len(SubSeq(q, 1, n)) = n
         /\ \A i \in 1 .. n : SubSeq(q, 1, n)[i] = q[i]
<1>1. \A i \in 1 .. n : q[i] \in Term
  OBVIOUS
<1>. QED BY <1>1, SubSeqProperties

LEMMA RestOf ==
  ASSUME NEW q \in Seq(Term), NEW n \in 0 .. Len(q)
  PROVE  SubSeq(q, n + 1, Len(q)) \in Seq(Term)
<1>1. \A i \in n + 1 .. Len(q) : q[i] \in Term
  OBVIOUS
<1>. QED BY <1>1, SubSeqProperties

LEMMA BlockIsAppended ==
  ASSUME NEW h \in Seq(Term), NEW b \in [0 .. 63 -> Term]
  PROVE  /\ h \o Block(b) \in Seq(Term) /\ Len(h \o Block(b)) = Len(h) + 64
         /\ \A i \in 1 .. Len(h) : (h \o Block(b))[i] = h[i]
         /\ \A j \in 0 .. 63 : (h \o Block(b))[Len(h) + j + 1] = b[j]
<1>1. Block(b) \in Seq(Term) /\ Len(Block(b)) = 64 /\ \A i \in 1 .. 64 : Block(b)[i] = b[i - 1]
  BY DEF Block
<1>2. Continues(h \o Block(b), h, Block(b), 64)
  <2>. DEFINE q == Block(b)
  <2>1. q \in Seq(Term) /\ Len(q) = 64
    BY <1>1
  <2>. HIDE DEF q
  <2>2. Continues(h \o q, h, q, 64)
    BY <2>1, Continued
  <2>. QED BY <2>2 DEF q
<1>3. \A j \in 0 .. 63 : j + 1 \in 1 .. 64 /\ (j + 1) - 1 = j
  OBVIOUS
<1>. HIDE DEF Block
<1>4. /\ h \o Block(b) \in Seq(Term) /\ Len(h \o Block(b)) = Len(h) + 64
      /\ \A i \in 1 .. Len(h) : (h \o Block(b))[i] = h[i]
      /\ \A i \in 1 .. 64 : (h \o Block(b))[Len(h) + i] = Block(b)[i]
  BY <1>2 DEF Continues
<1>5. ASSUME NEW j \in 0 .. 63 PROVE (h \o Block(b))[Len(h) + j + 1] = b[j]
  <2>1. Len(h) + j + 1 = Len(h) + (j + 1)
    BY LenProperties
  <2>2. (h \o Block(b))[Len(h) + (j + 1)] = Block(b)[j + 1]
    BY <1>3, <1>4
  <2>. QED BY <1>1, <1>3, <2>1, <2>2
<1>. QED BY <1>4, <1>5

LEMMA PlaceInBlock ==
  ASSUME NEW n \in Nat, NEW i \in Nat, i > n, i <= n + 64
  PROVE  i - n - 1 \in 0 .. 63 /\ i = n + (i - n - 1) + 1
OBVIOUS

\* A block that is full goes to what is compressed.
LEMMA FullBlock ==
  ASSUME NEW m, NEW h \in Seq(Term), NEW b \in [0 .. 63 -> Term],
         Compressed(m, h), InBlock(m, h, b, 64)
  PROVE  Compressed(m, h \o Block(b))
<1>0. Len(h) \in Nat
  BY LenProperties
<1>. DEFINE t == h \o Block(b)
<1>1. /\ Len(t) = Len(h) + 64 /\ \A i \in 1 .. Len(h) : t[i] = h[i]
      /\ \A j \in 0 .. 63 : t[Len(h) + j + 1] = b[j]
  BY BlockIsAppended
<1>2. (\A i \in 1 .. Len(t) : t[i] = m[i]) => Compressed(m, t)
  BY DEF Compressed
<1>. HIDE DEF t
<1>3. ASSUME NEW i \in 1 .. Len(t) PROVE t[i] = m[i]
  <2>1. CASE i <= Len(h)
    <3>1. i \in 1 .. Len(h)
      BY <1>0, <1>1, <2>1
    <3>. QED BY <1>1, <3>1 DEF Compressed
  <2>2. CASE i > Len(h)
    <3>. DEFINE j == i - Len(h) - 1
    <3>a. Len(t) = Len(h) + 64
      BY <1>1
    <3>0. i \in Nat /\ i <= Len(h) + 64
      BY <1>0, <3>a
    <3>1. j \in 0 .. 63 /\ i = Len(h) + j + 1
      BY <1>0, <2>2, <3>0, PlaceInBlock
    <3>. HIDE DEF j
    <3>2. t[Len(h) + j + 1] = b[j]
      BY <1>1, <3>1
    <3>3. b[j] = m[Len(h) + j + 1]
      <4>1. j \in 0 .. 64 - 1
        BY <3>1
      <4>. QED BY <4>1 DEF InBlock
    <3>. QED BY <3>1, <3>2, <3>3
  <2>. QED BY <1>0, <1>1, <2>1, <2>2
<1>. QED BY <1>2, <1>3 DEF t

-----------------------------------------------------------------------------
LEMMA Divided ==
  ASSUME NEW n \in Nat, NEW d \in Nat, d > 0
  PROVE  /\ n \div d \in Nat /\ n % d \in Nat /\ n % d < d
         /\ n = (n \div d) * d + (n % d)
<1>1. n \div d \in Int /\ n % d \in 0 .. d - 1
  BY SMT
<1>2. n = (n \div d) * d + (n % d)
  BY SMT
<1>3. n \div d >= 0
  BY SMT
<1>. QED BY <1>1, <1>2, <1>3

IsPacked(p, v) ==
  /\ p \in Seq(Term) /\ Len(p) = 4
  /\ p[1] = Const((v \div 16777216) % 256) /\ p[2] = Const((v \div 65536) % 256)
  /\ p[3] = Const((v \div 256) % 256)      /\ p[4] = Const(v % 256)

LEMMA Packed == ASSUME NEW v \in Nat PROVE IsPacked(Pack32(v), v)
<1>1. (v \div 16777216) % 256 \in Int /\ (v \div 65536) % 256 \in Int
  BY SMT
<1>2. (v \div 256) % 256 \in Int /\ v % 256 \in Int
  BY SMT
<1>. QED BY <1>1, <1>2, ConstIsByte DEF Pack32, IsPacked

\* The low 29 bits of the length make the low word, the others the high one.
LEMMA BitsOfTheLowWord ==
  ASSUME NEW h \in Nat, NEW l \in Nat, NEW n \in Nat,
         l < 536870912, n = h * 536870912 + l
  PROVE  /\ (n \div 2097152) % 256 = ((l * 8) \div 16777216) % 256
         /\ (n \div 8192) % 256 = ((l * 8) \div 65536) % 256
         /\ (n \div 32) % 256 = ((l * 8) \div 256) % 256
         /\ (n % 32) * 8 = (l * 8) % 256
<1>1. (n % 32) * 8 = (l * 8) % 256
  BY SMTT(60)
<1>2. (n \div 32) % 256 = ((l * 8) \div 256) % 256
  BY SMTT(60)
<1>3. (n \div 8192) % 256 = ((l * 8) \div 65536) % 256
  BY SMTT(60)
<1>4. (n \div 2097152) % 256 = ((l * 8) \div 16777216) % 256
  BY SMTT(60)
<1>. QED BY <1>1, <1>2, <1>3, <1>4, SMT

\* The two words that pack32to8_be writes are the 64-bit length in bits.
LEMMA LengthIsPacked ==
  ASSUME NEW n \in Nat
  PROVE  /\ LengthOf(n) \in Seq(Term) /\ Len(LengthOf(n)) = 8
         /\ \A r \in 1 .. 8 : LengthOf(n)[r] = LengthByte(n, r)
<1>. DEFINE h == n \div 536870912   l == n % 536870912   hi == Pack32(h)   lo == Pack32(l * 8)
<1>1. 536870912 \in Nat /\ 536870912 > 0
  BY SMT
<1>2. h \in Nat /\ l \in Nat /\ l < 536870912 /\ n = h * 536870912 + l
  BY <1>1, Divided, SMT
<1>3. /\ LengthByte(n, 1) = Const((h \div 16777216) % 256)
      /\ LengthByte(n, 2) = Const((h \div 65536) % 256)
      /\ LengthByte(n, 3) = Const((h \div 256) % 256)
      /\ LengthByte(n, 4) = Const(h % 256)
      /\ LengthByte(n, 5) = Const((n \div 2097152) % 256)
      /\ LengthByte(n, 6) = Const((n \div 8192) % 256)
      /\ LengthByte(n, 7) = Const((n \div 32) % 256)
      /\ LengthByte(n, 8) = Const((n % 32) * 8)
  BY SMT DEF LengthByte
<1>4. LengthOf(n) = hi \o lo
  BY SMT DEF LengthOf
<1>. HIDE DEF h, l
<1>5. /\ (n \div 2097152) % 256 = ((l * 8) \div 16777216) % 256
      /\ (n \div 8192) % 256 = ((l * 8) \div 65536) % 256
      /\ (n \div 32) % 256 = ((l * 8) \div 256) % 256
      /\ (n % 32) * 8 = (l * 8) % 256
  BY <1>2, BitsOfTheLowWord, SMT
<1>6. l * 8 \in Nat
  BY <1>2
<1>7. /\ hi \in Seq(Term) /\ Len(hi) = 4
      /\ hi[1] = LengthByte(n, 1) /\ hi[2] = LengthByte(n, 2)
      /\ hi[3] = LengthByte(n, 3) /\ hi[4] = LengthByte(n, 4)
  <2>1. IsPacked(hi, h)
    BY <1>2, Packed
  <2>. QED BY <1>3, <2>1, SMT DEF IsPacked
<1>8. /\ lo \in Seq(Term) /\ Len(lo) = 4
      /\ lo[1] = LengthByte(n, 5) /\ lo[2] = LengthByte(n, 6)
      /\ lo[3] = LengthByte(n, 7) /\ lo[4] = LengthByte(n, 8)
  <2>1. IsPacked(lo, l * 8)
    BY <1>6, Packed
  <2>. QED BY <1>3, <1>5, <2>1, SMT DEF IsPacked
<1>. HIDE DEF hi, lo
<1>9. Continues(hi \o lo, hi, lo, 4)
  BY <1>7, <1>8, Continued
<1>. QED BY <1>4, <1>7, <1>8, <1>9 DEF Continues

-----------------------------------------------------------------------------
\* What PaddedByte gives, place by place.
PaddedAt(p, m) ==
  LET n == Len(m) IN
  /\ \A i \in 1 .. n : p[i] = m[i]
  /\ p[n + 1] = Const(128)
  /\ \A i \in n + 2 .. PaddedLen(n) - 8 : p[i] = Const(0)
  /\ \A r \in 1 .. 8 : p[PaddedLen(n) - 8 + r] = LengthByte(n, r)

\* n = 64 q + a bytes need a block more than the last one when a is 56 or more.
LEMMA PaddedLength ==
  ASSUME NEW q \in Nat, NEW a \in 0 .. 63
  PROVE  PaddedLen(64 * q + a) = 64 * q + IF a <= 55 THEN 64 ELSE 128
BY DEF PaddedLen

LEMMA PaddedIsLonger ==
  ASSUME NEW n \in Nat
  PROVE  PaddedLen(n) \in Nat /\ PaddedLen(n) >= n + 9
BY DEF PaddedLen

LEMMA PaddedBytes == fed \in Seq(Term) => PaddedAt(PaddedFed, fed)
<1>. SUFFICES ASSUME fed \in Seq(Term) PROVE PaddedAt(PaddedFed, fed)
  OBVIOUS
<1>. DEFINE n == Len(fed)   l == PaddedLen(n)
<1>1. n \in Nat /\ l \in Nat /\ l >= n + 9
  BY LenProperties, PaddedIsLonger
<1>2. \A i \in 1 .. l : PaddedFed[i] = PaddedByte(fed, i)
  BY DEF PaddedFed
<1>3. /\ \A i \in 1 .. n : PaddedByte(fed, i) = fed[i]
      /\ PaddedByte(fed, n + 1) = Const(128)
      /\ \A i \in n + 2 .. l - 8 : PaddedByte(fed, i) = Const(0)
      /\ \A i \in l - 7 .. l : PaddedByte(fed, i) = LengthByte(n, i - (l - 8))
  <2>. HIDE DEF l
  <2>1. ASSUME NEW i \in Nat, i <= n PROVE PaddedByte(fed, i) = fed[i]
    BY <1>1, <2>1 DEF PaddedByte, l
  <2>. QED BY <1>1, <2>1 DEF PaddedByte, l
<1>. HIDE DEF l
<1>4. \A r \in 1 .. 8 : PaddedFed[l - 8 + r] = LengthByte(n, r)
  <2>. TAKE r \in 1 .. 8
  <2>1. l - 8 + r \in l - 7 .. l /\ l - 8 + r \in 1 .. l /\ (l - 8 + r) - (l - 8) = r
    BY <1>1
  <2>. QED BY <1>2, <1>3, <2>1
<1>5. /\ \A i \in 1 .. n : i \in 1 .. l
      /\ n + 1 \in 1 .. l /\ \A i \in n + 2 .. l - 8 : i \in 1 .. l
  BY <1>1
<1>. QED BY <1>2, <1>3, <1>4, <1>5 DEF PaddedAt, l

-----------------------------------------------------------------------------
\* What one round of Sha256Process loads, r bytes, with x for fed'.
Takes(r, x) ==
  /\ r \in 1 .. Len(input) /\ addedW + r <= 64
  /\ Loaded \in [0 .. 63 -> Term]
  /\ \A j \in 0 .. addedW - 1 : Loaded[j] = w[j]
  /\ \A j \in addedW .. addedW + r - 1 : Loaded[j] = input[j - addedW + 1]
  /\ Continues(x, fed, input, r)

LEMMA RoundLoads ==
  ASSUME ShaTyped, pc = "process", input # <<>>
  PROVE  Takes(loadingInput, fed \o SubSeq(input, 1, loadingInput))
<1>. DEFINE r == loadingInput   q == SubSeq(input, 1, r)
<1>1. input \in Seq(Term) /\ w \in [0 .. 63 -> Term] /\ fed \in Seq(Term)
  BY DEF ShaTyped
<1>n. Len(input) \in Nat /\ Len(input) > 0 /\ addedW \in 0 .. 63
  <2>1. addedW \in 0 .. 64 /\ addedW # 64
    BY DEF ShaTyped
  <2>2. Len(input) \in Nat /\ Len(input) # 0
    BY <1>1, LenProperties, EmptySeq
  <2>. QED BY <2>1, <2>2
<1>2. r \in 1 .. Len(input) /\ addedW + r <= 64
  BY <1>n DEF loadingInput
<1>. HIDE DEF r
<1>3. /\ \A j \in 0 .. addedW - 1 : Loaded[j] = w[j]
      /\ \A j \in addedW .. addedW + r - 1 : Loaded[j] = input[j - addedW + 1]
  <2>1. ASSUME NEW j \in 0 .. addedW - 1 PROVE Loaded[j] = w[j]
    <3>1. j \in 0 .. 63 /\ ~(addedW <= j)
      BY <1>n
    <3>. QED BY <3>1 DEF Loaded
  <2>2. ASSUME NEW j \in addedW .. addedW + r - 1 PROVE Loaded[j] = input[j - addedW + 1]
    <3>1. j \in 0 .. 63 /\ addedW <= j /\ j < addedW + r
      BY <1>n, <1>2
    <3>. QED BY <3>1 DEF Loaded, r
  <2>. QED BY <2>1, <2>2
<1>4. Loaded \in [0 .. 63 -> Term]
  <2>1. ASSUME NEW j \in 0 .. 63, addedW <= j, j < addedW + r
        PROVE  input[j - addedW + 1] \in Term
    <3>1. j - addedW + 1 \in 1 .. Len(input)
      BY <1>n, <1>2, <2>1
    <3>. QED BY <1>1, <3>1, ElementOfSeq
  <2>2. \A j \in 0 .. 63 : w[j] \in Term
    BY <1>1
  <2>. QED BY <2>1, <2>2 DEF Loaded, r
<1>5. q \in Seq(Term) /\ Len(q) = r /\ \A i \in 1 .. r : q[i] = input[i]
  <2>1. r \in 0 .. Len(input)
    BY <1>n, <1>2
  <2>. QED BY <1>1, <2>1, FirstOf
<1>. HIDE DEF q
<1>6. Continues(fed \o q, fed, q, r)
  BY <1>1, <1>5, Continued
<1>7. Continues(fed \o q, fed, input, r)
  BY <1>5, <1>6 DEF Continues
<1>. QED BY <1>2, <1>3, <1>4, <1>7 DEF Takes, q, r

LEMMA RoundFillsTheBlock ==
  ASSUME ShaTyped, Loading, NEW r, NEW x, Takes(r, x)
  PROVE  Compressed(x, hashed) /\ InBlock(x, hashed, Loaded, addedW + r)
<1>1. /\ Len(fed) = Len(hashed) + addedW /\ Len(hashed) \in Nat /\ addedW \in 0 .. 64
      /\ r \in Nat
  BY LenProperties DEF ShaTyped, Loading, Takes
<1>2. /\ \A i \in 1 .. Len(fed) : x[i] = fed[i]
      /\ \A i \in 1 .. r : x[Len(fed) + i] = input[i]
  BY DEF Takes, Continues
<1>3. Compressed(x, hashed)
  <2>1. \A i \in 1 .. Len(hashed) : i \in 1 .. Len(fed) /\ hashed[i] = fed[i]
    BY <1>1 DEF Compressed, Loading
  <2>. QED BY <1>2, <2>1 DEF Compressed
<1>4. ASSUME NEW j \in 0 .. (addedW + r) - 1 PROVE Loaded[j] = x[Len(hashed) + j + 1]
  <2>1. CASE j < addedW
    <3>1. j \in 0 .. addedW - 1 /\ Len(hashed) + j + 1 \in 1 .. Len(fed)
      BY <1>1, <2>1
    <3>2. w[j] = fed[Len(hashed) + j + 1]
      BY <3>1 DEF Loading, InBlock
    <3>. QED BY <1>2, <3>1, <3>2 DEF Takes
  <2>2. CASE j >= addedW
    <3>1. /\ j \in addedW .. addedW + r - 1 /\ j - addedW + 1 \in 1 .. r
          /\ Len(hashed) + j + 1 = Len(fed) + (j - addedW + 1)
      BY <1>1, <2>2
    <3>. QED BY <1>2, <3>1 DEF Takes
  <2>3. j < addedW \/ j >= addedW
    BY <1>1
  <2>. QED BY <2>1, <2>2, <2>3
<1>. QED BY <1>3, <1>4 DEF InBlock

LEMMA ProcessStep ==
  ASSUME ShaInv, Sha256Process
  PROVE  ShaInv'
<1>. DEFINE r == loadingInput
<1>1. ShaTyped /\ pc = "process" /\ input # <<>> /\ addedW \in 0 .. 64 /\ msgLen \in Nat
  BY DEF ShaInv, ShaTyped, Sha256Process
<1>2. Takes(r, fed')
  BY <1>1, RoundLoads DEF Sha256Process
<1>3. r \in Nat /\ addedW + r <= 64 /\ fed' \in Seq(Term) /\ Len(fed') = Len(fed) + r
  BY <1>1, <1>2 DEF Takes, Continues
<1>4. w' \in [0 .. 63 -> Term] /\ w' = Loaded
  BY <1>2 DEF Takes, Sha256Process
<1>5. input' \in Seq(Term)
  <2>1. r \in 0 .. Len(input) /\ input \in Seq(Term)
    BY <1>1, <1>2 DEF Takes, ShaTyped
  <2>. QED BY <2>1, RestOf DEF Sha256Process
<1>6. /\ pc' = pc /\ reused' = reused
      /\ \/ /\ addedW + r = 64 /\ hashed' = hashed \o Block(Loaded)
            /\ addedW' = 0 /\ msgLen' = msgLen + 64
         \/ /\ addedW + r # 64 /\ addedW' = addedW + r
            /\ hashed' = hashed /\ msgLen' = msgLen
  BY DEF Sha256Process
<1>7. hashed \in Seq(Term)
  BY <1>1 DEF ShaTyped
<1>8. hashed' \in Seq(Term) /\ (addedW + r = 64 => Len(hashed') = Len(hashed) + 64)
  <2>1. CASE addedW + r = 64
    <3>1. Loaded \in [0 .. 63 -> Term] /\ hashed' = hashed \o Block(Loaded)
      BY <1>4, <1>6, <2>1
    <3>. QED BY <1>7, <3>1, BlockIsAppended
  <2>2. CASE addedW + r # 64
    BY <1>6, <1>7, <2>2
  <2>. QED BY <2>1, <2>2
<1>. HIDE DEF r
<1>9. ShaTyped'
  <2>1. addedW' \in 0 .. 64 /\ msgLen' \in Nat /\ addedW' # 64
    <3>1. CASE addedW + r = 64
      BY <1>1, <1>6, <3>1
    <3>2. CASE addedW + r # 64
      <4>1. addedW' = addedW + r /\ msgLen' = msgLen
        BY <1>6, <3>2
      <4>2. addedW + r \in 0 .. 64
        BY <1>1, <1>3
      <4>. QED BY <1>1, <3>2, <4>1, <4>2
    <3>. QED BY <3>1, <3>2
  <2>2. pc' \in {"idle", "process", "pad", "final"} /\ reused' \in BOOLEAN
    BY <1>1, <1>6 DEF ShaTyped
  <2>. QED BY <1>3, <1>4, <1>5, <1>8, <2>1, <2>2 DEF ShaTyped
<1>10. ASSUME ~reused PROVE Loading'
  <2>1. Loading /\ msgLen % 64 = 0 /\ Len(hashed) = msgLen /\ Len(fed) = msgLen + addedW
    BY <1>1, <1>10 DEF ShaInv, Loading
  <2>2. Compressed(fed', hashed) /\ InBlock(fed', hashed, w', addedW + r)
    BY <1>1, <1>2, <1>4, <2>1, RoundFillsTheBlock
  <2>3. CASE addedW + r = 64
    <3>1. Compressed(fed', hashed')
      BY <1>4, <1>6, <1>7, <2>2, <2>3, FullBlock
    <3>2. InBlock(fed', hashed', w', addedW')
      BY <1>6, <2>3 DEF InBlock
    <3>3. /\ Len(hashed') = msgLen' /\ msgLen' % 64 = 0
          /\ Len(fed') = msgLen' + addedW'
      <4>1. Len(hashed') = msgLen + 64 /\ msgLen' = msgLen + 64 /\ addedW' = 0
        BY <1>6, <1>8, <2>1, <2>3
      <4>2. Len(fed') = msgLen + addedW + r
        BY <1>3, <2>1
      <4>3. (msgLen + 64) % 64 = 0
        BY <1>1, <2>1
      <4>4. msgLen + addedW + r = msgLen + 64
        BY <1>1, <1>3, <2>3
      <4>. QED BY <4>1, <4>2, <4>3, <4>4, <1>1
    <3>. QED BY <3>1, <3>2, <3>3 DEF Loading
  <2>4. CASE addedW + r # 64
    BY <1>1, <1>3, <1>6, <2>1, <2>2, <2>4 DEF Loading
  <2>. QED BY <2>3, <2>4
<1>. QED BY <1>1, <1>6, <1>9, <1>10 DEF ShaInv

-----------------------------------------------------------------------------
LEMMA FinalStep ==
  ASSUME ShaInv, Sha256Final
  PROVE  ShaInv'
<1>. DEFINE n == Len(fed)   a == addedW   q == msgLen \div 64
<1>1. /\ pc = "idle" /\ pc' = "pad" /\ hashed' = hashed /\ fed' = fed
      /\ input' = input /\ reused' = reused /\ msgLen' = msgLen + a
      /\ addedW' = a + 1 /\ w' = [w EXCEPT ![a] = Const(128)]
  BY DEF Sha256Final
<1>2. ShaTyped /\ w \in [0 .. 63 -> Term] /\ hashed \in Seq(Term) /\ fed \in Seq(Term)
  BY DEF ShaInv, ShaTyped
<1>3. a \in 0 .. 63 /\ msgLen \in Nat
  <2>1. a \in 0 .. 64 /\ a # 64 /\ msgLen \in Nat
    BY <1>1, <1>2 DEF ShaTyped
  <2>. QED BY <2>1
<1>4. w' \in [0 .. 63 -> Term] /\ w'[a] = Const(128) /\ \A j \in 0 .. a - 1 : w'[j] = w[j]
  <2>1. Const(128) \in Term
    BY ConstIsByte
  <2>2. \A j \in 0 .. a - 1 : j \in 0 .. 63 /\ j # a
    BY <1>3
  <2>. QED BY <1>1, <1>2, <1>3, <2>1, <2>2
<1>5. ShaTyped'
  <2>1. addedW' \in 0 .. 64 /\ msgLen' \in Nat
    BY <1>1, <1>3
  <2>2. input \in Seq(Term) /\ reused \in BOOLEAN
    BY <1>2 DEF ShaTyped
  <2>. QED BY <1>1, <1>2, <1>4, <2>1, <2>2 DEF ShaTyped
<1>6. ASSUME ~reused PROVE Padding'
  <2>1. /\ Len(hashed) = msgLen /\ msgLen % 64 = 0 /\ n = msgLen + a
        /\ Compressed(fed, hashed) /\ InBlock(fed, hashed, w, a)
    BY <1>1, <1>6 DEF ShaInv, Loading
  <2>2. n \in Nat /\ Len(hashed) \in Nat
    BY <1>3, <2>1
  <2>3. PaddedLen(n) = Len(hashed) + IF a <= 55 THEN 64 ELSE 128
    <3>1. q \in Nat /\ msgLen = 64 * q
      BY <1>3, <2>1
    <3>. HIDE DEF q
    <3>2. PaddedLen(64 * q + a) = 64 * q + IF a <= 55 THEN 64 ELSE 128
      BY <1>3, <3>1, PaddedLength
    <3>. QED BY <2>1, <3>1, <3>2
  <2>4. PaddedAt(PaddedFed, fed)
    BY <1>2, PaddedBytes
  <2>5. Compressed(PaddedFed, hashed)
    <3>1. \A i \in 1 .. Len(hashed) : i \in 1 .. n
      BY <1>3, <2>1, <2>2
    <3>. QED BY <2>1, <2>4, <3>1 DEF Compressed, PaddedAt
  <2>6. InBlock(PaddedFed, hashed, w', a + 1)
    <3>1. ASSUME NEW j \in 0 .. a - 1 PROVE w'[j] = PaddedFed[Len(hashed) + j + 1]
      <4>1. Len(hashed) + j + 1 \in 1 .. n
        BY <1>3, <2>1
      <4>2. w[j] = fed[Len(hashed) + j + 1]
        BY <2>1 DEF InBlock
      <4>. QED BY <1>4, <2>4, <4>1, <4>2 DEF PaddedAt
    <3>2. w'[a] = PaddedFed[Len(hashed) + a + 1]
      BY <1>4, <2>1, <2>4 DEF PaddedAt
    <3>3. \A j \in 0 .. (a + 1) - 1 : j \in 0 .. a - 1 \/ j = a
      BY <1>3
    <3>. QED BY <3>1, <3>2, <3>3 DEF InBlock
  <2>7. PaddedFed' = PaddedFed
    BY <1>1 DEF PaddedFed
  <2>8. LengthFits' <=> a <= 55
    BY <1>1, <1>3 DEF LengthFits
  <2>9. msgLen' = n /\ n + 1 <= Len(hashed) + (a + 1)
    BY <1>1, <1>3, <2>1
  <2>10. PaddedLen(n) = Len(hashed) + IF LengthFits' THEN 64 ELSE 128
    BY <2>3, <2>8
  <2>. HIDE DEF a
  <2>. QED BY <1>1, <2>5, <2>6, <2>7, <2>9, <2>10 DEF Padding, a
<1>. QED BY <1>1, <1>5, <1>6 DEF ShaInv

LEMMA ZeroedBlock ==
  ASSUME ShaTyped, NEW e \in 56 .. 64
  PROVE  /\ ZeroFrom(addedW, e) \in [0 .. 63 -> Term]
         /\ \A j \in 0 .. 63 : j < addedW => ZeroFrom(addedW, e)[j] = w[j]
         /\ \A j \in 0 .. 63 : j >= addedW /\ j < e => ZeroFrom(addedW, e)[j] = Const(0)
<1>1. w \in [0 .. 63 -> Term] /\ addedW \in 0 .. 64 /\ Const(0) \in Term
  BY ConstIsByte DEF ShaTyped
<1>2. \A j \in 0 .. 63 : w[j] \in Term
  BY <1>1
<1>. QED BY <1>1, <1>2 DEF ZeroFrom

\* The bytes before place e of a block, zeros from addedW on, are as padded.
LEMMA ZeroedIsPadded ==
  ASSUME ShaTyped, Padding, NEW e \in 56 .. 64,
         Len(hashed) + e <= PaddedLen(Len(fed)) - 8,
         NEW j \in 0 .. e - 1
  PROVE  ZeroFrom(addedW, e)[j] = PaddedFed[Len(hashed) + j + 1]
<1>. DEFINE n == Len(fed)   l == PaddedLen(n)   i == Len(hashed) + j + 1
<1>1. fed \in Seq(Term) /\ hashed \in Seq(Term) /\ addedW \in 0 .. 64
  BY DEF ShaTyped
<1>2. n \in Nat /\ Len(hashed) \in Nat
  BY <1>1, LenProperties
<1>3. l \in Nat
  BY <1>2, PaddedIsLonger
<1>. HIDE DEF l
<1>4. j \in 0 .. 63
  OBVIOUS
<1>5. CASE j < addedW
  <2>1. j \in 0 .. addedW - 1
    BY <1>1, <1>4, <1>5
  <2>2. w[j] = PaddedFed[Len(hashed) + j + 1]
    BY <2>1 DEF Padding, InBlock
  <2>. QED BY <1>4, <1>5, <2>2, ZeroedBlock
<1>6. CASE j >= addedW
  <2>1. n + 1 <= Len(hashed) + addedW
    BY DEF Padding
  <2>2. i \in n + 2 .. l - 8
    BY <1>1, <1>2, <1>3, <1>4, <1>6, <2>1 DEF l
  <2>3. PaddedAt(PaddedFed, fed)
    BY <1>1, PaddedBytes
  <2>4. PaddedFed[i] = Const(0)
    BY <2>2, <2>3 DEF PaddedAt, l
  <2>5. j < e
    BY <1>4
  <2>. QED BY <1>4, <1>6, <2>4, <2>5, ZeroedBlock
<1>. QED BY <1>1, <1>4, <1>5, <1>6

LEMMA FillStep ==
  ASSUME ShaInv, FinalFillsBlock
  PROVE  ShaInv'
<1>1. /\ pc = "pad" /\ pc' = pc /\ ~LengthFits /\ w' = ZeroFrom(addedW, 64)
      /\ hashed' = hashed \o Block(w') /\ addedW' = 0
      /\ msgLen' = msgLen /\ input' = input /\ fed' = fed /\ reused' = reused
  BY DEF FinalFillsBlock
<1>2. ShaTyped /\ hashed \in Seq(Term) /\ addedW \in 0 .. 64
  BY DEF ShaInv, ShaTyped
<1>3. w' \in [0 .. 63 -> Term]
  <2>1. 64 \in 56 .. 64
    OBVIOUS
  <2>2. ZeroFrom(addedW, 64) \in [0 .. 63 -> Term]
    BY <2>1, <1>2, ZeroedBlock
  <2>. QED BY <1>1, <2>2
<1>4. hashed' \in Seq(Term) /\ Len(hashed') = Len(hashed) + 64
  BY <1>1, <1>2, <1>3, BlockIsAppended
<1>5. ShaTyped'
  <2>1. addedW' \in 0 .. 64 /\ addedW' # 64
    BY <1>1
  <2>2. msgLen \in Nat /\ input \in Seq(Term) /\ fed \in Seq(Term) /\ reused \in BOOLEAN
    BY <1>2 DEF ShaTyped
  <2>. QED BY <1>1, <1>3, <1>4, <2>1, <2>2 DEF ShaTyped
<1>6. ASSUME ~reused PROVE Padding'
  <2>1. Padding
    BY <1>1, <1>6 DEF ShaInv
  <2>. DEFINE n == Len(fed)   h == Len(hashed)   l == PaddedLen(n)
  <2>2. n \in Nat /\ h \in Nat /\ l \in Nat
    <3>1. n \in Nat /\ h \in Nat
      BY <1>2, LenProperties DEF ShaTyped
    <3>. QED BY <3>1, PaddedIsLonger
  <2>3. l = h + 128 /\ n + 1 <= h + addedW /\ msgLen = n
    BY <1>1, <2>1 DEF Padding
  <2>4. InBlock(PaddedFed, hashed, w', 64)
    <3>1. Len(hashed) + 64 <= PaddedLen(Len(fed)) - 8
      BY <2>2, <2>3
    <3>2. 64 \in 56 .. 64
      OBVIOUS
    <3>3. \A j \in 0 .. 64 - 1 : w'[j] = PaddedFed[Len(hashed) + j + 1]
      BY <1>1, <1>2, <2>1, <3>1, <3>2, ZeroedIsPadded
    <3>. QED BY <3>3 DEF InBlock
  <2>5. Compressed(PaddedFed, hashed')
    <3>1. Compressed(PaddedFed, hashed)
      BY <2>1 DEF Padding
    <3>. QED BY <1>1, <1>2, <1>3, <2>4, <3>1, FullBlock
  <2>6. PaddedFed' = PaddedFed /\ LengthFits'
    BY <1>1 DEF PaddedFed, LengthFits
  <2>7. InBlock(PaddedFed, hashed', w', 0)
    BY DEF InBlock
  <2>8. /\ l = Len(hashed') + 64
        /\ n + 1 <= Len(hashed') + 0
    BY <1>2, <1>4, <2>2, <2>3
  <2>. QED BY <1>1, <2>3, <2>5, <2>6, <2>7, <2>8 DEF Padding
<1>. QED BY <1>1, <1>5, <1>6 DEF ShaInv

LEMMA EndStep ==
  ASSUME ShaInv, FinalEnds
  PROVE  ShaInv'
<1>1. /\ pc = "pad" /\ pc' = "final" /\ LengthFits
      /\ w' = [j \in 0 .. 63 |-> IF j < 56 THEN ZeroFrom(addedW, 56)[j]
                                 ELSE LengthOf(msgLen)[j - 55]]
      /\ hashed' = hashed \o Block(w')
      /\ addedW' = IF addedW < 56 THEN 56 ELSE addedW
      /\ msgLen' = msgLen /\ input' = input /\ fed' = fed /\ reused' = reused
  BY DEF FinalEnds
<1>2. /\ ShaTyped /\ hashed \in Seq(Term) /\ fed \in Seq(Term) /\ msgLen \in Nat
      /\ addedW \in 0 .. 64 /\ addedW <= 56
  BY <1>1 DEF ShaInv, ShaTyped, LengthFits
<1>3. /\ LengthOf(msgLen) \in Seq(Term) /\ Len(LengthOf(msgLen)) = 8
      /\ \A r \in 1 .. 8 : LengthOf(msgLen)[r] = LengthByte(msgLen, r)
  BY <1>2, LengthIsPacked
<1>4. \A j \in 0 .. 63 : j < 56 => w'[j] = ZeroFrom(addedW, 56)[j]
  BY <1>1
<1>5. \A j \in 0 .. 63 : j >= 56 => j - 55 \in 1 .. 8 /\ w'[j] = LengthOf(msgLen)[j - 55]
  <2>. TAKE j \in 0 .. 63
  <2>. HAVE j >= 56
  <2>1. j - 55 \in 1 .. 8 /\ ~(j < 56)
    OBVIOUS
  <2>. QED BY <1>1, <2>1
<1>6. w' \in [0 .. 63 -> Term]
  <2>1. 56 \in 56 .. 64
    OBVIOUS
  <2>2. ZeroFrom(addedW, 56) \in [0 .. 63 -> Term]
    BY <1>2, <2>1, ZeroedBlock
  <2>3. \A r \in 1 .. 8 : LengthOf(msgLen)[r] \in Term
    BY <1>3, ElementOfSeq
  <2>4. ASSUME NEW j \in 0 .. 63 PROVE w'[j] \in Term
    <3>1. j < 56 \/ j >= 56
      OBVIOUS
    <3>. QED BY <1>4, <1>5, <2>2, <2>3, <3>1
  <2>5. w' = [j \in 0 .. 63 |-> w'[j]]
    BY <1>1
  <2>. QED BY <2>4, <2>5
<1>7. hashed' \in Seq(Term) /\ Len(hashed') = Len(hashed) + 64
  BY <1>1, <1>2, <1>6, BlockIsAppended
<1>8. ShaTyped'
  <2>1. addedW' \in 0 .. 64 /\ addedW' # 64
    BY <1>1, <1>2
  <2>2. input \in Seq(Term) /\ reused \in BOOLEAN
    BY <1>2 DEF ShaTyped
  <2>. QED BY <1>1, <1>2, <1>6, <1>7, <2>1, <2>2 DEF ShaTyped
<1>9. ASSUME ~reused PROVE (Len(hashed) = PaddedLen(Len(fed)) /\ Compressed(PaddedFed, hashed))'
  <2>1. Padding
    BY <1>1, <1>9 DEF ShaInv
  <2>. DEFINE n == Len(fed)   h == Len(hashed)   l == PaddedLen(n)
  <2>2. n \in Nat /\ h \in Nat /\ l \in Nat
    <3>1. n \in Nat /\ h \in Nat
      BY <1>2, LenProperties
    <3>. QED BY <3>1, PaddedIsLonger
  <2>3. l = h + 64 /\ msgLen = n
    BY <1>1, <2>1 DEF Padding
  <2>4. PaddedAt(PaddedFed, fed)
    BY <1>2, PaddedBytes
  <2>5. ASSUME NEW j \in 0 .. 64 - 1 PROVE w'[j] = PaddedFed[Len(hashed) + j + 1]
    <3>0. j \in 0 .. 63 /\ (j < 56 \/ j >= 56)
      OBVIOUS
    <3>1. CASE j < 56
      <4>1. Len(hashed) + 56 <= PaddedLen(Len(fed)) - 8 /\ 56 \in 56 .. 64
        BY <2>2, <2>3
      <4>2. j \in 0 .. 56 - 1
        BY <3>0, <3>1
      <4>3. ZeroFrom(addedW, 56)[j] = PaddedFed[Len(hashed) + j + 1]
        BY <1>2, <2>1, <4>1, <4>2, ZeroedIsPadded
      <4>. QED BY <1>4, <3>0, <3>1, <4>3
    <3>2. CASE j >= 56
      <4>. DEFINE r == j - 55
      <4>1. r \in 1 .. 8 /\ w'[j] = LengthOf(msgLen)[r]
        BY <1>5, <3>0, <3>2
      <4>2. Len(hashed) + j + 1 = PaddedLen(n) - 8 + r
        BY <2>2, <2>3, <3>0
      <4>. HIDE DEF r
      <4>3. LengthOf(msgLen)[r] = LengthByte(n, r)
        BY <1>3, <2>3, <4>1
      <4>4. PaddedFed[PaddedLen(n) - 8 + r] = LengthByte(n, r)
        BY <2>4, <4>1 DEF PaddedAt
      <4>. QED BY <4>1, <4>2, <4>3, <4>4
    <3>. QED BY <3>0, <3>1, <3>2
  <2>6. Compressed(PaddedFed, hashed')
    <3>1. Compressed(PaddedFed, hashed) /\ InBlock(PaddedFed, hashed, w', 64)
      BY <2>1, <2>5 DEF Padding, InBlock
    <3>. QED BY <1>1, <1>2, <1>6, <3>1, FullBlock
  <2>7. PaddedFed' = PaddedFed
    BY <1>1 DEF PaddedFed
  <2>. QED BY <1>1, <1>7, <2>3, <2>6, <2>7
<1>. QED BY <1>1, <1>8, <1>9 DEF ShaInv

-----------------------------------------------------------------------------
LEMMA Initially == Init => ShaInv
<1>. SUFFICES ASSUME Init PROVE ShaInv
  OBVIOUS
<1>1. w \in [0 .. 63 -> Term]
  <2>1. \A j \in 0 .. 63 : <<"junk", j>> \in Term
    <3>1. \A v \in Int : <<"junk", v>> \in Term
      BY BasicBytes
    <3>2. \A j \in 0 .. 63 : j \in Int
      OBVIOUS
    <3>. QED BY <3>1, <3>2, Zenon
  <2>. QED BY <2>1 DEF Init
<1>2. /\ addedW = 0 /\ msgLen = 0 /\ hashed = <<>> /\ input = <<>> /\ fed = <<>>
      /\ pc = "idle" /\ reused = FALSE
  BY DEF Init
<1>3. ShaTyped
  <2>1. <<>> \in Seq(Term)
    BY EmptySeq
  <2>2. addedW \in 0 .. 64 /\ addedW # 64 /\ msgLen \in Nat
    BY <1>2
  <2>. QED BY <1>1, <1>2, <2>1, <2>2 DEF ShaTyped
<1>4. Loading
  BY <1>2 DEF Loading, Compressed, InBlock
<1>. QED BY <1>2, <1>3, <1>4 DEF ShaInv

LEMMA InitStep ==
  ASSUME ShaInv, Sha256Init
  PROVE  ShaInv'
<1>1. /\ addedW' = 0 /\ msgLen' = 0 /\ hashed' = <<>> /\ fed' = <<>>
      /\ pc' = "idle" /\ reused' = FALSE /\ w' = w /\ input' = input
  BY DEF Sha256Init
<1>2. ShaTyped'
  <2>1. w \in [0 .. 63 -> Term] /\ input \in Seq(Term)
    BY DEF ShaInv, ShaTyped
  <2>2. <<>> \in Seq(Term)
    BY EmptySeq
  <2>3. addedW' \in 0 .. 64 /\ addedW' # 64 /\ msgLen' \in Nat
    BY <1>1
  <2>. QED BY <1>1, <2>1, <2>2, <2>3 DEF ShaTyped
<1>3. Loading'
  BY <1>1 DEF Loading, Compressed, InBlock
<1>. QED BY <1>1, <1>2, <1>3 DEF ShaInv

LEMMA NextBytesType == ShaInv => \A n \in Nat : NextBytes(n) \in Seq(Term)
<1>. SUFFICES ASSUME ShaInv, NEW n \in Nat PROVE NextBytes(n) \in Seq(Term)
  OBVIOUS
<1>1. Len(fed) \in Nat
  BY LenProperties DEF ShaInv, ShaTyped
<1>2. \A i \in 1 .. n : Data(Len(fed) + i) \in Term
  <2>1. \A v \in Int : Data(v) \in Term
    BY BasicBytes
  <2>2. \A i \in 1 .. n : Len(fed) + i \in Int
    BY <1>1
  <2>. QED BY <2>1, <2>2
<1>. QED BY <1>2 DEF NextBytes

LEMMA CallStep ==
  ASSUME ShaInv, NEW data \in Seq(Term), pc \in {"idle", "final"}, CallProcess(data)
  PROVE  ShaInv'
<1>1. /\ input' = data /\ pc' = "process" /\ reused' = (reused \/ pc = "final")
      /\ w' = w /\ addedW' = addedW /\ msgLen' = msgLen /\ hashed' = hashed /\ fed' = fed
  BY DEF CallProcess, md
<1>2. ShaTyped
  BY DEF ShaInv
<1>3. ShaTyped'
  <2>1. addedW # 64 /\ (reused \/ pc = "final") \in BOOLEAN
    BY <1>2 DEF ShaTyped
  <2>. QED BY <1>1, <1>2, <2>1 DEF ShaTyped
<1>4. ASSUME ~reused' PROVE Loading'
  <2>1. ~reused /\ pc = "idle"
    BY <1>1, <1>4
  <2>2. Loading
    BY <2>1 DEF ShaInv
  <2>. QED BY <1>1, <2>2 DEF Loading
<1>. QED BY <1>1, <1>3, <1>4 DEF ShaInv

\* Between two calls nothing moves.
LEMMA ReturnStep ==
  ASSUME ShaInv, ProcessReturns \/ UNCHANGED vars
  PROVE  ShaInv'
<1>1. /\ w' = w /\ addedW' = addedW /\ msgLen' = msgLen /\ hashed' = hashed
      /\ input' = input /\ fed' = fed /\ reused' = reused
      /\ pc' = pc \/ (pc = "process" /\ pc' = "idle")
  BY DEF ProcessReturns, vars, md
<1>2. ShaTyped'
  <2>1. ShaTyped
    BY DEF ShaInv
  <2>. QED BY <1>1, <2>1 DEF ShaTyped
<1>3. CASE pc' = pc
  BY <1>1, <1>2, <1>3 DEF ShaInv, Loading, Padding, PaddedFed, LengthFits
<1>4. CASE pc = "process" /\ pc' = "idle"
  BY <1>1, <1>2, <1>4 DEF ShaInv, Loading
<1>. QED BY <1>1, <1>3, <1>4

LEMMA Invariance == ShaInv /\ [Next]_vars => ShaInv'
<1>. SUFFICES ASSUME ShaInv, [Next]_vars PROVE ShaInv'
  OBVIOUS
<1>1. CASE Sha256Init
  BY <1>1, InitStep
<1>2. ASSUME NEW n \in Lengths, pc = "idle" \/ pc = "final", CallProcess(NextBytes(n))
      PROVE  ShaInv'
  <2>1. NextBytes(n) \in Seq(Term) /\ pc \in {"idle", "final"}
    BY <1>2, LengthsAssumption, NextBytesType
  <2>. QED BY <1>2, <2>1, CallStep
<1>3. CASE Sha256Process
  BY <1>3, ProcessStep
<1>4. CASE ProcessReturns \/ UNCHANGED vars
  BY <1>4, ReturnStep
<1>5. CASE Sha256Final
  BY <1>5, FinalStep
<1>6. CASE FinalFillsBlock
  BY <1>6, FillStep
<1>7. CASE FinalEnds
  BY <1>7, EndStep
<1>. QED BY <1>1, <1>2, <1>3, <1>4, <1>5, <1>6, <1>7 DEF Next

-----------------------------------------------------------------------------
\* Sha256Process and Sha256Final never write past w[63], whatever the parts of
\* the message and also in a struct that is used again without Sha256Init.
THEOREM WritesWithinTheBlockAlways == Spec => []WritesWithinTheBlock
<1>1. ShaInv => WritesWithinTheBlock
  BY DEF ShaInv, ShaTyped, WritesWithinTheBlock
<1>. QED BY Initially, Invariance, <1>1, PTL DEF Spec

\* For messages of any length, in any parts: what Sha256Final has compressed is
\* the message padded as FIPS 180-4 says.
THEOREM HashesThePaddedMessageAlways == Spec => []HashesThePaddedMessage
<1>1. ShaInv => HashesThePaddedMessage
  <2>. SUFFICES ASSUME ShaInv, pc = "final", ~reused
                PROVE  /\ Len(hashed) = PaddedLen(Len(fed))
                       /\ \A i \in 1 .. Len(hashed) : hashed[i] = PaddedByte(fed, i)
    BY DEF HashesThePaddedMessage
  <2>1. Len(hashed) = PaddedLen(Len(fed)) /\ Compressed(PaddedFed, hashed)
    BY DEF ShaInv
  <2>. QED BY <2>1 DEF Compressed, PaddedFed
<1>. QED BY Initially, Invariance, <1>1, PTL DEF Spec

-----------------------------------------------------------------------------
(* HmacSha256.                                                             *)

\* What has been and will be handed to the hash in progress.
Message ==
  CASE at = "keyIn" -> key
    [] at = "ipadIn" -> KXor(54)
    [] at = "textIn" -> KXor(54) \o text
    [] at = "opadIn" -> KXor(92)
    [] at = "digestIn" -> KXor(92) \o InnerHMAC
    [] OTHER -> <<>>

Places == {"start", "longKey", "keyIn", "keyed", "inner", "ipadIn", "textIn",
           "innerDone", "outer", "opadIn", "digestIn", "done"}

\* The buffers hold what the next hash needs, and fed and input together are the
\* message of the hash in progress, of which nothing is left between calls.
HInv ==
  /\ ShaInv /\ ~reused
  /\ at \in Places /\ key \in Seq(Basic) /\ text \in Seq(Basic)
  /\ k = IF at \in {"start", "longKey", "keyIn"} THEN key ELSE KeyOfABlock
  /\ at \in {"longKey", "keyIn"} => KeyIsLong
  /\ at \in {"innerDone", "outer", "opadIn", "digestIn"} => digest = InnerHMAC
  /\ at = "done" => digest = HMAC
  /\ pc # "process" => input = <<>>
  /\ at \in {"start", "longKey", "inner", "outer"} => pc = "idle" /\ fed = <<>>
  /\ at \in {"keyed", "innerDone", "done"} => pc \in {"idle", "final"}
  /\ at \in {"ipadIn", "opadIn"} => pc \in {"idle", "process"}
  /\ at \in {"longKey", "keyIn", "inner", "ipadIn", "textIn", "outer", "opadIn", "digestIn"} =>
       fed \o input = Message

LEMMA LengthByteIsConst ==
  ASSUME NEW n \in Nat, NEW i \in 1 .. 8
  PROVE  \E v \in Int : LengthByte(n, i) = Const(v)
<1>. DEFINE h == n \div 536870912
<1>1. /\ LengthByte(n, 1) = Const((h \div 16777216) % 256)
      /\ LengthByte(n, 2) = Const((h \div 65536) % 256)
      /\ LengthByte(n, 3) = Const((h \div 256) % 256)
      /\ LengthByte(n, 4) = Const(h % 256)
      /\ LengthByte(n, 5) = Const((n \div 2097152) % 256)
      /\ LengthByte(n, 6) = Const((n \div 8192) % 256)
      /\ LengthByte(n, 7) = Const((n \div 32) % 256)
      /\ LengthByte(n, 8) = Const((n % 32) * 8)
  BY SMT DEF LengthByte
<1>2. /\ (h \div 16777216) % 256 \in Int /\ (h \div 65536) % 256 \in Int
      /\ (h \div 256) % 256 \in Int /\ h % 256 \in Int
  BY SMT
<1>3. /\ (n \div 2097152) % 256 \in Int /\ (n \div 8192) % 256 \in Int
      /\ (n \div 32) % 256 \in Int /\ (n % 32) * 8 \in Int
  BY SMT
<1>4. i \in {1, 2, 3, 4, 5, 6, 7, 8}
  OBVIOUS
<1>. QED BY <1>1, <1>2, <1>3, <1>4, SMT

\* Padding adds constants, so a hash is made of bytes like those of its message.
LEMMA HashType ==
  ASSUME NEW S, Basic \subseteq S, NEW m \in Seq(S)
  PROVE  Hash(m) \in Seq(Digests(S)) /\ Len(Hash(m)) = 32
<1>. DEFINE l == PaddedLen(Len(m))   p == [i \in 1 .. l |-> PaddedByte(m, i)]
<1>1. Len(m) \in Nat /\ l \in Nat /\ l >= Len(m) + 9
  BY PaddedIsLonger, LenProperties
<1>2. \A i \in 1 .. l : PaddedByte(m, i) \in S
  <2>. TAKE i \in 1 .. l
  <2>1. \A v \in Int : Const(v) \in S
    BY BasicBytes
  <2>2. \A j \in 1 .. 8 : LengthByte(Len(m), j) \in S
    BY <1>1, <2>1, LengthByteIsConst, Zenon
  <2>. HIDE DEF l
  <2>3. CASE i <= Len(m)
    <3>1. PaddedByte(m, i) = m[i]
      BY <1>1, <2>3, SMT DEF PaddedByte, l
    <3>2. i \in 1 .. Len(m)
      BY <1>1, <2>3
    <3>. QED BY <3>1, <3>2, ElementOfSeq
  <2>4. CASE i = Len(m) + 1
    <3>1. PaddedByte(m, i) = Const(128)
      BY <1>1, <2>4, SMT DEF PaddedByte, l
    <3>. QED BY <2>1, <3>1
  <2>5. CASE i > Len(m) + 1 /\ i <= l - 8
    BY <1>1, <2>1, <2>5, SMT DEF PaddedByte, l
  <2>6. CASE i > l - 8
    <3>1. i - (l - 8) \in 1 .. 8
      BY <1>1, <2>6
    <3>2. PaddedByte(m, i) = LengthByte(Len(m), i - (l - 8))
      BY <1>1, <2>6, SMT DEF PaddedByte, l
    <3>. QED BY <2>2, <3>1, <3>2
  <2>. QED BY <1>1, <2>3, <2>4, <2>5, <2>6
<1>3. p \in Seq(S)
  BY <1>1, <1>2
<1>4. Hash(m) = [i \in 1 .. 32 |-> <<"digest", p, i>>]
  BY DEF Hash, Digest
<1>. HIDE DEF p
<1>5. \A i \in 1 .. 32 : <<"digest", p, i>> \in Digests(S)
  BY <1>3, SMT DEF Digests
<1>. QED BY <1>4, <1>5

LEMMA KeyType ==
  ASSUME key \in Seq(Basic)
  PROVE  KeyOfABlock \in Seq(KeyByte) /\ KeyOfABlock \in Seq(Term)
<1>1. Digests(Basic) \subseteq KeyByte /\ Basic \subseteq KeyByte /\ KeyByte \subseteq Term
  BY BasicBytes DEF KeyByte
<1>2. Hash(key) \in Seq(KeyByte)
  BY <1>1, HashType, SeqMonotonic
<1>3. key \in Seq(KeyByte)
  BY <1>1, SeqMonotonic
<1>4. KeyOfABlock \in Seq(KeyByte)
  BY <1>2, <1>3 DEF KeyOfABlock
<1>. QED BY <1>1, <1>4, SeqMonotonic

\* A pad of the key in use is the pad of RFC 2104.
LEMMA PadIsKXor ==
  ASSUME key \in Seq(Basic), NEW c \in Int
  PROVE  /\ KXor(c) \in Seq(PadByte) /\ KXor(c) \in Seq(Term)
         /\ k = KeyOfABlock => Pad(c) = KXor(c)
<1>1. KeyOfABlock \in Seq(KeyByte)
  BY KeyType
<1>2. ASSUME NEW i \in 1 .. 64
      PROVE  (IF i \in DOMAIN KeyOfABlock THEN KeyOfABlock[i] ELSE Const(0)) \in KeyByte
  <2>1. Const(0) \in KeyByte
    <3>1. \A v \in Int : Const(v) \in KeyByte
      BY BasicBytes
    <3>. QED BY <3>1
  <2>. QED BY <1>1, <2>1
<1>3. KXor(c) \in Seq(PadByte)
  <2>. DEFINE b(i) == IF i \in DOMAIN KeyOfABlock THEN KeyOfABlock[i] ELSE Const(0)
  <2>1. \A i \in 1 .. 64 : <<"xor", b(i), c>> \in PadByte
    <3>1. \A i \in 1 .. 64 : b(i) \in KeyByte
      BY <1>2
    <3>2. \A x \in KeyByte : <<"xor", x, c>> \in Xors(KeyByte)
      BY DEF Xors
    <3>. HIDE DEF b
    <3>. QED BY <3>1, <3>2 DEF PadByte
  <2>2. KXor(c) = [i \in 1 .. 64 |-> <<"xor", b(i), c>>]
    BY DEF KXor
  <2>. HIDE DEF b
  <2>. QED BY <2>1, <2>2
<1>4. KXor(c) \in Seq(Term)
  BY <1>3, BasicBytes, SeqMonotonic
<1>5. ASSUME k = KeyOfABlock PROVE Pad(c) = KXor(c)
  <2>1. DOMAIN KeyOfABlock = 1 .. Len(KeyOfABlock) /\ Len(KeyOfABlock) \in Nat
    BY <1>1, LenProperties
  <2>2. \A i \in 1 .. 64 : i <= Len(k) <=> i \in DOMAIN KeyOfABlock
    BY <1>5, <2>1
  <2>. QED BY <1>5, <2>2 DEF Pad, KXor
<1>. QED BY <1>3, <1>4, <1>5

\* Everything that HmacSha256 hands to a hash is a sequence of bytes.
LEMMA PartsType ==
  ASSUME key \in Seq(Basic), text \in Seq(Basic)
  PROVE  /\ key \in Seq(Term) /\ text \in Seq(Term)
         /\ KXor(54) \in Seq(Term) /\ KXor(92) \in Seq(Term) /\ InnerHMAC \in Seq(Term)
<1>1. Basic \subseteq PadByte /\ PadByte \subseteq Term /\ Basic \subseteq Term
  BY BasicBytes
<1>2. KXor(54) \in Seq(PadByte) /\ KXor(54) \in Seq(Term) /\ KXor(92) \in Seq(Term)
  BY PadIsKXor
<1>3. key \in Seq(Term) /\ text \in Seq(Term) /\ text \in Seq(PadByte)
  BY <1>1, SeqMonotonic
<1>4. KXor(54) \o text \in Seq(PadByte)
  BY <1>2, <1>3, ConcatProperties
<1>5. InnerHMAC \in Seq(Digests(PadByte))
  BY <1>1, <1>4, HashType DEF InnerHMAC
<1>6. Digests(PadByte) \subseteq Term
  BY DEF Term
<1>. QED BY <1>2, <1>3, <1>5, <1>6, SeqMonotonic

\* When Sha256Final returns, the digest is the hash of the message.
LEMMA FinalIsHash ==
  ASSUME HInv, pc = "final", fed \o input = Message
  PROVE  Digest(hashed) = Hash(Message)
<1>1. ShaTyped /\ input = <<>> /\ hashed \in Seq(Term) /\ fed \in Seq(Term)
  BY DEF HInv, ShaInv, ShaTyped
<1>2. Len(hashed) = PaddedLen(Len(fed)) /\ Compressed(PaddedFed, hashed)
  BY DEF HInv, ShaInv
<1>3. Message = fed
  BY <1>1, ConcatEmptySeq
<1>. DEFINE l == PaddedLen(Len(fed))   p == [i \in 1 .. l |-> PaddedByte(fed, i)]
<1>4. l \in Nat /\ DOMAIN hashed = 1 .. l
  BY <1>1, <1>2, PaddedIsLonger, LenProperties
<1>5. \A i \in 1 .. l : hashed[i] = PaddedByte(fed, i)
  BY <1>2, <1>4 DEF Compressed, PaddedFed
<1>6. hashed = p
  <2>1. hashed = [i \in DOMAIN hashed |-> hashed[i]]
    BY <1>1
  <2>. QED BY <1>4, <1>5, <2>1
<1>. QED BY <1>3, <1>6 DEF Hash

\* Loading moves bytes from input to fed.
LEMMA RoundKeepsMessage ==
  ASSUME ShaInv, Sha256Process
  PROVE  fed' \o input' = fed \o input
<1>1. input \in Seq(Term) /\ fed \in Seq(Term) /\ input # <<>> /\ ShaTyped
  BY DEF ShaInv, ShaTyped, Sha256Process
<1>2. loadingInput \in 0 .. Len(input) /\ Len(input) \in Nat
  <2>1. Takes(loadingInput, fed \o SubSeq(input, 1, loadingInput))
    BY <1>1, RoundLoads DEF Sha256Process
  <2>2. loadingInput \in 1 .. Len(input) /\ Len(input) \in Nat
    BY <1>1, <2>1, LenProperties DEF Takes
  <2>. QED BY <2>2
<1>. DEFINE n == loadingInput
            a == SubSeq(input, 1, n)   b == SubSeq(input, n + 1, Len(input))
<1>3. a \o b = input
  <2>. HIDE DEF n
  <2>1. 1 \in 1 .. Len(input) + 1 /\ n \in 1 - 1 .. Len(input) /\ Len(input) \in n .. Len(input)
    BY <1>2 DEF n
  <2>2. a \o b = SubSeq(input, 1, Len(input))
    BY <1>1, <2>1, ConcatAdjacentSubSeq
  <2>. QED BY <1>1, <2>2, SubSeqFull
<1>4. a \in Seq(Term) /\ b \in Seq(Term)
  BY <1>1, <1>2, FirstOf, RestOf
<1>5. fed' = fed \o a /\ input' = b
  BY DEF Sha256Process
<1>. HIDE DEF a, b, n
<1>6. (fed \o a) \o b = fed \o (a \o b)
  <2>1. fed \in Seq(Term) /\ a \in Seq(Term) /\ b \in Seq(Term)
    BY <1>1, <1>4
  <2>. QED BY <2>1, ConcatAssociative
<1>. QED BY <1>3, <1>5, <1>6

-----------------------------------------------------------------------------
LEMMA HInitially == HInit => HInv
<1>. SUFFICES ASSUME HInit PROVE HInv
  OBVIOUS
<1>1. ShaInv /\ ~reused /\ pc = "idle" /\ input = <<>> /\ fed = <<>>
  BY Initially DEF HInit, Init
<1>2. key \in Seq(Basic)
  <2>1. PICK n \in Keys : key = [i \in 1 .. n |-> <<"key", i>>]
    BY DEF HInit
  <2>2. n \in Nat /\ \A i \in 1 .. n : <<"key", i>> \in Basic
    BY KeysAssumption DEF Basic
  <2>. QED BY <2>1, <2>2
<1>3. text \in Seq(Basic)
  <2>1. PICK n \in Texts : text = [i \in 1 .. n |-> Data(i)]
    BY DEF HInit
  <2>2. n \in Nat /\ \A i \in 1 .. n : Data(i) \in Basic
    BY TextsAssumption DEF Basic, Data
  <2>. QED BY <2>1, <2>2
<1>4. at = "start" /\ k = key
  BY DEF HInit
<1>. QED BY <1>1, <1>2, <1>3, <1>4 DEF HInv, Places

\* Sha256Init: a hash starts, of which nothing is handed over yet.
LEMMA StartsStep ==
  ASSUME HInv,
         NEW a \in {"start", "keyed", "innerDone"}, NEW b \in {"longKey", "inner", "outer"},
         Starts(a, b),
         a = "start" => b = "longKey" /\ KeyIsLong,
         a = "keyed" => b = "inner", a = "innerDone" => b = "outer"
  PROVE  HInv'
<1>1. /\ at = a /\ at' = b /\ key' = key /\ text' = text /\ k' = k /\ digest' = digest
      /\ pc' = "idle" /\ fed' = <<>> /\ reused' = FALSE /\ input' = input
  BY DEF Starts, Goes, Sha256Init
<1>2. ShaInv'
  BY InitStep DEF HInv, Starts
<1>3. input' = <<>> /\ <<>> \o <<>> = <<>>
  <2>1. pc \in {"idle", "final"}
    BY <1>1 DEF HInv
  <2>. QED BY <1>1, <2>1, ConcatEmptySeq DEF HInv
<1>4. Message' = <<>>
  BY <1>1 DEF Message
<1>5. /\ KeyOfABlock' = KeyOfABlock /\ KeyIsLong' = KeyIsLong
      /\ InnerHMAC' = InnerHMAC
  BY <1>1 DEF KeyOfABlock, KeyIsLong, InnerHMAC, KXor
<1>. QED BY <1>1, <1>2, <1>3, <1>4, <1>5 DEF HInv, Places

\* Sha256Process is called with the next part of the message.
LEMMA ProcessesStep ==
  ASSUME HInv, NEW data \in Seq(Term),
         NEW a \in {"longKey", "inner", "ipadIn", "outer", "opadIn"},
         NEW b \in {"keyIn", "ipadIn", "textIn", "opadIn", "digestIn"},
         Processes(a, b, data), Message' = fed \o data,
         a = "longKey" <=> b = "keyIn", a \in {"outer", "opadIn"} <=> b \in {"opadIn", "digestIn"}
  PROVE  HInv'
<1>1. /\ at = a /\ at' = b /\ key' = key /\ text' = text /\ k' = k /\ digest' = digest
      /\ pc = "idle" /\ pc' = "process" /\ fed' = fed /\ input' = data /\ reused' = FALSE
  BY DEF Processes, Goes, CallProcess, HInv
<1>2. ShaInv'
  BY <1>1, CallStep DEF HInv, Processes
<1>3. /\ KeyOfABlock' = KeyOfABlock /\ KeyIsLong' = KeyIsLong
      /\ InnerHMAC' = InnerHMAC
  BY <1>1 DEF KeyOfABlock, KeyIsLong, InnerHMAC, KXor
<1>4. fed' \o input' = Message'
  BY <1>1
<1>. QED BY <1>1, <1>2, <1>3, <1>4 DEF HInv, Places

\* Sha256Final has returned: the digest goes where the code puts it.
LEMMA DigestStep ==
  ASSUME HInv, pc = "final", UNCHANGED vars,
         \/ /\ Goes("keyIn", "keyed")
            /\ k' = Digest(hashed) /\ digest' = digest
         \/ /\ Goes("textIn", "innerDone")
            /\ digest' = Digest(hashed) /\ k' = k
         \/ /\ Goes("digestIn", "done")
            /\ digest' = Digest(hashed) /\ k' = k
  PROVE  HInv'
<1>1. ShaInv' /\ ~reused' /\ pc' = pc /\ input' = input /\ fed' = fed
  BY ReturnStep DEF HInv, vars
<1>2. key' = key /\ text' = text
  BY DEF Goes
<1>3. /\ KeyOfABlock' = KeyOfABlock /\ KeyIsLong' = KeyIsLong
      /\ InnerHMAC' = InnerHMAC /\ HMAC' = HMAC
  BY <1>2 DEF KeyOfABlock, KeyIsLong, InnerHMAC, HMAC, KXor
<1>4. Digest(hashed) = Hash(Message)
  <2>1. fed \o input = Message
    BY DEF HInv, Goes
  <2>. QED BY <2>1, FinalIsHash
<1>5. CASE Goes("keyIn", "keyed") /\ k' = Digest(hashed) /\ digest' = digest
  <2>1. at = "keyIn" /\ at' = "keyed" /\ KeyIsLong
    BY <1>5 DEF Goes, HInv
  <2>2. k' = KeyOfABlock
    BY <1>4, <1>5, <2>1 DEF Message, KeyOfABlock, KeyIsLong
  <2>. QED BY <1>1, <1>2, <1>3, <2>1, <2>2 DEF HInv, Places
<1>6. CASE Goes("textIn", "innerDone") /\ digest' = Digest(hashed) /\ k' = k
  <2>1. at = "textIn" /\ at' = "innerDone"
    BY <1>6 DEF Goes
  <2>2. digest' = InnerHMAC
    BY <1>4, <1>6, <2>1 DEF Message, InnerHMAC
  <2>. QED BY <1>1, <1>2, <1>3, <1>6, <2>1, <2>2 DEF HInv, Places
<1>7. CASE Goes("digestIn", "done") /\ digest' = Digest(hashed) /\ k' = k
  <2>1. at = "digestIn" /\ at' = "done"
    BY <1>7 DEF Goes
  <2>2. digest' = HMAC
    BY <1>4, <1>7, <2>1 DEF Message, HMAC
  <2>. QED BY <1>1, <1>2, <1>3, <1>7, <2>1, <2>2 DEF HInv, Places
<1>. QED BY <1>5, <1>6, <1>7

\* Inside a call only the hash goes on; its message stays.
LEMMA HashingStep ==
  ASSUME HInv, Hashing
  PROVE  HInv'
<1>1. /\ key' = key /\ text' = text /\ k' = k /\ digest' = digest /\ at' = at
  BY DEF Hashing, hvars
<1>2. /\ KeyOfABlock' = KeyOfABlock /\ KeyIsLong' = KeyIsLong
      /\ InnerHMAC' = InnerHMAC /\ HMAC' = HMAC /\ Message' = Message
  <2>1. KeyOfABlock' = KeyOfABlock /\ KeyIsLong' = KeyIsLong
    BY <1>1 DEF KeyOfABlock, KeyIsLong
  <2>2. InnerHMAC' = InnerHMAC /\ KXor(54)' = KXor(54) /\ KXor(92)' = KXor(92)
    BY <1>1, <2>1 DEF InnerHMAC, KXor
  <2>. QED BY <1>1, <2>1, <2>2 DEF HMAC, Message
<1>3. ShaInv' /\ reused' = reused
  <2>1. ShaInv'
    BY ProcessStep, ReturnStep, FinalStep, FillStep, EndStep DEF HInv, Hashing
  <2>. QED BY <2>1 DEF Hashing, Sha256Process, ProcessReturns, FinalFillsBlock,
                       FinalEnds, Sha256Final
<1>4. CASE Sha256Process
  <2>1. pc = "process" /\ pc' = pc
    BY <1>4 DEF Sha256Process
  <2>2. fed' \o input' = fed \o input
    BY <1>4, RoundKeepsMessage DEF HInv
  <2>. QED BY <1>1, <1>2, <1>3, <2>1, <2>2 DEF HInv
<1>5. CASE ProcessReturns
  <2>1. pc = "process" /\ pc' = "idle" /\ input = <<>> /\ input' = input /\ fed' = fed
    BY <1>5 DEF ProcessReturns
  <2>. QED BY <1>1, <1>2, <1>3, <2>1 DEF HInv
<1>6. CASE FinalFillsBlock \/ FinalEnds
  <2>1. pc = "pad" /\ pc' \in {"pad", "final"} /\ input' = input /\ fed' = fed
    BY <1>6 DEF FinalFillsBlock, FinalEnds
  <2>. QED BY <1>1, <1>2, <1>3, <2>1 DEF HInv
<1>7. CASE at \in {"keyIn", "textIn", "digestIn"} /\ Sha256Final
  <2>1. pc = "idle" /\ pc' = "pad" /\ input' = input /\ fed' = fed
    BY <1>7 DEF Sha256Final
  <2>. QED BY <1>1, <1>2, <1>3, <1>7, <2>1 DEF HInv
<1>. QED BY <1>4, <1>5, <1>6, <1>7 DEF Hashing

LEMMA HInvariance == HInv /\ [HNext]_<<vars, hvars>> => HInv'
<1>. SUFFICES ASSUME HInv, [HNext]_<<vars, hvars>> PROVE HInv'
  OBVIOUS
<1>1. /\ key \in Seq(Term) /\ text \in Seq(Term)
      /\ KXor(54) \in Seq(Term) /\ KXor(92) \in Seq(Term) /\ InnerHMAC \in Seq(Term)
  BY PartsType DEF HInv
<1>2. ipad = Pad(54) /\ opad = Pad(92)
  BY DEF ipad, opad
<1>3. at \in {"inner", "outer"} => ipad = KXor(54) /\ opad = KXor(92)
  <2>1. \A c \in Int : k = KeyOfABlock => Pad(c) = KXor(c)
    BY PadIsKXor DEF HInv
  <2>. QED BY <1>2, <2>1 DEF HInv
<1>4. at \in {"longKey", "inner", "outer"} => fed = <<>>
  BY DEF HInv
<1>5. \A s \in Seq(Term) : <<>> \o s = s
  BY ConcatEmptySeq
<1>6. ASSUME pc = "idle", at \in {"ipadIn", "opadIn"} PROVE fed = Message
  <2>1. fed \o input = Message /\ input = <<>> /\ fed \in Seq(Term)
    BY <1>6 DEF HInv, ShaInv, ShaTyped
  <2>2. fed \o <<>> = fed
    BY <2>1, ConcatEmptySeq
  <2>. QED BY <2>1, <2>2
<1>7. CASE HashesKey
  <2>1. CASE KeyIsLong /\ Starts("start", "longKey")
    BY <2>1, StartsStep
  <2>2. CASE Processes("longKey", "keyIn", key)
    <3>1. at = "longKey" /\ at' = "keyIn" /\ key' = key
      BY <2>2 DEF Processes, Goes
    <3>2. Message' = fed \o key
      BY <1>1, <1>4, <1>5, <3>1 DEF Message
    <3>. QED BY <1>1, <2>2, <3>2, ProcessesStep
  <2>3. CASE /\ pc = "final" /\ Goes("keyIn", "keyed")
             /\ k' = Digest(hashed)
             /\ UNCHANGED <<vars, digest>>
    BY <2>3, DigestStep
  <2>. QED BY <1>7, <2>1, <2>2, <2>3 DEF HashesKey
<1>8. CASE KeepsKey
  <2>1. /\ ~KeyIsLong /\ at = "start" /\ at' = "keyed" /\ key' = key /\ text' = text
        /\ UNCHANGED <<vars, k, digest>>
    BY <1>8 DEF KeepsKey, Goes
  <2>2. ShaInv' /\ pc' = pc /\ pc = "idle" /\ input' = input /\ fed' = fed /\ reused' = reused
    BY <2>1, ReturnStep DEF HInv, vars
  <2>3. KeyOfABlock' = KeyOfABlock /\ k = KeyOfABlock
    BY <2>1 DEF KeyOfABlock, KeyIsLong, HInv
  <2>. QED BY <2>1, <2>2, <2>3 DEF HInv, Places
<1>9. CASE InnerHash
  <2>1. CASE Starts("keyed", "inner")
    BY <2>1, StartsStep
  <2>2. CASE Processes("inner", "ipadIn", ipad)
    <3>1. at = "inner" /\ at' = "ipadIn" /\ key' = key
      BY <2>2 DEF Processes, Goes
    <3>2. KXor(54)' = KXor(54)
      BY <3>1 DEF KXor, KeyOfABlock
    <3>3. Message' = fed \o ipad
      BY <1>1, <1>3, <1>4, <1>5, <3>1, <3>2 DEF Message
    <3>. QED BY <1>1, <1>3, <2>2, <3>1, <3>3, ProcessesStep
  <2>3. CASE Processes("ipadIn", "textIn", text)
    <3>1. at = "ipadIn" /\ at' = "textIn" /\ key' = key /\ text' = text /\ pc = "idle"
      BY <2>3 DEF Processes, Goes
    <3>2. KXor(54)' = KXor(54)
      BY <3>1 DEF KXor, KeyOfABlock
    <3>3. Message' = fed \o text
      BY <1>6, <3>1, <3>2 DEF Message
    <3>. QED BY <1>1, <2>3, <3>3, ProcessesStep
  <2>4. CASE /\ pc = "final" /\ Goes("textIn", "innerDone")
             /\ digest' = Digest(hashed)
             /\ UNCHANGED <<vars, k>>
    BY <2>4, DigestStep
  <2>. QED BY <1>9, <2>1, <2>2, <2>3, <2>4 DEF InnerHash
<1>10. CASE OuterHash
  <2>1. CASE Starts("innerDone", "outer")
    BY <2>1, StartsStep
  <2>2. CASE Processes("outer", "opadIn", opad)
    <3>1. at = "outer" /\ at' = "opadIn" /\ key' = key
      BY <2>2 DEF Processes, Goes
    <3>2. KXor(92)' = KXor(92)
      BY <3>1 DEF KXor, KeyOfABlock
    <3>3. Message' = fed \o opad
      BY <1>1, <1>3, <1>4, <1>5, <3>1, <3>2 DEF Message
    <3>. QED BY <1>1, <1>3, <2>2, <3>1, <3>3, ProcessesStep
  <2>3. CASE Processes("opadIn", "digestIn", digest)
    <3>1. /\ at = "opadIn" /\ at' = "digestIn" /\ key' = key /\ text' = text /\ pc = "idle"
          /\ digest = InnerHMAC
      BY <2>3 DEF Processes, Goes, HInv
    <3>2. KXor(92)' = KXor(92) /\ InnerHMAC' = InnerHMAC
      BY <3>1 DEF KXor, KeyOfABlock, InnerHMAC
    <3>3. Message' = fed \o digest
      BY <1>6, <3>1, <3>2 DEF Message
    <3>. QED BY <1>1, <2>3, <3>1, <3>3, ProcessesStep
  <2>4. CASE /\ pc = "final" /\ Goes("digestIn", "done")
             /\ digest' = Digest(hashed)
             /\ UNCHANGED <<vars, k>>
    BY <2>4, DigestStep
  <2>. QED BY <1>10, <2>1, <2>2, <2>3, <2>4 DEF OuterHash
<1>11. CASE Hashing
  BY <1>11, HashingStep
<1>12. CASE UNCHANGED <<vars, hvars>>
  <2>1. ShaInv'
    BY <1>12, ReturnStep DEF HInv
  <2>2. Message' = Message /\ InnerHMAC' = InnerHMAC /\ HMAC' = HMAC
        /\ KeyOfABlock' = KeyOfABlock /\ KeyIsLong' = KeyIsLong
    BY <1>12 DEF hvars, Message, InnerHMAC, HMAC, KXor, KeyOfABlock, KeyIsLong
  <2>. QED BY <1>12, <2>1, <2>2 DEF HInv, vars, hvars
<1>. QED BY <1>7, <1>8, <1>9, <1>10, <1>11, <1>12 DEF HNext, Done

\* HmacSha256 returns the HMAC of RFC 2104 for keys and texts of any length,
\* though the struct and the digest buffer serve each of its hashes in turn.
THEOREM ReturnsTheHmacAlways == HSpec => []ReturnsTheHmac
<1>1. HInv => ReturnsTheHmac
  BY DEF HInv, ReturnsTheHmac
<1>. QED BY HInitially, HInvariance, <1>1, PTL DEF HSpec
=============================================================================
