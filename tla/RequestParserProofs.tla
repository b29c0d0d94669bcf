------------------------ MODULE RequestParserProofs ------------------------
(***************************************************************************)
(* Lemmas about requests and their parser: first and last places, sequen-  *)
(* ces put together and taken apart, where the parts of a request stand in *)
(* its text, and what the parser makes of the text, cut anywhere.          *)
(***************************************************************************)
EXTENDS RequestParser, SequenceTheorems, WellFoundedInduction, TLAPS

-----------------------------------------------------------------------------
(* First and last places, and sequences put together.                      *)

LEMMA FirstPlace ==
  ASSUME NEW I, I \subseteq Nat, I # {}
  PROVE  Min(I) \in I /\ \A j \in I : Min(I) <= j
<1>1. PICK i \in I : \A j \in I : <<j, i>> \notin OpToRel(<, Nat)
  BY WFMin, NatLessThanWellFounded, Zenon
<1>2. \A j \in I : ~(j < i)
  BY <1>1, Zenon DEF OpToRel
<1>3. \A j \in I : i =< j
  BY <1>2
<1>. QED BY <1>3 DEF Min

LEMMA FirstPlaceIs ==
  ASSUME NEW I, I \subseteq Nat, NEW i \in I, \A j \in I : i <= j
  PROVE  Min(I) = i
<1>1. Min(I) \in I /\ Min(I) <= i /\ i <= Min(I)
  BY FirstPlace
<1>2. Min(I) \in Nat /\ i \in Nat
  BY <1>1
<1>. QED BY <1>1, <1>2

LEMMA LastPlace ==
  ASSUME NEW n \in Nat, NEW I, I \subseteq 1 .. n, I # {}
  PROVE  Max(I) \in I /\ \A j \in I : j <= Max(I)
<1>. DEFINE J == {n - j : j \in I}
<1>1. J \subseteq Nat /\ J # {}
  <2>1. \A j \in I : n - j \in Nat
    OBVIOUS
  <2>2. \A x \in J : \E j \in I : x = n - j
    OBVIOUS
  <2>3. PICK j \in I : TRUE
    OBVIOUS
  <2>4. n - j \in J
    BY <2>3
  <2>. QED BY <2>1, <2>2, <2>4
<1>2. Min(J) \in J /\ \A x \in J : Min(J) <= x
  BY <1>1, FirstPlace
<1>. HIDE DEF J
<1>3. PICK i \in I : n - i = Min(J) /\ \A j \in I : n - i <= n - j
  BY <1>2 DEF J
<1>4. \A j \in I : i >= j
  BY <1>3
<1>. QED BY <1>4 DEF Max

LEMMA ConcatAt ==
  ASSUME NEW S, NEW s \in Seq(S), NEW t \in Seq(S)
  PROVE  /\ s \o t \in Seq(S) /\ Len(s \o t) = Len(s) + Len(t)
         /\ \A p \in 1 .. Len(s) : (s \o t)[p] = s[p]
         /\ \A p \in 1 .. Len(t) : (s \o t)[Len(s) + p] = t[p]
<1>1. Len(s) \in Nat /\ Len(t) \in Nat
  BY LenProperties
<1>2. \A p \in 1 .. Len(s) + Len(t) :
        (s \o t)[p] = IF p <= Len(s) THEN s[p] ELSE t[p - Len(s)]
  BY ConcatProperties
<1>3. \A p \in 1 .. Len(t) : Len(s) + p \in 1 .. Len(s) + Len(t) /\ ~(Len(s) + p <= Len(s))
                             /\ (Len(s) + p) - Len(s) = p
  BY <1>1
<1>4. \A p \in 1 .. Len(s) : p \in 1 .. Len(s) + Len(t) /\ p <= Len(s)
  BY <1>1
<1>. QED BY <1>2, <1>3, <1>4, ConcatProperties

\* A sequence of n elements; the lengths of sequences are kept out of sight of
\* the provers.
Long(s, n, S) == s \in Seq(S) /\ Len(s) = n

Join(s, t) == s \o t

\* The n elements of t stand in s behind place b.
Holds(s, b, t, n) == \A p \in 1 .. n : s[b + p] = t[p]

LEMMA Joined ==
  ASSUME NEW S, NEW m \in Nat, NEW n \in Nat, NEW s, NEW t, Long(s, m, S), Long(t, n, S)
  PROVE  Long(Join(s, t), m + n, S) /\ Holds(Join(s, t), 0, s, m) /\ Holds(Join(s, t), m, t, n)
<1>1. s \in Seq(S) /\ t \in Seq(S) /\ Len(s) = m /\ Len(t) = n
  BY DEF Long
<1>2. \A u, v \in Seq(S) :
        /\ u \o v \in Seq(S) /\ Len(u \o v) = Len(u) + Len(v)
        /\ \A p \in 1 .. Len(u) : (u \o v)[p] = u[p]
        /\ \A p \in 1 .. Len(v) : (u \o v)[Len(u) + p] = v[p]
  BY ConcatAt
<1>3. /\ Join(s, t) \in Seq(S) /\ Len(Join(s, t)) = Len(s) + Len(t)
      /\ \A p \in 1 .. Len(s) : Join(s, t)[p] = s[p]
      /\ \A p \in 1 .. Len(t) : Join(s, t)[Len(s) + p] = t[p]
  BY <1>1, <1>2, Zenon DEF Join
<1>4. \A p \in 1 .. m : 0 + p = p
  OBVIOUS
<1>. QED BY <1>1, <1>3, <1>4 DEF Long, Holds

LEMMA Within ==
  ASSUME NEW u, NEW v, NEW w, NEW b \in Nat, NEW c \in Nat, NEW n \in Nat, NEW k \in Nat,
         Holds(u, b, v, n), Holds(v, c, w, k), c + k <= n
  PROVE  Holds(u, b + c, w, k)
<1>. SUFFICES ASSUME NEW p \in 1 .. k PROVE u[(b + c) + p] = w[p]
  BY DEF Holds
<1>1. c + p \in 1 .. n /\ b + (c + p) = (b + c) + p
  OBVIOUS
<1>2. u[b + (c + p)] = v[c + p] /\ v[c + p] = w[p]
  BY <1>1 DEF Holds
<1>. QED BY <1>1, <1>2

LEMMA Singles ==
  ASSUME NEW S
  PROVE  /\ Long(<<>>, 0, S)
         /\ \A a \in S : Long(<<a>>, 1, S) /\ <<a>>[1] = a
         /\ \A a, b \in S : Long(<<a, b>>, 2, S) /\ <<a, b>>[1] = a /\ <<a, b>>[2] = b
         /\ \A a, b, c \in S : /\ Long(<<a, b, c>>, 3, S)
                               /\ <<a, b, c>>[1] = a /\ <<a, b, c>>[2] = b /\ <<a, b, c>>[3] = c
         /\ \A a, b, c, d \in S :
              /\ Long(<<a, b, c, d>>, 4, S)
              /\ <<a, b, c, d>>[1] = a /\ <<a, b, c, d>>[2] = b
              /\ <<a, b, c, d>>[3] = c /\ <<a, b, c, d>>[4] = d
BY DEF Long

LEMMA FunctionIsSeq ==
  ASSUME NEW S, NEW n \in Nat, NEW f \in [1 .. n -> S]
  PROVE  Long(f, n, S)
<1>1. f \in Seq(S)
  OBVIOUS
<1>2. Len(f) \in Nat /\ DOMAIN f = 1 .. Len(f)
  BY <1>1, LenProperties
<1>3. 1 .. Len(f) = 1 .. n
  BY <1>2
<1>4. Len(f) = n
  BY <1>2, <1>3
<1>. QED BY <1>1, <1>4 DEF Long

\* One element more.
Then(t, x) == Join(t, <<x>>)

LEMMA Appends ==
  ASSUME NEW S, NEW n \in Nat, NEW t, NEW x \in S, Long(t, n, S)
  PROVE  Long(Then(t, x), n + 1, S) /\ Then(t, x)[n + 1] = x /\ Holds(Then(t, x), 0, t, n)
<1>. DEFINE u == <<x>>
<1>1. Long(u, 1, S) /\ u[1] = x
  BY Singles
<1>2. Then(t, x) = Join(t, u)
  BY DEF Then
<1>. HIDE DEF u
<1>3. Long(Join(t, u), n + 1, S) /\ Holds(Join(t, u), 0, t, n) /\ Holds(Join(t, u), n, u, 1)
  BY <1>1, Joined
<1>4. Join(t, u)[n + 1] = u[1]
  BY <1>3 DEF Holds
<1>. QED BY <1>1, <1>2, <1>3, <1>4

\* The recursive function in FlattenSeq exists, whatever it puts together.
Flattens(f, seqs, n) ==
  f = [i \in 1 .. n |-> IF i = 1 THEN seqs[i] ELSE f[i - 1] \o seqs[i]]

LEMMA FlattenExists ==
  ASSUME NEW seqs, NEW n \in Nat \ {0}
  PROVE  \E f : Flattens(f, seqs, n)
<1>. DEFINE Bad == {m \in 1 .. n : ~\E f : Flattens(f, seqs, m)}
<1>. SUFFICES Bad = {}
  OBVIOUS
<1>. SUFFICES ASSUME Bad # {} PROVE FALSE
  OBVIOUS
<1>1. PICK m \in Bad : \A j \in Bad : m <= j
  <2>1. Bad \subseteq Nat
    OBVIOUS
  <2>. HIDE DEF Bad
  <2>2. Min(Bad) \in Bad /\ \A j \in Bad : Min(Bad) <= j
    BY <2>1, FirstPlace
  <2>. QED BY <2>2
<1>2. m # 1
  <2>. DEFINE g == [i \in 1 .. 1 |-> seqs[1]]
  <2>1. Flattens(g, seqs, 1)
    BY DEF Flattens
  <2>. QED BY <2>1
<1>3. m - 1 \in 1 .. n /\ m - 1 \notin Bad
  BY <1>1, <1>2
<1>4. PICK f : Flattens(f, seqs, m - 1)
  BY <1>3
<1>. DEFINE g == [i \in 1 .. m |-> IF i < m THEN f[i] ELSE f[m - 1] \o seqs[m]]
<1>5. Flattens(g, seqs, m)
  <2>1. \A i \in 1 .. m - 1 : g[i] = f[i]
    OBVIOUS
  <2>2. ASSUME NEW i \in 1 .. m
        PROVE  g[i] = IF i = 1 THEN seqs[i] ELSE g[i - 1] \o seqs[i]
    <3>1. CASE i = m
      <4>1. m - 1 \in 1 .. m - 1 /\ m \in 1 .. m
        BY <1>3
      <4>2. g[m] = f[m - 1] \o seqs[m]
        <5>1. m \in Nat /\ ~(m < m)
          OBVIOUS
        <5>. QED BY <4>1, <5>1
      <4>3. g[m - 1] = f[m - 1]
        BY <2>1, <4>1
      <4>. HIDE DEF g
      <4>. QED BY <1>2, <3>1, <4>2, <4>3
    <3>2. CASE i # m /\ i = 1
      BY <1>4, <2>1, <3>2 DEF Flattens
    <3>3. CASE i # m /\ i # 1
      <4>1. i \in 1 .. m - 1 /\ i - 1 \in 1 .. m - 1
        BY <3>3
      <4>2. f[i] = f[i - 1] \o seqs[i]
        BY <1>4, <3>3, <4>1 DEF Flattens
      <4>. QED BY <2>1, <3>3, <4>1, <4>2
    <3>. QED BY <3>1, <3>2, <3>3
  <2>. HIDE DEF g
  <2>3. g = [i \in 1 .. m |-> g[i]]
    BY DEF g
  <2>. QED BY <2>2, <2>3 DEF Flattens
<1>. QED BY <1>5

\* Part i of what FlattenSeq puts together begins behind place o[i - 1].
PutTogether(seqs, o, s, S) ==
  /\ s \in Seq(S) /\ Len(s) = o[Len(seqs)] /\ o[0] = 0
  /\ \A i \in 1 .. Len(seqs) :
       /\ o[i] = o[i - 1] + Len(seqs[i])
       /\ \A p \in 1 .. Len(seqs[i]) : s[o[i - 1] + p] = seqs[i][p]

\* f[j] goes on where f[i] ends.
GoesOn(f, i, j) ==
  Len(f[i]) <= Len(f[j]) /\ \A p \in 1 .. Len(f[i]) : f[j][p] = f[i][p]

LEMMA FlattenGoesOn ==
  ASSUME NEW S, NEW n \in Nat, NEW seqs \in [1 .. n -> Seq(S)], NEW f, Flattens(f, seqs, n)
  PROVE  \A j \in 1 .. n : f[j] \in Seq(S) /\ \A i \in 1 .. j : GoesOn(f, i, j)
<1>. DEFINE Good(j) == f[j] \in Seq(S) /\ \A i \in 1 .. j : GoesOn(f, i, j)
            Bad == {j \in 1 .. n : ~Good(j)}
<1>. SUFFICES ASSUME Bad # {} PROVE FALSE
  OBVIOUS
<1>1. PICK j \in Bad : \A i \in Bad : j <= i
  <2>1. Bad \subseteq Nat
    OBVIOUS
  <2>. HIDE DEF Bad
  <2>2. Min(Bad) \in Bad /\ \A j \in Bad : Min(Bad) <= j
    BY <2>1, FirstPlace
  <2>. QED BY <2>2
<1>2. CASE j = 1
  <2>1. f[1] = seqs[1] /\ seqs[1] \in Seq(S)
    BY <1>2 DEF Flattens
  <2>2. GoesOn(f, 1, 1)
    BY <2>1, LenProperties DEF GoesOn
  <2>. QED BY <1>2, <2>1, <2>2
<1>3. CASE j # 1
  <2>1. j - 1 \in 1 .. n /\ j \in 1 .. n
    BY <1>3
  <2>2. Good(j - 1)
    BY <1>1, <2>1
  <2>3. f[j] = f[j - 1] \o seqs[j] /\ seqs[j] \in Seq(S)
    BY <1>3 DEF Flattens
  <2>4. /\ f[j] \in Seq(S) /\ Len(f[j]) = Len(f[j - 1]) + Len(seqs[j])
        /\ \A p \in 1 .. Len(f[j - 1]) : f[j][p] = f[j - 1][p]
    BY <2>2, <2>3, ConcatProperties
  <2>5. Len(f[j - 1]) \in Nat /\ Len(seqs[j]) \in Nat
    BY <2>2, <2>3, LenProperties
  <2>6. ASSUME NEW i \in 1 .. j PROVE GoesOn(f, i, j)
    <3>1. CASE i = j
      BY <2>4, <3>1, LenProperties DEF GoesOn
    <3>2. CASE i # j
      <4>1. i \in 1 .. j - 1
        BY <3>2
      <4>2. GoesOn(f, i, j - 1)
        BY <2>2, <4>1
      <4>3. Good(i)
        BY <1>1, <4>1
      <4>4. Len(f[i]) \in Nat
        BY <4>3, LenProperties
      <4>5. /\ Len(f[i]) <= Len(f[j - 1])
            /\ \A p \in 1 .. Len(f[i]) : f[j - 1][p] = f[i][p]
        BY <4>2 DEF GoesOn
      <4>6. \A p \in 1 .. Len(f[i]) : p \in 1 .. Len(f[j - 1])
        BY <4>4, <4>5, <2>5
      <4>7. \A p \in 1 .. Len(f[i]) : f[j][p] = f[j - 1][p]
        BY <2>4, <4>6
      <4>8. Len(f[i]) <= Len(f[j])
        BY <2>4, <2>5, <4>4, <4>5
      <4>. QED BY <4>5, <4>7, <4>8 DEF GoesOn
    <3>. QED BY <3>1, <3>2
  <2>. QED BY <2>4, <2>6
<1>. QED BY <1>2, <1>3

LEMMA Flattened ==
  ASSUME NEW S, NEW seqs \in Seq(Seq(S))
  PROVE  \E o \in [0 .. Len(seqs) -> Nat] : PutTogether(seqs, o, FlattenSeq(seqs), S)
<1>. DEFINE n == Len(seqs)
<1>1. n \in Nat /\ seqs \in [1 .. n -> Seq(S)]
  BY LenProperties
<1>2. CASE n = 0
  <2>. DEFINE o == [i \in 0 .. 0 |-> 0]
  <2>1. FlattenSeq(seqs) = seqs /\ seqs = <<>>
    BY <1>2, EmptySeq DEF FlattenSeq
  <2>2. PutTogether(seqs, o, FlattenSeq(seqs), S)
    BY <1>2, <2>1 DEF PutTogether
  <2>. QED BY <1>2, <2>2
<1>3. CASE n # 0
  <2>. DEFINE f == CHOOSE f : Flattens(f, seqs, n)
              o == [i \in 0 .. n |-> IF i = 0 THEN 0 ELSE Len(f[i])]
  <2>1. Flattens(f, seqs, n)
    BY <1>1, <1>3, FlattenExists
  <2>2. FlattenSeq(seqs) = f[n]
    BY <1>3 DEF FlattenSeq, Flattens
  <2>. HIDE DEF f
  <2>3. \A j \in 1 .. n : f[j] \in Seq(S) /\ \A i \in 1 .. j : GoesOn(f, i, j)
    BY <1>1, <2>1, FlattenGoesOn
  <2>4. \A j \in 1 .. n : Len(f[j]) \in Nat
    BY <2>3, LenProperties
  <2>5. o \in [0 .. n -> Nat] /\ o[0] = 0 /\ \A i \in 1 .. n : o[i] = Len(f[i])
    BY <1>1, <2>4
  <2>. HIDE DEF o, n
  <2>6. n \in 1 .. n
    BY <1>1, <1>3
  <2>7. ASSUME NEW i \in 1 .. n
        PROVE  /\ o[i] = o[i - 1] + Len(seqs[i])
               /\ \A p \in 1 .. Len(seqs[i]) : f[n][o[i - 1] + p] = seqs[i][p]
    <3>1. seqs[i] \in Seq(S) /\ Len(seqs[i]) \in Nat
      BY <1>1, LenProperties
    <3>2. /\ o[i - 1] \in Nat /\ Len(f[i]) = o[i - 1] + Len(seqs[i])
          /\ \A p \in 1 .. Len(seqs[i]) : f[i][o[i - 1] + p] = seqs[i][p]
      <4>1. CASE i = 1
        <5>1. f[1] = seqs[1]
          BY <2>1, <4>1 DEF Flattens
        <5>. QED BY <2>5, <3>1, <4>1, <5>1
      <4>2. CASE i # 1
        <5>1. i - 1 \in 1 .. n /\ f[i - 1] \in Seq(S) /\ o[i - 1] = Len(f[i - 1])
          BY <1>1, <2>3, <2>5, <4>2
        <5>2. f[i] = f[i - 1] \o seqs[i]
          BY <2>1, <4>2 DEF Flattens
        <5>3. o[i - 1] \in Nat
          BY <2>4, <5>1
        <5>4. /\ Len(f[i - 1] \o seqs[i]) = Len(f[i - 1]) + Len(seqs[i])
              /\ \A p \in 1 .. Len(seqs[i]) :
                   (f[i - 1] \o seqs[i])[Len(f[i - 1]) + p] = seqs[i][p]
          <6>1. \A s, t \in Seq(S) :
                  /\ Len(s \o t) = Len(s) + Len(t)
                  /\ \A p \in 1 .. Len(t) : (s \o t)[Len(s) + p] = t[p]
            BY ConcatAt
          <6>. QED BY <3>1, <5>1, <6>1
        <5>. QED BY <5>1, <5>2, <5>3, <5>4
      <4>. QED BY <4>1, <4>2
    <3>3. GoesOn(f, i, n)
      BY <2>3, <2>6
    <3>4. ASSUME NEW p \in 1 .. Len(seqs[i]) PROVE f[n][o[i - 1] + p] = seqs[i][p]
      <4>1. o[i - 1] + p \in 1 .. Len(f[i])
        BY <3>1, <3>2
      <4>. QED BY <3>2, <3>3, <4>1 DEF GoesOn
    <3>. QED BY <2>5, <3>2, <3>4
  <2>8. PutTogether(seqs, o, f[n], S)
    BY <2>3, <2>5, <2>6, <2>7 DEF PutTogether, n
  <2>. QED BY <2>2, <2>5, <2>8 DEF n
<1>. QED BY <1>2, <1>3

LEMMA CutOut ==
  ASSUME NEW S, NEW s \in Seq(S), NEW a \in Nat \ {0}, NEW b \in Nat, a <= b + 1, b <= Len(s)
  PROVE  Long(SubSeq(s, a, b), (b + 1) - a, S) /\ Holds(s, a - 1, SubSeq(s, a, b), (b + 1) - a)
<1>1. \A i \in a .. b : s[i] \in S
  <2>1. \A i \in a .. b : i \in 1 .. Len(s)
    BY LenProperties
  <2>. QED BY <2>1, ElementOfSeq
<1>. DEFINE c == SubSeq(s, a, b)
<1>2. /\ c \in Seq(S)
      /\ Len(c) = IF a <= b THEN b - a + 1 ELSE 0
      /\ \A i \in 1 .. b - a + 1 : c[i] = s[a + i - 1]
  BY <1>1, SubSeqProperties
<1>. HIDE DEF c
<1>3. b - a + 1 = (b + 1) - a /\ Len(c) = (b + 1) - a
  BY <1>2
<1>4. ASSUME NEW p \in 1 .. (b + 1) - a PROVE s[(a - 1) + p] = c[p]
  <2>1. a + p - 1 = (a - 1) + p /\ p \in 1 .. b - a + 1
    OBVIOUS
  <2>. QED BY <1>2, <2>1
<1>. QED BY <1>2, <1>3, <1>4 DEF Long, Holds, c

LEMMA FrontPart ==
  ASSUME NEW S, NEW s \in Seq(S), NEW b \in Nat, b <= Len(s)
  PROVE  Long(SubSeq(s, 1, b), b, S) /\ Holds(s, 0, SubSeq(s, 1, b), b)
<1>1. 1 \in Nat \ {0} /\ 1 <= b + 1 /\ (b + 1) - 1 = b /\ 1 - 1 = 0
  OBVIOUS
<1>2. Long(SubSeq(s, 1, b), (b + 1) - 1, S) /\ Holds(s, 1 - 1, SubSeq(s, 1, b), (b + 1) - 1)
  BY <1>1, CutOut
<1>. QED BY <1>1, <1>2

LEMMA PrefixIs ==
  ASSUME NEW S, NEW u \in Seq(S), NEW v \in Seq(S)
  PROVE  IsPrefix(u, v) <=> Len(u) <= Len(v) /\ \A p \in 1 .. Len(u) : u[p] = v[p]
<1>. SUFFICES ASSUME Len(u) <= Len(v)
              PROVE  SubSeq(u, 1, Len(u)) = SubSeq(v, 1, Len(u)) <=>
                       \A p \in 1 .. Len(u) : u[p] = v[p]
  BY DEF IsPrefix
<1>. DEFINE n == Len(u)   a == SubSeq(u, 1, n)   b == SubSeq(v, 1, n)
<1>1. n \in Nat /\ n <= Len(v)
  BY LenProperties
<1>2. Long(a, (n + 1) - 1, S) /\ Holds(u, 1 - 1, a, (n + 1) - 1)
  BY <1>1, CutOut
<1>3. Long(b, (n + 1) - 1, S) /\ Holds(v, 1 - 1, b, (n + 1) - 1)
  BY <1>1, CutOut
<1>. HIDE DEF n, a, b
<1>4. (n + 1) - 1 = n /\ 1 - 1 = 0 /\ \A p \in 1 .. n : 0 + p = p
  BY <1>1
<1>5. \A p \in 1 .. n : a[p] = u[p] /\ b[p] = v[p]
  BY <1>2, <1>3, <1>4 DEF Holds
<1>6. a \in Seq(S) /\ b \in Seq(S) /\ Len(a) = n /\ Len(b) = n
  BY <1>2, <1>3, <1>4 DEF Long
<1>7. (\A p \in 1 .. n : a[p] = b[p]) => a = b
  BY <1>6, SeqEqual
<1>8. a = b <=> \A p \in 1 .. n : u[p] = v[p]
  BY <1>5, <1>7
<1>. QED BY <1>8 DEF n, a, b

\* Offsets of parts that follow one another never fall.
LEMMA Grows ==
  ASSUME NEW n \in Nat, NEW o \in [0 .. n -> Nat], \A i \in 1 .. n : o[i] >= o[i - 1]
  PROVE  \A j \in 0 .. n : \A i \in 0 .. j : o[i] <= o[j]
<1>. DEFINE Bad == {j \in 0 .. n : \E i \in 0 .. j : ~(o[i] <= o[j])}
<1>. SUFFICES ASSUME Bad # {} PROVE FALSE
  OBVIOUS
<1>1. PICK j \in Bad : \A i \in Bad : j <= i
  <2>1. Bad \subseteq Nat
    OBVIOUS
  <2>. HIDE DEF Bad
  <2>2. Min(Bad) \in Bad /\ \A j \in Bad : Min(Bad) <= j
    BY <2>1, FirstPlace
  <2>. QED BY <2>2
<1>2. PICK i \in 0 .. j : ~(o[i] <= o[j])
  OBVIOUS
<1>3. j \in 0 .. n /\ o[i] \in Nat /\ o[j] \in Nat /\ i # j
  BY <1>2
<1>4. j - 1 \in 0 .. n /\ i \in 0 .. j - 1 /\ j \in 1 .. n
  BY <1>3
<1>5. j - 1 \notin Bad
  BY <1>1, <1>3
<1>6. o[i] <= o[j - 1] /\ o[j] >= o[j - 1] /\ o[j - 1] \in Nat
  BY <1>4, <1>5
<1>. QED BY <1>2, <1>3, <1>6

-----------------------------------------------------------------------------
(* Where the parts of a request stand in its text.                         *)

Pairs == [name : {"name", "age"}, mark : {"=", "&"}, value : Words \cup {"&"}]
Lines == {v \in Seq(Symbols) : {"CR", "LF"} \cap ToSet(v) = {} /\ (v # <<>> => v[1] # "SP")}
HeaderPairs == [name : {"Host", "Content-Length"}, mark : {":", "="}, value : Lines]

RequestOK(s) ==
  /\ s.method \in Words \ Paths /\ s.target \in Words
  /\ s.query \in Seq(Pairs)
  /\ s.headers \in Seq(HeaderPairs) /\ \A i \in DOMAIN s.headers : s.headers[i].name = "Host"
  /\ s.length \in DOMAIN Number \cup {"none"} /\ s.closed \in BOOLEAN
  /\ s.body \in Seq(Symbols) /\ {"CR", "LF"} \cap ToSet(s.body) = {}

LEMMA SeqOfType ==
  ASSUME NEW S, NEW T, S \subseteq T, NEW n \in Nat, NEW s \in SeqOf(S, n)
  PROVE  s \in Seq(T)
<1>1. PICK m \in 0 .. n : s \in [1 .. m -> S]
  BY DEF SeqOf
<1>2. \A i \in 1 .. m : s[i] \in T
  BY <1>1
<1>. QED BY <1>1, <1>2

LEMMA RequestType == \A s \in Requests : RequestOK(s)
<1>. SUFFICES ASSUME NEW s \in Requests PROVE RequestOK(s)
  OBVIOUS
<1>0. PICK who \in Senders : s \in RequestsOf(who)
  BY DEF Requests
<1>. DEFINE params == [name : {"name", "age"}, mark : who.paramMarks, value : ParamValues]
            hosts == [name : {"Host"}, mark : who.headerMarks, value : HeaderValues]
<1>1. /\ s.method \in who.methods /\ s.target \in Targets
      /\ s.query \in SeqOf(params, who.params) /\ s.headers \in SeqOf(hosts, who.headers)
      /\ s.length \in who.lengths /\ s.body \in Bodies /\ s.closed \in BOOLEAN
  BY <1>0 DEF RequestsOf
<1>2. s.query \in Seq(Pairs)
  <2>1. params \subseteq Pairs
    BY TextAssumption DEF Pairs
  <2>. QED BY <1>1, <2>1, SeqOfType, TextAssumption
<1>3. s.headers \in Seq(HeaderPairs) /\ \A i \in DOMAIN s.headers : s.headers[i].name = "Host"
  <2>1. HeaderValues \subseteq Lines
    BY TextAssumption DEF Lines, OnOneLine
  <2>2. hosts \subseteq HeaderPairs
    BY <2>1, TextAssumption DEF HeaderPairs
  <2>3. s.headers \in Seq(hosts)
    BY <1>1, SeqOfType, TextAssumption
  <2>4. \A i \in DOMAIN s.headers : s.headers[i] \in hosts
    <3>1. DOMAIN s.headers = 1 .. Len(s.headers)
      BY <2>3, LenProperties
    <3>. QED BY <2>3, <3>1, ElementOfSeq
  <2>. QED BY <2>2, <2>3, <2>4, SeqMonotonic
<1>4. s.body \in Seq(Symbols) /\ {"CR", "LF"} \cap ToSet(s.body) = {}
  BY <1>1, TextAssumption DEF OnOneLine
<1>. QED BY <1>1, <1>2, <1>3, <1>4, TextAssumption DEF RequestOK

LEMMA ShortSeqs ==
  ASSUME NEW S, NEW a \in S, NEW b \in S
  PROVE  /\ <<a>> \in Seq(S) /\ Len(<<a>>) = 1 /\ <<a>>[1] = a
         /\ <<a, b>> \in Seq(S) /\ Len(<<a, b>>) = 2 /\ <<a, b>>[1] = a /\ <<a, b>>[2] = b
OBVIOUS

LEMMA ShortTexts ==
  \A a, b \in Symbols :
    /\ <<a>> \in Seq(Symbols) /\ Len(<<a>>) = 1 /\ <<a>>[1] = a
    /\ <<a, b>> \in Seq(Symbols) /\ Len(<<a, b>>) = 2 /\ <<a, b>>[1] = a /\ <<a, b>>[2] = b
BY ShortSeqs

LEMMA RestType ==
  ASSUME NEW s, RequestOK(s)
  PROVE  /\ Rest(s) \in Seq(Symbols) /\ Len(s.body) \in Nat
         /\ Len(Rest(s)) = Len(s.body) + IF s.closed THEN 4 ELSE 0
         /\ \A p \in 1 .. Len(s.body) : Rest(s)[p] = s.body[p]
         /\ s.closed => /\ Rest(s)[Len(s.body) + 1] = "CR" /\ Rest(s)[Len(s.body) + 2] = "LF"
                        /\ Rest(s)[Len(s.body) + 3] = "CR" /\ Rest(s)[Len(s.body) + 4] = "LF"
<1>1. s.body \in Seq(Symbols) /\ Len(s.body) \in Nat
  BY LenProperties DEF RequestOK
<1>. DEFINE e == IF s.closed THEN CRLF \o CRLF ELSE <<>>
<1>2. /\ CRLF \o CRLF \in Seq(Symbols) /\ Len(CRLF \o CRLF) = 4
      /\ (CRLF \o CRLF)[1] = "CR" /\ (CRLF \o CRLF)[2] = "LF"
      /\ (CRLF \o CRLF)[3] = "CR" /\ (CRLF \o CRLF)[4] = "LF"
  <2>1. CRLF \in Seq(Symbols) /\ Len(CRLF) = 2 /\ CRLF[1] = "CR" /\ CRLF[2] = "LF"
    <3>1. "CR" \in Symbols /\ "LF" \in Symbols
      BY DEF Symbols, Marks
    <3>. QED BY <3>1, ShortTexts DEF CRLF
  <2>2. /\ CRLF \o CRLF \in Seq(Symbols) /\ Len(CRLF \o CRLF) = Len(CRLF) + Len(CRLF)
        /\ \A p \in 1 .. Len(CRLF) : (CRLF \o CRLF)[p] = CRLF[p]
        /\ \A p \in 1 .. Len(CRLF) : (CRLF \o CRLF)[Len(CRLF) + p] = CRLF[p]
    <3>. DEFINE x == CRLF
    <3>1. x \in Seq(Symbols)
      BY <2>1
    <3>. HIDE DEF x
    <3>2. /\ x \o x \in Seq(Symbols) /\ Len(x \o x) = Len(x) + Len(x)
          /\ \A p \in 1 .. Len(x) : (x \o x)[p] = x[p]
          /\ \A p \in 1 .. Len(x) : (x \o x)[Len(x) + p] = x[p]
      BY <3>1, ConcatAt
    <3>. QED BY <3>2 DEF x
  <2>3. 1 \in 1 .. 2 /\ 2 \in 1 .. 2 /\ 2 + 1 = 3 /\ 2 + 2 = 4
    OBVIOUS
  <2>. QED BY <2>1, <2>2, <2>3
<1>3. e \in Seq(Symbols) /\ Len(e) = IF s.closed THEN 4 ELSE 0
  BY <1>2, EmptySeq
<1>4. s.closed => e[1] = "CR" /\ e[2] = "LF" /\ e[3] = "CR" /\ e[4] = "LF"
  BY <1>2
<1>5. Rest(s) = s.body \o e
  BY DEF Rest
<1>. HIDE DEF e
<1>6. \A u, t \in Seq(Symbols) :
        /\ u \o t \in Seq(Symbols) /\ Len(u \o t) = Len(u) + Len(t)
        /\ \A p \in 1 .. Len(u) : (u \o t)[p] = u[p]
        /\ \A p \in 1 .. Len(t) : (u \o t)[Len(u) + p] = t[p]
  BY ConcatAt
<1>7. s.closed => 1 \in 1 .. Len(e) /\ 2 \in 1 .. Len(e) /\ 3 \in 1 .. Len(e) /\ 4 \in 1 .. Len(e)
  <2>1. s.closed => Len(e) = 4
    BY <1>3
  <2>. QED BY <2>1
<1>8. Rest(s) \in Seq(Symbols) /\ Len(Rest(s)) = Len(s.body) + Len(e)
  BY <1>1, <1>3, <1>5, <1>6
<1>9. \A p \in 1 .. Len(s.body) : Rest(s)[p] = s.body[p]
  BY <1>1, <1>3, <1>5, <1>6
<1>10. \A p \in 1 .. Len(e) : Rest(s)[Len(s.body) + p] = e[p]
  BY <1>1, <1>3, <1>5, <1>6
<1>. QED BY <1>1, <1>3, <1>4, <1>7, <1>8, <1>9, <1>10

\* The headers as they are sent.
LEMMA HeadersType ==
  ASSUME NEW s, RequestOK(s)
  PROVE  /\ Headers(s) \in Seq(HeaderPairs) /\ Rest(s) \in Seq(Symbols)
         /\ s.length = "none" => Headers(s) = s.headers
         /\ s.length # "none" =>
              /\ Len(Headers(s)) = Len(s.headers) + 1
              /\ \A i \in 1 .. Len(s.headers) : Headers(s)[i] = s.headers[i]
              /\ Headers(s)[Len(s.headers) + 1] =
                   [name |-> "Content-Length", mark |-> ":", value |-> <<s.length>>]
<1>1. CASE s.length = "none"
  <2>1. s.headers \in Seq(HeaderPairs) /\ Headers(s) = s.headers \o <<>>
    BY <1>1 DEF Headers, RequestOK
  <2>2. Headers(s) = s.headers
    BY <2>1, ConcatEmptySeq
  <2>. QED BY <1>1, <2>1, <2>2, RestType
<1>2. CASE s.length # "none"
  <2>. DEFINE d == s.length   h == [name |-> "Content-Length", mark |-> ":", value |-> <<d>>]
  <2>1. d \in Words
    BY <1>2, TextAssumption DEF RequestOK
  <2>2. <<d>> \in Lines
    <3>1. d \in Symbols /\ d \notin {"CR", "LF", "SP"}
      BY <2>1, TextAssumption DEF Symbols, Marks
    <3>2. \A x \in ToSet(<<d>>) : x = d
      BY DEF ToSet
    <3>. HIDE DEF d
    <3>3. <<d>> \in Seq(Symbols) /\ <<d>>[1] = d
      BY <3>1, ShortTexts
    <3>. QED BY <3>1, <3>2, <3>3 DEF Lines
  <2>. HIDE DEF d
  <2>3. h \in HeaderPairs /\ <<h>> \in Seq(HeaderPairs) /\ Len(<<h>>) = 1 /\ <<h>>[1] = h
    BY <2>2 DEF HeaderPairs
  <2>4. Headers(s) = s.headers \o <<h>>
    BY <1>2 DEF Headers, d
  <2>5. s.headers \in Seq(HeaderPairs)
    BY DEF RequestOK
  <2>. HIDE DEF h
  <2>6. \A u, t \in Seq(HeaderPairs) :
          /\ u \o t \in Seq(HeaderPairs) /\ Len(u \o t) = Len(u) + Len(t)
          /\ \A p \in 1 .. Len(u) : (u \o t)[p] = u[p]
          /\ \A p \in 1 .. Len(t) : (u \o t)[Len(u) + p] = t[p]
    BY ConcatAt
  <2>7. Rest(s) \in Seq(Symbols)
    BY RestType
  <2>. QED BY <1>2, <2>3, <2>4, <2>5, <2>6, <2>7 DEF h, d
<1>. QED BY <1>1, <1>2

\* The parameters, four words each.
LEMMA QueryPlaces ==
  ASSUME NEW query \in Seq(Pairs)
  PROVE  /\ Len(query) \in Nat /\ Long(QueryText(query), 4 * Len(query), Symbols)
         /\ \A i \in 1 .. Len(query) :
              /\ QueryText(query)[4 * i - 3] = IF i = 1 THEN "?" ELSE "&"
              /\ QueryText(query)[4 * i - 2] = query[i].name
              /\ QueryText(query)[4 * i - 1] = query[i].mark
              /\ QueryText(query)[4 * i] = query[i].value
<1>. DEFINE part(i) ==
              <<IF i = 1 THEN "?" ELSE "&", query[i].name, query[i].mark, query[i].value>>
            parts == [i \in DOMAIN query |-> part(i)]
            n == Len(query)
<1>1. n \in Nat /\ DOMAIN query = 1 .. n
  BY LenProperties
<1>2. \A i \in 1 .. n : /\ query[i].name \in Symbols /\ query[i].mark \in Symbols
                         /\ query[i].value \in Symbols
  <2>1. \A i \in 1 .. n : query[i] \in Pairs
    BY ElementOfSeq
  <2>2. {"name", "age"} \subseteq Symbols /\ {"=", "&"} \subseteq Symbols
    BY TextAssumption DEF Symbols, Marks
  <2>. QED BY <2>1, <2>2 DEF Pairs, Symbols
<1>3. ASSUME NEW i \in 1 .. n
      PROVE  /\ Long(part(i), 4, Symbols)
             /\ part(i)[1] = (IF i = 1 THEN "?" ELSE "&") /\ part(i)[2] = query[i].name
             /\ part(i)[3] = query[i].mark /\ part(i)[4] = query[i].value
  <2>. DEFINE m == IF i = 1 THEN "?" ELSE "&"   x == query[i].name
              e == query[i].mark   v == query[i].value
  <2>1. m \in Symbols /\ e \in Symbols /\ x \in Symbols /\ v \in Symbols
    BY <1>2 DEF Symbols, Marks
  <2>. HIDE DEF m, x, e, v
  <2>2. /\ Long(<<m, x, e, v>>, 4, Symbols)
        /\ <<m, x, e, v>>[1] = m /\ <<m, x, e, v>>[2] = x
        /\ <<m, x, e, v>>[3] = e /\ <<m, x, e, v>>[4] = v
    BY <2>1, Singles
  <2>. QED BY <2>2 DEF m, x, e, v
<1>. HIDE DEF part
<1>4. parts \in Seq(Seq(Symbols)) /\ Len(parts) = n /\ \A i \in 1 .. n : parts[i] = part(i)
  <2>1. parts \in [1 .. n -> Seq(Symbols)]
    BY <1>1, <1>3 DEF Long
  <2>2. \A i \in 1 .. n : parts[i] = part(i)
    BY <1>1
  <2>. HIDE DEF parts
  <2>3. Long(parts, n, Seq(Symbols))
    BY <1>1, <2>1, FunctionIsSeq
  <2>. QED BY <2>2, <2>3 DEF Long
<1>5. QueryText(query) = FlattenSeq(parts)
  BY DEF QueryText, part
<1>. HIDE DEF parts, n
<1>6. PICK o \in [0 .. n -> Nat] : PutTogether(parts, o, QueryText(query), Symbols)
  <2>1. \E o \in [0 .. Len(parts) -> Nat] : PutTogether(parts, o, FlattenSeq(parts), Symbols)
    BY <1>4, Flattened
  <2>. QED BY <1>4, <1>5, <2>1
<1>7. /\ Long(QueryText(query), o[n], Symbols) /\ o[0] = 0
      /\ \A i \in 1 .. n :
           /\ o[i] = o[i - 1] + 4
           /\ \A p \in 1 .. 4 : QueryText(query)[o[i - 1] + p] = part(i)[p]
  <2>1. \A i \in 1 .. n : Len(parts[i]) = 4 /\ parts[i] = part(i)
    BY <1>3, <1>4 DEF Long
  <2>2. Len(parts) = n
    BY <1>4
  <2>3. Long(QueryText(query), o[n], Symbols) /\ o[0] = 0
    BY <1>6, <2>2 DEF PutTogether, Long
  <2>4. ASSUME NEW i \in 1 .. n
        PROVE  /\ o[i] = o[i - 1] + 4
               /\ \A p \in 1 .. 4 : QueryText(query)[o[i - 1] + p] = part(i)[p]
    <3>1. /\ o[i] = o[i - 1] + Len(parts[i])
          /\ \A p \in 1 .. Len(parts[i]) : QueryText(query)[o[i - 1] + p] = parts[i][p]
      BY <1>6, <2>2 DEF PutTogether
    <3>. QED BY <2>1, <3>1
  <2>. QED BY <2>3, <2>4
<1>8. \A i \in 0 .. n : o[i] = 4 * i
  <2>. DEFINE Bad == {i \in 0 .. n : o[i] # 4 * i}
  <2>. SUFFICES ASSUME Bad # {} PROVE FALSE
    OBVIOUS
  <2>1. PICK i \in Bad : \A j \in Bad : i <= j
    <3>1. Bad \subseteq Nat
      OBVIOUS
    <3>. HIDE DEF Bad
    <3>2. Min(Bad) \in Bad /\ \A j \in Bad : Min(Bad) <= j
      BY <3>1, FirstPlace
    <3>. QED BY <3>2
  <2>2. i # 0
    BY <1>7
  <2>3. i - 1 \in 0 .. n /\ i - 1 \notin Bad /\ i \in 1 .. n
    BY <1>1, <2>1, <2>2
  <2>4. o[i - 1] = 4 * (i - 1) /\ o[i] = o[i - 1] + 4
    BY <1>7, <2>3
  <2>. QED BY <2>3, <2>4
<1>9. ASSUME NEW i \in 1 .. n
      PROVE  /\ QueryText(query)[4 * i - 3] = part(i)[1]
             /\ QueryText(query)[4 * i - 2] = part(i)[2]
             /\ QueryText(query)[4 * i - 1] = part(i)[3]
             /\ QueryText(query)[4 * i] = part(i)[4]
  <2>1. o[i - 1] = 4 * (i - 1) /\ \A p \in 1 .. 4 : QueryText(query)[o[i - 1] + p] = part(i)[p]
    <3>1. i - 1 \in 0 .. n
      BY <1>1
    <3>2. o[i - 1] = 4 * (i - 1)
      BY <3>1, <1>8
    <3>3. \A p \in 1 .. 4 : QueryText(query)[o[i - 1] + p] = part(i)[p]
      BY <1>7
    <3>. QED BY <3>2, <3>3
  <2>2. /\ 4 * (i - 1) + 1 = 4 * i - 3 /\ 4 * (i - 1) + 2 = 4 * i - 2
        /\ 4 * (i - 1) + 3 = 4 * i - 1 /\ 4 * (i - 1) + 4 = 4 * i
    BY <1>1
  <2>3. 1 \in 1 .. 4 /\ 2 \in 1 .. 4 /\ 3 \in 1 .. 4 /\ 4 \in 1 .. 4
    OBVIOUS
  <2>4. /\ QueryText(query)[4 * (i - 1) + 1] = part(i)[1] /\ QueryText(query)[4 * (i - 1) + 2] = part(i)[2]
        /\ QueryText(query)[4 * (i - 1) + 3] = part(i)[3] /\ QueryText(query)[4 * (i - 1) + 4] = part(i)[4]
    BY <2>1, <2>3
  <2>. QED BY <2>2, <2>4
<1>10. o[n] = 4 * n
  BY <1>1, <1>8
<1>11. Long(QueryText(query), 4 * n, Symbols)
  BY <1>7, <1>10
<1>12. ASSUME NEW i \in 1 .. n
       PROVE  /\ QueryText(query)[4 * i - 3] = IF i = 1 THEN "?" ELSE "&"
              /\ QueryText(query)[4 * i - 2] = query[i].name
              /\ QueryText(query)[4 * i - 1] = query[i].mark
              /\ QueryText(query)[4 * i] = query[i].value
  BY <1>3, <1>9
<1>. QED BY <1>1, <1>11, <1>12 DEF n

\* A header: its name, its mark, a blank, its value and the end of its line.
LEMMA HeaderPlaces ==
  ASSUME NEW header \in HeaderPairs
  PROVE  LET n == Len(header.value)  t == HeaderText(header) IN
         /\ n \in Nat /\ Long(t, n + 5, Symbols)
         /\ t[1] = header.name /\ t[2] = header.mark /\ t[3] = "SP"
         /\ Holds(t, 3, header.value, n)
         /\ t[n + 4] = "CR" /\ t[n + 5] = "LF"
<1>. DEFINE v == header.value   n == Len(v)   a == <<header.name, header.mark, "SP">>
            t == Join(Join(a, v), CRLF)
<1>1. Long(v, n, Symbols) /\ n \in Nat /\ header.name \in Symbols /\ header.mark \in Symbols
  <2>1. v \in Seq(Symbols) /\ header.name \in {"Host", "Content-Length"} /\ header.mark \in {":", "="}
    BY DEF HeaderPairs, Lines
  <2>2. {"Host", "Content-Length"} \subseteq Symbols /\ {":", "="} \subseteq Symbols
    BY TextAssumption DEF Symbols, Marks
  <2>. QED BY <2>1, <2>2, LenProperties DEF Long
<1>2. Long(a, 3, Symbols) /\ a[1] = header.name /\ a[2] = header.mark /\ a[3] = "SP"
  <2>1. "SP" \in Symbols
    BY DEF Symbols, Marks
  <2>. QED BY <1>1, <2>1, Singles
<1>3. Long(CRLF, 2, Symbols) /\ CRLF[1] = "CR" /\ CRLF[2] = "LF"
  <2>1. "CR" \in Symbols /\ "LF" \in Symbols
    BY DEF Symbols, Marks
  <2>. QED BY <2>1, Singles DEF CRLF
<1>4. HeaderText(header) = t
  BY DEF HeaderText, Join
<1>. HIDE DEF v, n, a
<1>5. Long(Join(a, v), 3 + n, Symbols) /\ Holds(Join(a, v), 0, a, 3) /\ Holds(Join(a, v), 3, v, n)
  BY <1>1, <1>2, Joined
<1>6. /\ 3 + n \in Nat /\ Long(t, (3 + n) + 2, Symbols)
      /\ Holds(t, 0, Join(a, v), 3 + n) /\ Holds(t, 3 + n, CRLF, 2)
  <2>1. 3 + n \in Nat
    BY <1>1
  <2>. QED BY <1>3, <1>5, <2>1, Joined
<1>. HIDE DEF t
<1>7. Holds(t, 0, a, 3) /\ Holds(t, 3, v, n)
  <2>1. /\ 0 + 0 = 0 /\ 0 + 3 = 3 /\ 0 + 3 <= 3 + n /\ 3 + n <= 3 + n /\ 3 \in Nat /\ 0 \in Nat
    BY <1>1
  <2>2. Holds(t, 0 + 0, a, 3)
    BY <1>5, <1>6, <2>1, Within
  <2>3. Holds(t, 0 + 3, v, n)
    BY <1>1, <1>5, <1>6, <2>1, Within
  <2>. QED BY <2>1, <2>2, <2>3
<1>8. t[1] = a[1] /\ t[2] = a[2] /\ t[3] = a[3]
  <2>1. t[0 + 1] = a[1] /\ t[0 + 2] = a[2] /\ t[0 + 3] = a[3]
    BY <1>7 DEF Holds
  <2>. QED BY <2>1
<1>9. t[n + 4] = CRLF[1] /\ t[n + 5] = CRLF[2]
  <2>1. t[(3 + n) + 1] = CRLF[1] /\ t[(3 + n) + 2] = CRLF[2]
    BY <1>6 DEF Holds
  <2>2. (3 + n) + 1 = n + 4 /\ (3 + n) + 2 = n + 5
    BY <1>1
  <2>. QED BY <2>1, <2>2
<1>10. (3 + n) + 2 = n + 5
  BY <1>1
<1>. QED BY <1>1, <1>2, <1>3, <1>4, <1>6, <1>7, <1>8, <1>9, <1>10 DEF v, n


\* Where the parts of a request stand in its text: header i begins behind place
\* o[i - 1], and the empty line behind o[Len(Headers(s))].
FirstLine(s) ==
  LET q == Len(s.query)  t == Text(s) IN
  /\ t[1] = s.method /\ t[2] = "SP" /\ t[3] = s.target
  /\ \A i \in 1 .. q :
       /\ t[4 * i] = (IF i = 1 THEN "?" ELSE "&") /\ t[4 * i + 1] = s.query[i].name
       /\ t[4 * i + 2] = s.query[i].mark /\ t[4 * i + 3] = s.query[i].value
  /\ t[4 * q + 4] = "SP" /\ t[4 * q + 5] = "HTTP/1.0"
  /\ t[4 * q + 6] = "CR" /\ t[4 * q + 7] = "LF"

HeaderAt(s, i, b) ==
  LET h == Headers(s)[i]  n == Len(h.value)  t == Text(s) IN
  /\ n \in Nat
  /\ t[b + 1] = h.name /\ t[b + 2] = h.mark /\ t[b + 3] = "SP"
  /\ Holds(t, b + 3, h.value, n)
  /\ t[b + n + 4] = "CR" /\ t[b + n + 5] = "LF"

Layout(s, o) ==
  LET q == Len(s.query)  n == Len(Headers(s))  t == Text(s) IN
  /\ q \in Nat /\ n \in Nat /\ o \in [0 .. n -> Nat] /\ o[0] = 4 * q + 7
  /\ Long(t, o[n] + 2 + Len(Rest(s)), Symbols) /\ Len(Rest(s)) \in Nat
  /\ FirstLine(s)
  /\ \A i \in 1 .. n : o[i] = o[i - 1] + Len(Headers(s)[i].value) + 5 /\ HeaderAt(s, i, o[i - 1])
  /\ t[o[n] + 1] = "CR" /\ t[o[n] + 2] = "LF"
  /\ Holds(t, o[n] + 2, Rest(s), Len(Rest(s)))

LEMMA HeadersText ==
  ASSUME NEW headers \in Seq(HeaderPairs)
  PROVE  LET t == FlattenSeq([i \in DOMAIN headers |-> HeaderText(headers[i])])
             n == Len(headers)
         IN \E o \in [0 .. n -> Nat] :
              /\ n \in Nat /\ Long(t, o[n], Symbols) /\ o[0] = 0
              /\ \A i \in 1 .. n :
                   /\ Len(headers[i].value) \in Nat
                   /\ o[i] = o[i - 1] + (Len(headers[i].value) + 5)
                   /\ Holds(t, o[i - 1], HeaderText(headers[i]), Len(headers[i].value) + 5)
<1>. DEFINE parts == [i \in DOMAIN headers |-> HeaderText(headers[i])]
            n == Len(headers)   t == FlattenSeq(parts)
<1>1. n \in Nat /\ DOMAIN headers = 1 .. n
  BY LenProperties
<1>2. \A i \in 1 .. n : /\ Len(headers[i].value) \in Nat
                        /\ Long(HeaderText(headers[i]), Len(headers[i].value) + 5, Symbols)
  <2>. SUFFICES ASSUME NEW i \in 1 .. n
                PROVE  /\ Len(headers[i].value) \in Nat
                       /\ Long(HeaderText(headers[i]), Len(headers[i].value) + 5, Symbols)
    OBVIOUS
  <2>1. headers[i] \in HeaderPairs
    BY ElementOfSeq
  <2>. QED BY <2>1, HeaderPlaces
<1>3. parts \in Seq(Seq(Symbols)) /\ Len(parts) = n /\ \A i \in 1 .. n : parts[i] = HeaderText(headers[i])
  <2>1. parts \in [1 .. n -> Seq(Symbols)]
    BY <1>1, <1>2 DEF Long
  <2>2. \A i \in 1 .. n : parts[i] = HeaderText(headers[i])
    BY <1>1
  <2>. HIDE DEF parts
  <2>3. Long(parts, n, Seq(Symbols))
    BY <1>1, <2>1, FunctionIsSeq
  <2>. QED BY <2>2, <2>3 DEF Long
<1>. HIDE DEF parts, n
<1>4. PICK o \in [0 .. n -> Nat] : PutTogether(parts, o, t, Symbols)
  <2>1. \E o \in [0 .. Len(parts) -> Nat] : PutTogether(parts, o, FlattenSeq(parts), Symbols)
    BY <1>3, Flattened
  <2>. QED BY <1>3, <2>1
<1>. HIDE DEF t
<1>5. Long(t, o[n], Symbols) /\ o[0] = 0
  BY <1>3, <1>4 DEF PutTogether, Long
<1>6. ASSUME NEW i \in 1 .. n
      PROVE  /\ o[i] = o[i - 1] + (Len(headers[i].value) + 5)
             /\ Holds(t, o[i - 1], HeaderText(headers[i]), Len(headers[i].value) + 5)
  <2>1. /\ o[i] = o[i - 1] + Len(parts[i])
        /\ \A p \in 1 .. Len(parts[i]) : t[o[i - 1] + p] = parts[i][p]
    BY <1>3, <1>4 DEF PutTogether
  <2>2. parts[i] = HeaderText(headers[i]) /\ Len(parts[i]) = Len(headers[i].value) + 5
    BY <1>2, <1>3 DEF Long
  <2>. QED BY <2>1, <2>2 DEF Holds
<1>. QED BY <1>1, <1>2, <1>4, <1>5, <1>6 DEF parts, t, n


LEMMA Inside ==
  ASSUME NEW u, NEW v, NEW w, NEW c \in Nat, NEW n \in Nat, NEW k \in Nat,
         Holds(u, 0, v, n), Holds(v, c, w, k), c + k <= n
  PROVE  Holds(u, c, w, k)
<1>1. 0 \in Nat /\ 0 + c = c
  OBVIOUS
<1>2. Holds(u, 0 + c, w, k)
  BY <1>1, Within
<1>. QED BY <1>1, <1>2

\* The lengths of the seven parts of a text, and the place where each begins.
LEMMA TextPlaces ==
  ASSUME NEW a, NEW b, NEW c, NEW d, NEW e, NEW f, NEW g,
         NEW m \in Nat, NEW n \in Nat, NEW r \in Nat,
         Long(a, 3, Symbols), Long(b, m, Symbols), Long(c, 2, Symbols), Long(d, 2, Symbols),
         Long(e, n, Symbols), Long(f, 2, Symbols), Long(g, r, Symbols)
  PROVE  LET t == Join(Join(Join(Join(Join(Join(a, b), c), d), e), f), g) IN
         /\ Long(t, m + n + r + 9, Symbols)
         /\ Holds(t, 0, a, 3) /\ Holds(t, 3, b, m) /\ Holds(t, m + 3, c, 2)
         /\ Holds(t, m + 5, d, 2) /\ Holds(t, m + 7, e, n) /\ Holds(t, m + n + 7, f, 2)
         /\ Holds(t, m + n + 9, g, r)
<1>. DEFINE t1 == Join(a, b)   t2 == Join(t1, c)   t3 == Join(t2, d)
            t4 == Join(t3, e)  t5 == Join(t4, f)   t6 == Join(t5, g)
<1>0. /\ 2 \in Nat /\ 3 \in Nat /\ 3 + m = m + 3 /\ (m + 3) + 2 = m + 5 /\ (m + 5) + 2 = m + 7
      /\ (m + 7) + n = m + n + 7 /\ (m + n + 7) + 2 = m + n + 9
      /\ (m + n + 9) + r = m + n + r + 9
      /\ m + 3 \in Nat /\ m + 5 \in Nat /\ m + 7 \in Nat /\ m + n + 7 \in Nat /\ m + n + 9 \in Nat
  OBVIOUS
<1>1. Long(t1, m + 3, Symbols) /\ Holds(t1, 0, a, 3) /\ Holds(t1, 3, b, m)
  BY <1>0, Joined
<1>. HIDE DEF t1
<1>2. Long(t2, m + 5, Symbols) /\ Holds(t2, 0, t1, m + 3) /\ Holds(t2, m + 3, c, 2)
  BY <1>0, <1>1, Joined
<1>. HIDE DEF t2
<1>3. Long(t3, m + 7, Symbols) /\ Holds(t3, 0, t2, m + 5) /\ Holds(t3, m + 5, d, 2)
  BY <1>0, <1>2, Joined
<1>. HIDE DEF t3
<1>4. Long(t4, m + n + 7, Symbols) /\ Holds(t4, 0, t3, m + 7) /\ Holds(t4, m + 7, e, n)
  BY <1>0, <1>3, Joined
<1>. HIDE DEF t4
<1>5. Long(t5, m + n + 9, Symbols) /\ Holds(t5, 0, t4, m + n + 7) /\ Holds(t5, m + n + 7, f, 2)
  BY <1>0, <1>4, Joined
<1>. HIDE DEF t5
<1>6. Long(t6, m + n + r + 9, Symbols) /\ Holds(t6, 0, t5, m + n + 9) /\ Holds(t6, m + n + 9, g, r)
  BY <1>0, <1>5, Joined
<1>. HIDE DEF t6
<1>7. /\ 0 + 3 <= m + 3 /\ 3 + m <= m + 3 /\ 0 + (m + 3) <= m + 5 /\ (m + 3) + 2 <= m + 5
      /\ 0 + (m + 5) <= m + 7 /\ (m + 5) + 2 <= m + 7 /\ 0 + (m + 7) <= m + n + 7
      /\ (m + 7) + n <= m + n + 7 /\ 0 + (m + n + 7) <= m + n + 9
      /\ (m + n + 7) + 2 <= m + n + 9 /\ 0 \in Nat
  OBVIOUS
<1>8. Holds(t6, m + n + 7, f, 2) /\ Holds(t6, 0, t4, m + n + 7)
  BY <1>0, <1>5, <1>6, <1>7, Inside
<1>9. Holds(t6, m + 7, e, n) /\ Holds(t6, 0, t3, m + 7)
  BY <1>0, <1>4, <1>7, <1>8, Inside
<1>10. Holds(t6, m + 5, d, 2) /\ Holds(t6, 0, t2, m + 5)
  BY <1>0, <1>3, <1>7, <1>9, Inside
<1>11. Holds(t6, m + 3, c, 2) /\ Holds(t6, 0, t1, m + 3)
  BY <1>0, <1>2, <1>7, <1>10, Inside
<1>12. Holds(t6, 0, a, 3) /\ Holds(t6, 3, b, m)
  BY <1>0, <1>1, <1>7, <1>11, Inside
<1>. QED BY <1>6, <1>8, <1>9, <1>10, <1>11, <1>12 DEF t1, t2, t3, t4, t5, t6


LEMMA LayoutOf ==
  ASSUME NEW s, RequestOK(s)
  PROVE  \E o \in [0 .. Len(Headers(s)) -> Nat] : Layout(s, o)
<1>. DEFINE q == Len(s.query)   n == Len(Headers(s))   t == Text(s)   r == Len(Rest(s))
            a == <<s.method, "SP", s.target>>   c == <<"SP", "HTTP/1.0">>
            b == QueryText(s.query)
            e == FlattenSeq([i \in DOMAIN Headers(s) |-> HeaderText(Headers(s)[i])])
<1>1. /\ q \in Nat /\ Long(b, 4 * q, Symbols)
      /\ \A i \in 1 .. q : /\ b[4 * i - 3] = (IF i = 1 THEN "?" ELSE "&")
                           /\ b[4 * i - 2] = s.query[i].name
                           /\ b[4 * i - 1] = s.query[i].mark /\ b[4 * i] = s.query[i].value
  <2>1. s.query \in Seq(Pairs)
    BY DEF RequestOK
  <2>. QED BY <2>1, QueryPlaces
<1>2. Headers(s) \in Seq(HeaderPairs) /\ Long(Rest(s), r, Symbols) /\ r \in Nat
  <2>1. Headers(s) \in Seq(HeaderPairs) /\ Rest(s) \in Seq(Symbols)
    BY HeadersType
  <2>. QED BY <2>1, LenProperties DEF Long
<1>3. PICK p \in [0 .. n -> Nat] :
        /\ n \in Nat /\ Long(e, p[n], Symbols) /\ p[0] = 0
        /\ \A i \in 1 .. n :
             /\ Len(Headers(s)[i].value) \in Nat
             /\ p[i] = p[i - 1] + (Len(Headers(s)[i].value) + 5)
             /\ Holds(e, p[i - 1], HeaderText(Headers(s)[i]), Len(Headers(s)[i].value) + 5)
  BY <1>2, HeadersText
<1>4. /\ Long(a, 3, Symbols) /\ a[1] = s.method /\ a[2] = "SP" /\ a[3] = s.target
      /\ Long(c, 2, Symbols) /\ c[1] = "SP" /\ c[2] = "HTTP/1.0"
      /\ Long(CRLF, 2, Symbols) /\ CRLF[1] = "CR" /\ CRLF[2] = "LF"
  <2>1. /\ s.method \in Symbols /\ s.target \in Symbols /\ "HTTP/1.0" \in Symbols
        /\ "SP" \in Symbols /\ "CR" \in Symbols /\ "LF" \in Symbols
    BY TextAssumption DEF RequestOK, Symbols, Marks
  <2>. QED BY <2>1, Singles DEF CRLF
<1>5. t = Join(Join(Join(Join(Join(Join(a, b), c), CRLF), e), CRLF), Rest(s))
  BY DEF Text, Join
<1>. HIDE DEF a, b, c, e, t
<1>. DEFINE m == 4 * q   k == p[n]
<1>6. m \in Nat /\ k \in Nat
  BY <1>1, <1>3
<1>7. /\ Long(t, m + k + r + 9, Symbols)
      /\ Holds(t, 0, a, 3) /\ Holds(t, 3, b, m) /\ Holds(t, m + 3, c, 2)
      /\ Holds(t, m + 5, CRLF, 2) /\ Holds(t, m + 7, e, k) /\ Holds(t, m + k + 7, CRLF, 2)
      /\ Holds(t, m + k + 9, Rest(s), r)
  <2>1. Long(b, m, Symbols) /\ Long(e, k, Symbols)
    BY <1>1, <1>3
  <2>2. Long(a, 3, Symbols) /\ Long(c, 2, Symbols) /\ Long(CRLF, 2, Symbols)
    BY <1>4
  <2>. HIDE DEF m, k, r
  <2>3. LET u == Join(Join(Join(Join(Join(Join(a, b), c), CRLF), e), CRLF), Rest(s)) IN
        /\ Long(u, m + k + r + 9, Symbols)
        /\ Holds(u, 0, a, 3) /\ Holds(u, 3, b, m) /\ Holds(u, m + 3, c, 2)
        /\ Holds(u, m + 5, CRLF, 2) /\ Holds(u, m + 7, e, k) /\ Holds(u, m + k + 7, CRLF, 2)
        /\ Holds(u, m + k + 9, Rest(s), r)
    BY <2>1, <2>2, <1>2, <1>6, TextPlaces
  <2>. QED BY <2>3, <1>5
<1>. DEFINE o == [i \in 0 .. n |-> p[i] + (m + 7)]
<1>8. o \in [0 .. n -> Nat] /\ \A i \in 0 .. n : o[i] = p[i] + (m + 7)
  BY <1>6
<1>. HIDE DEF o, r
<1>9. FirstLine(s)
  <2>1. t[1] = s.method /\ t[2] = "SP" /\ t[3] = s.target
    <3>1. t[0 + 1] = a[1] /\ t[0 + 2] = a[2] /\ t[0 + 3] = a[3]
      BY <1>7 DEF Holds
    <3>. QED BY <1>4, <3>1
  <2>2. t[m + 4] = "SP" /\ t[m + 5] = "HTTP/1.0"
    <3>1. t[(m + 3) + 1] = c[1] /\ t[(m + 3) + 2] = c[2]
      BY <1>7 DEF Holds
    <3>2. (m + 3) + 1 = m + 4 /\ (m + 3) + 2 = m + 5
      BY <1>6
    <3>. QED BY <1>4, <3>1, <3>2
  <2>3. t[m + 6] = "CR" /\ t[m + 7] = "LF"
    <3>1. t[(m + 5) + 1] = CRLF[1] /\ t[(m + 5) + 2] = CRLF[2]
      BY <1>7 DEF Holds
    <3>2. (m + 5) + 1 = m + 6 /\ (m + 5) + 2 = m + 7
      BY <1>6
    <3>. QED BY <1>4, <3>1, <3>2
  <2>4. ASSUME NEW i \in 1 .. q
        PROVE  /\ t[4 * i] = (IF i = 1 THEN "?" ELSE "&") /\ t[4 * i + 1] = s.query[i].name
               /\ t[4 * i + 2] = s.query[i].mark /\ t[4 * i + 3] = s.query[i].value
    <3>1. /\ 4 * i - 3 \in 1 .. m /\ 4 * i - 2 \in 1 .. m /\ 4 * i - 1 \in 1 .. m /\ 4 * i \in 1 .. m
          /\ 3 + (4 * i - 3) = 4 * i /\ 3 + (4 * i - 2) = 4 * i + 1
          /\ 3 + (4 * i - 1) = 4 * i + 2 /\ 3 + 4 * i = 4 * i + 3
      <4>1. q \in Nat
        BY <1>1
      <4>. HIDE DEF q
      <4>. QED BY <4>1
    <3>. HIDE DEF m
    <3>2. /\ t[3 + (4 * i - 3)] = b[4 * i - 3] /\ t[3 + (4 * i - 2)] = b[4 * i - 2]
          /\ t[3 + (4 * i - 1)] = b[4 * i - 1] /\ t[3 + 4 * i] = b[4 * i]
      BY <1>7, <3>1 DEF Holds
    <3>. QED BY <1>1, <3>1, <3>2
  <2>. QED BY <2>1, <2>2, <2>3, <2>4 DEF FirstLine, t
<1>10. ASSUME NEW i \in 1 .. n
       PROVE  o[i] = o[i - 1] + Len(Headers(s)[i].value) + 5 /\ HeaderAt(s, i, o[i - 1])
  <2>. DEFINE h == Headers(s)[i]   v == h.value   l == Len(v)   w == HeaderText(h)   x == p[i - 1]
  <2>0. i - 1 \in 0 .. n /\ i \in 0 .. n
    BY <1>3
  <2>1. l \in Nat /\ p[i] = x + (l + 5) /\ Holds(e, x, w, l + 5)
    BY <1>3
  <2>2. Long(w, l + 5, Symbols) /\ w[1] = h.name /\ w[2] = h.mark /\ w[3] = "SP"
        /\ Holds(w, 3, v, l) /\ w[l + 4] = "CR" /\ w[l + 5] = "LF"
    <3>1. h \in HeaderPairs
      BY <1>2, ElementOfSeq
    <3>. HIDE DEF h
    <3>. QED BY <3>1, HeaderPlaces
  <2>3. x \in Nat /\ p[i] \in Nat /\ p[i] <= k
    <3>1. \A j \in 1 .. n : p[j] >= p[j - 1]
      <4>. SUFFICES ASSUME NEW j \in 1 .. n PROVE p[j] >= p[j - 1]
        OBVIOUS
      <4>. DEFINE y == Len(Headers(s)[j].value)
      <4>1. y \in Nat /\ p[j] = p[j - 1] + (y + 5)
        BY <1>3
      <4>2. p[j - 1] \in Nat
        BY <1>3
      <4>. HIDE DEF y
      <4>. QED BY <4>1, <4>2
    <3>2. \A j \in 0 .. n : \A g \in 0 .. j : p[g] <= p[j]
      BY <1>3, <3>1, Grows
    <3>3. n \in 0 .. n /\ i \in 0 .. n
      BY <1>3
    <3>4. p[i] <= p[n]
      BY <3>2, <3>3
    <3>. QED BY <2>0, <3>3, <3>4
  <2>. HIDE DEF w, l, v, h
  <2>4. Holds(t, (m + 7) + x, w, l + 5)
    <3>1. m + 7 \in Nat /\ l + 5 \in Nat /\ x + (l + 5) <= k
      BY <1>6, <2>1, <2>3
    <3>. HIDE DEF m, k, x
    <3>. QED BY <1>6, <1>7, <2>1, <2>3, <3>1, Within
  <2>5. Holds(t, ((m + 7) + x) + 3, v, l)
    <3>1. (m + 7) + x \in Nat /\ l + 5 \in Nat /\ 3 + l <= l + 5 /\ 3 \in Nat
      BY <1>6, <2>1, <2>3
    <3>. HIDE DEF m, x
    <3>. QED BY <2>1, <2>2, <2>4, <3>1, Within
  <2>6. o[i - 1] = (m + 7) + x /\ o[i] = o[i - 1] + l + 5 /\ o[i - 1] \in Nat
    <3>1. o[i - 1] = x + (m + 7) /\ o[i] = p[i] + (m + 7)
      BY <1>8, <2>0
    <3>2. p[i] = x + (l + 5) /\ l \in Nat /\ x \in Nat /\ m \in Nat
      BY <1>6, <2>1, <2>3
    <3>. HIDE DEF m, x
    <3>. QED BY <3>1, <3>2
  <2>. DEFINE y == o[i - 1]
  <2>7. /\ t[y + 1] = w[1] /\ t[y + 2] = w[2] /\ t[y + 3] = w[3]
        /\ t[y + (l + 4)] = w[l + 4] /\ t[y + (l + 5)] = w[l + 5]
    <3>1. {1, 2, 3, l + 4, l + 5} \subseteq 1 .. l + 5
      BY <2>1
    <3>2. Holds(t, y, w, l + 5)
      BY <2>4, <2>6
    <3>. HIDE DEF y
    <3>. QED BY <3>1, <3>2 DEF Holds
  <2>8. y + (l + 4) = y + l + 4 /\ y + (l + 5) = y + l + 5
    BY <2>1, <2>6
  <2>9. Holds(t, y + 3, v, l)
    BY <2>5, <2>6
  <2>. HIDE DEF y
  <2>10. HeaderAt(s, i, y)
    BY <2>1, <2>2, <2>7, <2>8, <2>9 DEF HeaderAt, h, v, l, t
  <2>. QED BY <2>6, <2>10 DEF y, h, v, l
<1>11. o[0] = 4 * q + 7 /\ o[n] = k + (m + 7) /\ o[n] \in Nat
  <2>1. 0 \in 0 .. n /\ n \in 0 .. n
    BY <1>3
  <2>. QED BY <1>3, <1>6, <1>8, <2>1
<1>12. /\ m + k + r + 9 = o[n] + 2 + r /\ m + k + 7 = o[n] /\ m + k + 9 = o[n] + 2
  BY <1>2, <1>6, <1>11
<1>13. Long(t, o[n] + 2 + r, Symbols) /\ Holds(t, o[n], CRLF, 2) /\ Holds(t, o[n] + 2, Rest(s), r)
  BY <1>7, <1>12
<1>14. t[o[n] + 1] = "CR" /\ t[o[n] + 2] = "LF"
  BY <1>4, <1>13 DEF Holds
<1>15. Layout(s, o)
  BY <1>1, <1>2, <1>3, <1>8, <1>9, <1>10, <1>11, <1>13, <1>14 DEF Layout, t, r
<1>. QED BY <1>8, <1>15


-----------------------------------------------------------------------------
(* What the parser finds in a text.                                        *)

\* The first of some places from i on, if j is the first of all in a text that
\* may end before it.
LEMMA FirstIn ==
  ASSUME NEW n \in Nat, NEW i \in Nat, NEW j \in Nat, i <= j,
         NEW I, I \subseteq i .. n, j <= n => j \in I, \A k \in I : k >= j
  PROVE  IF j <= n THEN I # {} /\ Min(I) = j ELSE I = {}
<1>1. CASE j <= n
  <2>1. I \subseteq Nat /\ I # {} /\ j \in I /\ \A k \in I : j <= k
    BY <1>1
  <2>2. Min(I) = j
    BY <2>1, FirstPlaceIs
  <2>. QED BY <1>1, <2>1, <2>2
<1>2. CASE ~(j <= n)
  BY <1>2
<1>. QED BY <1>1, <1>2

LEMMA NextIn ==
  ASSUME text \in Seq(Symbols), NEW n, n = Len(text), NEW marks,
         NEW i \in Nat \ {0}, NEW j \in Nat, i <= j,
         \A k \in i .. j - 1 : k <= n => text[k] \notin marks,
         j <= n => text[j] \in marks
  PROVE  NextOf(i, marks) = IF j <= n THEN j ELSE n + 1
<1>. DEFINE I == {k \in i .. Len(text) : text[k] \in marks}
<1>1. /\ I = {} => NextOf(i, marks) = Len(text) + 1
      /\ I # {} /\ Min(I) # 0 => NextOf(i, marks) = Min(I)
  BY DEF NextOf, SelectInSubSeq
<1>2. n \in Nat
  BY LenProperties
<1>3. I \subseteq i .. n /\ (j <= n => j \in I) /\ \A k \in I : k >= j
  <2>1. \A k \in I : k \in i .. n /\ text[k] \in marks
    OBVIOUS
  <2>2. \A k \in i .. n : k \in i .. j - 1 \/ k >= j
    BY <1>2
  <2>. QED BY <1>2, <2>1, <2>2
<1>. HIDE DEF I
<1>4. i \in Nat /\ j # 0
  OBVIOUS
<1>5. IF j <= n THEN I # {} /\ Min(I) = j ELSE I = {}
  BY <1>2, <1>3, <1>4, FirstIn
<1>. QED BY <1>1, <1>4, <1>5

\* The first of the marks is not before a place in front of which there is none.
LEMMA NextRange ==
  ASSUME text \in Seq(Symbols), NEW n, n = Len(text), NEW marks,
         NEW i \in Nat \ {0}, i <= n + 1, NEW j \in Nat, j <= n + 1,
         \A k \in i .. j - 1 : text[k] \notin marks
  PROVE  NextOf(i, marks) \in i .. n + 1 /\ NextOf(i, marks) >= j
<1>. DEFINE I == {k \in i .. Len(text) : text[k] \in marks}
<1>1. /\ I = {} => NextOf(i, marks) = Len(text) + 1
      /\ I # {} /\ Min(I) # 0 => NextOf(i, marks) = Min(I)
  BY DEF NextOf, SelectInSubSeq
<1>2. n \in Nat
  BY LenProperties
<1>3. I \subseteq i .. n /\ \A k \in I : k >= j
  <2>1. \A k \in I : k \in i .. n /\ text[k] \in marks
    OBVIOUS
  <2>2. \A k \in i .. n : k \in i .. j - 1 \/ k >= j
    BY <1>2
  <2>. QED BY <1>2, <2>1, <2>2
<1>. HIDE DEF I
<1>4. I # {} => Min(I) \in I
  <2>1. I \subseteq Nat
    BY <1>3
  <2>. QED BY <2>1, FirstPlace
<1>5. CASE I = {}
  BY <1>1, <1>2, <1>5
<1>6. CASE I # {}
  <2>. DEFINE k == Min(I)
  <2>1. k \in i .. n /\ k >= j
    BY <1>3, <1>4, <1>6
  <2>. HIDE DEF k
  <2>3. k # 0
    BY <1>2, <2>1
  <2>2. NextOf(i, marks) = k
    BY <1>1, <1>6, <2>3 DEF k
  <2>. QED BY <1>2, <2>1, <2>2
<1>. QED BY <1>5, <1>6

LEMMA AfterIn ==
  ASSUME text \in Seq(Symbols), NEW n, n = Len(text), NEW mark,
         NEW i \in Nat \ {0}, NEW j \in Nat, i <= j,
         \A k \in i .. j - 1 : k <= n => text[k] = mark,
         j <= n => text[j] # mark
  PROVE  After(i, mark) = IF j <= n THEN j ELSE n + 1
<1>. DEFINE I == {k \in i .. Len(text) : text[k] # mark}
<1>1. /\ I = {} => After(i, mark) = Len(text) + 1
      /\ I # {} /\ Min(I) # 0 => After(i, mark) = Min(I)
  BY DEF After, SelectInSubSeq
<1>2. n \in Nat
  BY LenProperties
<1>3. I \subseteq i .. n /\ (j <= n => j \in I) /\ \A k \in I : k >= j
  <2>1. \A k \in I : k \in i .. n /\ text[k] # mark
    OBVIOUS
  <2>2. \A k \in i .. n : k \in i .. j - 1 \/ k >= j
    BY <1>2
  <2>. QED BY <1>2, <2>1, <2>2
<1>. HIDE DEF I
<1>4. i \in Nat /\ j # 0
  OBVIOUS
<1>5. IF j <= n THEN I # {} /\ Min(I) = j ELSE I = {}
  BY <1>2, <1>3, <1>4, FirstIn
<1>. QED BY <1>1, <1>4, <1>5

\* Two ends of lines begin at place j.
EmptyLineAt(j) ==
  text[j] = "CR" /\ text[j + 1] = "LF" /\ text[j + 2] = "CR" /\ text[j + 3] = "LF"

LEMMA EmptyLineIs ==
  ASSUME text \in Seq(Symbols), NEW i \in Nat \ {0}
  PROVE  LET I == {j \in i .. Len(text) - 3 : EmptyLineAt(j)} IN
         EmptyLine(i) = IF I = {} THEN 0 ELSE Min(I)
<1>. DEFINE n == Len(text)   I == {j \in i .. n - 3 : EmptyLineAt(j)}
            z == Join(CRLF, CRLF)
<1>1. n \in Nat
  BY LenProperties
<1>2. /\ Long(z, 4, Symbols) /\ z[1] = "CR" /\ z[2] = "LF" /\ z[3] = "CR" /\ z[4] = "LF"
  <2>1. "CR" \in Symbols /\ "LF" \in Symbols
    BY DEF Symbols, Marks
  <2>2. Long(CRLF, 2, Symbols) /\ CRLF[1] = "CR" /\ CRLF[2] = "LF"
    BY <2>1, Singles DEF CRLF
  <2>3. Long(z, 2 + 2, Symbols) /\ Holds(z, 0, CRLF, 2) /\ Holds(z, 2, CRLF, 2)
    BY <2>2, Joined
  <2>4. z[0 + 1] = "CR" /\ z[0 + 2] = "LF" /\ z[2 + 1] = "CR" /\ z[2 + 2] = "LF"
    BY <2>2, <2>3 DEF Holds
  <2>. QED BY <2>3, <2>4
<1>3. z = CRLF \o CRLF
  BY DEF Join
<1>. HIDE DEF z
<1>4. ASSUME NEW j \in i .. n - 3
      PROVE  SubSeq(text, j, j + 3) = z <=> EmptyLineAt(j)
  <2>. DEFINE c == SubSeq(text, j, j + 3)
  <2>1. j \in Nat \ {0} /\ j + 3 \in Nat /\ j <= (j + 3) + 1 /\ j + 3 <= Len(text)
    BY <1>1
  <2>2. Long(c, ((j + 3) + 1) - j, Symbols) /\ Holds(text, j - 1, c, ((j + 3) + 1) - j)
    BY <2>1, CutOut
  <2>3. ((j + 3) + 1) - j = 4 /\ (j - 1) + 1 = j /\ (j - 1) + 2 = j + 1
        /\ (j - 1) + 3 = j + 2 /\ (j - 1) + 4 = j + 3
    BY <2>1
  <2>. HIDE DEF c
  <2>4. c \in Seq(Symbols) /\ Len(c) = 4
    BY <2>2, <2>3 DEF Long
  <2>5. c[1] = text[j] /\ c[2] = text[j + 1] /\ c[3] = text[j + 2] /\ c[4] = text[j + 3]
    <3>1. Holds(text, j - 1, c, 4)
      BY <2>2, <2>3
    <3>2. /\ text[(j - 1) + 1] = c[1] /\ text[(j - 1) + 2] = c[2]
          /\ text[(j - 1) + 3] = c[3] /\ text[(j - 1) + 4] = c[4]
      BY <3>1 DEF Holds
    <3>. QED BY <2>3, <3>2
  <2>6. z \in Seq(Symbols) /\ Len(z) = 4
    BY <1>2 DEF Long
  <2>7. ASSUME EmptyLineAt(j) PROVE c = z
    <3>1. c[1] = z[1] /\ c[2] = z[2] /\ c[3] = z[3] /\ c[4] = z[4]
      BY <1>2, <2>5, <2>7 DEF EmptyLineAt
    <3>2. \A p \in 1 .. 4 : p = 1 \/ p = 2 \/ p = 3 \/ p = 4
      OBVIOUS
    <3>3. \A p \in 1 .. Len(c) : c[p] = z[p]
      BY <2>4, <3>1, <3>2
    <3>. QED BY <2>4, <2>6, <3>3, SeqEqual
  <2>8. c = z => EmptyLineAt(j)
    BY <1>2, <2>5 DEF EmptyLineAt
  <2>. QED BY <2>7, <2>8 DEF c
<1>5. I = {j \in i .. n - 3 : SubSeq(text, j, j + 3) = CRLF \o CRLF}
  BY <1>3, <1>4
<1>. QED BY <1>5, Zenon DEF EmptyLine, n


-----------------------------------------------------------------------------
(* Which words stand where in the text of a request.                       *)

LEMMA Apart ==
  /\ \A w \in Words : w \notin {"SP", "?", "&", "=", ":", ".", "CR", "LF"}
  /\ {"SP", "?", "&", "=", ":", ".", "CR", "LF"} \cap Paths = {}
  /\ {"GET", "POST", "name", "age", "Host", "Content-Length", "HTTP/1.0"} \cap Paths = {}
  /\ {"name", "age", "Host", "Content-Length", "HTTP/1.0"} \subseteq Words
BY TextAssumption DEF Marks, Paths

\* A parameter's mark where there is none, and a path behind a blank where the
\* target is none, come from behind the first line.
InPlace(s, k) ==
  LET t == Text(s) IN
  /\ Len(s.query) = 0 /\ t[k] = "?" => "?" \in Behind(s)
  /\ s.target \notin Paths /\ t[k] \in Paths =>
       (k > 1 /\ t[k - 1] # "SP") \/ t[k] \in Behind(s)

LEMMA FirstLineWords ==
  ASSUME NEW s, RequestOK(s), NEW o, Layout(s, o), NEW k \in 1 .. 4 * Len(s.query) + 7
  PROVE  /\ InPlace(s, k)
         /\ Text(s)[k] = "LF" => k = 4 * Len(s.query) + 7
         /\ Text(s)[k] = "CR" => k = 4 * Len(s.query) + 6
<1>. DEFINE q == Len(s.query)   t == Text(s)
            Goal == InPlace(s, k) /\ (t[k] = "LF" => k = 4 * q + 7) /\ (t[k] = "CR" => k = 4 * q + 6)
<1>1. q \in Nat /\ FirstLine(s)
  BY DEF Layout
<1>2. /\ t[1] = s.method /\ t[2] = "SP" /\ t[3] = s.target
      /\ t[4 * q + 4] = "SP" /\ t[4 * q + 5] = "HTTP/1.0"
      /\ t[4 * q + 6] = "CR" /\ t[4 * q + 7] = "LF"
      /\ s.method \in Words /\ s.method \notin Paths /\ s.target \in Words
  BY <1>1 DEF FirstLine, RequestOK
<1>3. ASSUME NEW i \in 1 .. q
      PROVE  /\ t[4 * i] \in {"?", "&"} /\ t[4 * i + 1] \in {"name", "age"}
             /\ t[4 * i + 2] \in {"=", "&"} /\ t[4 * i + 3] \in Words \cup {"&"}
  <2>1. s.query[i] \in Pairs
    <3>1. s.query \in Seq(Pairs)
      BY DEF RequestOK
    <3>. QED BY <3>1, ElementOfSeq
  <2>2. /\ t[4 * i] = (IF i = 1 THEN "?" ELSE "&") /\ t[4 * i + 1] = s.query[i].name
        /\ t[4 * i + 2] = s.query[i].mark /\ t[4 * i + 3] = s.query[i].value
    BY <1>1 DEF FirstLine
  <2>. QED BY <2>1, <2>2 DEF Pairs
<1>. HIDE DEF t
<1>4. CASE k \in 4 .. 4 * q + 3
  <2>. DEFINE i == k \div 4   r == k % 4
  <2>1. i \in 1 .. q /\ r \in 0 .. 3 /\ k = 4 * i + r /\ q # 0
    <3>. HIDE DEF q
    <3>. QED BY <1>1, <1>4
  <2>. HIDE DEF i, r
  <2>2. /\ t[4 * i] \in {"?", "&"} /\ t[4 * i + 1] \in {"name", "age"}
        /\ t[4 * i + 2] \in {"=", "&"} /\ t[4 * i + 3] \in Words \cup {"&"}
    BY <1>3, <2>1
  <2>3. k > 1 /\ (r = 0 \/ r = 1 \/ r = 2 \/ r = 3)
    BY <2>1
  <2>4. /\ r = 0 => t[k] = t[4 * i]
        /\ r = 1 => t[k] = t[4 * i + 1]
        /\ r = 2 => t[k] = t[4 * i + 2]
        /\ r = 3 => t[k] = t[4 * i + 3] /\ t[k - 1] = t[4 * i + 2]
    <3>1. /\ r = 0 => k = 4 * i
          /\ r = 1 => k = 4 * i + 1
          /\ r = 2 => k = 4 * i + 2
          /\ r = 3 => k = 4 * i + 3 /\ k - 1 = 4 * i + 2
      BY <2>1
    <3>. QED BY <2>1, <3>1
  <2>5. t[k] # "LF" /\ t[k] # "CR"
    BY <2>2, <2>3, <2>4, Apart
  <2>6. t[k] \in Paths => r = 3
    BY <2>2, <2>3, <2>4, Apart
  <2>7. InPlace(s, k)
    BY <2>1, <2>2, <2>3, <2>4, <2>6 DEF InPlace, t
  <2>. QED BY <2>5, <2>7 DEF t
<1>5. CASE k \in 1 .. 3
  <2>1. k = 1 \/ k = 2 \/ k = 3
    BY <1>5
  <2>2. t[k] # "LF" /\ t[k] # "CR" /\ t[k] # "?"
    BY <1>2, <2>1, Apart
  <2>3. s.target \notin Paths => t[k] \notin Paths
    BY <1>2, <2>1, Apart
  <2>4. InPlace(s, k)
    BY <2>2, <2>3 DEF InPlace, t
  <2>. QED BY <2>2, <2>4 DEF t
<1>6. CASE k \in 4 * q + 4 .. 4 * q + 7
  <2>1. k = 4 * q + 4 \/ k = 4 * q + 5 \/ k = 4 * q + 6 \/ k = 4 * q + 7
    BY <1>1, <1>6
  <2>2. /\ t[k] # "?" /\ t[k] \notin Paths
        /\ (t[k] = "LF" => k = 4 * q + 7) /\ (t[k] = "CR" => k = 4 * q + 6)
    BY <1>2, <2>1, Apart
  <2>3. InPlace(s, k)
    BY <2>2 DEF InPlace, t
  <2>. QED BY <2>2, <2>3 DEF t
<1>7. k \in 1 .. 3 \/ k \in 4 .. 4 * q + 3 \/ k \in 4 * q + 4 .. 4 * q + 7
  BY <1>1
<1>. QED BY <1>4, <1>5, <1>6, <1>7

\* The values of headers.
LEMMA HeaderWords ==
  ASSUME NEW s, RequestOK(s), NEW i \in 1 .. Len(Headers(s))
  PROVE  /\ Headers(s)[i].name \in {"Host", "Content-Length"}
         /\ Headers(s)[i].value \in Lines
         /\ \A p \in 1 .. Len(Headers(s)[i].value) :
              LET w == Headers(s)[i].value[p] IN
              /\ w # "CR" /\ w # "LF"
              /\ w = "?" \/ w \in Paths => w \in Behind(s)
<1>. DEFINE h == Headers(s)[i]   v == h.value
<1>1. h \in HeaderPairs
  BY HeadersType, ElementOfSeq
<1>2. v \in Lines /\ v \in Seq(Symbols) /\ {"CR", "LF"} \cap ToSet(v) = {}
  BY <1>1 DEF HeaderPairs, Lines
<1>3. \A p \in 1 .. Len(v) : v[p] \in ToSet(v)
  BY <1>2, LenProperties DEF ToSet
<1>6. CASE i \in 1 .. Len(s.headers)
  <2>1. h = s.headers[i]
    BY <1>6, HeadersType DEF RequestOK
  <2>2. s.headers[i] \in ToSet(s.headers)
    <3>1. DOMAIN s.headers = 1 .. Len(s.headers)
      BY LenProperties DEF RequestOK
    <3>. QED BY <1>6, <3>1 DEF ToSet
  <2>3. ToSet(v) \subseteq Behind(s)
    BY <2>1, <2>2 DEF Behind
  <2>. QED BY <1>1, <1>2, <1>3, <2>3 DEF HeaderPairs
<1>7. CASE i \notin 1 .. Len(s.headers)
  <2>1. s.length # "none" /\ i = Len(s.headers) + 1
    <3>1. Len(s.headers) \in Nat
      BY LenProperties DEF RequestOK
    <3>2. s.length # "none"
      BY <1>7, HeadersType
    <3>3. i \in 1 .. Len(s.headers) + 1
      BY <3>2, HeadersType
    <3>. QED BY <1>7, <3>1, <3>2, <3>3
  <2>2. v = <<s.length>>
    <3>1. Headers(s)[Len(s.headers) + 1] =
            [name |-> "Content-Length", mark |-> ":", value |-> <<s.length>>]
      BY <2>1, HeadersType
    <3>2. Headers(s)[i] = [name |-> "Content-Length", mark |-> ":", value |-> <<s.length>>]
      BY <2>1, <3>1
    <3>. QED BY <3>2
  <2>3. s.length \in Words /\ s.length \notin Paths
    BY <2>1, TextAssumption DEF RequestOK
  <2>4. \A p \in 1 .. Len(v) : v[p] = s.length
    BY <2>2
  <2>. QED BY <1>1, <1>2, <2>3, <2>4, Apart DEF HeaderPairs
<1>. QED BY <1>6, <1>7


\* The header a place belongs to.
LEMMA HeaderOf ==
  ASSUME NEW n \in Nat, NEW o \in [0 .. n -> Nat], NEW k \in Nat, o[0] < k, k <= o[n]
  PROVE  \E i \in 1 .. n : o[i - 1] < k /\ k <= o[i]
<1>. DEFINE I == {i \in 0 .. n : k <= o[i]}
<1>1. I \subseteq Nat /\ n \in I
  OBVIOUS
<1>. DEFINE i == Min(I)
<1>2. i \in I /\ \A j \in I : i <= j
  <2>. HIDE DEF I
  <2>1. I # {}
    BY <1>1
  <2>. QED BY <1>1, <2>1, FirstPlace
<1>. HIDE DEF i
<1>3. i \in 0 .. n /\ k <= o[i] /\ o[i] \in Nat /\ o[0] \in Nat
  BY <1>2
<1>4. i # 0
  BY <1>3
<1>5. i \in 1 .. n /\ i - 1 \in 0 .. n /\ i - 1 \notin I
  BY <1>2, <1>3, <1>4
<1>6. o[i - 1] < k
  <2>1. o[i - 1] \in Nat /\ ~(k <= o[i - 1])
    BY <1>5
  <2>. QED BY <2>1
<1>. QED BY <1>3, <1>5, <1>6

LEMMA HeaderPartWords ==
  ASSUME NEW s, RequestOK(s), NEW o, Layout(s, o),
         NEW i \in 1 .. Len(Headers(s)), NEW k \in o[i - 1] + 1 .. o[i]
  PROVE  InPlace(s, k) /\ (Text(s)[k] = "CR" => k + 1 = o[i])
<1>. DEFINE h == Headers(s)[i]   v == h.value   l == Len(v)   t == Text(s)   b == o[i - 1]
            r == k - b
<1>1. /\ l \in Nat /\ t[b + 1] = h.name /\ t[b + 2] = h.mark /\ t[b + 3] = "SP"
      /\ Holds(t, b + 3, v, l) /\ t[b + l + 4] = "CR" /\ t[b + l + 5] = "LF"
      /\ o[i] = b + l + 5 /\ b \in Nat
  <2>1. HeaderAt(s, i, b) /\ o[i] = b + l + 5
    BY DEF Layout
  <2>2. b \in Nat
    <3>1. Len(Headers(s)) \in Nat /\ o \in [0 .. Len(Headers(s)) -> Nat]
      BY DEF Layout
    <3>2. i - 1 \in 0 .. Len(Headers(s))
      BY <3>1
    <3>. QED BY <3>1, <3>2
  <2>. HIDE DEF b
  <2>. QED BY <2>1, <2>2 DEF HeaderAt
<1>2. /\ h.name \in {"Host", "Content-Length"} /\ h.mark \in {":", "="}
      /\ \A p \in 1 .. l : /\ v[p] # "CR" /\ v[p] # "LF"
                           /\ v[p] = "?" \/ v[p] \in Paths => v[p] \in Behind(s)
  <2>1. h \in HeaderPairs
    BY HeadersType, ElementOfSeq
  <2>. QED BY <2>1, HeaderWords DEF HeaderPairs
<1>. HIDE DEF v, l, t, b, h
<1>3. k = b + r /\ r \in 1 .. l + 5
  <2>1. k \in b + 1 .. o[i]
    BY DEF b
  <2>. QED BY <1>1, <2>1
<1>. HIDE DEF r
<1>4. ASSUME NEW p \in 1 .. l, r = 3 + p
      PROVE  InPlace(s, k) /\ t[k] # "CR"
  <2>1. t[k] = v[p]
    <3>1. k = (b + 3) + p
      BY <1>1, <1>3, <1>4
    <3>. QED BY <1>1, <3>1 DEF Holds
  <2>. QED BY <1>2, <2>1 DEF InPlace, t
<1>5. ASSUME r \in {1, 2, 3, l + 4, l + 5}
      PROVE  InPlace(s, k) /\ (t[k] = "CR" => k + 1 = o[i])
  <2>1. /\ r = 1 => k = b + 1
        /\ r = 2 => k = b + 2
        /\ r = 3 => k = b + 3
        /\ r = l + 4 => k = b + l + 4
        /\ r = l + 5 => k = b + l + 5
    BY <1>1, <1>3
  <2>2. t[k] # "?" /\ t[k] \notin Paths
    BY <1>1, <1>2, <1>5, <2>1, Apart
  <2>3. t[k] = "CR" => k = b + l + 4
    BY <1>1, <1>2, <1>5, <2>1
  <2>4. t[k] = "CR" => k + 1 = o[i]
    BY <1>1, <2>3
  <2>. QED BY <2>2, <2>4 DEF InPlace, t
<1>6. r \in {1, 2, 3, l + 4, l + 5} \/ \E p \in 1 .. l : r = 3 + p
  <2>1. r \notin {1, 2, 3, l + 4, l + 5} => r - 3 \in 1 .. l /\ r = 3 + (r - 3)
    BY <1>1, <1>3
  <2>. QED BY <2>1
<1>. QED BY <1>4, <1>5, <1>6 DEF t

LEMMA RestWords ==
  ASSUME NEW s, RequestOK(s), NEW o, Layout(s, o),
         NEW k \in o[Len(Headers(s))] + 1 .. o[Len(Headers(s))] + 2 + Len(Rest(s))
  PROVE  InPlace(s, k)
<1>. DEFINE n == Len(Headers(s))   x == Rest(s)   r == Len(x)   l == Len(s.body)   t == Text(s)
<1>1. /\ r \in Nat /\ t[o[n] + 1] = "CR" /\ t[o[n] + 2] = "LF" /\ Holds(t, o[n] + 2, x, r)
      /\ o[n] \in Nat
  BY DEF Layout
<1>2. /\ l \in Nat /\ r = l + IF s.closed THEN 4 ELSE 0
      /\ \A p \in 1 .. l : x[p] = s.body[p]
      /\ s.closed => x[l + 1] = "CR" /\ x[l + 2] = "LF" /\ x[l + 3] = "CR" /\ x[l + 4] = "LF"
  BY RestType
<1>5. \A p \in 1 .. l : s.body[p] \in Behind(s)
  <2>1. DOMAIN s.body = 1 .. l
    BY LenProperties DEF RequestOK
  <2>2. \A p \in DOMAIN s.body : s.body[p] \in ToSet(s.body)
    BY DEF ToSet
  <2>. HIDE DEF l
  <2>. QED BY <2>1, <2>2 DEF Behind
<1>. HIDE DEF x, r, l, t, n
<1>6. ASSUME NEW w, w = t[k], w = "?" \/ w \in Paths => w \in Behind(s)
      PROVE  InPlace(s, k)
  BY <1>6 DEF InPlace, t
<1>7. CASE k = o[n] + 1 \/ k = o[n] + 2
  BY <1>1, <1>6, <1>7, Apart
<1>8. ASSUME NEW p \in 1 .. r, k = o[n] + 2 + p PROVE InPlace(s, k)
  <2>1. t[k] = x[p]
    BY <1>1, <1>8 DEF Holds
  <2>2. CASE p \in 1 .. l
    BY <1>2, <1>5, <1>6, <2>1, <2>2
  <2>3. CASE p \notin 1 .. l
    <3>1. s.closed /\ (p = l + 1 \/ p = l + 2 \/ p = l + 3 \/ p = l + 4)
      BY <1>2, <2>3
    <3>2. x[p] = "CR" \/ x[p] = "LF"
      BY <1>2, <3>1
    <3>. QED BY <1>6, <2>1, <3>2, Apart
  <2>. QED BY <2>2, <2>3
<1>9. \/ k = o[n] + 1 \/ k = o[n] + 2
      \/ k - (o[n] + 2) \in 1 .. r /\ k = o[n] + 2 + (k - (o[n] + 2))
  <2>1. k \in o[n] + 1 .. o[n] + 2 + r
    BY DEF n, r, x
  <2>2. PICK z \in Nat : z = o[n]
    BY <1>1
  <2>3. k \in z + 1 .. z + 2 + r
    BY <2>1, <2>2
  <2>4. \/ k = z + 1 \/ k = z + 2
        \/ k - (z + 2) \in 1 .. r /\ k = z + 2 + (k - (z + 2))
    BY <1>1, <2>3
  <2>. QED BY <2>2, <2>4
<1>. QED BY <1>7, <1>8, <1>9

LEMMA WordsInPlace ==
  ASSUME NEW s, RequestOK(s), NEW o, Layout(s, o)
  PROVE  /\ \A k \in 1 .. Len(Text(s)) : InPlace(s, k)
         /\ \A k \in 1 .. 4 * Len(s.query) + 6 : Text(s)[k] # "LF"
         /\ \A k \in 1 .. o[Len(Headers(s))] :
              Text(s)[k] = "CR" => \E i \in 0 .. Len(Headers(s)) : k + 1 = o[i]
<1>. DEFINE n == Len(Headers(s))   q == Len(s.query)
<1>1. /\ q \in Nat /\ n \in Nat /\ o \in [0 .. n -> Nat] /\ o[0] = 4 * q + 7
      /\ Len(Text(s)) = o[n] + 2 + Len(Rest(s)) /\ Len(Rest(s)) \in Nat
  BY DEF Layout, Long
<1>2. ASSUME NEW k \in 1 .. o[n]
      PROVE  InPlace(s, k) /\ (Text(s)[k] = "CR" => \E i \in 0 .. n : k + 1 = o[i])
  <2>1. CASE k <= o[0]
    <3>1. k \in 1 .. 4 * q + 7
      BY <1>1, <2>1
    <3>2. InPlace(s, k) /\ (Text(s)[k] = "CR" => k = 4 * q + 6)
      BY <3>1, FirstLineWords
    <3>3. k = 4 * q + 6 => k + 1 = o[0] /\ 0 \in 0 .. n
      BY <1>1
    <3>. QED BY <3>2, <3>3
  <2>2. CASE ~(k <= o[0])
    <3>1. o[0] < k /\ k \in Nat /\ k <= o[n]
      BY <1>1, <2>2
    <3>. HIDE DEF n
    <3>2. PICK i \in 1 .. n : o[i - 1] < k /\ k <= o[i]
      BY <1>1, <3>1, HeaderOf
    <3>3. o[i - 1] \in Nat /\ i \in 0 .. n
      BY <1>1
    <3>4. k \in o[i - 1] + 1 .. o[i] /\ i \in 1 .. Len(Headers(s))
      BY <3>1, <3>2, <3>3 DEF n
    <3>5. InPlace(s, k) /\ (Text(s)[k] = "CR" => k + 1 = o[i])
      BY <3>4, HeaderPartWords
    <3>. QED BY <3>3, <3>5
  <2>. QED BY <2>1, <2>2
<1>3. ASSUME NEW k \in 1 .. Len(Text(s)) PROVE InPlace(s, k)
  <2>1. CASE k \in 1 .. o[n]
    BY <1>2, <2>1
  <2>2. CASE k \notin 1 .. o[n]
    <3>1. k \in o[n] + 1 .. o[n] + 2 + Len(Rest(s))
      BY <1>1, <2>2
    <3>. QED BY <3>1, RestWords
  <2>. QED BY <2>1, <2>2
<1>4. ASSUME NEW k \in 1 .. 4 * q + 6 PROVE Text(s)[k] # "LF"
  <2>1. k \in 1 .. 4 * q + 7 /\ k # 4 * q + 7
    BY <1>1
  <2>. QED BY <2>1, FirstLineWords
<1>. QED BY <1>2, <1>3, <1>4


-----------------------------------------------------------------------------
(* Lists of pairs.                                                         *)

PairLists == Seq([name : Seq(Symbols), value : Seq(Symbols)])

LEMMA LookUpIs ==
  ASSUME NEW list, NEW x, NEW i \in Matches(list, x), Matches(list, x) \subseteq Nat,
         \A j \in Matches(list, x) : i <= j
  PROVE  LookUp(list, x) = list[i].value
<1>. DEFINE M == Matches(list, x)   c == CHOOSE k \in M : \A j \in M : k <= j
<1>1. c \in M /\ \A j \in M : c <= j
  <2>. HIDE DEF M
  <2>1. i \in M /\ \A j \in M : i <= j
    BY DEF M
  <2>. QED BY <2>1
<1>2. c <= i /\ i <= c /\ c \in Nat /\ i \in Nat
  BY <1>1
<1>3. c = i
  <2>. HIDE DEF c
  <2>. QED BY <1>2
<1>4. LookUp(list, x) = list[c].value
  BY DEF LookUp
<1>. HIDE DEF c
<1>. QED BY <1>3, <1>4

\* Add puts a pair in front of those that LookUp finds.
LEMMA AddLooksUp ==
  ASSUME NEW list \in PairLists, NEW a \in Seq(Symbols), NEW v \in Seq(Symbols)
  PROVE  /\ Add(list, a, v) \in PairLists
         /\ \A x : LookUp(Add(list, a, v), x) = IF x = a THEN v ELSE LookUp(list, x)
<1>. DEFINE S == [name : Seq(Symbols), value : Seq(Symbols)]
            p == [name |-> a, value |-> v]   u == <<p>>   w == Add(list, a, v)   n == Len(list)
<1>1. p \in S /\ p.name = a /\ p.value = v
  OBVIOUS
<1>. HIDE DEF p, S
<1>2. Long(u, 1, S) /\ u[1] = p
  BY <1>1, Singles
<1>3. Long(list, n, S) /\ n \in Nat
  BY LenProperties DEF PairLists, Long, S
<1>4. w = Join(u, list)
  BY DEF Add, Join, p
<1>. HIDE DEF u, w, n
<1>5. Long(w, 1 + n, S) /\ Holds(w, 0, u, 1) /\ Holds(w, 1, list, n)
  BY <1>2, <1>3, <1>4, Joined
<1>6. /\ w \in Seq(S) /\ DOMAIN w = 1 .. 1 + n /\ DOMAIN list = 1 .. n
      /\ w[1] = p /\ \A k \in 1 .. n : w[1 + k] = list[k]
  <2>1. w[0 + 1] = u[1]
    BY <1>5 DEF Holds
  <2>2. w \in Seq(S) /\ DOMAIN w = 1 .. 1 + n /\ DOMAIN list = 1 .. n
    BY <1>3, <1>5, LenProperties DEF Long
  <2>3. \A k \in 1 .. n : w[1 + k] = list[k]
    BY <1>5 DEF Holds
  <2>. QED BY <1>2, <2>1, <2>2, <2>3
<1>7. ASSUME NEW x PROVE LookUp(w, x) = IF x = a THEN v ELSE LookUp(list, x)
  <2>1. /\ Matches(w, x) = {i \in 1 .. 1 + n : w[i].name = x}
        /\ Matches(list, x) = {i \in 1 .. n : list[i].name = x}
    BY <1>6 DEF Matches
  <2>2. CASE x = a
    <3>1. 1 \in Matches(w, x) /\ Matches(w, x) \subseteq Nat /\ \A j \in Matches(w, x) : 1 <= j
      BY <1>1, <1>3, <1>6, <2>1, <2>2
    <3>2. LookUp(w, x) = w[1].value
      BY <3>1, LookUpIs
    <3>. QED BY <1>1, <1>6, <2>2, <3>2
  <2>3. CASE x # a
    <3>1. \A i \in Matches(w, x) : i - 1 \in Matches(list, x) /\ i = 1 + (i - 1)
      BY <1>1, <1>3, <1>6, <2>1, <2>3
    <3>2. \A i \in Matches(list, x) : 1 + i \in Matches(w, x)
      BY <1>3, <1>6, <2>1
    <3>3. CASE Matches(list, x) = {}
      <4>1. Matches(w, x) = {}
        BY <3>1, <3>3
      <4>. QED BY <2>3, <3>3, <4>1 DEF LookUp
    <3>4. CASE Matches(list, x) # {}
      <4>. DEFINE i == Min(Matches(list, x))
      <4>1. Matches(list, x) \subseteq Nat /\ Matches(w, x) \subseteq Nat
        BY <1>3, <2>1
      <4>2. i \in Matches(list, x) /\ \A j \in Matches(list, x) : i <= j
        BY <3>4, <4>1, FirstPlace
      <4>. HIDE DEF i
      <4>3. LookUp(list, x) = list[i].value
        BY <4>1, <4>2, LookUpIs
      <4>4. 1 + i \in Matches(w, x)
        BY <3>2, <4>2
      <4>5. \A j \in Matches(w, x) : 1 + i <= j
        <5>1. \A j \in Matches(w, x) : i <= j - 1 /\ j \in Nat
          BY <3>1, <4>1, <4>2
        <5>. QED BY <4>1, <4>2, <5>1
      <4>6. LookUp(w, x) = w[1 + i].value
        BY <4>1, <4>4, <4>5, LookUpIs
      <4>7. w[1 + i] = list[i]
        BY <1>6, <2>1, <4>2
      <4>. QED BY <2>3, <4>3, <4>6, <4>7
    <3>. QED BY <3>3, <3>4
  <2>. QED BY <2>2, <2>3
<1>8. w \in PairLists
  BY <1>6 DEF PairLists, S
<1>. QED BY <1>7, <1>8 DEF w

\* The list gives each name the last of the first i values that were sent with it.
Listed(list, names, values, i) ==
  /\ list \in PairLists
  /\ \A x : \/ LookUp(list, x) = NULL /\ \A j \in 1 .. i : names[j] # x
            \/ \E j \in 1 .. i : /\ LookUp(list, x) = values[j] /\ names[j] = x
                                 /\ \A k \in j + 1 .. i : names[k] # x

LEMMA ListedNone == \A names, values : Listed(<<>>, names, values, 0)
<1>1. <<>> \in PairLists
  BY EmptySeq DEF PairLists
<1>2. \A x : Matches(<<>>, x) = {}
  BY DEF Matches
<1>3. \A x : LookUp(<<>>, x) = NULL
  BY <1>2 DEF LookUp
<1>. QED BY <1>1, <1>3 DEF Listed

LEMMA ListedAdds ==
  ASSUME NEW list, NEW names, NEW values, NEW i \in Nat, Listed(list, names, values, i),
         NEW a \in Seq(Symbols), NEW v \in Seq(Symbols), names[i + 1] = a, values[i + 1] = v
  PROVE  Listed(Add(list, a, v), names, values, i + 1)
<1>. DEFINE w == Add(list, a, v)
<1>1. /\ w \in PairLists
      /\ \A x : LookUp(w, x) = IF x = a THEN v ELSE LookUp(list, x)
  BY AddLooksUp DEF Listed
<1>. HIDE DEF w
<1>2. ASSUME NEW x
      PROVE  \/ LookUp(w, x) = NULL /\ \A j \in 1 .. i + 1 : names[j] # x
             \/ \E j \in 1 .. i + 1 : /\ LookUp(w, x) = values[j] /\ names[j] = x
                                      /\ \A k \in j + 1 .. i + 1 : names[k] # x
  <2>1. \A j \in 1 .. i + 1 : j \in 1 .. i \/ j = i + 1
    OBVIOUS
  <2>2. CASE x = a
    <3>1. i + 1 \in 1 .. i + 1 /\ LookUp(w, x) = values[i + 1] /\ names[i + 1] = x
      BY <1>1, <2>2
    <3>2. \A k \in (i + 1) + 1 .. i + 1 : names[k] # x
      OBVIOUS
    <3>. QED BY <3>1, <3>2
  <2>3. CASE x # a /\ LookUp(list, x) = NULL /\ \A j \in 1 .. i : names[j] # x
    BY <1>1, <2>1, <2>3
  <2>4. ASSUME x # a, NEW j \in 1 .. i, LookUp(list, x) = values[j], names[j] = x,
               \A k \in j + 1 .. i : names[k] # x
        PROVE  \E l \in 1 .. i + 1 : /\ LookUp(w, x) = values[l] /\ names[l] = x
                                     /\ \A k \in l + 1 .. i + 1 : names[k] # x
    <3>1. \A k \in j + 1 .. i + 1 : k \in j + 1 .. i \/ k = i + 1
      OBVIOUS
    <3>2. j \in 1 .. i + 1 /\ LookUp(w, x) = values[j]
      BY <1>1, <2>4
    <3>3. \A k \in j + 1 .. i + 1 : names[k] # x
      BY <2>4, <3>1
    <3>. QED BY <2>4, <3>2, <3>3
  <2>. QED BY <2>2, <2>3, <2>4 DEF Listed
<1>. QED BY <1>1, <1>2 DEF Listed, w


-----------------------------------------------------------------------------
(* The parser on the part of a request that was read.                      *)

Ends(s) == CHOOSE o \in [0 .. Len(Headers(s)) -> Nat] : Layout(s, o)

Received ==
  /\ RequestOK(sent) /\ text \in Seq(Symbols)
  /\ Len(text) \in 1 .. Len(Text(sent))
  /\ \A k \in 1 .. Len(text) : text[k] = Text(sent)[k]

LEMMA ReceivedLayout ==
  ASSUME Received
  PROVE  /\ Layout(sent, Ends(sent)) /\ RequestOK(sent)
         /\ Len(text) \in Nat \ {0} /\ Len(sent.query) \in Nat /\ Len(Headers(sent)) \in Nat
         /\ Ends(sent) \in [0 .. Len(Headers(sent)) -> Nat]
<1>1. RequestOK(sent)
  BY DEF Received
<1>2. \E o \in [0 .. Len(Headers(sent)) -> Nat] : Layout(sent, o)
  BY <1>1, LayoutOf
<1>3. Layout(sent, Ends(sent))
  BY <1>2 DEF Ends
<1>4. Len(text) \in Nat \ {0}
  <2>1. Len(text) \in Nat
    BY LenProperties DEF Received
  <2>. QED BY <2>1 DEF Received
<1>. QED BY <1>1, <1>3, <1>4 DEF Layout

LEMMA SliceIs ==
  ASSUME text \in Seq(Symbols), NEW c \in Nat, NEW l \in Nat, c + l <= Len(text),
         NEW v, Long(v, l, Symbols), Holds(text, c, v, l)
  PROVE  SubSeq(text, c + 1, c + l) = v
<1>. DEFINE x == SubSeq(text, c + 1, c + l)
<1>1. c + 1 \in Nat \ {0} /\ c + l \in Nat /\ c + 1 <= (c + l) + 1
  OBVIOUS
<1>2. Long(x, ((c + l) + 1) - (c + 1), Symbols)
      /\ Holds(text, (c + 1) - 1, x, ((c + l) + 1) - (c + 1))
  BY <1>1, CutOut
<1>3. ((c + l) + 1) - (c + 1) = l /\ (c + 1) - 1 = c
  OBVIOUS
<1>. HIDE DEF x
<1>4. x \in Seq(Symbols) /\ v \in Seq(Symbols) /\ Len(x) = l /\ Len(v) = l
  BY <1>2, <1>3 DEF Long
<1>5. \A p \in 1 .. Len(x) : x[p] = v[p]
  BY <1>2, <1>3, <1>4 DEF Holds
<1>6. x = v
  BY <1>4, <1>5, SeqEqual
<1>. QED BY <1>6 DEF x

LEMMA OneWord ==
  ASSUME text \in Seq(Symbols), NEW k \in 1 .. Len(text)
  PROVE  SubSeq(text, k, k) = <<text[k]>>
<1>. DEFINE c == k - 1   v == <<text[k]>>
<1>1. Len(text) \in Nat /\ text[k] \in Symbols
  BY LenProperties, ElementOfSeq
<1>2. c \in Nat /\ c + 1 = k /\ c + 1 <= Len(text) /\ 1 \in Nat
  BY <1>1
<1>3. Long(v, 1, Symbols) /\ v[1] = text[k]
  BY <1>1, Singles
<1>. HIDE DEF c, v
<1>4. Holds(text, c, v, 1)
  <2>1. \A p \in 1 .. 1 : p = 1
    OBVIOUS
  <2>. QED BY <1>2, <1>3, <2>1 DEF Holds
<1>5. SubSeq(text, c + 1, c + 1) = v
  BY <1>2, <1>3, <1>4, SliceIs
<1>. QED BY <1>2, <1>5 DEF v

LEMMA MethodIsFirst ==
  ASSUME Received
  PROVE  1 \in Starts /\ Starts \subseteq 1 .. Len(text) /\ Min(Starts) = 1 /\ text[1] = sent.method
<1>1. Layout(sent, Ends(sent)) /\ Len(text) \in Nat \ {0}
  BY ReceivedLayout
<1>2. 1 \in 1 .. Len(text)
  BY <1>1
<1>3. text[1] = Text(sent)[1] /\ Text(sent)[1] = sent.method /\ sent.method \in Words
  BY <1>1, <1>2 DEF Received, Layout, FirstLine, RequestOK
<1>4. DOMAIN text = 1 .. Len(text)
  BY LenProperties DEF Received
<1>5. text[1] # "SP"
  BY <1>3, Apart
<1>6. 1 \in Starts /\ Starts \subseteq 1 .. Len(text)
  BY <1>2, <1>4, <1>5 DEF Starts
<1>7. Starts \subseteq Nat /\ \A j \in Starts : 1 <= j
  BY <1>1, <1>6
<1>8. Min(Starts) = 1
  BY <1>6, <1>7, FirstPlaceIs
<1>. QED BY <1>3, <1>6, <1>8

\* The target, or for one that is no path what begins with one from behind the
\* first line.
PathOK(s, path) ==
  IF s.target \in Paths THEN path = <<s.target>>
  ELSE path = Unknown \/ \E p \in Behind(s) \cap Paths : IsPrefix(<<p>>, path)

LEMMA PathFound ==
  ASSUME Received, Len(text) >= 3
  PROVE  LET paths == {i \in Starts : text[i] \in Paths} IN
         PathOK(sent, IF paths = {} THEN Unknown
                      ELSE SubSeq(text, Min(paths), NextOf(Min(paths), {"SP", "?"}) - 1))
<1>. DEFINE paths == {i \in Starts : text[i] \in Paths}   n == Len(text)   t == Text(sent)
<1>1. /\ Layout(sent, Ends(sent)) /\ RequestOK(sent) /\ n \in Nat \ {0} /\ Len(sent.query) \in Nat
  BY ReceivedLayout
<1>2. FirstLine(sent) /\ \A k \in 1 .. n : text[k] = t[k] /\ k \in 1 .. Len(t)
  <2>1. Len(t) \in Int
    BY <1>1, LenProperties DEF Layout, Long
  <2>. QED BY <1>1, <2>1 DEF Layout, Received
<1>3. /\ text[1] = sent.method /\ text[2] = "SP" /\ text[3] = sent.target
      /\ sent.method \notin Paths
  <2>1. 1 \in 1 .. n /\ 2 \in 1 .. n /\ 3 \in 1 .. n
    BY <1>1
  <2>. QED BY <1>1, <1>2, <2>1 DEF FirstLine, RequestOK
<1>4. Starts \subseteq 1 .. n
  BY MethodIsFirst
<1>5. CASE sent.target \in Paths
  <2>1. 3 \in paths
    <3>1. DOMAIN text = 1 .. n
      BY LenProperties DEF Received
    <3>2. 3 - 1 = 2 /\ 3 \in 1 .. n
      BY <1>1
    <3>3. text[3] # "SP"
      BY <1>3, <1>5, Apart
    <3>. QED BY <1>3, <1>5, <3>1, <3>2, <3>3 DEF Starts
  <2>2. paths \subseteq Nat /\ \A j \in paths : 3 <= j
    <3>1. 1 \notin paths /\ 2 \notin paths
      BY <1>3, Apart
    <3>2. \A j \in paths : j \in 1 .. n
      BY <1>4
    <3>. HIDE DEF paths
    <3>. QED BY <1>1, <3>1, <3>2
  <2>3. Min(paths) = 3
    <3>. HIDE DEF paths
    <3>. QED BY <2>1, <2>2, FirstPlaceIs
  <2>4. NextOf(3, {"SP", "?"}) = 4
    <3>1. n >= 4 => text[4] \in {"SP", "?"}
      <4>1. CASE Len(sent.query) = 0
        <5>1. 4 * Len(sent.query) + 4 = 4
          BY <4>1
        <5>. QED BY <1>1, <1>2, <5>1 DEF FirstLine
      <4>2. CASE Len(sent.query) # 0
        <5>1. 1 \in 1 .. Len(sent.query) /\ 4 * 1 = 4
          BY <1>1, <4>2
        <5>2. t[4] = "?"
          BY <1>2, <5>1 DEF FirstLine
        <5>. QED BY <1>1, <1>2, <5>2
      <4>. QED BY <4>1, <4>2
    <3>2. \A k \in 3 .. 4 - 1 : text[k] \notin {"SP", "?"}
      <4>1. \A k \in 3 .. 4 - 1 : k = 3
        OBVIOUS
      <4>. QED BY <1>3, <1>5, <4>1, Apart
    <3>3. 3 \in Nat \ {0} /\ 4 \in Nat /\ 3 <= 4 /\ text \in Seq(Symbols)
      BY DEF Received
    <3>4. NextOf(3, {"SP", "?"}) = IF 4 <= n THEN 4 ELSE n + 1
      <4>. HIDE DEF n
      <4>. QED BY <1>1, <3>1, <3>2, <3>3, NextIn DEF n
    <3>5. n = 3 \/ 4 <= n
      <4>1. n \in Nat /\ n >= 3
        BY <1>1
      <4>. HIDE DEF n
      <4>. QED BY <4>1
    <3>. QED BY <3>4, <3>5
  <2>5. SubSeq(text, 3, 4 - 1) = <<sent.target>>
    <3>1. 4 - 1 = 3 /\ 3 \in 1 .. Len(text) /\ text \in Seq(Symbols)
      BY <1>1 DEF Received
    <3>. QED BY <1>3, <3>1, OneWord
  <2>. QED BY <1>5, <2>1, <2>3, <2>4, <2>5 DEF PathOK
<1>6. CASE sent.target \notin Paths
  <2>. DEFINE found == SubSeq(text, Min(paths), NextOf(Min(paths), {"SP", "?"}) - 1)
  <2>. SUFFICES ASSUME paths # {}
                PROVE  \E p \in Behind(sent) \cap Paths : IsPrefix(<<p>>, found)
    BY <1>6 DEF PathOK
  <2>. DEFINE i == Min(paths)
  <2>1. i \in paths
    <3>1. \A k \in paths : k \in Starts
      OBVIOUS
    <3>. HIDE DEF paths
    <3>2. \A k \in Starts : k \in Nat
      BY <1>4
    <3>3. paths \subseteq Nat
      BY <3>1, <3>2
    <3>. QED BY <3>3, FirstPlace
  <2>2. i \in 1 .. n /\ text[i] \in Paths /\ (i = 1 \/ text[i - 1] = "SP")
    <3>. HIDE DEF i
    <3>. QED BY <1>4, <2>1 DEF Starts
  <2>. HIDE DEF i
  <2>3. text[i] \in Behind(sent)
    <3>2. i \in 1 .. Len(t) /\ text[i] = t[i]
      BY <1>2, <2>2
    <3>3. InPlace(sent, i)
      BY <1>1, <3>2, WordsInPlace
    <3>4. ASSUME i > 1, t[i - 1] # "SP" PROVE FALSE
      <4>1. i - 1 \in 1 .. n
        BY <1>1, <2>2, <3>4
      <4>. QED BY <1>2, <2>2, <3>4, <4>1
    <3>. QED BY <1>6, <2>2, <3>2, <3>3, <3>4 DEF InPlace
  <2>. DEFINE j == NextOf(i, {"SP", "?"})   p == text[i]
  <2>4. j \in i .. n + 1 /\ j >= i + 1
    <3>1. text \in Seq(Symbols) /\ i \in Nat \ {0} /\ i + 1 \in Nat /\ i <= n + 1 /\ i + 1 <= n + 1
      BY <1>1, <2>2 DEF Received
    <3>2. \A k \in i .. (i + 1) - 1 : text[k] \notin {"SP", "?"}
      <4>1. \A k \in i .. (i + 1) - 1 : k = i
        BY <3>1
      <4>. QED BY <2>2, <4>1, Apart
    <3>. QED BY <3>1, <3>2, NextRange
  <2>. HIDE DEF j
  <2>5. found = SubSeq(text, i, j - 1)
    BY DEF i, j
  <2>. HIDE DEF found, p
  <2>6. Long(SubSeq(text, i, j - 1), ((j - 1) + 1) - i, Symbols)
        /\ Holds(text, i - 1, SubSeq(text, i, j - 1), ((j - 1) + 1) - i)
    <3>1. i \in Nat \ {0} /\ j - 1 \in Nat /\ i <= (j - 1) + 1 /\ j - 1 <= Len(text)
      BY <1>1, <2>2, <2>4
    <3>. QED BY <3>1, CutOut DEF Received
  <2>7. IsPrefix(<<p>>, found)
    <3>1. Long(<<p>>, 1, Symbols) /\ <<p>>[1] = p
      <4>1. p \in Symbols
        BY <2>2, TextAssumption DEF p, Symbols
      <4>. QED BY <4>1, Singles
    <3>2. ((j - 1) + 1) - i \in Nat /\ 1 <= ((j - 1) + 1) - i /\ (i - 1) + 1 = i
      BY <2>2, <2>4
    <3>3. found \in Seq(Symbols) /\ 1 <= Len(found)
      BY <2>5, <2>6, <3>2 DEF Long
    <3>4. found[1] = p
      <4>1. 1 \in 1 .. ((j - 1) + 1) - i
        BY <3>2
      <4>2. text[(i - 1) + 1] = SubSeq(text, i, j - 1)[1]
        BY <2>6, <4>1 DEF Holds
      <4>. QED BY <2>5, <3>2, <4>2 DEF p
    <3>5. \A x \in 1 .. 1 : x = 1
      OBVIOUS
    <3>6. <<p>> \in Seq(Symbols) /\ Len(<<p>>) = 1
      BY <3>1 DEF Long
    <3>7. \A x \in 1 .. Len(<<p>>) : <<p>>[x] = found[x]
      BY <3>1, <3>4, <3>5, <3>6
    <3>. QED BY <3>3, <3>6, <3>7, PrefixIs
  <2>. QED BY <2>2, <2>3, <2>7 DEF p
<1>. QED BY <1>5, <1>6


\* Where GetQueries finds the first parameter, and GetHeaders the first header.
LEMMA QuestionFound ==
  ASSUME Received, ~StrayQuery(sent)
  PROVE  /\ "?" \in ToSet(text) =>
              /\ Len(sent.query) # 0 /\ Len(text) >= 4 /\ NextOf(1, {"?"}) = 4
         /\ "?" \notin ToSet(text) => Len(sent.query) = 0 \/ Len(text) < 4
<1>. DEFINE n == Len(text)   q == Len(sent.query)   t == Text(sent)
<1>1. Layout(sent, Ends(sent)) /\ RequestOK(sent) /\ n \in Nat \ {0} /\ q \in Nat
  BY ReceivedLayout
<1>2. FirstLine(sent) /\ text \in Seq(Symbols) /\ \A k \in 1 .. n : text[k] = t[k] /\ k \in 1 .. Len(t)
  <2>1. Len(t) \in Int
    BY <1>1, LenProperties DEF Layout, Long
  <2>. QED BY <1>1, <2>1 DEF Layout, Received
<1>3. \A x : x \in ToSet(text) <=> \E k \in 1 .. n : text[k] = x
  <2>1. DOMAIN text = 1 .. n
    BY <1>2, LenProperties
  <2>. QED BY <2>1 DEF ToSet
<1>4. q # 0 => t[4] = "?"
  <2>1. q # 0 => 1 \in 1 .. q /\ 4 * 1 = 4
    BY <1>1
  <2>. QED BY <1>2, <2>1 DEF FirstLine
<1>5. t[1] \in Words /\ t[2] = "SP" /\ t[3] \in Words
  BY <1>1, <1>2 DEF FirstLine, RequestOK
<1>6. \A k \in 1 .. 3 : k <= n => text[k] \notin {"?"}
  <2>1. \A k \in 1 .. 3 : k = 1 \/ k = 2 \/ k = 3
    OBVIOUS
  <2>2. \A k \in 1 .. 3 : k <= n => k \in 1 .. n
    BY <1>1
  <2>. QED BY <1>2, <1>5, <2>1, <2>2, Apart
<1>7. ASSUME "?" \in ToSet(text) PROVE q # 0 /\ n >= 4
  <2>1. PICK k \in 1 .. n : text[k] = "?"
    BY <1>3, <1>7
  <2>2. InPlace(sent, k)
    BY <1>1, <1>2, <2>1, WordsInPlace
  <2>3. t[k] = "?"
    BY <1>2, <2>1
  <2>4. q # 0
    <3>1. Len(sent.query) = 0 => sent.query = <<>>
      <4>1. sent.query \in Seq(Pairs)
        BY <1>1 DEF RequestOK
      <4>. QED BY <4>1, EmptySeq
    <3>. QED BY <2>2, <2>3, <3>1 DEF InPlace, StrayQuery
  <2>5. k \notin 1 .. 3
    BY <1>1, <1>6, <2>1
  <2>. HIDE DEF n
  <2>6. n >= 4
    BY <1>1, <2>1, <2>5
  <2>. QED BY <2>4, <2>6
<1>8. ASSUME q # 0, n >= 4 PROVE "?" \in ToSet(text) /\ NextOf(1, {"?"}) = 4
  <2>. HIDE DEF n
  <2>1. 4 \in 1 .. n /\ text[4] = "?"
    <3>1. 4 \in 1 .. n
      BY <1>1, <1>8
    <3>. QED BY <1>2, <1>4, <1>8, <3>1
  <2>2. \A k \in 1 .. 4 - 1 : k <= n => text[k] \notin {"?"}
    BY <1>6
  <2>3. 1 \in Nat \ {0} /\ 4 \in Nat /\ 1 <= 4 /\ 4 <= n
    BY <1>8
  <2>4. NextOf(1, {"?"}) = IF 4 <= n THEN 4 ELSE n + 1
    BY <1>2, <2>1, <2>2, <2>3, NextIn DEF n
  <2>. QED BY <1>3, <2>1, <2>3, <2>4
<1>9. q = 0 \/ n < 4 \/ (q # 0 /\ n >= 4)
  <2>. HIDE DEF n
  <2>. QED BY <1>1
<1>. QED BY <1>7, <1>8, <1>9

LEMMA LineFound ==
  ASSUME Received
  PROVE  NextOf(1, {"LF"}) =
           IF 4 * Len(sent.query) + 7 <= Len(text) THEN 4 * Len(sent.query) + 7 ELSE Len(text) + 1
<1>. DEFINE n == Len(text)   q == Len(sent.query)   t == Text(sent)   j == 4 * q + 7
<1>1. Layout(sent, Ends(sent)) /\ RequestOK(sent) /\ n \in Nat \ {0} /\ q \in Nat
  BY ReceivedLayout
<1>2. FirstLine(sent) /\ text \in Seq(Symbols) /\ \A k \in 1 .. n : text[k] = t[k]
  BY <1>1 DEF Layout, Received
<1>3. t[j] = "LF" /\ \A k \in 1 .. j - 1 : t[k] # "LF"
  <2>1. \A k \in 1 .. 4 * q + 6 : t[k] # "LF"
    BY <1>1, WordsInPlace
  <2>2. j - 1 = 4 * q + 6
    BY <1>1
  <2>. QED BY <1>2, <2>1, <2>2 DEF FirstLine
<1>4. j \in Nat /\ 1 <= j /\ 1 \in Nat \ {0}
  BY <1>1
<1>. HIDE DEF n, t, j
<1>5. j <= n => text[j] \in {"LF"}
  BY <1>1, <1>2, <1>3, <1>4
<1>6. \A k \in 1 .. j - 1 : k <= n => text[k] \notin {"LF"}
  BY <1>1, <1>2, <1>3, <1>4
<1>7. NextOf(1, {"LF"}) = IF j <= n THEN j ELSE n + 1
  BY <1>2, <1>4, <1>5, <1>6, NextIn DEF n
<1>. QED BY <1>7 DEF j, n


QNames(s) == [i \in 1 .. Len(s.query) |-> <<s.query[i].name>>]
QValues(s) == [i \in 1 .. Len(s.query) |-> ValueText(s.query[i].value)]
HNames(s) == [i \in 1 .. Len(Headers(s)) |-> <<Headers(s)[i].name>>]
HValues(s) == [i \in 1 .. Len(Headers(s)) |-> Headers(s)[i].value]

\* A round of AddsQuery at parameter i: one without '=' leads nowhere.
LEMMA QueryRound ==
  ASSUME Received, NEW i \in 1 .. Len(sent.query), ptr = 4 * i + 1, NEW n, n = Len(text),
         ptr <= n + 1
  PROVE  LET end == NextOf(ptr, {"&", "SP"})
             equals == NextOf(ptr, {"="})
             name == SubSeq(text, ptr, equals - 1)
             value == SubSeq(text, equals + 1, end - 1)
             last == IF sent.query[i].value = "&" THEN 4 * i + 3 ELSE 4 * i + 4
             next == IF i < Len(sent.query) THEN 4 * i + 5 ELSE 4 * i + 4
         IN /\ sent.query[i].mark = "&" =>
                 end \in ptr .. n + 1 /\ equals \in end .. n + 1 /\ (ptr = end => ptr = n + 1)
            /\ sent.query[i].mark = "=" =>
                 /\ end = IF last <= n THEN last ELSE n + 1
                 /\ equals = IF 4 * i + 2 <= n THEN 4 * i + 2 ELSE n + 1
                 /\ After(end, "&") = IF next <= n THEN next ELSE n + 1
                 /\ 4 * i + 4 <= n =>
                      /\ name = QNames(sent)[i] /\ value = QValues(sent)[i]
                      /\ name \in Seq(Symbols) /\ value \in Seq(Symbols)
<1>. DEFINE q == Len(sent.query)   t == Text(sent)   a == 4 * i + 1   b == 4 * i + 2
            c == 4 * i + 3   d == 4 * i + 4   f == 4 * i + 5
            x == sent.query[i].name   u == sent.query[i].mark   v == sent.query[i].value
            e == IF v = "&" THEN c ELSE d   g == IF i < q THEN f ELSE d
            end == NextOf(ptr, {"&", "SP"})   equals == NextOf(ptr, {"="})
<1>1. Layout(sent, Ends(sent)) /\ RequestOK(sent) /\ n \in Nat \ {0} /\ q \in Nat
  BY ReceivedLayout
<1>2. FirstLine(sent) /\ text \in Seq(Symbols) /\ \A k \in 1 .. n : text[k] = t[k]
  BY <1>1 DEF Layout, Received
<1>3. /\ t[a] = x /\ t[b] = u /\ t[c] = v /\ x \in Words /\ u \in {"=", "&"}
      /\ v \in Words \cup {"&"}
  <2>1. sent.query[i] \in Pairs
    <3>1. sent.query \in Seq(Pairs)
      BY <1>1 DEF RequestOK
    <3>. QED BY <3>1, ElementOfSeq
  <2>2. t[a] = x /\ t[b] = u /\ t[c] = v
    BY <1>2 DEF FirstLine
  <2>. QED BY <2>1, <2>2, Apart DEF Pairs
<1>4. t[d] = (IF i < q THEN "&" ELSE "SP") /\ (i < q => t[f] \in Words)
  <2>1. CASE i < q
    <3>1. i + 1 \in 1 .. q /\ i + 1 # 1 /\ 4 * (i + 1) = d /\ 4 * (i + 1) + 1 = f
      BY <1>1, <2>1
    <3>2. t[4 * (i + 1)] = (IF i + 1 = 1 THEN "?" ELSE "&")
          /\ t[4 * (i + 1) + 1] = sent.query[i + 1].name
      BY <1>2, <3>1 DEF FirstLine
    <3>3. sent.query[i + 1] \in Pairs
      <4>1. sent.query \in Seq(Pairs)
        BY <1>1 DEF RequestOK
      <4>. QED BY <3>1, <4>1, ElementOfSeq
    <3>4. sent.query[i + 1].name \in Words
      BY <3>3, Apart DEF Pairs
    <3>. QED BY <2>1, <3>1, <3>2, <3>4
  <2>2. CASE ~(i < q)
    <3>1. d = 4 * q + 4
      BY <1>1, <2>2
    <3>. QED BY <1>2, <2>2, <3>1 DEF FirstLine
  <2>. QED BY <2>1, <2>2
<1>5. /\ a \in Nat \ {0} /\ b = a + 1 /\ c = a + 2 /\ d = a + 3 /\ f = a + 4
      /\ b \in Nat \ {0} /\ c \in Nat \ {0} /\ d \in Nat \ {0} /\ f \in Nat \ {0}
      /\ a <= b /\ a <= d /\ ptr = a
  BY <1>1
<1>. HIDE DEF q, t, a, b, c, d, f, x, u, v
<1>6. /\ a <= n => text[a] = x
      /\ b <= n => text[b] = u
      /\ c <= n => text[c] = v
      /\ d <= n => text[d] = IF i < q THEN "&" ELSE "SP"
      /\ f <= n /\ i < q => text[f] \in Words
  <2>1. /\ a <= n => a \in 1 .. n
        /\ b <= n => b \in 1 .. n
        /\ c <= n => c \in 1 .. n
        /\ d <= n => d \in 1 .. n
        /\ f <= n => f \in 1 .. n
    BY <1>1, <1>5
  <2>. QED BY <1>2, <1>3, <1>4, <2>1
<1>7. ASSUME u = "&"
      PROVE  end \in ptr .. n + 1 /\ equals \in end .. n + 1 /\ (ptr = end => ptr = n + 1)
  <2>1. end = IF b <= n THEN b ELSE n + 1
    <3>1. \A k \in a .. b - 1 : k <= n => text[k] \notin {"&", "SP"}
      <4>1. \A k \in a .. b - 1 : k = a
        BY <1>5
      <4>. QED BY <1>3, <1>6, <4>1, Apart
    <3>2. b <= n => text[b] \in {"&", "SP"}
      BY <1>6, <1>7
    <3>. QED BY <1>2, <1>5, <3>1, <3>2, NextIn
  <2>. HIDE DEF end
  <2>2. end \in Nat /\ end <= n + 1 /\ end >= a /\ end <= b
    BY <1>1, <1>5, <2>1
  <2>3. \A k \in a .. end - 1 : text[k] \notin {"="}
    <3>1. \A k \in a .. end - 1 : k = a /\ k <= n
      BY <1>1, <1>5, <2>2
    <3>. QED BY <1>3, <1>6, <3>1, Apart
  <2>4. equals \in ptr .. n + 1 /\ equals >= end
    <3>1. ptr \in Nat \ {0} /\ ptr <= n + 1 /\ ptr = a
      BY <1>5
    <3>. QED BY <1>2, <2>2, <2>3, <3>1, NextRange
  <2>. HIDE DEF equals
  <2>. QED BY <1>1, <1>5, <2>1, <2>2, <2>4
<1>. DEFINE next == After(end, "&")
<1>8. ASSUME u = "="
      PROVE  /\ end = (IF e <= n THEN e ELSE n + 1) /\ equals = (IF b <= n THEN b ELSE n + 1)
             /\ next = IF g <= n THEN g ELSE n + 1
  <2>0. e \in Nat \ {0} /\ g \in Nat \ {0} /\ a <= e /\ e <= g /\ e \in {c, d} /\ g \in {d, f}
    BY <1>5
  <2>1. end = IF e <= n THEN e ELSE n + 1
    <3>1. \A k \in a .. e - 1 : k = a \/ k = b \/ (k = c /\ v # "&")
      BY <1>5
    <3>2. \A k \in a .. e - 1 : k <= n => text[k] \notin {"&", "SP"}
      BY <1>3, <1>6, <1>8, <3>1, Apart
    <3>3. e <= n => text[e] \in {"&", "SP"}
      BY <1>6
    <3>4. text \in Seq(Symbols) /\ a \in Nat \ {0} /\ e \in Nat /\ a <= e
      BY <1>2, <1>5, <2>0
    <3>. HIDE DEF e
    <3>5. NextOf(a, {"&", "SP"}) = IF e <= n THEN e ELSE n + 1
      BY <3>2, <3>3, <3>4, NextIn
    <3>. QED BY <1>5, <3>5
  <2>2. equals = IF b <= n THEN b ELSE n + 1
    <3>1. \A k \in a .. b - 1 : k <= n => text[k] \notin {"="}
      <4>1. \A k \in a .. b - 1 : k = a
        BY <1>5
      <4>. QED BY <1>3, <1>6, <4>1, Apart
    <3>2. b <= n => text[b] \in {"="}
      BY <1>6, <1>8
    <3>. QED BY <1>2, <1>5, <3>1, <3>2, NextIn
  <2>. HIDE DEF end
  <2>3. next = IF g <= n THEN g ELSE n + 1
    <3>1. CASE e <= n
      <4>1. \A k \in e .. g - 1 : k <= n => text[k] = "&"
        <5>1. \A k \in e .. g - 1 : (k = c /\ v = "&") \/ (k = d /\ i < q)
          BY <1>5
        <5>. QED BY <1>6, <5>1
      <4>2. g <= n => text[g] # "&"
        BY <1>6, Apart
      <4>. HIDE DEF e, g
      <4>. QED BY <1>2, <2>0, <2>1, <3>1, <4>1, <4>2, AfterIn
    <3>2. CASE ~(e <= n)
      <4>. DEFINE j == n + 1
      <4>1. j \in Nat \ {0} /\ j \in Nat /\ j <= j /\ ~(j <= n) /\ ~(g <= n)
            /\ \A k \in j .. j - 1 : FALSE
        BY <1>1, <2>0, <3>2
      <4>. HIDE DEF e, g, j
      <4>2. After(j, "&") = IF j <= n THEN j ELSE n + 1
        BY <1>2, <4>1, AfterIn
      <4>. QED BY <2>1, <3>2, <4>1, <4>2 DEF j
    <3>. QED BY <3>1, <3>2
  <2>. QED BY <2>1, <2>2, <2>3
<1>9. ASSUME u = "=", d <= n
      PROVE  SubSeq(text, ptr, equals - 1) = <<x>> /\ SubSeq(text, equals + 1, end - 1) = ValueText(v)
  <2>1. /\ b <= n /\ e <= n /\ end = e /\ equals = b /\ b - 1 = a /\ b + 1 = c
        /\ a \in 1 .. n /\ c \in 1 .. n
    BY <1>1, <1>5, <1>8, <1>9
  <2>. HIDE DEF end, equals
  <2>2. SubSeq(text, a, a) = <<x>> /\ SubSeq(text, c, c) = <<v>>
    <3>1. text[a] = x /\ text[c] = v
      BY <1>1, <1>6, <2>1
    <3>. QED BY <1>2, <2>1, <3>1, OneWord
  <2>3. CASE v = "&"
    <3>1. end - 1 = b /\ b < c /\ b \in Int /\ c \in Int
      BY <1>5, <2>1, <2>3
    <3>2. SubSeq(text, c, b) = <<>>
      BY <3>1, SubSeqEmpty
    <3>. QED BY <1>5, <2>1, <2>2, <2>3, <3>1, <3>2 DEF ValueText
  <2>4. CASE v # "&"
    <3>1. end - 1 = c
      BY <1>5, <2>1, <2>4
    <3>. QED BY <1>5, <2>1, <2>2, <2>4, <3>1 DEF ValueText
  <2>. QED BY <2>3, <2>4
<1>10. QNames(sent)[i] = <<x>> /\ QValues(sent)[i] = ValueText(v)
  BY DEF QNames, QValues, x, v
<1>11. <<x>> \in Seq(Symbols) /\ ValueText(v) \in Seq(Symbols)
  <2>1. x \in Symbols /\ (v # "&" => v \in Symbols)
    BY <1>3 DEF Symbols
  <2>2. v # "&" => <<v>> \in Seq(Symbols)
    BY <2>1, ShortTexts
  <2>. QED BY <2>1, <2>2, ShortTexts, EmptySeq DEF ValueText
<1>12. ASSUME u = "=", d <= n
       PROVE  LET name == SubSeq(text, ptr, equals - 1)
                  value == SubSeq(text, equals + 1, end - 1)
              IN /\ name = QNames(sent)[i] /\ value = QValues(sent)[i]
                 /\ name \in Seq(Symbols) /\ value \in Seq(Symbols)
  <2>. DEFINE name == SubSeq(text, ptr, equals - 1)
              value == SubSeq(text, equals + 1, end - 1)
  <2>1. name = <<x>> /\ value = ValueText(v)
    BY <1>9, <1>12
  <2>. HIDE DEF name, value, end
  <2>2. name = QNames(sent)[i] /\ value = QValues(sent)[i]
    BY <1>10, <2>1
  <2>3. name \in Seq(Symbols) /\ value \in Seq(Symbols)
    BY <1>11, <2>1
  <2>. QED BY <2>2, <2>3 DEF name, value
<1>. HIDE DEF end, equals
<1>. QED BY <1>7, <1>8, <1>12 DEF a, b, c, d, e, f, g, q, u, v, end, equals, next

\* What stands at header i in the part that was read.
HeaderSeen(i, b, l) ==
  LET n == Len(text)  h == Headers(sent)[i] IN
  /\ b \in Nat /\ l \in Nat /\ n \in Nat \ {0} /\ Ends(sent)[i] = b + l + 5
  /\ h.name \in {"Host", "Content-Length"} /\ Long(h.value, l, Symbols)
  /\ \A p \in 1 .. l : h.value[p] \notin {"CR", "LF"}
  /\ l # 0 => h.value[1] # "SP"
  /\ b + 1 <= n => text[b + 1] = h.name
  /\ b + 2 <= n => text[b + 2] = h.mark
  /\ b + 3 <= n => text[b + 3] = "SP"
  /\ \A p \in 1 .. l : b + 3 + p <= n => text[b + 3 + p] = h.value[p]
  /\ b + l + 4 <= n => text[b + l + 4] = "CR"
  /\ b + l + 5 <= n => text[b + l + 5] = "LF"

LEMMA SeesHeader ==
  ASSUME Received, NEW i \in 1 .. Len(Headers(sent))
  PROVE  HeaderSeen(i, Ends(sent)[i - 1], Len(Headers(sent)[i].value))
<1>. DEFINE n == Len(text)   h == Headers(sent)[i]   v == h.value   l == Len(v)
            t == Text(sent)   o == Ends(sent)   b == o[i - 1]
<1>1. /\ Layout(sent, o) /\ RequestOK(sent) /\ n \in Nat \ {0} /\ Len(Headers(sent)) \in Nat
      /\ o \in [0 .. Len(Headers(sent)) -> Nat]
  BY ReceivedLayout
<1>2. text \in Seq(Symbols) /\ \A k \in 1 .. n : text[k] = t[k]
  BY <1>1 DEF Received
<1>3. o[i] = b + l + 5 /\ HeaderAt(sent, i, b)
  BY <1>1 DEF Layout
<1>4. b \in Nat /\ i \in 0 .. Len(Headers(sent)) /\ i - 1 \in 0 .. Len(Headers(sent))
  <2>1. i \in 0 .. Len(Headers(sent)) /\ i - 1 \in 0 .. Len(Headers(sent))
    BY <1>1
  <2>. QED BY <1>1, <2>1
<1>5. /\ h.name \in {"Host", "Content-Length"} /\ v \in Lines
      /\ \A p \in 1 .. l : v[p] # "CR" /\ v[p] # "LF"
  BY <1>1, HeaderWords
<1>6. Long(v, l, Symbols) /\ (l # 0 => v[1] # "SP")
  <2>1. v \in Seq(Symbols) /\ (v # <<>> => v[1] # "SP")
    BY <1>5 DEF Lines
  <2>2. l # 0 => v # <<>>
    BY EmptySeq
  <2>. QED BY <2>1, <2>2 DEF Long
<1>7. /\ l \in Nat /\ t[b + 1] = h.name /\ t[b + 2] = h.mark /\ t[b + 3] = "SP"
      /\ Holds(t, b + 3, v, l) /\ t[b + l + 4] = "CR" /\ t[b + l + 5] = "LF"
  BY <1>3 DEF HeaderAt
<1>8. \A p \in 1 .. l : t[b + 3 + p] = v[p]
  BY <1>7 DEF Holds
<1>. HIDE DEF n, t, l, b, v, o, h
<1>9. \A k \in Nat : k >= 1 /\ k <= n => text[k] = t[k]
  <2>1. \A k \in Nat : k >= 1 /\ k <= n => k \in 1 .. n
    BY <1>1
  <2>. QED BY <1>2, <2>1
<1>10. /\ \A c \in 1 .. 5 : b + c \in Nat /\ b + c >= 1 /\ b + l + c \in Nat /\ b + l + c >= 1
       /\ \A p \in 1 .. l : b + 3 + p \in Nat /\ b + 3 + p >= 1
  BY <1>4, <1>7
<1>11. 1 \in 1 .. 5 /\ 2 \in 1 .. 5 /\ 3 \in 1 .. 5 /\ 4 \in 1 .. 5 /\ 5 \in 1 .. 5
  OBVIOUS
<1>12. /\ b + 1 <= n => text[b + 1] = h.name
       /\ b + 2 <= n => text[b + 2] = h.mark
       /\ b + 3 <= n => text[b + 3] = "SP"
  BY <1>7, <1>9, <1>10, <1>11
<1>13. /\ b + l + 4 <= n => text[b + l + 4] = "CR"
       /\ b + l + 5 <= n => text[b + l + 5] = "LF"
  BY <1>7, <1>9, <1>10, <1>11
<1>14. \A p \in 1 .. l : b + 3 + p <= n => text[b + 3 + p] = v[p]
  BY <1>8, <1>9, <1>10
<1>15. /\ b \in Nat /\ l \in Nat /\ n \in Nat \ {0} /\ o[i] = b + l + 5
       /\ \A p \in 1 .. l : v[p] \notin {"CR", "LF"}
  BY <1>1, <1>3, <1>4, <1>5, <1>7
<1>. QED BY <1>5, <1>6, <1>12, <1>13, <1>14, <1>15 DEF HeaderSeen, n, h, v, l, o, b

\* A round of AddsHeader at a header with its ':'.
LEMMA HeaderRound ==
  ASSUME Received, NEW i \in 1 .. Len(Headers(sent)), NEW b \in Nat, NEW l \in Nat,
         Headers(sent)[i].mark = ":", HeaderSeen(i, b, l), ptr = b + 1, NEW n \in Nat \ {0}, n = Len(text), ptr <= n
  PROVE  LET colon == NextOf(ptr, {":"})
             value == After(colon + 1, "SP")
             end == NextOf(value, {"CR", "LF"})
         IN /\ ~AtEmptyLine
            /\ colon = IF b + 2 <= n THEN b + 2 ELSE n + 1
            /\ b + 2 <= n => end = IF b + l + 4 <= n THEN b + l + 4 ELSE n + 1
            /\ b + l + 4 <= n => /\ SubSeq(text, ptr, colon - 1) = HNames(sent)[i]
                                 /\ SubSeq(text, value, end - 1) = HValues(sent)[i]
                                 /\ HNames(sent)[i] \in Seq(Symbols)
                                 /\ HValues(sent)[i] \in Seq(Symbols)
<1>. DEFINE colon == NextOf(ptr, {":"})
            value == After(colon + 1, "SP")
            end == NextOf(value, {"CR", "LF"})
            h == Headers(sent)[i]   v == h.value   e == b + l + 4
<1>2. /\ h.name \in {"Host", "Content-Length"} /\ Long(v, l, Symbols)
      /\ \A p \in 1 .. l : v[p] \notin {"CR", "LF"}
      /\ l # 0 => v[1] # "SP"
  BY DEF HeaderSeen
<1>3. /\ b + 1 <= n => text[b + 1] = h.name
      /\ b + 2 <= n => text[b + 2] = ":"
      /\ b + 3 <= n => text[b + 3] = "SP"
      /\ e <= n => text[e] = "CR"
      /\ \A p \in 1 .. l : b + 3 + p <= n => text[b + 3 + p] = v[p]
  BY DEF HeaderSeen
<1>4. text \in Seq(Symbols)
  BY DEF Received
<1>5. h.name \in Words /\ h.name \notin {":", "CR"}
  BY <1>2, Apart
<1>. HIDE DEF h, v
<1>6. ~AtEmptyLine
  <2>1. At(ptr) = h.name
    BY <1>3 DEF At
  <2>2. At(ptr + 1) = ":" \/ At(ptr + 1) = "NUL"
    <3>1. ptr + 1 = b + 2
      BY <1>2
    <3>. QED BY <1>3, <3>1 DEF At
  <2>. QED BY <1>5, <2>1, <2>2 DEF AtEmptyLine
<1>7. colon = IF b + 2 <= n THEN b + 2 ELSE n + 1
  <2>1. ptr \in Nat \ {0} /\ b + 2 \in Nat /\ ptr <= b + 2
    OBVIOUS
  <2>2. \A k \in ptr .. (b + 2) - 1 : k <= n => text[k] \notin {":"}
    <3>1. \A k \in ptr .. (b + 2) - 1 : k = b + 1
      OBVIOUS
    <3>. QED BY <1>3, <1>5, <3>1
  <2>3. b + 2 <= n => text[b + 2] \in {":"}
    BY <1>3
  <2>. QED BY <1>4, <2>1, <2>2, <2>3, NextIn
<1>. HIDE DEF colon, e
<1>8. ASSUME b + 2 <= n
      PROVE  value = IF b + 4 <= n THEN b + 4 ELSE n + 1
  <2>1. colon = b + 2 /\ colon + 1 = b + 3 /\ b + 3 \in Nat \ {0} /\ b + 4 \in Nat /\ b + 3 <= b + 4
    BY <1>7, <1>8
  <2>2. \A k \in b + 3 .. (b + 4) - 1 : k <= n => text[k] = "SP"
    <3>1. \A k \in b + 3 .. (b + 4) - 1 : k = b + 3
      BY <1>2
    <3>. QED BY <1>3, <3>1
  <2>3. b + 4 <= n => text[b + 4] # "SP"
    <3>1. CASE l = 0
      <4>1. e = b + 4
        BY <1>2, <3>1 DEF e
      <4>. QED BY <1>3, <4>1
    <3>2. CASE l # 0
      <4>1. 1 \in 1 .. l /\ b + 3 + 1 = b + 4
        BY <1>2, <3>2
      <4>2. b + 4 <= n => text[b + 4] = v[1]
        BY <1>3, <4>1
      <4>. QED BY <1>2, <3>2, <4>2
    <3>. QED BY <3>1, <3>2
  <2>4. After(b + 3, "SP") = IF b + 4 <= n THEN b + 4 ELSE n + 1
    BY <1>4, <2>1, <2>2, <2>3, AfterIn
  <2>. QED BY <2>1, <2>4
<1>. HIDE DEF value
<1>9. ASSUME b + 4 <= n, value = b + 4
      PROVE  end = IF e <= n THEN e ELSE n + 1
  <2>1. b + 4 \in Nat \ {0} /\ e \in Nat /\ b + 4 <= e
    BY DEF e
  <2>2. \A k \in b + 4 .. e - 1 : k <= n => text[k] \notin {"CR", "LF"}
    <3>1. ASSUME NEW k \in b + 4 .. e - 1, k <= n PROVE text[k] \notin {"CR", "LF"}
      <4>. DEFINE p == k - (b + 3)
      <4>1. p \in 1 .. l /\ b + 3 + p = k
        BY DEF e
      <4>. HIDE DEF p
      <4>. QED BY <1>2, <1>3, <3>1, <4>1
    <3>. QED BY <3>1
  <2>3. e <= n => text[e] \in {"CR", "LF"}
    BY <1>3
  <2>4. NextOf(b + 4, {"CR", "LF"}) = IF e <= n THEN e ELSE n + 1
    <3>. HIDE DEF e
    <3>. QED BY <1>4, <2>1, <2>2, <2>3, NextIn
  <2>. QED BY <1>9, <2>4
<1>10. ASSUME value = n + 1
       PROVE  end = n + 1
  <2>1. n + 1 \in Nat \ {0} /\ n + 1 \in Nat /\ n + 1 <= n + 1 /\ ~(n + 1 <= n)
    BY <1>2
  <2>2. \A k \in n + 1 .. (n + 1) - 1 : k <= n => text[k] \notin {"CR", "LF"}
    BY <1>2
  <2>3. NextOf(n + 1, {"CR", "LF"}) = IF n + 1 <= n THEN n + 1 ELSE n + 1
    BY <1>4, <2>1, <2>2, NextIn
  <2>. QED BY <1>10, <2>1, <2>3
<1>11. ASSUME b + 2 <= n
       PROVE  end = IF e <= n THEN e ELSE n + 1
  <2>1. CASE b + 4 <= n
    <3>1. value = b + 4
      BY <1>8, <1>11, <2>1
    <3>. QED BY <1>9, <2>1, <3>1
  <2>2. CASE ~(b + 4 <= n)
    <3>1. value = n + 1
      BY <1>8, <1>11, <2>2
    <3>2. ~(e <= n)
      BY <1>2, <2>2 DEF e
    <3>. QED BY <1>10, <3>1, <3>2
  <2>. QED BY <2>1, <2>2
<1>. HIDE DEF end
<1>12. ASSUME e <= n
       PROVE  /\ SubSeq(text, ptr, colon - 1) = <<h.name>>
              /\ SubSeq(text, value, end - 1) = v
  <2>1. /\ b + 2 <= n /\ b + 4 <= n /\ e - 1 = b + 3 + l /\ b + 3 + l <= n
        /\ b + 3 \in Nat /\ (b + 3) + 1 = b + 4 /\ (b + 3) + l <= n /\ (b + 3) + l = b + 3 + l
    BY <1>12 DEF e
  <2>2. colon - 1 = ptr /\ value = (b + 3) + 1 /\ end - 1 = (b + 3) + l
    <3>1. colon = b + 2 /\ value = b + 4 /\ end = e
      BY <1>7, <1>8, <1>11, <1>12, <2>1
    <3>2. (b + 2) - 1 = b + 1
      BY <1>2
    <3>. QED BY <2>1, <3>1, <3>2
  <2>3. SubSeq(text, ptr, ptr) = <<h.name>>
    <3>1. ptr \in 1 .. n
      BY <1>2
    <3>2. text[ptr] = h.name
      BY <1>3
    <3>. QED BY <1>4, <3>1, <3>2, OneWord
  <2>4. Holds(text, b + 3, v, l)
    <3>1. \A p \in 1 .. l : b + 3 + p <= n
      BY <2>1
    <3>. QED BY <1>3, <3>1 DEF Holds
  <2>5. SubSeq(text, (b + 3) + 1, (b + 3) + l) = v
    BY <1>2, <1>4, <2>1, <2>4, SliceIs
  <2>. QED BY <2>2, <2>3, <2>5
<1>13. HNames(sent)[i] = <<h.name>> /\ HValues(sent)[i] = v
  BY DEF HNames, HValues, h, v
<1>14. <<h.name>> \in Seq(Symbols) /\ v \in Seq(Symbols)
  <2>1. h.name \in Symbols
    BY <1>5 DEF Symbols
  <2>. QED BY <1>2, <2>1, ShortTexts DEF Long
<1>15. e <= n => /\ SubSeq(text, ptr, colon - 1) = HNames(sent)[i]
                 /\ SubSeq(text, value, end - 1) = HValues(sent)[i]
                 /\ HNames(sent)[i] \in Seq(Symbols) /\ HValues(sent)[i] \in Seq(Symbols)
  BY <1>12, <1>13, <1>14
<1>. QED BY <1>6, <1>7, <1>11, <1>15 DEF e, colon, value, end

LEMMA EndsGrow ==
  ASSUME Received
  PROVE  LET o == Ends(sent)  m == Len(Headers(sent)) IN
         /\ o[0] = 4 * Len(sent.query) + 7 /\ o[m] \in Nat
         /\ \A i \in 0 .. m : o[i] \in Nat /\ o[i] <= o[m]
<1>. DEFINE o == Ends(sent)   m == Len(Headers(sent))
<1>1. Layout(sent, o) /\ m \in Nat /\ o \in [0 .. m -> Nat]
  BY ReceivedLayout
<1>2. o[0] = 4 * Len(sent.query) + 7
  BY <1>1 DEF Layout
<1>3. \A i \in 1 .. m : HeaderSeen(i, o[i - 1], Len(Headers(sent)[i].value))
  BY SeesHeader
<1>. HIDE DEF o, m
<1>4. ASSUME NEW i \in 1 .. m
      PROVE  o[i] >= o[i - 1]
  <2>1. PICK l \in Nat : o[i - 1] \in Nat /\ o[i] = o[i - 1] + l + 5
    BY <1>3 DEF HeaderSeen, o
  <2>. DEFINE b == o[i - 1]
  <2>2. b \in Nat /\ o[i] = b + l + 5
    BY <2>1
  <2>. HIDE DEF b
  <2>3. o[i] >= b
    BY <2>2
  <2>. QED BY <2>3 DEF b
<1>5. \A j \in 0 .. m : \A i \in 0 .. j : o[i] <= o[j]
  BY <1>1, <1>4, Grows
<1>6. m \in 0 .. m /\ \A i \in 0 .. m : o[i] \in Nat
  BY <1>1
<1>7. \A i \in 0 .. m : o[i] <= o[m]
  BY <1>5, <1>6
<1>. QED BY <1>2, <1>6, <1>7 DEF o, m

-----------------------------------------------------------------------------
(* What holds while a request is parsed.                                   *)

Shape == DOMAIN rq = {"type", "path", "query", "headers", "body"}

TypeOf(s) == MethodOf(s.method)

Typed == Shape /\ rq.type = TypeOf(sent) /\ rq.type # "UNSUPPORTED"

\* A path that was cut is never used.
Pathed == Typed /\ (Len(text) >= 3 => PathOK(sent, rq.path))

QueryListed(i) == Listed(rq.query, QNames(sent), QValues(sent), i)
HeadersListed(i) == Listed(rq.headers, HNames(sent), HValues(sent), i)

\* Before a parameter, behind the last one, or at the end of a text that is cut
\* within the parameters.
AtQuery ==
  LET n == Len(text)  q == Len(sent.query) IN
  \/ \E i \in 1 .. q : ptr = 4 * i + 1 /\ ptr <= n + 1 /\ QueryListed(i - 1)
  \/ ptr = 4 * q + 4 /\ ptr <= n /\ QueryListed(q)
  \/ ptr = n + 1 /\ n < 4 * q + 4

\* The text goes on behind the first line, whose parameters have been parsed.
BehindLine ==
  /\ 4 * Len(sent.query) + 7 <= Len(text)
  /\ ~StrayQuery(sent) => QueryListed(Len(sent.query))

\* Behind the end of a text that is cut before the empty line, or before a header
\* or the empty line.
AtHeader ==
  LET n == Len(text)  m == Len(Headers(sent))  o == Ends(sent) IN
  \/ ptr > n /\ n <= o[m] /\ ptr \in Nat
  \/ \E i \in 0 .. m : ptr = o[i] + 1 /\ ptr <= n /\ HeadersListed(i)

Parsed ==
  /\ Pathed /\ BehindLine
  /\ Colons(sent) => /\ Len(text) > Ends(sent)[Len(Headers(sent))]
                     /\ HeadersListed(Len(Headers(sent)))

Finished ==
  \/ rq = EmptyReq /\ TypeOf(sent) = "UNSUPPORTED"
  \/ Parsed /\ rq.body = BodyOf /\ ~BadLength

Looked == Finished /\ handler = LookUp(Handlers, <<rq.type, rq.path>>)

\* The text is cut before the second end of line of the empty line.
CutShort == Received /\ Len(text) < Ends(sent)[Len(Headers(sent))] + 2

RunOffs == {"noValue", "noColon", "noEmptyLine", "badLength"}

RunOffInv ==
  /\ fate \in RunOffs => pc = "over"
  /\ fate = "noValue" => CutShort \/ ~Equals(sent) \/ StrayQuery(sent)
  /\ fate \in {"noColon", "noEmptyLine"} => CutShort \/ ~Colons(sent)
  /\ fate = "badLength" => Parsed /\ BadLength

ParserInv ==
  /\ pc = "read" => text = <<>>
  /\ pc \notin {"accept", "read"} => Received
  /\ pc = "type" => rq = EmptyReq
  /\ pc = "path" => Typed /\ rq.query = <<>> /\ rq.headers = <<>>
  /\ pc = "queries" => Pathed /\ rq.query = <<>> /\ rq.headers = <<>>
  /\ pc = "query" => Pathed /\ rq.headers = <<>> /\ (~StrayQuery(sent) => AtQuery)
  /\ pc = "headers" =>
       Pathed /\ (ptr <= Len(text) => BehindLine) /\ (Colons(sent) => AtHeader)
  /\ pc = "body" => Parsed
  /\ pc = "lookup" => Finished
  /\ RunOffInv

\* The functions that follow LookUpHandler.
Later == {"run", "sign", "decode", "return", "signed", "construct", "release", "write"}

LEMMA SameRequest ==
  ASSUME sent' = sent
  PROVE  /\ Equals(sent)' = Equals(sent) /\ Colons(sent)' = Colons(sent)
         /\ StrayQuery(sent)' = StrayQuery(sent) /\ TypeOf(sent)' = TypeOf(sent)
BY DEF Equals, Colons, StrayQuery, Behind, TypeOf, MethodOf

LEMMA NotRunOff ==
  ASSUME RunOffInv, pc # "over", UNCHANGED fate
  PROVE  fate \notin RunOffs /\ fate' \notin RunOffs /\ RunOffInv'
BY DEF RunOffInv, RunOffs

LEMMA AcceptsKeeps ==
  ASSUME ParserInv, Accepts
  PROVE  ParserInv'
<1>1. pc = "accept" /\ pc' = "read" /\ text' = <<>> /\ UNCHANGED fate
  BY DEF Accepts
<1>2. RunOffInv'
  BY <1>1, NotRunOff DEF ParserInv
<1>. QED BY <1>1, <1>2 DEF ParserInv

LEMMA ReadsKeeps ==
  ASSUME ParserInv, Reads
  PROVE  ParserInv' /\ pc' = "type"
<1>0. PICK s \in Requests :
        \E n \in 1 .. Len(Text(s)) :
          sent' = s /\ text' = SubSeq(Text(s), 1, n) \o SubSeq(text, n + 1, Len(text))
  BY DEF Reads
<1>1. PICK n \in 1 .. Len(Text(s)) :
        sent' = s /\ text' = SubSeq(Text(s), 1, n) \o SubSeq(text, n + 1, Len(text))
  BY <1>0
<1>. DEFINE t == Text(s)   u == SubSeq(t, 1, n)
<1>2. RequestOK(s)
  BY RequestType
<1>3. t \in Seq(Symbols) /\ Len(t) \in Nat
  <2>1. PICK o \in [0 .. Len(Headers(s)) -> Nat] : Layout(s, o)
    BY <1>2, LayoutOf
  <2>2. t \in Seq(Symbols)
    BY <2>1 DEF Layout, Long
  <2>. QED BY <2>2, LenProperties
<1>. HIDE DEF t
<1>4. n \in Nat /\ n \in 1 .. Len(t) /\ n <= Len(t)
  BY <1>3 DEF t
<1>5. Long(u, n, Symbols) /\ Holds(t, 0, u, n)
  BY <1>3, <1>4, FrontPart
<1>6. SubSeq(text, n + 1, Len(text)) = <<>>
  <2>1. text = <<>>
    BY DEF ParserInv, Reads
  <2>2. Len(text) = 0
    BY <2>1
  <2>3. n + 1 \in Int /\ 0 \in Int /\ 0 < n + 1
    BY <1>4
  <2>. QED BY <2>2, <2>3, SubSeqEmpty
<1>. HIDE DEF u
<1>7. text' = u
  <2>1. u \in Seq(Symbols)
    BY <1>5 DEF Long
  <2>2. text' = u \o <<>>
    BY <1>1, <1>6 DEF u, t
  <2>. QED BY <2>1, <2>2, ConcatEmptySeq
<1>8. \A k \in 1 .. n : u[k] = t[k]
  <2>1. \A k \in 1 .. n : 0 + k = k
    BY <1>4
  <2>. QED BY <1>5, <2>1 DEF Holds
<1>9. Received'
  <2>1. u \in Seq(Symbols) /\ Len(u) = n
    BY <1>5 DEF Long
  <2>. QED BY <1>1, <1>2, <1>4, <1>7, <1>8, <2>1 DEF Received, t
<1>10. pc' = "type" /\ rq' = EmptyReq /\ fate' = fate /\ pc = "read"
  BY DEF Reads
<1>11. RunOffInv'
  BY <1>10, NotRunOff DEF ParserInv
<1>. QED BY <1>9, <1>10, <1>11 DEF ParserInv, EmptyReq

LEMMA StaysReceived ==
  ASSUME Received, UNCHANGED <<sent, text>>
  PROVE  Received'
BY DEF Received

LEMMA TypeKeeps ==
  ASSUME ParserInv, GetRequestType
  PROVE  ParserInv'
<1>1. /\ pc = "type" /\ Received /\ rq = EmptyReq /\ fate' = fate /\ sent' = sent /\ text' = text
  BY DEF ParserInv, GetRequestType
<1>2. Received' /\ RunOffInv'
  BY <1>1, StaysReceived, NotRunOff DEF ParserInv
<1>3. Starts # {} /\ text[Min(Starts)] = sent.method
  BY <1>1, MethodIsFirst
<1>4. /\ rq' = [rq EXCEPT !.type = TypeOf(sent)]
      /\ pc' = IF rq'.type = "UNSUPPORTED" THEN "lookup" ELSE "path"
  BY <1>3 DEF GetRequestType, TypeOf
<1>5. /\ rq'.type = TypeOf(sent) /\ Shape' /\ rq'.query = <<>> /\ rq'.headers = <<>>
      /\ TypeOf(sent) = "UNSUPPORTED" => rq' = EmptyReq
  BY <1>1, <1>4 DEF EmptyReq, Shape
<1>6. TypeOf(sent)' = TypeOf(sent)
  BY <1>1, SameRequest
<1>7. CASE TypeOf(sent) = "UNSUPPORTED"
  <2>1. pc' = "lookup" /\ Finished'
    BY <1>4, <1>5, <1>6, <1>7 DEF Finished, EmptyReq
  <2>. QED BY <1>2, <2>1 DEF ParserInv
<1>8. CASE TypeOf(sent) # "UNSUPPORTED"
  <2>1. pc' = "path" /\ Typed'
    BY <1>4, <1>5, <1>6, <1>8 DEF Typed
  <2>. QED BY <1>2, <1>5, <2>1 DEF ParserInv
<1>. QED BY <1>7, <1>8

LEMMA PathStays ==
  ASSUME sent' = sent, rq'.path = rq.path
  PROVE  PathOK(sent, rq.path)' = PathOK(sent, rq.path)
BY DEF PathOK, Behind, IsPrefix, Unknown

LEMMA PathKeeps ==
  ASSUME ParserInv, GetRequestPath
  PROVE  ParserInv'
<1>. DEFINE paths == {i \in Starts : text[i] \in Paths}
            found == IF paths = {} THEN Unknown
                     ELSE SubSeq(text, Min(paths), NextOf(Min(paths), {"SP", "?"}) - 1)
<1>1. /\ pc = "path" /\ pc' = "queries" /\ Received /\ Typed /\ rq.query = <<>> /\ rq.headers = <<>>
      /\ fate' = fate /\ sent' = sent /\ text' = text /\ rq' = [rq EXCEPT !.path = found]
  BY DEF ParserInv, GetRequestPath
<1>2. Received' /\ RunOffInv'
  BY <1>1, StaysReceived, NotRunOff DEF ParserInv
<1>3. Len(text) >= 3 => PathOK(sent, found)
  BY <1>1, PathFound
<1>. HIDE DEF found
<1>4. /\ rq'.path = found /\ rq'.type = rq.type /\ Shape' /\ rq'.query = <<>> /\ rq'.headers = <<>>
  BY <1>1 DEF Typed, Shape
<1>5. Pathed'
  <2>1. PathOK(sent, rq.path)' = PathOK(sent, found)
    BY <1>1, <1>4 DEF PathOK, Behind, IsPrefix, Unknown
  <2>2. Typed'
    BY <1>1, <1>4, SameRequest DEF Typed
  <2>. QED BY <1>1, <1>3, <2>1, <2>2 DEF Pathed
<1>. QED BY <1>1, <1>2, <1>4, <1>5 DEF ParserInv

LEMMA StaysPathed ==
  ASSUME Pathed, Received, rq'.type = rq.type, rq'.path = rq.path, Shape', UNCHANGED <<sent, text>>
  PROVE  Pathed' /\ Received'
<1>1. Received'
  BY StaysReceived
<1>. QED BY <1>1, SameRequest, PathStays DEF Pathed, Typed

\* Where GetHeaders starts.
LEMMA HeadersStart ==
  ASSUME Received, rq.headers = <<>>, NEW p, p = NextOf(1, {"LF"}) + 1,
         ptr' = p, UNCHANGED <<sent, text, rq>>
  PROVE  AtHeader' /\ (ptr' <= Len(text) => 4 * Len(sent.query) + 7 <= Len(text))
<1>. DEFINE n == Len(text)   q == Len(sent.query)   m == Len(Headers(sent))   o == Ends(sent)
            a == 4 * q + 7
<1>1. /\ n \in Nat /\ q \in Nat /\ m \in Nat /\ 0 \in 0 .. m
      /\ o[0] = a /\ o[m] \in Nat /\ o[0] <= o[m]
  <2>1. n \in Nat /\ q \in Nat /\ m \in Nat
    BY ReceivedLayout
  <2>2. 0 \in 0 .. m
    BY <2>1
  <2>. QED BY <2>1, <2>2, EndsGrow
<1>2. NextOf(1, {"LF"}) = IF a <= n THEN a ELSE n + 1
  BY LineFound
<1>4. HeadersListed(0)
  BY ListedNone DEF HeadersListed
<1>5. AtHeader' = \/ ptr' > n /\ n <= o[m] /\ ptr' \in Nat
                  \/ \E i \in 0 .. m : ptr' = o[i] + 1 /\ ptr' <= n /\ HeadersListed(i)
  BY DEF AtHeader, HeadersListed
<1>. DEFINE b == o[0]   z == o[m]
<1>6. b = a /\ a \in Nat /\ z \in Nat /\ b <= z
  BY <1>1
<1>. HIDE DEF n, q, m, a, b, z
<1>7. CASE a <= n /\ a + 1 <= n
  <2>1. ptr' = b + 1 /\ ptr' <= n
    BY <1>1, <1>2, <1>6, <1>7
  <2>. QED BY <1>1, <1>4, <1>5, <1>7, <2>1 DEF a, b, n, q
<1>8. CASE ~(a <= n /\ a + 1 <= n)
  <2>1. ptr' > n /\ n <= z /\ ptr' \in Nat
    BY <1>1, <1>2, <1>6, <1>8
  <2>2. ~(ptr' <= n)
    BY <1>1, <2>1
  <2>. QED BY <1>5, <2>1, <2>2 DEF z, n
<1>. QED BY <1>7, <1>8

\* GetHeaders starts behind the first line.
LEMMA QueryEnds ==
  ASSUME ParserInv, pc \in {"queries", "query"}, rq.headers = <<>>, Pathed, Received,
         ptr' = NextOf(1, {"LF"}) + 1, pc' = "headers", UNCHANGED <<sent, text, rq, fate>>,
         4 * Len(sent.query) + 7 <= Len(text) /\ ~StrayQuery(sent) => QueryListed(Len(sent.query))
  PROVE  ParserInv'
<1>1. AtHeader' /\ (ptr' <= Len(text) => 4 * Len(sent.query) + 7 <= Len(text))
  BY HeadersStart
<1>2. Pathed' /\ Received'
  <2>1. Shape'
    BY DEF Pathed, Typed, Shape
  <2>. QED BY <2>1, StaysPathed
<1>3. RunOffInv'
  BY NotRunOff DEF ParserInv
<1>4. (ptr <= Len(text) => BehindLine)'
  BY <1>1, SameRequest DEF BehindLine, QueryListed
<1>. QED BY <1>1, <1>2, <1>3, <1>4 DEF ParserInv

LEMMA QueriesKeeps ==
  ASSUME ParserInv, GetQueries
  PROVE  ParserInv'
<1>. DEFINE n == Len(text)   q == Len(sent.query)
<1>1. /\ Received /\ Pathed /\ rq.query = <<>> /\ rq.headers = <<>> /\ pc = "queries"
      /\ UNCHANGED <<sent, text, rq, fate>>
  BY DEF ParserInv, GetQueries
<1>2. Pathed' /\ Received' /\ rq'.headers = <<>> /\ RunOffInv'
  <2>1. Shape'
    BY <1>1 DEF Pathed, Typed, Shape
  <2>. QED BY <1>1, <2>1, StaysPathed, NotRunOff DEF ParserInv
<1>3. n \in Nat /\ q \in Nat
  BY <1>1, ReceivedLayout
<1>4. QueryListed(0)
  BY <1>1, ListedNone DEF QueryListed
<1>5. CASE "?" \in ToSet(text)
  <2>1. pc' = "query"
    BY <1>5 DEF GetQueries
  <2>2. ASSUME ~StrayQuery(sent) PROVE AtQuery'
    <3>1. q # 0 /\ n >= 4 /\ NextOf(1, {"?"}) = 4
      BY <1>1, <1>5, <2>2, QuestionFound
    <3>2. 5 <= n => text[5] # "&"
      <4>1. Layout(sent, Ends(sent)) /\ sent.query \in Seq(Pairs) /\ 1 \in 1 .. q /\ 4 * 1 + 1 = 5
        BY <1>1, <1>3, <3>1, ReceivedLayout DEF RequestOK
      <4>2. Text(sent)[5] = sent.query[1].name
        BY <4>1 DEF Layout, FirstLine
      <4>3. sent.query[1].name \in Words
        <5>1. sent.query[1] \in Pairs
          BY <4>1, ElementOfSeq
        <5>. QED BY <5>1, Apart DEF Pairs
      <4>4. 5 <= n => 5 \in 1 .. n
        BY <1>3
      <4>5. 5 <= n => text[5] = Text(sent)[5]
        BY <1>1, <4>4 DEF Received
      <4>. QED BY <4>2, <4>3, <4>5, Apart
    <3>3. After(4 + 1, "&") = 5
      <4>1. text \in Seq(Symbols) /\ 5 \in Nat \ {0} /\ 5 \in Nat /\ 5 <= 5 /\ 4 + 1 = 5
            /\ \A k \in 5 .. 5 - 1 : FALSE
        BY <1>1 DEF Received
      <4>. HIDE DEF n
      <4>2. After(5, "&") = IF 5 <= n THEN 5 ELSE n + 1
        BY <3>2, <4>1, AfterIn DEF n
      <4>3. 5 <= n \/ n + 1 = 5
        BY <1>3, <3>1
      <4>. QED BY <4>1, <4>2, <4>3
    <3>4. ptr' = 5
      BY <1>5, <3>1, <3>3 DEF GetQueries
    <3>5. AtQuery' = \/ \E i \in 1 .. q : ptr' = 4 * i + 1 /\ ptr' <= n + 1 /\ QueryListed(i - 1)
                     \/ ptr' = 4 * q + 4 /\ ptr' <= n /\ QueryListed(q)
                     \/ ptr' = n + 1 /\ n < 4 * q + 4
      BY <1>1 DEF AtQuery, QueryListed
    <3>. HIDE DEF n, q
    <3>6. 1 \in 1 .. q /\ ptr' = 4 * 1 + 1 /\ ptr' <= n + 1 /\ 1 - 1 = 0
      BY <1>3, <3>1, <3>4
    <3>. QED BY <1>4, <3>5, <3>6
  <2>. QED BY <1>1, <1>2, <2>1, <2>2, SameRequest DEF ParserInv
<1>6. CASE "?" \notin ToSet(text)
  <2>1. ~StrayQuery(sent) => q = 0 \/ n < 4
    BY <1>1, <1>6, QuestionFound
  <2>2. ptr' = NextOf(1, {"LF"}) + 1 /\ pc' = "headers"
    BY <1>6 DEF GetQueries
  <2>3. 4 * q + 7 <= n /\ ~StrayQuery(sent) => QueryListed(q)
    <3>. HIDE DEF n, q
    <3>1. 4 * q + 7 <= n /\ ~StrayQuery(sent) => q = 0
      BY <1>3, <2>1
    <3>. QED BY <1>4, <3>1
  <2>. QED BY <1>1, <2>2, <2>3, QueryEnds
<1>. QED BY <1>5, <1>6

\* A round at a parameter.
LEMMA ParameterKeeps ==
  ASSUME ParserInv, AddsQuery, ~StrayQuery(sent), NEW i \in 1 .. Len(sent.query), ptr = 4 * i + 1,
         ptr <= Len(text) + 1, QueryListed(i - 1)
  PROVE  ParserInv'
<1>. DEFINE n == Len(text)   q == Len(sent.query)   o == Ends(sent)   m == Len(Headers(sent))
            end == NextOf(ptr, {"&", "SP"})   equals == NextOf(ptr, {"="})   next == After(end, "&")
            name == SubSeq(text, ptr, equals - 1)   value == SubSeq(text, equals + 1, end - 1)
            e == IF sent.query[i].value = "&" THEN 4 * i + 3 ELSE 4 * i + 4   d == 4 * i + 4
            g == IF i < q THEN 4 * i + 5 ELSE 4 * i + 4   z == o[m]   u == sent.query[i].mark
<1>1. /\ Received /\ Pathed /\ rq.headers = <<>> /\ pc = "query"
      /\ UNCHANGED <<sent, text>>
  BY DEF ParserInv, AddsQuery
<1>2. n \in Nat /\ q \in Nat /\ m \in Nat /\ z \in Nat /\ 4 * q + 7 <= z
  <2>1. n \in Nat /\ q \in Nat /\ m \in Nat
    BY <1>1, ReceivedLayout
  <2>2. 0 \in 0 .. m
    BY <2>1
  <2>. QED BY <1>1, <2>1, <2>2, EndsGrow
<1>3. Received' /\ CutShort' = (Received' /\ n < z + 2)
  BY <1>1, StaysReceived DEF CutShort
<1>4. /\ u = "&" => end \in ptr .. n + 1 /\ equals \in end .. n + 1 /\ (ptr = end => ptr = n + 1)
      /\ u = "=" => /\ end = IF e <= n THEN e ELSE n + 1
                    /\ equals = IF 4 * i + 2 <= n THEN 4 * i + 2 ELSE n + 1
                    /\ next = IF g <= n THEN g ELSE n + 1
                    /\ d <= n => /\ name = QNames(sent)[i] /\ value = QValues(sent)[i]
                                 /\ name \in Seq(Symbols) /\ value \in Seq(Symbols)
  BY <1>1, QueryRound
<1>5. \/ ptr < end /\ equals >= end /\ RunsOff("noValue")
      \/ /\ ptr < end /\ equals < end /\ rq' = [rq EXCEPT !.query = Add(@, name, value)]
         /\ ptr' = next /\ UNCHANGED <<pc, handler, fate>>
      \/ /\ ptr = end /\ ptr' = NextOf(1, {"LF"}) + 1 /\ pc' = "headers"
         /\ UNCHANGED <<rq, handler, fate>>
  BY DEF AddsQuery
<1>6. i \in Nat /\ i <= q /\ i >= 1 /\ ptr = 4 * i + 1 /\ ptr <= n + 1 /\ e \in {4 * i + 3, 4 * i + 4}
  BY <1>2
<1>0. u \in {"=", "&"} /\ (u = "&" => ~Equals(sent))
  <2>1. sent.query \in Seq(Pairs)
    BY <1>1 DEF Received, RequestOK
  <2>2. sent.query[i] \in Pairs /\ i \in DOMAIN sent.query
    BY <2>1, ElementOfSeq, LenProperties
  <2>. QED BY <2>2 DEF Pairs, Equals
<1>. HIDE DEF n, q, m, end, equals, name, value, z, next, u, e
<1>7. CASE ptr < end /\ equals >= end /\ RunsOff("noValue")
  <2>1. u = "=" => n < z + 2
    BY <1>2, <1>4, <1>6, <1>7
  <2>2. pc' = "over" /\ fate' = "noValue"
    BY <1>7 DEF RunsOff
  <2>3. CutShort' \/ ~Equals(sent)'
    BY <1>0, <1>1, <1>3, <2>1, SameRequest
  <2>. QED BY <1>3, <2>2, <2>3 DEF ParserInv, RunOffInv, RunOffs
<1>8. CASE /\ ptr < end /\ equals < end /\ rq' = [rq EXCEPT !.query = Add(@, name, value)]
           /\ ptr' = next /\ UNCHANGED <<pc, handler, fate>>
  <2>1. /\ rq'.type = rq.type /\ rq'.path = rq.path /\ rq'.headers = <<>> /\ Shape'
        /\ rq'.query = Add(rq.query, name, value)
    BY <1>1, <1>8 DEF Pathed, Typed, Shape
  <2>2. Pathed' /\ RunOffInv'
    BY <1>1, <1>8, <2>1, StaysPathed, NotRunOff DEF ParserInv
  <2>3. AtQuery' = \/ \E j \in 1 .. q : ptr' = 4 * j + 1 /\ ptr' <= n + 1 /\ QueryListed(j - 1)'
                   \/ ptr' = 4 * q + 4 /\ ptr' <= n /\ QueryListed(q)'
                   \/ ptr' = n + 1 /\ n < 4 * q + 4
    BY <1>1 DEF AtQuery, QueryListed, n, q
  <2>0. u = "="
    <3>1. u = "&" => end \in Int /\ equals \in Int /\ end <= equals
      BY <1>2, <1>4, <1>6
    <3>. QED BY <1>0, <1>8, <3>1
  <2>4. ASSUME d <= n
        PROVE  QueryListed(i)'
    <3>1. i - 1 \in Nat /\ i = (i - 1) + 1
      BY <1>6
    <3>2. Listed(rq.query, QNames(sent), QValues(sent), i - 1)
      BY DEF QueryListed
    <3>3. Listed(Add(rq.query, name, value), QNames(sent), QValues(sent), (i - 1) + 1)
      BY <1>4, <2>0, <2>4, <3>1, <3>2, ListedAdds
    <3>. QED BY <1>1, <2>1, <3>1, <3>3 DEF QueryListed
  <2>5. AtQuery'
    <3>1. CASE g <= n /\ i < q
      <4>1. ptr' = 4 * i + 5 /\ d <= n
        BY <1>2, <1>4, <1>6, <1>8, <2>0, <3>1
      <4>. DEFINE j == i + 1
      <4>2. j \in 1 .. q /\ ptr' = 4 * j + 1 /\ ptr' <= n + 1 /\ j - 1 = i
        BY <1>2, <1>6, <3>1, <4>1
      <4>. HIDE DEF j
      <4>. QED BY <2>3, <2>4, <4>1, <4>2
    <3>2. CASE g <= n /\ ~(i < q)
      <4>1. ptr' = 4 * q + 4 /\ ptr' <= n /\ d <= n /\ i = q
        BY <1>2, <1>4, <1>6, <1>8, <2>0, <3>2
      <4>2. q' = q
        BY <1>1 DEF q
      <4>. QED BY <2>3, <2>4, <4>1, <4>2
    <3>3. CASE ~(g <= n)
      <4>1. ptr' = n + 1
        BY <1>4, <1>8, <2>0, <3>3
      <4>2. g \in Int /\ g <= 4 * q + 4
        BY <1>2, <1>6
      <4>3. n < 4 * q + 4
        <5>. HIDE DEF g
        <5>. QED BY <1>2, <3>3, <4>2
      <4>. QED BY <2>3, <4>1, <4>3
    <3>. QED BY <3>1, <3>2, <3>3
  <2>. QED BY <1>1, <1>3, <1>8, <2>1, <2>2, <2>5 DEF ParserInv
<1>9. CASE /\ ptr = end /\ ptr' = NextOf(1, {"LF"}) + 1 /\ pc' = "headers"
           /\ UNCHANGED <<rq, handler, fate>>
  <2>1. ~(4 * q + 7 <= n)
    BY <1>0, <1>2, <1>4, <1>6, <1>9
  <2>. QED BY <1>1, <1>9, <2>1, QueryEnds DEF n, q
<1>. QED BY <1>5, <1>7, <1>8, <1>9

LEMMA QueryKeeps ==
  ASSUME ParserInv, AddsQuery
  PROVE  ParserInv'
<1>. DEFINE n == Len(text)   q == Len(sent.query)   d == 4 * q + 4
            end == NextOf(ptr, {"&", "SP"})
<1>1. /\ Received /\ Pathed /\ (~StrayQuery(sent) => AtQuery) /\ text \in Seq(Symbols)
      /\ pc = "query" /\ rq.headers = <<>> /\ UNCHANGED <<sent, text>>
  BY DEF ParserInv, AddsQuery, Received
<1>2. n \in Nat /\ q \in Nat
  BY <1>1, ReceivedLayout
<1>3. CASE ~StrayQuery(sent) /\ \E i \in 1 .. q : ptr = 4 * i + 1 /\ ptr <= n + 1 /\ QueryListed(i - 1)
  BY <1>3, ParameterKeeps
<1>4. ASSUME ptr \in Nat, ptr = end, 4 * q + 7 <= n /\ ~StrayQuery(sent) => QueryListed(q)
      PROVE  ParserInv'
  <2>1. /\ ptr' = NextOf(1, {"LF"}) + 1 /\ pc' = "headers" /\ UNCHANGED <<rq, handler, fate>>
    <3>1. /\ \/ ptr < end
             \/ /\ ptr = end /\ ptr' = NextOf(1, {"LF"}) + 1 /\ pc' = "headers"
                /\ UNCHANGED <<rq, handler, fate>>
      BY DEF AddsQuery
    <3>. HIDE DEF end
    <3>. QED BY <1>4, <3>1
  <2>. QED BY <1>1, <1>4, <2>1, QueryEnds
<1>5. CASE ptr = d /\ ptr <= n /\ QueryListed(q)
  <2>1. text[d] = "SP"
    <3>1. Layout(sent, Ends(sent))
      BY <1>1, ReceivedLayout
    <3>2. Text(sent)[d] = "SP"
      BY <3>1 DEF Layout, FirstLine
    <3>3. \A k \in 1 .. n : text[k] = Text(sent)[k]
      BY <1>1 DEF Received
    <3>. HIDE DEF n, q
    <3>4. d \in 1 .. n
      BY <1>2, <1>5
    <3>. QED BY <3>2, <3>3, <3>4
  <2>2. NextOf(d, {"&", "SP"}) = d
    <3>. HIDE DEF n, q
    <3>1. d \in Nat \ {0} /\ d \in Nat /\ d <= d /\ d <= n /\ \A k \in d .. d - 1 : FALSE
      BY <1>2, <1>5
    <3>2. NextOf(d, {"&", "SP"}) = IF d <= n THEN d ELSE n + 1
      BY <1>1, <2>1, <3>1, NextIn DEF n
    <3>. QED BY <3>1, <3>2
  <2>. QED BY <1>2, <1>4, <1>5, <2>2
<1>6. CASE ptr = n + 1 /\ n < d
  <2>1. NextOf(n + 1, {"&", "SP"}) = n + 1
    <3>. DEFINE j == n + 1
    <3>. HIDE DEF n
    <3>1. j \in Nat \ {0} /\ j \in Nat /\ j <= j /\ ~(j <= n) /\ \A k \in j .. j - 1 : FALSE
      BY <1>2
    <3>. HIDE DEF j
    <3>2. NextOf(j, {"&", "SP"}) = IF j <= n THEN j ELSE n + 1
      BY <1>1, <3>1, NextIn DEF n
    <3>. QED BY <3>1, <3>2 DEF j
  <2>2. ~(4 * q + 7 <= n) /\ ptr \in Nat
    <3>. HIDE DEF n, q
    <3>. QED BY <1>2, <1>6
  <2>. QED BY <1>4, <1>6, <2>1, <2>2
<1>7. CASE StrayQuery(sent)
  <2>1. \/ RunsOff("noValue")
        \/ /\ \E name, value : rq' = [rq EXCEPT !.query = Add(@, name, value)]
           /\ UNCHANGED <<pc, handler, fate>>
        \/ /\ ptr' = NextOf(1, {"LF"}) + 1 /\ pc' = "headers"
           /\ UNCHANGED <<rq, handler, fate>>
    BY DEF AddsQuery
  <2>2. CASE RunsOff("noValue")
    <3>1. Received' /\ pc' = "over" /\ fate' = "noValue"
      BY <1>1, <2>2, StaysReceived DEF RunsOff
    <3>. QED BY <1>1, <1>7, <3>1, SameRequest DEF ParserInv, RunOffInv, RunOffs
  <2>3. CASE /\ \E name, value : rq' = [rq EXCEPT !.query = Add(@, name, value)]
             /\ UNCHANGED <<pc, handler, fate>>
    <3>1. rq'.type = rq.type /\ rq'.path = rq.path /\ rq'.headers = <<>> /\ Shape'
      BY <1>1, <2>3 DEF Pathed, Typed, Shape
    <3>2. Pathed' /\ Received' /\ RunOffInv'
      BY <1>1, <2>3, <3>1, StaysPathed, NotRunOff DEF ParserInv
    <3>. QED BY <1>1, <1>7, <2>3, <3>1, <3>2, SameRequest DEF ParserInv
  <2>4. CASE /\ ptr' = NextOf(1, {"LF"}) + 1 /\ pc' = "headers" /\ UNCHANGED <<rq, handler, fate>>
    BY <1>1, <1>7, <2>4, QueryEnds
  <2>. QED BY <2>1, <2>2, <2>3, <2>4
<1>. QED BY <1>1, <1>3, <1>5, <1>6, <1>7 DEF AtQuery

LEMMA ColonsOf ==
  ASSUME Received, Colons(sent), NEW i \in 1 .. Len(Headers(sent))
  PROVE  Headers(sent)[i].mark = ":"
<1>1. RequestOK(sent) /\ sent.headers \in Seq(HeaderPairs)
  BY DEF Received, RequestOK
<1>2. Len(sent.headers) \in Nat /\ DOMAIN sent.headers = 1 .. Len(sent.headers)
  BY <1>1, LenProperties
<1>3. CASE i \in 1 .. Len(sent.headers)
  <2>1. Headers(sent)[i] = sent.headers[i]
    BY <1>1, <1>3, HeadersType
  <2>. QED BY <1>2, <1>3, <2>1 DEF Colons
<1>4. CASE i \notin 1 .. Len(sent.headers)
  <2>1. sent.length # "none"
    BY <1>1, <1>4, HeadersType
  <2>2. Len(Headers(sent)) = Len(sent.headers) + 1
        /\ Headers(sent)[Len(sent.headers) + 1] =
             [name |-> "Content-Length", mark |-> ":", value |-> <<sent.length>>]
    BY <1>1, <2>1, HeadersType
  <2>3. i = Len(sent.headers) + 1
    BY <1>2, <1>4, <2>2
  <2>. QED BY <2>2, <2>3
<1>. QED BY <1>3, <1>4

LEMMA ParsedStays ==
  ASSUME Received, Parsed, UNCHANGED <<sent, text>>, Shape', rq'.type = rq.type,
         rq'.path = rq.path, rq'.query = rq.query, rq'.headers = rq.headers
  PROVE  Parsed'
<1>1. Pathed'
  BY StaysPathed DEF Parsed
<1>2. BehindLine'
  BY SameRequest DEF Parsed, BehindLine, QueryListed
<1>. QED BY <1>1, <1>2, SameRequest DEF Parsed, HeadersListed


\* A round at a header.
LEMMA HeaderKeeps ==
  ASSUME ParserInv, AddsHeader, Colons(sent), NEW i \in 1 .. Len(Headers(sent)),
         ptr = Ends(sent)[i - 1] + 1, HeadersListed(i - 1)
  PROVE  ParserInv'
<1>. DEFINE n == Len(text)   o == Ends(sent)   m == Len(Headers(sent))   z == o[m]
            b == o[i - 1]   l == Len(Headers(sent)[i].value)   e == b + l + 4
            colon == NextOf(ptr, {":"})   from == After(colon + 1, "SP")
            end == NextOf(from, {"CR", "LF"})
            name == SubSeq(text, ptr, colon - 1)   value == SubSeq(text, from, end - 1)
<1>1. /\ Received /\ Pathed /\ BehindLine /\ pc = "headers" /\ ptr <= n /\ UNCHANGED <<sent, text>>
  BY DEF ParserInv, AddsHeader
<1>2. n \in Nat \ {0} /\ m \in Nat /\ z \in Nat /\ o[i] \in Nat /\ o[i] <= z
  <2>1. n \in Nat \ {0} /\ m \in Nat
    BY <1>1, ReceivedLayout
  <2>2. i \in 0 .. m
    BY <2>1
  <2>. QED BY <1>1, <2>1, <2>2, EndsGrow
<1>3. HeaderSeen(i, b, l)
  BY <1>1, SeesHeader
<1>4. b \in Nat /\ l \in Nat /\ o[i] = b + l + 5
  BY <1>3 DEF HeaderSeen
<1>5. Received' /\ CutShort' = (Received' /\ n < z + 2)
  BY <1>1, StaysReceived DEF CutShort
<1>6. IF colon > n THEN RunsOff("noColon")
      ELSE /\ rq' = [rq EXCEPT !.headers = Add(@, name, value)] /\ ptr' = end + 2
           /\ UNCHANGED <<pc, handler, fate>>
  BY DEF AddsHeader
<1>. HIDE DEF n, b, l
<1>7. /\ colon = IF b + 2 <= n THEN b + 2 ELSE n + 1
      /\ b + 2 <= n => end = IF b + l + 4 <= n THEN b + l + 4 ELSE n + 1
      /\ b + l + 4 <= n => /\ name = HNames(sent)[i] /\ value = HValues(sent)[i]
                           /\ HNames(sent)[i] \in Seq(Symbols) /\ HValues(sent)[i] \in Seq(Symbols)
  <2>1. ptr = b + 1 /\ n = Len(text)
    BY DEF b, n
  <2>2. Headers(sent)[i].mark = ":"
    BY <1>1, ColonsOf
  <2>. QED BY <1>1, <1>2, <1>3, <1>4, <2>1, <2>2, HeaderRound
<1>. DEFINE c == o[i]
<1>8. c \in Nat /\ c <= z /\ c = b + l + 5 /\ i \in Nat /\ i >= 1 /\ i <= m
  BY <1>2, <1>4
<1>. HIDE DEF o, m, z, colon, from, end, name, value, c
<1>9. CASE colon > n
  <2>1. n < z + 2
    BY <1>2, <1>4, <1>7, <1>8, <1>9
  <2>2. pc' = "over" /\ fate' = "noColon"
    BY <1>6, <1>9 DEF RunsOff
  <2>. QED BY <1>5, <2>1, <2>2 DEF ParserInv, RunOffInv, RunOffs
<1>10. CASE ~(colon > n)
  <2>1. /\ rq' = [rq EXCEPT !.headers = Add(@, name, value)] /\ ptr' = end + 2
        /\ UNCHANGED <<pc, handler, fate>>
    BY <1>6, <1>10
  <2>2. /\ rq'.type = rq.type /\ rq'.path = rq.path /\ rq'.query = rq.query /\ Shape'
        /\ rq'.headers = Add(rq.headers, name, value)
    BY <1>1, <2>1 DEF Pathed, Typed, Shape
  <2>3. Pathed' /\ RunOffInv' /\ BehindLine'
    <3>1. BehindLine'
      BY <1>1, <2>2, SameRequest DEF BehindLine, QueryListed
    <3>. QED BY <1>1, <2>1, <2>2, <3>1, StaysPathed, NotRunOff DEF ParserInv
  <2>4. AtHeader' = \/ ptr' > n /\ n <= z /\ ptr' \in Nat
                    \/ \E j \in 0 .. m : ptr' = o[j] + 1 /\ ptr' <= n /\ HeadersListed(j)'
    BY <1>1 DEF AtHeader, HeadersListed, n, m, o, z
  <2>5. b + 2 <= n /\ end = IF e <= n THEN e ELSE n + 1
    BY <1>2, <1>4, <1>7, <1>10
  <2>6. CASE e <= n /\ c + 1 <= n
    <3>1. ptr' = c + 1 /\ ptr' <= n
      BY <1>4, <1>8, <2>1, <2>5, <2>6
    <3>3. HeadersListed(i)'
      <4>1. i - 1 \in Nat /\ i = (i - 1) + 1
        BY <1>8
      <4>2. Listed(rq.headers, HNames(sent), HValues(sent), i - 1)
        BY DEF HeadersListed
      <4>3. Listed(Add(rq.headers, name, value), HNames(sent), HValues(sent), (i - 1) + 1)
        BY <1>7, <2>6, <4>1, <4>2, ListedAdds
      <4>. QED BY <1>1, <2>2, <4>1, <4>3 DEF HeadersListed
    <3>4. i \in 0 .. m
      BY <1>2, <1>8
    <3>5. AtHeader'
      BY <2>4, <3>1, <3>3, <3>4 DEF c
    <3>. QED BY <1>1, <1>5, <2>1, <2>3, <3>5 DEF ParserInv
  <2>7. CASE ~(e <= n /\ c + 1 <= n)
    <3>0. ptr' = end + 2
      BY <2>1
    <3>1. ptr' > n /\ n <= z /\ ptr' \in Nat
      <4>1. CASE e <= n
        <5>1. end = e /\ c + 1 > n
          BY <1>2, <1>8, <2>5, <2>7, <4>1
        <5>2. ptr' = c + 1
          BY <1>4, <1>8, <3>0, <5>1
        <5>. QED BY <1>2, <1>8, <5>1, <5>2
      <4>2. CASE ~(e <= n)
        <5>1. end = n + 1
          BY <2>5, <4>2
        <5>2. n <= c
          BY <1>2, <1>4, <1>8, <4>2
        <5>. QED BY <1>2, <1>8, <3>0, <5>1, <5>2
      <4>. QED BY <4>1, <4>2
    <3>2. AtHeader'
      BY <2>4, <3>1
    <3>. QED BY <1>1, <1>5, <2>1, <2>3, <3>2 DEF ParserInv
  <2>. QED BY <2>6, <2>7
<1>. QED BY <1>9, <1>10

\* Before a header, GetHeaders goes on; before the empty line it ends.
LEMMA AtEmptyLineIs ==
  ASSUME Received, Colons(sent), NEW i \in 0 .. Len(Headers(sent)), ptr = Ends(sent)[i] + 1, ptr <= Len(text)
  PROVE  AtEmptyLine <=> i = Len(Headers(sent))
<1>. DEFINE n == Len(text)   o == Ends(sent)   m == Len(Headers(sent))
<1>1. Layout(sent, o) /\ n \in Nat \ {0} /\ m \in Nat /\ o \in [0 .. m -> Nat]
  BY ReceivedLayout
<1>2. CASE i = m
  <2>1. Text(sent)[o[m] + 1] = "CR"
    BY <1>1 DEF Layout
  <2>2. o[m] \in Nat
    BY <1>1, <1>2
  <2>. DEFINE k == o[m] + 1
  <2>3. k \in 1 .. n
    <3>1. k = ptr
      BY <1>2
    <3>2. k \in Nat /\ k >= 1
      BY <2>2
    <3>. HIDE DEF k
    <3>. QED BY <1>1, <3>1, <3>2
  <2>4. text[k] = "CR" /\ ptr = k
    BY <1>2, <2>1, <2>3 DEF Received
  <2>. HIDE DEF k
  <2>. QED BY <1>2, <2>4 DEF AtEmptyLine, At
<1>3. CASE i # m
  <2>. DEFINE j == i + 1
  <2>1. j \in 1 .. m /\ j - 1 = i
    BY <1>1, <1>3
  <2>. HIDE DEF j
  <2>. DEFINE b == o[j - 1]   l == Len(Headers(sent)[j].value)
  <2>2. HeaderSeen(j, b, l)
    BY <2>1, SeesHeader
  <2>3. b \in Nat /\ l \in Nat
    BY <2>2 DEF HeaderSeen
  <2>4. ptr = b + 1
    BY <2>1
  <2>. HIDE DEF b, l
  <2>5. ~AtEmptyLine
    <3>. HIDE DEF n, m
    <3>1. n = Len(text) /\ j \in 1 .. Len(Headers(sent)) /\ ptr <= n
      BY <2>1 DEF n, m
    <3>2. Headers(sent)[j].mark = ":"
      BY <3>1, ColonsOf
    <3>. QED BY <1>1, <2>2, <2>3, <2>4, <3>1, <3>2, HeaderRound
  <2>. QED BY <1>3, <2>5
<1>. QED BY <1>2, <1>3

\* The headers of a request in which no ':' is missing.
LEMMA HeadersListKeeps ==
  ASSUME ParserInv, AddsHeader \/ HeadersRunOff \/ HeadersEnd, Colons(sent)
  PROVE  ParserInv'
<1>. DEFINE n == Len(text)   o == Ends(sent)   m == Len(Headers(sent))
<1>1. /\ Received /\ Pathed /\ AtHeader /\ UNCHANGED <<sent, text>> /\ pc = "headers"
      /\ ptr <= n => BehindLine
  BY DEF ParserInv, AddsHeader, HeadersRunOff, HeadersEnd
<1>2. n \in Nat /\ m \in Nat /\ o[m] \in Nat
  BY <1>1, ReceivedLayout, EndsGrow
<1>3. ASSUME NEW i \in 0 .. m, ptr = o[i] + 1, ptr <= n
      PROVE  o[i] \in Nat /\ (AtEmptyLine <=> i = m)
  BY <1>1, <1>3, AtEmptyLineIs, EndsGrow
<1>4. ptr > n => n <= o[m]
  <2>1. ASSUME NEW i \in 0 .. m, ptr = o[i] + 1, ptr <= n
        PROVE  ~(ptr > n)
    <3>1. ptr \in Nat
      BY <1>3, <2>1
    <3>. QED BY <1>2, <2>1, <3>1
  <2>. QED BY <1>1, <2>1 DEF AtHeader
<1>5. ptr <= n => \E i \in 0 .. m : ptr = o[i] + 1 /\ HeadersListed(i)
  <2>1. ptr > n /\ ptr \in Nat => ~(ptr <= n)
    BY <1>2
  <2>. QED BY <1>1, <2>1 DEF AtHeader
<1>6. CASE AddsHeader
  <2>1. ptr <= n /\ ~AtEmptyLine
    BY <1>6 DEF AddsHeader
  <2>2. PICK i \in 0 .. m : ptr = o[i] + 1 /\ HeadersListed(i)
    BY <1>5, <2>1
  <2>3. i # m
    BY <1>3, <2>1, <2>2
  <2>. DEFINE j == i + 1
  <2>4. j \in 1 .. m /\ j - 1 = i
    BY <1>2, <2>3
  <2>. HIDE DEF j
  <2>5. ptr = o[j - 1] + 1 /\ HeadersListed(j - 1)
    BY <2>2, <2>4
  <2>. QED BY <1>6, <2>2, <2>4, <2>5, HeaderKeeps
<1>7. CASE HeadersRunOff
  <2>1. ptr > n /\ fate' = "noEmptyLine" /\ pc' = "over"
    BY <1>7 DEF HeadersRunOff, RunsOff
  <2>2. Received' /\ CutShort' = (Received' /\ n < o[m] + 2)
    BY <1>1, StaysReceived DEF CutShort
  <2>. DEFINE z == o[m]
  <2>3. n <= z /\ z \in Nat
    BY <1>2, <1>4, <2>1
  <2>. HIDE DEF n, z
  <2>4. n < z + 2
    BY <1>2, <2>3
  <2>. QED BY <2>1, <2>2, <2>4 DEF ParserInv, RunOffInv, RunOffs, z
<1>8. CASE HeadersEnd
  <2>1. /\ ptr <= n /\ AtEmptyLine /\ pc' = "body" /\ UNCHANGED <<sent, text, rq, fate>>
    BY <1>8 DEF HeadersEnd
  <2>2. PICK i \in 0 .. m : ptr = o[i] + 1 /\ HeadersListed(i)
    BY <1>5, <2>1
  <2>3. i = m
    BY <1>3, <2>1, <2>2
  <2>4. n > o[m]
    <3>. DEFINE z == o[m]
    <3>1. z \in Nat /\ z + 1 <= n
      BY <1>2, <2>1, <2>2, <2>3
    <3>. HIDE DEF z, n
    <3>2. n > z
      BY <1>2, <3>1
    <3>. QED BY <3>2 DEF z
  <2>5. Parsed
    BY <1>1, <2>1, <2>2, <2>3, <2>4 DEF Parsed
  <2>6. Received' /\ Parsed'
    <3>1. Shape'
      BY <1>1, <2>1 DEF Pathed, Typed, Shape
    <3>. QED BY <1>1, <2>1, <2>5, <3>1, StaysReceived, ParsedStays
  <2>7. RunOffInv'
    BY <1>1, <2>1, NotRunOff DEF ParserInv
  <2>. QED BY <2>1, <2>6, <2>7 DEF ParserInv
<1>. QED BY <1>6, <1>7, <1>8

LEMMA HeadersKeep ==
  ASSUME ParserInv, AddsHeader \/ HeadersRunOff \/ HeadersEnd
  PROVE  ParserInv'
<1>1. CASE Colons(sent)
  BY <1>1, HeadersListKeeps
<1>2. CASE ~Colons(sent)
  <2>1. /\ Received /\ Pathed /\ UNCHANGED <<sent, text>> /\ pc = "headers"
        /\ ptr <= Len(text) => BehindLine
        /\ ~Colons(sent)' /\ Received'
    BY <1>2, SameRequest, StaysReceived DEF ParserInv, AddsHeader, HeadersRunOff, HeadersEnd
  <2>2. \/ RunsOff("noColon") \/ RunsOff("noEmptyLine")
        \/ /\ \E name, value : rq' = [rq EXCEPT !.headers = Add(@, name, value)]
           /\ ptr <= Len(text) /\ UNCHANGED <<pc, handler, fate>>
        \/ HeadersEnd
    BY DEF AddsHeader, HeadersRunOff
  <2>3. CASE RunsOff("noColon") \/ RunsOff("noEmptyLine")
    BY <2>1, <2>3 DEF RunsOff, ParserInv, RunOffInv, RunOffs
  <2>4. CASE /\ \E name, value : rq' = [rq EXCEPT !.headers = Add(@, name, value)]
             /\ ptr <= Len(text) /\ UNCHANGED <<pc, handler, fate>>
    <3>1. rq'.type = rq.type /\ rq'.path = rq.path /\ rq'.query = rq.query /\ Shape'
      BY <2>1, <2>4 DEF Pathed, Typed, Shape
    <3>2. Pathed' /\ RunOffInv'
      BY <2>1, <2>4, <3>1, StaysPathed, NotRunOff DEF ParserInv
    <3>3. BehindLine'
      BY <2>1, <2>4, <3>1, SameRequest DEF BehindLine, QueryListed
    <3>. QED BY <2>1, <2>4, <3>2, <3>3 DEF ParserInv
  <2>5. CASE HeadersEnd
    <3>1. ptr <= Len(text) /\ pc' = "body" /\ UNCHANGED <<rq, fate>>
      BY <2>5 DEF HeadersEnd
    <3>2. Parsed
      BY <1>2, <2>1, <3>1 DEF Parsed
    <3>3. Parsed' /\ RunOffInv'
      <4>1. Shape'
        BY <2>1, <3>1 DEF Pathed, Typed, Shape
      <4>. QED BY <2>1, <3>1, <3>2, <4>1, ParsedStays, NotRunOff DEF ParserInv
    <3>. QED BY <2>1, <3>1, <3>3 DEF ParserInv
  <2>. QED BY <2>2, <2>3, <2>4, <2>5
<1>. QED BY <1>1, <1>2

\* Where the empty line is and what is announced depends on no other variable.
LEMMA LengthStays ==
  ASSUME text' = text, rq'.headers = rq.headers
  PROVE  ContentLength' = ContentLength /\ BodyOf' = BodyOf /\ BadLength' = BadLength
<1>1. ContentLength' = ContentLength
  BY DEF ContentLength
<1>2. \A i : EmptyLine(i)' = EmptyLine(i)
  BY DEF EmptyLine
<1>. QED BY <1>1, <1>2 DEF BodyOf, BadLength

LEMMA BodyKeeps ==
  ASSUME ParserInv, GetBody
  PROVE  ParserInv'
<1>1. /\ Received /\ Parsed /\ pc = "body" /\ UNCHANGED <<sent, text>>
  BY DEF ParserInv, GetBody
<1>2. CASE BadLength
  <2>1. fate' = "badLength" /\ pc' = "over" /\ UNCHANGED rq
    BY <1>2 DEF GetBody, RunsOff
  <2>2. Parsed' /\ BadLength' /\ Received'
    <3>1. Shape'
      BY <1>1, <2>1 DEF Parsed, Pathed, Typed, Shape
    <3>. QED BY <1>1, <1>2, <2>1, <3>1, ParsedStays, LengthStays, StaysReceived
  <2>. QED BY <2>1, <2>2 DEF ParserInv, RunOffInv, RunOffs
<1>3. CASE ~BadLength
  <2>1. rq' = [rq EXCEPT !.body = BodyOf] /\ pc' = "lookup" /\ UNCHANGED fate
    BY <1>3 DEF GetBody
  <2>2. /\ rq'.type = rq.type /\ rq'.path = rq.path /\ rq'.query = rq.query
        /\ rq'.headers = rq.headers /\ rq'.body = BodyOf /\ Shape'
    BY <1>1, <2>1 DEF Parsed, Pathed, Typed, Shape
  <2>3. Parsed' /\ Received' /\ BodyOf' = BodyOf /\ BadLength' = BadLength
    BY <1>1, <2>2, ParsedStays, LengthStays, StaysReceived
  <2>4. Finished' /\ RunOffInv'
    BY <1>1, <1>3, <2>1, <2>2, <2>3, NotRunOff DEF Finished, ParserInv
  <2>. QED BY <2>1, <2>3, <2>4 DEF ParserInv
<1>. QED BY <1>2, <1>3

LEMMA FinishedStays ==
  ASSUME Received, Finished, UNCHANGED <<sent, text, rq>>
  PROVE  Finished'
<1>1. Parsed => Parsed'
  <2>1. Parsed => Shape'
    BY DEF Parsed, Pathed, Typed, Shape
  <2>. QED BY <2>1, ParsedStays
<1>2. TypeOf(sent)' = TypeOf(sent) /\ EmptyReq' = EmptyReq
  BY SameRequest DEF EmptyReq
<1>. QED BY <1>1, <1>2, LengthStays DEF Finished

LEMMA LookUpKeeps ==
  ASSUME ParserInv, LookUpHandler
  PROVE  ParserInv' /\ Looked'
<1>1. /\ Received /\ Finished /\ pc = "lookup" /\ pc' = "run" /\ UNCHANGED <<sent, text, rq, fate>>
      /\ handler' = LookUp(Handlers, <<rq.type, rq.path>>)
  BY DEF ParserInv, LookUpHandler
<1>2. Received' /\ RunOffInv'
  BY <1>1, StaysReceived, NotRunOff DEF ParserInv
<1>3. Handlers' = Handlers
  BY DEF Handlers, Add
<1>4. handler' = LookUp(Handlers, <<rq.type, rq.path>>)'
  BY <1>1, <1>3
<1>5. Looked'
  BY <1>1, <1>4, FinishedStays DEF Looked
<1>. QED BY <1>1, <1>2, <1>5 DEF ParserInv

LaterInv == pc \in Later => Looked

LEMMA ParsesKeeps ==
  ASSUME ParserInv, LaterInv, Accepts \/ Reads \/ Parses
  PROVE  ParserInv' /\ LaterInv'
<1>1. CASE Accepts
  BY <1>1, AcceptsKeeps DEF Accepts, LaterInv, Later
<1>2. CASE Reads
  BY <1>2, ReadsKeeps DEF LaterInv, Later
<1>3. CASE GetRequestType
  BY <1>3, TypeKeeps DEF GetRequestType, LaterInv, Later
<1>4. CASE GetRequestPath
  BY <1>4, PathKeeps DEF GetRequestPath, LaterInv, Later
<1>5. CASE GetQueries
  BY <1>5, QueriesKeeps DEF GetQueries, LaterInv, Later
<1>6. CASE AddsQuery
  <2>1. pc' \in {"over", "query", "headers"}
    BY <1>6 DEF AddsQuery, RunsOff
  <2>. QED BY <1>6, <2>1, QueryKeeps DEF LaterInv, Later
<1>7. CASE AddsHeader \/ HeadersRunOff \/ HeadersEnd
  <2>1. pc' \in {"over", "headers", "body"}
    BY <1>7 DEF AddsHeader, HeadersRunOff, HeadersEnd, RunsOff
  <2>. QED BY <1>7, <2>1, HeadersKeep DEF LaterInv, Later
<1>8. CASE GetBody
  BY <1>8, BodyKeeps DEF GetBody, RunsOff, LaterInv, Later
<1>9. CASE LookUpHandler
  BY <1>9, LookUpKeeps DEF LaterInv
<1>. QED BY <1>1, <1>2, <1>3, <1>4, <1>5, <1>6, <1>7, <1>8, <1>9 DEF Parses

\* The functions that follow leave the request as it is.
LEMMA LaterKeeps ==
  ASSUME ParserInv, LaterInv, pc \in Later, pc' \in Later \cup {"over"},
         UNCHANGED <<sent, text, rq, handler>>,
         fate' = fate \/ fate' \notin RunOffs
  PROVE  ParserInv' /\ LaterInv'
<1>1. Received /\ Looked /\ RunOffInv /\ pc # "over"
  BY DEF ParserInv, LaterInv, Later
<1>2. Received'
  BY <1>1, StaysReceived
<1>3. Looked'
  <2>1. Handlers' = Handlers
    BY DEF Handlers, Add
  <2>. QED BY <1>1, <2>1, FinishedStays DEF Looked
<1>4. fate' \notin RunOffs
  BY <1>1, NotRunOff
<1>5. pc' \notin {"accept", "read", "type", "path", "queries", "query", "headers", "body", "lookup"}
  BY DEF Later
<1>. QED BY <1>2, <1>3, <1>4, <1>5 DEF ParserInv, LaterInv, RunOffInv, RunOffs

-----------------------------------------------------------------------------
(* What has been parsed when the handler is looked up.                     *)

\* Two ends of lines before the empty line are at least five places apart.
LEMMA EndsApart ==
  ASSUME Received, NEW i \in 0 .. Len(Headers(sent)), NEW j \in 0 .. Len(Headers(sent))
  PROVE  Ends(sent)[j] # Ends(sent)[i] + 2
<1>. DEFINE o == Ends(sent)   m == Len(Headers(sent))
<1>1. m \in Nat /\ o \in [0 .. m -> Nat]
  BY ReceivedLayout
<1>2. \A k \in 1 .. m : o[k] >= o[k - 1] + 5
  <2>1. ASSUME NEW k \in 1 .. m PROVE o[k] >= o[k - 1] + 5
    <3>. DEFINE b == o[k - 1]   l == Len(Headers(sent)[k].value)
    <3>1. HeaderSeen(k, b, l)
      BY SeesHeader
    <3>2. b \in Nat /\ l \in Nat /\ o[k] = b + l + 5
      BY <3>1 DEF HeaderSeen
    <3>. HIDE DEF b, l
    <3>3. o[k] >= b + 5
      BY <3>2
    <3>. QED BY <3>3 DEF b
  <2>. QED BY <2>1
<1>. HIDE DEF o, m
<1>3. \A k \in 1 .. m : o[k] >= o[k - 1]
  <2>1. ASSUME NEW k \in 1 .. m PROVE o[k] >= o[k - 1]
    <3>1. k \in 0 .. m /\ k - 1 \in 0 .. m
      BY <1>1
    <3>2. o[k] \in Nat /\ o[k - 1] \in Nat
      BY <1>1, <3>1
    <3>. QED BY <1>2, <3>2
  <2>. QED BY <2>1
<1>4. \A k \in 0 .. m : \A h \in 0 .. k : o[h] <= o[k]
  BY <1>1, <1>3, Grows
<1>5. o[i] \in Nat /\ o[j] \in Nat
  BY <1>1 DEF m
<1>6. i \in 0 .. m /\ j \in 0 .. m
  BY DEF m
<1>7. CASE j <= i
  <2>1. j \in 0 .. i
    BY <1>1, <1>6, <1>7
  <2>2. o[j] <= o[i]
    BY <1>4, <1>6, <2>1
  <2>. QED BY <1>5, <2>2 DEF o
<1>8. CASE i < j
  <2>. DEFINE k == i + 1
  <2>1. k \in 1 .. m /\ k \in 0 .. j /\ k - 1 = i /\ k \in 0 .. m
    BY <1>1, <1>6, <1>8
  <2>. HIDE DEF k
  <2>2. o[k] <= o[j] /\ o[k] >= o[i] + 5 /\ o[k] \in Nat
    BY <1>1, <1>2, <1>4, <1>6, <2>1
  <2>. QED BY <1>5, <2>2 DEF o
<1>. QED BY <1>1, <1>6, <1>7, <1>8

\* The end of the last line before the empty line.
LEMMA LastLineEnds ==
  ASSUME Received
  PROVE  LET e == Ends(sent)[Len(Headers(sent))] IN
         e \in Nat /\ e >= 7 /\ Text(sent)[e - 1] = "CR" /\ Text(sent)[e] = "LF"
<1>. DEFINE o == Ends(sent)   m == Len(Headers(sent))   q == Len(sent.query)   t == Text(sent)   e == o[m]
<1>1. Layout(sent, o) /\ m \in Nat /\ q \in Nat
  BY ReceivedLayout
<1>2. e \in Nat /\ o[0] = 4 * q + 7 /\ o[0] <= e
  <2>1. 0 \in 0 .. m
    BY <1>1
  <2>. QED BY <2>1, EndsGrow
<1>3. e >= 7
  <2>. HIDE DEF e, o, q
  <2>. QED BY <1>1, <1>2
<1>4. CASE m = 0
  <2>1. t[4 * q + 6] = "CR" /\ t[4 * q + 7] = "LF"
    BY <1>1 DEF Layout, FirstLine
  <2>2. e = 4 * q + 7
    BY <1>2, <1>4
  <2>3. e - 1 = 4 * q + 6
    <3>. HIDE DEF q, e
    <3>. QED BY <1>1, <2>2
  <2>. HIDE DEF e, q
  <2>. QED BY <1>2, <1>3, <2>1, <2>2, <2>3 DEF e
<1>5. CASE m # 0
  <2>1. m \in 1 .. m
    BY <1>1, <1>5
  <2>. DEFINE b == o[m - 1]   l == Len(Headers(sent)[m].value)
  <2>2. HeaderAt(sent, m, b) /\ e = b + l + 5
    BY <1>1, <2>1 DEF Layout
  <2>3. HeaderSeen(m, b, l)
    BY <2>1, SeesHeader
  <2>4. b \in Nat /\ l \in Nat
    BY <2>3 DEF HeaderSeen
  <2>5. t[b + l + 4] = "CR" /\ t[b + l + 5] = "LF"
    BY <2>2 DEF HeaderAt
  <2>. HIDE DEF b, l
  <2>6. e - 1 = b + l + 4
    <3>. HIDE DEF e
    <3>. QED BY <2>2, <2>4
  <2>. HIDE DEF e
  <2>. QED BY <1>2, <1>3, <2>2, <2>5, <2>6 DEF e
<1>. QED BY <1>4, <1>5

LEMMA EmptyLineFound ==
  ASSUME Received
  PROVE  LET e == Ends(sent)[Len(Headers(sent))] IN
         EmptyLine(1) = IF e + 2 <= Len(text) THEN e - 1 ELSE 0
<1>. DEFINE n == Len(text)   o == Ends(sent)   m == Len(Headers(sent))   t == Text(sent)   e == o[m]
            I == {j \in 1 .. n - 3 : EmptyLineAt(j)}   j == e - 1
<1>1. /\ Layout(sent, o) /\ RequestOK(sent) /\ n \in Nat \ {0} /\ m \in Nat
      /\ text \in Seq(Symbols) /\ \A k \in 1 .. n : text[k] = t[k]
  BY ReceivedLayout DEF Received
<1>2. e \in Nat /\ e >= 7 /\ t[e - 1] = "CR" /\ t[e] = "LF"
  BY LastLineEnds
<1>3. t[e + 1] = "CR" /\ t[e + 2] = "LF"
  BY <1>1 DEF Layout
<1>4. EmptyLine(1) = IF I = {} THEN 0 ELSE Min(I)
  BY <1>1, EmptyLineIs
<1>5. \A k \in 1 .. e : t[k] = "CR" => \E i \in 0 .. m : k + 1 = o[i]
  BY <1>1, WordsInPlace
<1>6. \A i, h \in 0 .. m : o[h] # o[i] + 2
  BY EndsApart
<1>7. \A i \in 0 .. m : o[i] \in Nat
  BY EndsGrow
<1>. HIDE DEF n, o, m, t, e
<1>8. ASSUME NEW k \in 1 .. n - 3, EmptyLineAt(k)
      PROVE  k >= j
  <2>1. SUFFICES ASSUME ~(k >= j) PROVE FALSE
    OBVIOUS
  <2>2. k \in Nat /\ k \in 1 .. n /\ k + 2 \in 1 .. n /\ k \in 1 .. e /\ k + 2 \in 1 .. e
    BY <1>1, <1>2, <2>1
  <2>3. t[k] = "CR" /\ t[k + 2] = "CR"
    BY <1>1, <1>8, <2>2 DEF EmptyLineAt
  <2>4. PICK i \in 0 .. m : k + 1 = o[i]
    BY <1>5, <2>2, <2>3
  <2>5. PICK h \in 0 .. m : (k + 2) + 1 = o[h]
    BY <1>5, <2>2, <2>3
  <2>6. o[h] = o[i] + 2
    BY <2>2, <2>4, <2>5
  <2>. QED BY <1>6, <2>6
<1>9. I \subseteq 1 .. n - 3 /\ \A k \in I : k >= j
  BY <1>8
<1>10. j <= n - 3 => j \in I
  <2>1. SUFFICES ASSUME j <= n - 3 PROVE j \in I
    OBVIOUS
  <2>2. /\ j \in 1 .. n - 3 /\ j \in 1 .. n /\ j + 1 \in 1 .. n /\ j + 2 \in 1 .. n /\ j + 3 \in 1 .. n
        /\ j + 1 = e /\ j + 2 = e + 1 /\ j + 3 = e + 2
    BY <1>1, <1>2, <2>1
  <2>3. text[j] = "CR" /\ text[e] = "LF" /\ text[e + 1] = "CR" /\ text[e + 2] = "LF"
    BY <1>1, <1>2, <1>3, <2>2
  <2>4. EmptyLineAt(j)
    BY <2>2, <2>3 DEF EmptyLineAt
  <2>. QED BY <2>2, <2>4
<1>. HIDE DEF I
<1>11. IF j <= n - 3 THEN I # {} /\ Min(I) = j ELSE I = {}
  <2>. DEFINE k == n - 3
  <2>1. CASE k \in Nat
    <3>1. 1 \in Nat /\ j \in Nat /\ 1 <= j
      BY <1>2
    <3>. HIDE DEF j, k
    <3>2. I \subseteq 1 .. k /\ (j <= k => j \in I) /\ \A x \in I : x >= j
      BY <1>9, <1>10 DEF k
    <3>3. IF j <= k THEN I # {} /\ Min(I) = j ELSE I = {}
      BY <2>1, <3>1, <3>2, FirstIn
    <3>. QED BY <3>3 DEF k
  <2>2. CASE k \notin Nat
    <3>1. ~(j <= k) /\ \A x \in 1 .. k : FALSE
      BY <1>1, <1>2, <2>2
    <3>. QED BY <1>9, <3>1
  <2>. QED BY <2>1, <2>2
<1>12. j <= n - 3 <=> e + 2 <= n
  BY <1>1, <1>2
<1>13. EmptyLine(1) = IF e + 2 <= n THEN j ELSE 0
  BY <1>4, <1>11, <1>12
<1>. QED BY <1>13 DEF e, n, o, m

\* What follows the empty line, in the part that was read.
LEMMA RestSeen ==
  ASSUME Received
  PROVE  LET e == Ends(sent)[Len(Headers(sent))]  r == Len(Rest(sent))  n == Len(text) IN
         /\ e \in Nat /\ r \in Nat /\ n \in Nat /\ n <= (e + 2) + r
         /\ Len(Text(sent)) = (e + 2) + r
         /\ \A p \in 1 .. r : (e + 2) + p <= n => text[(e + 2) + p] = Rest(sent)[p]
<1>. DEFINE n == Len(text)   o == Ends(sent)   m == Len(Headers(sent))   t == Text(sent)   e == o[m]
            r == Len(Rest(sent))   c == e + 2
<1>1. /\ Layout(sent, o) /\ RequestOK(sent) /\ n \in Nat \ {0}
      /\ n \in 1 .. Len(t) /\ \A k \in 1 .. n : text[k] = t[k]
  BY ReceivedLayout DEF Received
<1>2. e \in Nat
  BY EndsGrow
<1>3. Long(t, c + r, Symbols) /\ r \in Nat /\ Holds(t, c, Rest(sent), r)
  BY <1>1 DEF Layout
<1>4. Len(t) = c + r /\ \A p \in 1 .. r : t[c + p] = Rest(sent)[p]
  BY <1>3 DEF Long, Holds
<1>. HIDE DEF n, t, e, r
<1>5. n <= c + r
  BY <1>1, <1>2, <1>3, <1>4
<1>6. \A p \in 1 .. r : c + p <= n => text[c + p] = Rest(sent)[p]
  <2>1. \A p \in 1 .. r : c + p <= n => c + p \in 1 .. n
    BY <1>1, <1>2, <1>3
  <2>. QED BY <1>1, <1>4, <2>1
<1>. QED BY <1>1, <1>2, <1>3, <1>4, <1>5, <1>6 DEF n, e, r, t

LEMMA OnlyPlace ==
  ASSUME NEW i \in Nat
  PROVE  Min({i}) = i
<1>1. {i} \subseteq Nat /\ i \in {i} /\ \A j \in {i} : i <= j
  OBVIOUS
<1>. QED BY <1>1, FirstPlaceIs

LEMMA SecondEmptyLine ==
  ASSUME Received, Len(text) >= Ends(sent)[Len(Headers(sent))] + 2
  PROVE  LET e == Ends(sent)[Len(Headers(sent))] IN
         EmptyLine(e + 3) =
           IF sent.closed /\ Len(text) = Len(Text(sent)) THEN (e + 3) + Len(sent.body) ELSE 0
<1>. DEFINE n == Len(text)   e == Ends(sent)[Len(Headers(sent))]   r == Len(Rest(sent))
            c == e + 2   s == e + 3   l == Len(sent.body)   u == Rest(sent)   j == s + l
            I == {k \in s .. n - 3 : EmptyLineAt(k)}
<1>1. /\ e \in Nat /\ r \in Nat /\ n \in Nat /\ n <= c + r /\ Len(Text(sent)) = c + r
      /\ \A p \in 1 .. r : c + p <= n => text[c + p] = u[p]
  BY RestSeen
<1>2. RequestOK(sent) /\ text \in Seq(Symbols)
  BY DEF Received
<1>3. /\ l \in Nat /\ r = l + (IF sent.closed THEN 4 ELSE 0)
      /\ \A p \in 1 .. l : u[p] = sent.body[p]
      /\ sent.closed => /\ u[l + 1] = "CR" /\ u[l + 2] = "LF"
                        /\ u[l + 3] = "CR" /\ u[l + 4] = "LF"
  BY <1>2, RestType
<1>4. \A p \in 1 .. l : u[p] # "CR"
  <2>1. sent.body \in Seq(Symbols) /\ {"CR", "LF"} \cap ToSet(sent.body) = {}
    BY <1>2 DEF RequestOK
  <2>2. \A p \in 1 .. l : sent.body[p] \in ToSet(sent.body)
    BY <2>1 DEF ToSet
  <2>. QED BY <1>3, <2>1, <2>2
<1>5. EmptyLine(s) = IF I = {} THEN 0 ELSE Min(I)
  <2>1. s \in Nat \ {0}
    <3>. HIDE DEF e
    <3>. QED BY <1>1
  <2>. QED BY <1>2, <2>1, EmptyLineIs
<1>6. n >= c
  OBVIOUS
<1>. DEFINE full == n = Len(Text(sent))   closed == sent.closed
<1>7. full <=> n = c + r
  BY <1>1
<1>8. r = l + (IF closed THEN 4 ELSE 0) /\ (closed \/ ~closed)
  BY <1>3
<1>. HIDE DEF n, e, r, l, u, full, closed
<1>9. ASSUME NEW k \in s .. n - 3, EmptyLineAt(k)
      PROVE  closed /\ k = j /\ full
  <2>. DEFINE p == k - c
  <2>1. p \in 1 .. r /\ c + p = k /\ c + p <= n /\ p + 3 <= r
    BY <1>1, <1>6
  <2>2. u[p] = "CR"
    <3>1. text[k] = "CR"
      BY <1>9 DEF EmptyLineAt
    <3>. HIDE DEF p, c
    <3>. QED BY <1>1, <2>1, <3>1
  <2>3. p > l
    <3>1. p \notin 1 .. l
      BY <1>4, <2>2
    <3>. HIDE DEF p
    <3>. QED BY <1>1, <1>3, <2>1, <3>1
  <2>4. closed
    <3>1. ~closed => r = l
      BY <1>3, <1>8
    <3>. HIDE DEF p
    <3>. QED BY <1>1, <1>3, <2>1, <2>3, <3>1
  <2>5. r = l + 4
    BY <1>8, <2>4
  <2>6. p = l + 1
    <3>. HIDE DEF p
    <3>. QED BY <1>1, <1>3, <2>1, <2>3, <2>5
  <2>7. k = j /\ n = c + r
    BY <1>1, <1>3, <2>5, <2>6
  <2>. QED BY <1>7, <2>4, <2>7
<1>10. ASSUME closed, full
       PROVE  j \in I
  <2>1. r = l + 4 /\ n = c + r
    BY <1>7, <1>8, <1>10
  <2>2. /\ j = c + (l + 1) /\ j + 1 = c + (l + 2) /\ j + 2 = c + (l + 3) /\ j + 3 = c + (l + 4)
        /\ l + 1 \in 1 .. r /\ l + 2 \in 1 .. r /\ l + 3 \in 1 .. r /\ l + 4 \in 1 .. r
    BY <1>1, <1>3, <2>1
  <2>6. j \in s .. n - 3
    BY <1>1, <1>3, <2>1
  <2>7. c + (l + 1) <= n /\ c + (l + 2) <= n /\ c + (l + 3) <= n /\ c + (l + 4) <= n
    BY <1>1, <1>3, <2>1
  <2>3. u[l + 1] = "CR" /\ u[l + 2] = "LF" /\ u[l + 3] = "CR" /\ u[l + 4] = "LF"
    BY <1>3, <1>10 DEF l, u, closed
  <2>. HIDE DEF c, j
  <2>4. /\ text[j] = "CR" /\ text[j + 1] = "LF" /\ text[j + 2] = "CR" /\ text[j + 3] = "LF"
    BY <1>1, <2>2, <2>3, <2>7
  <2>5. EmptyLineAt(j)
    BY <2>4 DEF EmptyLineAt
  <2>. QED BY <2>5, <2>6
<1>11. CASE closed /\ full
  <2>1. \A k \in I : k = j
    BY <1>9
  <2>2. I = {j} /\ j \in Nat
    <3>1. j \in Nat
      BY <1>1, <1>3
    <3>. HIDE DEF I, j
    <3>. QED BY <1>10, <1>11, <2>1, <3>1
  <2>3. Min({j}) = j
    <3>. HIDE DEF j
    <3>. QED BY <2>2, OnlyPlace
  <2>. QED BY <1>5, <1>11, <2>2, <2>3 DEF closed, full, n, l, e
<1>12. CASE ~(closed /\ full)
  <2>1. I = {}
    BY <1>9, <1>12
  <2>. QED BY <1>5, <1>12, <2>1 DEF closed, full, n, l, e
<1>. QED BY <1>11, <1>12

\* The announcement is the only header of its name.
LEMMA LengthIs ==
  ASSUME Received, HeadersListed(Len(Headers(sent)))
  PROVE  ContentLength = LengthOf(sent)
<1>. DEFINE h == Headers(sent)   m == Len(h)   k == Len(sent.headers)   d == sent.length
            value == LookUp(rq.headers, <<"Content-Length">>)
<1>1. RequestOK(sent) /\ m \in Nat
  BY ReceivedLayout
<1>2. /\ sent.length = "none" => h = sent.headers
      /\ sent.length # "none" =>
           /\ m = k + 1 /\ \A i \in 1 .. k : h[i] = sent.headers[i]
           /\ h[k + 1] = [name |-> "Content-Length", mark |-> ":", value |-> <<d>>]
  BY <1>1, HeadersType
<1>3. k \in Nat /\ \A i \in 1 .. k : sent.headers[i].name = "Host"
  <2>1. sent.headers \in Seq(HeaderPairs) /\ \A i \in DOMAIN sent.headers : sent.headers[i].name = "Host"
    BY <1>1 DEF RequestOK
  <2>. QED BY <2>1, LenProperties
<1>4. \A x : \/ LookUp(rq.headers, x) = NULL /\ \A i \in 1 .. m : HNames(sent)[i] # x
             \/ \E i \in 1 .. m : LookUp(rq.headers, x) = HValues(sent)[i] /\ HNames(sent)[i] = x
  BY DEF HeadersListed, Listed
<1>5. \A i \in 1 .. m : HNames(sent)[i] = <<h[i].name>> /\ HValues(sent)[i] = h[i].value
  BY DEF HNames, HValues
<1>6. <<"Host">> # <<"Content-Length">>
  OBVIOUS
<1>7. CASE sent.length = "none"
  <2>1. \A i \in 1 .. m : HNames(sent)[i] = <<"Host">>
    BY <1>2, <1>3, <1>5, <1>7
  <2>2. value = NULL
    <3>. HIDE DEF m
    <3>. QED BY <1>4, <1>6, <2>1
  <2>. QED BY <1>7, <2>2 DEF ContentLength, LengthOf
<1>8. CASE sent.length # "none"
  <2>1. \A i \in 1 .. k : HNames(sent)[i] = <<"Host">>
    <3>1. \A i \in 1 .. k : i \in 1 .. m
      <4>1. m = k + 1
        BY <1>2, <1>8
      <4>. HIDE DEF m, k
      <4>. QED BY <1>3, <4>1
    <3>. QED BY <1>2, <1>3, <1>5, <1>8, <3>1
  <2>2. HNames(sent)[m] = <<"Content-Length">> /\ HValues(sent)[m] = <<d>> /\ m \in 1 .. m
    <3>1. m = k + 1 /\ m \in 1 .. m
      <4>1. m = k + 1
        BY <1>2, <1>8
      <4>. HIDE DEF m, k
      <4>. QED BY <1>3, <4>1
    <3>2. h[m].name = "Content-Length" /\ h[m].value = <<d>>
      BY <1>2, <1>8, <3>1
    <3>. QED BY <1>5, <3>1, <3>2
  <2>3. \A i \in 1 .. m : i = m \/ i \in 1 .. k
    <3>1. m = k + 1
      BY <1>2, <1>8
    <3>. HIDE DEF m, k
    <3>. QED BY <1>3, <3>1
  <2>4. value = <<d>>
    <3>. HIDE DEF m, k, d
    <3>. QED BY <1>4, <1>6, <2>1, <2>2, <2>3
  <2>5. d \in DOMAIN Number /\ d \in Symbols
    BY <1>1, <1>8, TextAssumption DEF RequestOK, Symbols
  <2>. HIDE DEF d, value
  <2>6. value # NULL /\ value # <<>> /\ value[1] = d
    <3>1. <<d>> \in Seq(Symbols) /\ <<d>>[1] = d
      BY <2>5, ShortTexts
    <3>. QED BY <2>4, <3>1, NullAssumption
  <2>7. ContentLength = Number[d]
    BY <2>5, <2>6 DEF ContentLength, value
  <2>. QED BY <1>8, <2>7 DEF LengthOf, d
<1>. QED BY <1>7, <1>8

LEMMA LengthType == ContentLength \in Int
<1>1. \A d \in DOMAIN Number : Number[d] \in Int
  BY TextAssumption
<1>. QED BY <1>1 DEF ContentLength

LEMMA FirstOfTwo ==
  ASSUME NEW i \in Nat, NEW j \in Nat
  PROVE  Min({i, j}) = IF i <= j THEN i ELSE j
<1>1. {i, j} \subseteq Nat /\ i \in {i, j} /\ j \in {i, j}
  OBVIOUS
<1>2. CASE i <= j
  <2>1. \A k \in {i, j} : i <= k
    BY <1>2
  <2>. QED BY <1>1, <1>2, <2>1, FirstPlaceIs
<1>3. CASE ~(i <= j)
  <2>1. \A k \in {i, j} : j <= k
    BY <1>3
  <2>2. Min({i, j}) = j
    BY <1>1, <2>1, FirstPlaceIs
  <2>. QED BY <1>3, <2>2
<1>. QED BY <1>2, <1>3

\* The front part of what follows the empty line.
LEMMA RestSlice ==
  ASSUME Received, NEW k \in Nat, NEW c, c = Ends(sent)[Len(Headers(sent))] + 2,
         c + k <= Len(text)
  PROVE  /\ SubSeq(text, c + 1, c + k) = SubSeq(Rest(sent), 1, k)
         /\ k <= Len(Rest(sent)) /\ SubSeq(Rest(sent), 1, k) \in Seq(Symbols)
<1>. DEFINE n == Len(text)   u == Rest(sent)   r == Len(u)   v == SubSeq(u, 1, k)
            e == Ends(sent)[Len(Headers(sent))]
<1>1. /\ e \in Nat /\ r \in Nat /\ n \in Nat /\ n <= (e + 2) + r
      /\ \A p \in 1 .. r : (e + 2) + p <= n => text[(e + 2) + p] = u[p]
  BY RestSeen
<1>2. text \in Seq(Symbols) /\ u \in Seq(Symbols)
  BY RestType DEF Received
<1>3. c = e + 2 /\ c + k <= n
  OBVIOUS
<1>. HIDE DEF n, u, r, e
<1>4. c \in Nat /\ k <= r
  BY <1>1, <1>3
<1>5. Long(v, k, Symbols) /\ Holds(u, 0, v, k)
  BY <1>2, <1>4, FrontPart DEF r
<1>6. \A p \in 1 .. k : u[p] = v[p]
  <2>1. \A p \in 1 .. k : 0 + p = p
    OBVIOUS
  <2>. QED BY <1>5, <2>1 DEF Holds
<1>. HIDE DEF v
<1>7. Holds(text, c, v, k)
  <2>1. ASSUME NEW p \in 1 .. k PROVE text[c + p] = v[p]
    <3>1. c + p = (e + 2) + p
      BY <1>3
    <3>2. p \in 1 .. r
      BY <1>1, <1>4
    <3>3. c + p <= n
      BY <1>1, <1>3, <1>4
    <3>. QED BY <1>1, <1>6, <3>1, <3>2, <3>3
  <2>. QED BY <2>1 DEF Holds
<1>8. SubSeq(text, c + 1, c + k) = v
  BY <1>2, <1>3, <1>4, <1>5, <1>7, SliceIs DEF n
<1>. QED BY <1>4, <1>5, <1>8 DEF Long, v, r, u

\* What GetBody takes, given what atoi has made of the announcement.
LEMMA BodyIs ==
  ASSUME Received, NEW d \in Nat \cup {-1}, ContentLength = d
  PROVE  LET c == Ends(sent)[Len(Headers(sent))] + 2  n == Len(text) IN
         BodyOf = IF n < c THEN NULL
                  ELSE IF d # -1
                    THEN SubSeq(Rest(sent), 1, IF n - c <= d THEN n - c ELSE d)
                  ELSE IF sent.closed /\ n = Len(Text(sent)) THEN Rest(sent) ELSE NULL
<1>. DEFINE n == Len(text)   u == Rest(sent)   r == Len(u)   e == Ends(sent)[Len(Headers(sent))]
            c == e + 2
<1>1. e \in Nat /\ r \in Nat /\ n \in Nat /\ n <= c + r /\ Len(Text(sent)) = c + r
  BY RestSeen
<1>2. e >= 7
  BY LastLineEnds
<1>3. RequestOK(sent) /\ text \in Seq(Symbols) /\ u \in Seq(Symbols)
  BY RestType DEF Received
<1>4. EmptyLine(1) = IF e + 2 <= n THEN e - 1 ELSE 0
  BY EmptyLineFound
<1>5. CASE n < c
  <2>1. EmptyLine(1) = 0
    <3>1. ~(e + 2 <= n)
      <4>. HIDE DEF e, n
      <4>. QED BY <1>1, <1>5
    <3>. QED BY <1>4, <3>1
  <2>. QED BY <1>5, <2>1 DEF BodyOf
<1>6. CASE ~(n < c)
  <2>. DEFINE start == EmptyLine(1) + 4   close == EmptyLine(start)
  <2>1. e + 2 <= n /\ c <= n /\ (e - 1) + 4 = e + 3 /\ e - 1 # 0 /\ c + 1 = e + 3 /\ n - c \in Nat
        /\ n - c <= r /\ c + (n - c) = n /\ c \in Nat
    <3>. HIDE DEF e, n, r
    <3>. QED BY <1>1, <1>2, <1>6
  <2>2. EmptyLine(1) # 0 /\ start = e + 3
    BY <1>4, <2>1
  <2>3. CASE d # -1
    <3>2. d \in Nat
      BY <2>3
    <3>3. BodyOf = SubSeq(text, start, Min({n, start + d - 1}))
      BY <2>2, <2>3 DEF BodyOf
    <3>. DEFINE k == IF n - c <= d THEN n - c ELSE d
    <3>. HIDE DEF n, e, r, u
    <3>4. k \in Nat /\ c + k <= n /\ start = c + 1
          /\ (IF n <= c + d THEN n ELSE c + d) = c + k
      BY <1>1, <2>1, <2>2, <3>2
    <3>. HIDE DEF start
    <3>5. start + d - 1 = c + d /\ c + d \in Nat
      BY <2>1, <3>2, <3>4
    <3>. HIDE DEF k, c
    <3>6. Min({n, start + d - 1}) = c + k
      BY <1>1, <3>4, <3>5, FirstOfTwo
    <3>7. SubSeq(text, c + 1, c + k) = SubSeq(Rest(sent), 1, k)
      BY <3>4, RestSlice DEF c, e, n
    <3>8. BodyOf = SubSeq(Rest(sent), 1, k)
      BY <3>3, <3>4, <3>6, <3>7
    <3>. QED BY <1>6, <2>3, <3>8 DEF k, c, n, e
  <2>4. CASE d = -1
    <3>2. BodyOf = IF close = 0 THEN NULL ELSE SubSeq(text, start, close + 3)
      BY <2>2, <2>4 DEF BodyOf
    <3>3. close = IF sent.closed /\ n = Len(Text(sent)) THEN (e + 3) + Len(sent.body) ELSE 0
      <4>1. Len(text) >= Ends(sent)[Len(Headers(sent))] + 2
        <5>. HIDE DEF e, n
        <5>1. n >= e + 2
          BY <1>1, <2>1
        <5>. QED BY <5>1 DEF n, e
      <4>. QED BY <2>2, <4>1, SecondEmptyLine
    <3>4. CASE sent.closed /\ n = Len(Text(sent))
      <4>1. Len(sent.body) \in Nat /\ r = Len(sent.body) + 4
        BY <1>3, <3>4, RestType
      <4>. DEFINE l == Len(sent.body)
      <4>2. n = c + r /\ r = l + 4 /\ l \in Nat
        BY <1>1, <3>4, <4>1
      <4>3. close = (e + 3) + l /\ start = e + 3
        BY <2>2, <3>3, <3>4
      <4>. HIDE DEF close, start, l, n, r, e, u
      <4>4. close # 0 /\ close + 3 = c + r /\ start = c + 1 /\ c + r <= n
        BY <1>1, <4>2, <4>3
      <4>5. SubSeq(text, c + 1, c + r) = SubSeq(u, 1, r)
        BY <1>1, <4>4, RestSlice DEF e, n, u
      <4>6. SubSeq(u, 1, r) = u
        BY <1>3, SubSeqFull DEF r
      <4>7. BodyOf = u
        BY <3>2, <4>4, <4>5, <4>6
      <4>. QED BY <1>6, <2>4, <3>4, <4>7 DEF u, n, e
    <3>5. CASE ~(sent.closed /\ n = Len(Text(sent)))
      BY <1>6, <2>4, <3>2, <3>3, <3>5
    <3>. QED BY <3>4, <3>5
  <2>. QED BY <2>3, <2>4
<1>. QED BY <1>5, <1>6

\* The registered handlers.
LEMMA HandlerIs ==
  ASSUME NEW type, NEW path
  PROVE  LookUp(Handlers, <<type, path>>) =
           IF type = "POST" /\ path = <<"/validate">> THEN "ValidateToken"
           ELSE IF type = "GET" /\ path = <<"/token">> THEN "AskToken" ELSE NULL
<1>. DEFINE x == <<type, path>>
            a == [name |-> <<"GET", <<"/token">>>>, value |-> "AskToken"]
            b == [name |-> <<"POST", <<"/validate">>>>, value |-> "ValidateToken"]
            S == {a, b}
<1>1. Handlers = <<b>> \o (<<a>> \o <<>>)
  BY DEF Handlers, Add
<1>3. DOMAIN Handlers = {1, 2} /\ Handlers[1] = b /\ Handlers[2] = a
  <2>. DEFINE y == <<a>>
              z == <<b>>
  <2>1. /\ y \in Seq(S) /\ Len(y) = 1 /\ y[1] = a
        /\ z \in Seq(S) /\ Len(z) = 1 /\ z[1] = b
    OBVIOUS
  <2>2. y \o <<>> = y
    BY <2>1, ConcatEmptySeq
  <2>. HIDE DEF y, z, a, b
  <2>3. Handlers = z \o y
    BY <1>1, <2>2 DEF y, z
  <2>4. /\ z \o y \in Seq(S) /\ Len(z \o y) = 1 + 1
        /\ (z \o y)[1] = b /\ (z \o y)[1 + 1] = a
    <3>1. 1 \in 1 .. Len(z) /\ 1 \in 1 .. Len(y)
      BY <2>1
    <3>. QED BY <2>1, <3>1, ConcatAt
  <2>5. DOMAIN (z \o y) = 1 .. 2
    BY <2>4, LenProperties
  <2>6. 1 .. 2 = {1, 2} /\ 1 + 1 = 2
    OBVIOUS
  <2>. QED BY <2>3, <2>4, <2>5, <2>6
<1>4. b.name = x <=> type = "POST" /\ path = <<"/validate">>
  OBVIOUS
<1>5. a.name = x <=> type = "GET" /\ path = <<"/token">>
  OBVIOUS
<1>6. a.value = "AskToken" /\ b.value = "ValidateToken"
  OBVIOUS
<1>. HIDE DEF a, b, x
<1>7. Matches(Handlers, x) = {i \in {1, 2} : Handlers[i].name = x}
  BY <1>3 DEF Matches
<1>8. Matches(Handlers, x) \subseteq Nat
  BY <1>7
<1>9. CASE b.name = x
  <2>1. 1 \in Matches(Handlers, x) /\ \A j \in Matches(Handlers, x) : 1 <= j
    BY <1>3, <1>7, <1>9
  <2>2. LookUp(Handlers, x) = "ValidateToken"
    BY <1>3, <1>6, <1>8, <2>1, LookUpIs
  <2>. QED BY <1>4, <1>9, <2>2 DEF x
<1>10. CASE b.name # x /\ a.name = x
  <2>1. 2 \in Matches(Handlers, x) /\ \A j \in Matches(Handlers, x) : 2 <= j
    BY <1>3, <1>7, <1>10
  <2>2. LookUp(Handlers, x) = "AskToken"
    BY <1>3, <1>6, <1>8, <2>1, LookUpIs
  <2>. QED BY <1>4, <1>5, <1>10, <2>2 DEF x
<1>11. CASE b.name # x /\ a.name # x
  <2>1. Matches(Handlers, x) = {}
    BY <1>3, <1>7, <1>11
  <2>2. LookUp(Handlers, x) = NULL
    BY <2>1 DEF LookUp
  <2>. QED BY <1>4, <1>5, <1>11, <2>2 DEF x
<1>. QED BY <1>9, <1>10, <1>11

LEMMA NothingChanges ==
  ASSUME ParserInv, LaterInv, UNCHANGED parserVars
  PROVE  ParserInv' /\ LaterInv'
<1>1. UNCHANGED <<sent, text, pc, ptr, rq, handler, fate>>
  BY DEF parserVars
<1>2. Received' = Received
  BY <1>1 DEF Received
<1>3. Typed' = Typed /\ Pathed' = Pathed
  BY <1>1, SameRequest DEF Typed, Pathed, Shape, PathOK
<1>4. AtQuery' = AtQuery /\ AtHeader' = AtHeader /\ BehindLine' = BehindLine
  BY <1>1, SameRequest DEF AtQuery, AtHeader, BehindLine, QueryListed, HeadersListed
<1>5. Parsed' = Parsed
  BY <1>1, <1>3, <1>4, SameRequest DEF Parsed, QueryListed, HeadersListed
<1>6. BodyOf' = BodyOf /\ BadLength' = BadLength
  BY <1>1, LengthStays
<1>7. Finished' = Finished
  <2>1. EmptyReq' = EmptyReq
    BY DEF EmptyReq
  <2>. QED BY <1>1, <1>5, <1>6, <2>1, SameRequest DEF Finished
<1>8. Looked' = Looked
  <2>1. Handlers' = Handlers
    BY DEF Handlers, Add
  <2>. QED BY <1>1, <1>7, <2>1 DEF Looked
<1>9. CutShort' = CutShort
  BY <1>1, <1>2 DEF CutShort
<1>10. (rq' = EmptyReq') = (rq = EmptyReq)
  BY <1>1 DEF EmptyReq
<1>11. RunOffInv' = RunOffInv
  BY <1>1, <1>5, <1>6, <1>9, SameRequest DEF RunOffInv
<1>12. ParserInv'
  BY <1>1, <1>2, <1>3, <1>4, <1>5, <1>7, <1>10, <1>11, SameRequest DEF ParserInv
<1>. QED BY <1>1, <1>8, <1>12 DEF LaterInv
=============================================================================
