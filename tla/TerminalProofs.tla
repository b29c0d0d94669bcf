--------------------------- MODULE TerminalProofs ---------------------------
(* Standard input: what the prompts cut off of lines of any length, and that every  *)
(* prompt takes the next line, whole, when lines fit the buffer.                     *)
EXTENDS Terminal, SequenceTheorems, WellFoundedInduction, TLAPS

Place == Nat \X Nat

TypeInv ==
  /\ input \in Inputs
  /\ typed \in Seq(0 .. input.longest) /\ at \in {"poll", "fgets"}
  /\ kernel \in Seq(Place) /\ stdio \in Seq(Place) /\ userInput \in Seq(Place)
  /\ answers \in Seq(Seq(Place))

\* What no prompt has taken yet, the line it is from and how much of it is taken.
ahead == stdio \o kernel
current == Len(answers) + 1
got == IF at = "fgets" THEN Len(userInput) ELSE 0

\* The character behind the first n of a line, and the one behind a character.
Char(line, n) == IF n = typed[line] THEN Newline(line) ELSE <<line, n + 1>>
After(char) == IF IsNewline(char) THEN Char(char[1] + 1, 0) ELSE Char(char[1], char[2])

\* The characters of its line that stand before one.
Before(char) == IF IsNewline(char) THEN typed[char[1]] ELSE char[2] - 1

room == BufSize - 1

\* What is ahead goes on, character by character, to the end of the last line.
Ends == IF ahead = <<>> THEN at = "poll" ELSE ahead[Len(ahead)] = Newline(Len(typed))

GoesOn == \A i \in 1 .. Len(ahead) - 1 : ahead[i + 1] = After(ahead[i])

OfLines ==
  \A i \in 1 .. Len(ahead) :
    ahead[i][1] \in 1 .. Len(typed) /\ ahead[i][2] \in 0 .. typed[ahead[i][1]]

\* Of the line ahead full buffers have been taken, and what the buffer holds now.
Filled ==
  /\ got < room
  /\ ahead # <<>> => \E n \in Nat : Before(ahead[1]) = n * room + got

InOrder == TypeInv /\ Ends /\ GoesOn /\ OfLines /\ Filled /\ OnlyFullBuffersLoseText

\* With lines that fit, each is taken by one prompt: the lines answered come before
\* the line ahead, and the buffer holds what is taken of that line.
Begins ==
  IF ahead = <<>> THEN Len(answers) = Len(typed)
  ELSE current <= Len(typed) /\ got <= typed[current] /\ ahead[1] = Char(current, got)

Taken == at = "fgets" => userInput = Text(current, Len(userInput))

LineByLine == Begins /\ Taken

-----------------------------------------------------------------------------
LEMMA LeastPlace ==
  ASSUME NEW I, I \subseteq Nat, I # {}
  PROVE  Min(I) \in I /\ \A j \in I : Min(I) <= j
<1>1. PICK i \in I : \A j \in I : <<j, i>> \notin OpToRel(<, Nat)
  BY WFMin, NatLessThanWellFounded, Zenon
<1>2. \A j \in I : ~(j < i)
  BY <1>1, Zenon DEF OpToRel
<1>3. \A j \in I : i =< j
  BY <1>2
<1>. QED BY <1>3 DEF Min

LEMMA LongestType == TypeInv => input.longest \in Nat
BY TerminalAssumption DEF TypeInv

\* A read() of stdio takes no more than the kernel holds.
LEMMA AvailableIsThere ==
  ASSUME kernel \in Seq(Place), kernel # <<>>
  PROVE  Available \in 1 .. Len(kernel)
<1>. DEFINE ends == {i \in DOMAIN kernel : IsNewline(kernel[i])}
            most == IF input.source = "tty" /\ ends # {} THEN Min(ends) ELSE Len(kernel)
<1>1. DOMAIN kernel = 1 .. Len(kernel) /\ Len(kernel) \in Nat \ {0}
  OBVIOUS
<1>2. ends \subseteq Nat /\ ends \subseteq 1 .. Len(kernel)
  BY <1>1
<1>3. ends # {} => Min(ends) \in ends
  BY <1>2, LeastPlace
<1>4. most \in 1 .. Len(kernel)
  <2>1. Len(kernel) \in 1 .. Len(kernel)
    BY <1>1
  <2>2. ends # {} => Min(ends) \in 1 .. Len(kernel)
    BY <1>2, <1>3, Zenon
  <2>. HIDE DEF ends
  <2>. QED BY <2>1, <2>2
<1>5. Available = Min({most, ReadSize})
  BY DEF Available
<1>. HIDE DEF most
<1>6. ReadSize \in Nat \ {0}
  BY TerminalAssumption
<1>7. Min({most, ReadSize}) \in {most, ReadSize} /\ Min({most, ReadSize}) <= most
  <2>1. {most, ReadSize} \subseteq Nat /\ {most, ReadSize} # {} /\ most \in {most, ReadSize}
    BY <1>1, <1>4, <1>6
  <2>. QED BY <2>1, LeastPlace
<1>8. PICK n : n = Available
  OBVIOUS
<1>9. (n = most \/ n = ReadSize) /\ n <= most
  BY <1>5, <1>7, <1>8
<1>10. n \in 1 .. Len(kernel)
  BY <1>1, <1>4, <1>6, <1>9
<1>. QED BY <1>8, <1>10

\* What is ahead, place by place.
LEMMA Joined ==
  ASSUME NEW s \in Seq(Place), NEW t \in Seq(Place)
  PROVE  /\ s \o t \in Seq(Place) /\ Len(s) \in Nat /\ Len(t) \in Nat
         /\ Len(s \o t) = Len(s) + Len(t)
         /\ \A i \in 1 .. Len(s) : (s \o t)[i] = s[i]
         /\ \A i \in 1 .. Len(t) : (s \o t)[Len(s) + i] = t[i]
BY ConcatProperties

LEMMA JoinedInTurn ==
  ASSUME NEW s \in Seq(Place), NEW t \in Seq(Place), NEW u \in Seq(Place)
  PROVE  s \o (t \o u) = (s \o t) \o u
BY ConcatAssociative

LEMMA AheadPlaces ==
  ASSUME TypeInv
  PROVE  /\ ahead \in Seq(Place) /\ Len(ahead) = Len(stdio) + Len(kernel)
         /\ \A i \in 1 .. Len(stdio) : ahead[i] = stdio[i]
         /\ \A i \in 1 .. Len(kernel) : ahead[Len(stdio) + i] = kernel[i]
<1>1. stdio \in Seq(Place) /\ kernel \in Seq(Place)
  BY DEF TypeInv
<1>. QED BY <1>1, ConcatProperties DEF ahead

-----------------------------------------------------------------------------
(* One step each.                                                          *)

LEMMA StartsInOrder == Init => InOrder /\ LineByLine
<1>. SUFFICES ASSUME Init PROVE InOrder /\ LineByLine
  OBVIOUS
<1>1. TypeInv
  BY DEF Init, TypeInv
<1>2. ahead = <<>> /\ Len(ahead) = 0 /\ Len(answers) = 0 /\ Len(typed) = 0
  <2>1. ahead = <<>> \o <<>>
    BY DEF Init, ahead
  <2>2. <<>> \o <<>> = <<>>
    OBVIOUS
  <2>. QED BY <2>1, <2>2 DEF Init
<1>3. got < room
  BY TerminalAssumption DEF Init, got, room
<1>. QED BY <1>1, <1>2, <1>3
      DEF Init, InOrder, LineByLine, Ends, Filled, Begins, GoesOn, OfLines, Taken,
          OnlyFullBuffersLoseText

\* A new line is ahead of nothing else.
LEMMA EntersKeeps ==
  ASSUME InOrder, Enters
  PROVE  InOrder' /\ (LineByLine => LineByLine')
<1>. DEFINE next == Len(typed) + 1
<1>0. PICK line \in Nat \ {0} : line = next
  BY DEF InOrder, TypeInv
<1>1. PICK length \in 0 .. input.longest :
        /\ typed' = Append(typed, length)
        /\ kernel' = kernel \o Append(Text(line, length), Newline(line))
  BY <1>0 DEF Enters
<1>2. UNCHANGED <<input, stdio, userInput, at, answers, cuts>>
  BY DEF Enters
<1>3. TypeInv
  BY DEF InOrder
<1>. DEFINE new == Append(Text(line, length), Newline(line))
<1>4. /\ line \in Nat \ {0} /\ length \in Nat /\ Len(typed) \in Nat
      /\ typed' \in Seq(0 .. input.longest) /\ Len(typed') = line /\ typed'[line] = length
      /\ \A l \in 1 .. Len(typed) : typed'[l] = typed[l]
  <2>1. typed \in Seq(0 .. input.longest) /\ input.longest \in Nat
    BY <1>3, TerminalAssumption DEF TypeInv
  <2>2. typed' = Append(typed, length) /\ length \in 0 .. input.longest
    BY <1>1
  <2>. QED BY <2>1, <2>2, <1>0, AppendProperties
<1>5. /\ new \in Seq(Place) /\ Len(new) = length + 1
      /\ \A i \in 1 .. length : new[i] = <<line, i>>
      /\ new[length + 1] = <<line, 0>>
  <2>1. Text(line, length) \in Seq(Place) /\ Len(Text(line, length)) = length
    BY <1>4 DEF Text, Place
  <2>2. \A i \in 1 .. length : Text(line, length)[i] = <<line, i>>
    BY DEF Text
  <2>3. Newline(line) \in Place /\ Newline(line) = <<line, 0>>
    BY <1>4 DEF Newline, Place
  <2>. QED BY <1>4, <2>1, <2>2, <2>3, AppendProperties
<1>. HIDE DEF new
<1>6. TypeInv'
  <2>1. kernel \in Seq(Place) /\ kernel' = kernel \o new
    BY <1>1, <1>3 DEF TypeInv, new
  <2>2. kernel' \in Seq(Place)
    BY <2>1, <1>5, ConcatProperties
  <2>. QED BY <2>2, <1>2, <1>3, <1>4 DEF TypeInv
<1>7. /\ Len(ahead) \in Nat /\ Len(ahead') = Len(ahead) + length + 1
      /\ \A i \in 1 .. Len(ahead) : ahead'[i] = ahead[i]
      /\ \A i \in 1 .. length + 1 : ahead'[Len(ahead) + i] = new[i]
  <2>1. ahead \in Seq(Place) /\ stdio \in Seq(Place) /\ kernel \in Seq(Place)
    BY <1>3, AheadPlaces DEF TypeInv
  <2>2. ahead' = ahead \o new
    <3>1. ahead' = stdio \o (kernel \o new)
      BY <1>1, <1>2 DEF ahead, new
    <3>2. stdio \o (kernel \o new) = (stdio \o kernel) \o new
      BY <2>1, <1>5, JoinedInTurn
    <3>. QED BY <3>1, <3>2 DEF ahead
  <2>3. /\ Len(ahead) \in Nat /\ Len(ahead \o new) = Len(ahead) + Len(new)
        /\ \A i \in 1 .. Len(ahead) : (ahead \o new)[i] = ahead[i]
        /\ \A i \in 1 .. Len(new) : (ahead \o new)[Len(ahead) + i] = new[i]
    BY <2>1, <1>5, Joined
  <2>. QED BY <2>2, <2>3, <1>4, <1>5
<1>8. \A i \in 1 .. length + 1 : new[i] = Char(line, i - 1)'
  <2>. SUFFICES ASSUME NEW i \in 1 .. length + 1 PROVE new[i] = Char(line, i - 1)'
    OBVIOUS
  <2>1. Char(line, i - 1)' = IF i - 1 = length THEN <<line, 0>> ELSE <<line, (i - 1) + 1>>
    BY <1>2, <1>4 DEF Char, Newline
  <2>2. (i - 1) + 1 = i /\ (i - 1 = length <=> i = length + 1)
    BY <1>4
  <2>3. CASE i = length + 1
    BY <2>1, <2>2, <2>3, <1>5
  <2>4. CASE i # length + 1
    <3>1. i \in 1 .. length
      BY <2>4, <1>4
    <3>2. new[i] = <<line, i>>
      BY <3>1, <1>5
    <3>. QED BY <2>1, <2>2, <2>4, <3>2
  <2>. QED BY <2>3, <2>4
<1>9. ahead' # <<>> /\ Ends' /\ Filled'
  <2>1. ahead' # <<>> /\ ahead'[Len(ahead')] = Newline(Len(typed'))
    BY <1>4, <1>5, <1>7 DEF Newline
  <2>2. got' = got /\ got < room /\ room' = room /\ room \in Nat
    BY <1>2, TerminalAssumption DEF got, room, InOrder, Filled
  <2>3. CASE ahead = <<>>
    <3>1. at = "poll" /\ Len(ahead) = 0 /\ got = 0
      BY <2>3 DEF InOrder, Ends, got
    <3>2. ahead'[1] = Char(line, 0)'
      BY <1>4, <1>7, <1>8, <3>1
    <3>3. Before(ahead[1])' = 0
      BY <3>2, <1>2, <1>4 DEF Before, Char, Newline, IsNewline
    <3>4. 0 * room + got = 0 /\ 0 \in Nat
      BY <3>1, <2>2
    <3>5. \E n \in Nat : Before(ahead[1])' = n * room + got
      BY <3>3, <3>4
    <3>. QED BY <2>1, <2>2, <3>5 DEF Ends, Filled
  <2>4. CASE ahead # <<>>
    <3>1. ahead'[1] = ahead[1] /\ 1 \in 1 .. Len(ahead)
      BY <2>4, <1>3, <1>7, AheadPlaces
    <3>2. Before(ahead[1])' = Before(ahead[1])
      BY <3>1, <1>4 DEF Before, InOrder, OfLines
    <3>. QED BY <2>1, <2>2, <2>4, <3>2 DEF Ends, InOrder, Filled
  <2>. QED BY <2>3, <2>4
<1>9a. ASSUME LineByLine PROVE LineByLine'
  <2>2. CASE ahead = <<>>
    <3>1. at = "poll" /\ Len(answers) = Len(typed) /\ Len(ahead) = 0
      BY <2>2, <1>9a DEF InOrder, Ends, LineByLine, Begins
    <3>2. ahead'[1] = Char(line, 0)'
      BY <1>4, <1>7, <1>8, <3>1
    <3>3. current' = line /\ got' = 0
      BY <1>0, <1>2, <3>1 DEF current, got
    <3>4. Begins'
      BY <1>9, <3>2, <3>3, <1>4 DEF Begins
    <3>. QED BY <3>1, <3>4, <1>2 DEF LineByLine, Taken
  <2>3. CASE ahead # <<>>
    <3>1. /\ current <= Len(typed) /\ got <= typed[current]
          /\ ahead[1] = Char(current, got)
      BY <2>3, <1>9a DEF LineByLine, Begins
    <3>2. current \in 1 .. Len(typed) /\ got \in Nat
      BY <3>1, <1>3 DEF current, got, TypeInv
    <3>3. current' = current /\ got' = got
      BY <1>2 DEF current, got
    <3>4. ahead'[1] = ahead[1]
      <4>1. Len(ahead) >= 1
        BY <2>3, <1>3, AheadPlaces
      <4>. QED BY <4>1, <1>7
    <3>5. Char(current, got)' = Char(current, got)
      BY <3>2, <3>3, <1>4 DEF Char
    <3>6. Begins'
      BY <1>9, <3>1, <3>2, <3>3, <3>4, <3>5, <1>0, <1>4 DEF Begins
    <3>. QED BY <3>6, <1>2, <1>9a DEF LineByLine, Taken, Text, current
  <2>. QED BY <2>2, <2>3
<1>10. GoesOn'
  <2>. SUFFICES ASSUME NEW i \in 1 .. Len(ahead') - 1
                PROVE  ahead'[i + 1] = After(ahead[i])'
    BY DEF GoesOn
  <2>1. CASE i < Len(ahead)
    <3>1. ahead[i + 1] = After(ahead[i]) /\ ahead'[i] = ahead[i] /\ ahead'[i + 1] = ahead[i + 1]
      BY <2>1, <1>7 DEF InOrder, GoesOn
    <3>2. /\ ahead[i][1] \in 1 .. Len(typed)
          /\ ahead[i + 1][1] \in 1 .. Len(typed)
      BY <2>1, <1>7 DEF InOrder, OfLines
    <3>3. After(ahead[i])' = After(ahead[i])
      <4>1. ASSUME NEW x \in 1 .. Len(typed), NEW y PROVE Char(x, y)' = Char(x, y)
        BY <1>4 DEF Char, Newline
      <4>2. CASE IsNewline(ahead[i])
        <5>1. PICK l \in 1 .. Len(typed) : l = ahead[i][1]
          BY <3>2
        <5>2. ahead[i + 1] = Char(l + 1, 0)
          BY <3>1, <4>2, <5>1 DEF After
        <5>3. ahead[i + 1][1] = l + 1
          BY <5>2 DEF Char, Newline
        <5>4. l + 1 \in 1 .. Len(typed)
          BY <5>3, <3>2
        <5>5. Char(l + 1, 0)' = Char(l + 1, 0)
          BY <5>4, <4>1
        <5>. QED BY <5>1, <5>2, <5>5, <3>1, <4>2 DEF After
      <4>3. CASE ~IsNewline(ahead[i])
        BY <4>3, <3>1, <3>2, <4>1 DEF After
      <4>. QED BY <4>2, <4>3
    <3>. QED BY <3>1, <3>3
  <2>2. CASE i = Len(ahead)
    <3>1. ahead # <<>> /\ ahead[Len(ahead)] = Newline(Len(typed))
      BY <2>2, <1>3, <1>7, AheadPlaces DEF InOrder, Ends
    <3>2. ahead'[i] = <<Len(typed), 0>> /\ ahead'[i + 1] = Char(line, 0)'
      BY <2>2, <3>1, <1>7, <1>8, <1>4 DEF Newline
    <3>3. After(ahead[i])' = Char(line, 0)'
      BY <3>2, <1>0 DEF After, IsNewline
    <3>. QED BY <3>2, <3>3
  <2>3. CASE i > Len(ahead)
    <3>1. PICK j \in 1 .. length : i = Len(ahead) + j
      <4>1. i - Len(ahead) \in 1 .. length /\ i = Len(ahead) + (i - Len(ahead))
        BY <2>3, <1>4, <1>7
      <4>. QED BY <4>1
    <3>2. /\ j \in 1 .. length + 1 /\ j + 1 \in 1 .. length + 1 /\ (j + 1) - 1 = j
          /\ i + 1 = Len(ahead) + (j + 1)
      BY <3>1, <1>4, <1>7
    <3>3. ahead'[i] = new[j] /\ ahead'[i + 1] = new[j + 1]
      BY <3>1, <3>2, <1>7
    <3>4. new[j] = <<line, j>> /\ new[j + 1] = Char(line, j)'
      BY <3>2, <1>5, <1>8
    <3>. QED BY <3>2, <3>3, <3>4 DEF After, IsNewline
  <2>. QED BY <2>1, <2>2, <2>3, <1>7
<1>11. OfLines'
  <2>. SUFFICES ASSUME NEW i \in 1 .. Len(ahead')
                PROVE  ahead'[i][1] \in 1 .. Len(typed') /\ ahead'[i][2] \in 0 .. typed'[ahead'[i][1]]
    BY DEF OfLines
  <2>1. CASE i <= Len(ahead)
    <3>1. /\ ahead'[i] = ahead[i] /\ ahead[i][1] \in 1 .. Len(typed)
          /\ ahead[i][2] \in 0 .. typed[ahead[i][1]]
      BY <2>1, <1>7 DEF InOrder, OfLines
    <3>2. ahead[i][1] \in 1 .. line /\ typed'[ahead[i][1]] = typed[ahead[i][1]]
      BY <3>1, <1>0, <1>4
    <3>. QED BY <3>1, <3>2, <1>4
  <2>2. CASE i > Len(ahead)
    <3>1. i - Len(ahead) \in 1 .. length + 1 /\ ahead'[i] = new[i - Len(ahead)]
      BY <2>2, <1>4, <1>7
    <3>2. new[i - Len(ahead)][1] = line /\ new[i - Len(ahead)][2] \in 0 .. length
      BY <3>1, <1>4, <1>5
    <3>. QED BY <3>1, <3>2, <1>4
  <2>. QED BY <2>1, <2>2, <1>7
<1>12. OnlyFullBuffersLoseText'
  BY <1>2 DEF InOrder, OnlyFullBuffersLoseText
<1>. QED BY <1>6, <1>9, <1>9a, <1>10, <1>11, <1>12 DEF InOrder

\* Steps that leave the characters ahead in their places.
LEMMA SameAhead ==
  ASSUME InOrder, TypeInv', ahead' = ahead, UNCHANGED <<typed, answers, cuts>>,
         got' = got, ahead # <<>> \/ at' = at
  PROVE  InOrder' /\ (LineByLine /\ Taken' => LineByLine')
<1>1. current' = current /\ room' = room
  BY DEF current, room
<1>2. Begins => Begins'
  BY <1>1 DEF Begins, Char
<1>3. GoesOn' /\ OfLines' /\ OnlyFullBuffersLoseText'
  BY DEF InOrder, GoesOn, OfLines, OnlyFullBuffersLoseText, After, Char
<1>4. Ends' /\ Filled'
  BY <1>1 DEF InOrder, Ends, Filled, Before
<1>. QED BY <1>2, <1>3, <1>4 DEF InOrder, LineByLine

LEMMA PollsKeeps ==
  ASSUME InOrder, Polls
  PROVE  InOrder' /\ (LineByLine => LineByLine')
<1>1. /\ at = "poll" /\ at' = "fgets" /\ kernel # <<>> /\ userInput' = <<>>
      /\ UNCHANGED <<input, typed, kernel, stdio, answers, cuts>>
  BY DEF Polls, InputAvailable
<1>2. TypeInv /\ TypeInv'
  BY <1>1 DEF InOrder, TypeInv
<1>3. ahead' = ahead /\ ahead # <<>>
  <2>1. Len(ahead) # 0
    BY <1>1, <1>2, AheadPlaces DEF TypeInv
  <2>. QED BY <2>1, <1>1 DEF ahead
<1>4. got' = got
  BY <1>1 DEF got
<1>5. Taken'
  BY <1>1 DEF Taken, Text
<1>. QED BY <1>1, <1>2, <1>3, <1>4, <1>5, SameAhead

LEMMA RefillsKeeps ==
  ASSUME InOrder, Refills
  PROVE  InOrder' /\ (LineByLine => LineByLine')
<1>1. /\ at = "fgets" /\ stdio = <<>> /\ kernel # <<>>
      /\ stdio' = SubSeq(kernel, 1, Available)
      /\ kernel' = SubSeq(kernel, Available + 1, Len(kernel))
      /\ UNCHANGED <<input, typed, userInput, at, answers, cuts>>
  BY DEF Refills
<1>2. TypeInv /\ kernel \in Seq(Place) /\ Available \in 1 .. Len(kernel)
  BY <1>1, AvailableIsThere DEF InOrder, TypeInv
<1>3. TypeInv' /\ ahead' = ahead
  <2>. DEFINE n == Available
  <2>1. n \in 1 .. Len(kernel)
    BY <1>2
  <2>. HIDE DEF n
  <2>2. /\ SubSeq(kernel, 1, n) \in Seq(Place) /\ SubSeq(kernel, n + 1, Len(kernel)) \in Seq(Place)
        /\ SubSeq(kernel, 1, n) \o SubSeq(kernel, n + 1, Len(kernel)) = kernel
    BY <1>2, <2>1
  <2>3. ahead = kernel
    BY <1>1, <1>2 DEF ahead
  <2>. QED BY <1>1, <1>2, <2>2, <2>3 DEF TypeInv, ahead, n
<1>4. LineByLine => Taken'
  BY <1>1 DEF LineByLine, Taken, Text, current
<1>5. got' = got
  BY <1>1 DEF got
<1>. QED BY <1>1, <1>3, <1>4, <1>5, SameAhead

\* What fgets does with the next character, which begins what is ahead.
LEMMA NextCharacter ==
  ASSUME InOrder, Gets
  PROVE  /\ at = "fgets" /\ ahead # <<>> /\ Head(stdio) = ahead[1]
         /\ got = Len(userInput) /\ got \in Nat /\ ahead[1] \in Place
         /\ userInput' = Append(userInput, ahead[1])
         /\ ahead' = Tail(ahead)
<1>1. /\ at = "fgets" /\ stdio # <<>> /\ stdio' = Tail(stdio) /\ kernel' = kernel
      /\ userInput' = Append(userInput, Head(stdio))
  BY DEF Gets
<1>2. TypeInv
  BY DEF InOrder
<1>3. stdio \in Seq(Place) /\ kernel \in Seq(Place) /\ Len(stdio) \in Nat \ {0}
  BY <1>1, <1>2 DEF TypeInv
<1>4. ahead # <<>> /\ Head(stdio) = ahead[1] /\ ahead[1] \in Place
  BY <1>2, <1>3, AheadPlaces
<1>5. ahead' = Tail(ahead)
  <2>1. Tail(stdio \o kernel) = Tail(stdio) \o kernel
    BY <1>1, <1>3
  <2>. QED BY <2>1, <1>1 DEF ahead
<1>6. got = Len(userInput) /\ got \in Nat
  BY <1>1, <1>2 DEF got, TypeInv
<1>. QED BY <1>1, <1>4, <1>5, <1>6

\* Line by line, it is the next of its line.
LEMMA NextOfItsLine ==
  ASSUME InOrder, LineByLine, Gets
  PROVE  /\ current \in 1 .. Len(typed) /\ got \in 0 .. typed[current]
         /\ ahead[1] = Char(current, got) /\ typed[current] \in 0 .. input.longest
<1>1. ahead # <<>> /\ got \in Nat
  BY NextCharacter
<1>2. TypeInv
  BY DEF InOrder
<1>3. current <= Len(typed) /\ got <= typed[current] /\ ahead[1] = Char(current, got)
  BY <1>1 DEF LineByLine, Begins
<1>4. current \in 1 .. Len(typed)
  <2>1. current \in Nat \ {0} /\ Len(typed) \in Nat
    BY <1>2 DEF current, TypeInv
  <2>. QED BY <2>1, <1>3
<1>5. typed[current] \in 0 .. input.longest
  <2>1. typed \in Seq(0 .. input.longest)
    BY <1>2 DEF TypeInv
  <2>. QED BY <1>4, <2>1, ElementOfSeq
<1>. QED BY <1>1, <1>2, <1>3, <1>4, <1>5, LongestType

\* Without its first character what is ahead goes on behind it.
LEMMA OneCharacterLess ==
  ASSUME InOrder, ahead # <<>>, ahead' = Tail(ahead), typed' = typed
  PROVE  /\ GoesOn' /\ OfLines'
         /\ IF ahead' = <<>> THEN ahead[1] = Newline(Len(typed))
            ELSE /\ ahead'[1] = After(ahead[1])
                 /\ ahead'[1][1] \in 1 .. Len(typed)
                 /\ ahead'[Len(ahead')] = Newline(Len(typed))
<1>1. ahead \in Seq(Place) /\ Len(ahead) \in Nat \ {0}
  BY AheadPlaces DEF InOrder
<1>2. /\ Len(ahead') = Len(ahead) - 1 /\ ahead' \in Seq(Place)
      /\ \A i \in 1 .. Len(ahead) - 1 : ahead'[i] = ahead[i + 1]
  BY <1>1
<1>3. GoesOn'
  <2>. SUFFICES ASSUME NEW i \in 1 .. Len(ahead') - 1 PROVE ahead'[i + 1] = After(ahead[i])'
    BY DEF GoesOn
  <2>1. /\ i + 1 \in 1 .. Len(ahead) - 1 /\ i \in 1 .. Len(ahead) - 1
        /\ ahead'[i] = ahead[i + 1] /\ ahead'[i + 1] = ahead[(i + 1) + 1]
    BY <1>1, <1>2
  <2>2. ahead[(i + 1) + 1] = After(ahead[i + 1])
    BY <2>1 DEF InOrder, GoesOn
  <2>. QED BY <2>1, <2>2 DEF After, Char
<1>4. OfLines'
  <2>. SUFFICES ASSUME NEW i \in 1 .. Len(ahead')
                PROVE  ahead'[i][1] \in 1 .. Len(typed') /\ ahead'[i][2] \in 0 .. typed'[ahead'[i][1]]
    BY DEF OfLines
  <2>1. i + 1 \in 1 .. Len(ahead) /\ ahead'[i] = ahead[i + 1]
    BY <1>1, <1>2
  <2>. QED BY <2>1 DEF InOrder, OfLines
<1>5. ahead[Len(ahead)] = Newline(Len(typed))
  BY DEF InOrder, Ends
<1>6. ASSUME ahead' # <<>>
      PROVE  /\ ahead'[1] = After(ahead[1]) /\ ahead'[1][1] \in 1 .. Len(typed)
             /\ ahead'[Len(ahead')] = Newline(Len(typed))
  <2>1. Len(ahead) - 1 \in Nat \ {0} /\ 1 \in 1 .. Len(ahead) - 1
    BY <1>1, <1>2, <1>6
  <2>2. ahead'[1] = ahead[2] /\ ahead[2] = After(ahead[1]) /\ 2 \in 1 .. Len(ahead)
    BY <2>1, <1>2 DEF InOrder, GoesOn
  <2>3. ahead[2][1] \in 1 .. Len(typed)
    BY <2>2 DEF InOrder, OfLines
  <2>4. ahead'[Len(ahead')] = ahead[Len(ahead)]
    BY <2>1, <1>1, <1>2
  <2>. QED BY <2>2, <2>3, <2>4, <1>5
<1>7. ASSUME ahead' = <<>> PROVE ahead[1] = Newline(Len(typed))
  <2>1. Len(ahead') = 0 /\ Len(ahead) = 1
    <3>1. Len(ahead') = 0
      BY <1>2, <1>7, EmptySeq
    <3>. QED BY <3>1, <1>1, <1>2
  <2>. QED BY <2>1, <1>5
<1>. QED BY <1>3, <1>4, <1>6, <1>7

\* fgets ends with the '\n' of its line, and the text handed on is that line; any
\* other character leaves room for the next.
LEMMA GetsHandsOnLines ==
  ASSUME LinesFit, InOrder, LineByLine, Gets
  PROVE  \/ /\ ahead[1] = Newline(current) /\ got = typed[current]
            /\ at' = "poll" /\ answers' = Append(answers, Text(current, typed[current]))
            /\ cuts' = cuts \cup {Newline(current)}
         \/ /\ ahead[1] = <<current, got + 1>> /\ got < typed[current]
            /\ userInput' = Text(current, got + 1)
            /\ UNCHANGED <<at, answers, cuts>>
<1>. DEFINE c == ahead[1]   n == Len(userInput)   u == Append(userInput, c)   full == typed[current]
<1>1. /\ at = "fgets" /\ got = n /\ n \in 0 .. full /\ full \in 0 .. input.longest
      /\ c = Char(current, n) /\ userInput' = u /\ current \in 1 .. Len(typed)
  BY NextCharacter, NextOfItsLine
<1>2. /\ userInput \in Seq(Place) /\ userInput = Text(current, n)
      /\ input.longest \in Nat /\ BufSize \in Nat
  BY <1>1, TerminalAssumption DEF InOrder, TypeInv, LineByLine, Taken
<1>3. Len(u) = n + 1 /\ Last(u) = c /\ Front(u) = userInput /\ u[n + 1] = c
  <2>. HIDE DEF c
  <2>1. /\ Len(u) = n + 1 /\ u[n + 1] = c /\ u[Len(u)] = c
        /\ SubSeq(u, 1, Len(u) - 1) = userInput
    BY <1>2
  <2>. QED BY <2>1 DEF Last, Front
<1>4. IF EndsLine(u) THEN at' = "poll" /\ HandsOn(u) ELSE UNCHANGED <<at, answers, cuts>>
  BY <1>1 DEF Gets, NextCharacter
<1>. HIDE DEF u, full
<1>5. CASE n = full
  <2>1. c = Newline(current)
    BY <1>1, <1>5 DEF Char, full
  <2>2. EndsLine(u)
    BY <2>1, <1>3 DEF EndsLine, IsNewline, Newline
  <2>. QED BY <2>1, <2>2, <1>1, <1>2, <1>3, <1>4, <1>5 DEF HandsOn, full
<1>6. CASE n # full
  <2>1. c = <<current, n + 1>> /\ n < full /\ n + 1 # 0
    BY <1>1, <1>6 DEF Char, full
  <2>2. ~IsNewline(c) /\ Len(u) # BufSize - 1
    BY <2>1, <1>1, <1>2, <1>3 DEF IsNewline, LinesFit
  <2>3. u = Text(current, n + 1)
    <3>1. /\ u = [i \in 1 .. n + 1 |-> IF i = n + 1 THEN c ELSE userInput[i]]
      BY <1>2 DEF u
    <3>2. \A i \in 1 .. n : userInput[i] = <<current, i>>
      BY <1>2 DEF Text
    <3>3. \A i \in 1 .. n + 1 : i # n + 1 => i \in 1 .. n
      BY <1>1
    <3>. QED BY <3>1, <3>2, <3>3, <2>1 DEF Text
  <2>4. ~EndsLine(u)
    BY <2>2, <1>3 DEF EndsLine
  <2>. QED BY <2>1, <2>3, <2>4, <1>1, <1>4 DEF full
<1>. QED BY <1>5, <1>6

\* The places of a line fill the buffer again and again.
LEMMA FullBuffers ==
  ASSUME NEW m \in Nat, NEW w \in Nat \ {0}
  PROVE  m * w \in Nat /\ m <= m * w /\ (m + 1) * w = m * w + w
OBVIOUS

\* Whatever the length of the line: fgets ends with its '\n' or, in the middle of it,
\* where the buffer is full.
LEMMA GetsKeepsOrder ==
  ASSUME InOrder, Gets
  PROVE  InOrder'
<1>. DEFINE c == ahead[1]   u == Append(userInput, c)
<1>1. /\ at = "fgets" /\ ahead # <<>> /\ got = Len(userInput) /\ got \in Nat /\ c \in Place
      /\ ahead' = Tail(ahead) /\ userInput' = u
  BY NextCharacter
<1>2. /\ typed' = typed /\ kernel' = kernel /\ stdio' = Tail(stdio) /\ stdio # <<>>
      /\ input' = input
      /\ IF EndsLine(u) THEN at' = "poll" /\ HandsOn(u) ELSE UNCHANGED <<at, answers, cuts>>
  BY <1>1 DEF Gets
<1>3. /\ GoesOn' /\ OfLines'
      /\ IF ahead' = <<>> THEN c = Newline(Len(typed))
         ELSE /\ ahead'[1] = After(c)
              /\ ahead'[1][1] \in 1 .. Len(typed)
              /\ ahead'[Len(ahead')] = Newline(Len(typed))
  BY <1>1, <1>2, OneCharacterLess
<1>4. TypeInv
  BY DEF InOrder
<1>5. /\ u \in Seq(Place) /\ Len(u) = got + 1 /\ Last(u) = c /\ Front(u) = userInput
      /\ userInput \in Seq(Place)
  <2>. HIDE DEF c
  <2>1. /\ userInput \in Seq(Place) /\ u \in Seq(Place) /\ Len(u) = got + 1 /\ u[Len(u)] = c
        /\ SubSeq(u, 1, Len(u) - 1) = userInput
    BY <1>1, <1>4 DEF TypeInv
  <2>. QED BY <2>1 DEF Last, Front
<1>. HIDE DEF u
<1>6. TypeInv'
  <2>1. typed' \in Seq(0 .. input.longest) /\ kernel' \in Seq(Place) /\ stdio' \in Seq(Place)
    BY <1>2, <1>4 DEF TypeInv
  <2>2. at' \in {"poll", "fgets"} /\ answers' \in Seq(Seq(Place))
    <3>1. CASE EndsLine(u)
      <4>1. answers' = Append(answers, userInput) /\ answers \in Seq(Seq(Place))
        BY <3>1, <1>2, <1>4, <1>5 DEF HandsOn, TypeInv
      <4>. QED BY <4>1, <3>1, <1>2, <1>5, AppendProperties
    <3>2. CASE ~EndsLine(u)
      BY <3>2, <1>2, <1>4 DEF TypeInv
    <3>. QED BY <3>1, <3>2
  <2>. QED BY <2>1, <2>2, <1>1, <1>2, <1>4, <1>5 DEF TypeInv
<1>7. /\ room \in Nat \ {0} /\ room' = room /\ got < room
  BY TerminalAssumption DEF room, InOrder, Filled
<1>8. PICK n \in Nat : Before(c) = n * room + got
  BY <1>1 DEF InOrder, Filled
<1>9. n * room \in Nat /\ n + 1 <= (n + 1) * room /\ (n + 1) * room = n * room + room
  <2>1. n * room \in Nat /\ (n + 1) * room = n * room + room
    BY <1>7, FullBuffers
  <2>2. n + 1 \in Nat /\ n + 1 <= (n + 1) * room
    <3>1. n + 1 \in Nat
      OBVIOUS
    <3>. QED BY <3>1, <1>7, FullBuffers
  <2>. QED BY <2>1, <2>2
<1>10. c[1] \in 1 .. Len(typed) /\ c[2] \in Nat /\ typed[c[1]] \in Nat /\ Len(typed) \in Nat
  <2>1. 1 \in 1 .. Len(ahead)
    BY <1>1, <1>4, AheadPlaces
  <2>2. c[1] \in 1 .. Len(typed) /\ typed \in Seq(0 .. input.longest)
    BY <2>1, <1>4 DEF InOrder, OfLines, TypeInv
  <2>3. typed[c[1]] \in 0 .. input.longest
    BY <2>2, ElementOfSeq
  <2>. QED BY <2>2, <2>3, <1>1, <1>4, LongestType DEF Place
<1>11. CASE IsNewline(c)
  <2>1. at' = "poll" /\ cuts' = cuts \cup {c} /\ got' = 0
    BY <1>2, <1>5, <1>11 DEF EndsLine, HandsOn, got
  <2>2. Ends'
    BY <2>1, <1>2, <1>3 DEF Ends
  <2>3. Filled'
    <3>1. ASSUME ahead' # <<>> PROVE Before(ahead[1])' = 0
      <4>1. ahead'[1] = Char(c[1] + 1, 0) /\ ahead'[1][1] \in 1 .. Len(typed)
        BY <3>1, <1>3, <1>11 DEF After
      <4>2. ahead'[1][1] = c[1] + 1
        BY <4>1 DEF Char, Newline
      <4>. QED BY <4>1, <4>2, <1>2, <1>10 DEF Before, Char, Newline, IsNewline
    <3>2. 0 = 0 * room + 0 /\ 0 \in Nat /\ 0 < room
      BY <1>7
    <3>. QED BY <3>1, <3>2, <2>1, <1>7 DEF Filled
  <2>4. OnlyFullBuffersLoseText'
    BY <2>1, <1>11 DEF InOrder, OnlyFullBuffersLoseText
  <2>. QED BY <2>2, <2>3, <2>4, <1>3, <1>6 DEF InOrder
<1>12. CASE ~IsNewline(c)
  <2>1. c[2] \in Nat \ {0} /\ c[2] - 1 = n * room + got
    BY <1>8, <1>10, <1>12 DEF Before, IsNewline
  <2>2. ahead' # <<>> /\ ahead'[1] = Char(c[1], c[2])
    BY <1>3, <1>12 DEF After, IsNewline, Newline
  <2>3. Before(ahead[1])' = c[2]
    <3>1. CASE c[2] = typed[c[1]]
      BY <3>1, <2>2, <1>2 DEF Before, Char, Newline, IsNewline
    <3>2. CASE c[2] # typed[c[1]]
      BY <3>2, <2>1, <2>2, <1>2 DEF Before, Char, Newline, IsNewline
    <3>. QED BY <3>1, <3>2
  <2>4. Ends'
    BY <2>2, <1>2, <1>3 DEF Ends
  <2>5. c[2] = n * room + got + 1
    BY <2>1, <1>1, <1>9
  <2>6. CASE EndsLine(u)
    <3>1. got + 1 = room
      BY <2>6, <1>5, <1>12 DEF EndsLine, room
    <3>2. at' = "poll" /\ cuts' = cuts \cup {c} /\ got' = 0
      BY <2>6, <1>2, <1>5 DEF HandsOn, got
    <3>3. c[2] = (n + 1) * room
      BY <3>1, <2>5, <1>1, <1>9
    <3>4. c[2] = (n + 1) * room + 0 /\ n + 1 \in Nat
      BY <3>3, <2>1
    <3>5. Filled'
      BY <3>2, <3>4, <2>3, <1>7 DEF Filled
    <3>6. n + 1 \in 1 .. c[2] /\ c[2] = (n + 1) * (BufSize - 1)
      BY <3>3, <1>9, <2>1 DEF room
    <3>7. OnlyFullBuffersLoseText'
      BY <3>2, <3>6 DEF InOrder, OnlyFullBuffersLoseText
    <3>. QED BY <3>5, <3>7, <2>4, <1>3, <1>6 DEF InOrder
  <2>7. CASE ~EndsLine(u)
    <3>1. UNCHANGED <<at, answers, cuts>> /\ got + 1 # room
      BY <2>7, <1>2, <1>5 DEF EndsLine, room
    <3>2. got' = got + 1 /\ got + 1 < room
      BY <3>1, <1>1, <1>5, <1>7 DEF got
    <3>3. Filled'
      <4>1. c[2] = n * room + (got + 1)
        BY <2>5, <1>1, <1>9
      <4>2. got' < room' /\ Before(ahead[1])' = n * room' + got'
        BY <4>1, <3>2, <2>3, <1>7
      <4>. QED BY <4>2 DEF Filled
    <3>4. OnlyFullBuffersLoseText'
      BY <3>1 DEF InOrder, OnlyFullBuffersLoseText
    <3>. QED BY <3>3, <3>4, <2>4, <1>3, <1>6 DEF InOrder
  <2>. QED BY <2>6, <2>7
<1>. QED BY <1>11, <1>12

LEMMA GetsKeepsLines ==
  ASSUME LinesFit, InOrder, LineByLine, Gets
  PROVE  LineByLine'
<1>1. /\ at = "fgets" /\ ahead # <<>> /\ current \in 1 .. Len(typed) /\ got = Len(userInput)
      /\ got \in 0 .. typed[current] /\ typed[current] \in 0 .. input.longest
      /\ ahead[1] = Char(current, got) /\ ahead' = Tail(ahead)
      /\ userInput' = Append(userInput, ahead[1])
  BY NextCharacter, NextOfItsLine
<1>2. typed' = typed /\ kernel' = kernel /\ stdio' = Tail(stdio) /\ stdio # <<>>
  BY DEF Gets
<1>3. /\ GoesOn' /\ OfLines'
      /\ IF ahead' = <<>> THEN ahead[1] = Newline(Len(typed))
         ELSE /\ ahead'[1] = After(ahead[1])
              /\ ahead'[1][1] \in 1 .. Len(typed)
              /\ ahead'[Len(ahead')] = Newline(Len(typed))
  BY <1>1, <1>2, OneCharacterLess
<1>4. TypeInv /\ Len(answers) \in Nat /\ current = Len(answers) + 1
  BY DEF InOrder, TypeInv, current
<1>6. CASE /\ ahead[1] = Newline(current) /\ got = typed[current]
           /\ at' = "poll" /\ answers' = Append(answers, Text(current, typed[current]))
           /\ cuts' = cuts \cup {Newline(current)}
  <2>1. Text(current, typed[current]) \in Seq(Place)
    <3>1. ASSUME NEW l \in Nat, NEW n \in Nat PROVE Text(l, n) \in Seq(Place)
      BY DEF Text, Place
    <3>2. current \in Nat /\ typed[current] \in Nat
      BY <1>1, <1>4, TerminalAssumption
    <3>. QED BY <3>1, <3>2
  <2>2. answers' \in Seq(Seq(Place)) /\ Len(answers') = Len(answers) + 1
    BY <2>1, <1>4, <1>6, AppendProperties DEF TypeInv
  <2>3. got' = 0 /\ current' = current + 1
    BY <2>2, <1>4, <1>6 DEF got, current
  <2>4. Begins'
    <3>1. CASE ahead' = <<>>
      <4>1. current = Len(typed)
        BY <3>1, <1>3, <1>6 DEF Newline
      <4>. QED BY <4>1, <3>1, <2>2, <1>2, <1>4, <1>6 DEF Begins
    <3>2. CASE ahead' # <<>>
      <4>1. ahead'[1] = Char(current + 1, 0)
        BY <3>2, <1>3, <1>6 DEF After, Newline, IsNewline
      <4>2. Char(current + 1, 0)[1] = current + 1
        BY DEF Char, Newline
      <4>3. current + 1 \in 1 .. Len(typed)
        BY <3>2, <4>1, <4>2, <1>3
      <4>4. typed[current + 1] \in 0 .. input.longest
        BY <4>3, <1>4, ElementOfSeq DEF TypeInv
      <4>5. ahead'[1] = Char(current, got)'
        BY <4>1, <2>3, <1>2 DEF Char
      <4>6. ahead'[Len(ahead')] = Newline(Len(typed))
        BY <3>2, <1>3
      <4>. QED BY <3>2, <4>3, <4>4, <4>5, <4>6, <2>3, <1>2 DEF Begins
    <3>. QED BY <3>1, <3>2
  <2>5. Taken'
    BY <1>6 DEF Taken
  <2>. QED BY <2>4, <2>5 DEF LineByLine
<1>7. CASE /\ ahead[1] = <<current, got + 1>> /\ got < typed[current]
           /\ userInput' = Text(current, got + 1)
           /\ UNCHANGED <<at, answers, cuts>>
  <2>1. Len(userInput') = got + 1
    BY <1>1, <1>7 DEF Text
  <2>2. got' = got + 1 /\ current' = current
    BY <2>1, <1>1, <1>7 DEF got, current
  <2>3. Begins'
    <3>1. ahead' # <<>>
      <4>1. got + 1 # 0
        BY <1>1
      <4>. QED BY <4>1, <1>3, <1>7 DEF Newline
    <3>2. ahead'[1] = Char(current, got + 1) /\ ahead'[Len(ahead')] = Newline(Len(typed))
      <4>1. got + 1 # 0
        BY <1>1
      <4>. QED BY <4>1, <3>1, <1>3, <1>7 DEF After, IsNewline
    <3>3. Char(current, got)' = Char(current, got + 1)
      BY <2>2, <1>2 DEF Char
    <3>4. got + 1 <= typed[current] /\ current <= Len(typed)
      BY <1>1, <1>4, <1>7
    <3>. QED BY <3>1, <3>2, <3>3, <3>4, <2>2, <1>2 DEF Begins
  <2>4. Taken'
    BY <2>1, <2>2, <1>7 DEF Taken, Text
  <2>. QED BY <2>3, <2>4 DEF LineByLine
<1>. QED BY <1>6, <1>7, GetsHandsOnLines

LEMMA StepKeeps ==
  ASSUME InOrder, [Next]_vars
  PROVE  InOrder' /\ (LinesFit /\ LineByLine => LineByLine')
<1>1. CASE Enters
  BY <1>1, EntersKeeps
<1>2. CASE Polls
  BY <1>2, PollsKeeps
<1>3. CASE Refills
  BY <1>3, RefillsKeeps
<1>4. CASE Gets
  BY <1>4, GetsKeepsOrder, GetsKeepsLines
<1>5. CASE UNCHANGED vars
  <2>1. TypeInv' /\ ahead' = ahead /\ got' = got /\ (Taken => Taken')
    BY <1>5 DEF InOrder, TypeInv, vars, ahead, got, Taken, Text, current
  <2>. QED BY <2>1, <1>5, SameAhead DEF vars, LineByLine
<1>. QED BY <1>1, <1>2, <1>3, <1>4, <1>5 DEF Next, PromptStep, Sleeps

-----------------------------------------------------------------------------
\* The lines waiting, as a family of lines.
LEMMA FrontOfFamily ==
  ASSUME NEW n \in Nat, NEW F(_), NEW s, NEW t,
         s = [i \in 1 .. n + 1 |-> F(i)], t = [i \in 1 .. n |-> F(i)]
  PROVE  Len(s) = n + 1 /\ s # <<>> /\ SubSeq(s, 1, Len(s) - 1) = t
<1>1. Len(s) = n + 1 /\ Len(s) - 1 = n
  OBVIOUS
<1>2. SubSeq(s, 1, n) = [i \in 1 .. n |-> s[i]]
  OBVIOUS
<1>3. \A i \in 1 .. n : s[i] = F(i)
  OBVIOUS
<1>. QED BY <1>1, <1>2, <1>3

LEMMA TailOfFamily ==
  ASSUME NEW n \in Nat \ {0}, NEW F(_), NEW s, NEW t,
         s = [i \in 1 .. n |-> F(i)], t = [i \in 1 .. n - 1 |-> F(i + 1)]
  PROVE  s # <<>> /\ Head(s) = F(1) /\ Tail(s) = t
<1>1. Len(s) = n /\ s # <<>>
  OBVIOUS
<1>2. Head(s) = F(1)
  BY <1>1
<1>3. Tail(s) = [i \in 1 .. n - 1 |-> s[i + 1]]
  BY <1>1
<1>4. \A i \in 1 .. n - 1 : s[i + 1] = F(i + 1)
  OBVIOUS
<1>. QED BY <1>1, <1>2, <1>3, <1>4

\* No more lines are answered than entered.
LEMMA LinesLeft ==
  ASSUME InOrder, LineByLine
  PROVE  Len(typed) - Len(answers) \in Nat
<1>1. Len(typed) \in Nat /\ Len(answers) \in Nat
  BY DEF InOrder, TypeInv
<1>2. Len(answers) <= Len(typed)
  BY <1>1 DEF LineByLine, Begins, current
<1>. QED BY <1>1, <1>2

-----------------------------------------------------------------------------
\* What the prompts of cli.c cut off in place of the '\n' is the '\n' or the last
\* character of a full buffer, for lines of any length, a buffer of any size, and
\* however far ahead the operator types or a pipe runs.
THEOREM OnlyFullBuffersEverLoseText == Spec => []OnlyFullBuffersLoseText
<1>1. InOrder => OnlyFullBuffersLoseText
  BY DEF InOrder
<1>2. InOrder /\ [Next]_vars => InOrder'
  BY StepKeeps
<1>3. Init => InOrder
  BY StartsInOrder
<1>. QED BY <1>1, <1>2, <1>3, PTL DEF Spec

\* A step enters a line behind those waiting, answers the first of them, or leaves
\* both alone.
LEMMA LineByLineStep ==
  ASSUME InOrder, LineByLine, LinesFit, [Next]_vars
  PROVE  \/ Waiting' # <<>> /\ Front(Waiting') = Waiting /\ answers' = answers
         \/ /\ Waiting # <<>> /\ answers' = Append(answers, Head(Waiting))
            /\ Waiting' = Tail(Waiting)
         \/ UNCHANGED <<Waiting, answers>>
<1>1. CASE Enters
  <2>1. PICK length \in 0 .. input.longest : typed' = Append(typed, length)
    BY <1>1 DEF Enters
  <2>2. answers' = answers
    BY <1>1 DEF Enters
  <2>3. Waiting' # <<>> /\ Front(Waiting') = Waiting
    <3>. DEFINE n == Len(typed) - Len(answers)   W == Waiting'
    <3>1. n \in Nat
      BY LinesLeft
    <3>2. typed \in Seq(0 .. input.longest) /\ answers \in Seq(Seq(Place))
      BY DEF InOrder, TypeInv
    <3>3. /\ Len(typed') - Len(answers') = n + 1
          /\ \A i \in 1 .. Len(typed) : typed'[i] = typed[i]
      BY <2>1, <2>2, <3>2
    <3>4. \A i \in 1 .. n : Len(answers) + i \in 1 .. Len(typed)
      BY <3>1, <3>2
    <3>5. W = [i \in 1 .. n + 1 |-> Text(Len(answers) + i, typed'[Len(answers) + i])]
      BY <2>2, <3>3 DEF Waiting, Text
    <3>6. Waiting = [i \in 1 .. n |-> Text(Len(answers) + i, typed'[Len(answers) + i])]
      BY <3>3, <3>4 DEF Waiting
    <3>. HIDE DEF n, W
    <3>. DEFINE F(i) == Text(Len(answers) + i, typed'[Len(answers) + i])
    <3>. HIDE DEF F
    <3>7. W = [i \in 1 .. n + 1 |-> F(i)] /\ Waiting = [i \in 1 .. n |-> F(i)]
      BY <3>5, <3>6 DEF F
    <3>8. Len(W) = n + 1 /\ W # <<>> /\ SubSeq(W, 1, Len(W) - 1) = Waiting
      BY <3>1, <3>7, FrontOfFamily
    <3>. QED BY <3>8 DEF Front, W
  <2>. QED BY <2>2, <2>3
<1>2. CASE Gets
  <2>1. typed' = typed
    BY <1>2 DEF Gets
  <2>2. CASE answers' = answers
    BY <2>1, <2>2 DEF Waiting, Text
  <2>3. CASE answers' = Append(answers, Text(current, typed[current]))
    <3>. DEFINE n == Len(typed) - Len(answers)
                F(i) == Text(Len(answers) + i, typed[Len(answers) + i])
    <3>1. answers \in Seq(Seq(Place)) /\ Len(answers') = Len(answers) + 1 /\ Len(answers) \in Nat
      BY <2>3 DEF InOrder, TypeInv
    <3>2. n \in Nat \ {0} /\ current = Len(answers) + 1
      <4>1. current \in 1 .. Len(typed) /\ Len(typed) \in Nat
        BY <1>2, NextOfItsLine DEF InOrder, TypeInv
      <4>. QED BY <4>1, <3>1 DEF current
    <3>3. Waiting = [i \in 1 .. n |-> F(i)]
      BY DEF Waiting
    <3>4. Waiting' = [i \in 1 .. n - 1 |-> F(i + 1)]
      <4>1. Len(typed) - Len(answers') = n - 1
        BY <3>1, <3>2
      <4>2. \A i \in 1 .. n - 1 : Len(answers') + i = Len(answers) + (i + 1)
        BY <3>1
      <4>. QED BY <4>1, <4>2, <2>1 DEF Waiting, Text
    <3>5. F(1) = Text(current, typed[current])
      BY <3>2
    <3>. HIDE DEF n, F
    <3>6. Waiting # <<>> /\ Head(Waiting) = F(1) /\ Tail(Waiting) = Waiting'
      BY <3>2, <3>3, <3>4, TailOfFamily
    <3>. QED BY <2>3, <3>5, <3>6
  <2>. QED BY <1>2, <2>2, <2>3, GetsHandsOnLines
<1>3. CASE UNCHANGED <<typed, answers>>
  BY <1>3 DEF Waiting, Text
<1>4. Polls \/ Refills \/ Sleeps \/ UNCHANGED vars => UNCHANGED <<typed, answers>>
  BY DEF Polls, Refills, Sleeps, vars
<1>. QED BY <1>1, <1>2, <1>3, <1>4 DEF Next, PromptStep

\* Each step of a terminal and of the prompts is one of LineQueue, or none: with
\* lines that fit, the answers are the lines entered, in order, each whole.
THEOREM AnswersAreTheLines == Spec => Queue!Order
<1>. DEFINE Lined == InOrder /\ (LinesFit => LineByLine)
<1>1. Init => Queue!Init
  <2>. SUFFICES ASSUME Init PROVE Kept(Waiting) = <<>> /\ Kept(answers) = <<>>
    BY DEF Queue!Init
  <2>1. Len(typed) - Len(answers) = 0 /\ answers = <<>>
    BY DEF Init
  <2>2. Waiting = <<>>
    BY <2>1 DEF Waiting
  <2>. QED BY <2>1, <2>2 DEF Kept
<1>2. [Next]_vars => input' = input
  BY DEF Next, PromptStep, Enters, Polls, Refills, Gets, Sleeps, vars
<1>3. Lined /\ [Next]_vars => [Queue!Next]_Queue!vars
  <2>. SUFFICES ASSUME Lined, [Next]_vars
                PROVE  Queue!Next \/ UNCHANGED <<Kept(Waiting), Kept(answers)>>
    BY DEF Queue!vars
  <2>1. CASE input.source = "tty" /\ LinesFit
    <3>1. /\ Kept(Waiting) = Waiting /\ Kept(Waiting)' = Waiting'
          /\ Kept(answers) = answers /\ Kept(answers)' = answers'
      BY <2>1, <1>2 DEF Kept, LinesFit
    <3>2. InOrder /\ LineByLine /\ LinesFit
      BY <2>1
    <3>3. CASE Waiting' # <<>> /\ Front(Waiting') = Waiting /\ answers' = answers
      BY <3>1, <3>3 DEF Queue!Next, Queue!Enter, Queue!Front, Front
    <3>4. CASE /\ Waiting # <<>> /\ answers' = Append(answers, Head(Waiting))
               /\ Waiting' = Tail(Waiting)
      BY <3>1, <3>4 DEF Queue!Next, Queue!Take
    <3>5. CASE UNCHANGED <<Waiting, answers>>
      BY <3>1, <3>5
    <3>. QED BY <3>2, <3>3, <3>4, <3>5, LineByLineStep
  <2>2. CASE ~(input.source = "tty" /\ LinesFit)
    BY <2>2, <1>2 DEF Kept, LinesFit
  <2>. QED BY <2>1, <2>2
<1>4. Lined /\ [Next]_vars => Lined'
  BY <1>2, StepKeeps DEF LinesFit
<1>5. Init => Lined
  BY StartsInOrder
<1>. HIDE DEF Lined
<1>. QED BY <1>1, <1>3, <1>4, <1>5, PTL DEF Spec, Queue!Order
=============================================================================
