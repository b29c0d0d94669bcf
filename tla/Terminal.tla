------------------------------ MODULE Terminal ------------------------------
(***************************************************************************)
(* How a typed line reaches userInput.  A prompt polls standard input with *)
(* select, which sees what the kernel holds; fgets takes from the buffer   *)
(* of stdio, which read() fills.  A terminal gives read() one line at a    *)
(* time, a pipe whatever is there.                                         *)
(*                                                                         *)
(* A character is the pair of its line and its place; place 0 is '\n'.     *)
(***************************************************************************)
EXTENDS Naturals, SequencesExt

CONSTANTS
  Inputs,     \* what standard input may be: "tty" or "pipe", and its longest line
  BufSize,    \* sizeof(userInput), 1024 in the code
  ReadSize,   \* what one read() of stdio asks for
  MaxLines    \* lines entered in a run (a bound)

ASSUME TerminalAssumption ==
  /\ \A i \in Inputs : i.source \in {"tty", "pipe"} /\ i.longest \in Nat
  /\ BufSize \in Nat \ {0, 1} /\ ReadSize \in Nat \ {0}
  /\ MaxLines \in Nat

VARIABLES
  input,      \* what standard input is
  typed,      \* the lengths of the lines entered
  kernel,     \* characters that read() would return
  stdio,      \* characters in the buffer of stdin
  userInput,  \* what fgets has put into the buffer
  at,         \* the thread is in poll (InputAvailable) or in fgets
  answers,    \* history: the texts handed on
  cuts        \* history: the characters removed as the '\n'
vars == <<input, typed, kernel, stdio, userInput, at, answers, cuts>>

Newline(line) == <<line, 0>>
Text(line, length) == [place \in 1 .. length |-> <<line, place>>]
IsNewline(char) == char[2] = 0

Init ==
  /\ input \in Inputs
  /\ typed = <<>> /\ kernel = <<>> /\ stdio = <<>>
  /\ userInput = <<>> /\ at = "poll" /\ answers = <<>> /\ cuts = {}

Enters ==
  /\ Len(typed) < MaxLines
  /\ \E length \in 0 .. input.longest :
       LET line == Len(typed) + 1
       IN  /\ typed' = Append(typed, length)
           /\ kernel' = kernel \o Append(Text(line, length), Newline(line))
  /\ UNCHANGED <<input, stdio, userInput, at, answers, cuts>>

InputAvailable == kernel # <<>>

Polls ==
  /\ at = "poll" /\ InputAvailable
  /\ at' = "fgets" /\ userInput' = <<>>
  /\ UNCHANGED <<input, typed, kernel, stdio, answers, cuts>>

\* SET_WORK_TIMEOUT and WORK_TIMEOUT.
Sleeps == at = "poll" /\ ~InputAvailable /\ UNCHANGED vars

\* What one read() returns.
Available ==
  LET ends == {i \in DOMAIN kernel : IsNewline(kernel[i])}
      most == IF input.source = "tty" /\ ends # {} THEN Min(ends) ELSE Len(kernel)
  IN  Min({most, ReadSize})

\* fgets finds the buffer of stdio empty.
Refills ==
  /\ at = "fgets" /\ stdio = <<>> /\ kernel # <<>>
  /\ stdio' = SubSeq(kernel, 1, Available)
  /\ kernel' = SubSeq(kernel, Available + 1, Len(kernel))
  /\ UNCHANGED <<input, typed, userInput, at, answers, cuts>>

\* Variant: one place of the buffer too many is kept back.
EndsLineOneShort(text) == IsNewline(Last(text)) \/ Len(text) = BufSize - 2

EndsLine(text) == IsNewline(Last(text)) \/ Len(text) = BufSize - 1

\* Variant: the last character is handed on too.
KeepsNewline(text) == answers' = Append(answers, text) /\ UNCHANGED cuts

\* userInput[strlen(userInput) - 1] = '\0'
HandsOn(text) == answers' = Append(answers, Front(text)) /\ cuts' = cuts \cup {Last(text)}

\* A character moves to userInput; fgets ends behind '\n' or when it is full.
Gets ==
  /\ at = "fgets" /\ stdio # <<>>
  /\ stdio' = Tail(stdio)
  /\ userInput' = Append(userInput, Head(stdio))
  /\ IF EndsLine(userInput')
       THEN at' = "poll" /\ HandsOn(userInput')
       ELSE UNCHANGED <<at, answers, cuts>>
  /\ UNCHANGED <<input, typed, kernel>>

PromptStep == Polls \/ Refills \/ Gets \/ Sleeps

Next == Enters \/ PromptStep

Spec == Init /\ [][Next]_vars /\ WF_vars(PromptStep)

-----------------------------------------------------------------------------
\* The lines entered and not yet answered.
Waiting ==
  [i \in 1 .. Len(typed) - Len(answers) |->
     Text(Len(answers) + i, typed[Len(answers) + i])]

\* fgets has room for every line, its '\n' and the terminator.
LinesFit == input.longest + 2 <= BufSize

\* On a pipe read() hides lines from select, and a line that does not fit answers
\* several prompts: nothing is promised then.
Kept(s) == IF input.source = "tty" /\ LinesFit THEN s ELSE <<>>

Queue == INSTANCE LineQueue WITH queue <- Kept(Waiting), out <- Kept(answers)

\* On a terminal, with lines that fit the buffer, the prompts take every line
\* entered, whole, in order, each in the end - also those typed ahead.
KeepsLineQueue == Queue!Spec

\* What a prompt removes from the end of its buffer is the '\n'; but of a line that
\* does not fit, whose rest answers the next prompts, each full buffer loses its last
\* character.  A line of exactly one full buffer loses it as well.
OnlyFullBuffersLoseText ==
  \A char \in cuts : IsNewline(char) \/ \E n \in 1 .. char[2] : char[2] = n * (BufSize - 1)
=============================================================================
