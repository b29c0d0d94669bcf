------------------------------- MODULE Sha256 -------------------------------
(***************************************************************************)
(* struct Sha256_s as its callers use it: Sha256Init, Sha256Process, once  *)
(* per part of a message, Sha256Final.  Sha256Compress is abstract: state  *)
(* and digest are functions of everything compressed so far, so `hashed'   *)
(* keeps that.  A byte is a term, told apart by where it comes from.       *)
(***************************************************************************)
EXTENDS Integers, Sequences

CONSTANTS
  Lengths,    \* of the parts a caller hands to Sha256Process
  MaxLen      \* bound on what it hands over in all

ASSUME LengthsAssumption == Lengths \subseteq Nat
ASSUME MaxLenAssumption == MaxLen \in Nat

VARIABLES
  w, addedW, msgLen, hashed,   \* the struct
  input,     \* what the call of Sha256Process in progress has yet to load
  pc,        \* idle, process, pad or final: within or between which calls
  fed,       \* everything loaded since Sha256Init
  reused     \* whether loading has gone on after Sha256Final

md == <<w, addedW, msgLen, hashed>>
vars == <<md, input, pc, fed, reused>>

Const(v) == <<"const", v>>
Data(k) == <<"data", k>>               \* byte k of a message
Digest(h) == [i \in 1 .. 32 |-> <<"digest", h, i>>]

\* pack32to8_be.
Pack32(v) == <<Const((v \div 16777216) % 256), Const((v \div 65536) % 256),
               Const((v \div 256) % 256), Const(v % 256)>>

\* The block as Sha256Compress sees it.
Block(b) == [i \in 1 .. 64 |-> b[i - 1]]

-----------------------------------------------------------------------------
\* The struct lies on its caller's stack: w holds anything before its first use.
Init ==
  /\ w = [j \in 0 .. 63 |-> <<"junk", j>>] /\ addedW = 0 /\ msgLen = 0 /\ hashed = <<>>
  /\ input = <<>> /\ pc = "idle" /\ fed = <<>> /\ reused = FALSE

Sha256Init ==
  /\ addedW' = 0 /\ msgLen' = 0 /\ hashed' = <<>>
  /\ pc' = "idle" /\ fed' = <<>> /\ reused' = FALSE
  /\ UNCHANGED <<w, input>>

\* The call; a caller may go on after Sha256Final, as bench2 of the test does.
CallProcess(data) ==
  /\ input' = data
  /\ pc' = "process" /\ reused' = (reused \/ pc = "final")
  /\ UNCHANGED <<md, fed>>

loadingInput == IF 64 - addedW < Len(input) THEN 64 - addedW ELSE Len(input)

\* w with what one round loads.
Loaded ==
  [j \in 0 .. 63 |-> IF addedW <= j /\ j < addedW + loadingInput
                       THEN input[j - addedW + 1] ELSE w[j]]

\* Variant: a block that is just full waits for the next byte.
ProcessWaitsForMore ==
  /\ pc = "process" /\ input # <<>>
  /\ w' = Loaded
  /\ fed' = fed \o SubSeq(input, 1, loadingInput)
  /\ input' = SubSeq(input, loadingInput + 1, Len(input))
  /\ IF addedW + loadingInput = 64 /\ Len(input) > loadingInput
       THEN /\ hashed' = hashed \o Block(Loaded)
            /\ addedW' = 0 /\ msgLen' = msgLen + 64
       ELSE /\ addedW' = addedW + loadingInput
            /\ UNCHANGED <<hashed, msgLen>>
  /\ UNCHANGED <<pc, reused>>

\* A round of Sha256Process: fills the block and compresses it once full.
Sha256Process ==
  /\ pc = "process" /\ input # <<>>
  /\ w' = Loaded
  /\ fed' = fed \o SubSeq(input, 1, loadingInput)
  /\ input' = SubSeq(input, loadingInput + 1, Len(input))
  /\ IF addedW + loadingInput = 64
       THEN /\ hashed' = hashed \o Block(Loaded)
            /\ addedW' = 0 /\ msgLen' = msgLen + 64
       ELSE /\ addedW' = addedW + loadingInput
            /\ UNCHANGED <<hashed, msgLen>>
  /\ UNCHANGED <<pc, reused>>

ProcessReturns ==
  /\ pc = "process" /\ input = <<>>
  /\ pc' = "idle"
  /\ UNCHANGED <<md, input, fed, reused>>

\* Sha256Final up to the padding bit.
Sha256Final ==
  /\ pc = "idle"
  /\ msgLen' = msgLen + addedW
  /\ w' = [w EXCEPT ![addedW] = Const(128)]
  /\ addedW' = addedW + 1
  /\ pc' = "pad"
  /\ UNCHANGED <<hashed, input, fed, reused>>

ZeroFrom(first, end) ==
  [j \in 0 .. 63 |-> IF first <= j /\ j < end THEN Const(0) ELSE w[j]]

\* Variant: the length is not put into a block that has exactly room for it.
LengthFitsEarly == addedW < 56

LengthFits == addedW <= 56

\* The length does not fit behind the padding bit: this block is sent off.
FinalFillsBlock ==
  /\ pc = "pad" /\ ~LengthFits
  /\ w' = ZeroFrom(addedW, 64)
  /\ hashed' = hashed \o Block(w')
  /\ addedW' = 0
  /\ UNCHANGED <<msgLen, input, pc, fed, reused>>

\* The length in bits: the words n >> 29 and n << 3.
LengthOf(n) == Pack32(n \div 536870912) \o Pack32((n % 536870912) * 8)

FinalEnds ==
  /\ pc = "pad" /\ LengthFits
  /\ w' = [j \in 0 .. 63 |-> IF j < 56 THEN ZeroFrom(addedW, 56)[j]
                             ELSE LengthOf(msgLen)[j - 55]]
  /\ hashed' = hashed \o Block(w')
  /\ addedW' = IF addedW < 56 THEN 56 ELSE addedW
  /\ pc' = "final"
  /\ UNCHANGED <<msgLen, input, fed, reused>>

-----------------------------------------------------------------------------
\* A caller that hashes messages of every length up to MaxLen in parts; it goes
\* on at most once after Sha256Final.
NextBytes(n) == [i \in 1 .. n |-> Data(Len(fed) + i)]

Next ==
  \/ pc = "final" /\ Sha256Init
  \/ \E n \in Lengths : /\ pc = "idle" \/ (pc = "final" /\ ~reused)
                        /\ Len(fed) + n <= MaxLen
                        /\ CallProcess(NextBytes(n))
  \/ Sha256Process \/ ProcessReturns
  \/ Sha256Final \/ FinalFillsBlock \/ FinalEnds

Spec == Init /\ [][Next]_vars

-----------------------------------------------------------------------------
\* FIPS 180-4, 5.1.1: the message, a one bit, as many zeros as needed and the
\* length in bits as 64 bits.
PaddedLen(n) == 64 * ((n + 8) \div 64 + 1)

LengthByte(n, i) ==
  CASE i = 8 -> Const((n % 32) * 8)
    [] i = 7 -> Const((n \div 32) % 256)
    [] i = 6 -> Const((n \div 8192) % 256)
    [] i = 5 -> Const((n \div 2097152) % 256)
    [] i = 4 -> Const((n \div 536870912) % 256)
    [] i = 3 -> Const(((n \div 536870912) \div 256) % 256)
    [] i = 2 -> Const(((n \div 536870912) \div 65536) % 256)
    [] i = 1 -> Const(((n \div 536870912) \div 16777216) % 256)

PaddedByte(m, i) ==
  LET n == Len(m) IN
  CASE i <= n -> m[i]
    [] i = n + 1 -> Const(128)
    [] i > n + 1 /\ i <= PaddedLen(n) - 8 -> Const(0)
    [] i > PaddedLen(n) - 8 -> LengthByte(n, i - (PaddedLen(n) - 8))

\* When Sha256Final returns, exactly the padded message has been compressed,
\* however the message was cut into parts and wherever a block ended.
HashesThePaddedMessage ==
  pc = "final" /\ ~reused =>
    /\ Len(hashed) = PaddedLen(Len(fed))
    /\ \A i \in 1 .. Len(hashed) : hashed[i] = PaddedByte(fed, i)

\* The next byte is written within the block, also into a struct that has been
\* used before and not initialised again.
WritesWithinTheBlock ==
  /\ addedW \in 0 .. 64
  /\ addedW = 64 => pc = "pad"
=============================================================================
