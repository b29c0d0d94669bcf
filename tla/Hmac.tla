-------------------------------- MODULE Hmac --------------------------------
(***************************************************************************)
(* HmacSha256 of hmac/hmac_sha2.c as a caller of Sha256: its calls, one    *)
(* after the other on one struct, each run to its end by the actions of    *)
(* module Sha256.  `digest' is the caller's buffer: it takes the inner     *)
(* hash, is read for the outer one and is written again.                   *)
(***************************************************************************)
EXTENDS Sha256

CONSTANTS Keys, Texts   \* lengths of the key and of the text

ASSUME KeysAssumption == Keys \subseteq Nat
ASSUME TextsAssumption == Texts \subseteq Nat

VARIABLES
  key, text,  \* what the caller passes
  k,          \* the key in use
  digest, 
  at          \* the place in HmacSha256
hvars == <<key, text, k, digest, at>>

\* Byte i of a pad: 0x36 or 0x5c XORed to the key, or to zero behind it.
Pad(c) == [i \in 1 .. 64 |-> <<"xor", IF i <= Len(k) THEN k[i] ELSE Const(0), c>>]
ipad == Pad(54)
opad == Pad(92)

Goes(a, b) == at = a /\ at' = b /\ UNCHANGED <<key, text>>

\* The calls of the three functions of sha.c.
Starts(a, b) == Goes(a, b) /\ Sha256Init /\ UNCHANGED <<k, digest>>

Processes(a, b, data) ==
  Goes(a, b) /\ pc = "idle" /\ CallProcess(data) /\ UNCHANGED <<k, digest>>

\* What runs inside the calls, and the call of Sha256Final.
Hashing ==
  /\ \/ Sha256Process \/ ProcessReturns \/ FinalFillsBlock \/ FinalEnds
     \/ at \in {"keyIn", "textIn", "digestIn"} /\ Sha256Final
  /\ UNCHANGED hvars

-----------------------------------------------------------------------------
HInit ==
  /\ Init
  /\ \E n \in Keys : key = [i \in 1 .. n |-> <<"key", i>>]
  /\ \E n \in Texts : text = [i \in 1 .. n |-> Data(i)]
  /\ k = key /\ digest = <<>> /\ at = "start"

\* Variant: a key of exactly one block is hashed as well.
KeyFillsABlock == Len(key) >= 64

KeyIsLong == Len(key) > 64

\* key := HASH(key).
HashesKey ==
  \/ KeyIsLong /\ Starts("start", "longKey")
  \/ Processes("longKey", "keyIn", key)
  \/ /\ pc = "final" /\ Goes("keyIn", "keyed")
     /\ k' = Digest(hashed)
     /\ UNCHANGED <<vars, digest>>

KeepsKey ==
  ~KeyIsLong /\ Goes("start", "keyed") /\ UNCHANGED <<vars, k, digest>>

InnerHash ==
  \/ Starts("keyed", "inner")
  \/ Processes("inner", "ipadIn", ipad)
  \/ Processes("ipadIn", "textIn", text)
  \/ /\ pc = "final" /\ Goes("textIn", "innerDone")
     /\ digest' = Digest(hashed)
     /\ UNCHANGED <<vars, k>>

\* Variant: the outer hash goes on in the struct of the inner one.
OuterHashWithoutInit ==
  \/ /\ Goes("innerDone", "opadIn") /\ CallProcess(opad)
     /\ UNCHANGED <<k, digest>>
  \/ Processes("opadIn", "digestIn", digest)
  \/ /\ pc = "final" /\ Goes("digestIn", "done")
     /\ digest' = Digest(hashed)
     /\ UNCHANGED <<vars, k>>

OuterHash ==
  \/ Starts("innerDone", "outer")
  \/ Processes("outer", "opadIn", opad)
  \/ Processes("opadIn", "digestIn", digest)
  \/ /\ pc = "final" /\ Goes("digestIn", "done")
     /\ digest' = Digest(hashed)
     /\ UNCHANGED <<vars, k>>

Done == at = "done" /\ UNCHANGED <<vars, hvars>>

HNext == HashesKey \/ KeepsKey \/ InnerHash \/ OuterHash \/ Hashing \/ Done

HSpec == HInit /\ [][HNext]_<<vars, hvars>>

-----------------------------------------------------------------------------
\* FIPS 180-4 and RFC 2104.
Hash(m) == Digest([i \in 1 .. PaddedLen(Len(m)) |-> PaddedByte(m, i)])

KeyOfABlock == IF Len(key) > 64 THEN Hash(key) ELSE key

KXor(c) ==
  [i \in 1 .. 64 |->
     <<"xor", IF i \in DOMAIN KeyOfABlock THEN KeyOfABlock[i] ELSE Const(0), c>>]

InnerHMAC == Hash(KXor(54) \o text)
HMAC == Hash(KXor(92) \o InnerHMAC)

\* HmacSha256 returns the HMAC of RFC 2104, for keys shorter and longer than a
\* block and texts that end anywhere in one, though the struct and the digest
\* buffer are used again for each of its two or three hashes.
ReturnsTheHmac == at = "done" => digest = HMAC
=============================================================================
