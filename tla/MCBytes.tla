------------------------------ MODULE MCBytes ------------------------------
(***************************************************************************)
(* The code that works on bytes, on small instances: a behaviour is one    *)
(* call of HmacSha256, or any calls of Sha256 on one struct, or one text   *)
(* encoded and decoded.  They share no state.                              *)
(***************************************************************************)
EXTENDS Hmac, Base64, SequencesExt

VARIABLE caller   \* which of the three

everything == <<vars, hvars, base64Vars, caller>>

MCInit ==
  /\ caller \in {"HmacSha256", "Sha256", "Base64"}
  /\ HInit /\ (caller # "HmacSha256" => key = <<>> /\ text = <<>>)
  /\ Base64Init /\ (caller # "Base64" => source = <<>> /\ tail = <<>>)

MCNext ==
  /\ \/ caller = "HmacSha256" /\ HNext /\ UNCHANGED base64Vars
     \/ caller = "Sha256" /\ Next /\ UNCHANGED <<hvars, base64Vars>>
     \/ caller = "Base64" /\ Base64Next /\ UNCHANGED <<vars, hvars>>
  /\ UNCHANGED caller

MCSpec == MCInit /\ [][MCNext]_everything

\* Bytes whose sextets reach both ends of every part of the alphabet.
Bytes == {0, 3, 104, 191, 207, 248, 255}
UpToSix == (UNION {TupleOf(Bytes, n) : n \in 0 .. 3}) \cup
           (UNION {TupleOf({0, 191, 255}, n) : n \in {4, 5, 6}})

NoTailOrLineEnds == {<<>>, LineEnds}
=============================================================================
