--------------------------- MODULE TokenAuthority ---------------------------
(***************************************************************************)
(* What a client is promised: while a request is open, the service decides *)
(* it at one instant, on the documents of that instant, and answers that.  *)
(* The administrators change the documents at any time.                    *)
(***************************************************************************)
EXTENDS Tokens

VARIABLES
  usercol,    \* the documents
  phase,      \* idle, open, decided
  ask,        \* the open request: [kind, arg]
  answer      \* the decision

vars == <<usercol, phase, ask, answer>>

NoRequest == [kind |-> "none"]

Init ==
  /\ usercol = <<>>
  /\ phase = "idle"
  /\ ask = NoRequest
  /\ answer = Answer("none")

\* The answer when there is no document to decide on.
Refusal(kind) == Answer(IF kind = "token" THEN "BAD_REQUEST" ELSE "FORBIDDEN")

Open ==
  /\ phase = "idle" /\ phase' = "open"
  /\ ask'.kind \in {"token", "validate"}
  /\ UNCHANGED <<usercol, answer>>

Decide ==
  /\ phase = "open" /\ phase' = "decided"
  /\ \/ answer' = IF ask.kind = "token" THEN AskVerdict(ask.arg, usercol)
                                        ELSE ValidateVerdict(ask.arg, usercol)
     \/ CursorFails /\ answer' = Refusal(ask.kind)
  /\ UNCHANGED <<usercol, ask>>

Reply ==
  /\ phase = "decided" /\ phase' = "idle"
  /\ ask' = NoRequest /\ answer' = Answer("none")
  /\ UNCHANGED usercol

Administer == UNCHANGED <<phase, ask, answer>>

Next == Open \/ Decide \/ Reply \/ Administer

Spec == Init /\ [][Next]_vars
=============================================================================
