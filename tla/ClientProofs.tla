---------------------------- MODULE ClientProofs ----------------------------
(***************************************************************************)
(* Theorems about Client, for any number of calls and whatever the server, *)
(* its stop and the connections do meanwhile.                              *)
(***************************************************************************)
EXTENDS Client, TLAPS

AskPcs == {"idle", "connect", "handshake", "write", "read", "close", "delay", "killed"}

\* With a connection, as far as the client has got.
Connected == askPc \in {"handshake", "write", "read", "close"}

\* What the server, main and the link leave of the client.
LEMMA OthersFrame ==
  ASSUME ServerStep \/ MainReleases \/ MainReturns \/ LinkBreaks \/ SaysHello
         \/ Ended \/ UNCHANGED vars
  PROVE  /\ UNCHANGED <<askPc, try, recBuf, printed, sockets, calls, refused>>
         /\ answered => answered'
<1> USE DEF clientVars
<1>1. CASE ServerStep    BY <1>1 DEF ServerStep
<1>2. CASE MainReleases  BY <1>2 DEF MainReleases
<1>3. CASE MainReturns   BY <1>3 DEF MainReturns
<1>4. CASE LinkBreaks    BY <1>4 DEF LinkBreaks
<1>5. CASE SaysHello     BY <1>5 DEF SaysHello
<1>6. CASE Ended         BY <1>6 DEF Ended, vars
<1>7. CASE UNCHANGED vars BY <1>7 DEF vars
<1> QED  BY <1>1, <1>2, <1>3, <1>4, <1>5, <1>6, <1>7

-----------------------------------------------------------------------------
(* The answer shown.                                                       *)

\* The buffer is emptied before the receiving loop, so within it an answer is
\* that of this try; a call shows one and returns.
OwnAnswer ==
  /\ askPc = "read" /\ recBuf # "nothing" => answered /\ recBuf = "answer"
  /\ printed => askPc \in {"close", "idle"} /\ answered /\ recBuf = "answer"

LEMMA OwnAnswerStep ==
  ASSUME OwnAnswer, [Next]_vars
  PROVE  OwnAnswer'
<1> USE DEF OwnAnswer
<1>1. CASE CallsAskServer BY <1>1 DEF CallsAskServer
<1>2. CASE Connects       BY <1>2 DEF Connects
<1>3. CASE IsRefused      BY <1>3 DEF IsRefused
<1>4. CASE EndsHandshake  BY <1>4 DEF EndsHandshake
<1>5. CASE Sends          BY <1>5 DEF Sends
<1>6. CASE Fails          BY <1>6 DEF Fails
<1>7. CASE IsKilled       BY <1>7 DEF IsKilled
<1>8. CASE Receives       BY <1>8 DEF Receives
<1>9. CASE Prints         BY <1>9 DEF Prints
<1>10. CASE Closes        BY <1>10 DEF Closes
<1>11. CASE Retries       BY <1>11 DEF Retries
<1>12. CASE NoSocket      BY <1>12 DEF NoSocket
<1>13. CASE \/ ServerStep \/ MainReleases \/ MainReturns \/ LinkBreaks
            \/ SaysHello \/ Ended \/ UNCHANGED vars
  BY <1>13, OthersFrame
<1> QED
  BY <1>1, <1>2, <1>3, <1>4, <1>5, <1>6, <1>7, <1>8, <1>9, <1>10, <1>11, <1>12, <1>13
  DEF Next, ClientStep

\* What AskServer shows is what the server wrote to the connection of this try,
\* through any number of failed tries and earlier calls.
THEOREM AlwaysPrintsItsOwnAnswer == Spec => []PrintsItsOwnAnswer
<1>1. Init => OwnAnswer
  BY DEF Init, OwnAnswer
<1>2. OwnAnswer => PrintsItsOwnAnswer
  BY DEF OwnAnswer, PrintsItsOwnAnswer
<1> QED  BY <1>1, <1>2, OwnAnswerStep, PTL DEF Spec

-----------------------------------------------------------------------------
(* Sockets.                                                                *)

Typed ==
  /\ askPc \in AskPcs
  /\ calls \in Nat /\ try \in Nat /\ sockets \in Nat /\ refused \in Nat

\* Every try before this one has failed to connect at most once.
Counted ==
  /\ sockets = refused + (IF Connected THEN 1 ELSE 0)
  /\ askPc \notin {"idle", "killed"} =>
       /\ calls >= 1 /\ try < MAX_TRY_SOCK_CONNECT
       /\ refused <= MAX_TRY_SOCK_CONNECT * (calls - 1) + try
                       + (IF askPc = "delay" THEN 1 ELSE 0)
  /\ askPc \in {"idle", "killed"} => refused <= MAX_TRY_SOCK_CONNECT * calls

LEMMA CountedStep ==
  ASSUME Typed, Counted, [Next]_vars
  PROVE  Typed' /\ Counted'
<1> USE DEF Typed, Counted, AskPcs, Connected, MAX_TRY_SOCK_CONNECT
<1>1. CASE CallsAskServer BY <1>1 DEF CallsAskServer
<1>2. CASE Connects       BY <1>2 DEF Connects
<1>3. CASE IsRefused      BY <1>3 DEF IsRefused
<1>4. CASE EndsHandshake  BY <1>4 DEF EndsHandshake
<1>5. CASE Sends          BY <1>5 DEF Sends
<1>6. CASE Fails          BY <1>6 DEF Fails
<1>7. CASE IsKilled       BY <1>7 DEF IsKilled
<1>8. CASE Receives       BY <1>8 DEF Receives
<1>9. CASE Prints         BY <1>9 DEF Prints
<1>10. CASE Closes        BY <1>10 DEF Closes
<1>11. CASE Retries       BY <1>11 DEF Retries
<1>12. CASE NoSocket      BY <1>12 DEF NoSocket
<1>13. CASE \/ ServerStep \/ MainReleases \/ MainReturns \/ LinkBreaks
            \/ SaysHello \/ Ended \/ UNCHANGED vars
  BY <1>13, OthersFrame
<1> QED
  BY <1>1, <1>2, <1>3, <1>4, <1>5, <1>6, <1>7, <1>8, <1>9, <1>10, <1>11, <1>12, <1>13
  DEF Next, ClientStep

\* A try leaves no socket open but that of a connect that failed, however many
\* calls there are and wherever their connections break.
THEOREM SocketsAreAlwaysClosed == Spec => []SocketsAreClosed
<1>1. Init => Typed /\ Counted
  BY DEF Init, Typed, Counted, AskPcs, Connected, MAX_TRY_SOCK_CONNECT
<1>2. Typed /\ Counted => SocketsAreClosed
  BY DEF Typed, Counted, Connected, SocketsAreClosed, MAX_TRY_SOCK_CONNECT
<1> QED  BY <1>1, <1>2, CountedStep, PTL DEF Spec
=============================================================================
