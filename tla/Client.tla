------------------------------- MODULE Client -------------------------------
(***************************************************************************)
(* AskServer of client.c, call by call, as the peer of the network thread: *)
(* connect, SSL_connect, SSL_write, SSL_read, on a new socket for every    *)
(* try.  The server may not listen yet, may be stopped at any time, and an *)
(* accepted connection may break.                                          *)
(***************************************************************************)
EXTENDS NetInterface

CONSTANTS
  MaxCalls,   \* calls of AskServer in a run (a bound)
  Breaks      \* whether connections break

ASSUME ClientAssumption == MaxCalls \in Nat /\ Breaks \in BOOLEAN

MAX_TRY_SOCK_CONNECT == 3

VARIABLES
  askPc,      \* the call that AskServer is in
  try,        \* its loop variable
  alive,      \* whether the connection of this try stands, as the client knows
  recBuf,     \* what has been received: nothing or an answer
  ret,        \* what the last AskServer returned
  printed,    \* whether it showed an answer
  sockets,    \* descriptors open
  calls,      \* calls of AskServer so far
  answered,   \* history: an answer was written to the connection of this try
  refused     \* history: connects that failed
clientVars == <<askPc, try, alive, recBuf, ret, printed, sockets, calls, answered, refused>>
vars == <<netVars, processVars, clientVars>>

\* Connections are accepted in turn and the client has one at a time: the
\* accepted one is its own unless its own still waits in the queue.
Mine == alive /\ backlog = 0 /\ conn # "none"
Gone == ~alive \/ ~Running \/ (backlog = 0 /\ conn = "none")

\* The service has started its threads; its socket may be yet to come.
Init ==
  /\ proc = "running" /\ masked = TRUE /\ pending = {} /\ stopper = "main" /\ handles = "open"
  /\ netPc = "setup" /\ netAt = "test" /\ backlog = 0 /\ conn = "none" /\ request = "none"
  /\ askPc = "idle" /\ try = 0 /\ alive = FALSE /\ recBuf = "nothing" /\ ret = 1
  /\ printed = FALSE /\ sockets = 0 /\ calls = 0 /\ answered = FALSE /\ refused = 0

-----------------------------------------------------------------------------
CallsAskServer ==
  /\ askPc = "idle" /\ calls < MaxCalls
  /\ calls' = calls + 1 /\ try' = 0 /\ printed' = FALSE /\ recBuf' = "junk"
  /\ askPc' = "connect"
  /\ UNCHANGED <<alive, ret, sockets, answered, refused, netVars, processVars>>

\* CreateSocket returns -1: AskServer gives up at once.
NoSocket ==
  /\ askPc = "connect" /\ askPc' = "idle"
  /\ ret' = 0
  /\ UNCHANGED <<try, alive, recBuf, printed, sockets, calls, answered, refused,
                 netVars, processVars>>

Connects ==
  /\ askPc = "connect" /\ PeerConnects
  /\ sockets' = sockets + 1 /\ alive' = TRUE /\ answered' = FALSE
  /\ askPc' = "handshake"
  /\ UNCHANGED <<try, recBuf, ret, printed, calls, refused>>

\* connect -1: the loop goes on without closing the socket.
IsRefused ==
  /\ askPc = "connect" /\ ~(Running /\ Listening)
  /\ sockets' = sockets + 1 /\ refused' = refused + 1
  /\ askPc' = "delay"
  /\ UNCHANGED <<try, alive, recBuf, ret, printed, calls, answered, netVars, processVars>>

SaysHello ==
  /\ askPc = "handshake" /\ Mine /\ PeerSaysHello
  /\ UNCHANGED clientVars

\* SSL_connect returns 1; or 0, which ends the loop; or -1, which is true in C
\* and goes on to SSL_write.
EndsHandshake ==
  /\ askPc = "handshake"
  /\ \/ Mine /\ conn = "hello" /\ netPc = "read" /\ askPc' = "write"
     \/ Gone /\ askPc' \in {"write", "close"}
  /\ UNCHANGED <<try, alive, recBuf, ret, printed, sockets, calls, answered, refused,
                 netVars, processVars>>

\* Variant: the memset before the receiving loop is missing.
SendsWithoutMemset ==
  /\ askPc = "write" /\ askPc' = "read"
  /\ \/ Mine /\ netPc = "read" /\ PeerSendsRequest
     \/ Gone /\ UNCHANGED <<netVars, processVars>>
  /\ UNCHANGED <<try, alive, ret, printed, sockets, calls, answered, refused, recBuf>>

\* SSL_write: all is sent; or 0 from a connection that is gone, or as many
\* bytes as the socket still takes.  The receiving loop begins with a memset.
Sends ==
  /\ askPc = "write" /\ askPc' = "read"
  /\ \/ Mine /\ netPc = "read" /\ PeerSendsRequest
     \/ Gone /\ UNCHANGED <<netVars, processVars>>
  /\ recBuf' = "nothing"
  /\ UNCHANGED <<try, alive, ret, printed, sockets, calls, answered, refused>>

\* Variant: the socket of a failed write or read is left open.
FailsWithoutClose ==
  /\ askPc \in {"write", "read"} /\ Gone
  /\ askPc = "read" /\ alive /\ Running => ~answered
  /\ askPc' = "delay"
  /\ alive' = FALSE
  /\ UNCHANGED <<try, recBuf, ret, printed, sockets, calls, answered, refused,
                 netVars, processVars>>

\* SSL_write or SSL_read returns -1: close, and try again.
Fails ==
  /\ askPc \in {"write", "read"} /\ Gone
  /\ askPc = "read" /\ alive /\ Running => ~answered
  /\ askPc' = "delay"
  /\ alive' = FALSE /\ sockets' = sockets - 1
  /\ UNCHANGED <<try, recBuf, ret, printed, calls, answered, refused, netVars, processVars>>

\* The socket was reset: nothing ignores SIGPIPE.
IsKilled ==
  /\ askPc = "write" /\ Gone
  /\ askPc' = "killed" /\ alive' = FALSE /\ sockets' = 0 /\ refused' = 0
  /\ UNCHANGED <<try, recBuf, ret, printed, calls, answered, netVars, processVars>>

Receives ==
  /\ askPc = "read" /\ alive /\ answered /\ recBuf = "nothing"
  /\ recBuf' = "answer"
  /\ UNCHANGED <<askPc, try, alive, ret, printed, sockets, calls, answered, refused,
                 netVars, processVars>>

\* Variant: the receiving loop takes SSL_read's 0 for more to come.
ReadsOn == askPc = "read" /\ Gone /\ UNCHANGED vars

\* SSL_read returns 0: the server has closed, what there is gets printed.
Prints ==
  /\ askPc = "read" /\ Gone /\ (answered /\ alive => recBuf # "nothing")
  /\ printed' = (recBuf # "nothing")
  /\ askPc' = "close"
  /\ UNCHANGED <<try, alive, recBuf, ret, sockets, calls, answered, refused,
                 netVars, processVars>>

Closes ==
  /\ askPc = "close"
  /\ IF Mine THEN PeerLeaves ELSE UNCHANGED <<netVars, processVars>>
  /\ alive' = FALSE /\ sockets' = sockets - 1
  /\ ret' = 1 /\ askPc' = "idle"
  /\ UNCHANGED <<try, recBuf, printed, calls, answered, refused>>

\* usleep, and the loop's test.
Retries ==
  /\ askPc = "delay"
  /\ try' = try + 1
  /\ IF try' < MAX_TRY_SOCK_CONNECT
       THEN askPc' = "connect" /\ UNCHANGED ret
       ELSE askPc' = "idle" /\ ret' = 0
  /\ UNCHANGED <<alive, recBuf, printed, sockets, calls, answered, refused,
                 netVars, processVars>>

ClientStep ==
  \/ Connects \/ IsRefused \/ SaysHello \/ EndsHandshake \/ Sends \/ Fails
  \/ IsKilled \/ Receives \/ Prints \/ Closes \/ Retries

-----------------------------------------------------------------------------
\* The server's steps, and the answer they put on the client's connection.
ServerStep ==
  /\ NetStep(FALSE)
  /\ answered' = (answered \/ (netPc = "write" /\ Mine /\ conn = "request" /\ Running'))
  /\ UNCHANGED <<askPc, try, alive, recBuf, ret, printed, sockets, calls, refused>>

\* main is told to stop and lets the network thread go; the process ends.  Of a
\* thread that ended at epoll_wait main hears nothing before the stop.
MainReleases ==
  /\ Running /\ stopper = "main" /\ stopper' = "free"
  /\ UNCHANGED <<netVars, proc, masked, pending, handles, clientVars>>

MainReturns ==
  /\ Running /\ proc' = "returned"
  /\ netPc \in {"done", "failed"} \/ (netPc = "dead" /\ stopper = "free")
  /\ UNCHANGED <<netVars, masked, pending, stopper, handles, clientVars>>

\* Each side finds out for itself.
LinkBreaks ==
  /\ Breaks /\ Mine /\ PeerLeaves
  /\ alive' = FALSE
  /\ UNCHANGED <<askPc, try, recBuf, ret, printed, sockets, calls, answered, refused>>

Ended == askPc \in {"idle", "killed"} /\ UNCHANGED vars

Next ==
  \/ CallsAskServer \/ NoSocket \/ ClientStep \/ ServerStep
  \/ MainReleases \/ MainReturns \/ LinkBreaks \/ Ended

Spec == Init /\ [][Next]_vars
FairSpec == Spec /\ WF_vars(ClientStep) /\ WF_vars(ServerStep)

-----------------------------------------------------------------------------
\* AskServer returns, or SIGPIPE ends the client, through refused connects, a stop
\* of the service and broken connections: with no other peer for the server to wait
\* for, both sides wait for each other only by turns.  It may wait for ever only
\* if the network thread has ended at a failed epoll_wait, which leaves the listening
\* socket open with nobody to accept, and only until the service is stopped.
AskServerReturns ==
  askPc = "connect" ~> askPc \in {"idle", "killed"} \/ [](netPc = "dead" /\ Running)

\* What AskServer prints is the answer to this try, never one left in recBuf by
\* an earlier try or what the stack held.
PrintsItsOwnAnswer == printed => answered /\ recBuf = "answer"

\* On every way through a try its socket is closed, but for a connect that
\* failed: those stay open, three in a call at most.
SocketsAreClosed ==
  /\ sockets = refused + IF askPc \in {"handshake", "write", "read", "close"} THEN 1 ELSE 0
  /\ refused <= MAX_TRY_SOCK_CONNECT * calls
=============================================================================
