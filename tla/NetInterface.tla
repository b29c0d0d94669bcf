---------------------------- MODULE NetInterface ----------------------------
(***************************************************************************)
(* The network thread: it sets up TLS and a listening socket, then serves  *)
(* one connection at a time - epoll_wait, accept, SSL_accept, SSL_read,    *)
(* RunMethod, SSL_write, close - and asks NeedQuit between two waits.  The *)
(* listening socket is non-blocking, the accepted one is not, so SSL_accept*)
(* and SSL_read wait for the peer.                                         *)
(***************************************************************************)
EXTENDS Process, Naturals

CONSTANTS
  MaxBacklog,     \* connections that may wait in the listen queue (a bound)
  Requests        \* what a request makes the server do: see RequestKinds

\* find: a registered method that queries usercol; nofind: an answer without
\* a query; malformed: input the parser runs off (its behaviour is undefined).
RequestKinds == {"find", "nofind", "malformed"}

ASSUME NetAssumption ==
  /\ MaxBacklog \in Nat
  /\ Requests \subseteq RequestKinds

VARIABLES
  netPc,          \* the call of NetInterface() the thread is in
  netAt,          \* inside NeedQuit of the serving loop: test or quit
  backlog,        \* connections waiting in accept's queue
  conn,           \* the accepted connection and what its peer has done
  request         \* the request being answered

netVars == <<netPc, netAt, backlog, conn, request>>

\* pthread_exit at the end, after a setup failure, after epoll_wait's -1.
NetEnded == {"done", "failed", "dead"}

NetTypeOK ==
  /\ netPc \in {"off", "setup", "epoll", "loop", "wait", "accept", "handshake",
                "read", "run", "find", "write", "close", "cleanup"} \cup NetEnded
  /\ netAt \in {"test", "quit"}
  /\ backlog \in 0 .. MaxBacklog
  /\ conn \in {"none", "connected", "hello", "request", "left", "leftAfterRequest"}
  /\ request \in RequestKinds \cup {"none"}

NetInit ==
  /\ netPc = "off"
  /\ netAt = "test"
  /\ backlog = 0
  /\ conn = "none"
  /\ request = "none"

-----------------------------------------------------------------------------
\* Handlers list, SSL context, certificates, socket, bind, listen: any of
\* them failing tells main and ends the thread.
NetSetsUp ==
  /\ netPc = "setup"
  /\ \/ netPc' = "epoll" /\ UNCHANGED <<proc, pending>>
     \/ "setup" \in Faults /\ netPc' = "failed" /\ Raise("USR1")
  /\ UNCHANGED <<netAt, backlog, conn, request, masked, stopper, handles>>

\* epoll_create and epoll_ctl: a failure is exit(1).
NetCreatesEpoll ==
  /\ netPc = "epoll"
  /\ \/ netPc' = "loop" /\ UNCHANGED proc
     \/ "epoll" \in Faults /\ proc' = "exited" /\ UNCHANGED netPc
  /\ UNCHANGED <<netAt, backlog, conn, request, masked, pending, stopper, handles>>

NetStays ==
  /\ netPc = "loop" /\ netAt = "test" /\ Busy
  /\ netPc' = "wait"
  /\ UNCHANGED <<netAt, backlog, conn, request, processVars>>

NetGetsStopper ==
  /\ netPc = "loop" /\ netAt = "test" /\ TryLock("net")
  /\ netAt' = "quit"
  /\ UNCHANGED <<netPc, backlog, conn, request, proc, masked, pending, handles>>

NetSeesQuit ==
  /\ netPc = "loop" /\ netAt = "quit"
  /\ Unlock
  /\ netPc' = "cleanup" /\ netAt' = "test"
  /\ UNCHANGED <<backlog, conn, request, proc, masked, pending, handles>>

\* epoll_wait: an event, the timeout, or an error that ends the thread
\* without a word to main.
NetWaits ==
  /\ netPc = "wait"
  /\ \/ backlog > 0 /\ netPc' = "accept"
     \/ backlog = 0 /\ netPc' = "loop"
     \/ "epollWait" \in Faults /\ netPc' = "dead"
  /\ UNCHANGED <<netAt, backlog, conn, request, processVars>>

\* accept: a failure (the peer is gone, no descriptor) is skipped.
NetAccepts ==
  /\ netPc = "accept" /\ backlog > 0
  /\ \/ /\ backlog' = backlog - 1
        /\ conn' = "connected" /\ netPc' = "handshake"
     \/ /\ "accept" \in Faults
        /\ backlog' \in {backlog, backlog - 1}
        /\ netPc' = "loop" /\ UNCHANGED conn
  /\ UNCHANGED <<netAt, request, processVars>>

\* Variant: a failed handshake goes on with the loop without closing.
NetForgetsToClose ==
  /\ netPc = "handshake"
  /\ \/ conn = "hello" /\ netPc' \in {"read", "loop"}
     \/ conn = "left" /\ netPc' = "loop"
  /\ UNCHANGED <<netAt, backlog, conn, request, processVars>>

\* SSL_accept returns once the peer has spoken or gone.
NetHandshakes ==
  /\ netPc = "handshake"
  /\ \/ conn = "hello" /\ netPc' \in {"read", "close"}
     \/ conn = "left" /\ netPc' = "close"
  /\ UNCHANGED <<netAt, backlog, conn, request, processVars>>

\* SSL_read: a request; 0 from a peer that closed, served as an empty
\* request; -1, which closes the connection.
NetReads ==
  /\ netPc = "read"
  /\ \/ /\ conn \in {"request", "leftAfterRequest"}
        /\ request' \in Requests /\ netPc' = "run"
     \/ conn = "left" /\ request' = "nofind" /\ netPc' = "run"
     \/ conn = "left" /\ netPc' = "close" /\ UNCHANGED request
  /\ UNCHANGED <<netAt, backlog, conn, processVars>>

\* RunMethod: parse, look the method up, run it up to its query if any.
NetRuns ==
  /\ netPc = "run"
  /\ \/ request = "find" /\ netPc' = "find" /\ UNCHANGED proc
     \/ request \in {"nofind", "malformed"} /\ netPc' = "write" /\ UNCHANGED proc
     \/ request = "malformed" /\ proc' = "crashed" /\ UNCHANGED netPc
  /\ UNCHANGED <<netAt, backlog, conn, request, masked, pending, stopper, handles>>

\* The query of AskToken or ValidateToken; an error reads as "no document".
NetFinds(racing) ==
  /\ netPc = "find"
  /\ \/ netPc' = "write" /\ UNCHANGED proc
     \/ CallMayCrash(racing) /\ proc' = "crashed" /\ UNCHANGED netPc
  /\ UNCHANGED <<netAt, backlog, conn, request, masked, pending, stopper, handles>>

\* SSL_write to a peer that has gone: accepted by the socket all the same;
\* -1, which asks main to stop the service; or SIGPIPE, which nothing blocks.
NetWrites ==
  /\ netPc = "write"
  /\ request' = "none"
  /\ \/ netPc' = "close" /\ UNCHANGED <<proc, pending>>
     \/ /\ conn \in {"left", "leftAfterRequest"}
        /\ \/ Raise("USR1")
           \/ proc' = "sigpipe" /\ UNCHANGED pending
        /\ netPc' = "close"
  /\ UNCHANGED <<netAt, backlog, conn, masked, stopper, handles>>

\* SSL_shutdown, SSL_free, close, and back to NeedQuit.
NetCloses ==
  /\ netPc = "close"
  /\ conn' = "none"
  /\ netPc' = "loop"
  /\ UNCHANGED <<netAt, backlog, request, processVars>>

\* Closing the listening socket drops the connections still in its queue.
NetCleansUp ==
  /\ netPc = "cleanup"
  /\ backlog' = 0
  /\ netPc' = "done"
  /\ UNCHANGED <<netAt, conn, request, processVars>>

InNetCall == netPc = "find"

NetStep(racing) ==
  /\ Running
  /\ \/ NetSetsUp \/ NetCreatesEpoll \/ NetStays \/ NetGetsStopper
     \/ NetSeesQuit \/ NetWaits \/ NetAccepts \/ NetHandshakes \/ NetReads
     \/ NetRuns \/ NetFinds(racing) \/ NetWrites \/ NetCloses \/ NetCleansUp

-----------------------------------------------------------------------------
\* The peers.  Nothing obliges a peer to speak or to leave.
Listening == netPc \notin {"off", "setup", "failed", "done"}

PeerConnects ==
  /\ Running /\ Listening /\ backlog < MaxBacklog
  /\ backlog' = backlog + 1
  /\ UNCHANGED <<netPc, netAt, conn, request, processVars>>

PeerSaysHello ==
  /\ Running /\ conn = "connected"
  /\ conn' = "hello"
  /\ UNCHANGED <<netPc, netAt, backlog, request, processVars>>

\* A client sends its request once the handshake is over.
PeerSendsRequest ==
  /\ Running /\ conn = "hello" /\ netPc = "read"
  /\ conn' = "request"
  /\ UNCHANGED <<netPc, netAt, backlog, request, processVars>>

PeerLeaves ==
  /\ Running /\ conn \in {"connected", "hello", "request"}
  /\ conn' = IF conn = "request" THEN "leftAfterRequest" ELSE "left"
  /\ UNCHANGED <<netPc, netAt, backlog, request, processVars>>
=============================================================================
