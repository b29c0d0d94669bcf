---------------------------- MODULE AuthService ----------------------------
(***************************************************************************)
(* The process: main() starts the administration thread (Cli) and the      *)
(* network thread (NetInterface), sleeps in sigwait, then releases the     *)
(* mutex the workers poll, joins them and destroys the database handles.   *)
(***************************************************************************)
EXTENDS Cli, NetInterface

VARIABLE mainPc       \* the call of main() in progress

mainVars == <<mainPc>>
vars == <<processVars, mainVars, cliVars, dbVars, netVars>>

\* main holds the mutex from its lock to the unlock of DestroyWorkThreads.
MainHolds == mainPc \in {"spawnCli", "spawnNet", "sigwait", "unlock"}

MainTypeOK ==
  mainPc \in {"initDb", "mask", "lock", "spawnCli", "spawnNet", "sigwait",
              "unlock", "joinCli", "joinNet", "destroyDb", "return"}

TypeOK == ProcessTypeOK /\ CliTypeOK /\ NetTypeOK /\ MainTypeOK

Init == ProcessInit /\ CliInit /\ NetInit /\ mainPc = "initDb"

-----------------------------------------------------------------------------
\* InitDb; without a database the program exits with 1.
MainOpensDb ==
  /\ mainPc = "initDb"
  /\ \/ handles' = "open" /\ mainPc' = "mask" /\ UNCHANGED proc
     \/ "initDb" \in Faults /\ proc' = "exited" /\ UNCHANGED <<handles, mainPc>>
  /\ UNCHANGED <<masked, pending, stopper, cliVars, dbVars, netVars>>

\* Variant: the signals are not blocked.
MainMasksNothing ==
  /\ mainPc = "mask"
  /\ mainPc' = "lock"
  /\ UNCHANGED <<processVars, cliVars, dbVars, netVars>>

\* sigprocmask, before there is any other thread.
MainMasksSignals ==
  /\ mainPc = "mask"
  /\ masked' = TRUE
  /\ mainPc' = "lock"
  /\ UNCHANGED <<proc, pending, stopper, handles, cliVars, dbVars, netVars>>

\* Variant: the mutex is initialised and not taken.
MainOnlyInitsStopper ==
  /\ mainPc = "lock"
  /\ mainPc' = "spawnCli"
  /\ UNCHANGED <<processVars, cliVars, dbVars, netVars>>

\* InitWorkThreads: initialise and take the mutex, or give up.
MainLocksStopper ==
  /\ mainPc = "lock"
  /\ \/ TryLock("main") /\ mainPc' = "spawnCli"
     \/ "mutex" \in Faults /\ mainPc' = "destroyDb" /\ UNCHANGED stopper
  /\ UNCHANGED <<proc, masked, pending, handles, cliVars, dbVars, netVars>>

\* pthread_create of the administration thread; on failure give up.
MainSpawnsCli ==
  /\ mainPc = "spawnCli"
  /\ \/ cliPc' = "loop" /\ mainPc' = "spawnNet" /\ UNCHANGED stopper
     \/ "spawnCli" \in Faults /\ Unlock /\ mainPc' = "destroyDb" /\ UNCHANGED cliPc
  /\ UNCHANGED <<proc, masked, pending, handles, cliAt, userInput, userOid,
                 stdin, dbVars, netVars>>

\* pthread_create of the network thread; on failure give up, with the
\* administration thread told to quit but not joined.
MainSpawnsNet ==
  /\ mainPc = "spawnNet"
  /\ \/ netPc' = "setup" /\ mainPc' = "sigwait" /\ UNCHANGED stopper
     \/ "spawnNet" \in Faults /\ Unlock /\ mainPc' = "destroyDb" /\ UNCHANGED netPc
  /\ UNCHANGED <<proc, masked, pending, handles, cliVars, dbVars,
                 netAt, backlog, conn, request>>

\* sigwait returns one of the pending signals.
MainTakesSignal ==
  /\ mainPc = "sigwait"
  /\ \E signal \in pending : pending' = pending \ {signal}
  /\ mainPc' = "unlock"
  /\ UNCHANGED <<proc, masked, stopper, handles, cliVars, dbVars, netVars>>

\* Variant: the workers are joined without having been released.
MainReleasesNobody ==
  /\ mainPc = "unlock"
  /\ mainPc' = "joinCli"
  /\ UNCHANGED <<processVars, cliVars, dbVars, netVars>>

\* DestroyWorkThreads: release the workers, then join both.
MainReleasesWorkers ==
  /\ mainPc = "unlock"
  /\ Unlock
  /\ mainPc' = "joinCli"
  /\ UNCHANGED <<proc, masked, pending, handles, cliVars, dbVars, netVars>>

\* Variants: main does not wait for the worker.
MainSkipsCli ==
  /\ mainPc = "joinCli" /\ mainPc' = "joinNet"
  /\ UNCHANGED <<processVars, cliVars, dbVars, netVars>>

MainSkipsNet ==
  /\ mainPc = "joinNet" /\ mainPc' = "destroyDb"
  /\ UNCHANGED <<processVars, cliVars, dbVars, netVars>>

MainJoinsCli ==
  /\ mainPc = "joinCli" /\ cliPc = "done"
  /\ mainPc' = "joinNet"
  /\ UNCHANGED <<processVars, cliVars, dbVars, netVars>>

MainJoinsNet ==
  /\ mainPc = "joinNet" /\ netPc \in NetEnded
  /\ mainPc' = "destroyDb"
  /\ UNCHANGED <<processVars, cliVars, dbVars, netVars>>

MainDestroysDb ==
  /\ mainPc = "destroyDb"
  /\ handles' = "destroyed"
  /\ mainPc' = "return"
  /\ UNCHANGED <<proc, masked, pending, stopper, cliVars, dbVars, netVars>>

\* Returning from main ends the process and every thread in it.
MainReturns ==
  /\ mainPc = "return"
  /\ proc' = "returned"
  /\ UNCHANGED <<masked, pending, stopper, handles, mainPc, cliVars, dbVars, netVars>>

MainStep ==
  /\ Running
  /\ \/ MainOpensDb \/ MainMasksSignals \/ MainLocksStopper \/ MainSpawnsCli
     \/ MainSpawnsNet \/ MainTakesSignal \/ MainReleasesWorkers \/ MainJoinsCli
     \/ MainJoinsNet \/ MainDestroysDb \/ MainReturns

CliRuns == CliStep(InNetCall) /\ UNCHANGED <<mainVars, netVars>>

NetRunsOn == NetStep(InCliCall) /\ UNCHANGED <<mainVars, cliVars, dbVars>>

-----------------------------------------------------------------------------
\* Ctrl+C, or any other signal main waits for, from outside.
OperatorInterrupts ==
  /\ Running
  /\ Raise("INT")
  /\ UNCHANGED <<masked, stopper, handles, mainVars, cliVars, dbVars, netVars>>

Operator ==
  \/ OperatorInterrupts
  \/ /\ OperatorTypesLine \/ OperatorTypesPart \/ OperatorEndsInput
     /\ UNCHANGED <<mainVars, netVars>>

Peer ==
  /\ PeerConnects \/ PeerSaysHello \/ PeerSendsRequest \/ PeerLeaves
  /\ UNCHANGED <<mainVars, cliVars, dbVars>>

\* The process has ended; nothing moves any more.
Ended == ~Running /\ UNCHANGED vars

Next == MainStep \/ CliRuns \/ NetRunsOn \/ Operator \/ Peer \/ Ended

Spec == Init /\ [][Next]_vars

\* The operating system schedules every runnable thread.
ThreadFairness == WF_vars(MainStep) /\ WF_vars(CliRuns) /\ WF_vars(NetRunsOn)

\* What the code relies on from outside: an accepted peer goes on talking or
\* hangs up, and the operator ends the line he has begun.
PeerGoesOn ==
  /\ PeerSaysHello \/ PeerSendsRequest \/ PeerLeaves
  /\ UNCHANGED <<mainVars, cliVars, dbVars>>

OperatorEndsLine ==
  /\ stdin = "partial" /\ OperatorTypesLine
  /\ UNCHANGED <<mainVars, netVars>>

FairSpec == Spec /\ ThreadFairness

CooperativeSpec == FairSpec /\ WF_vars(PeerGoesOn) /\ WF_vars(OperatorEndsLine)

-----------------------------------------------------------------------------
(* Safety.                                                                 *)

\* Someone has asked main to stop, or main is already past its wait.
StopBegun == pending # {} \/ mainPc \in {"unlock", "joinCli", "joinNet",
                                         "destroyDb", "return"}

\* A worker that finds the mutex free was released by main, and a worker that
\* is gone either was released or has told main to stop: nothing that polls
\* NeedQuit ends behind main's back (main.c, utils.c NeedQuit, exitCommand,
\* the setup failures of NetInterface).
NoWorkerQuitsAlone ==
  /\ cliAt = "quit" \/ netAt = "quit" => StopBegun /\ ~MainHolds
  /\ cliPc = "done" \/ netPc \in NetEnded => StopBegun

\* DestroyDb comes after the last driver call of every worker: the handles
\* are destroyed only when no worker is left that could use them.
HandlesOutliveWorkers ==
  handles = "destroyed" => /\ cliPc \in {"off", "done"}
                           /\ netPc \in {"off"} \cup NetEnded

\* Once a worker exists, no signal of the set takes its default action: the
\* kill(mainPid, SIGUSR1) of a worker and the operator's Ctrl+C always reach
\* main's sigwait, however early they come.
SignalsReachMain == proc = "signalled" => cliPc = "off" /\ netPc = "off"

\* Everything in the collections was typed by the operator as such.
AllDataTyped ==
  /\ \A i \in DOMAIN usercol :
       /\ usercol[i].username \in Names
       /\ usercol[i].services # NoServices =>
            \A j \in DOMAIN usercol[i].services : usercol[i].services[j] \in ServiceNames
  /\ \A i \in DOMAIN servcol : servcol[i].service \in ServiceNames

\* A prompt abandoned by NeedQuit or cut short by the end of input still
\* writes its buffer; in every other case only typed data is stored.
UntypedOnlyAtStopOrEof == AllDataTyped \/ StopBegun \/ stdin = "eof"

\* What the operator sees as graceful termination: stopping the program
\* stores nothing the operator has not typed.
StopWritesNothing == stdin # "eof" => AllDataTyped

\* Identifiers are unique within a collection and a services array holds a
\* value at most once, through any sequence of commands, failed calls and
\* abandoned prompts.  DeleteOne and Pull rest on it.
StoreIsKeyed ==
  /\ \A i, j \in DOMAIN usercol : usercol[i].oid = usercol[j].oid => i = j
  /\ \A i, j \in DOMAIN servcol : servcol[i].oid = servcol[j].oid => i = j
  /\ \A i \in DOMAIN usercol : usercol[i].services # NoServices =>
       \A j, k \in DOMAIN usercol[i].services :
         usercol[i].services[j] = usercol[i].services[k] => j = k

-----------------------------------------------------------------------------
(* The abstract specification main() implements.                           *)

WorkersSpawned ==
  (IF cliPc # "off" THEN {"cli"} ELSE {}) \cup (IF netPc # "off" THEN {"net"} ELSE {})

WorkersGone ==
  (IF cliPc = "done" THEN {"cli"} ELSE {}) \cup
  (IF netPc \in NetEnded THEN {"net"} ELSE {})

Promise == INSTANCE Lifecycle WITH
  Workers <- {"cli", "net"},
  db <- handles,
  spawned <- WorkersSpawned,
  gone <- WorkersGone,
  stop <- StopBegun,
  over <- CASE proc = "running" -> "no" [] proc = "returned" -> "returned"
            [] OTHER -> "aborted"

\* main() keeps the workers and the handles to the order of Lifecycle: it
\* holds while pthread_create of the second worker and epoll_wait succeed.
KeepsLifecycle == Promise!Spec

-----------------------------------------------------------------------------
(* Liveness.                                                               *)

\* Every signal that main waits for ends the process.
ShutdownCompletes == (pending # {}) ~> ~Running

\* An accepted connection is closed again, whatever became of its request.
ConnectionIsClosed == (conn # "none") ~> (conn = "none" \/ ~Running)

\* Without PeerGoesOn, and likewise without OperatorEndsLine, the courtesies the
\* code relies on, ShutdownCompletes is refuted.
SilentPeerSpec == FairSpec /\ WF_vars(OperatorEndsLine)
=============================================================================
