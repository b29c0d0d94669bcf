------------------------- MODULE AuthServiceProofs -------------------------
(***************************************************************************)
(* Theorems about AuthService, for every value of its constants.           *)
(***************************************************************************)
EXTENDS AuthService, UserStoreProofs

-----------------------------------------------------------------------------
(* The inductive invariant of the stop protocol.                           *)

\* Who owns the mutex is where the threads are; workers exist only after
\* main has blocked the signals and taken the mutex.
StopperOwned ==
  /\ (stopper = "main") <=> MainHolds
  /\ (stopper = "cli") <=> (cliAt = "quit")
  /\ (stopper = "net") <=> (netAt = "quit")
  /\ cliAt = "quit" => InPolling
  /\ netAt = "quit" => netPc = "loop"

SpawnOrder ==
  /\ mainPc \in {"initDb", "mask", "lock", "spawnCli"} => cliPc = "off"
  /\ mainPc \in {"initDb", "mask", "lock", "spawnCli", "spawnNet"} => netPc = "off"
  /\ mainPc \notin {"initDb", "mask"} => masked

Control == MainTypeOK /\ StopperOwned /\ SpawnOrder /\ SignalsReachMain

\* Where the command goes after a prompt is never out of the command loop.
LEMMA AfterPromptStays ==
  ASSUME NEW prompt \in Prompts, NEW text
  PROVE  AfterPrompt(prompt, text) \in {"loop"} \cup Prompts \cup CliCalls
<1> QED  BY DEF AfterPrompt, CallAfter, Prompts, CliCalls

\* Leaving a prompt leaves the polling loop with the mutex released.
LEMMA LeavePromptControl ==
  ASSUME NEW text, cliPc \in Prompts, LeavePrompt(text)
  PROVE  cliAt' = "test" /\ cliPc' \in {"loop"} \cup Prompts \cup CliCalls
<1>1. AfterPrompt(cliPc, text) \in {"loop"} \cup Prompts \cup CliCalls
  BY AfterPromptStays
<1> QED  BY <1>1 DEF LeavePrompt, Return

\* A command line takes the thread to a prompt, a listing, the loop, or, by
\* "exit", to its end.
LEMMA CommandTableRange ==
  ASSUME NEW command \in DOMAIN CommandTable
  PROVE  /\ CommandTable[command] \in {"done", "loop", "list"} \cup Prompts
         /\ CommandTable[command] = "done" <=> command = "exit"
<1> QED  BY DEF CommandTable, Prompts

LEMMA ControlInit == Init => Control
<1> QED  BY DEF Init, ProcessInit, CliInit, NetInit, Control, MainTypeOK,
            StopperOwned, SpawnOrder, SignalsReachMain, MainHolds

\* A step of main preserves Control.
LEMMA MainControl ==
  ASSUME Control, MainStep
  PROVE  Control'
<1> USE DEF Control, MainTypeOK, StopperOwned, SpawnOrder, SignalsReachMain,
            MainHolds, cliVars, netVars, InPolling, Prompts
<1>1. CASE MainOpensDb        BY <1>1 DEF MainOpensDb, MainStep, Running
<1>2. CASE MainMasksSignals   BY <1>2 DEF MainMasksSignals
<1>3. CASE MainLocksStopper   BY <1>3 DEF MainLocksStopper, TryLock, Busy
<1>4. CASE MainSpawnsCli      BY <1>4 DEF MainSpawnsCli, MainStep, Running, Unlock
<1>5. CASE MainSpawnsNet      BY <1>5 DEF MainSpawnsNet, MainStep, Running, Unlock
<1>6. CASE MainTakesSignal    BY <1>6 DEF MainTakesSignal
<1>7. CASE MainReleasesWorkers BY <1>7 DEF MainReleasesWorkers, Unlock
<1>8. CASE MainJoinsCli       BY <1>8 DEF MainJoinsCli, processVars
<1>9. CASE MainJoinsNet       BY <1>9 DEF MainJoinsNet, processVars
<1>10. CASE MainDestroysDb    BY <1>10 DEF MainDestroysDb
<1>11. CASE MainReturns       BY <1>11 DEF MainReturns
<1> QED  BY <1>1, <1>2, <1>3, <1>4, <1>5, <1>6, <1>7, <1>8, <1>9, <1>10, <1>11
         DEF MainStep

\* A step of the administration thread preserves Control.
LEMMA CliControl ==
  ASSUME Control, CliRuns
  PROVE  Control'
<1> USE DEF Control, MainTypeOK, StopperOwned, SpawnOrder, SignalsReachMain,
            MainHolds, mainVars, netVars, InPolling, Prompts
<1>. DEFINE racing == InNetCall
<1>0. Running /\ CliStep(racing) /\ UNCHANGED <<mainVars, netVars>>
  BY DEF CliRuns, CliStep
<1>1. CASE CliStays           BY <1>1, <1>0 DEF CliStays, processVars, Running
<1>2. CASE CliGetsStopper     BY <1>2, <1>0 DEF CliGetsStopper, TryLock, Busy, Running
<1>3. CASE CliSeesQuit
  <2>1. cliAt' = "test" /\ stopper' = "free" /\ cliPc # "off" /\ proc' = "running"
    BY <1>3, <1>0, LeavePromptControl DEF CliSeesQuit, Unlock, Running
  <2> QED  BY <2>1, <1>3, <1>0 DEF CliSeesQuit
<1>4. CASE CliSleeps          BY <1>4, <1>0 DEF CliSleeps, processVars, Running
<1>5. CASE CliBlocksInFgets   BY <1>5, <1>0 DEF CliBlocksInFgets, processVars, Running
<1>6. CASE CliReadsCommand    BY <1>6, <1>0 DEF CliReadsCommand, LineRead, Raise, Running
<1>7. CASE CliReadsAnswer
  <2>1. cliAt' = "test" /\ cliAt # "quit"
    BY <1>7, LeavePromptControl DEF CliReadsAnswer, LineRead
  <2> QED  BY <2>1, <1>7, <1>0 DEF CliReadsAnswer, processVars, Running
<1>8. CASE CliReadsEof
  <2>1. cliAt # "quit" /\ InPolling
    BY <1>8 DEF CliReadsEof
  <2>2. CASE cliPc = "loop"
    BY <2>1, <2>2, <1>8, <1>0 DEF CliReadsEof, Return, processVars, Running
  <2>3. CASE cliPc # "loop"
    <3>1. cliPc \in Prompts /\ LeavePrompt(Cut(userInput))
      BY <2>1, <2>3, <1>8 DEF CliReadsEof
    <3>2. cliAt' = "test"
      BY <3>1, LeavePromptControl
    <3> QED  BY <3>2, <2>1, <1>8, <1>0 DEF CliReadsEof, processVars, Running
  <2> QED  BY <2>2, <2>3
<1>9. CASE InsertUser(racing)
  BY <1>9, <1>0 DEF InsertUser, Return, processVars, Running
<1>10. CASE InsertService(racing)
  BY <1>10, <1>0 DEF InsertService, Return, processVars, Running
<1>11. CASE RemoveUser(racing)
  BY <1>11, <1>0 DEF RemoveUser, ReturnOrExit, Return, Running
<1>12. CASE RemoveService(racing)
  BY <1>12, <1>0 DEF RemoveService, ReturnOrExit, Return, Running
<1>13. CASE FindUser(racing)
  BY <1>13, <1>0 DEF FindUser, Return, processVars, Running
<1>14. CASE AddToServices(racing)
  BY <1>14, <1>0 DEF AddToServices, Return, processVars, Running
<1>15. CASE PullFromServices(racing)
  BY <1>15, <1>0 DEF PullFromServices, Return, processVars, Running
<1>16. CASE List
  BY <1>16, <1>0 DEF List, Return, processVars, Running
<1>17. CASE CliCrashes(racing)
  BY <1>17, <1>0 DEF CliCrashes, cliVars, CliCalls
<1> QED
  BY <1>0, <1>1, <1>2, <1>3, <1>4, <1>5, <1>6, <1>7, <1>8, <1>9, <1>10, <1>11,
     <1>12, <1>13, <1>14, <1>15, <1>16, <1>17
  DEF CliStep

\* A step of the network thread preserves Control.
LEMMA NetControl ==
  ASSUME Control, NetRunsOn
  PROVE  Control'
<1> USE DEF Control, MainTypeOK, StopperOwned, SpawnOrder, SignalsReachMain,
            MainHolds, mainVars, cliVars, InPolling, Prompts
<1>. DEFINE racing == InCliCall
<1>0. Running /\ NetStep(racing) /\ UNCHANGED <<mainVars, cliVars>>
  BY DEF NetRunsOn, NetStep
<1>1. CASE NetSetsUp       BY <1>1, <1>0 DEF NetSetsUp, Raise, Running
<1>2. CASE NetCreatesEpoll BY <1>2, <1>0 DEF NetCreatesEpoll, Running
<1>3. CASE NetStays        BY <1>3, <1>0 DEF NetStays, processVars, Running
<1>4. CASE NetGetsStopper  BY <1>4, <1>0 DEF NetGetsStopper, TryLock, Busy, Running
<1>5. CASE NetSeesQuit     BY <1>5, <1>0 DEF NetSeesQuit, Unlock, Running
<1>6. CASE NetWaits        BY <1>6, <1>0 DEF NetWaits, processVars, Running
<1>7. CASE NetAccepts      BY <1>7, <1>0 DEF NetAccepts, processVars, Running
<1>8. CASE NetHandshakes   BY <1>8, <1>0 DEF NetHandshakes, processVars, Running
<1>9. CASE NetReads        BY <1>9, <1>0 DEF NetReads, processVars, Running
<1>10. CASE NetRuns        BY <1>10, <1>0 DEF NetRuns, Running
<1>11. CASE NetFinds(racing) BY <1>11, <1>0 DEF NetFinds, Running
<1>12. CASE NetWrites      BY <1>12, <1>0 DEF NetWrites, Raise, Running
<1>13. CASE NetCloses      BY <1>13, <1>0 DEF NetCloses, processVars, Running
<1>14. CASE NetCleansUp    BY <1>14, <1>0 DEF NetCleansUp, processVars, Running
<1> QED
  BY <1>0, <1>1, <1>2, <1>3, <1>4, <1>5, <1>6, <1>7, <1>8, <1>9, <1>10, <1>11,
     <1>12, <1>13, <1>14
  DEF NetStep

\* Neither the operator nor the peers touch what Control is about, but for
\* the signal, which is fatal only before main has blocked it.
LEMMA OutsideControl ==
  ASSUME Control, Operator \/ Peer
  PROVE  Control'
<1> USE DEF Control, MainTypeOK, StopperOwned, SpawnOrder, SignalsReachMain,
            MainHolds, mainVars, netVars, cliVars, InPolling, Prompts, processVars
<1>1. CASE OperatorInterrupts BY <1>1 DEF OperatorInterrupts, Raise, Running
<1>2. CASE /\ OperatorTypesLine \/ OperatorTypesPart \/ OperatorEndsInput
           /\ UNCHANGED <<mainVars, netVars>>
  BY <1>2 DEF OperatorTypesLine, OperatorTypesPart, OperatorEndsInput
<1>3. CASE Peer
  BY <1>3 DEF Peer, PeerConnects, PeerSaysHello, PeerSendsRequest, PeerLeaves
<1> QED  BY <1>1, <1>2, <1>3 DEF Operator

LEMMA ControlStep == Control /\ [Next]_vars => Control'
<1> SUFFICES ASSUME Control, [Next]_vars PROVE Control'
  OBVIOUS
<1>1. CASE MainStep   BY <1>1, MainControl
<1>2. CASE CliRuns    BY <1>2, CliControl
<1>3. CASE NetRunsOn  BY <1>3, NetControl
<1>4. CASE Operator   BY <1>4, OutsideControl
<1>5. CASE Peer       BY <1>5, OutsideControl
<1>6. CASE UNCHANGED vars
  BY <1>6 DEF vars, processVars, mainVars, cliVars, netVars, Control, MainTypeOK,
     StopperOwned, SpawnOrder, SignalsReachMain, MainHolds, InPolling
<1> QED  BY <1>1, <1>2, <1>3, <1>4, <1>5, <1>6 DEF Next, Ended

\* The mutex, the signal mask and the spawn order agree with where main is.
THEOREM ControlInvariant == Spec => []Control
<1> QED  BY ControlInit, ControlStep, PTL DEF Spec

\* No signal takes its default action once a worker exists: whatever a worker
\* sends with kill(mainPid, SIGUSR1) waits for main's sigwait.
THEOREM SignalsAlwaysReachMain == Spec => []SignalsReachMain
<1>1. Control => SignalsReachMain
  BY DEF Control
<1> QED  BY <1>1, ControlInvariant, PTL

-----------------------------------------------------------------------------
(* Workers end only when told to, or telling main.                         *)

\* A worker inside NeedQuit with the mutex in hand found it released.
LEMMA QuitMeansStop ==
  ASSUME Control, cliAt = "quit" \/ netAt = "quit"
  PROVE  StopBegun /\ ~MainHolds
<1>1. ~MainHolds
  BY DEF Control, StopperOwned
<1>2. mainPc \notin {"initDb", "mask", "lock"}
  BY DEF Control, StopperOwned, SpawnOrder, InPolling, Prompts
<1> QED  BY <1>1, <1>2 DEF Control, MainTypeOK, StopBegun, MainHolds

\* How the administration thread ends: it saw the mutex free, or "exit" has
\* left a signal pending.
LEMMA CliEnds ==
  ASSUME Control, CliRuns, cliPc # "done", cliPc' = "done"
  PROVE  cliAt = "quit" \/ pending' # {}
<1>. DEFINE racing == InNetCall
<1>1. CliStep(racing)
  BY DEF CliRuns
<1>2. CASE CliStays \/ CliGetsStopper \/ CliSleeps \/ CliBlocksInFgets
  BY <1>2 DEF CliStays, CliGetsStopper, CliSleeps, CliBlocksInFgets
<1>3. CASE CliSeesQuit
  BY <1>3 DEF CliSeesQuit
<1>4. CASE CliReadsCommand
  <2>1. masked
    BY <1>4 DEF CliReadsCommand, Control, SpawnOrder
  <2>2. PICK command \in Commands :
          /\ cliPc' = CommandTable[command]
          /\ IF command = "exit" THEN Raise("USR1") ELSE UNCHANGED <<proc, pending>>
    BY <1>4 DEF CliReadsCommand
  <2>3. command = "exit"
    BY <2>2, CommandTableRange, CliAssumption
  <2> QED  BY <2>1, <2>2, <2>3 DEF Raise
<1>5. CASE CliReadsAnswer
  <2>1. PICK text \in Typed(cliPc) : cliPc \in Prompts /\ LeavePrompt(text)
    BY <1>5 DEF CliReadsAnswer
  <2> QED  BY <2>1, LeavePromptControl DEF Prompts, CliCalls
<1>6. CASE CliReadsEof
  <2>1. CASE cliPc = "loop"
    BY <1>6, <2>1 DEF CliReadsEof, Return
  <2>2. CASE cliPc # "loop"
    <3>1. cliPc \in Prompts /\ LeavePrompt(Cut(userInput))
      BY <1>6, <2>2 DEF CliReadsEof, InPolling
    <3> QED  BY <3>1, LeavePromptControl DEF Prompts, CliCalls
  <2> QED  BY <2>1, <2>2
<1>7. CASE InsertUser(racing) \/ InsertService(racing) \/ List
  BY <1>7 DEF InsertUser, InsertService, List, Return
<1>8. CASE RemoveUser(racing) \/ RemoveService(racing)
  BY <1>8 DEF RemoveUser, RemoveService, ReturnOrExit, Return
<1>9. CASE FindUser(racing) \/ AddToServices(racing) \/ PullFromServices(racing)
  BY <1>9 DEF FindUser, AddToServices, PullFromServices, Return
<1>10. CASE CliCrashes(racing)
  BY <1>10 DEF CliCrashes, cliVars
<1> QED
  BY <1>1, <1>2, <1>3, <1>4, <1>5, <1>6, <1>7, <1>8, <1>9, <1>10 DEF CliStep

\* The end of the network thread begins where it sees the mutex free, after
\* a signal to main, or in a failed epoll_wait.
NetLeaving == netPc \in NetEnded \cup {"cleanup"}

LEMMA NetEnds ==
  ASSUME Control, NetRunsOn, ~NetLeaving, NetLeaving'
  PROVE  netAt = "quit" \/ pending' # {} \/ "epollWait" \in Faults
<1> USE DEF NetLeaving, NetEnded
<1>. DEFINE racing == InCliCall
<1>1. NetStep(racing)
  BY DEF NetRunsOn
<1>2. CASE NetSetsUp
  <2>1. masked
    BY <1>2 DEF NetSetsUp, Control, SpawnOrder
  <2> QED  BY <1>2, <2>1 DEF NetSetsUp, Raise
<1>3. CASE NetCreatesEpoll \/ NetStays \/ NetGetsStopper \/ NetSeesQuit
  BY <1>3 DEF NetCreatesEpoll, NetStays, NetGetsStopper, NetSeesQuit
<1>4. CASE NetWaits
  BY <1>4 DEF NetWaits
<1>5. CASE NetAccepts \/ NetHandshakes \/ NetReads \/ NetRuns
  BY <1>5 DEF NetAccepts, NetHandshakes, NetReads, NetRuns
<1>6. CASE NetFinds(racing) \/ NetWrites \/ NetCloses \/ NetCleansUp
  BY <1>6 DEF NetFinds, NetWrites, NetCloses, NetCleansUp
<1> QED  BY <1>1, <1>2, <1>3, <1>4, <1>5, <1>6 DEF NetStep

\* What the administration thread leaves alone, and that it moves only
\* between its start and its end.
LEMMA CliFrame ==
  ASSUME CliRuns
  PROVE  /\ mainPc' = mainPc /\ netPc' = netPc /\ handles' = handles
         /\ pending \subseteq pending'
         /\ cliPc \notin {"off", "done"}
<1> USE DEF processVars, InPolling, Prompts
<1>. DEFINE racing == InNetCall
<1>1. CliStep(racing) /\ mainPc' = mainPc /\ netPc' = netPc
  BY DEF CliRuns, mainVars, netVars
<1>2. CASE CliStays \/ CliGetsStopper \/ CliSeesQuit \/ CliSleeps \/ CliBlocksInFgets
  BY <1>1, <1>2 DEF CliStays, CliGetsStopper, CliSeesQuit, CliSleeps, CliBlocksInFgets
<1>3. CASE CliReadsCommand
  <2>1. pending \subseteq pending'
    BY <1>3 DEF CliReadsCommand, Raise
  <2> QED  BY <1>1, <1>3, <2>1 DEF CliReadsCommand
<1>4. CASE CliReadsAnswer \/ CliReadsEof
  BY <1>1, <1>4 DEF CliReadsAnswer, CliReadsEof
<1>5. CASE InsertUser(racing) \/ InsertService(racing) \/ List
  BY <1>1, <1>5 DEF InsertUser, InsertService, List
<1>6. CASE RemoveUser(racing) \/ RemoveService(racing)
  BY <1>1, <1>6 DEF RemoveUser, RemoveService
<1>7. CASE FindUser(racing) \/ AddToServices(racing) \/ PullFromServices(racing)
  BY <1>1, <1>7 DEF FindUser, AddToServices, PullFromServices
<1>8. CASE CliCrashes(racing)
  BY <1>1, <1>8 DEF CliCrashes, CliCalls
<1> QED  BY <1>1, <1>2, <1>3, <1>4, <1>5, <1>6, <1>7, <1>8 DEF CliStep

\* The same of the network thread.
LEMMA NetFrame ==
  ASSUME NetRunsOn
  PROVE  /\ mainPc' = mainPc /\ cliPc' = cliPc /\ handles' = handles
         /\ pending \subseteq pending'
         /\ netPc \notin {"off"} \cup NetEnded
<1> USE DEF processVars, NetEnded
<1>. DEFINE racing == InCliCall
<1>1. NetStep(racing) /\ mainPc' = mainPc /\ cliPc' = cliPc
  BY DEF NetRunsOn, mainVars, cliVars
<1>2. CASE NetSetsUp
  <2>1. pending \subseteq pending'
    BY <1>2 DEF NetSetsUp, Raise
  <2> QED  BY <1>1, <1>2, <2>1 DEF NetSetsUp
<1>3. CASE NetCreatesEpoll \/ NetStays \/ NetGetsStopper \/ NetSeesQuit \/ NetWaits
  BY <1>1, <1>3 DEF NetCreatesEpoll, NetStays, NetGetsStopper, NetSeesQuit, NetWaits
<1>4. CASE NetAccepts \/ NetHandshakes \/ NetReads \/ NetRuns \/ NetFinds(racing)
  BY <1>1, <1>4 DEF NetAccepts, NetHandshakes, NetReads, NetRuns, NetFinds
<1>5. CASE NetWrites
  <2>1. pending \subseteq pending'
    BY <1>5 DEF NetWrites, Raise
  <2> QED  BY <1>1, <1>5, <2>1 DEF NetWrites
<1>6. CASE NetCloses \/ NetCleansUp
  BY <1>1, <1>6 DEF NetCloses, NetCleansUp
<1> QED  BY <1>1, <1>2, <1>3, <1>4, <1>5, <1>6 DEF NetStep

\* The operator and the peers move no thread.
LEMMA OutsideFrame ==
  ASSUME Operator \/ Peer
  PROVE  /\ mainPc' = mainPc /\ cliPc' = cliPc /\ netPc' = netPc
         /\ handles' = handles /\ pending \subseteq pending'
<1> USE DEF processVars, mainVars, cliVars, netVars
<1>1. CASE OperatorInterrupts
  <2>1. pending \subseteq pending'
    BY <1>1 DEF OperatorInterrupts, Raise
  <2> QED  BY <1>1, <2>1 DEF OperatorInterrupts
<1>2. CASE /\ OperatorTypesLine \/ OperatorTypesPart \/ OperatorEndsInput
           /\ UNCHANGED <<mainVars, netVars>>
  BY <1>2 DEF OperatorTypesLine, OperatorTypesPart, OperatorEndsInput
<1>3. CASE Peer
  BY <1>3 DEF Peer, PeerConnects, PeerSaysHello, PeerSendsRequest, PeerLeaves
<1> QED  BY <1>1, <1>2, <1>3 DEF Operator

\* A stop that has been asked for is never forgotten: the signal stays
\* pending until main has taken it, and main does not go back.
LEMMA StopBegunStays ==
  ASSUME Control, [Next]_vars, StopBegun
  PROVE  StopBegun'
<1> USE DEF StopBegun
<1>1. CASE MainStep
  BY <1>1 DEF MainStep, MainOpensDb, MainMasksSignals, MainLocksStopper,
     MainSpawnsCli, MainSpawnsNet, MainTakesSignal, MainReleasesWorkers,
     MainJoinsCli, MainJoinsNet, MainDestroysDb, MainReturns, processVars
<1>2. CASE CliRuns           BY <1>2, CliFrame
<1>3. CASE NetRunsOn         BY <1>3, NetFrame
<1>4. CASE Operator \/ Peer  BY <1>4, OutsideFrame
<1>5. CASE UNCHANGED vars    BY <1>5 DEF vars, processVars, mainVars
<1> QED  BY <1>1, <1>2, <1>3, <1>4, <1>5 DEF Next, Ended

\* The invariant: a worker that is gone, or on its way out, goes with a stop.
GoneWithStop == cliPc = "done" \/ NetLeaving => StopBegun

LEMMA GoneWithStopInit == Init => GoneWithStop
<1> QED  BY DEF Init, CliInit, NetInit, GoneWithStop, NetLeaving, NetEnded

LEMMA GoneWithStopStep ==
  ASSUME "epollWait" \notin Faults, Control, GoneWithStop, [Next]_vars
  PROVE  GoneWithStop'
<1>1. CASE StopBegun
  BY <1>1, StopBegunStays DEF GoneWithStop
<1>2. CASE ~StopBegun
  <2> USE DEF GoneWithStop
  <2>1. cliPc # "done" /\ ~NetLeaving /\ cliAt # "quit" /\ netAt # "quit"
    BY <1>2, QuitMeansStop
  <2>2. CASE MainStep
    BY <2>1, <2>2 DEF MainStep, MainOpensDb, MainMasksSignals, MainLocksStopper,
       MainSpawnsCli, MainSpawnsNet, MainTakesSignal, MainReleasesWorkers,
       MainJoinsCli, MainJoinsNet, MainDestroysDb, MainReturns, processVars,
       cliVars, netVars, NetLeaving, NetEnded
  <2>3. CASE CliRuns
    BY <2>1, <2>3, CliEnds, CliFrame DEF StopBegun, NetLeaving, NetEnded
  <2>4. CASE NetRunsOn
    BY <2>1, <2>4, NetEnds, NetFrame DEF StopBegun
  <2>5. CASE Operator \/ Peer
    BY <2>1, <2>5, OutsideFrame DEF NetLeaving, NetEnded
  <2>6. CASE UNCHANGED vars
    BY <2>1, <2>6 DEF vars, cliVars, netVars, NetLeaving, NetEnded
  <2> QED  BY <2>2, <2>3, <2>4, <2>5, <2>6 DEF Next, Ended
<1> QED  BY <1>1, <1>2

\* As long as epoll_wait does not fail, no worker ends behind main's back:
\* one that finds the mutex free was released, one that is gone has been
\* told to go or has told main.
THEOREM WorkersQuitTogether ==
  ASSUME "epollWait" \notin Faults
  PROVE  Spec => []NoWorkerQuitsAlone
<1>1. GoneWithStop /\ Control /\ [Next]_vars => GoneWithStop'
  BY GoneWithStopStep
<1>2. Control /\ GoneWithStop => NoWorkerQuitsAlone
  BY QuitMeansStop DEF NoWorkerQuitsAlone, GoneWithStop, NetLeaving
<1> QED  BY <1>1, <1>2, GoneWithStopInit, ControlInvariant, PTL DEF Spec

-----------------------------------------------------------------------------
(* The handles outlive the workers.                                        *)

\* main gets past a join only behind the worker, and the handles are
\* destroyed only past both joins or before the workers exist.
Joined ==
  /\ mainPc = "joinNet" => cliPc = "done"
  /\ mainPc \in {"destroyDb", "return"} => /\ cliPc \in {"off", "done"}
                                           /\ netPc \in {"off"} \cup NetEnded
  /\ handles = "destroyed" => mainPc = "return"

LEMMA JoinedInit == Init => Joined
<1> QED  BY DEF Init, ProcessInit, Joined

LEMMA JoinedStep ==
  ASSUME "spawnNet" \notin Faults, Control, Joined, [Next]_vars
  PROVE  Joined'
<1> USE DEF Joined
<1>1. CASE MainStep
  <2> USE DEF processVars, cliVars, netVars, NetEnded
  <2>1. CASE MainOpensDb     BY <1>1, <2>1 DEF MainOpensDb
  <2>2. CASE MainMasksSignals BY <2>2 DEF MainMasksSignals
  <2>3. CASE MainLocksStopper
    BY <2>3 DEF MainLocksStopper, Control, SpawnOrder
  <2>4. CASE MainSpawnsCli
    BY <2>4 DEF MainSpawnsCli, Control, SpawnOrder
  <2>5. CASE MainSpawnsNet   BY <2>5 DEF MainSpawnsNet
  <2>6. CASE MainTakesSignal BY <2>6 DEF MainTakesSignal
  <2>7. CASE MainReleasesWorkers BY <2>7 DEF MainReleasesWorkers
  <2>8. CASE MainJoinsCli    BY <2>8 DEF MainJoinsCli
  <2>9. CASE MainJoinsNet    BY <2>9 DEF MainJoinsNet
  <2>10. CASE MainDestroysDb BY <2>10 DEF MainDestroysDb
  <2>11. CASE MainReturns    BY <2>11 DEF MainReturns
  <2> QED  BY <1>1, <2>1, <2>2, <2>3, <2>4, <2>5, <2>6, <2>7, <2>8, <2>9, <2>10,
              <2>11 DEF MainStep
<1>2. CASE CliRuns           BY <1>2, CliFrame
<1>3. CASE NetRunsOn         BY <1>3, NetFrame
<1>4. CASE Operator \/ Peer  BY <1>4, OutsideFrame DEF NetEnded
<1>5. CASE UNCHANGED vars
  BY <1>5 DEF vars, processVars, mainVars, cliVars, netVars, NetEnded
<1> QED  BY <1>1, <1>2, <1>3, <1>4, <1>5 DEF Next, Ended

\* If pthread_create of the network thread cannot fail, DestroyDb never runs
\* while a worker may still use the handles.  The assumption is needed: the
\* run spawn_fails shows the early return of InitWorkThreads without it.
THEOREM HandlesAreSafe ==
  ASSUME "spawnNet" \notin Faults
  PROVE  Spec => []HandlesOutliveWorkers
<1>1. Joined /\ Control /\ [Next]_vars => Joined'
  BY JoinedStep
<1>2. Joined => HandlesOutliveWorkers
  BY DEF Joined, HandlesOutliveWorkers
<1> QED  BY <1>1, <1>2, JoinedInit, ControlInvariant, PTL DEF Spec

-----------------------------------------------------------------------------
(* Type correctness.                                                       *)

\* The documents an earlier run may leave have the type of documents.
LEMMA InitialUsersType ==
  ASSUME NEW coll \in InitialUsers
  PROVE  coll \in Seq(UserDocs(Oids, Texts, Texts))
<1>1. Names \subseteq Texts /\ ServiceNames \subseteq Texts
  BY DEF Texts
<1>2. Seq(ServiceNames) \subseteq Seq(Texts)
  BY <1>1, SeqMonotonic
<1>3. UserDocs(Oids, Names, ServiceNames) \subseteq UserDocs(Oids, Texts, Texts)
  BY <1>1, <1>2 DEF UserDocs
<1>4. Seq(UserDocs(Oids, Names, ServiceNames)) \subseteq Seq(UserDocs(Oids, Texts, Texts))
  BY <1>3, SeqMonotonic
<1> QED  BY <1>4, CliAssumption

LEMMA TypeInit == Init => TypeOK
<1> SUFFICES ASSUME Init PROVE TypeOK
  OBVIOUS
<1>1. ProcessTypeOK
  BY DEF Init, ProcessInit, ProcessTypeOK, Signals, Owners
<1>2. usercol \in Seq(UserDocs(Oids, Texts, Texts))
  BY InitialUsersType DEF Init, CliInit
<1>3. usedOids \subseteq Oids
  <2>1. \A i \in DOMAIN usercol : usercol[i] \in UserDocs(Oids, Texts, Texts)
    BY <1>2, ElementOfSeq, LenProperties
  <2> QED  BY <2>1 DEF Init, CliInit, UserDocs
<1>4. CliTypeOK
  <2>1. servcol \in Seq(ServiceDocs(Oids, Texts))
    <3>1. servcol = <<>>
      BY DEF Init, CliInit
    <3> QED  BY <3>1, EmptySeq
  <2>2. "" \in Texts
    BY DEF Texts
  <2> QED  BY <1>2, <1>3, <2>1, <2>2 DEF Init, CliInit, CliTypeOK
<1>5. NetTypeOK
  BY NetAssumption DEF Init, NetInit, NetTypeOK
<1> QED  BY <1>1, <1>4, <1>5 DEF TypeOK, Init, MainTypeOK

LEMMA MainType ==
  ASSUME TypeOK, MainStep
  PROVE  TypeOK'
<1> USE DEF TypeOK, ProcessTypeOK, CliTypeOK, NetTypeOK, MainTypeOK, Owners,
            cliVars, dbVars, netVars
<1>1. CASE MainOpensDb        BY <1>1 DEF MainOpensDb
<1>2. CASE MainMasksSignals   BY <1>2 DEF MainMasksSignals
<1>3. CASE MainLocksStopper   BY <1>3 DEF MainLocksStopper, TryLock
<1>4. CASE MainSpawnsCli      BY <1>4 DEF MainSpawnsCli, Unlock
<1>5. CASE MainSpawnsNet      BY <1>5 DEF MainSpawnsNet, Unlock
<1>6. CASE MainTakesSignal    BY <1>6 DEF MainTakesSignal
<1>7. CASE MainReleasesWorkers BY <1>7 DEF MainReleasesWorkers, Unlock
<1>8. CASE MainJoinsCli       BY <1>8 DEF MainJoinsCli, processVars
<1>9. CASE MainJoinsNet       BY <1>9 DEF MainJoinsNet, processVars
<1>10. CASE MainDestroysDb    BY <1>10 DEF MainDestroysDb
<1>11. CASE MainReturns       BY <1>11 DEF MainReturns
<1> QED  BY <1>1, <1>2, <1>3, <1>4, <1>5, <1>6, <1>7, <1>8, <1>9, <1>10, <1>11
         DEF MainStep

\* Leaving a prompt with a text keeps the thread's own variables typed.
LEMMA LeavePromptType ==
  ASSUME CliTypeOK, NEW text \in Texts, cliPc \in Prompts, LeavePrompt(text)
  PROVE  /\ cliPc' \in {"loop"} \cup Prompts \cup CliCalls
         /\ cliAt' = "test" /\ userInput' \in Texts /\ userOid' \in Texts
<1>1. cliPc' \in {"loop"} \cup Prompts \cup CliCalls /\ cliAt' = "test"
  BY LeavePromptControl
<1>2. userInput' \in Texts /\ userOid' \in Texts
  BY DEF LeavePrompt, Return, CliTypeOK, Texts
<1> QED  BY <1>1, <1>2

LEMMA ReturnType ==
  ASSUME Return
  PROVE  cliPc' = "loop" /\ cliAt' = "test" /\ userInput' \in Texts /\ userOid' \in Texts
<1> QED  BY DEF Return, Texts

LEMMA CliType ==
  ASSUME TypeOK, CliRuns
  PROVE  TypeOK'
<1>. DEFINE racing == InNetCall
<1>0. CliStep(racing) /\ ProcessTypeOK /\ CliTypeOK
  BY DEF CliRuns, TypeOK
<1>1. NetTypeOK' /\ MainTypeOK'
  BY DEF CliRuns, mainVars, netVars, TypeOK, NetTypeOK, MainTypeOK
<1>. SUFFICES ProcessTypeOK' /\ CliTypeOK'
  BY <1>1 DEF TypeOK
<1> USE DEF CliTypeOK, dbVars
<1>2. CASE CliStays \/ CliSleeps \/ CliBlocksInFgets
  BY <1>0, <1>2 DEF CliStays, CliSleeps, CliBlocksInFgets, ProcessTypeOK, processVars
<1>3. CASE CliGetsStopper
  BY <1>0, <1>3 DEF CliGetsStopper, TryLock, ProcessTypeOK, Owners
<1>4. CASE CliSeesQuit
  <2>1. ProcessTypeOK'
    BY <1>0, <1>4 DEF CliSeesQuit, Unlock, ProcessTypeOK, Owners
  <2>2. CASE cliPc = "loop"
    BY <1>0, <1>4, <2>1, <2>2 DEF CliSeesQuit
  <2>3. CASE cliPc # "loop"
    <3>1. cliPc \in Prompts /\ LeavePrompt(userInput)
      BY <1>4, <2>3 DEF CliSeesQuit, InPolling
    <3> QED  BY <1>0, <1>4, <2>1, <3>1, LeavePromptType DEF CliSeesQuit
  <2> QED  BY <2>2, <2>3
<1>5. CASE CliReadsCommand
  <2>1. PICK command \in Commands :
          /\ cliPc' = CommandTable[command]
          /\ IF command = "exit" THEN Raise("USR1") ELSE UNCHANGED <<proc, pending>>
    BY <1>5 DEF CliReadsCommand
  <2>2. cliPc' \in {"done", "loop", "list"} \cup Prompts
    BY <2>1, CommandTableRange, CliAssumption
  <2>3. ProcessTypeOK'
    BY <1>0, <1>5, <2>1 DEF CliReadsCommand, Raise, ProcessTypeOK, Signals
  <2> QED  BY <1>0, <1>5, <2>2, <2>3 DEF CliReadsCommand, LineRead, CliCalls
<1>6. CASE CliReadsAnswer
  <2>1. PICK text \in Typed(cliPc) : cliPc \in Prompts /\ LeavePrompt(text)
    BY <1>6 DEF CliReadsAnswer
  <2>2. text \in Texts
    BY <2>1 DEF Typed, Texts
  <2>3. ProcessTypeOK' /\ UNCHANGED <<usercol, servcol, usedOids>> /\ stdin' = "idle"
    BY <1>0, <1>6 DEF CliReadsAnswer, LineRead, ProcessTypeOK, processVars
  <2> QED  BY <1>0, <2>1, <2>2, <2>3, LeavePromptType
<1>7. CASE CliReadsEof
  <2>1. ProcessTypeOK' /\ UNCHANGED <<usercol, servcol, usedOids, stdin>>
    BY <1>0, <1>7 DEF CliReadsEof, ProcessTypeOK, processVars
  <2>2. CASE cliPc = "loop"
    BY <1>0, <1>7, <2>1, <2>2, ReturnType DEF CliReadsEof
  <2>3. CASE cliPc # "loop"
    <3>1. cliPc \in Prompts /\ LeavePrompt(Cut(userInput))
      BY <1>7, <2>3 DEF CliReadsEof, InPolling
    <3>2. Cut(userInput) \in Texts
      BY DEF Cut, Texts
    <3> QED  BY <1>0, <2>1, <3>1, <3>2, LeavePromptType
  <2> QED  BY <2>2, <2>3
<1>8. CASE InsertUser(racing)
  <2>1. PICK oid \in Oids \ usedOids :
          /\ usedOids' = usedOids \cup {oid}
          /\ Writes(usercol, Append(usercol, NewUser(oid, userInput)), racing)
    BY <1>0, <1>8 DEF InsertUser
  <2>2. usercol' \in Seq(UserDocs(Oids, Texts, Texts))
    BY <1>0, <2>1, AppendUserType DEF Writes
  <2>3. ProcessTypeOK'
    BY <1>0, <1>8 DEF InsertUser, ProcessTypeOK, processVars
  <2> QED  BY <1>0, <1>8, <2>1, <2>2, <2>3, ReturnType DEF InsertUser
<1>9. CASE InsertService(racing)
  <2>1. PICK oid \in Oids \ usedOids :
          /\ usedOids' = usedOids \cup {oid}
          /\ Writes(servcol, Append(servcol, NewService(oid, userInput)), racing)
    BY <1>0, <1>9 DEF InsertService
  <2>2. NewService(oid, userInput) \in ServiceDocs(Oids, Texts)
    BY <1>0 DEF NewService, ServiceDocs
  <2>3. servcol' \in Seq(ServiceDocs(Oids, Texts))
    BY <1>0, <2>1, <2>2, AppendProperties DEF Writes
  <2>4. ProcessTypeOK'
    BY <1>0, <1>9 DEF InsertService, ProcessTypeOK, processVars
  <2> QED  BY <1>0, <1>9, <2>1, <2>3, <2>4, ReturnType DEF InsertService
<1>10. CASE RemoveUser(racing)
  <2>1. usercol' \in Seq(UserDocs(Oids, Texts, Texts))
    BY <1>0, <1>10, DeleteOneType DEF RemoveUser, Writes
  <2>2. ProcessTypeOK'
    BY <1>0, <1>10 DEF RemoveUser, ReturnOrExit, ProcessTypeOK
  <2> QED  BY <1>0, <1>10, <2>1, <2>2, ReturnType DEF RemoveUser, ReturnOrExit
<1>11. CASE RemoveService(racing)
  <2>1. servcol' \in Seq(ServiceDocs(Oids, Texts))
    BY <1>0, <1>11, DeleteOneType DEF RemoveService, Writes
  <2>2. ProcessTypeOK'
    BY <1>0, <1>11 DEF RemoveService, ReturnOrExit, ProcessTypeOK
  <2> QED  BY <1>0, <1>11, <2>1, <2>2, ReturnType DEF RemoveService, ReturnOrExit
<1>12. CASE FindUser(racing)
  <2>1. ProcessTypeOK'
    BY <1>0, <1>12 DEF FindUser, ProcessTypeOK, processVars
  <2> QED  BY <1>0, <1>12, <2>1, ReturnType DEF FindUser, Prompts
<1>13. CASE AddToServices(racing)
  <2>1. usercol' \in Seq(UserDocs(Oids, Texts, Texts))
    BY <1>0, <1>13, AddToSetOneType DEF AddToServices, Writes
  <2>2. ProcessTypeOK'
    BY <1>0, <1>13 DEF AddToServices, ProcessTypeOK, processVars
  <2> QED  BY <1>0, <1>13, <2>1, <2>2, ReturnType DEF AddToServices
<1>14. CASE PullFromServices(racing)
  <2>1. usercol' \in Seq(UserDocs(Oids, Texts, Texts))
    BY <1>0, <1>14, PullOneType DEF PullFromServices, Writes
  <2>2. ProcessTypeOK'
    BY <1>0, <1>14 DEF PullFromServices, ProcessTypeOK, processVars
  <2> QED  BY <1>0, <1>14, <2>1, <2>2, ReturnType DEF PullFromServices
<1>15. CASE List
  <2>1. ProcessTypeOK'
    BY <1>0, <1>15 DEF List, ProcessTypeOK, processVars
  <2> QED  BY <1>0, <1>15, <2>1, ReturnType DEF List
<1>16. CASE CliCrashes(racing)
  BY <1>0, <1>16 DEF CliCrashes, cliVars, ProcessTypeOK
<1> QED
  BY <1>0, <1>2, <1>3, <1>4, <1>5, <1>6, <1>7, <1>8, <1>9, <1>10, <1>11, <1>12,
     <1>13, <1>14, <1>15, <1>16
  DEF CliStep

LEMMA NetType ==
  ASSUME TypeOK, NetRunsOn
  PROVE  TypeOK'
<1>. DEFINE racing == InCliCall
<1>0. NetStep(racing) /\ ProcessTypeOK /\ NetTypeOK /\ CliTypeOK' /\ MainTypeOK'
  BY DEF NetRunsOn, TypeOK, mainVars, cliVars, dbVars, CliTypeOK, MainTypeOK
<1>. SUFFICES ProcessTypeOK' /\ NetTypeOK'
  BY <1>0 DEF TypeOK
<1> USE <1>0 DEF ProcessTypeOK, NetTypeOK, processVars, NetEnded
<1>1. CASE NetSetsUp       BY <1>1 DEF NetSetsUp, Raise, Signals
<1>2. CASE NetCreatesEpoll BY <1>2 DEF NetCreatesEpoll
<1>3. CASE NetStays        BY <1>3 DEF NetStays
<1>4. CASE NetGetsStopper  BY <1>4 DEF NetGetsStopper, TryLock, Owners
<1>5. CASE NetSeesQuit     BY <1>5 DEF NetSeesQuit, Unlock, Owners
<1>6. CASE NetWaits        BY <1>6 DEF NetWaits
<1>7. CASE NetAccepts
  <2>1. backlog' \in 0 .. MaxBacklog
    BY <1>7, NetAssumption DEF NetAccepts
  <2> QED  BY <1>7, <2>1 DEF NetAccepts
<1>8. CASE NetHandshakes   BY <1>8 DEF NetHandshakes
<1>9. CASE NetReads
  <2>1. request' \in RequestKinds \cup {"none"}
    BY <1>9, NetAssumption DEF NetReads, RequestKinds
  <2> QED  BY <1>9, <2>1 DEF NetReads
<1>10. CASE NetRuns        BY <1>10 DEF NetRuns
<1>11. CASE NetFinds(racing) BY <1>11 DEF NetFinds
<1>12. CASE NetWrites      BY <1>12 DEF NetWrites, Raise, Signals
<1>13. CASE NetCloses      BY <1>13 DEF NetCloses
<1>14. CASE NetCleansUp    BY <1>14, NetAssumption DEF NetCleansUp
<1> QED
  BY <1>1, <1>2, <1>3, <1>4, <1>5, <1>6, <1>7, <1>8, <1>9, <1>10, <1>11,
     <1>12, <1>13, <1>14
  DEF NetStep

LEMMA OutsideType ==
  ASSUME TypeOK, Operator \/ Peer
  PROVE  TypeOK'
<1> USE DEF TypeOK, ProcessTypeOK, CliTypeOK, NetTypeOK, MainTypeOK,
            processVars, mainVars, cliVars, dbVars, netVars
<1>1. CASE OperatorInterrupts
  <2>1. pending' \subseteq Signals /\ proc' \in {proc, "signalled"}
    BY <1>1 DEF OperatorInterrupts, Raise, Signals
  <2> QED  BY <1>1, <2>1 DEF OperatorInterrupts
<1>2. CASE /\ OperatorTypesLine \/ OperatorTypesPart \/ OperatorEndsInput
           /\ UNCHANGED <<mainVars, netVars>>
  BY <1>2 DEF OperatorTypesLine, OperatorTypesPart, OperatorEndsInput
<1>3. CASE Peer
  <2>1. backlog' \in 0 .. MaxBacklog
    BY <1>3, NetAssumption DEF Peer, PeerConnects, PeerSaysHello, PeerSendsRequest,
       PeerLeaves
  <2> QED  BY <1>3, <2>1 DEF Peer, PeerConnects, PeerSaysHello, PeerSendsRequest,
              PeerLeaves
<1> QED  BY <1>1, <1>2, <1>3 DEF Operator

\* Every variable keeps to its type, whatever faults occur.
THEOREM TypeCorrect == Spec => []TypeOK
<1>1. TypeOK /\ [Next]_vars => TypeOK'
  <2> SUFFICES ASSUME TypeOK, [Next]_vars PROVE TypeOK'
    OBVIOUS
  <2>1. CASE MainStep          BY <2>1, MainType
  <2>2. CASE CliRuns           BY <2>2, CliType
  <2>3. CASE NetRunsOn         BY <2>3, NetType
  <2>4. CASE Operator \/ Peer  BY <2>4, OutsideType
  <2>5. CASE UNCHANGED vars
    BY <2>5 DEF vars, TypeOK, ProcessTypeOK, CliTypeOK, NetTypeOK, MainTypeOK,
       processVars, mainVars, cliVars, dbVars, netVars
  <2> QED  BY <2>1, <2>2, <2>3, <2>4, <2>5 DEF Next, Ended
<1> QED  BY <1>1, TypeInit, PTL DEF Spec

-----------------------------------------------------------------------------
(* AuthService implements Lifecycle, unless pthread_create of the network  *)
(* thread or epoll_wait fails.                                             *)

\* The handles are open from behind InitDb up to DestroyDb.
HandlesFollow ==
  /\ mainPc = "initDb" => handles = "none"
  /\ mainPc \notin {"initDb", "return"} => handles = "open"
  /\ mainPc = "return" => handles = "destroyed"

LEMMA HandlesFollowStep ==
  ASSUME HandlesFollow, [Next]_vars
  PROVE  HandlesFollow'
<1> USE DEF HandlesFollow
<1>1. CASE MainStep
  BY <1>1 DEF MainStep, MainOpensDb, MainMasksSignals, MainLocksStopper,
     MainSpawnsCli, MainSpawnsNet, MainTakesSignal, MainReleasesWorkers,
     MainJoinsCli, MainJoinsNet, MainDestroysDb, MainReturns, processVars
<1>2. CASE CliRuns           BY <1>2, CliFrame
<1>3. CASE NetRunsOn         BY <1>3, NetFrame
<1>4. CASE Operator \/ Peer  BY <1>4, OutsideFrame
<1>5. CASE UNCHANGED vars    BY <1>5 DEF vars, processVars, mainVars
<1> QED  BY <1>1, <1>2, <1>3, <1>4, <1>5 DEF Next, Ended

\* What the steps of the workers and of the outside rest on.
Orderly == Control /\ Joined /\ GoneWithStop /\ HandlesFollow

\* A step that leaves main, both workers and the handles where they are asks
\* for a stop, ends the process from outside main, or shows nothing.
LEMMA StaysPut ==
  ASSUME Running, mainPc' = mainPc, handles' = handles,
         WorkersSpawned' = WorkersSpawned, WorkersGone' = WorkersGone,
         proc' # "returned",
         proc' = "running" \/ StopBegun' = StopBegun,
         StopBegun => StopBegun'
  PROVE  Promise!Next \/ UNCHANGED Promise!vars
<1> USE DEF Promise!vars, Promise!Next, Running
<1>1. CASE proc' = "running" /\ StopBegun' = StopBegun
  BY <1>1
<1>2. CASE proc' = "running" /\ StopBegun' # StopBegun
  <2>1. StopBegun' = TRUE
    BY <1>2 DEF StopBegun
  <2> QED  BY <1>2, <2>1 DEF Promise!AskToStop
<1>3. CASE proc' # "running"
  BY <1>3 DEF Promise!Abort
<1> QED  BY <1>1, <1>2, <1>3

\* The calls of main are the steps of Lifecycle, or none.
LEMMA MainImplements ==
  ASSUME "spawnNet" \notin Faults, Orderly, MainStep
  PROVE  Promise!Next \/ UNCHANGED Promise!vars
<1> USE DEF Promise!vars, Promise!Next, WorkersSpawned, WorkersGone, StopBegun
<1>0. /\ Control /\ Joined /\ HandlesFollow /\ proc = "running"
      /\ cliPc # "off" => mainPc \notin {"initDb", "mask", "lock", "spawnCli"}
      /\ netPc # "off" => mainPc \notin {"initDb", "mask", "lock", "spawnCli", "spawnNet"}
  BY DEF Orderly, MainStep, Running, Control, SpawnOrder
<1>1. CASE MainOpensDb
  <2>1. CASE handles' = "open" /\ mainPc' = "mask" /\ UNCHANGED proc
    BY <1>0, <1>1, <2>1 DEF MainOpensDb, HandlesFollow, cliVars, netVars, Promise!OpenDb
  <2>2. CASE proc' = "exited" /\ UNCHANGED <<handles, mainPc>>
    BY <1>0, <1>1, <2>2 DEF MainOpensDb, cliVars, netVars, Promise!Abort
  <2> QED  BY <1>1, <2>1, <2>2 DEF MainOpensDb
<1>2. CASE MainMasksSignals
  BY <1>0, <1>2 DEF MainMasksSignals, cliVars, netVars
<1>3. CASE MainLocksStopper
  <2>1. CASE mainPc' = "spawnCli"
    BY <1>0, <1>3, <2>1 DEF MainLocksStopper, cliVars, netVars
  <2>2. CASE mainPc' = "destroyDb"
    BY <1>0, <1>3, <2>2 DEF MainLocksStopper, cliVars, netVars, Promise!AskToStop
  <2> QED  BY <1>3, <2>1, <2>2 DEF MainLocksStopper
<1>4. CASE MainSpawnsCli
  <2>1. CASE cliPc' = "loop" /\ mainPc' = "spawnNet" /\ UNCHANGED stopper
    <3>1. Promise!Spawn("cli")
      BY <1>0, <1>4, <2>1
      DEF MainSpawnsCli, Control, SpawnOrder, HandlesFollow, netVars, NetEnded, Promise!Spawn
    <3> QED  BY <1>0, <3>1
  <2>2. CASE mainPc' = "destroyDb" /\ UNCHANGED cliPc
    BY <1>0, <1>4, <2>2 DEF MainSpawnsCli, netVars, Promise!AskToStop
  <2> QED  BY <1>4, <2>1, <2>2 DEF MainSpawnsCli
<1>5. CASE MainSpawnsNet
  <2>1. Promise!Spawn("net")
    BY <1>0, <1>5
    DEF MainSpawnsNet, Control, SpawnOrder, HandlesFollow, cliVars, NetEnded, Promise!Spawn
  <2> QED  BY <1>0, <2>1
<1>6. CASE MainTakesSignal
  BY <1>0, <1>6 DEF MainTakesSignal, cliVars, netVars
<1>7. CASE MainReleasesWorkers
  BY <1>0, <1>7 DEF MainReleasesWorkers, cliVars, netVars
<1>8. CASE MainJoinsCli \/ MainJoinsNet
  BY <1>0, <1>8 DEF MainJoinsCli, MainJoinsNet, processVars, cliVars, netVars
<1>9. CASE MainDestroysDb
  <2>1. WorkersGone = WorkersSpawned
    BY <1>0, <1>9 DEF MainDestroysDb, Joined, NetEnded
  <2>2. handles = "open"
    BY <1>0, <1>9 DEF MainDestroysDb, HandlesFollow
  <2>3. Promise!CloseDb
    BY <1>0, <1>9, <2>1, <2>2 DEF MainDestroysDb, cliVars, netVars, Promise!CloseDb
  <2> QED  BY <1>0, <2>3
<1>10. CASE MainReturns
  <2>1. Promise!Return
    BY <1>0, <1>10 DEF MainReturns, HandlesFollow, cliVars, netVars, Promise!Return
  <2> QED  BY <1>0, <2>1
<1> QED  BY <1>1, <1>2, <1>3, <1>4, <1>5, <1>6, <1>7, <1>8, <1>9, <1>10 DEF MainStep

-----------------------------------------------------------------------------
\* A step of the administration thread that ends the process tells main
\* nothing and does not end the thread.
LEMMA CliOutcome ==
  ASSUME Control, CliRuns
  PROVE  /\ cliPc' # "off"
         /\ \/ proc' = "running"
            \/ proc' \in {"exited", "crashed"} /\ cliPc' = cliPc /\ pending' = pending
<1> USE DEF processVars, InPolling, Prompts, CliCalls
<1>. DEFINE racing == InNetCall
<1>0. CliStep(racing) /\ proc = "running" /\ cliPc # "off"
  BY CliFrame DEF CliRuns, CliStep, Running
<1>1. CASE CliStays \/ CliGetsStopper \/ CliSleeps \/ CliBlocksInFgets
  BY <1>0, <1>1 DEF CliStays, CliGetsStopper, CliSleeps, CliBlocksInFgets
<1>2. CASE CliSeesQuit
  BY <1>0, <1>2, LeavePromptControl DEF CliSeesQuit
<1>3. CASE CliReadsCommand
  <2>1. masked
    BY <1>3 DEF CliReadsCommand, Control, SpawnOrder
  <2>2. PICK command \in Commands :
          /\ cliPc' = CommandTable[command]
          /\ IF command = "exit" THEN Raise("USR1") ELSE UNCHANGED <<proc, pending>>
    BY <1>3 DEF CliReadsCommand
  <2>3. cliPc' # "off"
    BY <2>2, CommandTableRange, CliAssumption
  <2> QED  BY <1>0, <2>1, <2>2, <2>3 DEF Raise
<1>4. CASE CliReadsAnswer
  <2>1. PICK text \in Typed(cliPc) : cliPc \in Prompts /\ LeavePrompt(text)
    BY <1>4 DEF CliReadsAnswer
  <2> QED  BY <1>0, <1>4, <2>1, LeavePromptControl DEF CliReadsAnswer
<1>5. CASE CliReadsEof
  <2>1. CASE cliPc = "loop"
    BY <1>0, <1>5, <2>1 DEF CliReadsEof, Return
  <2>2. CASE cliPc # "loop"
    <3>1. cliPc \in Prompts /\ LeavePrompt(Cut(userInput))
      BY <1>5, <2>2 DEF CliReadsEof
    <3> QED  BY <1>0, <1>5, <3>1, LeavePromptControl DEF CliReadsEof
  <2> QED  BY <2>1, <2>2
<1>6. CASE InsertUser(racing) \/ InsertService(racing) \/ List
  BY <1>0, <1>6 DEF InsertUser, InsertService, List, Return
<1>7. CASE RemoveUser(racing) \/ RemoveService(racing)
  BY <1>0, <1>7 DEF RemoveUser, RemoveService, ReturnOrExit, Return
<1>8. CASE FindUser(racing) \/ AddToServices(racing) \/ PullFromServices(racing)
  BY <1>0, <1>8 DEF FindUser, AddToServices, PullFromServices, Return
<1>9. CASE CliCrashes(racing)
  BY <1>0, <1>9 DEF CliCrashes, cliVars
<1> QED
  BY <1>0, <1>1, <1>2, <1>3, <1>4, <1>5, <1>6, <1>7, <1>8, <1>9 DEF CliStep

LEMMA CliImplements ==
  ASSUME "epollWait" \notin Faults, Orderly, CliRuns
  PROVE  Promise!Next \/ UNCHANGED Promise!vars
<1>0. /\ Control /\ proc = "running" /\ Running
      /\ mainPc' = mainPc /\ netPc' = netPc /\ handles' = handles
      /\ pending \subseteq pending' /\ cliPc \notin {"off", "done"} /\ cliPc' # "off"
      /\ \/ proc' = "running"
         \/ proc' \in {"exited", "crashed"} /\ cliPc' = cliPc /\ pending' = pending
  BY CliFrame, CliOutcome DEF Orderly, CliRuns, CliStep, Running
<1>1. WorkersSpawned' = WorkersSpawned /\ (StopBegun => StopBegun')
  BY <1>0 DEF WorkersSpawned, StopBegun
<1>2. CASE cliPc' # "done"
  <2>1. WorkersGone' = WorkersGone
    BY <1>0, <1>2 DEF WorkersGone
  <2>2. proc' # "returned" /\ (proc' = "running" \/ StopBegun' = StopBegun)
    BY <1>0 DEF StopBegun
  <2> QED  BY <1>0, <1>1, <2>1, <2>2, StaysPut
<1>3. CASE cliPc' = "done"
  <2>1. StopBegun' = TRUE
    BY <1>0, <1>1, <1>3, CliEnds, QuitMeansStop DEF StopBegun
  <2>2. proc' = "running"
    BY <1>0, <1>3
  <2>3. "cli" \in WorkersSpawned \ WorkersGone /\ WorkersGone' = WorkersGone \cup {"cli"}
    BY <1>0, <1>3 DEF WorkersSpawned, WorkersGone
  <2>4. Promise!Leave("cli")
    BY <1>0, <1>1, <2>1, <2>2, <2>3 DEF Promise!Leave
  <2> QED  BY <1>0, <2>4 DEF Promise!Next
<1> QED  BY <1>2, <1>3

LEMMA NetOutcome ==
  ASSUME Control, NetRunsOn
  PROVE  /\ netPc' # "off"
         /\ \/ proc' = "running"
            \/ /\ proc' \in {"exited", "crashed", "sigpipe"}
               /\ netPc' \notin NetEnded /\ pending' = pending
<1> USE DEF processVars, NetEnded
<1>. DEFINE racing == InCliCall
<1>0. NetStep(racing) /\ proc = "running" /\ netPc \notin {"off"} \cup NetEnded
  BY NetFrame DEF NetRunsOn, NetStep, Running
<1>1. masked
  BY <1>0 DEF Control, SpawnOrder
<1>2. CASE NetSetsUp \/ NetWrites
  BY <1>0, <1>1, <1>2 DEF NetSetsUp, NetWrites, Raise
<1>3. CASE NetCreatesEpoll \/ NetStays \/ NetGetsStopper \/ NetSeesQuit \/ NetWaits
  BY <1>0, <1>3 DEF NetCreatesEpoll, NetStays, NetGetsStopper, NetSeesQuit, NetWaits
<1>4. CASE NetAccepts \/ NetHandshakes \/ NetReads \/ NetRuns \/ NetFinds(racing)
  BY <1>0, <1>4 DEF NetAccepts, NetHandshakes, NetReads, NetRuns, NetFinds
<1>5. CASE NetCloses \/ NetCleansUp
  BY <1>0, <1>5 DEF NetCloses, NetCleansUp
<1> QED  BY <1>0, <1>2, <1>3, <1>4, <1>5 DEF NetStep

LEMMA NetImplements ==
  ASSUME "epollWait" \notin Faults, Orderly, NetRunsOn
  PROVE  Promise!Next \/ UNCHANGED Promise!vars
<1>0. /\ Control /\ proc = "running" /\ Running
      /\ mainPc' = mainPc /\ cliPc' = cliPc /\ handles' = handles
      /\ pending \subseteq pending' /\ netPc \notin {"off"} \cup NetEnded /\ netPc' # "off"
      /\ \/ proc' = "running"
         \/ /\ proc' \in {"exited", "crashed", "sigpipe"}
            /\ netPc' \notin NetEnded /\ pending' = pending
  BY NetFrame, NetOutcome DEF Orderly, NetRunsOn, NetStep, Running
<1>1. WorkersSpawned' = WorkersSpawned /\ (StopBegun => StopBegun')
  BY <1>0 DEF WorkersSpawned, StopBegun
<1>2. CASE netPc' \notin NetEnded
  <2>1. WorkersGone' = WorkersGone
    BY <1>0, <1>2 DEF WorkersGone
  <2>2. proc' # "returned" /\ (proc' = "running" \/ StopBegun' = StopBegun)
    BY <1>0 DEF StopBegun
  <2> QED  BY <1>0, <1>1, <2>1, <2>2, StaysPut
<1>3. CASE netPc' \in NetEnded
  <2>1. GoneWithStop'
    BY GoneWithStopStep DEF Orderly, Next
  <2>2. StopBegun' = TRUE
    BY <1>3, <2>1 DEF GoneWithStop, NetLeaving, StopBegun
  <2>3. proc' = "running"
    BY <1>0, <1>3
  <2>4. "net" \in WorkersSpawned \ WorkersGone /\ WorkersGone' = WorkersGone \cup {"net"}
    BY <1>0, <1>3 DEF WorkersSpawned, WorkersGone
  <2>5. Promise!Leave("net")
    BY <1>0, <1>1, <2>2, <2>3, <2>4 DEF Promise!Leave
  <2> QED  BY <1>0, <2>5 DEF Promise!Next
<1> QED  BY <1>2, <1>3

LEMMA OutsideImplements ==
  ASSUME Control, Operator \/ Peer
  PROVE  Promise!Next \/ UNCHANGED Promise!vars
<1>0. /\ mainPc' = mainPc /\ cliPc' = cliPc /\ netPc' = netPc
      /\ handles' = handles /\ pending \subseteq pending'
  BY OutsideFrame
<1>1. /\ Running /\ proc' \in {"running", "signalled"}
      /\ proc' = "running" \/ pending' = pending
  <2> USE DEF Running, processVars
  <2>1. CASE OperatorInterrupts
    BY <2>1 DEF OperatorInterrupts, Raise
  <2>2. CASE OperatorTypesLine \/ OperatorTypesPart \/ OperatorEndsInput
    BY <2>2 DEF OperatorTypesLine, OperatorTypesPart, OperatorEndsInput
  <2>3. CASE Peer
    BY <2>3 DEF Peer, PeerConnects, PeerSaysHello, PeerSendsRequest, PeerLeaves
  <2> QED  BY <2>1, <2>2, <2>3 DEF Operator
<1>2. /\ WorkersSpawned' = WorkersSpawned /\ WorkersGone' = WorkersGone
      /\ StopBegun => StopBegun'
      /\ proc' = "running" \/ StopBegun' = StopBegun
  BY <1>0, <1>1 DEF WorkersSpawned, WorkersGone, StopBegun
<1> QED  BY <1>0, <1>1, <1>2, StaysPut

-----------------------------------------------------------------------------
\* As long as pthread_create of the network thread and epoll_wait succeed,
\* main opens the handles before the workers exist, a worker goes only with a
\* stop, and the handles go only behind both, in every interleaving.
THEOREM AlwaysKeepsLifecycle ==
  ASSUME "spawnNet" \notin Faults, "epollWait" \notin Faults
  PROVE  Spec => KeepsLifecycle
<1>1. Init => Orderly
  BY ControlInit, JoinedInit, GoneWithStopInit
  DEF Init, ProcessInit, Orderly, HandlesFollow
<1>2. Orderly /\ [Next]_vars => Orderly'
  BY ControlStep, JoinedStep, GoneWithStopStep, HandlesFollowStep DEF Orderly
<1>3. Init => Promise!Init
  BY DEF Init, ProcessInit, CliInit, NetInit, Promise!Init, WorkersSpawned,
     WorkersGone, StopBegun, NetEnded
<1>4. Orderly /\ [Next]_vars => [Promise!Next]_(Promise!vars)
  <2> SUFFICES ASSUME Orderly, [Next]_vars PROVE [Promise!Next]_(Promise!vars)
    OBVIOUS
  <2>1. CASE MainStep          BY <2>1, MainImplements
  <2>2. CASE CliRuns           BY <2>2, CliImplements
  <2>3. CASE NetRunsOn         BY <2>3, NetImplements
  <2>4. CASE Operator \/ Peer  BY <2>4, OutsideImplements DEF Orderly
  <2>5. CASE UNCHANGED vars
    BY <2>5 DEF vars, processVars, mainVars, cliVars, netVars, Promise!vars,
       WorkersSpawned, WorkersGone, StopBegun
  <2> QED  BY <2>1, <2>2, <2>3, <2>4, <2>5 DEF Next, Ended
<1> QED  BY <1>1, <1>2, <1>3, <1>4, PTL DEF Spec, KeepsLifecycle, Promise!Spec

-----------------------------------------------------------------------------
(* What the collections hold, whatever the threads do: identifiers stay    *)
(* unique, and text nobody typed gets in only while the program stops or   *)
(* behind the end of the input.                                            *)

-----------------------------------------------------------------------------
(* Only the administration thread writes.                                  *)

LEMMA MainLeavesData ==
  ASSUME MainStep
  PROVE  /\ usercol' = usercol /\ servcol' = servcol /\ usedOids' = usedOids
         /\ userInput' = userInput /\ stdin' = stdin
         /\ cliPc' = cliPc \/ cliPc' = "loop"
<1> USE DEF cliVars, dbVars
<1> QED
  BY DEF MainStep, MainOpensDb, MainMasksSignals, MainLocksStopper,
     MainSpawnsCli, MainSpawnsNet, MainTakesSignal, MainReleasesWorkers,
     MainJoinsCli, MainJoinsNet, MainDestroysDb, MainReturns

LEMMA OthersLeaveData ==
  ASSUME NetRunsOn \/ Operator \/ Peer \/ UNCHANGED vars
  PROVE  /\ usercol' = usercol /\ servcol' = servcol /\ usedOids' = usedOids
         /\ userInput' = userInput /\ cliPc' = cliPc
         /\ stdin = "eof" => stdin' = "eof"
<1> USE DEF cliVars, dbVars
<1>1. CASE NetRunsOn  BY <1>1 DEF NetRunsOn
<1>2. CASE Operator
  BY <1>2 DEF Operator, OperatorInterrupts, OperatorTypesLine, OperatorTypesPart,
     OperatorEndsInput
<1>3. CASE Peer       BY <1>3 DEF Peer
<1>4. CASE UNCHANGED vars  BY <1>4 DEF vars
<1> QED  BY <1>1, <1>2, <1>3, <1>4

-----------------------------------------------------------------------------
(* Identifiers and sets of services.                                       *)

\* A sequence holds no value twice.
Distinct(s) == \A j, k \in DOMAIN s : s[j] = s[k] => j = k

SetsOnly(coll) ==
  \A i \in DOMAIN coll : coll[i].services # NoServices => Distinct(coll[i].services)

\* Every identifier in a collection is one that was generated, or left over.
KeysFrom(coll, oids) == \A i \in DOMAIN coll : coll[i].oid \in oids

LEMMA AddToSetDistinct ==
  ASSUME NEW S, NEW service, NEW services \in Seq(S) \cup {NoServices},
         services # NoServices => Distinct(services)
  PROVE  Distinct(AddToSet(services, service))
<1>1. CASE services = NoServices
  <2>1. DOMAIN <<service>> = {1}
    OBVIOUS
  <2> QED  BY <1>1, <2>1 DEF AddToSet, Distinct
<1>2. CASE services # NoServices /\ \E i \in DOMAIN services : services[i] = service
  BY <1>2 DEF AddToSet
<1>3. CASE services # NoServices /\ \A i \in DOMAIN services : services[i] # service
  <2>. DEFINE next == Append(services, service)
  <2>1. /\ Len(services) \in Nat /\ DOMAIN services = 1 .. Len(services)
        /\ DOMAIN next = 1 .. Len(services) + 1
        /\ \A i \in 1 .. Len(services) : next[i] = services[i]
        /\ next[Len(services) + 1] = service
    <3>1. services \in Seq(S \cup {service}) /\ service \in S \cup {service}
      <4>1. services \in Seq(S)
        BY <1>3
      <4>2. Seq(S) \subseteq Seq(S \cup {service})
        BY SeqMonotonic
      <4> QED  BY <4>1, <4>2
    <3> QED  BY <3>1, AppendProperties, LenProperties
  <2>2. AddToSet(services, service) = next
    BY <1>3 DEF AddToSet
  <2>. HIDE DEF next
  <2>3. ASSUME NEW j \in DOMAIN next, NEW k \in DOMAIN next, next[j] = next[k]
        PROVE  j = k
    <3>1. j \in 1 .. Len(services) \/ j = Len(services) + 1
      BY <2>1
    <3>2. k \in 1 .. Len(services) \/ k = Len(services) + 1
      BY <2>1
    <3> QED  BY <1>3, <2>1, <2>3, <3>1, <3>2 DEF Distinct
  <2> QED  BY <2>2, <2>3 DEF Distinct
<1> QED  BY <1>1, <1>2, <1>3

LEMMA PullDistinct ==
  ASSUME NEW S, NEW service, NEW services \in Seq(S) \cup {NoServices},
         services # NoServices => Distinct(services), services # NoServices
  PROVE  Distinct(Pull(services, service))
<1>1. CASE \E i \in DOMAIN services : services[i] = service
  <2>1. PICK i \in DOMAIN services : Pull(services, service) = Without(services, i)
    BY <1>1 DEF Pull
  <2>2. services \in Seq(S) /\ Len(services) \in Nat /\ DOMAIN services = 1 .. Len(services)
    BY LenProperties
  <2>. DEFINE next == Without(services, i)
  <2>3. /\ DOMAIN next = 1 .. Len(services) - 1
        /\ \A j \in 1 .. Len(services) - 1 :
             next[j] = services[IF j < i THEN j ELSE j + 1]
    BY <2>2, WithoutElements, LenProperties
  <2>. HIDE DEF next
  <2>4. ASSUME NEW j \in DOMAIN next, NEW k \in DOMAIN next, next[j] = next[k]
        PROVE  j = k
    <3>1. /\ (IF j < i THEN j ELSE j + 1) \in DOMAIN services
          /\ (IF k < i THEN k ELSE k + 1) \in DOMAIN services
      BY <2>2, <2>3
    <3>2. (IF j < i THEN j ELSE j + 1) = (IF k < i THEN k ELSE k + 1)
      BY <2>3, <2>4, <3>1 DEF Distinct
    <3> QED  BY <3>2, <2>2, <2>3
  <2> QED  BY <2>1, <2>4 DEF Distinct, next
<1>2. CASE ~\E i \in DOMAIN services : services[i] = service
  BY <1>2 DEF Pull
<1> QED  BY <1>1, <1>2

\* The updates keep identifiers where they are and sets sets; a deletion only
\* takes a document out.
LEMMA AddToSetOneKeeps ==
  ASSUME NEW O, NEW N, NEW S, NEW coll \in Seq(UserDocs(O, N, S)),
         NEW oid, NEW service, SetsOnly(coll)
  PROVE  /\ DOMAIN AddToSetOne(coll, oid, service) = DOMAIN coll
         /\ \A i \in DOMAIN coll : AddToSetOne(coll, oid, service)[i].oid = coll[i].oid
         /\ SetsOnly(AddToSetOne(coll, oid, service))
<1>. DEFINE new == AddToSetOne(coll, oid, service)
<1>1. DOMAIN new = DOMAIN coll /\ DOMAIN coll = 1 .. Len(coll)
  BY LenProperties DEF AddToSetOne
<1>2. ASSUME NEW i \in DOMAIN coll
      PROVE  /\ new[i].oid = coll[i].oid
             /\ new[i].services # NoServices => Distinct(new[i].services)
  <2>1. coll[i] \in UserDocs(O, N, S)
    BY <1>1, ElementOfSeq
  <2>2. coll[i].services \in Seq(S) \cup {NoServices}
    BY <2>1 DEF UserDocs
  <2>3. Distinct(AddToSet(coll[i].services, service))
    BY <2>2, AddToSetDistinct DEF SetsOnly
  <2>4. new[i] = IF coll[i].oid = oid
                   THEN [coll[i] EXCEPT !.services = AddToSet(coll[i].services, service)]
                   ELSE coll[i]
    BY DEF AddToSetOne
  <2> QED  BY <2>1, <2>3, <2>4 DEF UserDocs, SetsOnly
<1> QED  BY <1>1, <1>2 DEF SetsOnly

LEMMA PullOneKeeps ==
  ASSUME NEW O, NEW N, NEW S, NEW coll \in Seq(UserDocs(O, N, S)),
         NEW oid, NEW service, SetsOnly(coll)
  PROVE  /\ DOMAIN PullOne(coll, oid, service) = DOMAIN coll
         /\ \A i \in DOMAIN coll : PullOne(coll, oid, service)[i].oid = coll[i].oid
         /\ SetsOnly(PullOne(coll, oid, service))
<1>. DEFINE new == PullOne(coll, oid, service)
<1>1. DOMAIN new = DOMAIN coll /\ DOMAIN coll = 1 .. Len(coll)
  BY LenProperties DEF PullOne
<1>2. ASSUME NEW i \in DOMAIN coll
      PROVE  /\ new[i].oid = coll[i].oid
             /\ new[i].services # NoServices => Distinct(new[i].services)
  <2>1. coll[i] \in UserDocs(O, N, S)
    BY <1>1, ElementOfSeq
  <2>2. coll[i].services \in Seq(S) \cup {NoServices}
    BY <2>1 DEF UserDocs
  <2>3. Pull(coll[i].services, service) # NoServices =>
          Distinct(Pull(coll[i].services, service))
    <3>1. CASE coll[i].services = NoServices
      BY <3>1 DEF Pull
    <3>2. CASE coll[i].services # NoServices
      BY <2>2, <3>2, PullDistinct DEF SetsOnly
    <3> QED  BY <3>1, <3>2
  <2>4. new[i] = IF coll[i].oid = oid
                   THEN [coll[i] EXCEPT !.services = Pull(coll[i].services, service)]
                   ELSE coll[i]
    BY DEF PullOne
  <2> QED  BY <2>1, <2>3, <2>4 DEF UserDocs, SetsOnly
<1> QED  BY <1>1, <1>2 DEF SetsOnly

LEMMA DeleteOneKeeps ==
  ASSUME NEW T, NEW coll \in Seq(T), NEW oid, Keyed(coll)
  PROVE  /\ Keyed(DeleteOne(coll, oid))
         /\ \A i \in DOMAIN DeleteOne(coll, oid) :
              \E k \in DOMAIN coll : DeleteOne(coll, oid)[i] = coll[k]
<1>1. CASE HasOid(coll, oid)
  <2>1. Keyed(DeleteOne(coll, oid))
    BY <1>1, DeleteOneThins, DeleteOneType, ThinsKeys
  <2>2. PICK i \in DOMAIN coll : DeleteOne(coll, oid) = Without(coll, i)
    BY <1>1 DEF DeleteOne, HasOid, PositionsOf
  <2>. DEFINE next == Without(coll, i)
  <2>3. /\ Len(coll) \in Nat /\ DOMAIN coll = 1 .. Len(coll)
        /\ DOMAIN next = 1 .. Len(coll) - 1
        /\ \A j \in 1 .. Len(coll) - 1 : next[j] = coll[IF j < i THEN j ELSE j + 1]
    BY WithoutElements, LenProperties
  <2>. HIDE DEF next
  <2>4. \A j \in DOMAIN next : (IF j < i THEN j ELSE j + 1) \in DOMAIN coll
    BY <2>3
  <2>5. \A j \in DOMAIN next : \E k \in DOMAIN coll : next[j] = coll[k]
    BY <2>3, <2>4
  <2> QED  BY <2>1, <2>2, <2>5 DEF next
<1>2. CASE ~HasOid(coll, oid)
  BY <1>2 DEF DeleteOne
<1> QED  BY <1>1, <1>2

\* What StoreIsKeyed needs to be inductive: a fresh identifier is in no
\* collection.
StoreOrdered ==
  /\ Keyed(usercol) /\ KeysFrom(usercol, usedOids) /\ SetsOnly(usercol)
  /\ Keyed(servcol) /\ KeysFrom(servcol, usedOids)

\* What an earlier run leaves was kept in the same way.
LeftoversOrdered == \A coll \in InitialUsers : Keyed(coll) /\ SetsOnly(coll)

LEMMA StoreOrderedInit ==
  ASSUME LeftoversOrdered, Init
  PROVE  StoreOrdered
<1>1. /\ servcol = <<>> /\ usercol \in InitialUsers
      /\ usedOids = {usercol[i].oid : i \in DOMAIN usercol}
  BY DEF Init, CliInit
<1>2. Keyed(servcol) /\ KeysFrom(servcol, usedOids)
  <2>1. DOMAIN servcol = {}
    BY <1>1
  <2> QED  BY <2>1 DEF Keyed, KeysFrom
<1>3. Keyed(usercol) /\ SetsOnly(usercol) /\ KeysFrom(usercol, usedOids)
  BY <1>1 DEF LeftoversOrdered, KeysFrom
<1> QED  BY <1>2, <1>3 DEF StoreOrdered

\* Appending a document under an identifier that was not in use.
LEMMA AppendOrdered ==
  ASSUME NEW T, NEW coll \in Seq(T), NEW doc \in T, NEW oids,
         Keyed(coll), KeysFrom(coll, oids), doc.oid \notin oids
  PROVE  /\ Keyed(Append(coll, doc))
         /\ KeysFrom(Append(coll, doc), oids \cup {doc.oid})
         /\ SetsOnly(coll) /\ doc.services = NoServices => SetsOnly(Append(coll, doc))
<1>1. ~HasOid(coll, doc.oid)
  BY DEF KeysFrom, HasOid, PositionsOf
<1>2. /\ Keyed(Append(coll, doc))
      /\ \A i \in DOMAIN Append(coll, doc) :
           \/ Append(coll, doc)[i] = doc
           \/ i \in DOMAIN coll /\ Append(coll, doc)[i] = coll[i]
  BY <1>1, AppendKeyed
<1> QED  BY <1>2 DEF KeysFrom, SetsOnly

LEMMA CliOrdered ==
  ASSUME TypeOK, StoreOrdered, CliRuns
  PROVE  StoreOrdered'
<1> USE DEF dbVars
<1>. DEFINE racing == InNetCall
            Docs == UserDocs(Oids, Texts, Texts)
            Servs == ServiceDocs(Oids, Texts)
<1>0. CliStep(racing) /\ CliTypeOK /\ usercol \in Seq(Docs) /\ servcol \in Seq(Servs)
  BY DEF CliRuns, TypeOK, CliTypeOK
<1>1. CASE UNCHANGED dbVars
  BY <1>1 DEF StoreOrdered, KeysFrom, Keyed, SetsOnly
<1>2. CASE InsertUser(racing)
  <2>1. PICK oid \in Oids \ usedOids :
          /\ usedOids' = usedOids \cup {oid} /\ servcol' = servcol
          /\ usercol' = Append(usercol, NewUser(oid, userInput)) \/ usercol' = usercol
    BY <1>2 DEF InsertUser, Writes
  <2>2. NewUser(oid, userInput) \in Docs
    BY <1>0 DEF CliTypeOK, NewUser, UserDocs
  <2>3. NewUser(oid, userInput).oid = oid /\ NewUser(oid, userInput).services = NoServices
    BY DEF NewUser
  <2>4. /\ Keyed(Append(usercol, NewUser(oid, userInput)))
        /\ KeysFrom(Append(usercol, NewUser(oid, userInput)), usedOids \cup {oid})
        /\ SetsOnly(Append(usercol, NewUser(oid, userInput)))
    BY <1>0, <2>2, <2>3, AppendOrdered DEF StoreOrdered
  <2>5. KeysFrom(servcol, usedOids') /\ KeysFrom(usercol, usedOids')
    BY <2>1 DEF StoreOrdered, KeysFrom
  <2> QED  BY <2>1, <2>4, <2>5 DEF StoreOrdered
<1>3. CASE InsertService(racing)
  <2>1. PICK oid \in Oids \ usedOids :
          /\ usedOids' = usedOids \cup {oid} /\ usercol' = usercol
          /\ servcol' = Append(servcol, NewService(oid, userInput)) \/ servcol' = servcol
    BY <1>3 DEF InsertService, Writes
  <2>2. NewService(oid, userInput) \in Servs /\ NewService(oid, userInput).oid = oid
    BY <1>0 DEF CliTypeOK, NewService, ServiceDocs
  <2>3. /\ Keyed(Append(servcol, NewService(oid, userInput)))
        /\ KeysFrom(Append(servcol, NewService(oid, userInput)), usedOids \cup {oid})
    BY <1>0, <2>2, AppendOrdered DEF StoreOrdered
  <2>4. KeysFrom(servcol, usedOids') /\ KeysFrom(usercol, usedOids')
    BY <2>1 DEF StoreOrdered, KeysFrom
  <2> QED  BY <2>1, <2>3, <2>4 DEF StoreOrdered
<1>4. CASE RemoveUser(racing)
  <2>1. /\ usercol' = DeleteOne(usercol, userInput) \/ usercol' = usercol
        /\ servcol' = servcol /\ usedOids' = usedOids
    BY <1>4 DEF RemoveUser, Writes
  <2>2. /\ Keyed(DeleteOne(usercol, userInput))
        /\ KeysFrom(DeleteOne(usercol, userInput), usedOids)
        /\ SetsOnly(DeleteOne(usercol, userInput))
    BY <1>0, DeleteOneKeeps DEF StoreOrdered, KeysFrom, SetsOnly
  <2> QED  BY <2>1, <2>2 DEF StoreOrdered
<1>5. CASE RemoveService(racing)
  <2>1. /\ servcol' = DeleteOne(servcol, userInput) \/ servcol' = servcol
        /\ usercol' = usercol /\ usedOids' = usedOids
    BY <1>5 DEF RemoveService, Writes
  <2>2. /\ Keyed(DeleteOne(servcol, userInput))
        /\ KeysFrom(DeleteOne(servcol, userInput), usedOids)
    BY <1>0, DeleteOneKeeps DEF StoreOrdered, KeysFrom
  <2> QED  BY <2>1, <2>2 DEF StoreOrdered
<1>6. CASE AddToServices(racing)
  <2>1. /\ usercol' = AddToSetOne(usercol, userOid, userInput) \/ usercol' = usercol
        /\ servcol' = servcol /\ usedOids' = usedOids
    BY <1>6 DEF AddToServices, Writes
  <2>2. /\ Keyed(AddToSetOne(usercol, userOid, userInput))
        /\ KeysFrom(AddToSetOne(usercol, userOid, userInput), usedOids)
        /\ SetsOnly(AddToSetOne(usercol, userOid, userInput))
    BY <1>0, AddToSetOneKeeps DEF StoreOrdered, KeysFrom, Keyed
  <2> QED  BY <2>1, <2>2 DEF StoreOrdered
<1>7. CASE PullFromServices(racing)
  <2>1. /\ usercol' = PullOne(usercol, userOid, userInput) \/ usercol' = usercol
        /\ servcol' = servcol /\ usedOids' = usedOids
    BY <1>7 DEF PullFromServices, Writes
  <2>2. /\ Keyed(PullOne(usercol, userOid, userInput))
        /\ KeysFrom(PullOne(usercol, userOid, userInput), usedOids)
        /\ SetsOnly(PullOne(usercol, userOid, userInput))
    BY <1>0, PullOneKeeps DEF StoreOrdered, KeysFrom, Keyed
  <2> QED  BY <2>1, <2>2 DEF StoreOrdered
<1> QED
  BY <1>0, <1>1, <1>2, <1>3, <1>4, <1>5, <1>6, <1>7
  DEF CliStep, CliStays, CliGetsStopper, CliSeesQuit, CliSleeps, CliBlocksInFgets,
      CliReadsCommand, CliReadsAnswer, CliReadsEof, FindUser, List, CliCrashes

\* Identifiers are unique in each collection and a services array is a set,
\* through any sequence of commands, failed calls and abandoned prompts, if
\* the collections were so when the process found them.
THEOREM StoreIsAlwaysKeyed ==
  ASSUME LeftoversOrdered
  PROVE  Spec => []StoreIsKeyed
<1>1. Init => StoreOrdered
  BY StoreOrderedInit
<1>2. TypeOK /\ StoreOrdered /\ [Next]_vars => StoreOrdered'
  <2> SUFFICES ASSUME TypeOK, StoreOrdered, [Next]_vars PROVE StoreOrdered'
    OBVIOUS
  <2>1. CASE CliRuns
    BY <2>1, CliOrdered
  <2>2. CASE ~CliRuns
    <3>1. usercol' = usercol /\ servcol' = servcol /\ usedOids' = usedOids
      BY <2>2, MainLeavesData, OthersLeaveData DEF Next, Ended
    <3> QED  BY <3>1 DEF StoreOrdered, KeysFrom, Keyed, SetsOnly
  <2> QED  BY <2>1, <2>2
<1>3. StoreOrdered => StoreIsKeyed
  BY DEF StoreOrdered, StoreIsKeyed, Keyed, SetsOnly, Distinct
<1> QED  BY <1>1, <1>2, <1>3, TypeCorrect, PTL DEF Spec

-----------------------------------------------------------------------------
(* Untyped text.                                                           *)

\* The collections and the text about to be written are the operator's.
TypedStore ==
  /\ usercol \in Seq(UserDocs(Oids, Names, ServiceNames))
  /\ servcol \in Seq(ServiceDocs(Oids, ServiceNames))
  /\ cliPc = "insertUser" => userInput \in Names
  /\ cliPc \in {"insertService", "addToSet"} => userInput \in ServiceNames

Typing == TypedStore \/ StopBegun \/ stdin = "eof"

LEMMA TypedInit == Init => TypedStore
<1>1. servcol = <<>> => servcol \in Seq(ServiceDocs(Oids, ServiceNames))
  BY EmptySeq
<1> QED  BY <1>1, CliAssumption DEF Init, CliInit, TypedStore

\* As long as nobody stops the program and the input has not ended, a prompt
\* is left only with a line of the operator's.
LEMMA CliTyped ==
  ASSUME Control, TypeOK, CliRuns, TypedStore, ~StopBegun, stdin # "eof"
  PROVE  TypedStore'
<1> USE DEF dbVars
<1>. DEFINE racing == InNetCall
            Docs == UserDocs(Oids, Names, ServiceNames)
            Servs == ServiceDocs(Oids, ServiceNames)
<1>0. /\ CliStep(racing) /\ usercol \in Seq(Docs) /\ servcol \in Seq(Servs)
      /\ cliAt # "quit"
  BY QuitMeansStop DEF CliRuns, TypedStore
<1>1. CASE CliStays \/ CliGetsStopper \/ CliSleeps \/ CliBlocksInFgets \/ CliCrashes(racing)
  BY <1>1 DEF CliStays, CliGetsStopper, CliSleeps, CliBlocksInFgets, CliCrashes,
     cliVars, TypedStore
<1>2. CASE CliSeesQuit \/ CliReadsEof
  BY <1>0, <1>2 DEF CliSeesQuit, CliReadsEof
<1>3. CASE CliReadsCommand
  <2>1. PICK command \in Commands : cliPc' = CommandTable[command]
    BY <1>3 DEF CliReadsCommand
  <2>2. cliPc' \in {"done", "loop", "list"} \cup Prompts
    BY <2>1, CommandTableRange, CliAssumption
  <2> QED  BY <1>3, <2>2 DEF CliReadsCommand, TypedStore, Prompts
<1>4. CASE CliReadsAnswer
  <2>1. PICK text \in Typed(cliPc) : cliPc \in Prompts /\ LeavePrompt(text)
    BY <1>4 DEF CliReadsAnswer
  <2>2. cliPc' = "insertUser" => userInput' \in Names
    BY <2>1 DEF LeavePrompt, Return, AfterPrompt, CallAfter, Typed, Prompts
  <2>3. ASSUME cliPc' \in {"insertService", "addToSet"}
        PROVE  userInput' \in ServiceNames
    <3>1. userInput' = text /\ cliPc' = AfterPrompt(cliPc, text)
      BY <2>1, <2>3 DEF LeavePrompt, Return
    <3>2. cliPc \in {"AddService", "serviceToAdd"}
      BY <2>1, <2>3, <3>1 DEF AfterPrompt, CallAfter, Prompts
    <3>3. Typed(cliPc) = ServiceNames
      BY <3>2 DEF Typed
    <3> QED  BY <2>1, <3>1, <3>3
  <2> QED  BY <1>4, <2>2, <2>3 DEF CliReadsAnswer, TypedStore
<1>5. CASE InsertUser(racing)
  <2>1. PICK oid \in Oids \ usedOids :
          /\ servcol' = servcol /\ cliPc' = "loop"
          /\ usercol' = Append(usercol, NewUser(oid, userInput)) \/ usercol' = usercol
    BY <1>5 DEF InsertUser, Writes, Return
  <2>2. Append(usercol, NewUser(oid, userInput)) \in Seq(Docs)
    BY <1>0, <1>5, AppendUserType DEF TypedStore, InsertUser
  <2> QED  BY <1>0, <2>1, <2>2 DEF TypedStore
<1>6. CASE InsertService(racing)
  <2>1. PICK oid \in Oids \ usedOids :
          /\ usercol' = usercol /\ cliPc' = "loop"
          /\ servcol' = Append(servcol, NewService(oid, userInput)) \/ servcol' = servcol
    BY <1>6 DEF InsertService, Writes, Return
  <2>2. NewService(oid, userInput) \in Servs
    BY <1>6 DEF TypedStore, InsertService, NewService, ServiceDocs
  <2>3. Append(servcol, NewService(oid, userInput)) \in Seq(Servs)
    BY <1>0, <2>2, AppendProperties
  <2> QED  BY <1>0, <2>1, <2>3 DEF TypedStore
<1>7. CASE RemoveUser(racing) \/ RemoveService(racing)
  <2>1. DeleteOne(usercol, userInput) \in Seq(Docs) /\ DeleteOne(servcol, userInput) \in Seq(Servs)
    BY <1>0, DeleteOneType
  <2> QED
    BY <1>0, <1>7, <2>1
    DEF RemoveUser, RemoveService, Writes, ReturnOrExit, Return, TypedStore
<1>8. CASE AddToServices(racing)
  <2>1. userInput \in ServiceNames
    BY <1>8 DEF AddToServices, TypedStore
  <2>2. AddToSetOne(usercol, userOid, userInput) \in Seq(Docs)
    BY <1>0, <2>1, AddToSetOneType
  <2> QED  BY <1>0, <1>8, <2>2 DEF AddToServices, Writes, Return, TypedStore
<1>9. CASE PullFromServices(racing)
  <2>1. PullOne(usercol, userOid, userInput) \in Seq(Docs)
    BY <1>0, PullOneType
  <2> QED  BY <1>0, <1>9, <2>1 DEF PullFromServices, Writes, Return, TypedStore
<1>10. CASE FindUser(racing) \/ List
  BY <1>0, <1>10 DEF FindUser, List, Return, TypedStore
<1> QED
  BY <1>0, <1>1, <1>2, <1>3, <1>4, <1>5, <1>6, <1>7, <1>8, <1>9, <1>10 DEF CliStep

\* The end of the input is final.
LEMMA EofStays ==
  ASSUME stdin = "eof", [Next]_vars
  PROVE  stdin' = "eof"
<1>. DEFINE racing == InNetCall
<1>1. CASE CliRuns
  <2>1. CliStep(racing)
    BY <1>1 DEF CliRuns
  <2> QED
    BY <2>1
    DEF CliStep, CliStays, CliGetsStopper, CliSeesQuit, CliSleeps, CliBlocksInFgets,
        CliReadsCommand, CliReadsAnswer, LineRead, CliReadsEof, InsertUser,
        InsertService, RemoveUser, RemoveService, FindUser, AddToServices,
        PullFromServices, List, CliCrashes, cliVars
<1>2. CASE ~CliRuns
  BY <1>2, MainLeavesData, OthersLeaveData DEF Next, Ended
<1> QED  BY <1>1, <1>2

\* While no stop is under way and the input has not ended, all that is in the
\* collections was typed by the operator as what it is stored as.
THEOREM UntypedAlwaysAtStopOrEof == Spec => []UntypedOnlyAtStopOrEof
<1>1. Init => Typing
  BY TypedInit DEF Typing
<1>2. Control /\ TypeOK /\ Typing /\ [Next]_vars => Typing'
  <2> SUFFICES ASSUME Control, TypeOK, Typing, [Next]_vars PROVE Typing'
    OBVIOUS
  <2>1. CASE StopBegun
    BY <2>1, StopBegunStays DEF Typing
  <2>2. CASE stdin = "eof"
    BY <2>2, EofStays DEF Typing
  <2>3. CASE TypedStore /\ ~StopBegun /\ stdin # "eof"
    <3>1. CASE CliRuns
      BY <2>3, <3>1, CliTyped DEF Typing
    <3>2. CASE ~CliRuns
      <4>1. /\ usercol' = usercol /\ servcol' = servcol /\ userInput' = userInput
            /\ cliPc' = cliPc \/ cliPc' = "loop"
        BY <3>2, MainLeavesData, OthersLeaveData DEF Next, Ended
      <4> QED  BY <2>3, <4>1 DEF Typing, TypedStore
    <3> QED  BY <3>1, <3>2
  <2> QED  BY <2>1, <2>2, <2>3 DEF Typing
<1>3. TypedStore => AllDataTyped
  <2> SUFFICES ASSUME TypedStore PROVE AllDataTyped
    OBVIOUS
  <2>1. \A i \in DOMAIN usercol : usercol[i] \in UserDocs(Oids, Names, ServiceNames)
    BY ElementOfSeq, LenProperties DEF TypedStore
  <2>2. \A i \in DOMAIN servcol : servcol[i] \in ServiceDocs(Oids, ServiceNames)
    BY ElementOfSeq, LenProperties DEF TypedStore
  <2>3. ASSUME NEW i \in DOMAIN usercol, usercol[i].services # NoServices
        PROVE  \A j \in DOMAIN usercol[i].services : usercol[i].services[j] \in ServiceNames
    <3>1. usercol[i].services \in Seq(ServiceNames)
      BY <2>1, <2>3 DEF UserDocs
    <3> QED  BY <3>1, ElementOfSeq, LenProperties
  <2> QED  BY <2>1, <2>2, <2>3 DEF AllDataTyped, UserDocs, ServiceDocs
<1>4. Typing => UntypedOnlyAtStopOrEof
  BY <1>3 DEF Typing, UntypedOnlyAtStopOrEof
<1> QED  BY <1>1, <1>2, <1>4, ControlInvariant, TypeCorrect, PTL DEF Spec
=============================================================================
