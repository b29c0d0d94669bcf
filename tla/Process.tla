------------------------------ MODULE Process ------------------------------
(***************************************************************************)
(* What the threads of the AuthenticationService process share: the mutex  *)
(* `stopper` through which main tells the workers to quit, the signals     *)
(* main waits for, the database handles in ThreadData_s, and the life of   *)
(* the process itself.                                                     *)
(***************************************************************************)
EXTENDS FiniteSets

CONSTANT Faults       \* the calls of the platform that may fail in a run

FaultKinds == {"initDb", "mutex", "spawnCli", "spawnNet", "setup", "epoll",
               "epollWait", "accept", "db"}

ASSUME FaultsAssumption == Faults \subseteq FaultKinds

VARIABLES
  proc,       \* how the process stands: running, or how it ended
  masked,     \* whether main has blocked the signals (inherited by threads)
  pending,    \* blocked signals delivered and not yet consumed by sigwait
  stopper,    \* the owner of the mutex threadData.stopper
  handles     \* the mongoc handles: none, open, destroyed

processVars == <<proc, masked, pending, stopper, handles>>

\* INT stands for SIGINT, SIGQUIT, SIGTERM and SIGCHLD, USR1 for SIGUSR1.
Signals == {"INT", "USR1"}

Owners == {"free", "main", "cli", "net"}

ProcessTypeOK ==
  /\ proc \in {"running", "returned", "exited", "signalled", "sigpipe", "crashed"}
  /\ masked \in BOOLEAN
  /\ pending \subseteq Signals
  /\ stopper \in Owners
  /\ handles \in {"none", "open", "destroyed"}

ProcessInit ==
  /\ proc = "running"
  /\ masked = FALSE
  /\ pending = {}
  /\ stopper = "free"
  /\ handles = "none"

Running == proc = "running"

\* Variant: the worker sends a signal main does not wait for.
RaiseAnother(signal) ==
  pending' = pending \cup {"USR2"} /\ UNCHANGED proc

\* kill(mainPid, signal): pending when blocked, else the default action,
\* which ends the process.
Raise(signal) ==
  IF masked
    THEN pending' = pending \cup {signal} /\ UNCHANGED proc
    ELSE proc' = "signalled" /\ UNCHANGED pending

\* pthread_mutex_trylock of NeedQuit: EBUSY while anyone holds the mutex.
Busy == stopper # "free"

TryLock(thread) == ~Busy /\ stopper' = thread

Unlock == stopper' = "free"

\* The client is shared by both workers without a lock: a call that runs
\* beside another one, or after DestroyDb, may fail or crash.
CallMayFail(racing) == "db" \in Faults \/ racing \/ handles # "open"

CallMayCrash(racing) == racing \/ handles # "open"
=============================================================================
