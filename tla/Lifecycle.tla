----------------------------- MODULE Lifecycle -----------------------------
(***************************************************************************)
(* What main() promises about its worker threads and the database handles  *)
(* they use, without the mutex, the signals and the threads' work: handles *)
(* are there before any worker, a worker goes only when a stop has been    *)
(* asked for, and the handles go only when every worker has.               *)
(***************************************************************************)
CONSTANT Workers

VARIABLES
  db,        \* the handles: none, open, destroyed
  spawned,   \* the workers started so far
  gone,      \* those that have ended
  stop,      \* whether the process has been asked to stop
  over       \* no, returned, aborted

vars == <<db, spawned, gone, stop, over>>

Init ==
  /\ db = "none"
  /\ spawned = {}
  /\ gone = {}
  /\ stop = FALSE
  /\ over = "no"

OpenDb == db = "none" /\ db' = "open" /\ UNCHANGED <<spawned, gone, stop, over>>

Spawn(w) ==
  /\ db = "open" /\ w \notin spawned
  /\ spawned' = spawned \cup {w}
  /\ UNCHANGED <<db, gone, stop, over>>

AskToStop == stop' = TRUE /\ UNCHANGED <<db, spawned, gone, over>>

\* A worker that ends has been told to, or tells so itself as it goes.
Leave(w) ==
  /\ w \in spawned \ gone
  /\ gone' = gone \cup {w}
  /\ stop' = TRUE
  /\ UNCHANGED <<db, spawned, over>>

CloseDb ==
  /\ db = "open" /\ stop /\ gone = spawned
  /\ db' = "destroyed"
  /\ UNCHANGED <<spawned, gone, stop, over>>

Return ==
  /\ db = "destroyed"
  /\ over' = "returned"
  /\ UNCHANGED <<db, spawned, gone, stop>>

\* exit(1), a signal's default action, or a crash.
Abort == over' = "aborted" /\ UNCHANGED <<db, spawned, gone, stop>>

Next ==
  /\ over = "no"
  /\ \/ OpenDb \/ AskToStop \/ CloseDb \/ Return \/ Abort
     \/ \E w \in Workers : Spawn(w) \/ Leave(w)

Spec == Init /\ [][Next]_vars
=============================================================================
