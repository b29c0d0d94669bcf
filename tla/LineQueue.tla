------------------------------ MODULE LineQueue ------------------------------
(***************************************************************************)
(* What the operator is promised: the lines he enters are answered one     *)
(* after the other, each whole, each in the end.                           *)
(***************************************************************************)
EXTENDS SequencesExt

VARIABLES
  queue,      \* lines entered and not yet taken
  out         \* lines taken, in order

vars == <<queue, out>>

Init == queue = <<>> /\ out = <<>>

\* Any line may be entered at any time.
Enter == queue' # <<>> /\ Front(queue') = queue /\ UNCHANGED out

Take ==
  /\ queue # <<>>
  /\ out' = Append(out, Head(queue))
  /\ queue' = Tail(queue)

Next == Enter \/ Take

Order == Init /\ [][Next]_vars

Spec == Order /\ WF_vars(Take)
=============================================================================
