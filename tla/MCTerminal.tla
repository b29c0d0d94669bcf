----------------------------- MODULE MCTerminal -----------------------------
(* Small instances of Terminal. *)
EXTENDS Terminal

\* Lines that a buffer of four just holds, and lines longer than two full buffers.
TtyAndPipe ==
  {[source |-> "tty", longest |-> 2], [source |-> "tty", longest |-> 7],
   [source |-> "pipe", longest |-> 7]}
=============================================================================
