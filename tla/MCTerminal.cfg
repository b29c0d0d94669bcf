\* A terminal and a pipe; lines that fit the buffer, and longer ones.
SPECIFICATION Spec
CONSTANTS
  Inputs <- TtyAndPipe
  BufSize = 4
  ReadSize = 4
  MaxLines = 4
INVARIANT
  OnlyFullBuffersLoseText
PROPERTY
  KeepsLineQueue
