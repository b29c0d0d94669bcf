\* Two requests in a row; the server starts, fails to, stops, or ends at epoll_wait.
SPECIFICATION FairSpec
CONSTANTS
  Faults = {"setup", "epollWait"}
  MaxBacklog = 1
  Requests = {"find", "nofind"}
  MaxCalls = 2
  Breaks = TRUE
INVARIANTS
  PrintsItsOwnAnswer
  SocketsAreClosed
PROPERTY
  AskServerReturns
