\* Termination and the end of every connection, with cooperative peers.
SPECIFICATION CooperativeSpec
CONSTANTS
  NoServices = NoServices
  Oids = {"o1", "o2"}
  Names = {"alice"}
  ServiceNames = {"mail"}
  Commands = {"exit", "adduser"}
  InitialUsers <- OnlyLeftover
  Requests = {"find", "malformed"}
  MaxBacklog = 1
  Faults = {"setup", "spawnCli", "spawnNet", "epollWait", "db"}
PROPERTIES
  ShutdownCompletes
  ConnectionIsClosed
