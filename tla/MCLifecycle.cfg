\* Threads, signals, connections and the commands on one user and one service.
SPECIFICATION Spec
CONSTANTS
  NoServices = NoServices
  Oids = {"o1", "o2"}
  Names = {"alice"}
  ServiceNames = {"mail"}
  Commands = {"exit", "addservice", "delservice", "adduser", "updateuser", "deluser", "showusers"}
  InitialUsers <- OnlyLeftover
  Requests = {"find", "nofind", "malformed"}
  MaxBacklog = 1
  Faults = {"initDb", "mutex", "spawnCli", "setup", "epoll", "accept", "db"}
INVARIANTS
  StoreIsKeyed
  TypeOK
  NoWorkerQuitsAlone
  HandlesOutliveWorkers
  SignalsReachMain
  UntypedOnlyAtStopOrEof
PROPERTIES
  KeepsLifecycle
