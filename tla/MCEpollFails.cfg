\* epoll_wait returns -1.
SPECIFICATION Spec
CONSTANTS
  NoServices = NoServices
  Oids = {"o1", "o2"}
  Names = {"alice"}
  ServiceNames = {"mail"}
  Commands = {"help"}
  InitialUsers <- OnlyLeftover
  Requests = {"nofind"}
  MaxBacklog = 1
  Faults = {"epollWait"}
INVARIANT NoWorkerQuitsAlone
