\* pthread_create of the network thread fails.
SPECIFICATION Spec
CONSTANTS
  NoServices = NoServices
  Oids = {"o1", "o2"}
  Names = {"alice"}
  ServiceNames = {"mail"}
  Commands = {"adduser"}
  InitialUsers <- OnlyLeftover
  Requests = {"nofind"}
  MaxBacklog = 0
  Faults = {"spawnNet"}
INVARIANT HandlesOutliveWorkers
