\* The operator stops the program at a prompt.
SPECIFICATION Spec
CONSTANTS
  NoServices = NoServices
  Oids = {"o1", "o2"}
  Names = {"alice"}
  ServiceNames = {"mail"}
  Commands = {"adduser"}
  InitialUsers <- OnlyLeftover
  Requests = {"nofind"}
  MaxBacklog = 0
  Faults = {}
INVARIANT StopWritesNothing
