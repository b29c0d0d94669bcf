\* A peer connects and says nothing.
SPECIFICATION SilentPeerSpec
CONSTANTS
  NoServices = NoServices
  Oids = {"o1", "o2"}
  Names = {"alice"}
  ServiceNames = {"mail"}
  Commands = {"help"}
  InitialUsers <- OnlyLeftover
  Requests = {"nofind"}
  MaxBacklog = 1
  Faults = {}
PROPERTY ShutdownCompletes
