\* Two users may share a name; one service comes and goes.
SPECIFICATION Spec
CONSTANTS
  NoServices = NoServices
  NoName = NoName
  Oids = {"o1", "o2"}
  Names = {"alice", "bob"}
  ServiceNames = {"mail"}
  CursorFails = TRUE
  MaxIssued = 2
  Foreign <- AllStrays
INVARIANTS
  TypeOK
  AcceptedWasIssued
  DeletedIsRefused
  IssuedToExisting
PROPERTIES
  DecidesAtOneInstant
  AddingKeepsTokens
  FirstTokenNeverReturns
