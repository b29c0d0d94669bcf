\* Requests of careful and of careless senders, whole and cut anywhere.
SPECIFICATION Spec
CONSTANTS
  NULL = NULL
  Words <- SomeWords
  GetWords <- GetLike
  PostWords <- PostLike
  Number <- Lengths
  Targets = {"/token", "/validate", "other"}
  ParamValues = {"bob", "&"}
  HeaderValues <- SomeValues
  Bodies <- SomeBodies
  Senders <- AllSenders
  Data <- People
  SignHead <- SomeHeads
  SignEnd <- SomeEnds
  Leftovers <- Earlier
  Documents <- Sizes
INVARIANTS
  ParsesWhatWasSent
  OnlyTheBodyIsCut
  OnlyMalformedRunOff
  ReachesItsHandler
  AcceptsOnlyTheSignature
  AnswersWhatWasAsked
  AnswerHasItsBody
  WholeAnswerIsWritten
