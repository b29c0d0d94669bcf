\* A validation as the test client sends it, read whole.
SPECIFICATION Spec
CONSTANTS
  NULL = NULL
  Words <- SomeWords
  GetWords <- GetLike
  PostWords <- PostLike
  Number <- Lengths
  Targets = {"/validate"}
  ParamValues = {}
  HeaderValues = {}
  Bodies <- SomeBodies
  Senders <- TestClient
  Data <- People
  SignHead <- SomeHeads
  SignEnd <- SomeEnds
  Leftovers <- Earlier
  Documents <- Sizes
INVARIANT ValidTokenIsAnswered
