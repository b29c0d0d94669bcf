\* Keys, texts, parts and inputs around the limits of blocks and groups.
SPECIFICATION MCSpec
CONSTANTS
  Keys = {0, 32, 63, 64, 65, 130}
  Texts = {0, 20, 55, 56, 63, 64, 137}
  Lengths = {0, 1, 8, 55, 64}
  MaxLen = 129
  Inputs <- UpToSix
  Tails <- NoTailOrLineEnds
INVARIANTS
  ReturnsTheHmac
  HashesThePaddedMessage
  WritesWithinTheBlock
  RoundTrip
  StaysWithinItsBuffers
  EncodesAsRFC4648
