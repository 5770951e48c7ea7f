CONSTANTS
  NULL = NULL
  NumericLimit = 256
  kSoupNumericLen = 3
  kMaxInboundSoupPacket = 512
  kMaxSoupPacket = 256
  ClientPacket = 128
  Messages <- MCMessages
  Payloads <- MCPayloads
  Frames <- MCFrames
  MbufRooms = {96, 2048}
  Pads = {0, 5}
  Seeds = {0, 211}
  MaxForeign = 6
  Alphabet = {0, 2, 3, 28}
SPECIFICATION Spec
INVARIANTS RoundTrip DecodesWellFormed
PROPERTY DecodingEnds
CHECK_DEADLOCK FALSE
