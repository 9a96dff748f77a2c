SPECIFICATION Spec

CONSTANTS
  U = 128
  W = 512
  Fields = {0, 3, 32}
  Sizes = {0, 6, 36}
  Formats = {"BGR", "I420", "NV12", "BGRA", "other"}
  B = 2
  P = 2
  Texts <- MCTexts
  Utf8 <- MCUtf8
  CapsText <- MCCapsText
  Payloads <- MCPayloads
  MaxMetas = 3
  MaxTail = 12

INVARIANTS
  ReadsInside
  PublishedAccepted
  ViewNeverRefused
  ContiguousViewable
  RoundTrip
  BestEffort

CHECK_DEADLOCK FALSE
