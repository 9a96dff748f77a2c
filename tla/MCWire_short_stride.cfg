SPECIFICATION Spec

CONSTANTS
  U = 128
  W = 512
  Fields = {0, 4, 32}
  Sizes = {32}
  Formats = {"I420"}
  B = 2
  P = 2
  Texts <- MCTexts
  Utf8 <- MCUtf8
  CapsText <- MCCapsText
  Payloads <- MCPayloads
  MaxMetas = 0
  MaxTail = 0

INVARIANTS
  AcceptedNeverPast

CHECK_DEADLOCK FALSE
