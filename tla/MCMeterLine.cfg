SPECIFICATION Spec
CONSTANTS
  BufSize = 4
  ValueIdxMod = 3
  Keys <- MCKeys
  Texts <- MCTexts
  MaxLines = 2
INVARIANTS
  ParserTypeOK
PROPERTIES
  FrameIsTelegram
  LosesAtMostOne
