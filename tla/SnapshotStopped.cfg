CONSTANTS
  LineChoices <- MCLineChoices
  MinLines = 2
  MaxLines = 3
  Modes = {"stopped"}
  QInit <- MCQInit
  MaxVer = 2
  ReadFails = {FALSE}
SPECIFICATION SSpec
INVARIANT ImagesFromSnapshot
CHECK_DEADLOCK FALSE
