CONSTANTS
  LineChoices <- MCLineChoices
  MinLines = 2
  MaxLines = 3
  Modes = {"dumping", "stopped", "running"}
  QInit <- MCQInit
  MaxVer = 2
  ReadFails = {FALSE, TRUE}
SPECIFICATION SSpec
PROPERTIES  TextsOnlyForLibLines
INVARIANTS STypeOK S4LeavesRunning LibTextSelection 
CHECK_DEADLOCK FALSE
