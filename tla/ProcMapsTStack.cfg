CONSTANTS
  LineChoices <- MCLineChoices
  MinLines = 2
  MaxLines = 3
  Modes = {"dumping"}
  QInit <- MCQInit
SPECIFICATION Spec
INVARIANT ThreadStacksRecorded
CHECK_DEADLOCK FALSE
