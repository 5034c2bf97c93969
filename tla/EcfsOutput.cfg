CONSTANTS
  CoreSize <- MCCoreSize
  MaxThreads <- MCMaxThreads
  FdSizes <- MCFdSizes
  AuxvSizes <- MCAuxvSizes
  SiginfoNote <- MCSiginfoPresent
  LibChoices <- MCLibChoices
SPECIFICATION Spec
INVARIANTS TypeOK OutputLayout
CHECK_DEADLOCK FALSE
