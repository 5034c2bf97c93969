CONSTANTS
  Inputs <- MCSeparateInputs
INIT Init
NEXT Next
INVARIANT XrefOffsets
CHECK_DEADLOCK FALSE
