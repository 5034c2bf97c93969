CONSTANTS
  Inputs <- MCClassicInputs
INIT Init
NEXT Next
INVARIANTS XTypeOK  DynTagOffsets 
CHECK_DEADLOCK FALSE
