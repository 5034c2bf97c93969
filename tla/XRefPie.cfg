CONSTANTS
  Inputs <- MCPieInputs
INIT Init
NEXT Next
INVARIANT InterpOffset
CHECK_DEADLOCK FALSE
