CONSTANTS
  NSeg <- MCNSeg
  MaxPages <- MCMaxPages
  HdrPages <- MCHdrPages
  TextDump <- MCTextDumpFirstPage
SPECIFICATION Spec
INVARIANTS ExactExtent
CHECK_DEADLOCK FALSE
