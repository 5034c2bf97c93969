CONSTANTS
  NSeg <- MCNSeg
  MaxPages <- MCMaxPages
  HdrPages <- MCHdrPages
  TextDump <- MCTextDumpAll
SPECIFICATION Spec
INVARIANTS SegmentsIntact
CHECK_DEADLOCK FALSE
