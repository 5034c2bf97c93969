CONSTANTS
  NSeg <- MCNSeg
  MaxPages <- MCMaxPages
  HdrPages <- MCHdrPages
  TextDump <- MCTextDumpFirstPage
SPECIFICATION Spec
INVARIANTS TypeOK SegmentsIntact AllTextsMerged
PROPERTIES  AbsSpec
CHECK_DEADLOCK FALSE
