CONSTANTS
  LongSize <- MCLongSize
  SizeOf <- MCSizeOf
  NoteChoices <- MCNoteChoices
  MaxNotes <- MCMaxNotes
  Pads <- MCPads
  Beyond <- MCBeyondElfHeader
SPECIFICATION Spec
INVARIANTS TypeOK RegionDecoded
CHECK_DEADLOCK FALSE
