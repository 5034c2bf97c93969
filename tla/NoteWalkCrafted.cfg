CONSTANTS
  LongSize <- MCLongSize
  SizeOf <- MCSizeOf
  NoteChoices <- MCNoteChoices
  MaxNotes <- MCMaxNotes
  Pads <- MCPads
  Beyond <- MCBeyondCrafted
SPECIFICATION Spec
INVARIANTS RegionDecoded
CHECK_DEADLOCK FALSE
