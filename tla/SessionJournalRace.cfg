SPECIFICATION Spec
CONSTANTS
  Owners = {o1}
  MaxTurns = 2
  MaxRecords = 6
  MaxEdits = 2
  NoState = NoState
  MaxJournals = 1
PROPERTY CheckpointSavesCommand
CHECK_DEADLOCK FALSE
