SPECIFICATION Spec
CONSTANTS
  Owners = {o1, o2}
  MaxTurns = 2
  MaxRecords = 6
  MaxEdits = 2
  NoState = NoState
  Agents = {a1, a2}
  Blocks = 2
  MaxChanges = 2
  Sessions = {s1, s2}
  MaxItems = 2
  MaxId = 4
  MaxAdds = 4
  MaxLoads = 3
  Bytes = {"ESC", "[", "O", "A", "p", "q", "<", "M", "CR", "LF", "INT", "lead", "tail"}
  MaxPaste = 2
  MaxEscape = 4
  MaxBytes = 4
  MaxEntries = 2
  Texts = {0, 1}
  Seed = 0
  Training = {"t"}
  Validation = {"v", "w"}
  Sample = 3
  MaxCalls = 12
  MaxCandidates = 4
  MaxUncounted = 1
SYMMETRY Symmetry
INVARIANT TypesOK
INVARIANT PublishedSurvives
INVARIANT CheckpointsKept
INVARIANT TurnStaysPrivate
INVARIANT IdleMemoryIsDurable
PROPERTY EditsAreInformed
INVARIANT MemoryHonest
INVARIANT CutsDoNotMatter
INVARIANT GivenBack
INVARIANT SearchHonest
CHECK_DEADLOCK FALSE
