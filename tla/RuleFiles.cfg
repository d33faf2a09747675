SPECIFICATION FilesFairSpec
CONSTANTS
  Backups = 2
  MaxChanges = 3
  MaxSaves = 3
INVARIANTS CacheTruthful NothingLost LastSaveKept
PROPERTIES ChangesSaved
CHECK_DEADLOCK FALSE
