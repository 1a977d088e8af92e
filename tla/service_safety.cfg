SPECIFICATION Spec
CONSTANTS
  Tasks = {bot, mini}
  None = None
  Other = Other
  Levels = {0, 3}
  MaxLinks = 2
  MaxDays = 1
  MaxStarts = 2
  MaxScans = 1
  MaxTrouble = 1
SYMMETRY Handlers
INVARIANTS TypeOK RowFollowsPanel FlagsTold
CHECK_DEADLOCK FALSE
