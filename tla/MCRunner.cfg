SPECIFICATION Safety
CONSTANTS
  Issues = {i1}
  Capacity = 1
  MaxAttempts = 2
  MaxStarts = 2
  Archivable = {i1}
  Reroutable = {}
  Overlapped = {i1}
  None = None
INVARIANT TypeOK
INVARIANT AgentsHaveWholeWorkspace
PROPERTY WorkSurvives
CHECK_DEADLOCK FALSE
