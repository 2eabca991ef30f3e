SPECIFICATION Spec
CONSTANTS
  Issues = {i1}
  Capacity = 1
  MaxAttempts = 2
  MaxStarts = 1
  Archivable = {}
  Reroutable = {i1}
  Overlapped = {}
  None = None
PROPERTY AgentsEnd
PROPERTY ReadyIsTaken
PROPERTY StopIsHeard
CHECK_DEADLOCK FALSE
