SPECIFICATION Spec
CONSTANTS
  Calls = {c1, c2}
  Broken = {}
  MaxCommits = 1
  MaxStarts = 2
  MaxEvents = 3
  None = None
INVARIANT TypeOK
INVARIANT OneRunner
INVARIANT IssueKeepsProject
PROPERTY BoundToNewest
PROPERTY NothingWhileDisabled
PROPERTY StopEnds
PROPERTY ProjectRecovers
CHECK_DEADLOCK FALSE
