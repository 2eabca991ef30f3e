SPECIFICATION Spec
CONSTANTS
  Calls = {c1, c2}
  Hosts = {"github", "gitlab", "push"}
  MaxTarget = 1
  MaxEdits = 2
  MaxAttempts = 2
  MaxFollowUps = 1
  MaxRequests = 1
  None = None
INVARIANT IntegratedMayBeApproved
SYMMETRY Symmetry
CHECK_DEADLOCK FALSE
