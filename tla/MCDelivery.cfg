SPECIFICATION Spec
CONSTANTS
  Calls = {c1, c2}
  Hosts = {"github", "gitlab", "push"}
  MaxTarget = 1
  MaxEdits = 2
  MaxAttempts = 3
  MaxFollowUps = 1
  MaxRequests = 2
  None = None
INVARIANT TypeOK
INVARIANT PublishedIsApproved
INVARIANT PublishStaysPossible
INVARIANT FollowUpsHeard
CONSTRAINT InTime
SYMMETRY Symmetry
CHECK_DEADLOCK FALSE
