SPECIFICATION Spec
CONSTANTS
  Runners = {r1, r2}
  MaxAttempts = 2
  LeaseTicks = 5
  Interval = 2
  Timeout = 1
  PrepTicks = 6
  StopTicks = 1
INVARIANT TypeOK
INVARIANT LostClaimIsNoticed
INVARIANT RenewedLeaseHolds
SYMMETRY Symmetry
