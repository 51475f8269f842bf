CONSTANTS
  Names = {g1, n}
  Guests = {g1, g2, g3}
  NameOf <- SharedName
  Payloads = {x1, x2}
  Calls = {c1, c2, c3}
  None = None
  Workers = 1
  MaxStarts = 0
  Routes <- Core
  MaxLogins = 1
  MaxHeartbeats = 2
  Impatient = FALSE
  MaxRetries = 0
  MaxRepeated = 0
SPECIFICATION Spec
SYMMETRY SymmetryOfSharers
CHECK_DEADLOCK FALSE
INVARIANTS GuestNameOnce PositionsDense AttachedOnce NoGap SentinelsOnce
PROPERTIES LogAppendOnly ImplementsSharedLog
