CONSTANTS
  Names = {g1, g2}
  Guests = {g1, g2}
  NameOf <- OwnName
  Payloads = {x1, x2}
  Calls = {c1, c2, c3}
  None = None
  Workers = 1
  MaxStarts = 0
  Routes <- All
  MaxLogins = 1
  MaxHeartbeats = 1
  Impatient = FALSE
  MaxRetries = 0
  MaxRepeated = 0
SPECIFICATION Spec

CHECK_DEADLOCK FALSE
INVARIANTS LogoutForgets
