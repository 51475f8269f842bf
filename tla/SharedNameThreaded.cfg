CONSTANTS
  Names = {n}
  Guests = {g1, g2}
  NameOf <- SharedName
  Payloads = {x1}
  Calls = {c1, c2, c3}
  None = None
  Workers = 2
  MaxStarts = 0
  Routes <- Core
  MaxLogins = 1
  MaxHeartbeats = 1
  Impatient = FALSE
  MaxRetries = 0
  MaxRepeated = 0
SPECIFICATION Spec
SYMMETRY SymmetryOfSharers
CHECK_DEADLOCK FALSE
INVARIANTS GuestNameOnce
