CONSTANTS
  Names = {g1, g2}
  Guests = {g1, g2}
  NameOf <- OwnName
  Payloads = {x1, x2}
  Calls = {c1, c2}
  None = None
  Workers = 2
  MaxStarts = 0
  Routes <- Core
  MaxLogins = 1
  MaxHeartbeats = 1
  Impatient = TRUE
  MaxRetries = 1
  MaxRepeated = 1
SPECIFICATION Spec
SYMMETRY SymmetryWithGuests
CHECK_DEADLOCK FALSE
INVARIANTS TypeOK NoServerError PositionInRange AuthorshipRecorded OwnIdsLogged OneSendOrStuck
