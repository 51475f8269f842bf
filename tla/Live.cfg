CONSTANTS
  Names = {g1, g2}
  Guests = {g1, g2}
  NameOf <- OwnName
  Payloads = {x1, x2}
  Calls = {c1, c2}
  None = None
  Workers = 1
  MaxStarts = 0
  Routes <- Core
  MaxLogins = 1
  MaxHeartbeats = 1
  Impatient = FALSE
  MaxRetries = 0
  MaxRepeated = 0
SPECIFICATION FairSpec

CHECK_DEADLOCK FALSE
PROPERTIES Delivered SendsAgain
