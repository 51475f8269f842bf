CONSTANTS
  One = 64
  Guests = {g1, g2}
  BrowserOf <- OwnBrowser
  Gestures <- Insertions
  Patient = TRUE
  MaxTyped = 4
  MaxAnywhere = 4
  MaxErase = 0
  MaxBatches = 4
SPECIFICATION Spec
SYMMETRY SymmetryOfGuests
CHECK_DEADLOCK FALSE
INVARIANTS TypeOK EditorShowsPiece Converged SharesKept
