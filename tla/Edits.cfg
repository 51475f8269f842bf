CONSTANTS
  One = 32
  Guests = {g1, g2}
  BrowserOf <- OwnBrowser
  Gestures <- All
  Patient = FALSE
  MaxTyped = 2
  MaxAnywhere = 2
  MaxErase = 2
  MaxBatches = 4
SPECIFICATION Spec
SYMMETRY SymmetryOfGuests
CHECK_DEADLOCK FALSE
INVARIANTS Converged Accounted
