CONSTANTS
  One = 32
  Guests = {g1, g2}
  BrowserOf <- OneBrowser
  Gestures <- All
  Patient = FALSE
  MaxTyped = 2
  MaxAnywhere = 2
  MaxErase = 1
  MaxBatches = 4
SPECIFICATION Spec
SYMMETRY SymmetryOfGuests
CHECK_DEADLOCK FALSE
INVARIANTS EditorNotAhead Converged Accounted
