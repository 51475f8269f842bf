CONSTANTS
  One = 2097152
  Guests = {g1}
  BrowserOf <- OwnBrowser
  Gestures <- Alone
  Patient = FALSE
  MaxTyped = 22
  MaxAnywhere = 3
  MaxErase = 1
  MaxBatches = 0
SPECIFICATION Spec
CHECK_DEADLOCK FALSE
INVARIANTS EditorShowsPiece TagsIncreasing
