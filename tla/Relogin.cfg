CONSTANTS
  Pages = {p, q}
  Names = {Empty, n1, n2}
  Empty = Empty
  MaxTyped = 2
  MaxLogOuts = 1
  MaxRetries = 1
  MaxStarts = 1
  MaxEvents = 3
SPECIFICATION Spec
SYMMETRY Symmetry
CHECK_DEADLOCK FALSE
INVARIANTS NothingLost OneFlag NoGap  EchoExplained
