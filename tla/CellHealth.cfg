SPECIFICATION CFairSpec
CONSTANTS
  Interval = 1
  Delay = 1
  MaxAge = 1
  CellNetwork = TRUE
  Conns = {1, 2}
  Dests = {"a:1", "b:2"}
  MaxTracked = 1
  ErrCapacity = 2
  MaxChunks = 1
INVARIANT CountsAgree
PROPERTIES BrokenCellReaped ReapedByAgeOnlyLate
