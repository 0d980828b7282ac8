CONSTANTS
  Thread = {t1, t2}
  Main = t1
  Table = {p1, p2}
  Desc = {d1, d2}
  None = None
  Fd <- FdTwo
  MaxEntries = 4
  MaxForked = 3
SPECIFICATION Spec
SYMMETRY Symmetry
INVARIANTS TypeOK RefsExact UsesLive
CHECK_DEADLOCK FALSE
