SPECIFICATION Spec
CONSTANTS
  Thread = {t1, t2}
  PageUnits = 2
  MaxHeap = 8
  MaxBlock = 3
INVARIANTS TypeOK Disjoint NothingLost Coalesced HeaderKept
