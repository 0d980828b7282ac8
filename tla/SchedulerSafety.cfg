SPECIFICATION Spec
CONSTANTS
  Thread = {init, p, a, b}
  InitThread = init
  FirstProcess = p
  Idle = idle
  NoThread = none
  Targets = {}
INVARIANTS TypeOK SingleOwner NoDanglingThread NoOrphan
PROPERTIES DeletedAfterExit
SYMMETRY Symmetric
