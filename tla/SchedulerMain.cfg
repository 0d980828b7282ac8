SPECIFICATION Spec
CONSTANTS
  Thread = {init, p, a, b}
  InitThread = init
  FirstProcess = p
  Idle = idle
  NoThread = none
  Targets = {}
INVARIANT MainThreadExists
SYMMETRY Symmetric
