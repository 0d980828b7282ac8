SPECIFICATION Spec
CONSTANTS
  Thread = {init, p, a}
  InitThread = init
  FirstProcess = p
  Idle = idle
  NoThread = none
  Targets = {a}
PROPERTY ExitEnds
