CONSTANTS
  Thread = {t1, t2}
  Name = {"a", "b", "c"}
  Id = {n1, n2}
  Root = Root
  None = None
  Call <- MCCalls
  LinkPath <- MCLinkPath
  MaxRest = 0
  MaxRaced = 2
SPECIFICATION Spec
INVARIANTS TypeOK RefCountExact HeldNodeAlive LinkCountExact
PROPERTIES ImplementsNames CallReturns
CHECK_DEADLOCK FALSE
