CONSTANTS
  Thread = {t1, t2}
  Name = {"a", "b", "c"}
  Id = {n1, n2}
  Root = Root
  None = None
  Call <- MCCalls
  LinkPath <- MCLinkPath
  MaxRest = 0
  MaxRaced = 1
SPECIFICATION Spec
INVARIANT ReadsStoredNode
CHECK_DEADLOCK FALSE
