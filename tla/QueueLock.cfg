SPECIFICATION Spec
CONSTANTS
  Thread = {a, b, c, d}
  Other = other
  Initial = 1
  MaxPermits = 2
INVARIANTS TypeOK PermitsConserved NoLostWakeup NoIdlePermit
PROPERTIES ImplementsSemaphore WaiterServed
