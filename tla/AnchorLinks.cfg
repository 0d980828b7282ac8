SPECIFICATION Spec
CONSTANTS
  Elem = {e1, e2, e3, e4}
  Null = null
INVARIANTS TypeOK Mirrored WalkMeetsAll
PROPERTIES ImplementsList
