SPECIFICATION Spec
CONSTANTS
  Node = {n1, n2, n3}
  Detacher = {d1, d2}
  Head = head
  None = none
  Boot = {}
  Driver = "HTTPDisk"
CHECK_DEADLOCK FALSE
SYMMETRY Symmetry
INVARIANTS
  MembersReferenced
  DetachesTheUnit
PROPERTIES
  ImplementsTable
