CONSTANTS
  n1 = n1
  n2 = n2
  n3 = n3
  n4 = n4
  Expected = Expected
  Outdated = Outdated
  Node <- Network
  Group <- Members
  Faults <- AnyFault
  CallBy = 3
  MaxClock = 7
SYMMETRY Symmetry
SPECIFICATION Spec
INVARIANTS OncePerHash ReceiptComplete AllOrNone
CHECK_DEADLOCK FALSE
