\* Decisions: two submissions under two ids, no clock.
SPECIFICATION Spec
CONSTANTS
  r1 = r1
  r2 = r2
  r3 = r3
  a1 = a1
  a2 = a2
  sharma = sharma
  patel = patel
  kumar = kumar
  reddy = reddy
  Request = {r1, r2}
  Advisory = {a1, a2}
  Controller <- MCController
  Role <- MCRole
  Nobody = Nobody
  None = None
  Timeout <- NoTimeout
  AuditCap = 2
  MaxTime = 0
SYMMETRY Symmetry
INVARIANTS
  ReleaseNeedsApproval
  BooksAgree
PROPERTIES
  ImplementsContract
CHECK_DEADLOCK FALSE
