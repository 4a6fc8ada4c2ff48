\* Escalation: one id, one submission, a clock that outlasts three levels.
SPECIFICATION FairSpec
CONSTANTS
  r1 = r1
  r2 = r2
  r3 = r3
  a1 = a1
  a2 = a2
  sharma = sharma
  patel = patel
  kumar = kumar
  reddy = reddy
  Request = {r1}
  Advisory = {a1}
  Controller <- MCController
  Role <- MCRole
  Nobody = Nobody
  None = None
  Timeout <- MCTimeout
  AuditCap = 1
  MaxTime = 8
PROPERTIES
  EscalatedOrDecided
CHECK_DEADLOCK FALSE
