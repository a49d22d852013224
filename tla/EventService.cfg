\* Two subscribers and two concurrent calls, every behaviour fair.
CONSTANTS
  boot = boot
  Call = {t1, t2}
  Conn = {c1, c2}
  SeedEvents <- MCSeedEvents
  MaxLogs = 2
SPECIFICATION FairSpec
INVARIANTS
  TypeOK
  QuietEventsCounted
  QuietDelivery
  InOrder
PROPERTIES
  CallsTerminate
  GoneClientsLeave
  ImplementsAuditTrail
  ImplementsAuditStream
CHECK_DEADLOCK FALSE
