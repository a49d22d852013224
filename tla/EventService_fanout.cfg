\* One call, two subscribers, one of which leaves during the broadcast.
CONSTANTS
  boot = boot
  Call = {t1}
  Conn = {c1, c2}
  SeedEvents <- MCSeedEvents
  MaxLogs = 2
SPECIFICATION Spec
INVARIANT BroadcastReachesSubscribers
CHECK_DEADLOCK FALSE
