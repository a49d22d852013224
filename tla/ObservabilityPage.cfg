\* Two overlapping loads, two visits' sockets, two events, snapshots of one.
CONSTANTS
  Request = {r1, r2}
  FeedSocket = {"a", "b"}
  Visited = {"/observability", "/entries"}
  Limit = 1
  MaxEvents = 2
  MaxRepeats = 1
SPECIFICATION Spec
INVARIANTS
  FeedInv
  AtMostTwice
PROPERTIES
  LeftSocketsDetach
  RefreshRepairs
