\* One load, two events, a socket that stays open.
CONSTANTS
  Request = {r1}
  FeedSocket = {"a"}
  Visited = {"/observability", "/entries"}
  Limit = 2
  MaxEvents = 2
  MaxRepeats = 1
SPECIFICATION Spec
PROPERTY LiveFeedIsComplete
