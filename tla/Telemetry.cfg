\* One HTTP handler beside the loop, three changes of the environment.
CONSTANTS
  Handler = {h1}
  Loop = Loop
  Size = {1, 3}
  MaxChanges = 3
  MaxTTL = 7
  Tick = 1
  Threshold = 6
SPECIFICATION Spec
INVARIANT TelemetryInv
PROPERTIES
  GaugesConverge
  LoopKeepsPolling
