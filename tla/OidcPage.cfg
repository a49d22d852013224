\* Two overlapping runs, two quick copies.
CONSTANTS
  Load = {l1, l2}
  Kid = {"k1"}
  MaxRuns = 2
  MaxTimers = 2
SPECIFICATION Spec
INVARIANTS
  OidcInv
  DocumentsFromOneRun
PROPERTIES
  DocumentsStay
  FlagsClear
