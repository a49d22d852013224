\* Two runs, two calls of the page at once, the policy form edited.
CONSTANTS
  Request = {r1, r2}
  MaxRuns = 2
  TypedCandidate = {"other"}
  TypedRequired = {"worker "}
  Text <- MCText
  Strip <- MCStrip
  Initial = "worker"
SPECIFICATION Spec
INVARIANTS
  PlaygroundInv
  ShownIsOnRecord
  VerdictNamesItsIds
PROPERTIES
  ResultsMoveForward
  BusyEnds
