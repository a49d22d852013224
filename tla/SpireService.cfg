\* Two concurrent requests, handlers scheduled fairly.
CONSTANTS
  entry1 = entry1
  backendApi = backendApi
  Fabricated = Fabricated
  Req = {r1, r2}
  Identity = {backendApi, i1}
  Initial <- MCInitial
SPECIFICATION FairSpec
INVARIANTS
  SpireInv
  SuccessIsReal
  OneAuditPerCommand
PROPERTY EveryRequestAnswered
CHECK_DEADLOCK FALSE
