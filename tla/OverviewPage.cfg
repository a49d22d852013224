\* Two overlapping loads, visits that come and go, two changes of the world.
CONSTANTS
  Load = {l1, l2}
  Count = {0, 1}
  Clicked = {"oidc"}
  MaxChanges = 2
SPECIFICATION Spec
INVARIANT OverviewInv
PROPERTY OverviewConverges
