\* Two overlapping calls, one entry and one demo entry, a form that goes wrong.
CONSTANTS
  Request = {r1, r2}
  Id = {"i1"}
  Name = {"worker"}
  NoScheme = {}
  Selector = {"label"}
  TypedName = {"worker"}
  TypedSelector = {"label"}
  TypedTtl = {59}
  Search = {"", "w"}
  Contains <- MCContains
  Demo <- MCDemo
  InitialForm <- MCForm
  MaxSelectors = 1
SPECIFICATION Spec
INVARIANT EntriesInv
PROPERTIES
  LoadsMoveForward
  ReloadShowsCreated
  BusyEnds
