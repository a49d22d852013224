\* Two overlapping calls, two tokens, two quick copies; the form is edited.
CONSTANTS
  Request = {r1, r2}
  Agent = {a1}
  Demo = {d1}
  Node = {"node", "bare"}
  NoScheme = {"bare"}
  TypedNode = {"", "bare"}
  TypedTtl = {0, 59}
  InitialNode = "node"
  MaxTokens = 2
  MaxTimers = 2
SPECIFICATION Spec
INVARIANT AgentsInv
PROPERTIES
  ShownTokenStays
  FlagsClear
