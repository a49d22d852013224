\* Three runs of the script, a server that comes and goes.
CONSTANTS
  MaxRetries = 2
  AgentRetries = 2
  MaxScripts = 3
  MaxFlaps = 5
SPECIFICATION Spec
INVARIANT BootstrapInv
PROPERTIES
  ScriptEnds
  WorkloadsConnect
