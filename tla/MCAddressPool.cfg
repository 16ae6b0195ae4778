SPECIFICATION Spec
CONSTANTS
  Macs = {A}
  NoMac = NoMac
  Special <- MCSpecial
  Configured <- MCPools
  Tables <- MCTables
  Now = 1
INVARIANTS
  NextIsLeastFree
CHECK_DEADLOCK FALSE
