SPECIFICATION Spec
CONSTANTS
  Macs = {A, B}
  Codes = {51, 6}
  Pool = 1
  Other = 2
  MaxOptions = 2
  MaxClass = 1
  MaxHost = 2
SYMMETRY Clients
INVARIANTS
  OptionsMeantForHost
