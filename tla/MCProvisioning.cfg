SPECIFICATION SettledSpec
CONSTANTS
  Handlers = {t1, t2}
  Workers = {w1, w2}
  Timeout = 2
  Certificate = TRUE
  Anytime = {"cancel", "delete"}
  MaxCrashes = 1
  NoRow = NoRow
INVARIANTS
  TypeOK
  CompletedInstalled
PROPERTIES
  InstalledOnce
  RequestServed
  WorkersEnd
  WorkersWindDown
