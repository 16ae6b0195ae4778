SPECIFICATION Spec
CONSTANTS
  Handlers = {t1, t2}
  Workers = {w1, w2}
  Timeout = 2
  Certificate = TRUE
  Anytime = {}
  MaxCrashes = 1
  NoRow = NoRow
PROPERTIES
  InstalledOnce
