SPECIFICATION OrderlySpec
CONSTANTS
  PoolIds = {1}
  ImageIds = {1, 2}
  GroupIds = {1, 2}
  HostIds = {1}
  Names = {n1, n2}
  NoName = NoName
  Requests = {r1, r2}
SYMMETRY Symmetry
INVARIANTS
  TypeOK
  RefsResolve
  RacesSurvived
PROPERTIES
  UsedFilesKept
  ListedComplete
