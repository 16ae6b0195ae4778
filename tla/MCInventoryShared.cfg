SPECIFICATION NamedSpec
CONSTANTS
  PoolIds = {1, 2}
  ImageIds = {1, 2}
  GroupIds = {1}
  HostIds = {1}
  Names = {n1, n2}
  NoName = NoName
  Requests = {r1}
SYMMETRY Symmetry
PROPERTIES
  UsedFilesKept
