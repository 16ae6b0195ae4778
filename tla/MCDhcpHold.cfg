SPECIFICATION Spec
CONSTANTS
  A = A
  B = B
  Macs = {A, B}
  NoMac = NoMac
  Special = {}
  Listeners = {eth0}
  Writers = {}
  IPs <- MCIPs
  Pool <- Wide
  RecordLease = 1
  ClientLease = 1
  Flags = {FALSE, TRUE}
  Seeds <- MCSeeds
  HostMacs = {A}
  MaxTime = 2
  MaxEdits = 0
  MaxId = 2
INVARIANTS
  NoDoubleHold
