SPECIFICATION FreshSpec
CONSTANTS
  A = A
  B = B
  Macs = {A, B}
  NoMac = NoMac
  Special = {}
  Listeners = {eth0}
  Writers = {w}
  IPs <- MCIPs
  Pool <- Narrow
  RecordLease = 1
  ClientLease = 1
  Flags = {FALSE, TRUE}
  Seeds <- MCSeeds
  HostMacs = {A}
  MaxTime = 1
  MaxEdits = 1
  MaxId = 2
INVARIANTS
  TypeOK
  RecordedExclusive
  OfferAccepted
  RenewalGranted
PROPERTIES
  
  LeaseServiceSpec
