CONSTANTS
  num_sockets_hw = 2
  Sockets <- MCSockets
  DefaultSocket <- MCDefault
  MaxCalls = 4
  TableSize = 4
  num_entries = 3
  WordEntries = 2
  Peers = {"p", "q"}
  Nobody = Nobody
  MaxLearned = 3
  Interfaces <- MCInterfaces
  ip_address <- MCAddresses
  None = None
  MaxFlips = 5
SPECIFICATION FairSpec
INVARIANTS
  NoTornSocket
  StableRowsExact
  AddressesDistinct
  LookupAgreesWithScanner
  RowFits
PROPERTIES
  ExamplesReturn
CHECK_DEADLOCK FALSE
