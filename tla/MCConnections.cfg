SPECIFICATION FairSpec
CONSTANTS
  Conn = {c1, c2, c3}
  Addr = {proxy, alice}
  Trusted = {proxy}
  NoAddr = NoAddr
  proxy = proxy
  alice = alice
  Origins <- MCOrigins
  MaxConnections = 2
  MaxPerClient = 1
  MaxPending = 1
INVARIANTS
  TypeOK
  LeasesCounted
  NoReaderMissed
PROPERTIES
  EveryConnectionEnds
  DropEnds
CHECK_DEADLOCK FALSE
