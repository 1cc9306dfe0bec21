CONSTANTS
  Conns = {1, 2}
  Keepalive = 1
  ReconnectTimeout = 1
  SendTimeout = 1
  QueueCap = 2
  MaxSegment = 1
  DnsSlots = 1
  AddressCached = FALSE
  WifiMayDrop = FALSE
  Resync = FALSE
SPECIFICATION FairSpec
INVARIANT NoFault
PROPERTY ReconnectHappens
 
PROPERTY SubscribeLeaves
