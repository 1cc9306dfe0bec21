CONSTANTS
  Conns = {1, 2}
  Keepalive = 1
  ReconnectTimeout = 1
  SendTimeout = 1
  QueueCap = 1
  MaxSegment = 2
  DnsSlots = 2
  AddressCached = FALSE
  WifiMayDrop = TRUE
  Resync = TRUE
SPECIFICATION TidyFairSpec
INVARIANT DataAfterConnack
INVARIANT OneConnection
PROPERTY SilenceEnds
