CONSTANTS
  Conns = {1, 2}
  Keepalive = 1
  ReconnectTimeout = 1
  SendTimeout = 1
  QueueCap = 1
  MaxSegment = 1
  DnsSlots = 1
  AddressCached = FALSE
  WifiMayDrop = TRUE
  Resync = TRUE
SPECIFICATION Spec
INVARIANT OldConnectionReleased
