CONSTANTS
  Conns = {1, 2}
  Keepalive = 1
  ReconnectTimeout = 1
  SendTimeout = 1
  QueueCap = 1
  MaxSegment = 1
  DnsSlots = 1
  AddressCached = TRUE
  WifiMayDrop = TRUE
  Resync = FALSE
SPECIFICATION FairSpec
INVARIANT TypeOK
INVARIANT NoLostWakeup
INVARIANT TimerOwned
INVARIANT ConnackExpected
PROPERTY TimerReturns
