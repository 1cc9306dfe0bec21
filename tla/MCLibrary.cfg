CONSTANTS
  Value <- MCValue
  Zero = 0
  Sizes <- MCSizes
  Packet <- MCPacket
  Reply <- MCReply
  Size = 9
  MaxLen = 4
  Chars <- MCChars
  MaxLength = 9
  WordDigits = 3
  INT_MAX = 1023
SPECIFICATION LibrarySpec
INVARIANT PointersAgree
PROPERTY ImplementsFifo
INVARIANT FrameAligned
PROPERTY ImplementsLossyQueue
PROPERTY EveryCallReturns
PROPERTY LargerVictimSuffices
INVARIANT ParsersExact
INVARIANT QuadsAccepted
CHECK_DEADLOCK FALSE
