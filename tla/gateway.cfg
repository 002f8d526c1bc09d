SPECIFICATION FairGatewaySpec
CONSTANTS
  MaxMessages = 2
  MaxCuts = 1
  QueueDepth = 1
  Payload = {1, 2}
  Sectors = 1
  SectorSlots = 1
  CounterMod = 3
  Blank = Blank
  Dirty = Dirty
  Torn = Torn
  BadLen = BadLen
  Garbage = Garbage
  Sent = Sent
  NoEntry = NoEntry
INVARIANTS OnlyOutboxForgets
PROPERTY ReachesCloud
