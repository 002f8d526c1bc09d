SPECIFICATION WrappedSpec
CONSTANTS
  p1 = p1
  Payload = {p1}
  Sectors = 3
  SectorSlots = 2
  CounterMod = 8
  Blank = Blank
  Dirty = Dirty
  Torn = Torn
  BadLen = BadLen
  Garbage = Garbage
  Sent = Sent
  NoEntry = NoEntry
INVARIANTS PendingReachable
