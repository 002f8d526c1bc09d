SPECIFICATION Spec
CONSTANTS
  p1 = p1
  p2 = p2
  Payload = {p1, p2}
  Sectors = 2
  SectorSlots = 2
  CounterMod = 4
  Blank = Blank
  Dirty = Dirty
  Torn = Torn
  BadLen = BadLen
  Garbage = Garbage
  Sent = Sent
  NoEntry = NoEntry
SYMMETRY PayloadSymmetry
INVARIANTS CountBounded NoResend ReachableWhileOrderly
PROPERTY ImplementsStore
