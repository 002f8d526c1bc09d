SPECIFICATION FairTaskSpec
CONSTANTS
  MaxMessages = 3
  MaxCuts = 1
  QueueDepth = 2
  Payload = {1, 2, 3}
  Sectors = 1
  SectorSlots = 2
  CounterMod = 4
  Blank = Blank
  Dirty = Dirty
  Torn = Torn
  BadLen = BadLen
  Garbage = Garbage
  Sent = Sent
  NoEntry = NoEntry
INVARIANTS OrderKept NothingForgotten AcceptedOnce LossesCounted
PROPERTY Drains
