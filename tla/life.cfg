SPECIFICATION FairSpec
CONSTANT MaxStarts = 3
INVARIANTS OneCacheTask NothingLeftLocked
PROPERTIES StopEnds
CHECK_DEADLOCK FALSE
