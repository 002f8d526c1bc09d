SPECIFICATION SmoothSpec
CONSTANTS
  QueueDepth = 10
PROPERTIES OutageHeals
