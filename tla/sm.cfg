SPECIFICATION FairSpec
CONSTANTS
  QueueDepth = 10
INVARIANTS OnlineTruthful NoEventDropped
PROPERTIES FallBackJustified ImplementsClientLife LossNoticed WifiFound BrokerOutageHeals
