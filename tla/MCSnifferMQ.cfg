\* With no more packets to come the dispatcher waits in recvfrom.
CHECK_DEADLOCK FALSE
SPECIFICATION FairSpec
CONSTANTS
  Options <- MCOptions
  MaxQ = 3
  MaxPackets = 3
  MaxErrors = 1
INVARIANTS
  SlotIsDispatchers
  ReportAddsUp
  TrapsOnlyOnMisuse
PROPERTIES
  ImplementsPacketQueues
  QueuedIsProcessed
