\* When no more packets come, the threads in recvfrom do stop.
CHECK_DEADLOCK FALSE
SPECIFICATION FairSpec
CONSTANTS
  Options <- MCOptions
  Packets <- MCPackets
  MaxPackets = 2
  MaxErrors = 1
INVARIANTS
  OneUser
  DataIsReceived
PROPERTIES
  CaptureGoesOn
  StopsInTime
