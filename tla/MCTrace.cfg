SPECIFICATION Spec
CONSTANTS
  Packets <- PacketsInstance
  MaxPackets = 2
INVARIANTS
  ReportsArePackets
  DamageIsSeen
CHECK_DEADLOCK FALSE
