SPECIFICATION Spec
CONSTANTS
  Unset = Unset
  NotANumber = NotANumber
  UINT32 = 16
  Scale = 100
  Draws = {0, 15, 45, 75, 99}
  Environments <- EnvironmentsInstance
  UserRates = {0, 50}
  Datagrams <- DatagramsInstance
  MaxForks = 2
  MaxSends = 3
  RANDOM_SEED = 10
INVARIANTS
  HooksInvariant
  OnlyAskedErrors
  ChildrenDiffer
PROPERTIES
  ImplementsChannel
CHECK_DEADLOCK FALSE
