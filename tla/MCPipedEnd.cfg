CONSTANTS
  Poll = 1
  StaleAfter = 4
  Slack = 1
  Mischief = {}
  ReadFaults = FALSE
  WorkMax = 1
  Patience = 1
  QueryMax = 1
  BurnMin = 3
  Words = {"right", "wrong"}
  Blemishes = {"none"}
SPECIFICATION Spec
INVARIANT EveryReadingWiped
