CONSTANTS
  Poll = 1
  StaleAfter = 4
  Slack = 1
  Mischief = {"exe"}
  ReadFaults = TRUE
  WorkMax = 1
  Patience = 1
  QueryMax = 1
  BurnMin = 3
  Words = {"right", "wrong", "empty"}
  Blemishes = {"none", "kmLow", "layer", "frodoCt"}
SPECIFICATION FairSpec
PROPERTIES PipedRunEnds BurningEnds
