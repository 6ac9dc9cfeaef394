CONSTANTS
  Poll = 1
  StaleAfter = 4
  Slack = 1
  Mischief = {}
  ReadFaults = FALSE
  WorkMax = 1
  Patience = 1
  QueryMax = 1
  BurnMin = 3
  Words = {"right", "wrong", "empty"}
  Blemishes = {"none", "boot", "program", "kmLow", "kmHigh", "ts", "layer", "frodoCt"}
SPECIFICATION Spec
INVARIANTS TypeOK NoFault NeverStale Gentle RevealNeedsAll BurnOrder ExitWipes
PROPERTY KeepsPromise
