CONSTANTS
  Poll = 2
  StaleAfter = 7
  Slack = 1
  Mischief = {"tracer", "exe", "key"}
  ReadFaults = FALSE
  WorkMax = 2
  Patience = 1
  QueryMax = 1
  BurnMin = 4
  Words = {"right"}
  Blemishes = {"none", "kmHigh"}
SPECIFICATION Spec
INVARIANT PromptDetection
PROPERTY KeepsPromise
