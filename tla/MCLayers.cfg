CONSTANTS
  Block = 3
  Radix = 4
  Masked = {2}
  Metas <- MCMetas
  Texts <- MCTexts
  MaxBad = 3
  Calls <- MCCalls
  PageSize = 6
  Overhead = 1
SPECIFICATION Spec
CHECK_DEADLOCK FALSE
INVARIANTS TypeOK SealOpens ShardsBind TextFits BarredAsListed AlteredSivRefused TagsDiffer CountersCount
PROPERTY KeepsUnseal
