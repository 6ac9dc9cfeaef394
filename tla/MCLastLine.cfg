CONSTANTS
  Height = 13
  Width = 3
  ShortHint <- MCShortHint
  LongHint <- MCLongHint
  Box <- MCBox
  Texts <- MCTexts
  Bursts <- MCBursts
  Targets = {"p", "q"}
  Chunk = 2
  Room = 1
  MaxTyped = 4
SPECIFICATION Spec
INVARIANT LinesOnScreen
CHECK_DEADLOCK FALSE
