CONSTANTS
  s0 = s0
  s1 = s1
  p = p
  Slots = {s0, s1}
  FirstSlot = s1
  NoSlot = NoSlot
  Places = {p}
  Reread <- MCReread
  Garbled = Garbled
  Broken = Broken
  Foreign = Foreign
  OldState = OldState
  Headless = Headless
  NoFile = NoFile
  GameGenie = TRUE
  LeftOver = {NoFile, Headless}
  UserFiles = {Foreign}
  Outcomes = {"written", "refused"}
SPECIFICATION Spec
INVARIANT UndoFindsBoth
PROPERTIES OverwrittenKept UnreadableLeavesPlace
