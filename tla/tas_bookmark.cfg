CONSTANTS
  noState = noState
  s1 = s1
  none = none
  press = press
  Inputs = {none, press}
  Blank = none
  Lagged <- MCLagged
  Imports <- MCImports
  Slots = {s1}
  NoState = noState
  HistorySize = 3
  MaxFrames = 3
  MaxEdits = 3
  MaxDeploys = 0
SPECIFICATION Spec
PROPERTY BookmarkOverCurrent
