CONSTANTS
  noState = noState
  s1 = s1
  none = none
  press = press
  Inputs = {none, press}
  Blank = none
  Lagged <- MCLagged
  Imports <- MCImports
  Slots = {s1}
  NoState = noState
  HistorySize = 3
  MaxFrames = 3
  MaxEdits = 2
  MaxDeploys = 1
SPECIFICATION Spec
INVARIANTS TypeOK GreenzoneFaithful PlaysTheMovie LogIsCurrent UndoLeadsBack BookmarksFaithful
PROPERTY DeployReturns
