CONSTANTS
  Inputs = {0, 1}
  NoInput = 0
  Frames = {0, 2}
  Edited = {0, 2}
  Padding = 1
  Movies <- MCMovies
  Blackouts = {"nothing", "byte"}
  NoBlackout = "nothing"
  Actions = 2
  Connections = 2
SPECIFICATION MCSpec
INVARIANTS InStep ShownIsCurrent NothingBehindTheEnd
PROPERTY Settles
CHECK_DEADLOCK FALSE
