CONSTANTS
  Null = Null
  RomImages = {romA}
  Buttons = 2
  Depth = 0
  Roms <- RomImages
  States <- MCStates
  Inputs <- MCInputs
  NoInput <- MCNoInput
  LastInput <- MCLastInput
  Boot <- MCBoot
  Step <- MCStep
  NoRom = NoRom
  NoState = NoState
  MaxFrame = 1
  LastFrame = 3
  Paths <- MCPaths
  MaxSearches = 2
  MaxQueue = 2
SPECIFICATION PageSpec
PROPERTY PathContinuesMovie
