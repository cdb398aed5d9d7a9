CONSTANTS
  RomImages = {romA, romB}
  Buttons = 2
  Depth = 5
  MaxMovie = 2
  MaxFrame = 3
  Roms <- RomImages
  States <- MCStates
  Inputs <- MCInputs
  NoInput <- MCNoInput
  LastInput <- MCLastInput
  Boot <- MCBoot
  Step <- MCStep
  NoRom = NoRom
  NoState = NoState
  Movies <- MCMovies
  Frames <- MCFrames
SPECIFICATION Spec
INVARIANTS RecordedPrefixFaithful CachedByPlay
PROPERTIES ShowsTheMovie ImplementsPlayer
