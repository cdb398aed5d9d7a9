CONSTANTS
  RomImages = {romA}
  Buttons = 2
  Depth = 1
  Roms <- RomImages
  States <- MCStates
  Inputs <- MCInputs
  NoInput <- MCNoInput
  LastInput <- MCLastInput
  Boot <- MCBoot
  Step <- MCStep
  NoRom = NoRom
  NoState = NoState
  Limits = {0, 1, 2}
  Slops = {0, 1}
  DefaultSlop = 2
  MaxSequence = 8
SPECIFICATION Spec
INVARIANTS CountExact WithinSlop ChecksOnlyUnlimited
PROPERTY ImplementsLru
