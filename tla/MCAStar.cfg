CONSTANTS
  RomImages = {romA, romB}
  Buttons = 2
  Depth = 4
  Roms <- RomImages
  States <- MCStates
  Inputs <- MCInputs
  NoInput <- MCNoInput
  LastInput <- MCLastInput
  Boot <- MCBoot
  Step <- MCStep
  NoRom = NoRom
  NoState = NoState
  BlackoutNames = {"nothing", "presses"}
  LuaNames = {"none", "presses", "goal"}
  StartDepth = 1
  Blackouts <- BlackoutNames
  NoBlackout = "nothing"
  LuaSources <- LuaNames
  NoLua = "none"
  Hashes <- MCHashes
  NoHash = NoHash
  RamHash <- MCRamHash
  Heuristic <- MCHeuristic
  StartStates <- MCStartStates
  Rounds = 3
SPECIFICATION FairSpec
INVARIANTS NeverRunsDry OpenOrClosed ParentsLeadToStart NodesAreSteps PathChecksHold
PROPERTIES WorkEnds PathReachesBest
