CONSTANTS
  c1 = c1
  c2 = c2
  c3 = c3
  noClient = noClient
  noGame = noGame
  id1 = id1
  id2 = id2
  noId = noId
  up = up
  down = down
  Clients = {c1, c2, c3}
  NoClient = noClient
  GameSlots = {1, 2, 3}
  NoGame = noGame
  Ids = {id1, id2}
  NoId = noId
  MaxPlayers = 2
  Inputs = {up, down}
  NoInput = up
SPECIFICATION Spec
INVARIANTS TablesAgree OneGamePerId InLockstep CarriesInput
SYMMETRY MCSymmetry
CHECK_DEADLOCK FALSE
