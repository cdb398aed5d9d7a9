CONSTANTS
  a = a
  f = f
  noFile = noFile
  noMovie = noMovie
  s1 = s1
  Inputs = {a}
  Files = {f}
  NoFile = noFile
  NoMovie = noMovie
  Slots = {s1}
  Options <- MCOptions
  MaxFrames = 2
  MaxGuid = 2
SPECIFICATION Spec
INVARIANTS InSync RecordingHasFile FileIsMovie
PROPERTY ReadOnlyKeepsMovie
