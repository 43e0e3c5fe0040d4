SPECIFICATION Spec
CONSTANTS
  d = d
  e = e
  x = x
  y = y
  Dirs = {d, e}
  Names = {x, y}
  Held <- HeldPaths
  Start = d
  Previewed = {y}
  Texts = {empty, text}
  Empty = empty
  Uploaded = text
  Absent = Absent
  NoPath = NoPath
  Chunks = 2
  MaxActs = 5
  MaxInFlight = 2
INVARIANTS ListedIsCurrent CleanMeansSaved BusyIsDriven
CHECK_DEADLOCK FALSE
