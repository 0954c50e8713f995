SPECIFICATION MCSpec
CONSTANTS
  Clients = {s1, s2}
  Ids = {k1, k2}
  MaxCheckpoints = 1
  MaxAge = 0
  MaxTime = 1
  None = None
  MaxSessions = 1
  HistoryLimit = 1
  MaxCommands = 2
  Keyframe = 2
  Sizes = {0, 4}
  MaxCached = 1
  MaxFrames = 4
  MaxStarts = 2
  Frames = 2
  MaxPlays = 2
  FrameNumbers = {0, 1}
  Mods = {m1}
  MaxBranches = 2
  MaxLoads = 2
INVARIANTS TypesOK StoredSurvives DeletedStaysGone   
PROPERTIES ReplayMovesOn
SYMMETRY Symmetry
CHECK_DEADLOCK FALSE
