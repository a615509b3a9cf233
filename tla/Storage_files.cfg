SPECIFICATION Spec
CONSTANTS
  s1 = s1
  s2 = s2
  Sessions = {s1, s2}
  Keys = {k1}
  Retained = 1
  SaveEveryTurn = {TRUE, FALSE}
  NoFile = NoFile
  Torn = Torn
  MaxTurns = 1
  MaxSaves = 3
  MaxPosts = 2
SYMMETRY Perms
INVARIANTS
  SavedKept
  LatestIsNewest
  MemoryKept
PROPERTY
  EndCatchesUp
