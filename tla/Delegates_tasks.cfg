CONSTANTS
  c1 = c1
  c2 = c2
  c3 = c3
  k1 = k1
  k2 = k2
  Calls = {c1, c2, c3}
  NormKeys = {k1, k2}
  Norm <- ThisNorm
  Reads = {c3}
  Agents = {"review", "execution"}
  Policy = "on-request"
  MaxTurns = 2
  ContLimit = 1
  ItemLimit = 2
  PacketLimit = 1
  MaxDelegations = 2
  MaxUserTurns = 2
  MaxCalls = 2
SPECIFICATION Spec
INVARIANTS
  HistoryAnswered
  TaskKept
PROPERTIES
  DelegatedConsent
  FilesKept
  DelegateEnds
CHECK_DEADLOCK FALSE
