\* Every turn ends; MaxIssued never binds (three runs of two responses).
CONSTANTS
    w = w
    w2 = w2
    e = e
    v = v
    p = p
    r = r
    r2 = r2
    g = g
    q = q
    u = u
    i = i
    notes = notes
    other = other
    none = none
    Calls = {w, v, r}
    NormKeys = {r, v, w}
    Norm <- MCNorm
    Tool <- MCTool
    Paths = {notes, other}
    NoPath = none
    Configs <- LiveConfigs
    RetryLimit = 1
    MaxIssued = 12
    MaxMessages = 1
SPECIFICATION FairSpec
CHECK_DEADLOCK FALSE
PROPERTIES
    TurnEnds
