\* Both schedulers under seven configurations.
CONSTANTS
    w = w
    w2 = w2
    e = e
    v = v
    p = p
    r = r
    r2 = r2
    g = g
    q = q
    u = u
    i = i
    notes = notes
    other = other
    none = none
    Calls = {w, w2, e, v, r, g, q, u, i, p}
    NormKeys = {e, g, i, p, q, r, u, v, w}
    Norm <- MCNorm
    Tool <- MCTool
    Paths = {notes, other}
    NoPath = none
    Configs <- TurnConfigs
    RetryLimit = 1
    MaxIssued = 3
    MaxMessages = 2
SPECIFICATION Spec
CHECK_DEADLOCK FALSE
INVARIANTS
    EachCallOnce
    ProviderSafe
    ReplaySafe
    UsageOnce
    Remembered
    CacheFresh
PROPERTIES
    ConsentKept
