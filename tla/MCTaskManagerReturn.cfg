SPECIFICATION Spec
CONSTANTS
    w1 = w1  w2 = w2
    p1 = p1  p2 = p2
    t1 = t1  t2 = t2
    None = None
    Thread = {w1, w2, w3}
    Path = {p2}
    Loaded0 = {}
    MaxGen = 1
    Task = {t1, t2}
    Single = {t2}
    ScopeOf <- Scopes
    Ignorable = {}
    CreateMayFail = FALSE
PROPERTY CallsReturn
