SPECIFICATION Spec
CONSTANTS
    w1 = w1  w2 = w2
    p1 = p1  p2 = p2
    t1 = t1  t2 = t2
    None = None
    Thread = {w1, w2}
    Path = {p1, p2}
    Loaded0 = {p1}
    MaxGen = 2
    Task = {t1, t2}
    Single = {t2}
    ScopeOf <- Scopes
    Ignorable = {p2}
    CreateMayFail = TRUE
SYMMETRY Threads
INVARIANTS
    TypeOK
    NoElfUseAfterFree
    NoTaskUseAfterFree
    
    
