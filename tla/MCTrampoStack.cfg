SPECIFICATION TrampoSpec
CONSTANTS
    e1 = e1  e2 = e2
    g1 = g1  g2 = g2  g3 = g3
    o1 = o1  o2 = o2  o3 = o3
    t1 = t1  t2 = t2
    f1 = f1    f2 = f2
    None = None  Invalid = Invalid
    Thread = {w1}
    Elf = {e1, e2}
    Got = {g1, g2, g3}
    Orig = {o1, o2, o3}
    Func = {f1, f2}
    Task = {t1, t2}
    GotsOf <- TwoElfGots
    OrigOf <- TwoElfOrig
    FuncOf <- TwoTaskFunc
    CalleeOf <- NoCallee
    ScopeOf <- TwoTaskScope
    Modes = {"AUTO"}
    Single = {}
    MaxPosts = 0
    Faults = {"prot"}
    Caller = {c1}
    MaxFrame = 2
    MaxDepth = 3
    StackMayFail = TRUE
INVARIANTS
    TrampoTypeOK
    FramesMatch
    
    PrevIsOlder
 
