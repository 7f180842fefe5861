SPECIFICATION Spec
CONSTANTS
    w1 = w1  w2 = w2
    e1 = e1  e2 = e2
    g1 = g1  g2 = g2
    o1 = o1  o2 = o2
    t1 = t1  t2 = t2  t3 = t3
    f1 = f1    f2 = f2
    None = None  Invalid = Invalid
    Thread = {w1, w2}
    Elf = {e1}
    Got = {g1, g2}
    Orig = {o1, o2}
    Func = {f1, f2}
    Task = {t1, t2}
    GotsOf <- TwoSlotGots
    OrigOf <- TwoSlotOrig
    FuncOf <- TwoTaskFunc
    CalleeOf <- TwoTaskCallee
    ScopeOf <- OneElfScope
    Modes = {"AUTO", "MANUAL"}
    Single = {t1}
    MaxPosts = 1
    Faults = {"read", "new_trampo", "append", "verify", "prot", "set_got", "cfi"}
SYMMETRY Threads
INVARIANTS
    TypeOK
    
