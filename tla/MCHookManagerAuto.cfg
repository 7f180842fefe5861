SPECIFICATION Spec
CONSTANTS
    w1 = w1  w2 = w2
    e1 = e1  e2 = e2
    g1 = g1  g2 = g2
    o1 = o1  o2 = o2
    t1 = t1  t2 = t2  t3 = t3
    f1 = f1    f2 = f2
    None = None  Invalid = Invalid
    Thread = {w1, w2}
    Elf = {e1}
    Got = {g1}
    Orig = {o1}
    Func = {f1, f2}
    Task = {t1, t2, t3}
    GotsOf <- OneElfGots
    OrigOf <- OneElfOrig
    FuncOf <- SharedFunc
    CalleeOf <- NoCallee
    ScopeOf <- OneElfScope
    Modes = {"AUTO"}
    Single = {t1}
    MaxPosts = 1
    Faults = {"read", "new_trampo", "prot", "set_got", "cfi"}
SYMMETRY Threads
INVARIANTS
    UniqueEnabled
    AbandonedInert
    OrigKept
    GoneSilent
    HookTakesEffect
