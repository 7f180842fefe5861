CONSTANTS
    liba = liba
    libb = libb
    s1 = s1
    t1 = t1
    t2 = t2
    None = None
    All = All
    Original = Original
    Null = Null
    App = App
    Xhook = Xhook
    Threads = {t1, t2}
    Owners = {t1}
    Workers = {w1}
    Libs = {liba, libb}
    Bases = {1, 2}
    Syms = {s1}
    Hooks <- MCHooks
    Ignores <- MCIgnores
    Initial <- MCInitial
    MaxEntries = 2
    MaxCalls <- MCCalls
    MaxLoads = 2
    MaxFaults = 1
SPECIFICATION Spec
INVARIANTS
    NoUseAfterFree
    
    OldSetBeforeUse
    CallReachesOriginal
    RefreshSurvivesDlclose
    ClearUndoesAll
    NoLostWakeup
CHECK_DEADLOCK FALSE
