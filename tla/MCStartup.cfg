SPECIFICATION Spec
CONSTANTS
    a = a
    b = b
    c = c
    Thread = {a, b, c}
    Lib = {"libdl", "old", "late"}
    Libdl = "libdl"
    Callbacks = {"cb"}
    Scenarios <- MCScenarios
    Signals <- MCSignals
    SlotMax = 1
    None = None
INVARIANTS
    JumpsHome
    
    StartedBeforeUse
    AppliedUnlessRaced
