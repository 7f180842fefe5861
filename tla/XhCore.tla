------------------------------- MODULE XhCore -------------------------------
(***************************************************************************)
(* xhook's core (nativelibs/xhook, xh_core.c): the registration lists, the *)
(* lazy initialisation, the refresh that walks /proc/self/maps and patches *)
(* import slots, the background refresh thread, the SIGSEGV handler that   *)
(* protects the walk, and xh_core_clear that undoes all of it.             *)
(*                                                                         *)
(* Threads call the API; each call is a sequence of steps, one for each    *)
(* stretch of code between two points where another thread can be noticed  *)
(* (a mutex, an unlocked read of a shared flag, an access to memory that   *)
(* dlclose may take away).  The linker loads and unloads libraries at any  *)
(* time.  A registration is a record: the libraries its pathname regex     *)
(* matches, its symbol, and (as its identity) its new_func and the         *)
(* old_func variable it was given.                                         *)
(***************************************************************************)
EXTENDS Naturals, Sequences, FiniteSets, FiniteSetsExt, SequencesExt

CONSTANTS
    Threads,      \* threads of the application that call the API
    Owners,       \* those of them that do more than ask for an asynchronous refresh
    Workers,      \* refresh threads that can be created
    Libs,         \* libraries, by pathname
    Bases,        \* addresses a library can be mapped at, in maps order
    Syms,         \* imported symbols
    Hooks,        \* possible registrations [libs, sym, id]
    Ignores,      \* possible ignore entries [libs, sym], sym = All for NULL
    Initial,      \* libraries mapped at the start, a function of base
    MaxEntries,   \* bound on the registrations and ignore entries at a time
    MaxCalls,     \* bound on each thread's calls of refresh, clear and the switch
    MaxLoads,     \* bound on dlopen and dlclose
    MaxFaults     \* bound on failing system calls
CONSTANTS None, All, Original, Null    \* model values
CONSTANTS App, Xhook                   \* the two SIGSEGV handlers

ASSUME BasesAssumption == Bases \subseteq Nat \ {0}
ASSUME HooksAssumption ==
    /\ \A h \in Hooks : h.libs \subseteq Libs /\ h.sym \in Syms
    /\ \A i \in Ignores : i.libs \subseteq Libs /\ i.sym \in Syms \cup {All}
    /\ Original \notin Hooks /\ Null \notin Hooks
    /\ None \notin Threads \cup Workers \cup Libs
    /\ Owners \subseteq Threads /\ Threads \cap Workers = {}
    /\ Original # Null
\* A program makes finitely many different registrations.
ASSUME FiniteAssumption == IsFiniteSet(Hooks)
\* The linker maps a pathname once.
ASSUME InitialAssumption ==
    /\ Initial \in [Bases -> Libs \cup {None}]
    /\ \A a, b \in Bases : Initial[a] = Initial[b] /\ Initial[a] # None => a = b
ASSUME BoundsAssumption ==
    MaxEntries \in Nat /\ MaxCalls \in [Threads -> Nat] /\ MaxLoads \in Nat /\ MaxFaults \in Nat

VARIABLES
    hookInfo,     \* xh_core_hook_info
    ignoreInfo,   \* xh_core_ignore_info
    mapInfo,      \* xh_core_map_info: pathname -> base_addr, 0 when absent
    flags,        \* inited, init_ok, async_inited, async_init_ok,
                  \* refresh_thread_running, refresh_thread_do, sigsegv_enable
    coreMutex,    \* owner of xh_core_mutex
    refreshMutex, \* owner of xh_core_refresh_mutex
    tid,          \* xh_core_refresh_thread_tid
    sig,          \* the installed handler and xh_core_sigsegv_act_old
    scan,         \* the locals of the refresh in progress
    pc,           \* where each thread is
    async,        \* the argument of each thread's refresh call
    at,           \* what the linker has mapped: base -> library
    slot,         \* the import slots of the mapped libraries
    old,          \* the application's old_func variables
    ghost,        \* history that only the properties read
    budget        \* calls, loads and faults left

vars == <<hookInfo, ignoreInfo, mapInfo, flags, coreMutex, refreshMutex, tid,
          sig, scan, pc, async, at, slot, old, ghost, budget>>
lists == <<hookInfo, ignoreInfo>>
locks == <<coreMutex, refreshMutex>>
memory == <<at, slot, old>>
control == <<flags, tid, sig>>

Procs == Threads \cup Workers
Absent == 0
NoLine == [cursor |-> 0, lib |-> None, next |-> 1,
           tree |-> [l \in Libs |-> Absent], quiet |-> TRUE]

Mapped == {l \in Libs : \E b \in Bases : at[b] = l}
Idle(p) == pc[p] = "idle"
Clearing(t) == pc[t] \in {"stop", "signal", "join", "unasync", "unhandle", "uninit",
                          "clearlock", "free"}
Refreshing(p) == pc[p] \in {"line", "header", "hook", "replace", "finish"}

Init ==
    /\ hookInfo = <<>> /\ ignoreInfo = <<>>
    /\ mapInfo = [l \in Libs |-> Absent]
    /\ flags = [inited |-> FALSE, initOk |-> FALSE, asyncInited |-> FALSE,
                asyncOk |-> FALSE, running |-> FALSE, do |-> FALSE, enable |-> TRUE]
    /\ coreMutex = None /\ refreshMutex = None
    /\ tid = None
    /\ sig = [handler |-> App, saved |-> None]
    /\ scan = NoLine
    /\ pc = [p \in Procs |-> "idle"]
    /\ async = [t \in Threads |-> FALSE]
    /\ at = Initial
    /\ slot = [l \in Libs |-> [s \in Syms |-> Original]]
    /\ old = [h \in Hooks |-> Null]
    /\ ghost = [overlap |-> FALSE, toggled |-> FALSE, tainted |-> FALSE, freed |-> FALSE,
                crashed |-> FALSE, reloaded |-> {}, late |-> {}]
    /\ budget = [calls |-> MaxCalls, loads |-> MaxLoads, faults |-> MaxFaults]

-----------------------------------------------------------------------------
(***************************************************************************)
(* Which registrations apply to a library.                                 *)
(***************************************************************************)
\* An ignore entry without a symbol matches the library.
IgnoredWhole(l) == \E i \in 1..Len(ignoreInfo) : l \in ignoreInfo[i].libs /\ ignoreInfo[i].sym = All

IgnoredSym(l, s) == \E i \in 1..Len(ignoreInfo) : l \in ignoreInfo[i].libs /\ ignoreInfo[i].sym = s

\* xh_core_hook_impl: the registrations hooked in l, in list order.
Wanted(l) ==
    {n \in 1..Len(hookInfo) :
        l \in hookInfo[n].libs /\ ~IgnoredWhole(l) /\ ~IgnoredSym(l, hookInfo[n].sym)}

\* xh_core_refresh_impl: only the first registration whose regex matches decides
\* whether the library is looked at.
Match(l) ==
    LET first == {n \in 1..Len(hookInfo) : l \in hookInfo[n].libs}
    IN first # {} /\ Min(first) \in Wanted(l)

-----------------------------------------------------------------------------
(***************************************************************************)
(* The start of a call.  A call counts as overlapping when it is made      *)
(* while a clear is in progress, or is a clear made while another call is. *)
(* The first overlapping calls are followed to their end; as a bound, no   *)
(* call is made after them.                                                *)
(***************************************************************************)
Call(t, where, isClear) ==
    /\ Idle(t) /\ ~ghost.overlap /\ ~ghost.toggled
    /\ pc' = [pc EXCEPT ![t] = where]
    /\ ghost' = [ghost EXCEPT !.overlap =
                    @ \/ \E u \in Threads : ~Idle(u) /\ (isClear \/ Clearing(u))]

\* Only refresh, clear and the switch are counted; the lists bound the registrations.
Spend(t) == budget.calls[t] > 0 /\ budget' = [budget EXCEPT !.calls[t] = @ - 1]

Goto(p, where) == pc' = [pc EXCEPT ![p] = where]

\* Something a refresh in progress may or may not notice happens.
Disturb == scan' = IF refreshMutex = None THEN scan ELSE [scan EXCEPT !.quiet = FALSE]

\* The flag is checked before the lock is taken; a refused call changes nothing.
CallRegister(t, where) ==
    /\ ~flags.inited
    /\ Len(hookInfo) + Len(ignoreInfo) < MaxEntries
    /\ Call(t, where, FALSE)
    /\ UNCHANGED <<lists, mapInfo, control, locks, scan, memory, async, budget>>

\* xh_core_register after the check: append under the core mutex.
Register(t, h) ==
    /\ pc[t] = "register" /\ coreMutex = None
    /\ h \notin Range(hookInfo)
    /\ hookInfo' = Append(hookInfo, h)
    /\ Disturb
    /\ ghost' = IF flags.inited THEN [ghost EXCEPT !.late = @ \cup {h}] ELSE ghost
    /\ Goto(t, "idle")
    /\ UNCHANGED <<ignoreInfo, mapInfo, control, locks, memory, budget, async>>

\* xh_core_ignore after the check.
Ignore(t, i) ==
    /\ pc[t] = "ignore" /\ coreMutex = None
    /\ i \notin Range(ignoreInfo)
    /\ ignoreInfo' = Append(ignoreInfo, i)
    /\ Disturb
    /\ Goto(t, "idle")
    /\ UNCHANGED <<hookInfo, mapInfo, control, locks, memory, ghost, budget, async>>

\* regcomp or malloc fails, or the caller registers what is already there.
RegisterFails(t) ==
    /\ pc[t] \in {"register", "ignore"} /\ coreMutex = None
    /\ Goto(t, "idle")
    /\ UNCHANGED <<lists, mapInfo, control, locks, scan, memory, ghost, budget, async>>

\* xh_core_enable_sigsegv_protection: one unlocked store.
EnableSigsegvProtection(t, on) ==
    /\ Spend(t)
    /\ Idle(t) /\ ~ghost.overlap /\ ~ghost.toggled
    /\ flags.enable # on
    /\ flags' = [flags EXCEPT !.enable = on]
    /\ ghost' = [ghost EXCEPT !.toggled = @ \/ flags.inited]
    /\ UNCHANGED <<lists, mapInfo, tid, sig, locks, scan, pc, memory, async>>

-----------------------------------------------------------------------------
(***************************************************************************)
(* xh_core_refresh: initialisation, then a refresh on this thread or a     *)
(* request to the refresh thread.                                          *)
(***************************************************************************)
CallRefresh(t, isAsync) ==
    /\ Spend(t)
    /\ Call(t, "init", FALSE)
    /\ async' = [async EXCEPT ![t] = isAsync]
    /\ UNCHANGED <<lists, mapInfo, control, locks, scan, memory>>

\* xh_core_init_once: the test is made without the lock and again with it; inited is
\* set before init_ok can be.
InitOnce(t) ==
    /\ pc[t] = "init"
    /\ IF flags.inited
       THEN Goto(t, "initcheck") /\ UNCHANGED <<flags, coreMutex>>
       ELSE /\ coreMutex = None
            /\ coreMutex' = t
            /\ flags' = [flags EXCEPT !.inited = TRUE]
            /\ Goto(t, "handler")
    /\ UNCHANGED <<lists, mapInfo, tid, sig, refreshMutex, scan, memory, ghost, budget, async>>

\* xh_core_add_sigsegv_handler, which may fail, and the unlock.
AddHandler(t) ==
    /\ pc[t] = "handler"
    /\ \/ /\ sig' = IF flags.enable THEN [handler |-> Xhook, saved |-> sig.handler] ELSE sig
          /\ flags' = [flags EXCEPT !.initOk = TRUE]
          /\ UNCHANGED budget
       \/ /\ flags.enable /\ budget.faults > 0
          /\ budget' = [budget EXCEPT !.faults = @ - 1]
          /\ UNCHANGED <<sig, flags>>
    /\ coreMutex' = None
    /\ Goto(t, "initcheck")
    /\ UNCHANGED <<lists, mapInfo, tid, refreshMutex, scan, memory, ghost, async>>

InitedIsEnough == flags.inited
InitDone == flags.initOk

\* init_ok is read without the lock: a caller that saw inited too early fails.
InitCheck(t) ==
    /\ pc[t] = "initcheck"
    /\ Goto(t, IF ~InitDone THEN "idle" ELSE IF async[t] THEN "async" ELSE "refresh")
    /\ async' = [async EXCEPT ![t] = FALSE]
    /\ UNCHANGED <<lists, mapInfo, control, locks, scan, memory, ghost, budget>>

\* xh_core_init_async_once, in the same way.
InitAsyncOnce(t) ==
    /\ pc[t] = "async"
    /\ IF flags.asyncInited
       THEN Goto(t, "asynccheck") /\ UNCHANGED <<flags, coreMutex>>
       ELSE /\ coreMutex = None
            /\ coreMutex' = t
            /\ flags' = [flags EXCEPT !.asyncInited = TRUE, !.running = TRUE]
            /\ Goto(t, "create")
    /\ UNCHANGED <<lists, mapInfo, tid, sig, refreshMutex, scan, memory, ghost, budget, async>>

\* pthread_create, which may fail, and the unlock.
CreateThread(t) ==
    /\ pc[t] = "create"
    /\ \/ \E w \in Workers :
             /\ pc[w] = "idle"
             /\ pc' = [pc EXCEPT ![w] = "top", ![t] = "asynccheck"]
             /\ tid' = w
             /\ flags' = [flags EXCEPT !.asyncOk = TRUE]
             /\ UNCHANGED budget
       \/ /\ budget.faults > 0
          /\ budget' = [budget EXCEPT !.faults = @ - 1]
          /\ flags' = [flags EXCEPT !.running = FALSE]
          /\ Goto(t, "asynccheck")
          /\ UNCHANGED tid
    /\ coreMutex' = None
    /\ UNCHANGED <<lists, mapInfo, sig, refreshMutex, scan, memory, ghost, async>>

AsyncCheck(t) ==
    /\ pc[t] = "asynccheck"
    /\ Goto(t, IF flags.asyncOk THEN "post" ELSE "idle")
    /\ UNCHANGED <<lists, mapInfo, control, locks, scan, memory, ghost, budget, async>>

\* pthread_cond_signal wakes one waiting thread, if there is one, and t goes on.
Signal(t, where) ==
    IF \E w \in Workers : pc[w] = "wait"
    THEN \E w \in Workers : pc[w] = "wait" /\ pc' = [pc EXCEPT ![w] = "lock", ![t] = where]
    ELSE Goto(t, where)

\* The request: refresh_thread_do and the signal under the core mutex.
PostRefresh(t) ==
    /\ pc[t] = "post" /\ coreMutex = None
    /\ flags' = [flags EXCEPT !.do = TRUE]
    /\ Signal(t, "idle")
    /\ UNCHANGED <<lists, mapInfo, tid, sig, locks, scan, memory, ghost, budget, async>>

-----------------------------------------------------------------------------
(***************************************************************************)
(* xh_core_refresh_thread_func.                                            *)
(***************************************************************************)
\* The loop condition is read without the lock; a thread that waited has the lock.
WorkerTop(w) ==
    /\ pc[w] = "top" /\ ~flags.running
    /\ Goto(w, "exit")
    /\ UNCHANGED <<lists, mapInfo, control, locks, scan, memory, ghost, budget, async>>

\* Where the waiting loop leaves a thread that has the lock.
WaitFirst(w) == IF ~flags.running THEN "exit" ELSE IF pc[w] = "lock" /\ flags.do THEN "refresh" ELSE "wait"
WaitLoop(w) == IF ~flags.running THEN "exit" ELSE IF flags.do THEN "refresh" ELSE "wait"

\* The waiting loop; pthread_cond_wait releases the mutex.
WorkerLock(w) ==
    /\ pc[w] \in {"top", "lock"} /\ coreMutex = None
    /\ Goto(w, WaitLoop(w))
    /\ flags' = IF WaitLoop(w) = "refresh" THEN [flags EXCEPT !.do = FALSE] ELSE flags
    /\ UNCHANGED <<lists, mapInfo, tid, sig, locks, scan, memory, ghost, budget, async>>

\* A condition variable may wake its waiter for no reason.
Spurious(w) ==
    /\ pc[w] = "wait"
    /\ Goto(w, "lock")
    /\ UNCHANGED <<lists, mapInfo, control, locks, scan, memory, ghost, budget, async>>

-----------------------------------------------------------------------------
(***************************************************************************)
(* xh_core_refresh_impl, on an API thread or on the refresh thread, under  *)
(* the refresh mutex only.                                                 *)
(***************************************************************************)
RefreshEntry == refreshMutex = None

Return(p) == IF p \in Workers THEN "top" ELSE "idle"

RefreshLock(p) ==
    /\ pc[p] = "refresh" /\ RefreshEntry
    /\ \/ /\ refreshMutex' = p
          /\ scan' = NoLine
          /\ Goto(p, "line")
          /\ UNCHANGED budget
       \/ /\ budget.faults > 0                    \* fopen fails
          /\ budget' = [budget EXCEPT !.faults = @ - 1]
          /\ Goto(p, Return(p))
          /\ UNCHANGED <<refreshMutex, scan>>
    /\ UNCHANGED <<lists, mapInfo, control, coreMutex, memory, ghost, async>>

\* The next line of /proc/self/maps, as the mappings are now.
NextLine(p) ==
    /\ pc[p] = "line"
    /\ LET rest == {b \in Bases : b > scan.cursor /\ at[b] # None}
       IN IF rest = {}
          THEN Goto(p, "finish") /\ scan' = [scan EXCEPT !.lib = None, !.next = 1]
          ELSE LET b == Min(rest)
               IN IF Match(at[b])
                  THEN /\ scan' = [scan EXCEPT !.cursor = b, !.lib = at[b], !.next = 1]
                       /\ Goto(p, "header")
                  ELSE /\ scan' = [scan EXCEPT !.cursor = b, !.lib = None, !.next = 1]
                       /\ UNCHANGED pc
    /\ UNCHANGED <<lists, mapInfo, control, locks, memory, ghost, budget, async>>

\* Memory that is not mapped any more: the handler jumps back (sigsetjmp) when it is
\* installed and the protection is on, and the library is given up; else a crash.
Segv(p) ==
    IF sig.handler = Xhook /\ flags.enable
    THEN Goto(p, "line") /\ UNCHANGED ghost
    ELSE ghost' = [ghost EXCEPT !.crashed = TRUE] /\ UNCHANGED pc

\* The library was recorded at this base: it is not hooked again.
KnownByName(l) == mapInfo[l] # Absent
KnownNever(l) == FALSE
Known(l) == mapInfo[l] = scan.cursor

\* xh_core_check_elf_header, then the lookup in the old tree and the insertion into
\* the new one.  The first line of a pathname wins; malloc may fail for a new one.
CheckHeader(p) ==
    /\ pc[p] = "header"
    /\ LET l == scan.lib
           keep == /\ scan' = [scan EXCEPT !.tree[l] = scan.cursor]
                   /\ mapInfo' = [mapInfo EXCEPT ![l] = Absent]
       IN IF at[scan.cursor] = None
          THEN Segv(p) /\ UNCHANGED <<scan, mapInfo, budget>>
          ELSE \/ /\ scan.tree[l] # Absent
                  /\ Goto(p, "line")
                  /\ UNCHANGED <<scan, mapInfo, ghost, budget>>
               \/ /\ scan.tree[l] = Absent
                  /\ keep
                  /\ IF Known(l)
                     THEN Goto(p, "line") /\ UNCHANGED ghost
                     ELSE /\ Goto(p, "hook")
                          /\ ghost' = [ghost EXCEPT !.reloaded = @ \ {l}]
                  /\ UNCHANGED budget
               \/ /\ scan.tree[l] = Absent /\ mapInfo[l] = Absent
                  /\ budget.faults > 0
                  /\ budget' = [budget EXCEPT !.faults = @ - 1]
                  /\ Disturb
                  /\ Goto(p, "line")
                  /\ UNCHANGED <<mapInfo, ghost>>
    /\ UNCHANGED <<lists, control, locks, memory, async>>

\* The registrations of scan.lib that remain to be hooked.
Remaining == {n \in Wanted(scan.lib) : n >= scan.next}

\* *old_func = *addr
SavedNothing(h, f) == old
Saved(h, f) == [old EXCEPT ![h] = f]

\* xh_core_hook_impl and xh_elf_hook up to the store: the next registration's slot is
\* read and old_func saved.  What is patched is whatever library is at that address.
SaveOld(p) ==
    /\ pc[p] = "hook"
    /\ IF Remaining = {}
       THEN Goto(p, "line") /\ UNCHANGED <<scan, old, ghost>>
       ELSE LET n == Min(Remaining)
                h == hookInfo[n]
                here == at[scan.cursor]
            IN IF here = None
               THEN Segv(p) /\ UNCHANGED <<scan, old>>
               ELSE IF slot[here][h.sym] = h
               THEN /\ scan' = [scan EXCEPT !.next = n + 1]
                    /\ UNCHANGED <<old, pc, ghost>>
               ELSE /\ old' = Saved(h, slot[here][h.sym])
                    /\ scan' = [scan EXCEPT !.next = n]
                    /\ Goto(p, "replace")
                    /\ UNCHANGED ghost
    /\ UNCHANGED <<lists, mapInfo, control, locks, at, slot, budget, async>>

\* xh_elf_replace_function, the store.
Replace(p) ==
    /\ pc[p] = "replace"
    /\ LET h == hookInfo[scan.next]
           here == at[scan.cursor]
       IN IF here = None
          THEN Segv(p) /\ UNCHANGED <<scan, slot>>
          ELSE /\ slot' = [slot EXCEPT ![here][h.sym] = h]
               /\ scan' = [scan EXCEPT !.next = @ + 1]
               /\ ghost' = [ghost EXCEPT !.tainted = @ \/ here # scan.lib]
               /\ Goto(p, "hook")
    /\ UNCHANGED <<lists, mapInfo, control, locks, at, old, budget, async>>

\* What is left in the old tree is freed and the new tree takes its place.
Finish(p) ==
    /\ pc[p] = "finish"
    /\ mapInfo' = scan.tree
    /\ scan' = NoLine
    /\ refreshMutex' = None
    /\ Goto(p, Return(p))
    /\ UNCHANGED <<lists, control, coreMutex, memory, ghost, budget, async>>

-----------------------------------------------------------------------------
(***************************************************************************)
(* xh_core_clear.                                                          *)
(***************************************************************************)
CallClear(t) ==
    /\ Spend(t)
    /\ Call(t, "stop", TRUE)
    /\ UNCHANGED <<lists, mapInfo, control, locks, scan, memory, async>>

\* async_init_ok is read without the lock.
ClearTest(t) ==
    /\ pc[t] = "stop"
    /\ Goto(t, IF flags.asyncOk THEN "signal" ELSE "unasync")
    /\ UNCHANGED <<lists, mapInfo, control, locks, scan, memory, ghost, budget, async>>

ClearSignal(t) ==
    /\ pc[t] = "signal" /\ coreMutex = None
    /\ flags' = [flags EXCEPT !.running = FALSE]
    /\ Signal(t, "join")
    /\ UNCHANGED <<lists, mapInfo, tid, sig, locks, scan, memory, ghost, budget, async>>

\* pthread_join waits for the thread and releases it.  The later of two clears joins a
\* thread that is gone, which is undefined: taken to return at once.
ClearJoin(t) ==
    /\ pc[t] = "join"
    /\ tid # None => pc[tid] = "exit"
    /\ flags' = [flags EXCEPT !.asyncOk = FALSE]
    /\ pc' = [pc EXCEPT ![tid] = "idle", ![t] = "unasync"]
    /\ tid' = None
    /\ UNCHANGED <<lists, mapInfo, sig, locks, scan, memory, ghost, budget, async>>

ClearAsync(t) ==
    /\ pc[t] = "unasync"
    /\ flags' = [flags EXCEPT !.asyncInited = FALSE]
    /\ Goto(t, "unhandle")
    /\ UNCHANGED <<lists, mapInfo, tid, sig, locks, scan, memory, ghost, budget, async>>

\* xh_core_del_sigsegv_handler restores what was saved, or a zeroed action.
HandlerLeft == sig
HandlerRestored == IF flags.enable THEN [sig EXCEPT !.handler = sig.saved] ELSE sig

ClearHandler(t) ==
    /\ pc[t] = "unhandle"
    /\ IF flags.initOk
       THEN /\ sig' = HandlerRestored
            /\ flags' = [flags EXCEPT !.initOk = FALSE]
       ELSE UNCHANGED <<sig, flags>>
    /\ Goto(t, "uninit")
    /\ UNCHANGED <<lists, mapInfo, tid, locks, scan, memory, ghost, budget, async>>

ClearInited(t) ==
    /\ pc[t] = "uninit"
    /\ flags' = [flags EXCEPT !.inited = FALSE]
    /\ Goto(t, "clearlock")
    /\ UNCHANGED <<lists, mapInfo, tid, sig, locks, scan, memory, ghost, budget, async>>

ClearLock(t) ==
    /\ pc[t] = "clearlock" /\ coreMutex = None
    /\ coreMutex' = t
    /\ Goto(t, "free")
    /\ UNCHANGED <<lists, mapInfo, control, refreshMutex, scan, memory, ghost, budget, async>>

\* The three lists are freed under both mutexes.
FreeEntryCoreOnly == TRUE
FreeEntry == refreshMutex = None

ClearFree(t) ==
    /\ pc[t] = "free" /\ FreeEntry
    /\ hookInfo' = <<>> /\ ignoreInfo' = <<>>
    /\ mapInfo' = [l \in Libs |-> Absent]
    /\ coreMutex' = None
    /\ ghost' = [ghost EXCEPT
                    !.freed = @ \/ \E p \in Procs : Refreshing(p),
                    !.tainted = @ \/ \E l \in Mapped, s \in Syms : slot[l][s] # Original,
                    !.reloaded = {}, !.late = {}]
    /\ Goto(t, "idle")
    /\ UNCHANGED <<control, refreshMutex, scan, memory, budget, async>>

-----------------------------------------------------------------------------
(***************************************************************************)
(* The linker.                                                             *)
(***************************************************************************)
Dlopen(l, b) ==
    /\ budget.loads > 0
    /\ l \notin Mapped /\ at[b] = None
    /\ at' = [at EXCEPT ![b] = l]
    /\ slot' = [slot EXCEPT ![l] = [s \in Syms |-> Original]]
    /\ Disturb
    /\ ghost' = [ghost EXCEPT !.reloaded =
                    IF b \in {mapInfo[l], scan.tree[l]} THEN @ \cup {l} ELSE @ \ {l}]
    /\ budget' = [budget EXCEPT !.loads = @ - 1]
    /\ UNCHANGED <<lists, mapInfo, control, locks, pc, old, async>>

Dlclose(b) ==
    /\ budget.loads > 0
    /\ at[b] # None
    /\ at' = [at EXCEPT ![b] = None]
    /\ slot' = [slot EXCEPT ![at[b]] = [s \in Syms |-> Original]]
    /\ Disturb
    /\ budget' = [budget EXCEPT !.loads = @ - 1]
    /\ UNCHANGED <<lists, mapInfo, control, locks, pc, old, ghost, async>>

-----------------------------------------------------------------------------
RefreshStep(p) ==
    \/ RefreshLock(p) \/ NextLine(p) \/ CheckHeader(p) \/ SaveOld(p) \/ Replace(p) \/ Finish(p)

ApiStep(t) ==
    \/ \E h \in Hooks : Register(t, h)
    \/ \E i \in Ignores : Ignore(t, i)
    \/ RegisterFails(t)
    \/ InitOnce(t) \/ AddHandler(t) \/ InitCheck(t)
    \/ InitAsyncOnce(t) \/ CreateThread(t) \/ AsyncCheck(t) \/ PostRefresh(t)
    \/ ClearTest(t) \/ ClearSignal(t) \/ ClearJoin(t) \/ ClearAsync(t)
    \/ ClearHandler(t) \/ ClearInited(t) \/ ClearLock(t) \/ ClearFree(t)
    \/ RefreshStep(t)

WorkerStep(w) == WorkerTop(w) \/ WorkerLock(w) \/ RefreshStep(w)

Begin(t) ==
    \/ /\ t \in Owners
       /\ \/ CallRegister(t, "register") \/ CallRegister(t, "ignore")
          \/ CallRefresh(t, FALSE) \/ CallClear(t)
          \/ \E on \in BOOLEAN : EnableSigsegvProtection(t, on)
    \/ CallRefresh(t, TRUE)

Running == ~ghost.crashed

Next ==
    /\ Running
    /\ \/ \E t \in Threads : Begin(t) \/ ApiStep(t)
       \/ \E w \in Workers : WorkerStep(w) \/ Spurious(w)
       \/ \E l \in Libs, b \in Bases : Dlopen(l, b)
       \/ \E b \in Bases : Dlclose(b)

Spec == Init /\ [][Next]_vars

-----------------------------------------------------------------------------
(***************************************************************************)
(* Properties.                                                             *)
(***************************************************************************)
TypeOK ==
    /\ hookInfo \in Seq(Hooks) /\ ignoreInfo \in Seq(Ignores)
    /\ mapInfo \in [Libs -> Bases \cup {Absent}]
    /\ flags \in [inited : BOOLEAN, initOk : BOOLEAN, asyncInited : BOOLEAN,
                  asyncOk : BOOLEAN, running : BOOLEAN, do : BOOLEAN, enable : BOOLEAN]
    /\ coreMutex \in Threads \cup {None} /\ refreshMutex \in Procs \cup {None}
    /\ tid \in Workers \cup {None}
    /\ scan.tree \in [Libs -> Bases \cup {Absent}]
    /\ scan.next \in 1..Len(hookInfo) + 1
    /\ at \in [Bases -> Libs \cup {None}]
    /\ slot \in [Libs -> [Syms -> Hooks \cup {Original}]]
    /\ old \in [Hooks -> Hooks \cup {Original, Null}]
    /\ \A p \in Procs : Refreshing(p) => refreshMutex = p

\* The lists a refresh is walking are not freed under it, whatever the threads do.
NoUseAfterFree == ~ghost.freed

\* A refresh during which nothing else moved leaves every import slot that a
\* registration wants holding the last of the registrations that want it.  Excused are
\* a library whose first matching registration is ignored, one that was unloaded and
\* loaded again at the base address it was recorded with, and a registration that
\* passed its check before the initialisation and was appended after it.
WantedSyms(l) == {hookInfo[n].sym : n \in Wanted(l)}
LastWanted(l, s) == hookInfo[Max({n \in Wanted(l) : hookInfo[n].sym = s})]
QuietRefreshHooksAll ==
    \A p \in Procs :
        (pc[p] = "finish" /\ scan.quiet /\ ghost.late = {} /\ ~ghost.overlap) =>
            \A l \in Mapped \ ghost.reloaded :
                Match(l) => \A s \in WantedSyms(l) : slot[l][s] = LastWanted(l, s)

\* A new function that a call can reach through a slot finds its old_func set.
OldSetBeforeUse == \A l \in Mapped, s \in Syms : slot[l][s] \in Hooks => old[slot[l][s]] # Null

\* Calling on through old_func ends at the original function, unless a slot was patched
\* that an earlier registration (before a clear, or for another library at the same
\* address) had patched already.
CallChain(f) ==
    LET chain[n \in 0..Cardinality(Hooks)] ==
            IF n = 0 THEN f ELSE IF chain[n - 1] \in Hooks THEN old[chain[n - 1]] ELSE chain[n - 1]
    IN chain[Cardinality(Hooks)]
CallReachesOriginal ==
    ~ghost.tainted => \A l \in Mapped, s \in Syms : CallChain(slot[l][s]) = Original

\* As long as no clear overlaps another call and the protection is not switched while
\* initialised, a library unloaded in the middle of a refresh does not crash it.
RefreshSurvivesDlclose ==
    ghost.crashed => ghost.overlap \/ ghost.toggled \/ ~flags.enable

\* After a clear the application's SIGSEGV handler is back, no refresh thread is left
\* and nothing is recorded.
Quiescent == /\ \A t \in Threads : Idle(t)
             /\ ~flags.inited /\ ~ghost.overlap /\ ~ghost.toggled
ClearUndoesAll ==
    Quiescent => /\ sig.handler = App
                 /\ \A w \in Workers : Idle(w)
                 /\ \A l \in Libs : mapInfo[l] = Absent

\* The refresh thread never sleeps on a request or on its own end: whatever was posted
\* or asked while it was busy is seen before it waits again.  (A clear that overlaps
\* other calls can leave a second refresh thread, which sleeps on.)
NoLostWakeup ==
    \A w \in Workers :
        pc[w] = "wait" => ghost.overlap \/ (~flags.do /\ flags.running)

=============================================================================
