---------------------------- MODULE XhCore_proofs -----------------------------
(***************************************************************************)
(* Safety of XhCore for every number of threads, refresh threads,          *)
(* libraries, symbols and registrations.                                   *)
(***************************************************************************)
EXTENDS XhCore, FiniteSetTheorems, WellFoundedInduction, NaturalsInduction, TLAPS

\* Where a thread, and a refresh thread, can be.
ScanPC == {"line", "header", "hook", "replace", "finish"}
ClearPC == {"stop", "signal", "join", "unasync", "unhandle", "uninit", "clearlock", "free"}
AsyncPC == {"async", "create", "asynccheck", "post"}
ThreadPC == {"idle", "register", "ignore", "init", "handler", "initcheck", "refresh"}
            \cup AsyncPC \cup ScanPC \cup ClearPC
WorkerPC == {"idle", "top", "lock", "wait", "exit", "refresh"} \cup ScanPC

Flags == [inited : BOOLEAN, initOk : BOOLEAN, asyncInited : BOOLEAN,
          asyncOk : BOOLEAN, running : BOOLEAN, do : BOOLEAN, enable : BOOLEAN]
Scan == [cursor : Bases \cup {Absent}, lib : Libs \cup {None}, next : Nat,
         tree : [Libs -> Bases \cup {Absent}], quiet : BOOLEAN]
Ghost == [overlap : BOOLEAN, toggled : BOOLEAN, tainted : BOOLEAN, freed : BOOLEAN,
          crashed : BOOLEAN, reloaded : SUBSET Libs, late : SUBSET Hooks]

ListType == hookInfo \in Seq(Hooks) /\ ignoreInfo \in Seq(Ignores)

MemoryType ==
    /\ mapInfo \in [Libs -> Bases \cup {Absent}]
    /\ at \in [Bases -> Libs \cup {None}]
    /\ slot \in [Libs -> [Syms -> Hooks \cup {Original}]]
    /\ old \in [Hooks -> Hooks \cup {Original, Null}]

FlagType ==
    /\ flags \in Flags
    /\ sig \in [handler : {App, Xhook, None}, saved : {App, Xhook, None}]
    /\ ghost \in Ghost

\* Each place of a call, and the mutexes held there.
ControlType ==
    /\ pc \in [Procs -> ThreadPC \cup WorkerPC]
    /\ \A t \in Threads : pc[t] \in ThreadPC
    /\ \A w \in Workers : pc[w] \in WorkerPC
    /\ async \in [Threads -> BOOLEAN]
    /\ tid \in Workers \cup {None}
    /\ coreMutex \in Threads \cup {None} /\ refreshMutex \in Procs \cup {None}
    /\ \A p \in Procs : Refreshing(p) <=> refreshMutex = p
    /\ \A t \in Threads : pc[t] \in {"handler", "create", "free"} <=> coreMutex = t

\* The locals of a refresh have their types, and are as good as none without one.
ScanInv ==
    /\ scan \in Scan
    /\ scan.next \in 1..Len(hookInfo) + 1
    /\ refreshMutex = None => scan = NoLine
    /\ \A p \in Procs :
        /\ pc[p] \in {"header", "hook", "replace"} => scan.cursor \in Bases /\ scan.lib \in Libs
        /\ pc[p] = "replace" => scan.next \in 1..Len(hookInfo)

TypeInv == ListType /\ MemoryType /\ FlagType /\ ControlType /\ ScanInv

\* A slot is patched only after old_func was saved, and old_func is never reset.
OldInv ==
    /\ \A l \in Libs, s \in Syms : slot[l][s] \in Hooks => old[slot[l][s]] # Null
    /\ \A p \in Procs : pc[p] = "replace" => old[hookInfo[scan.next]] # Null

\* What follows holds as long as no clear overlaps another call: while there is a clear
\* there is no other call,
AloneInv ==
    ~ghost.overlap =>
        \A t \in Threads : Clearing(t) => \A u \in Threads : u # t => Idle(u)

\* the flags tell how far the initialisation is, at each place of a call,
StageInv ==
    ~ghost.overlap =>
        /\ flags.initOk => flags.inited
        /\ flags.asyncInited => flags.initOk
        /\ flags.asyncOk => flags.asyncInited
        /\ \A t \in Threads :
            /\ pc[t] \in AsyncPC \cup ScanPC \cup {"refresh"} => flags.initOk
            /\ pc[t] = "handler" => flags.inited /\ ~flags.initOk
            /\ pc[t] = "create" => flags.asyncInited /\ ~flags.asyncOk /\ flags.running
            /\ pc[t] \in {"post", "signal", "join"} => flags.asyncOk
            /\ pc[t] \in {"unasync", "unhandle", "uninit", "clearlock", "free"} => ~flags.asyncOk
            /\ pc[t] \in {"unhandle", "uninit", "clearlock", "free"} => ~flags.asyncInited
            /\ pc[t] \in {"uninit", "clearlock", "free"} => ~flags.initOk
            /\ pc[t] \in {"clearlock", "free"} => ~flags.inited

\* there is one refresh thread at most, the one that was created and not yet joined,
WorkerInv ==
    ~ghost.overlap =>
        /\ tid \in Workers <=> flags.asyncOk
        /\ \A w \in Workers :
            /\ ~Idle(w) <=> tid = w
            /\ pc[w] = "wait" => ~flags.do /\ flags.running
        /\ flags.asyncOk /\ ~flags.running => \E t \in Threads : pc[t] = "join"

\* the handler of the application is replaced exactly while xhook is initialised,
HandlerInv ==
    ~ghost.overlap /\ ~ghost.toggled =>
        IF flags.initOk /\ flags.enable
        THEN sig = [handler |-> Xhook, saved |-> App]
        ELSE sig.handler = App

\* and bases are recorded only while it is, or when they are about to be freed.
MapInv ==
    ~ghost.overlap =>
        \A l \in Libs : mapInfo[l] # Absent =>
            flags.inited \/ \E t \in Threads : pc[t] \in {"clearlock", "free"}

CalmInv == AloneInv /\ StageInv /\ WorkerInv /\ HandlerInv /\ MapInv

\* The linker maps a pathname once.
AtInv == \A a, b \in Bases : at[a] = at[b] /\ at[a] # None => a = b

\* Every slot that a registration wants holds the last registration that wants it.
Hooked(l) == \A s \in WantedSyms(l) : slot[l][s] = LastWanted(l, s)

\* The library that the refresh in progress is hooking.
InHand(l) == scan.lib = l /\ \E p \in Procs : pc[p] \in {"hook", "replace"}

\* The base is the one the library is recorded with, by the last refresh or this one.
RecordedAt(l, b) == b \in {mapInfo[l], scan.tree[l]}

\* What the refresh in progress is hooking: it is recorded at the address, and a library
\* that took its place there meanwhile is not, or was loaded again.
HandInv ==
    \A p \in Procs :
        /\ pc[p] = "header" => scan.next = 1
        /\ pc[p] \in {"hook", "replace"} =>
              scan.tree[scan.lib] = scan.cursor /\ mapInfo[scan.lib] = Absent
        /\ pc[p] = "replace" => scan.lib \in hookInfo[scan.next].libs
        /\ pc[p] \in {"header", "hook", "replace"} =>
              \A l \in Libs : at[scan.cursor] = l /\ l # scan.lib =>
                  l \in ghost.reloaded \/ ~RecordedAt(l, scan.cursor)

\* The registrations before the next one that want the symbol.
Done(l, s) == {n \in Wanted(l) : n < scan.next /\ hookInfo[n].sym = s}

\* How far the library in hand is hooked.
ProgressInv ==
    ~ghost.overlap /\ ghost.late = {} =>
        \A p \in Procs, l \in Libs :
            /\ pc[p] \in {"hook", "replace"}
            /\ scan.lib = l /\ at[scan.cursor] = l /\ l \notin ghost.reloaded
            => \A s \in Syms : Done(l, s) # {} => slot[l][s] = hookInfo[Max(Done(l, s))]

\* A recorded library that was not loaded again since is hooked: so refreshes are right
\* to pass it over.
RecordInv ==
    ~ghost.overlap /\ ghost.late = {} =>
        \A b \in Bases, l \in Libs :
            /\ at[b] = l /\ l \notin ghost.reloaded
            /\ RecordedAt(l, b) /\ ~InHand(l) /\ Match(l)
            => Hooked(l)

\* A refresh that nothing disturbs has recorded the libraries up to where it is.
Passed(p, b) == b < scan.cursor \/ (b = scan.cursor /\ pc[p] # "header")

QuietInv ==
    \A p \in Procs :
        Refreshing(p) /\ scan.quiet =>
            /\ pc[p] \in {"header", "hook", "replace"} => at[scan.cursor] = scan.lib
            /\ \A l \in Libs : pc[p] = "header" /\ scan.lib = l => Match(l)
            /\ \A b \in Bases, l \in Libs :
                  Passed(p, b) /\ at[b] = l /\ Match(l) => scan.tree[l] = b
            /\ \A l \in Libs : scan.tree[l] # Absent =>
                  at[scan.tree[l]] = l /\ Passed(p, scan.tree[l])
            /\ pc[p] = "finish" => \A b \in Bases : at[b] # None => b <= scan.cursor

RefreshInv == AtInv /\ HandInv /\ ProgressInv /\ RecordInv /\ QuietInv

\* The inductive invariant of the whole specification.
IInv ==
    /\ TypeInv
    /\ NoUseAfterFree
    /\ OldInv
    /\ CalmInv
    /\ RefreshSurvivesDlclose
    /\ RefreshInv

USE BasesAssumption, HooksAssumption, InitialAssumption, BoundsAssumption

-----------------------------------------------------------------------------

\* Nothing is registered, recorded or running at the start.
LEMMA InitType == Init => TypeInv
<1> SUFFICES ASSUME Init PROVE TypeInv
  OBVIOUS
<1>1. ListType /\ MemoryType
  BY DEF Init, ListType, MemoryType
<1>2. FlagType
  BY DEF Init, FlagType, Flags, Ghost
<1>3. ControlType
  BY DEF Init, ControlType, Procs, ThreadPC, WorkerPC, Refreshing
<1>4. ScanInv
  BY DEF Init, ScanInv, NoLine, Scan, Absent
<1> QED
  BY <1>1, <1>2, <1>3, <1>4 DEF TypeInv

\* A set of natural numbers that is not empty has a least element.
LEMMA MinIn ==
  ASSUME NEW S \in SUBSET Nat, S # {}
  PROVE  Min(S) \in S /\ \A n \in S : Min(S) <= n
<1> DEFINE Less == {ss \in Nat \X Nat : ss[1] < ss[2]}
<1>1. IsWellFoundedOn(Less, Nat)
  BY NatLessThanWellFounded DEF OpToRel
<1>2. PICK m \in S : \A n \in S : ~(<<n, m>> \in Less)
  <2> HIDE DEF Less
  <2> QED
    BY <1>1, WFMin
<1>3. ASSUME NEW n \in S PROVE m <= n
  <2>1. n \in Nat /\ m \in Nat
    OBVIOUS
  <2>2. ~(n < m)
    BY <1>2, <2>1
  <2> QED
    BY <2>1, <2>2
<1> QED
  BY <1>3 DEF Min

\* What a registration names.
LEMMA HookAt ==
  ASSUME TypeInv, NEW n \in 1..Len(hookInfo)
  PROVE  hookInfo[n] \in Hooks /\ hookInfo[n].sym \in Syms /\ hookInfo[n].libs \subseteq Libs
<1>1. hookInfo[n] \in Hooks
  BY DEF TypeInv, ListType
<1> QED
  BY <1>1

\* The next line of the maps, if there is one.
LEMMA NextLineCases ==
  ASSUME TypeInv, NEW p \in Procs, NextLine(p)
  PROVE  /\ pc[p] = "line"
         /\ UNCHANGED <<lists, mapInfo, control, locks, memory, ghost, budget, async>>
         /\ \/ /\ \A b \in Bases : b > scan.cursor => at[b] = None
               /\ pc' = [pc EXCEPT ![p] = "finish"]
               /\ scan' = [scan EXCEPT !.lib = None, !.next = 1]
            \/ \E b \in Bases :
                  /\ b > scan.cursor /\ at[b] \in Libs
                  /\ \A c \in Bases : c > scan.cursor /\ c < b => at[c] = None
                  /\ \/ /\ Match(at[b])
                        /\ scan' = [scan EXCEPT !.cursor = b, !.lib = at[b], !.next = 1]
                        /\ pc' = [pc EXCEPT ![p] = "header"]
                     \/ /\ ~Match(at[b])
                        /\ scan' = [scan EXCEPT !.cursor = b, !.lib = None, !.next = 1]
                        /\ UNCHANGED pc
<1> DEFINE rest == {b \in Bases : b > scan.cursor /\ at[b] # None}
<1>1. CASE rest = {}
  BY <1>1 DEF NextLine, Goto
<1>2. CASE rest # {}
  <2>1. PICK b \in rest : b = Min(rest) /\ \A c \in rest : b <= c
    <3>1. rest \subseteq Nat
      OBVIOUS
    <3> QED
      BY <1>2, <3>1, MinIn
  <2>2. b \in Bases /\ b > scan.cursor /\ at[b] \in Libs
    BY <2>1 DEF TypeInv, MemoryType
  <2>3. ASSUME NEW c \in Bases, c > scan.cursor, c < b PROVE at[c] = None
    <3>1. ~(b <= c)
      BY <2>2, <2>3
    <3>2. c \notin rest
      BY <2>1, <3>1
    <3> QED
      BY <2>3, <3>2
  <2>4. \/ /\ Match(at[b])
           /\ scan' = [scan EXCEPT !.cursor = b, !.lib = at[b], !.next = 1]
           /\ pc' = [pc EXCEPT ![p] = "header"]
        \/ /\ ~Match(at[b])
           /\ scan' = [scan EXCEPT !.cursor = b, !.lib = None, !.next = 1]
           /\ UNCHANGED pc
    BY <1>2, <2>1 DEF NextLine, Goto
  <2>5. pc[p] = "line" /\ UNCHANGED <<lists, mapInfo, control, locks, memory, ghost, budget, async>>
    BY DEF NextLine
  <2> QED
    BY <2>2, <2>3, <2>4, <2>5
<1> QED
  BY <1>1, <1>2

\* The next registration to hook, and what is done with it.
LEMMA SaveOldCases ==
  ASSUME TypeInv, NEW p \in Procs, SaveOld(p)
  PROVE  /\ pc[p] = "hook"
         /\ UNCHANGED <<lists, mapInfo, control, locks, at, slot, budget, async>>
         /\ \/ /\ Remaining = {}
               /\ pc' = [pc EXCEPT ![p] = "line"] /\ UNCHANGED <<scan, old, ghost>>
            \/ \E n \in Remaining :
                  /\ n \in 1..Len(hookInfo) /\ \A m \in Remaining : n <= m
                  /\ \/ /\ at[scan.cursor] = None
                        /\ Segv(p) /\ UNCHANGED <<scan, old>>
                     \/ /\ at[scan.cursor] \in Libs
                        /\ slot[at[scan.cursor]][hookInfo[n].sym] = hookInfo[n]
                        /\ scan' = [scan EXCEPT !.next = n + 1]
                        /\ UNCHANGED <<old, pc, ghost>>
                     \/ /\ at[scan.cursor] \in Libs
                        /\ slot[at[scan.cursor]][hookInfo[n].sym] # hookInfo[n]
                        /\ old' = [old EXCEPT ![hookInfo[n]] =
                                       slot[at[scan.cursor]][hookInfo[n].sym]]
                        /\ scan' = [scan EXCEPT !.next = n]
                        /\ pc' = [pc EXCEPT ![p] = "replace"]
                        /\ UNCHANGED ghost
<1>0. pc[p] = "hook" /\ UNCHANGED <<lists, mapInfo, control, locks, at, slot, budget, async>>
  BY DEF SaveOld
<1>1. CASE Remaining = {}
  BY <1>0, <1>1 DEF SaveOld, Goto
<1>2. CASE Remaining # {}
  <2>1. Remaining \subseteq 1..Len(hookInfo)
    BY DEF Remaining, Wanted
  <2>2. Len(hookInfo) \in Nat
    BY DEF TypeInv, ListType
  <2>3. PICK n \in Remaining : n = Min(Remaining) /\ \A m \in Remaining : n <= m
    <3>1. Remaining \in SUBSET Nat
      BY <2>1, <2>2
    <3> QED
      BY <1>2, <3>1, MinIn
  <2>4. at[scan.cursor] = None \/ at[scan.cursor] \in Libs
    BY <1>0 DEF TypeInv, ScanInv, MemoryType
  <2>5. None \notin Libs
    OBVIOUS
  <2>6. \/ /\ at[scan.cursor] = None
           /\ Segv(p) /\ UNCHANGED <<scan, old>>
        \/ /\ at[scan.cursor] # None
           /\ slot[at[scan.cursor]][hookInfo[n].sym] = hookInfo[n]
           /\ scan' = [scan EXCEPT !.next = n + 1]
           /\ UNCHANGED <<old, pc, ghost>>
        \/ /\ at[scan.cursor] # None
           /\ slot[at[scan.cursor]][hookInfo[n].sym] # hookInfo[n]
           /\ old' = [old EXCEPT ![hookInfo[n]] = slot[at[scan.cursor]][hookInfo[n].sym]]
           /\ scan' = [scan EXCEPT !.next = n]
           /\ pc' = [pc EXCEPT ![p] = "replace"]
           /\ UNCHANGED ghost
    BY <1>2, <2>3 DEF SaveOld, Goto, Saved
  <2> QED
    BY <1>0, <2>1, <2>3, <2>4, <2>5, <2>6
<1> QED
  BY <1>1, <1>2

\* The store of the function into the slot of the library at the address.
LEMMA ReplaceCases ==
  ASSUME TypeInv, NEW p \in Procs, Replace(p)
  PROVE  /\ pc[p] = "replace" /\ scan.next \in 1..Len(hookInfo)
         /\ UNCHANGED <<lists, mapInfo, control, locks, at, old, budget, async>>
         /\ \/ /\ at[scan.cursor] = None
               /\ Segv(p) /\ UNCHANGED <<scan, slot>>
            \/ /\ at[scan.cursor] \in Libs
               /\ slot' = [slot EXCEPT ![at[scan.cursor]] =
                              [@ EXCEPT ![hookInfo[scan.next].sym] = hookInfo[scan.next]]]
               /\ scan' = [scan EXCEPT !.next = @ + 1]
               /\ ghost' = [ghost EXCEPT !.tainted = @ \/ at[scan.cursor] # scan.lib]
               /\ pc' = [pc EXCEPT ![p] = "hook"]
<1>1. pc[p] = "replace" /\ UNCHANGED <<lists, mapInfo, control, locks, at, old, budget, async>>
  BY DEF Replace
<1>2. scan.next \in 1..Len(hookInfo) /\ (at[scan.cursor] = None \/ at[scan.cursor] \in Libs)
  BY <1>1 DEF TypeInv, ScanInv, MemoryType
<1> QED
  BY <1>1, <1>2 DEF Replace, Goto

\* A fault of a refresh: it is caught or ends the process.
LEMMA SegvCases ==
  ASSUME NEW p \in Procs, Segv(p)
  PROVE  \/ pc' = [pc EXCEPT ![p] = "line"] /\ UNCHANGED ghost
         \/ /\ ~(sig.handler = Xhook /\ flags.enable)
            /\ ghost' = [ghost EXCEPT !.crashed = TRUE] /\ UNCHANGED pc
  BY DEF Segv, Goto

\* A pathname on a line of the maps.
LEMMA CheckHeaderCases ==
  ASSUME TypeInv, NEW p \in Procs, CheckHeader(p)
  PROVE  /\ pc[p] = "header" /\ scan.lib \in Libs /\ scan.cursor \in Bases
         /\ UNCHANGED <<lists, control, locks, memory, async>>
         /\ \/ /\ at[scan.cursor] = None
               /\ Segv(p) /\ UNCHANGED <<scan, mapInfo>>
            \/ /\ at[scan.cursor] # None /\ scan.tree[scan.lib] # Absent
               /\ pc' = [pc EXCEPT ![p] = "line"]
               /\ UNCHANGED <<scan, mapInfo, ghost>>
            \/ /\ at[scan.cursor] # None /\ scan.tree[scan.lib] = Absent
               /\ scan' = [scan EXCEPT !.tree = [@ EXCEPT ![scan.lib] = scan.cursor]]
               /\ mapInfo' = [mapInfo EXCEPT ![scan.lib] = Absent]
               /\ \/ /\ Known(scan.lib)
                     /\ pc' = [pc EXCEPT ![p] = "line"] /\ UNCHANGED ghost
                  \/ /\ ~Known(scan.lib)
                     /\ pc' = [pc EXCEPT ![p] = "hook"]
                     /\ ghost' = [ghost EXCEPT !.reloaded = @ \ {scan.lib}]
            \/ /\ at[scan.cursor] # None
               /\ scan.tree[scan.lib] = Absent /\ mapInfo[scan.lib] = Absent
               /\ Disturb /\ pc' = [pc EXCEPT ![p] = "line"]
               /\ UNCHANGED <<mapInfo, ghost>>
<1>1. pc[p] = "header" /\ UNCHANGED <<lists, control, locks, memory, async>>
  BY DEF CheckHeader
<1>2. scan.lib \in Libs /\ scan.cursor \in Bases
  BY <1>1 DEF TypeInv, ScanInv
<1>3. CASE at[scan.cursor] = None
  BY <1>1, <1>2, <1>3 DEF CheckHeader
<1>4. CASE at[scan.cursor] # None
  BY <1>1, <1>2, <1>4 DEF CheckHeader, Goto
<1> QED
  BY <1>3, <1>4

-----------------------------------------------------------------------------
(***************************************************************************)
(* Types.                                                                  *)
(***************************************************************************)
\* The lists hold registrations and ignore entries.
LEMMA NextList == TypeInv /\ [Next]_vars => ListType'
<1> SUFFICES ASSUME TypeInv, [Next]_vars PROVE ListType'
  OBVIOUS
<1> USE DEF TypeInv, ListType, Goto, lists, locks, memory, control
<1>1. ASSUME NEW t \in Threads, CallRegister(t, "register") PROVE ListType'
  BY <1>1 DEF CallRegister, Call
<1>2. ASSUME NEW t \in Threads, CallRegister(t, "ignore") PROVE ListType'
  BY <1>2 DEF CallRegister, Call
<1>3. ASSUME NEW t \in Threads, NEW a \in BOOLEAN, CallRefresh(t, a) PROVE ListType'
  BY <1>3 DEF CallRefresh, Call, Spend
<1>4. ASSUME NEW t \in Threads, CallClear(t) PROVE ListType'
  BY <1>4 DEF CallClear, Call, Spend
<1>5. ASSUME NEW t \in Threads, NEW on \in BOOLEAN, EnableSigsegvProtection(t, on) PROVE ListType'
  BY <1>5 DEF EnableSigsegvProtection, Spend
<1>6. ASSUME NEW t \in Threads, NEW h \in Hooks, Register(t, h) PROVE ListType'
  BY <1>6 DEF Register, Disturb
<1>7. ASSUME NEW t \in Threads, NEW i \in Ignores, Ignore(t, i) PROVE ListType'
  BY <1>7 DEF Ignore, Disturb
<1>8. ASSUME NEW t \in Threads, RegisterFails(t) PROVE ListType'
  BY <1>8 DEF RegisterFails
<1>9. ASSUME NEW t \in Threads, InitOnce(t) PROVE ListType'
  BY <1>9 DEF InitOnce
<1>10. ASSUME NEW t \in Threads, AddHandler(t) PROVE ListType'
  BY <1>10 DEF AddHandler
<1>11. ASSUME NEW t \in Threads, InitCheck(t) PROVE ListType'
  BY <1>11 DEF InitCheck, InitDone
<1>12. ASSUME NEW t \in Threads, InitAsyncOnce(t) PROVE ListType'
  BY <1>12 DEF InitAsyncOnce
<1>13. ASSUME NEW t \in Threads, CreateThread(t) PROVE ListType'
  BY <1>13 DEF CreateThread
<1>14. ASSUME NEW t \in Threads, AsyncCheck(t) PROVE ListType'
  BY <1>14 DEF AsyncCheck
<1>15. ASSUME NEW t \in Threads, PostRefresh(t) PROVE ListType'
  BY <1>15 DEF PostRefresh, Signal
<1>16. ASSUME NEW t \in Threads, ClearTest(t) PROVE ListType'
  BY <1>16 DEF ClearTest
<1>17. ASSUME NEW t \in Threads, ClearSignal(t) PROVE ListType'
  BY <1>17 DEF ClearSignal, Signal
<1>18. ASSUME NEW t \in Threads, ClearJoin(t) PROVE ListType'
  BY <1>18 DEF ClearJoin
<1>19. ASSUME NEW t \in Threads, ClearAsync(t) PROVE ListType'
  BY <1>19 DEF ClearAsync
<1>20. ASSUME NEW t \in Threads, ClearHandler(t) PROVE ListType'
  BY <1>20 DEF ClearHandler, HandlerRestored
<1>21. ASSUME NEW t \in Threads, ClearInited(t) PROVE ListType'
  BY <1>21 DEF ClearInited
<1>22. ASSUME NEW t \in Threads, ClearLock(t) PROVE ListType'
  BY <1>22 DEF ClearLock
<1>23. ASSUME NEW t \in Threads, ClearFree(t) PROVE ListType'
  BY <1>23 DEF ClearFree, FreeEntry
<1>24. ASSUME NEW p \in Procs, RefreshLock(p) PROVE ListType'
  BY <1>24 DEF RefreshLock, RefreshEntry, Return
<1>25. ASSUME NEW p \in Procs, NextLine(p) PROVE ListType'
  BY <1>25 DEF NextLine
<1>26. ASSUME NEW p \in Procs, CheckHeader(p) PROVE ListType'
  BY <1>26 DEF CheckHeader, Segv, Disturb
<1>27. ASSUME NEW p \in Procs, SaveOld(p) PROVE ListType'
  BY <1>27 DEF SaveOld, Segv, Saved
<1>28. ASSUME NEW p \in Procs, Replace(p) PROVE ListType'
  BY <1>28 DEF Replace, Segv
<1>29. ASSUME NEW p \in Procs, Finish(p) PROVE ListType'
  BY <1>29 DEF Finish, Return
<1>30. ASSUME NEW w \in Workers, WorkerTop(w) PROVE ListType'
  BY <1>30 DEF WorkerTop
<1>31. ASSUME NEW w \in Workers, WorkerLock(w) PROVE ListType'
  BY <1>31 DEF WorkerLock, WaitLoop
<1>32. ASSUME NEW w \in Workers, Spurious(w) PROVE ListType'
  BY <1>32 DEF Spurious
<1>33. ASSUME NEW l \in Libs, NEW b \in Bases, Dlopen(l, b) PROVE ListType'
  BY <1>33 DEF Dlopen, Disturb
<1>34. ASSUME NEW b \in Bases, Dlclose(b) PROVE ListType'
  BY <1>34 DEF Dlclose, Disturb
<1>35. CASE UNCHANGED vars
  BY <1>35 DEF vars
<1> HIDE DEF TypeInv, ListType, Goto, lists, locks, memory, control
<1> QED
  BY <1>1, <1>2, <1>3, <1>4, <1>5, <1>6, <1>7, <1>8, <1>9, <1>10, <1>11, <1>12, <1>13,
     <1>14, <1>15, <1>16, <1>17, <1>18, <1>19, <1>20, <1>21, <1>22, <1>23, <1>24, <1>25,
     <1>26, <1>27, <1>28, <1>29, <1>30, <1>31, <1>32, <1>33, <1>34, <1>35
     DEF Next, Begin, ApiStep, RefreshStep, WorkerStep, Procs

\* A slot holds a registered function or the original one.
LEMMA NextMemory == TypeInv /\ [Next]_vars => MemoryType'
<1> SUFFICES ASSUME TypeInv, [Next]_vars PROVE MemoryType'
  OBVIOUS
<1> USE DEF TypeInv, MemoryType, Goto, lists, locks, memory, control
<1>1. ASSUME NEW t \in Threads, CallRegister(t, "register") PROVE MemoryType'
  BY <1>1 DEF CallRegister, Call
<1>2. ASSUME NEW t \in Threads, CallRegister(t, "ignore") PROVE MemoryType'
  BY <1>2 DEF CallRegister, Call
<1>3. ASSUME NEW t \in Threads, NEW a \in BOOLEAN, CallRefresh(t, a) PROVE MemoryType'
  BY <1>3 DEF CallRefresh, Call, Spend
<1>4. ASSUME NEW t \in Threads, CallClear(t) PROVE MemoryType'
  BY <1>4 DEF CallClear, Call, Spend
<1>5. ASSUME NEW t \in Threads, NEW on \in BOOLEAN, EnableSigsegvProtection(t, on) PROVE MemoryType'
  BY <1>5 DEF EnableSigsegvProtection, Spend
<1>6. ASSUME NEW t \in Threads, NEW h \in Hooks, Register(t, h) PROVE MemoryType'
  BY <1>6 DEF Register, Disturb
<1>7. ASSUME NEW t \in Threads, NEW i \in Ignores, Ignore(t, i) PROVE MemoryType'
  BY <1>7 DEF Ignore, Disturb
<1>8. ASSUME NEW t \in Threads, RegisterFails(t) PROVE MemoryType'
  BY <1>8 DEF RegisterFails
<1>9. ASSUME NEW t \in Threads, InitOnce(t) PROVE MemoryType'
  BY <1>9 DEF InitOnce
<1>10. ASSUME NEW t \in Threads, AddHandler(t) PROVE MemoryType'
  BY <1>10 DEF AddHandler
<1>11. ASSUME NEW t \in Threads, InitCheck(t) PROVE MemoryType'
  BY <1>11 DEF InitCheck, InitDone
<1>12. ASSUME NEW t \in Threads, InitAsyncOnce(t) PROVE MemoryType'
  BY <1>12 DEF InitAsyncOnce
<1>13. ASSUME NEW t \in Threads, CreateThread(t) PROVE MemoryType'
  BY <1>13 DEF CreateThread
<1>14. ASSUME NEW t \in Threads, AsyncCheck(t) PROVE MemoryType'
  BY <1>14 DEF AsyncCheck
<1>15. ASSUME NEW t \in Threads, PostRefresh(t) PROVE MemoryType'
  BY <1>15 DEF PostRefresh, Signal
<1>16. ASSUME NEW t \in Threads, ClearTest(t) PROVE MemoryType'
  BY <1>16 DEF ClearTest
<1>17. ASSUME NEW t \in Threads, ClearSignal(t) PROVE MemoryType'
  BY <1>17 DEF ClearSignal, Signal
<1>18. ASSUME NEW t \in Threads, ClearJoin(t) PROVE MemoryType'
  BY <1>18 DEF ClearJoin
<1>19. ASSUME NEW t \in Threads, ClearAsync(t) PROVE MemoryType'
  BY <1>19 DEF ClearAsync
<1>20. ASSUME NEW t \in Threads, ClearHandler(t) PROVE MemoryType'
  BY <1>20 DEF ClearHandler, HandlerRestored
<1>21. ASSUME NEW t \in Threads, ClearInited(t) PROVE MemoryType'
  BY <1>21 DEF ClearInited
<1>22. ASSUME NEW t \in Threads, ClearLock(t) PROVE MemoryType'
  BY <1>22 DEF ClearLock
<1>23. ASSUME NEW t \in Threads, ClearFree(t) PROVE MemoryType'
  BY <1>23 DEF ClearFree, FreeEntry
<1>24. ASSUME NEW p \in Procs, RefreshLock(p) PROVE MemoryType'
  BY <1>24 DEF RefreshLock, RefreshEntry, Return
<1>25. ASSUME NEW p \in Procs, NextLine(p) PROVE MemoryType'
  BY <1>25 DEF NextLine
<1>26. ASSUME NEW p \in Procs, CheckHeader(p) PROVE MemoryType'
  BY <1>26 DEF CheckHeader, Segv, Disturb
<1>27. ASSUME NEW p \in Procs, SaveOld(p) PROVE MemoryType'
  <2> USE <1>27
  <2>1. UNCHANGED <<mapInfo, at, slot>>
    BY SaveOldCases DEF memory
  <2>2. CASE old' = old
    BY <2>1, <2>2
  <2>3. CASE old' # old
    <3>1. PICK n \in 1..Len(hookInfo) :
            /\ at[scan.cursor] \in Libs
            /\ old' = [old EXCEPT ![hookInfo[n]] = slot[at[scan.cursor]][hookInfo[n].sym]]
      BY <2>3, SaveOldCases
    <3>2. hookInfo[n] \in Hooks /\ hookInfo[n].sym \in Syms
      BY HookAt
    <3> QED
      BY <2>1, <3>1, <3>2
  <2> QED
    BY <2>2, <2>3
<1>28. ASSUME NEW p \in Procs, Replace(p) PROVE MemoryType'
  <2>1. scan.next \in 1..Len(hookInfo) /\ UNCHANGED <<mapInfo, at, old>>
    BY <1>28, ReplaceCases
  <2>2. hookInfo[scan.next] \in Hooks /\ hookInfo[scan.next].sym \in Syms
    BY <2>1, HookAt
  <2>3. \/ slot' = slot
        \/ slot' = [slot EXCEPT ![at[scan.cursor]] =
                       [@ EXCEPT ![hookInfo[scan.next].sym] = hookInfo[scan.next]]]
    BY <1>28, ReplaceCases
  <2>4. CASE slot' = slot
    BY <2>1, <2>4
  <2>5. CASE slot' = [slot EXCEPT ![at[scan.cursor]] =
                        [@ EXCEPT ![hookInfo[scan.next].sym] = hookInfo[scan.next]]]
    <3>1. \A l \in Libs : [slot[l] EXCEPT ![hookInfo[scan.next].sym] = hookInfo[scan.next]]
                             \in [Syms -> Hooks \cup {Original}]
      BY <2>2
    <3>2. slot' \in [Libs -> [Syms -> Hooks \cup {Original}]]
      BY <2>5, <3>1
    <3> QED
      BY <2>1, <3>2
  <2> QED
    BY <2>3, <2>4, <2>5
<1>29. ASSUME NEW p \in Procs, Finish(p) PROVE MemoryType'
  BY <1>29 DEF Finish, memory, ScanInv, Scan
<1>30. ASSUME NEW w \in Workers, WorkerTop(w) PROVE MemoryType'
  BY <1>30 DEF WorkerTop
<1>31. ASSUME NEW w \in Workers, WorkerLock(w) PROVE MemoryType'
  BY <1>31 DEF WorkerLock, WaitLoop
<1>32. ASSUME NEW w \in Workers, Spurious(w) PROVE MemoryType'
  BY <1>32 DEF Spurious
<1>33. ASSUME NEW l \in Libs, NEW b \in Bases, Dlopen(l, b) PROVE MemoryType'
  BY <1>33 DEF Dlopen, Disturb
<1>34. ASSUME NEW b \in Bases, Dlclose(b) PROVE MemoryType'
  BY <1>34 DEF Dlclose, Disturb
<1>35. CASE UNCHANGED vars
  BY <1>35 DEF vars
<1> HIDE DEF TypeInv, MemoryType, Goto, lists, locks, memory, control
<1> QED
  BY <1>1, <1>2, <1>3, <1>4, <1>5, <1>6, <1>7, <1>8, <1>9, <1>10, <1>11, <1>12, <1>13,
     <1>14, <1>15, <1>16, <1>17, <1>18, <1>19, <1>20, <1>21, <1>22, <1>23, <1>24, <1>25,
     <1>26, <1>27, <1>28, <1>29, <1>30, <1>31, <1>32, <1>33, <1>34, <1>35
     DEF Next, Begin, ApiStep, RefreshStep, WorkerStep, Procs

\* The flags are booleans.
LEMMA NextFlag == TypeInv /\ [Next]_vars => FlagType'
<1> SUFFICES ASSUME TypeInv, [Next]_vars PROVE FlagType'
  OBVIOUS
<1> USE DEF TypeInv, FlagType, Flags, Ghost, ListType, MemoryType, Goto, lists, locks,
            memory, control
<1>1. ASSUME NEW t \in Threads, CallRegister(t, "register") PROVE FlagType'
  BY <1>1 DEF CallRegister, Call
<1>2. ASSUME NEW t \in Threads, CallRegister(t, "ignore") PROVE FlagType'
  BY <1>2 DEF CallRegister, Call
<1>3. ASSUME NEW t \in Threads, NEW a \in BOOLEAN, CallRefresh(t, a) PROVE FlagType'
  BY <1>3 DEF CallRefresh, Call, Spend
<1>4. ASSUME NEW t \in Threads, CallClear(t) PROVE FlagType'
  BY <1>4 DEF CallClear, Call, Spend
<1>5. ASSUME NEW t \in Threads, NEW on \in BOOLEAN, EnableSigsegvProtection(t, on) PROVE FlagType'
  BY <1>5 DEF EnableSigsegvProtection, Spend
<1>6. ASSUME NEW t \in Threads, NEW h \in Hooks, Register(t, h) PROVE FlagType'
  BY <1>6 DEF Register, Disturb
<1>7. ASSUME NEW t \in Threads, NEW i \in Ignores, Ignore(t, i) PROVE FlagType'
  BY <1>7 DEF Ignore, Disturb
<1>8. ASSUME NEW t \in Threads, RegisterFails(t) PROVE FlagType'
  BY <1>8 DEF RegisterFails
<1>9. ASSUME NEW t \in Threads, InitOnce(t) PROVE FlagType'
  BY ZenonT(30), <1>9 DEF InitOnce
<1>10. ASSUME NEW t \in Threads, AddHandler(t) PROVE FlagType'
  <2>1. flags' \in Flags
    BY <1>10 DEF AddHandler
  <2>2. sig' \in [handler : {App, Xhook, None}, saved : {App, Xhook, None}]
    BY <1>10 DEF AddHandler
  <2> QED
    BY <1>10, <2>1, <2>2 DEF AddHandler
<1>11. ASSUME NEW t \in Threads, InitCheck(t) PROVE FlagType'
  BY <1>11 DEF InitCheck, InitDone
<1>12. ASSUME NEW t \in Threads, InitAsyncOnce(t) PROVE FlagType'
  BY ZenonT(30), <1>12 DEF InitAsyncOnce
<1>13. ASSUME NEW t \in Threads, CreateThread(t) PROVE FlagType'
  BY ZenonT(30), <1>13 DEF CreateThread
<1>14. ASSUME NEW t \in Threads, AsyncCheck(t) PROVE FlagType'
  BY <1>14 DEF AsyncCheck
<1>15. ASSUME NEW t \in Threads, PostRefresh(t) PROVE FlagType'
  BY <1>15 DEF PostRefresh, Signal
<1>16. ASSUME NEW t \in Threads, ClearTest(t) PROVE FlagType'
  BY <1>16 DEF ClearTest
<1>17. ASSUME NEW t \in Threads, ClearSignal(t) PROVE FlagType'
  BY <1>17 DEF ClearSignal, Signal
<1>18. ASSUME NEW t \in Threads, ClearJoin(t) PROVE FlagType'
  BY <1>18 DEF ClearJoin
<1>19. ASSUME NEW t \in Threads, ClearAsync(t) PROVE FlagType'
  BY <1>19 DEF ClearAsync
<1>20. ASSUME NEW t \in Threads, ClearHandler(t) PROVE FlagType'
  <2>1. flags' \in Flags
    BY ZenonT(30), <1>20 DEF ClearHandler
  <2>2. sig' \in [handler : {App, Xhook, None}, saved : {App, Xhook, None}]
    BY <1>20 DEF ClearHandler, HandlerRestored
  <2> QED
    BY <1>20, <2>1, <2>2 DEF ClearHandler
<1>21. ASSUME NEW t \in Threads, ClearInited(t) PROVE FlagType'
  BY <1>21 DEF ClearInited
<1>22. ASSUME NEW t \in Threads, ClearLock(t) PROVE FlagType'
  BY <1>22 DEF ClearLock
<1>23. ASSUME NEW t \in Threads, ClearFree(t) PROVE FlagType'
  BY ZenonT(30), <1>23 DEF ClearFree, FreeEntry
<1>24. ASSUME NEW p \in Procs, RefreshLock(p) PROVE FlagType'
  BY <1>24 DEF RefreshLock, RefreshEntry, Return
<1>25. ASSUME NEW p \in Procs, NextLine(p) PROVE FlagType'
  BY <1>25 DEF NextLine
<1>26. ASSUME NEW p \in Procs, CheckHeader(p) PROVE FlagType'
  <2>1. UNCHANGED <<flags, sig>> /\ scan.lib \in Libs
    BY <1>26, CheckHeaderCases DEF control
  <2>2. \/ ghost' = ghost \/ ghost' = [ghost EXCEPT !.crashed = TRUE]
        \/ ghost' = [ghost EXCEPT !.reloaded = @ \ {scan.lib}]
    BY <1>26, CheckHeaderCases, SegvCases
  <2>3. ghost.reloaded \ {scan.lib} \in SUBSET Libs
    OBVIOUS
  <2>4. ghost' \in Ghost
    BY <2>2, <2>3
  <2> QED
    BY <2>1, <2>4
<1>27. ASSUME NEW p \in Procs, SaveOld(p) PROVE FlagType'
  <2>1. UNCHANGED <<flags, sig>>
    BY <1>27, SaveOldCases DEF control
  <2>2. ghost' = ghost \/ ghost' = [ghost EXCEPT !.crashed = TRUE]
    BY <1>27, SaveOldCases, SegvCases
  <2>3. ghost' \in Ghost
    BY <2>2
  <2> QED
    BY <2>1, <2>3
<1>28. ASSUME NEW p \in Procs, Replace(p) PROVE FlagType'
  <2>1. UNCHANGED <<flags, sig>>
    BY <1>28, ReplaceCases DEF control
  <2>2. \/ ghost' = ghost \/ ghost' = [ghost EXCEPT !.crashed = TRUE]
        \/ ghost' = [ghost EXCEPT !.tainted = @ \/ at[scan.cursor] # scan.lib]
    BY <1>28, ReplaceCases, SegvCases
  <2> QED
    BY ZenonT(30), <2>1, <2>2
<1>29. ASSUME NEW p \in Procs, Finish(p) PROVE FlagType'
  BY <1>29 DEF Finish, Return
<1>30. ASSUME NEW w \in Workers, WorkerTop(w) PROVE FlagType'
  BY <1>30 DEF WorkerTop
<1>31. ASSUME NEW w \in Workers, WorkerLock(w) PROVE FlagType'
  BY <1>31 DEF WorkerLock, WaitLoop
<1>32. ASSUME NEW w \in Workers, Spurious(w) PROVE FlagType'
  BY <1>32 DEF Spurious
<1>33. ASSUME NEW l \in Libs, NEW b \in Bases, Dlopen(l, b) PROVE FlagType'
  BY <1>33 DEF Dlopen, Disturb
<1>34. ASSUME NEW b \in Bases, Dlclose(b) PROVE FlagType'
  BY <1>34 DEF Dlclose, Disturb
<1>35. CASE UNCHANGED vars
  BY <1>35 DEF vars
<1> HIDE DEF TypeInv, FlagType, Flags, Ghost, ListType, MemoryType, Goto, lists, locks,
             memory, control
<1> QED
  BY <1>1, <1>2, <1>3, <1>4, <1>5, <1>6, <1>7, <1>8, <1>9, <1>10, <1>11, <1>12, <1>13,
     <1>14, <1>15, <1>16, <1>17, <1>18, <1>19, <1>20, <1>21, <1>22, <1>23, <1>24, <1>25,
     <1>26, <1>27, <1>28, <1>29, <1>30, <1>31, <1>32, <1>33, <1>34, <1>35
     DEF Next, Begin, ApiStep, RefreshStep, WorkerStep, Procs

\* Every step goes to a place of its call, with the mutexes of that place.
LEMMA NextControl == TypeInv /\ [Next]_vars => ControlType'
<1> SUFFICES ASSUME TypeInv, [Next]_vars PROVE ControlType'
  OBVIOUS
<1> USE DEF TypeInv, ControlType, ThreadPC, WorkerPC, ScanPC, ClearPC, AsyncPC, Refreshing,
            Procs, Idle, Goto, lists, locks, memory, control
<1>1. ASSUME NEW t \in Threads, CallRegister(t, "register") PROVE ControlType'
  BY <1>1 DEF CallRegister, Call
<1>2. ASSUME NEW t \in Threads, CallRegister(t, "ignore") PROVE ControlType'
  BY <1>2 DEF CallRegister, Call
<1>3. ASSUME NEW t \in Threads, NEW a \in BOOLEAN, CallRefresh(t, a) PROVE ControlType'
  BY <1>3 DEF CallRefresh, Call, Spend
<1>4. ASSUME NEW t \in Threads, CallClear(t) PROVE ControlType'
  BY <1>4 DEF CallClear, Call, Spend
<1>5. ASSUME NEW t \in Threads, NEW on \in BOOLEAN, EnableSigsegvProtection(t, on) PROVE ControlType'
  BY <1>5 DEF EnableSigsegvProtection, Spend
<1>6. ASSUME NEW t \in Threads, NEW h \in Hooks, Register(t, h) PROVE ControlType'
  BY <1>6 DEF Register, Disturb
<1>7. ASSUME NEW t \in Threads, NEW i \in Ignores, Ignore(t, i) PROVE ControlType'
  BY <1>7 DEF Ignore, Disturb
<1>8. ASSUME NEW t \in Threads, RegisterFails(t) PROVE ControlType'
  BY <1>8 DEF RegisterFails
<1>9. ASSUME NEW t \in Threads, InitOnce(t) PROVE ControlType'
  BY <1>9 DEF InitOnce
<1>10. ASSUME NEW t \in Threads, AddHandler(t) PROVE ControlType'
  BY <1>10 DEF AddHandler
<1>11. ASSUME NEW t \in Threads, InitCheck(t) PROVE ControlType'
  BY <1>11 DEF InitCheck, InitDone
<1>12. ASSUME NEW t \in Threads, InitAsyncOnce(t) PROVE ControlType'
  BY <1>12 DEF InitAsyncOnce
<1>13. ASSUME NEW t \in Threads, CreateThread(t) PROVE ControlType'
  BY <1>13 DEF CreateThread
<1>14. ASSUME NEW t \in Threads, AsyncCheck(t) PROVE ControlType'
  BY <1>14 DEF AsyncCheck
<1>15. ASSUME NEW t \in Threads, PostRefresh(t) PROVE ControlType'
  BY <1>15 DEF PostRefresh, Signal
<1>16. ASSUME NEW t \in Threads, ClearTest(t) PROVE ControlType'
  BY <1>16 DEF ClearTest
<1>17. ASSUME NEW t \in Threads, ClearSignal(t) PROVE ControlType'
  BY <1>17 DEF ClearSignal, Signal
<1>18. ASSUME NEW t \in Threads, ClearJoin(t) PROVE ControlType'
  BY <1>18 DEF ClearJoin
<1>19. ASSUME NEW t \in Threads, ClearAsync(t) PROVE ControlType'
  BY <1>19 DEF ClearAsync
<1>20. ASSUME NEW t \in Threads, ClearHandler(t) PROVE ControlType'
  BY <1>20 DEF ClearHandler, HandlerRestored
<1>21. ASSUME NEW t \in Threads, ClearInited(t) PROVE ControlType'
  BY <1>21 DEF ClearInited
<1>22. ASSUME NEW t \in Threads, ClearLock(t) PROVE ControlType'
  BY <1>22 DEF ClearLock
<1>23. ASSUME NEW t \in Threads, ClearFree(t) PROVE ControlType'
  BY <1>23 DEF ClearFree, FreeEntry
<1>24. ASSUME NEW p \in Procs, RefreshLock(p) PROVE ControlType'
  BY <1>24 DEF RefreshLock, RefreshEntry, Return
<1>25. ASSUME NEW p \in Procs, NextLine(p) PROVE ControlType'
  BY <1>25 DEF NextLine
<1>26. ASSUME NEW p \in Procs, CheckHeader(p) PROVE ControlType'
  BY <1>26 DEF CheckHeader, Segv, Disturb
<1>27. ASSUME NEW p \in Procs, SaveOld(p) PROVE ControlType'
  BY <1>27 DEF SaveOld, Segv, Saved
<1>28. ASSUME NEW p \in Procs, Replace(p) PROVE ControlType'
  BY <1>28 DEF Replace, Segv
<1>29. ASSUME NEW p \in Procs, Finish(p) PROVE ControlType'
  BY <1>29 DEF Finish, Return
<1>30. ASSUME NEW w \in Workers, WorkerTop(w) PROVE ControlType'
  BY <1>30 DEF WorkerTop
<1>31. ASSUME NEW w \in Workers, WorkerLock(w) PROVE ControlType'
  BY <1>31 DEF WorkerLock, WaitLoop
<1>32. ASSUME NEW w \in Workers, Spurious(w) PROVE ControlType'
  BY <1>32 DEF Spurious
<1>33. ASSUME NEW l \in Libs, NEW b \in Bases, Dlopen(l, b) PROVE ControlType'
  BY <1>33 DEF Dlopen, Disturb
<1>34. ASSUME NEW b \in Bases, Dlclose(b) PROVE ControlType'
  BY <1>34 DEF Dlclose, Disturb
<1>35. CASE UNCHANGED vars
  BY <1>35 DEF vars
<1> HIDE DEF TypeInv, ControlType, ThreadPC, WorkerPC, ScanPC, ClearPC, AsyncPC,
             Refreshing, Procs, Idle, Goto, lists, locks, memory, control
<1> QED
  BY <1>1, <1>2, <1>3, <1>4, <1>5, <1>6, <1>7, <1>8, <1>9, <1>10, <1>11, <1>12, <1>13,
     <1>14, <1>15, <1>16, <1>17, <1>18, <1>19, <1>20, <1>21, <1>22, <1>23, <1>24, <1>25,
     <1>26, <1>27, <1>28, <1>29, <1>30, <1>31, <1>32, <1>33, <1>34, <1>35
     DEF Next, Begin, ApiStep, RefreshStep, WorkerStep, Procs

\* The locals of the refresh in progress are changed by it only, and dropped at its end.
LEMMA NextScan == TypeInv /\ [Next]_vars => ScanInv'
<1> SUFFICES ASSUME TypeInv, [Next]_vars PROVE ScanInv'
  OBVIOUS
<1> USE DEF TypeInv, ControlType, ScanInv, Scan, NoLine, Absent, Refreshing, Procs, Goto,
            lists, locks, memory, control
<1>1. ASSUME NEW t \in Threads, CallRegister(t, "register") PROVE ScanInv'
  BY <1>1 DEF CallRegister, Call
<1>2. ASSUME NEW t \in Threads, CallRegister(t, "ignore") PROVE ScanInv'
  BY <1>2 DEF CallRegister, Call
<1>3. ASSUME NEW t \in Threads, NEW a \in BOOLEAN, CallRefresh(t, a) PROVE ScanInv'
  BY <1>3 DEF CallRefresh, Call, Spend
<1>4. ASSUME NEW t \in Threads, CallClear(t) PROVE ScanInv'
  BY <1>4 DEF CallClear, Call, Spend
<1>5. ASSUME NEW t \in Threads, NEW on \in BOOLEAN, EnableSigsegvProtection(t, on) PROVE ScanInv'
  BY <1>5 DEF EnableSigsegvProtection, Spend
<1>6. ASSUME NEW t \in Threads, NEW h \in Hooks, Register(t, h) PROVE ScanInv'
  <2>1. hookInfo' = Append(hookInfo, h) /\ UNCHANGED <<refreshMutex, mapInfo>>
    BY <1>6
       DEF Register, locks, TypeInv, ControlType, ScanInv, Scan, NoLine, Absent,
           Refreshing
  <2>2. Len(hookInfo) \in Nat /\ Len(hookInfo') = Len(hookInfo) + 1
    BY <2>1 DEF ListType, TypeInv, ControlType, ScanInv, Scan, NoLine, Absent, Refreshing
  <2>3. pc' = [pc EXCEPT ![t] = "idle"]
    BY <1>6
       DEF Register, Goto, TypeInv, ControlType, ScanInv, Scan, NoLine, Absent, Refreshing
  <2>4. \/ scan' = scan
        \/ scan' = [scan EXCEPT !.quiet = FALSE] /\ refreshMutex # None
    BY <1>6
       DEF Register, Disturb, TypeInv, ControlType, ScanInv, Scan, NoLine, Absent,
           Refreshing
  <2>5. /\ scan' \in Scan /\ scan'.next = scan.next
        /\ scan'.cursor = scan.cursor /\ scan'.lib = scan.lib
    BY ZenonT(30), <2>4 DEF TypeInv, ScanInv, Scan
  <2>6. scan.next \in 1..Len(hookInfo') + 1
    BY <2>2 DEF TypeInv, ScanInv
  <2>7. \A q \in Procs : pc'[q] \in {"header", "hook", "replace"} => pc'[q] = pc[q]
    BY <2>3 DEF TypeInv, ControlType
  <2>8. \A q \in Procs : pc'[q] = "replace" => scan.next \in 1..Len(hookInfo')
    BY <2>2, <2>7 DEF TypeInv, ScanInv
  <2> QED
    BY <2>1, <2>4, <2>5, <2>6, <2>7, <2>8 DEF TypeInv, ScanInv
<1>7. ASSUME NEW t \in Threads, NEW i \in Ignores, Ignore(t, i) PROVE ScanInv'
  BY <1>7 DEF Ignore, Disturb
<1>8. ASSUME NEW t \in Threads, RegisterFails(t) PROVE ScanInv'
  BY <1>8 DEF RegisterFails
<1>9. ASSUME NEW t \in Threads, InitOnce(t) PROVE ScanInv'
  BY <1>9 DEF InitOnce
<1>10. ASSUME NEW t \in Threads, AddHandler(t) PROVE ScanInv'
  BY <1>10 DEF AddHandler
<1>11. ASSUME NEW t \in Threads, InitCheck(t) PROVE ScanInv'
  BY <1>11 DEF InitCheck, InitDone
<1>12. ASSUME NEW t \in Threads, InitAsyncOnce(t) PROVE ScanInv'
  BY <1>12 DEF InitAsyncOnce
<1>13. ASSUME NEW t \in Threads, CreateThread(t) PROVE ScanInv'
  <2>1. UNCHANGED <<hookInfo, refreshMutex, scan>>
    BY <1>13 DEF CreateThread
  <2>2. \A q \in Procs : pc'[q] = pc[q] \/ pc'[q] \in {"top", "asynccheck"}
    BY <1>13 DEF CreateThread
  <2> QED
    BY <2>1, <2>2
<1>14. ASSUME NEW t \in Threads, AsyncCheck(t) PROVE ScanInv'
  BY <1>14 DEF AsyncCheck
<1>15. ASSUME NEW t \in Threads, PostRefresh(t) PROVE ScanInv'
  <2>1. UNCHANGED <<hookInfo, refreshMutex, scan>>
    BY <1>15 DEF PostRefresh, lists, locks, TypeInv
  <2>2. \A q \in Procs : pc'[q] = pc[q] \/ pc'[q] \in {"lock", "idle", "join"}
    BY SMTT(30), <1>15 DEF PostRefresh, Signal, Goto, TypeInv, ControlType, Procs
  <2> QED
    BY <2>1, <2>2 DEF TypeInv, ControlType, ScanInv, Refreshing
<1>16. ASSUME NEW t \in Threads, ClearTest(t) PROVE ScanInv'
  BY <1>16 DEF ClearTest
<1>17. ASSUME NEW t \in Threads, ClearSignal(t) PROVE ScanInv'
  <2>1. UNCHANGED <<hookInfo, refreshMutex, scan>>
    BY <1>17 DEF ClearSignal, lists, locks, TypeInv
  <2>2. \A q \in Procs : pc'[q] = pc[q] \/ pc'[q] \in {"lock", "idle", "join"}
    BY SMTT(30), <1>17 DEF ClearSignal, Signal, Goto, TypeInv, ControlType, Procs
  <2> QED
    BY <2>1, <2>2 DEF TypeInv, ControlType, ScanInv, Refreshing
<1>18. ASSUME NEW t \in Threads, ClearJoin(t) PROVE ScanInv'
  BY <1>18 DEF ClearJoin
<1>19. ASSUME NEW t \in Threads, ClearAsync(t) PROVE ScanInv'
  BY <1>19 DEF ClearAsync
<1>20. ASSUME NEW t \in Threads, ClearHandler(t) PROVE ScanInv'
  BY <1>20 DEF ClearHandler, HandlerRestored
<1>21. ASSUME NEW t \in Threads, ClearInited(t) PROVE ScanInv'
  BY <1>21 DEF ClearInited
<1>22. ASSUME NEW t \in Threads, ClearLock(t) PROVE ScanInv'
  BY <1>22 DEF ClearLock
<1>23. ASSUME NEW t \in Threads, ClearFree(t) PROVE ScanInv'
  BY <1>23 DEF ClearFree, FreeEntry
<1>24. ASSUME NEW p \in Procs, RefreshLock(p) PROVE ScanInv'
  <2>1. Len(hookInfo) \in Nat /\ hookInfo' = hookInfo
    BY <1>24
       DEF RefreshLock, lists, ListType, TypeInv, ControlType, ScanInv, Scan, NoLine,
           Absent, Refreshing
  <2>2. CASE pc' = [pc EXCEPT ![p] = "line"] /\ scan' = NoLine /\ refreshMutex' = p
    <3>1. NoLine \in Scan /\ NoLine.next = 1
      BY DEF Scan, NoLine, TypeInv, ControlType, ScanInv, Absent, Refreshing
    <3>2. \A q \in Procs : pc'[q] \notin {"header", "hook", "replace"}
      BY <1>24, <2>2
         DEF RefreshLock, RefreshEntry, TypeInv, ControlType, ScanInv, Scan, NoLine,
             Absent, Refreshing
    <3>3. refreshMutex' # None
      BY <2>2 DEF Procs
    <3> QED
      BY <2>1, <2>2, <3>1, <3>2, <3>3
         DEF TypeInv, ControlType, ScanInv, Scan, NoLine, Absent, Refreshing
  <2>3. CASE pc' = [pc EXCEPT ![p] = Return(p)] /\ UNCHANGED <<refreshMutex, scan>>
    BY <2>1, <2>3
       DEF Return, TypeInv, ControlType, ScanInv, Scan, NoLine, Absent, Refreshing
  <2> QED
    BY <1>24, <2>2, <2>3
       DEF RefreshLock, Goto, TypeInv, ControlType, ScanInv, Scan, NoLine, Absent,
           Refreshing
<1>25. ASSUME NEW p \in Procs, NextLine(p) PROVE ScanInv'
  <2>1. pc[p] = "line" /\ UNCHANGED <<lists, locks>>
    BY <1>25, NextLineCases
  <2>2. Len(hookInfo) \in Nat /\ UNCHANGED <<hookInfo, refreshMutex>>
    BY <2>1 DEF lists, locks, TypeInv, ListType
  <2>3. refreshMutex = p /\ refreshMutex # None
    BY <2>1 DEF TypeInv, ControlType, Refreshing, Procs
  <2>4. scan \in Scan /\ \A q \in Procs : q # p => pc[q] \notin {"header", "hook", "replace"}
    BY <2>3 DEF TypeInv, ControlType, ScanInv, Refreshing
  <2>5. \/ /\ pc' = [pc EXCEPT ![p] = "finish"]
           /\ scan' = [scan EXCEPT !.lib = None, !.next = 1]
        \/ \E b \in Bases :
              \/ /\ scan' = [scan EXCEPT !.cursor = b, !.lib = at[b], !.next = 1]
                 /\ at[b] \in Libs
                 /\ pc' = [pc EXCEPT ![p] = "header"]
              \/ /\ scan' = [scan EXCEPT !.cursor = b, !.lib = None, !.next = 1]
                 /\ pc' = pc
    BY <1>25, NextLineCases
  <2>6. scan' \in Scan /\ scan'.next = 1
    <3>1. CASE scan' = [scan EXCEPT !.lib = None, !.next = 1]
      BY <2>4, <3>1 DEF Scan
    <3>2. ASSUME NEW b \in Bases, NEW l \in Libs \cup {None},
                 scan' = [scan EXCEPT !.cursor = b, !.lib = l, !.next = 1]
          PROVE  scan' \in Scan /\ scan'.next = 1
      BY <2>4, <3>2 DEF Scan
    <3> QED
      BY <2>5, <3>1, <3>2
  <2>7. \A q \in Procs : pc'[q] \in {"header", "hook", "replace"} =>
           pc'[q] = "header" /\ scan'.cursor \in Bases /\ scan'.lib \in Libs
    <3>1. CASE pc' = [pc EXCEPT ![p] = "finish"] \/ pc' = pc
      BY <2>1, <3>1
    <3>2. ASSUME NEW b \in Bases, at[b] \in Libs, pc' = [pc EXCEPT ![p] = "header"],
                 scan' = [scan EXCEPT !.cursor = b, !.lib = at[b], !.next = 1]
          PROVE  /\ scan'.cursor \in Bases /\ scan'.lib \in Libs
                 /\ \A q \in Procs : pc'[q] \in {"header", "hook", "replace"} => pc'[q] = "header"
      <4>1. scan'.cursor = b /\ scan'.lib = at[b]
        BY <2>4, <3>2
      <4>2. \A q \in Procs : pc'[q] \in {"header", "hook", "replace"} => pc'[q] = "header"
        BY <2>1, <3>2
      <4> QED
        BY <3>2, <4>1, <4>2
    <3> QED
      BY <2>5, <3>1, <3>2
  <2> QED
    BY <2>2, <2>3, <2>6, <2>7 DEF ScanInv
<1>26. ASSUME NEW p \in Procs, CheckHeader(p) PROVE ScanInv'
  <2>1. Len(hookInfo) \in Nat /\ UNCHANGED <<hookInfo, refreshMutex>> /\ pc[p] = "header"
    BY <1>26, CheckHeaderCases DEF lists, locks, TypeInv, ListType
  <2>2. refreshMutex = p /\ refreshMutex # None
    BY <2>1 DEF TypeInv, ControlType, ScanInv, Scan, NoLine, Absent, Refreshing
  <2>3. scan.lib \in Libs /\ scan.cursor \in Bases
    BY <2>1 DEF TypeInv, ControlType, ScanInv, Scan, NoLine, Absent, Refreshing
  <2>4. \/ scan' = scan
        \/ scan' = [scan EXCEPT !.quiet = FALSE]
        \/ scan' = [scan EXCEPT !.tree = [@ EXCEPT ![scan.lib] = scan.cursor]]
    BY <1>26, CheckHeaderCases DEF Disturb
  <2>5. \/ pc' = pc \/ pc' = [pc EXCEPT ![p] = "line"] \/ pc' = [pc EXCEPT ![p] = "hook"]
    BY <1>26, CheckHeaderCases, SegvCases
  <2>6. /\ scan' \in Scan /\ scan'.next = scan.next
        /\ scan'.lib = scan.lib /\ scan'.cursor = scan.cursor
    <3>1. scan \in Scan
      BY DEF TypeInv, ScanInv
    <3>2. [scan.tree EXCEPT ![scan.lib] = scan.cursor] \in [Libs -> Bases \cup {Absent}]
      BY <2>3, <3>1 DEF Scan
    <3>3. CASE scan' = [scan EXCEPT !.tree = [@ EXCEPT ![scan.lib] = scan.cursor]]
      BY <3>1, <3>2, <3>3 DEF Scan
    <3>4. CASE scan' = scan \/ scan' = [scan EXCEPT !.quiet = FALSE]
      BY ZenonT(30), <3>1, <3>4 DEF Scan
    <3> QED
      BY <2>4, <3>3, <3>4
  <2> QED
    BY <2>1, <2>2, <2>3, <2>5, <2>6
       DEF TypeInv, ControlType, ScanInv, Scan, NoLine, Absent, Refreshing
<1>27. ASSUME NEW p \in Procs, SaveOld(p) PROVE ScanInv'
  <2>1. pc[p] = "hook" /\ UNCHANGED <<lists, locks>>
    BY <1>27, SaveOldCases
  <2>2. Len(hookInfo) \in Nat /\ UNCHANGED <<hookInfo, refreshMutex>>
    BY <2>1 DEF lists, locks, TypeInv, ListType
  <2>3. refreshMutex = p /\ refreshMutex # None
    BY <2>1 DEF TypeInv, ControlType, Refreshing, Procs
  <2>4. /\ scan \in Scan /\ scan.next \in 1..Len(hookInfo) + 1
        /\ scan.cursor \in Bases /\ scan.lib \in Libs
        /\ \A q \in Procs : q # p => pc[q] \notin {"header", "hook", "replace"}
    BY <2>1, <2>3 DEF TypeInv, ControlType, ScanInv, Refreshing
  <2>5. \/ /\ scan' = scan
           /\ pc' = pc \/ pc' = [pc EXCEPT ![p] = "line"]
        \/ \E n \in 1..Len(hookInfo) :
              \/ scan' = [scan EXCEPT !.next = n + 1] /\ pc' = pc
              \/ scan' = [scan EXCEPT !.next = n] /\ pc' = [pc EXCEPT ![p] = "replace"]
    BY <1>27, SaveOldCases, SegvCases
  <2> DEFINE Kept == /\ scan' \in Scan /\ scan'.next \in 1..Len(hookInfo) + 1
                     /\ scan'.cursor = scan.cursor /\ scan'.lib = scan.lib
                     /\ pc' = [pc EXCEPT ![p] = "replace"] => scan'.next \in 1..Len(hookInfo)
  <2>6. Kept
    <3>1. CASE scan' = scan /\ (pc' = pc \/ pc' = [pc EXCEPT ![p] = "line"])
      <4>1. pc' # [pc EXCEPT ![p] = "replace"]
        BY <2>1, <3>1 DEF TypeInv, ControlType
      <4> QED
        BY <2>4, <3>1, <4>1
    <3>2. ASSUME NEW n \in 1..Len(hookInfo), pc' = pc, scan' = [scan EXCEPT !.next = n + 1]
          PROVE  Kept
      <4>1. pc' # [pc EXCEPT ![p] = "replace"]
        BY <2>1, <3>2 DEF TypeInv, ControlType
      <4>2. n + 1 \in Nat /\ n + 1 \in 1..Len(hookInfo) + 1
        BY <2>2, <3>2
      <4> QED
        BY <2>4, <3>2, <4>1, <4>2 DEF Scan
    <3>3. ASSUME NEW n \in 1..Len(hookInfo), scan' = [scan EXCEPT !.next = n]
          PROVE  Kept
      <4>1. n \in Nat /\ n \in 1..Len(hookInfo) + 1
        BY <2>2, <3>3
      <4>2. scan' \in Scan /\ scan'.next = n
        BY <2>4, <3>3, <4>1 DEF Scan
      <4>3. scan'.cursor = scan.cursor /\ scan'.lib = scan.lib
        BY <2>4, <3>3 DEF Scan
      <4> QED
        BY <3>3, <4>1, <4>2, <4>3
    <3> QED
      BY <2>5, <3>1, <3>2, <3>3
  <2>7. \A q \in Procs : pc'[q] = "replace" => scan'.next \in 1..Len(hookInfo)
    BY <2>1, <2>4, <2>5, <2>6 DEF TypeInv, ControlType
  <2> QED
    BY <2>2, <2>3, <2>4, <2>6, <2>7 DEF ScanInv
<1>28. ASSUME NEW p \in Procs, Replace(p) PROVE ScanInv'
  <2>1. pc[p] = "replace" /\ UNCHANGED <<lists, locks>> /\ scan.next \in 1..Len(hookInfo)
    BY <1>28, ReplaceCases
  <2>2. Len(hookInfo) \in Nat /\ UNCHANGED <<hookInfo, refreshMutex>>
    BY <2>1 DEF lists, locks, TypeInv, ListType
  <2>3. refreshMutex = p /\ refreshMutex # None
    BY <2>1 DEF TypeInv, ControlType, Refreshing, Procs
  <2>4. /\ scan \in Scan /\ scan.cursor \in Bases /\ scan.lib \in Libs
        /\ \A q \in Procs : q # p => pc[q] \notin {"header", "hook", "replace"}
    BY <2>1, <2>3 DEF TypeInv, ControlType, ScanInv, Refreshing
  <2>5. \/ /\ scan' = scan
           /\ pc' = pc \/ pc' = [pc EXCEPT ![p] = "line"]
        \/ scan' = [scan EXCEPT !.next = @ + 1] /\ pc' = [pc EXCEPT ![p] = "hook"]
    BY <1>28, ReplaceCases, SegvCases
  <2>6. /\ scan' \in Scan /\ scan'.next \in 1..Len(hookInfo) + 1
        /\ scan'.cursor = scan.cursor /\ scan'.lib = scan.lib
    <3>1. PICK n \in 1..Len(hookInfo) : n = scan.next
      BY <2>1
    <3>2. n + 1 \in Nat /\ n + 1 \in 1..Len(hookInfo) + 1 /\ n \in 1..Len(hookInfo) + 1
      BY <2>2
    <3>3. CASE scan' = [scan EXCEPT !.next = @ + 1]
      BY <2>4, <3>1, <3>2, <3>3 DEF Scan
    <3> QED
      BY <2>4, <2>5, <3>1, <3>2, <3>3
  <2>7. \A q \in Procs : pc'[q] = "replace" => scan'.next \in 1..Len(hookInfo)
    BY ZenonT(30), <2>1, <2>4, <2>5 DEF TypeInv, ControlType
  <2> QED
    BY <2>2, <2>3, <2>4, <2>6, <2>7 DEF ScanInv
<1>29. ASSUME NEW p \in Procs, Finish(p) PROVE ScanInv'
  <2>1. NoLine \in Scan
    BY DEF Scan, NoLine, TypeInv, ControlType, ScanInv, Absent, Refreshing
  <2>2. Len(hookInfo) \in Nat /\ hookInfo' = hookInfo
    BY <1>29
       DEF Finish, lists, ListType, TypeInv, ControlType, ScanInv, Scan, NoLine, Absent,
           Refreshing
  <2>3. refreshMutex = p
    BY <1>29 DEF Finish, TypeInv, ControlType, ScanInv, Scan, NoLine, Absent, Refreshing
  <2>4. pc' = [pc EXCEPT ![p] = Return(p)] /\ scan' = NoLine /\ refreshMutex' = None
    BY <1>29
       DEF Finish, Goto, TypeInv, ControlType, ScanInv, Scan, NoLine, Absent, Refreshing
  <2> QED
    BY <2>1, <2>2, <2>3, <2>4
       DEF Return, TypeInv, ControlType, ScanInv, Scan, NoLine, Absent, Refreshing
<1>30. ASSUME NEW w \in Workers, WorkerTop(w) PROVE ScanInv'
  BY <1>30 DEF WorkerTop
<1>31. ASSUME NEW w \in Workers, WorkerLock(w) PROVE ScanInv'
  BY <1>31 DEF WorkerLock, WaitLoop
<1>32. ASSUME NEW w \in Workers, Spurious(w) PROVE ScanInv'
  BY <1>32 DEF Spurious
<1>33. ASSUME NEW l \in Libs, NEW b \in Bases, Dlopen(l, b) PROVE ScanInv'
  BY <1>33 DEF Dlopen, Disturb
<1>34. ASSUME NEW b \in Bases, Dlclose(b) PROVE ScanInv'
  BY <1>34 DEF Dlclose, Disturb
<1>35. CASE UNCHANGED vars
  BY <1>35 DEF vars
<1> HIDE DEF TypeInv, ControlType, ScanInv, Scan, NoLine, Absent, Refreshing, Procs, Goto,
             lists, locks, memory, control
<1> QED
  BY <1>1, <1>2, <1>3, <1>4, <1>5, <1>6, <1>7, <1>8, <1>9, <1>10, <1>11, <1>12, <1>13,
     <1>14, <1>15, <1>16, <1>17, <1>18, <1>19, <1>20, <1>21, <1>22, <1>23, <1>24, <1>25,
     <1>26, <1>27, <1>28, <1>29, <1>30, <1>31, <1>32, <1>33, <1>34, <1>35
     DEF Next, Begin, ApiStep, RefreshStep, WorkerStep, Procs

-----------------------------------------------------------------------------
(***************************************************************************)
(* The lists outlive a refresh, and old_func is saved first.               *)
(***************************************************************************)
\* The lists are freed under the mutex that every refresh holds.
LEMMA NextFreed == TypeInv /\ NoUseAfterFree /\ [Next]_vars => NoUseAfterFree'
<1> SUFFICES ASSUME TypeInv /\ NoUseAfterFree, [Next]_vars PROVE NoUseAfterFree'
  OBVIOUS
<1> USE DEF NoUseAfterFree, TypeInv, FlagType, Ghost, Goto, lists, locks, memory, control
<1>1. ASSUME NEW t \in Threads, CallRegister(t, "register") PROVE NoUseAfterFree'
  BY <1>1 DEF CallRegister, Call
<1>2. ASSUME NEW t \in Threads, CallRegister(t, "ignore") PROVE NoUseAfterFree'
  BY <1>2 DEF CallRegister, Call
<1>3. ASSUME NEW t \in Threads, NEW a \in BOOLEAN, CallRefresh(t, a) PROVE NoUseAfterFree'
  BY <1>3 DEF CallRefresh, Call, Spend
<1>4. ASSUME NEW t \in Threads, CallClear(t) PROVE NoUseAfterFree'
  BY <1>4 DEF CallClear, Call, Spend
<1>5. ASSUME NEW t \in Threads, NEW on \in BOOLEAN, EnableSigsegvProtection(t, on) PROVE NoUseAfterFree'
  BY <1>5 DEF EnableSigsegvProtection, Spend
<1>6. ASSUME NEW t \in Threads, NEW h \in Hooks, Register(t, h) PROVE NoUseAfterFree'
  BY <1>6 DEF Register, Disturb
<1>7. ASSUME NEW t \in Threads, NEW i \in Ignores, Ignore(t, i) PROVE NoUseAfterFree'
  BY <1>7 DEF Ignore, Disturb
<1>8. ASSUME NEW t \in Threads, RegisterFails(t) PROVE NoUseAfterFree'
  BY <1>8 DEF RegisterFails
<1>9. ASSUME NEW t \in Threads, InitOnce(t) PROVE NoUseAfterFree'
  BY <1>9 DEF InitOnce
<1>10. ASSUME NEW t \in Threads, AddHandler(t) PROVE NoUseAfterFree'
  BY <1>10 DEF AddHandler
<1>11. ASSUME NEW t \in Threads, InitCheck(t) PROVE NoUseAfterFree'
  BY <1>11 DEF InitCheck, InitDone
<1>12. ASSUME NEW t \in Threads, InitAsyncOnce(t) PROVE NoUseAfterFree'
  BY <1>12 DEF InitAsyncOnce
<1>13. ASSUME NEW t \in Threads, CreateThread(t) PROVE NoUseAfterFree'
  BY <1>13 DEF CreateThread
<1>14. ASSUME NEW t \in Threads, AsyncCheck(t) PROVE NoUseAfterFree'
  BY <1>14 DEF AsyncCheck
<1>15. ASSUME NEW t \in Threads, PostRefresh(t) PROVE NoUseAfterFree'
  BY <1>15 DEF PostRefresh, Signal
<1>16. ASSUME NEW t \in Threads, ClearTest(t) PROVE NoUseAfterFree'
  BY <1>16 DEF ClearTest
<1>17. ASSUME NEW t \in Threads, ClearSignal(t) PROVE NoUseAfterFree'
  BY <1>17 DEF ClearSignal, Signal
<1>18. ASSUME NEW t \in Threads, ClearJoin(t) PROVE NoUseAfterFree'
  BY <1>18 DEF ClearJoin
<1>19. ASSUME NEW t \in Threads, ClearAsync(t) PROVE NoUseAfterFree'
  BY <1>19 DEF ClearAsync
<1>20. ASSUME NEW t \in Threads, ClearHandler(t) PROVE NoUseAfterFree'
  BY <1>20 DEF ClearHandler, HandlerRestored
<1>21. ASSUME NEW t \in Threads, ClearInited(t) PROVE NoUseAfterFree'
  BY <1>21 DEF ClearInited
<1>22. ASSUME NEW t \in Threads, ClearLock(t) PROVE NoUseAfterFree'
  BY <1>22 DEF ClearLock
<1>23. ASSUME NEW t \in Threads, ClearFree(t) PROVE NoUseAfterFree'
  <2>1. \A p \in Procs : ~Refreshing(p)
    BY <1>23 DEF ClearFree, FreeEntry, TypeInv, ControlType, Procs
  <2> QED
    BY <1>23, <2>1 DEF ClearFree, NoUseAfterFree, TypeInv, FlagType, Ghost
<1>24. ASSUME NEW p \in Procs, RefreshLock(p) PROVE NoUseAfterFree'
  BY <1>24 DEF RefreshLock, RefreshEntry, Return
<1>25. ASSUME NEW p \in Procs, NextLine(p) PROVE NoUseAfterFree'
  BY <1>25 DEF NextLine
<1>26. ASSUME NEW p \in Procs, CheckHeader(p) PROVE NoUseAfterFree'
  BY <1>26, CheckHeaderCases, SegvCases DEF NoUseAfterFree, TypeInv, FlagType, Ghost
<1>27. ASSUME NEW p \in Procs, SaveOld(p) PROVE NoUseAfterFree'
  BY <1>27, SaveOldCases, SegvCases DEF NoUseAfterFree, TypeInv, FlagType, Ghost
<1>28. ASSUME NEW p \in Procs, Replace(p) PROVE NoUseAfterFree'
  BY <1>28, ReplaceCases, SegvCases DEF NoUseAfterFree, TypeInv, FlagType, Ghost
<1>29. ASSUME NEW p \in Procs, Finish(p) PROVE NoUseAfterFree'
  BY <1>29 DEF Finish, Return
<1>30. ASSUME NEW w \in Workers, WorkerTop(w) PROVE NoUseAfterFree'
  BY <1>30 DEF WorkerTop
<1>31. ASSUME NEW w \in Workers, WorkerLock(w) PROVE NoUseAfterFree'
  BY <1>31 DEF WorkerLock, WaitLoop
<1>32. ASSUME NEW w \in Workers, Spurious(w) PROVE NoUseAfterFree'
  BY <1>32 DEF Spurious
<1>33. ASSUME NEW l \in Libs, NEW b \in Bases, Dlopen(l, b) PROVE NoUseAfterFree'
  BY <1>33 DEF Dlopen, Disturb
<1>34. ASSUME NEW b \in Bases, Dlclose(b) PROVE NoUseAfterFree'
  BY <1>34 DEF Dlclose, Disturb
<1>35. CASE UNCHANGED vars
  BY <1>35 DEF vars
<1> HIDE DEF NoUseAfterFree, TypeInv, FlagType, Ghost, Goto, lists, locks, memory, control
<1> QED
  BY <1>1, <1>2, <1>3, <1>4, <1>5, <1>6, <1>7, <1>8, <1>9, <1>10, <1>11, <1>12, <1>13,
     <1>14, <1>15, <1>16, <1>17, <1>18, <1>19, <1>20, <1>21, <1>22, <1>23, <1>24, <1>25,
     <1>26, <1>27, <1>28, <1>29, <1>30, <1>31, <1>32, <1>33, <1>34, <1>35
     DEF Next, Begin, ApiStep, RefreshStep, WorkerStep, Procs

\* The old function is saved before the slot is patched, and kept.
LEMMA NextOld == TypeInv /\ OldInv /\ [Next]_vars => OldInv'
<1> SUFFICES ASSUME TypeInv /\ OldInv, [Next]_vars PROVE OldInv'
  OBVIOUS
<1> USE DEF OldInv, TypeInv, ControlType, Goto, lists, locks, memory, control
<1>1. ASSUME NEW t \in Threads, CallRegister(t, "register") PROVE OldInv'
  BY <1>1 DEF CallRegister, Call
<1>2. ASSUME NEW t \in Threads, CallRegister(t, "ignore") PROVE OldInv'
  BY <1>2 DEF CallRegister, Call
<1>3. ASSUME NEW t \in Threads, NEW a \in BOOLEAN, CallRefresh(t, a) PROVE OldInv'
  BY <1>3 DEF CallRefresh, Call, Spend
<1>4. ASSUME NEW t \in Threads, CallClear(t) PROVE OldInv'
  BY <1>4 DEF CallClear, Call, Spend
<1>5. ASSUME NEW t \in Threads, NEW on \in BOOLEAN, EnableSigsegvProtection(t, on) PROVE OldInv'
  BY <1>5 DEF EnableSigsegvProtection, Spend
<1>6. ASSUME NEW t \in Threads, NEW h \in Hooks, Register(t, h) PROVE OldInv'
  <2>1. UNCHANGED <<slot, old>> /\ hookInfo' = Append(hookInfo, h)
    BY <1>6 DEF Register, memory
  <2>2. scan'.next = scan.next
    BY <1>6 DEF Register, Disturb, TypeInv, ScanInv, Scan
  <2>3. ASSUME NEW p \in Procs, pc'[p] = "replace" PROVE old[hookInfo'[scan.next]] # Null
    <3>1. pc[p] = "replace"
      BY <1>6, <2>3 DEF Register, Goto, TypeInv, ControlType
    <3>2. hookInfo'[scan.next] = hookInfo[scan.next]
      BY <2>1, <3>1 DEF TypeInv, ListType, ScanInv
    <3> QED
      BY <3>1, <3>2 DEF OldInv
  <2> QED
    BY <2>1, <2>2, <2>3 DEF OldInv
<1>7. ASSUME NEW t \in Threads, NEW i \in Ignores, Ignore(t, i) PROVE OldInv'
  BY <1>7 DEF Ignore, Disturb
<1>8. ASSUME NEW t \in Threads, RegisterFails(t) PROVE OldInv'
  BY <1>8 DEF RegisterFails
<1>9. ASSUME NEW t \in Threads, InitOnce(t) PROVE OldInv'
  BY <1>9 DEF InitOnce
<1>10. ASSUME NEW t \in Threads, AddHandler(t) PROVE OldInv'
  BY <1>10 DEF AddHandler
<1>11. ASSUME NEW t \in Threads, InitCheck(t) PROVE OldInv'
  BY <1>11 DEF InitCheck, InitDone
<1>12. ASSUME NEW t \in Threads, InitAsyncOnce(t) PROVE OldInv'
  BY <1>12 DEF InitAsyncOnce
<1>13. ASSUME NEW t \in Threads, CreateThread(t) PROVE OldInv'
  BY <1>13 DEF CreateThread
<1>14. ASSUME NEW t \in Threads, AsyncCheck(t) PROVE OldInv'
  BY <1>14 DEF AsyncCheck
<1>15. ASSUME NEW t \in Threads, PostRefresh(t) PROVE OldInv'
  BY <1>15 DEF PostRefresh, Signal
<1>16. ASSUME NEW t \in Threads, ClearTest(t) PROVE OldInv'
  BY <1>16 DEF ClearTest
<1>17. ASSUME NEW t \in Threads, ClearSignal(t) PROVE OldInv'
  BY <1>17 DEF ClearSignal, Signal
<1>18. ASSUME NEW t \in Threads, ClearJoin(t) PROVE OldInv'
  BY <1>18 DEF ClearJoin
<1>19. ASSUME NEW t \in Threads, ClearAsync(t) PROVE OldInv'
  BY <1>19 DEF ClearAsync
<1>20. ASSUME NEW t \in Threads, ClearHandler(t) PROVE OldInv'
  BY <1>20 DEF ClearHandler, HandlerRestored
<1>21. ASSUME NEW t \in Threads, ClearInited(t) PROVE OldInv'
  BY <1>21 DEF ClearInited
<1>22. ASSUME NEW t \in Threads, ClearLock(t) PROVE OldInv'
  BY <1>22 DEF ClearLock
<1>23. ASSUME NEW t \in Threads, ClearFree(t) PROVE OldInv'
  <2>1. \A p \in Procs : pc'[p] # "replace"
    BY <1>23 DEF ClearFree, FreeEntry, Goto, TypeInv, ControlType, Refreshing, Procs
  <2> QED
    BY <1>23, <2>1 DEF ClearFree, memory, OldInv
<1>24. ASSUME NEW p \in Procs, RefreshLock(p) PROVE OldInv'
  <2>1. \A q \in Procs : pc'[q] # "replace"
    BY <1>24
       DEF RefreshLock, RefreshEntry, Return, Goto, TypeInv, ControlType, Refreshing,
           Procs
  <2> QED
    BY <1>24, <2>1 DEF RefreshLock, memory, OldInv
<1>25. ASSUME NEW p \in Procs, NextLine(p) PROVE OldInv'
  <2>1. UNCHANGED memory /\ pc[p] = "line" /\ UNCHANGED lists
    BY <1>25, NextLineCases
  <2>2. \A q \in Procs : pc'[q] # "replace"
    <3>1. \A q \in Procs : q # p => ~Refreshing(q)
      BY <2>1 DEF TypeInv, ControlType, Refreshing
    <3>2. pc' = pc \/ pc' = [pc EXCEPT ![p] = "header"] \/ pc' = [pc EXCEPT ![p] = "finish"]
      BY <1>25, NextLineCases
    <3> QED
      BY <2>1, <3>1, <3>2 DEF Refreshing, TypeInv, ControlType
  <2> QED
    BY <2>1, <2>2 DEF OldInv, memory
<1>26. ASSUME NEW p \in Procs, CheckHeader(p) PROVE OldInv'
  <2>1. UNCHANGED memory /\ pc[p] = "header" /\ UNCHANGED lists
    BY <1>26, CheckHeaderCases
  <2>2. \A q \in Procs : pc'[q] # "replace"
    <3>1. \A q \in Procs : q # p => ~Refreshing(q)
      BY <2>1 DEF TypeInv, ControlType, Refreshing
    <3>2. pc' = pc \/ pc' = [pc EXCEPT ![p] = "line"] \/ pc' = [pc EXCEPT ![p] = "hook"]
      BY <1>26, CheckHeaderCases, SegvCases
    <3> QED
      BY <2>1, <3>1, <3>2 DEF Refreshing, TypeInv, ControlType
  <2> QED
    BY <2>1, <2>2 DEF OldInv, memory
<1>27. ASSUME NEW p \in Procs, SaveOld(p) PROVE OldInv'
  <2>1. UNCHANGED <<lists, slot>> /\ pc[p] = "hook"
    BY <1>27, SaveOldCases
  <2>2. \A q \in Procs : pc[q] # "replace"
    BY <2>1 DEF TypeInv, ControlType, Refreshing
  <2>3. CASE old' = old /\ (pc' = pc \/ pc' = [pc EXCEPT ![p] = "line"])
    BY <2>1, <2>2, <2>3 DEF OldInv, TypeInv, ControlType
  <2>4. ASSUME NEW n \in 1..Len(hookInfo), at[scan.cursor] \in Libs,
               old' = [old EXCEPT ![hookInfo[n]] = slot[at[scan.cursor]][hookInfo[n].sym]],
               scan' = [scan EXCEPT !.next = n]
        PROVE  OldInv'
    <3>1. hookInfo[n] \in Hooks /\ hookInfo[n].sym \in Syms
      BY HookAt
    <3>2. slot[at[scan.cursor]][hookInfo[n].sym] # Null
      BY <2>4, <3>1 DEF TypeInv, MemoryType
    <3>3. old'[hookInfo[n]] # Null /\ \A h \in Hooks : old[h] # Null => old'[h] # Null
      BY <2>4, <3>1, <3>2 DEF TypeInv, MemoryType
    <3>4. scan'.next = n /\ hookInfo' = hookInfo
      BY <2>1, <2>4 DEF lists, TypeInv, ScanInv, Scan
    <3> QED
      BY <2>1, <3>3, <3>4 DEF OldInv
  <2> QED
    BY <1>27, <2>3, <2>4, SaveOldCases, SegvCases
<1>28. ASSUME NEW p \in Procs, Replace(p) PROVE OldInv'
  <2>1. /\ UNCHANGED <<lists, old>> /\ pc[p] = "replace"
        /\ scan.next \in 1..Len(hookInfo)
    BY <1>28, ReplaceCases
  <2>2. hookInfo[scan.next] \in Hooks /\ hookInfo[scan.next].sym \in Syms
    BY <2>1, HookAt
  <2>3. \A q \in Procs : q # p => pc[q] # "replace"
    BY <2>1 DEF TypeInv, ControlType, Refreshing
  <2>4. CASE slot' = slot /\ scan' = scan
    <3>1. pc' = pc \/ pc' = [pc EXCEPT ![p] = "line"] \/ pc' = [pc EXCEPT ![p] = "hook"]
      BY <1>28, ReplaceCases, SegvCases
    <3>2. \A q \in Procs : pc'[q] = "replace" => pc[q] = "replace"
      BY <3>1 DEF TypeInv, ControlType
    <3> QED
      BY <2>1, <2>4, <3>2 DEF OldInv, lists
  <2>5. CASE /\ at[scan.cursor] \in Libs
             /\ slot' = [slot EXCEPT ![at[scan.cursor]] =
                            [@ EXCEPT ![hookInfo[scan.next].sym] = hookInfo[scan.next]]]
             /\ pc' = [pc EXCEPT ![p] = "hook"]
    <3>1. \A q \in Procs : pc'[q] # "replace"
      BY <2>3, <2>5 DEF TypeInv, ControlType
    <3>2. ASSUME NEW l \in Libs, NEW s \in Syms
          PROVE  slot'[l][s] = slot[l][s] \/ slot'[l][s] = hookInfo[scan.next]
      BY <2>2, <2>5 DEF TypeInv, MemoryType
    <3>3. old[hookInfo[scan.next]] # Null
      BY <2>1 DEF OldInv
    <3> QED
      BY SMTT(30), <2>1, <3>1, <3>2, <3>3 DEF OldInv
  <2> QED
    BY <1>28, <2>4, <2>5, ReplaceCases
<1>29. ASSUME NEW p \in Procs, Finish(p) PROVE OldInv'
  <2>1. \A q \in Procs : pc'[q] # "replace"
    BY <1>29 DEF Finish, Return, Goto, TypeInv, ControlType, Refreshing, Procs
  <2> QED
    BY <1>29, <2>1 DEF Finish, memory, OldInv
<1>30. ASSUME NEW w \in Workers, WorkerTop(w) PROVE OldInv'
  BY <1>30 DEF WorkerTop
<1>31. ASSUME NEW w \in Workers, WorkerLock(w) PROVE OldInv'
  BY <1>31 DEF WorkerLock, WaitLoop
<1>32. ASSUME NEW w \in Workers, Spurious(w) PROVE OldInv'
  BY <1>32 DEF Spurious
<1>33. ASSUME NEW l \in Libs, NEW b \in Bases, Dlopen(l, b) PROVE OldInv'
  BY <1>33 DEF Dlopen, Disturb
<1>34. ASSUME NEW b \in Bases, Dlclose(b) PROVE OldInv'
  BY <1>34 DEF Dlclose, Disturb
<1>35. CASE UNCHANGED vars
  BY <1>35 DEF vars
<1> HIDE DEF OldInv, TypeInv, ControlType, Goto, lists, locks, memory, control
<1> QED
  BY <1>1, <1>2, <1>3, <1>4, <1>5, <1>6, <1>7, <1>8, <1>9, <1>10, <1>11, <1>12, <1>13,
     <1>14, <1>15, <1>16, <1>17, <1>18, <1>19, <1>20, <1>21, <1>22, <1>23, <1>24, <1>25,
     <1>26, <1>27, <1>28, <1>29, <1>30, <1>31, <1>32, <1>33, <1>34, <1>35
     DEF Next, Begin, ApiStep, RefreshStep, WorkerStep, Procs

-----------------------------------------------------------------------------
(***************************************************************************)
(* The calls, as long as no clear overlaps one.                            *)
(***************************************************************************)
\* A call made while a clear is in progress overlaps it.
LEMMA NextAlone == TypeInv /\ CalmInv /\ [Next]_vars => AloneInv'
<1> SUFFICES ASSUME TypeInv /\ CalmInv, [Next]_vars PROVE AloneInv'
  OBVIOUS
<1> USE DEF AloneInv, CalmInv, Call, TypeInv, FlagType, Flags, Ghost, ControlType,
            ThreadPC, WorkerPC, ScanPC, ClearPC, AsyncPC, Refreshing, Clearing, Idle,
            Procs, Goto, lists, locks, memory, control
<1>1. ASSUME NEW t \in Threads, CallRegister(t, "register") PROVE AloneInv'
  BY <1>1 DEF CallRegister, Call
<1>2. ASSUME NEW t \in Threads, CallRegister(t, "ignore") PROVE AloneInv'
  BY <1>2 DEF CallRegister, Call
<1>3. ASSUME NEW t \in Threads, NEW a \in BOOLEAN, CallRefresh(t, a) PROVE AloneInv'
  BY <1>3 DEF CallRefresh, Call, Spend
<1>4. ASSUME NEW t \in Threads, CallClear(t) PROVE AloneInv'
  BY <1>4 DEF CallClear, Call, Spend
<1>5. ASSUME NEW t \in Threads, NEW on \in BOOLEAN, EnableSigsegvProtection(t, on) PROVE AloneInv'
  BY <1>5 DEF EnableSigsegvProtection, Spend
<1>6. ASSUME NEW t \in Threads, NEW h \in Hooks, Register(t, h) PROVE AloneInv'
  BY <1>6 DEF Register, Disturb
<1>7. ASSUME NEW t \in Threads, NEW i \in Ignores, Ignore(t, i) PROVE AloneInv'
  BY <1>7 DEF Ignore, Disturb
<1>8. ASSUME NEW t \in Threads, RegisterFails(t) PROVE AloneInv'
  BY <1>8 DEF RegisterFails
<1>9. ASSUME NEW t \in Threads, InitOnce(t) PROVE AloneInv'
  BY <1>9 DEF InitOnce
<1>10. ASSUME NEW t \in Threads, AddHandler(t) PROVE AloneInv'
  BY <1>10 DEF AddHandler
<1>11. ASSUME NEW t \in Threads, InitCheck(t) PROVE AloneInv'
  BY <1>11 DEF InitCheck, InitDone
<1>12. ASSUME NEW t \in Threads, InitAsyncOnce(t) PROVE AloneInv'
  BY <1>12 DEF InitAsyncOnce
<1>13. ASSUME NEW t \in Threads, CreateThread(t) PROVE AloneInv'
  BY <1>13 DEF CreateThread
<1>14. ASSUME NEW t \in Threads, AsyncCheck(t) PROVE AloneInv'
  BY <1>14 DEF AsyncCheck
<1>15. ASSUME NEW t \in Threads, PostRefresh(t) PROVE AloneInv'
  BY <1>15 DEF PostRefresh, Signal
<1>16. ASSUME NEW t \in Threads, ClearTest(t) PROVE AloneInv'
  BY <1>16 DEF ClearTest
<1>17. ASSUME NEW t \in Threads, ClearSignal(t) PROVE AloneInv'
  BY <1>17 DEF ClearSignal, Signal
<1>18. ASSUME NEW t \in Threads, ClearJoin(t) PROVE AloneInv'
  BY <1>18 DEF ClearJoin
<1>19. ASSUME NEW t \in Threads, ClearAsync(t) PROVE AloneInv'
  BY <1>19 DEF ClearAsync
<1>20. ASSUME NEW t \in Threads, ClearHandler(t) PROVE AloneInv'
  BY <1>20 DEF ClearHandler, HandlerRestored
<1>21. ASSUME NEW t \in Threads, ClearInited(t) PROVE AloneInv'
  BY <1>21 DEF ClearInited
<1>22. ASSUME NEW t \in Threads, ClearLock(t) PROVE AloneInv'
  BY <1>22 DEF ClearLock
<1>23. ASSUME NEW t \in Threads, ClearFree(t) PROVE AloneInv'
  BY <1>23 DEF ClearFree, FreeEntry
<1>24. ASSUME NEW p \in Procs, RefreshLock(p) PROVE AloneInv'
  BY <1>24 DEF RefreshLock, RefreshEntry, Return
<1>25. ASSUME NEW p \in Procs, NextLine(p) PROVE AloneInv'
  BY <1>25 DEF NextLine
<1>26. ASSUME NEW p \in Procs, CheckHeader(p) PROVE AloneInv'
  BY <1>26 DEF CheckHeader, Segv, Disturb
<1>27. ASSUME NEW p \in Procs, SaveOld(p) PROVE AloneInv'
  BY <1>27 DEF SaveOld, Segv, Saved
<1>28. ASSUME NEW p \in Procs, Replace(p) PROVE AloneInv'
  BY <1>28 DEF Replace, Segv
<1>29. ASSUME NEW p \in Procs, Finish(p) PROVE AloneInv'
  BY <1>29 DEF Finish, Return
<1>30. ASSUME NEW w \in Workers, WorkerTop(w) PROVE AloneInv'
  BY <1>30 DEF WorkerTop
<1>31. ASSUME NEW w \in Workers, WorkerLock(w) PROVE AloneInv'
  BY <1>31 DEF WorkerLock, WaitLoop
<1>32. ASSUME NEW w \in Workers, Spurious(w) PROVE AloneInv'
  BY <1>32 DEF Spurious
<1>33. ASSUME NEW l \in Libs, NEW b \in Bases, Dlopen(l, b) PROVE AloneInv'
  BY <1>33 DEF Dlopen, Disturb
<1>34. ASSUME NEW b \in Bases, Dlclose(b) PROVE AloneInv'
  BY <1>34 DEF Dlclose, Disturb
<1>35. CASE UNCHANGED vars
  BY <1>35 DEF vars
<1> HIDE DEF AloneInv, CalmInv, Call, TypeInv, FlagType, Flags, Ghost, ControlType,
             ThreadPC, WorkerPC, ScanPC, ClearPC, AsyncPC, Refreshing, Clearing, Idle,
             Procs, Goto, lists, locks, memory, control
<1> QED
  BY <1>1, <1>2, <1>3, <1>4, <1>5, <1>6, <1>7, <1>8, <1>9, <1>10, <1>11, <1>12, <1>13,
     <1>14, <1>15, <1>16, <1>17, <1>18, <1>19, <1>20, <1>21, <1>22, <1>23, <1>24, <1>25,
     <1>26, <1>27, <1>28, <1>29, <1>30, <1>31, <1>32, <1>33, <1>34, <1>35
     DEF Next, Begin, ApiStep, RefreshStep, WorkerStep, Procs

\* The flags are set and reset in the order of the calls.
LEMMA NextStage == TypeInv /\ CalmInv /\ [Next]_vars => StageInv'
<1> SUFFICES ASSUME TypeInv /\ CalmInv, [Next]_vars PROVE StageInv'
  OBVIOUS
<1> USE DEF AloneInv, StageInv, WorkerInv, CalmInv, TypeInv, FlagType, Flags, Ghost,
            ControlType, ThreadPC, WorkerPC, ScanPC, ClearPC, AsyncPC, Refreshing,
            Clearing, Idle, Procs, Goto, lists, locks, memory, control
<1>1. ASSUME NEW t \in Threads, CallRegister(t, "register") PROVE StageInv'
  BY <1>1 DEF CallRegister, Call
<1>2. ASSUME NEW t \in Threads, CallRegister(t, "ignore") PROVE StageInv'
  BY <1>2 DEF CallRegister, Call
<1>3. ASSUME NEW t \in Threads, NEW a \in BOOLEAN, CallRefresh(t, a) PROVE StageInv'
  BY <1>3 DEF CallRefresh, Call, Spend
<1>4. ASSUME NEW t \in Threads, CallClear(t) PROVE StageInv'
  BY <1>4 DEF CallClear, Call, Spend
<1>5. ASSUME NEW t \in Threads, NEW on \in BOOLEAN, EnableSigsegvProtection(t, on) PROVE StageInv'
  BY <1>5 DEF EnableSigsegvProtection, Spend
<1>6. ASSUME NEW t \in Threads, NEW h \in Hooks, Register(t, h) PROVE StageInv'
  BY <1>6 DEF Register, Disturb
<1>7. ASSUME NEW t \in Threads, NEW i \in Ignores, Ignore(t, i) PROVE StageInv'
  BY <1>7 DEF Ignore, Disturb
<1>8. ASSUME NEW t \in Threads, RegisterFails(t) PROVE StageInv'
  BY <1>8 DEF RegisterFails
<1>9. ASSUME NEW t \in Threads, InitOnce(t) PROVE StageInv'
  BY <1>9 DEF InitOnce
<1>10. ASSUME NEW t \in Threads, AddHandler(t) PROVE StageInv'
  BY <1>10 DEF AddHandler
<1>11. ASSUME NEW t \in Threads, InitCheck(t) PROVE StageInv'
  BY <1>11 DEF InitCheck, InitDone
<1>12. ASSUME NEW t \in Threads, InitAsyncOnce(t) PROVE StageInv'
  <2>1. /\ pc[t] = "async" /\ UNCHANGED <<ghost, tid, sig, mapInfo>>
        /\ \/ pc' = [pc EXCEPT ![t] = "asynccheck"] /\ flags' = flags
           \/ /\ pc' = [pc EXCEPT ![t] = "create"] /\ ~flags.asyncInited
              /\ flags' = [flags EXCEPT !.asyncInited = TRUE, !.running = TRUE]
    BY <1>12 DEF InitAsyncOnce, Goto
  <2>2. CASE pc' = [pc EXCEPT ![t] = "asynccheck"] /\ flags' = flags
    BY <2>1, <2>2
       DEF AloneInv, StageInv, WorkerInv, CalmInv, TypeInv, ControlType, ThreadPC,
           WorkerPC, ScanPC, ClearPC, AsyncPC, Clearing, Idle, Procs
  <2>3. CASE /\ pc' = [pc EXCEPT ![t] = "create"] /\ ~flags.asyncInited
             /\ flags' = [flags EXCEPT !.asyncInited = TRUE, !.running = TRUE]
    <3>1. /\ flags'.asyncInited /\ flags'.running /\ flags'.inited = flags.inited
          /\ flags'.initOk = flags.initOk /\ flags'.asyncOk = flags.asyncOk
          /\ flags'.do = flags.do /\ flags'.enable = flags.enable
      BY <2>3 DEF TypeInv, FlagType, Flags
    <3> HIDE <2>3
    <3>2. pc' = [pc EXCEPT ![t] = "create"] /\ ~flags.asyncInited
      BY <2>3
    <3> QED
      BY <2>1, <3>1, <3>2
         DEF AloneInv, StageInv, WorkerInv, CalmInv, TypeInv, ControlType, ThreadPC,
             WorkerPC, ScanPC, ClearPC, AsyncPC, Clearing, Idle, Procs
  <2> QED
    BY <2>1, <2>2, <2>3
<1>13. ASSUME NEW t \in Threads, CreateThread(t) PROVE StageInv'
  BY <1>13 DEF CreateThread
<1>14. ASSUME NEW t \in Threads, AsyncCheck(t) PROVE StageInv'
  BY <1>14 DEF AsyncCheck
<1>15. ASSUME NEW t \in Threads, PostRefresh(t) PROVE StageInv'
  BY <1>15 DEF PostRefresh, Signal
<1>16. ASSUME NEW t \in Threads, ClearTest(t) PROVE StageInv'
  BY <1>16 DEF ClearTest
<1>17. ASSUME NEW t \in Threads, ClearSignal(t) PROVE StageInv'
  BY <1>17 DEF ClearSignal, Signal
<1>18. ASSUME NEW t \in Threads, ClearJoin(t) PROVE StageInv'
  BY <1>18 DEF ClearJoin
<1>19. ASSUME NEW t \in Threads, ClearAsync(t) PROVE StageInv'
  BY <1>19 DEF ClearAsync
<1>20. ASSUME NEW t \in Threads, ClearHandler(t) PROVE StageInv'
  BY <1>20 DEF ClearHandler, HandlerRestored
<1>21. ASSUME NEW t \in Threads, ClearInited(t) PROVE StageInv'
  BY <1>21 DEF ClearInited
<1>22. ASSUME NEW t \in Threads, ClearLock(t) PROVE StageInv'
  BY <1>22 DEF ClearLock
<1>23. ASSUME NEW t \in Threads, ClearFree(t) PROVE StageInv'
  BY <1>23 DEF ClearFree, FreeEntry
<1>24. ASSUME NEW p \in Procs, RefreshLock(p) PROVE StageInv'
  BY <1>24 DEF RefreshLock, RefreshEntry, Return
<1>25. ASSUME NEW p \in Procs, NextLine(p) PROVE StageInv'
  BY <1>25 DEF NextLine
<1>26. ASSUME NEW p \in Procs, CheckHeader(p) PROVE StageInv'
  BY <1>26 DEF CheckHeader, Segv, Disturb
<1>27. ASSUME NEW p \in Procs, SaveOld(p) PROVE StageInv'
  BY <1>27 DEF SaveOld, Segv, Saved
<1>28. ASSUME NEW p \in Procs, Replace(p) PROVE StageInv'
  BY <1>28 DEF Replace, Segv
<1>29. ASSUME NEW p \in Procs, Finish(p) PROVE StageInv'
  BY <1>29 DEF Finish, Return
<1>30. ASSUME NEW w \in Workers, WorkerTop(w) PROVE StageInv'
  BY <1>30 DEF WorkerTop
<1>31. ASSUME NEW w \in Workers, WorkerLock(w) PROVE StageInv'
  BY <1>31 DEF WorkerLock, WaitLoop
<1>32. ASSUME NEW w \in Workers, Spurious(w) PROVE StageInv'
  BY <1>32 DEF Spurious
<1>33. ASSUME NEW l \in Libs, NEW b \in Bases, Dlopen(l, b) PROVE StageInv'
  BY <1>33 DEF Dlopen, Disturb
<1>34. ASSUME NEW b \in Bases, Dlclose(b) PROVE StageInv'
  BY <1>34 DEF Dlclose, Disturb
<1>35. CASE UNCHANGED vars
  BY <1>35 DEF vars
<1> HIDE DEF AloneInv, StageInv, WorkerInv, CalmInv, TypeInv, FlagType, Flags, Ghost,
             ControlType, ThreadPC, WorkerPC, ScanPC, ClearPC, AsyncPC, Refreshing,
             Clearing, Idle, Procs, Goto, lists, locks, memory, control
<1> QED
  BY <1>1, <1>2, <1>3, <1>4, <1>5, <1>6, <1>7, <1>8, <1>9, <1>10, <1>11, <1>12, <1>13,
     <1>14, <1>15, <1>16, <1>17, <1>18, <1>19, <1>20, <1>21, <1>22, <1>23, <1>24, <1>25,
     <1>26, <1>27, <1>28, <1>29, <1>30, <1>31, <1>32, <1>33, <1>34, <1>35
     DEF Next, Begin, ApiStep, RefreshStep, WorkerStep, Procs

\* A refresh thread is created when there is none, and woken whenever it has something to do.
LEMMA NextWorker == TypeInv /\ CalmInv /\ [Next]_vars => WorkerInv'
<1> SUFFICES ASSUME TypeInv /\ CalmInv, [Next]_vars PROVE WorkerInv'
  OBVIOUS
<1> USE DEF AloneInv, StageInv, WorkerInv, CalmInv, TypeInv, FlagType, Flags, Ghost,
            ControlType, ThreadPC, WorkerPC, ScanPC, ClearPC, AsyncPC, Refreshing,
            Clearing, Idle, Procs, Goto, lists, locks, memory, control
<1>1. ASSUME NEW t \in Threads, CallRegister(t, "register") PROVE WorkerInv'
  BY <1>1 DEF CallRegister, Call
<1>2. ASSUME NEW t \in Threads, CallRegister(t, "ignore") PROVE WorkerInv'
  BY <1>2 DEF CallRegister, Call
<1>3. ASSUME NEW t \in Threads, NEW a \in BOOLEAN, CallRefresh(t, a) PROVE WorkerInv'
  BY <1>3 DEF CallRefresh, Call, Spend
<1>4. ASSUME NEW t \in Threads, CallClear(t) PROVE WorkerInv'
  BY <1>4 DEF CallClear, Call, Spend
<1>5. ASSUME NEW t \in Threads, NEW on \in BOOLEAN, EnableSigsegvProtection(t, on) PROVE WorkerInv'
  BY <1>5 DEF EnableSigsegvProtection, Spend
<1>6. ASSUME NEW t \in Threads, NEW h \in Hooks, Register(t, h) PROVE WorkerInv'
  BY <1>6 DEF Register, Disturb
<1>7. ASSUME NEW t \in Threads, NEW i \in Ignores, Ignore(t, i) PROVE WorkerInv'
  BY <1>7 DEF Ignore, Disturb
<1>8. ASSUME NEW t \in Threads, RegisterFails(t) PROVE WorkerInv'
  BY <1>8 DEF RegisterFails
<1>9. ASSUME NEW t \in Threads, InitOnce(t) PROVE WorkerInv'
  BY <1>9 DEF InitOnce
<1>10. ASSUME NEW t \in Threads, AddHandler(t) PROVE WorkerInv'
  BY <1>10 DEF AddHandler
<1>11. ASSUME NEW t \in Threads, InitCheck(t) PROVE WorkerInv'
  BY <1>11 DEF InitCheck, InitDone
<1>12. ASSUME NEW t \in Threads, InitAsyncOnce(t) PROVE WorkerInv'
  <2>1. /\ pc[t] = "async" /\ UNCHANGED <<ghost, tid, sig, mapInfo>>
        /\ \/ pc' = [pc EXCEPT ![t] = "asynccheck"] /\ flags' = flags
           \/ /\ pc' = [pc EXCEPT ![t] = "create"] /\ ~flags.asyncInited
              /\ flags' = [flags EXCEPT !.asyncInited = TRUE, !.running = TRUE]
    BY <1>12 DEF InitAsyncOnce, Goto
  <2>2. CASE pc' = [pc EXCEPT ![t] = "asynccheck"] /\ flags' = flags
    BY <2>1, <2>2
       DEF AloneInv, StageInv, WorkerInv, CalmInv, TypeInv, ControlType, ThreadPC,
           WorkerPC, ScanPC, ClearPC, AsyncPC, Clearing, Idle, Procs
  <2>3. CASE /\ pc' = [pc EXCEPT ![t] = "create"] /\ ~flags.asyncInited
             /\ flags' = [flags EXCEPT !.asyncInited = TRUE, !.running = TRUE]
    <3>1. /\ flags'.asyncInited /\ flags'.running /\ flags'.inited = flags.inited
          /\ flags'.initOk = flags.initOk /\ flags'.asyncOk = flags.asyncOk
          /\ flags'.do = flags.do /\ flags'.enable = flags.enable
      BY <2>3 DEF TypeInv, FlagType, Flags
    <3> HIDE <2>3
    <3>2. pc' = [pc EXCEPT ![t] = "create"] /\ ~flags.asyncInited
      BY <2>3
    <3> QED
      BY <2>1, <3>1, <3>2
         DEF AloneInv, StageInv, WorkerInv, CalmInv, TypeInv, ControlType, ThreadPC,
             WorkerPC, ScanPC, ClearPC, AsyncPC, Clearing, Idle, Procs
  <2> QED
    BY <2>1, <2>2, <2>3
<1>13. ASSUME NEW t \in Threads, CreateThread(t) PROVE WorkerInv'
  <2>1. pc[t] = "create" /\ UNCHANGED ghost
    BY <1>13 DEF CreateThread
  <2>2. ASSUME ~ghost.overlap
        PROVE  /\ ~flags.asyncOk /\ tid \notin Workers
               /\ \A w \in Workers : pc[w] = "idle"
    BY <2>1, <2>2 DEF CalmInv, StageInv, WorkerInv, Idle, TypeInv, ControlType
  <2>3. ASSUME NEW w \in Workers, tid' = w,
               pc' = [pc EXCEPT ![w] = "top", ![t] = "asynccheck"],
               flags' = [flags EXCEPT !.asyncOk = TRUE]
        PROVE  WorkerInv'
    <3>1. t \notin Workers /\ t # w
      OBVIOUS
    <3>2. pc'[w] = "top" /\ \A v \in Workers : v # w => pc'[v] = pc[v]
      BY <2>3, <3>1 DEF TypeInv, ControlType, Procs
    <3>3. flags'.asyncOk /\ flags'.running = flags.running
      BY <2>3 DEF TypeInv, FlagType, Flags
    <3>4. ~ghost.overlap => flags.running
      BY <2>1 DEF CalmInv, StageInv
    <3> QED
      BY <2>1, <2>2, <2>3, <3>2, <3>3, <3>4 DEF WorkerInv, Idle
  <2>4. CASE /\ UNCHANGED tid /\ flags' = [flags EXCEPT !.running = FALSE]
             /\ pc' = [pc EXCEPT ![t] = "asynccheck"]
    <3>1. \A v \in Workers : pc'[v] = pc[v]
      BY <2>4 DEF TypeInv, ControlType, Procs
    <3>2. flags'.asyncOk = flags.asyncOk
      BY <2>4 DEF TypeInv, FlagType, Flags
    <3> QED
      BY <2>1, <2>2, <2>4, <3>1, <3>2 DEF WorkerInv, Idle
  <2> QED
    BY <1>13, <2>3, <2>4 DEF CreateThread, Goto
<1>14. ASSUME NEW t \in Threads, AsyncCheck(t) PROVE WorkerInv'
  BY <1>14 DEF AsyncCheck
<1>15. ASSUME NEW t \in Threads, PostRefresh(t) PROVE WorkerInv'
  BY <1>15 DEF PostRefresh, Signal
<1>16. ASSUME NEW t \in Threads, ClearTest(t) PROVE WorkerInv'
  BY <1>16 DEF ClearTest
<1>17. ASSUME NEW t \in Threads, ClearSignal(t) PROVE WorkerInv'
  BY <1>17 DEF ClearSignal, Signal
<1>18. ASSUME NEW t \in Threads, ClearJoin(t) PROVE WorkerInv'
  BY <1>18 DEF ClearJoin
<1>19. ASSUME NEW t \in Threads, ClearAsync(t) PROVE WorkerInv'
  BY <1>19 DEF ClearAsync
<1>20. ASSUME NEW t \in Threads, ClearHandler(t) PROVE WorkerInv'
  BY <1>20 DEF ClearHandler, HandlerRestored
<1>21. ASSUME NEW t \in Threads, ClearInited(t) PROVE WorkerInv'
  BY <1>21 DEF ClearInited
<1>22. ASSUME NEW t \in Threads, ClearLock(t) PROVE WorkerInv'
  BY <1>22 DEF ClearLock
<1>23. ASSUME NEW t \in Threads, ClearFree(t) PROVE WorkerInv'
  BY <1>23 DEF ClearFree, FreeEntry
<1>24. ASSUME NEW p \in Procs, RefreshLock(p) PROVE WorkerInv'
  BY <1>24 DEF RefreshLock, RefreshEntry, Return
<1>25. ASSUME NEW p \in Procs, NextLine(p) PROVE WorkerInv'
  BY <1>25 DEF NextLine
<1>26. ASSUME NEW p \in Procs, CheckHeader(p) PROVE WorkerInv'
  BY <1>26 DEF CheckHeader, Segv, Disturb
<1>27. ASSUME NEW p \in Procs, SaveOld(p) PROVE WorkerInv'
  BY <1>27 DEF SaveOld, Segv, Saved
<1>28. ASSUME NEW p \in Procs, Replace(p) PROVE WorkerInv'
  BY <1>28 DEF Replace, Segv
<1>29. ASSUME NEW p \in Procs, Finish(p) PROVE WorkerInv'
  BY <1>29 DEF Finish, Return
<1>30. ASSUME NEW w \in Workers, WorkerTop(w) PROVE WorkerInv'
  BY <1>30 DEF WorkerTop
<1>31. ASSUME NEW w \in Workers, WorkerLock(w) PROVE WorkerInv'
  BY <1>31 DEF WorkerLock, WaitLoop
<1>32. ASSUME NEW w \in Workers, Spurious(w) PROVE WorkerInv'
  BY <1>32 DEF Spurious
<1>33. ASSUME NEW l \in Libs, NEW b \in Bases, Dlopen(l, b) PROVE WorkerInv'
  BY <1>33 DEF Dlopen, Disturb
<1>34. ASSUME NEW b \in Bases, Dlclose(b) PROVE WorkerInv'
  BY <1>34 DEF Dlclose, Disturb
<1>35. CASE UNCHANGED vars
  BY <1>35 DEF vars
<1> HIDE DEF AloneInv, StageInv, WorkerInv, CalmInv, TypeInv, FlagType, Flags, Ghost,
             ControlType, ThreadPC, WorkerPC, ScanPC, ClearPC, AsyncPC, Refreshing,
             Clearing, Idle, Procs, Goto, lists, locks, memory, control
<1> QED
  BY <1>1, <1>2, <1>3, <1>4, <1>5, <1>6, <1>7, <1>8, <1>9, <1>10, <1>11, <1>12, <1>13,
     <1>14, <1>15, <1>16, <1>17, <1>18, <1>19, <1>20, <1>21, <1>22, <1>23, <1>24, <1>25,
     <1>26, <1>27, <1>28, <1>29, <1>30, <1>31, <1>32, <1>33, <1>34, <1>35
     DEF Next, Begin, ApiStep, RefreshStep, WorkerStep, Procs

\* The handler is installed and removed with the initialisation.
LEMMA NextHandler == TypeInv /\ CalmInv /\ [Next]_vars => HandlerInv'
<1> SUFFICES ASSUME TypeInv /\ CalmInv, [Next]_vars PROVE HandlerInv'
  OBVIOUS
<1> USE DEF AloneInv, StageInv, HandlerInv, CalmInv, TypeInv, FlagType, Flags, Ghost,
            ControlType, ThreadPC, WorkerPC, ScanPC, ClearPC, AsyncPC, Refreshing,
            Clearing, Idle, Procs, Goto, lists, locks, memory, control
<1>1. ASSUME NEW t \in Threads, CallRegister(t, "register") PROVE HandlerInv'
  BY <1>1 DEF CallRegister, Call
<1>2. ASSUME NEW t \in Threads, CallRegister(t, "ignore") PROVE HandlerInv'
  BY <1>2 DEF CallRegister, Call
<1>3. ASSUME NEW t \in Threads, NEW a \in BOOLEAN, CallRefresh(t, a) PROVE HandlerInv'
  BY <1>3 DEF CallRefresh, Call, Spend
<1>4. ASSUME NEW t \in Threads, CallClear(t) PROVE HandlerInv'
  BY <1>4 DEF CallClear, Call, Spend
<1>5. ASSUME NEW t \in Threads, NEW on \in BOOLEAN, EnableSigsegvProtection(t, on) PROVE HandlerInv'
  BY <1>5 DEF EnableSigsegvProtection, Spend
<1>6. ASSUME NEW t \in Threads, NEW h \in Hooks, Register(t, h) PROVE HandlerInv'
  BY <1>6 DEF Register, Disturb
<1>7. ASSUME NEW t \in Threads, NEW i \in Ignores, Ignore(t, i) PROVE HandlerInv'
  BY <1>7 DEF Ignore, Disturb
<1>8. ASSUME NEW t \in Threads, RegisterFails(t) PROVE HandlerInv'
  BY <1>8 DEF RegisterFails
<1>9. ASSUME NEW t \in Threads, InitOnce(t) PROVE HandlerInv'
  BY <1>9 DEF InitOnce
<1>10. ASSUME NEW t \in Threads, AddHandler(t) PROVE HandlerInv'
  BY <1>10 DEF AddHandler
<1>11. ASSUME NEW t \in Threads, InitCheck(t) PROVE HandlerInv'
  BY <1>11 DEF InitCheck, InitDone
<1>12. ASSUME NEW t \in Threads, InitAsyncOnce(t) PROVE HandlerInv'
  <2>1. /\ pc[t] = "async" /\ UNCHANGED <<ghost, tid, sig, mapInfo>>
        /\ \/ pc' = [pc EXCEPT ![t] = "asynccheck"] /\ flags' = flags
           \/ /\ pc' = [pc EXCEPT ![t] = "create"] /\ ~flags.asyncInited
              /\ flags' = [flags EXCEPT !.asyncInited = TRUE, !.running = TRUE]
    BY <1>12 DEF InitAsyncOnce, Goto
  <2>2. CASE pc' = [pc EXCEPT ![t] = "asynccheck"] /\ flags' = flags
    BY <2>1, <2>2
       DEF AloneInv, StageInv, WorkerInv, CalmInv, TypeInv, ControlType, ThreadPC,
           WorkerPC, ScanPC, ClearPC, AsyncPC, Clearing, Idle, Procs, HandlerInv
  <2>3. CASE /\ pc' = [pc EXCEPT ![t] = "create"] /\ ~flags.asyncInited
             /\ flags' = [flags EXCEPT !.asyncInited = TRUE, !.running = TRUE]
    <3>1. /\ flags'.asyncInited /\ flags'.running /\ flags'.inited = flags.inited
          /\ flags'.initOk = flags.initOk /\ flags'.asyncOk = flags.asyncOk
          /\ flags'.do = flags.do /\ flags'.enable = flags.enable
      BY <2>3 DEF TypeInv, FlagType, Flags
    <3> HIDE <2>3
    <3>2. pc' = [pc EXCEPT ![t] = "create"] /\ ~flags.asyncInited
      BY <2>3
    <3> QED
      BY <2>1, <3>1, <3>2
         DEF AloneInv, StageInv, WorkerInv, CalmInv, TypeInv, ControlType, ThreadPC,
             WorkerPC, ScanPC, ClearPC, AsyncPC, Clearing, Idle, Procs, HandlerInv
  <2> QED
    BY <2>1, <2>2, <2>3
<1>13. ASSUME NEW t \in Threads, CreateThread(t) PROVE HandlerInv'
  BY <1>13 DEF CreateThread
<1>14. ASSUME NEW t \in Threads, AsyncCheck(t) PROVE HandlerInv'
  BY <1>14 DEF AsyncCheck
<1>15. ASSUME NEW t \in Threads, PostRefresh(t) PROVE HandlerInv'
  BY <1>15 DEF PostRefresh, Signal
<1>16. ASSUME NEW t \in Threads, ClearTest(t) PROVE HandlerInv'
  BY <1>16 DEF ClearTest
<1>17. ASSUME NEW t \in Threads, ClearSignal(t) PROVE HandlerInv'
  BY <1>17 DEF ClearSignal, Signal
<1>18. ASSUME NEW t \in Threads, ClearJoin(t) PROVE HandlerInv'
  BY <1>18 DEF ClearJoin
<1>19. ASSUME NEW t \in Threads, ClearAsync(t) PROVE HandlerInv'
  BY <1>19 DEF ClearAsync
<1>20. ASSUME NEW t \in Threads, ClearHandler(t) PROVE HandlerInv'
  BY <1>20 DEF ClearHandler, HandlerRestored
<1>21. ASSUME NEW t \in Threads, ClearInited(t) PROVE HandlerInv'
  BY <1>21 DEF ClearInited
<1>22. ASSUME NEW t \in Threads, ClearLock(t) PROVE HandlerInv'
  BY <1>22 DEF ClearLock
<1>23. ASSUME NEW t \in Threads, ClearFree(t) PROVE HandlerInv'
  BY <1>23 DEF ClearFree, FreeEntry
<1>24. ASSUME NEW p \in Procs, RefreshLock(p) PROVE HandlerInv'
  BY <1>24 DEF RefreshLock, RefreshEntry, Return
<1>25. ASSUME NEW p \in Procs, NextLine(p) PROVE HandlerInv'
  BY <1>25 DEF NextLine
<1>26. ASSUME NEW p \in Procs, CheckHeader(p) PROVE HandlerInv'
  BY <1>26 DEF CheckHeader, Segv, Disturb
<1>27. ASSUME NEW p \in Procs, SaveOld(p) PROVE HandlerInv'
  BY <1>27 DEF SaveOld, Segv, Saved
<1>28. ASSUME NEW p \in Procs, Replace(p) PROVE HandlerInv'
  BY <1>28 DEF Replace, Segv
<1>29. ASSUME NEW p \in Procs, Finish(p) PROVE HandlerInv'
  BY <1>29 DEF Finish, Return
<1>30. ASSUME NEW w \in Workers, WorkerTop(w) PROVE HandlerInv'
  BY <1>30 DEF WorkerTop
<1>31. ASSUME NEW w \in Workers, WorkerLock(w) PROVE HandlerInv'
  BY <1>31 DEF WorkerLock, WaitLoop
<1>32. ASSUME NEW w \in Workers, Spurious(w) PROVE HandlerInv'
  BY <1>32 DEF Spurious
<1>33. ASSUME NEW l \in Libs, NEW b \in Bases, Dlopen(l, b) PROVE HandlerInv'
  BY <1>33 DEF Dlopen, Disturb
<1>34. ASSUME NEW b \in Bases, Dlclose(b) PROVE HandlerInv'
  BY <1>34 DEF Dlclose, Disturb
<1>35. CASE UNCHANGED vars
  BY <1>35 DEF vars
<1> HIDE DEF AloneInv, StageInv, HandlerInv, CalmInv, TypeInv, FlagType, Flags, Ghost,
             ControlType, ThreadPC, WorkerPC, ScanPC, ClearPC, AsyncPC, Refreshing,
             Clearing, Idle, Procs, Goto, lists, locks, memory, control
<1> QED
  BY <1>1, <1>2, <1>3, <1>4, <1>5, <1>6, <1>7, <1>8, <1>9, <1>10, <1>11, <1>12, <1>13,
     <1>14, <1>15, <1>16, <1>17, <1>18, <1>19, <1>20, <1>21, <1>22, <1>23, <1>24, <1>25,
     <1>26, <1>27, <1>28, <1>29, <1>30, <1>31, <1>32, <1>33, <1>34, <1>35
     DEF Next, Begin, ApiStep, RefreshStep, WorkerStep, Procs

\* What a refresh recorded is freed by the clear.
LEMMA NextMap == TypeInv /\ CalmInv /\ [Next]_vars => MapInv'
<1> SUFFICES ASSUME TypeInv /\ CalmInv, [Next]_vars PROVE MapInv'
  OBVIOUS
<1> USE DEF AloneInv, StageInv, WorkerInv, MapInv, CalmInv, TypeInv, FlagType, Flags,
            Ghost, ControlType, ThreadPC, WorkerPC, ScanPC, ClearPC, AsyncPC, Refreshing,
            Clearing, Idle, Procs, Goto, lists, locks, memory, control
<1>1. ASSUME NEW t \in Threads, CallRegister(t, "register") PROVE MapInv'
  BY <1>1 DEF CallRegister, Call
<1>2. ASSUME NEW t \in Threads, CallRegister(t, "ignore") PROVE MapInv'
  BY <1>2 DEF CallRegister, Call
<1>3. ASSUME NEW t \in Threads, NEW a \in BOOLEAN, CallRefresh(t, a) PROVE MapInv'
  BY <1>3 DEF CallRefresh, Call, Spend
<1>4. ASSUME NEW t \in Threads, CallClear(t) PROVE MapInv'
  BY <1>4 DEF CallClear, Call, Spend
<1>5. ASSUME NEW t \in Threads, NEW on \in BOOLEAN, EnableSigsegvProtection(t, on) PROVE MapInv'
  BY <1>5 DEF EnableSigsegvProtection, Spend
<1>6. ASSUME NEW t \in Threads, NEW h \in Hooks, Register(t, h) PROVE MapInv'
  BY <1>6 DEF Register, Disturb
<1>7. ASSUME NEW t \in Threads, NEW i \in Ignores, Ignore(t, i) PROVE MapInv'
  BY <1>7 DEF Ignore, Disturb
<1>8. ASSUME NEW t \in Threads, RegisterFails(t) PROVE MapInv'
  BY <1>8 DEF RegisterFails
<1>9. ASSUME NEW t \in Threads, InitOnce(t) PROVE MapInv'
  BY <1>9 DEF InitOnce
<1>10. ASSUME NEW t \in Threads, AddHandler(t) PROVE MapInv'
  BY <1>10 DEF AddHandler
<1>11. ASSUME NEW t \in Threads, InitCheck(t) PROVE MapInv'
  BY <1>11 DEF InitCheck, InitDone
<1>12. ASSUME NEW t \in Threads, InitAsyncOnce(t) PROVE MapInv'
  <2>1. /\ pc[t] = "async" /\ UNCHANGED <<ghost, tid, sig, mapInfo>>
        /\ \/ pc' = [pc EXCEPT ![t] = "asynccheck"] /\ flags' = flags
           \/ /\ pc' = [pc EXCEPT ![t] = "create"] /\ ~flags.asyncInited
              /\ flags' = [flags EXCEPT !.asyncInited = TRUE, !.running = TRUE]
    BY <1>12 DEF InitAsyncOnce, Goto
  <2>2. CASE pc' = [pc EXCEPT ![t] = "asynccheck"] /\ flags' = flags
    BY <2>1, <2>2
       DEF AloneInv, StageInv, WorkerInv, CalmInv, TypeInv, ControlType, ThreadPC,
           WorkerPC, ScanPC, ClearPC, AsyncPC, Clearing, Idle, Procs, MapInv
  <2>3. CASE /\ pc' = [pc EXCEPT ![t] = "create"] /\ ~flags.asyncInited
             /\ flags' = [flags EXCEPT !.asyncInited = TRUE, !.running = TRUE]
    <3>1. /\ flags'.asyncInited /\ flags'.running /\ flags'.inited = flags.inited
          /\ flags'.initOk = flags.initOk /\ flags'.asyncOk = flags.asyncOk
          /\ flags'.do = flags.do /\ flags'.enable = flags.enable
      BY <2>3 DEF TypeInv, FlagType, Flags
    <3> HIDE <2>3
    <3>2. pc' = [pc EXCEPT ![t] = "create"] /\ ~flags.asyncInited
      BY <2>3
    <3> QED
      BY <2>1, <3>1, <3>2
         DEF AloneInv, StageInv, WorkerInv, CalmInv, TypeInv, ControlType, ThreadPC,
             WorkerPC, ScanPC, ClearPC, AsyncPC, Clearing, Idle, Procs, MapInv
  <2> QED
    BY <2>1, <2>2, <2>3
<1>13. ASSUME NEW t \in Threads, CreateThread(t) PROVE MapInv'
  BY <1>13 DEF CreateThread
<1>14. ASSUME NEW t \in Threads, AsyncCheck(t) PROVE MapInv'
  BY <1>14 DEF AsyncCheck
<1>15. ASSUME NEW t \in Threads, PostRefresh(t) PROVE MapInv'
  BY <1>15 DEF PostRefresh, Signal
<1>16. ASSUME NEW t \in Threads, ClearTest(t) PROVE MapInv'
  BY <1>16 DEF ClearTest
<1>17. ASSUME NEW t \in Threads, ClearSignal(t) PROVE MapInv'
  BY <1>17 DEF ClearSignal, Signal
<1>18. ASSUME NEW t \in Threads, ClearJoin(t) PROVE MapInv'
  BY <1>18 DEF ClearJoin
<1>19. ASSUME NEW t \in Threads, ClearAsync(t) PROVE MapInv'
  BY <1>19 DEF ClearAsync
<1>20. ASSUME NEW t \in Threads, ClearHandler(t) PROVE MapInv'
  BY <1>20 DEF ClearHandler, HandlerRestored
<1>21. ASSUME NEW t \in Threads, ClearInited(t) PROVE MapInv'
  BY <1>21 DEF ClearInited
<1>22. ASSUME NEW t \in Threads, ClearLock(t) PROVE MapInv'
  BY <1>22 DEF ClearLock
<1>23. ASSUME NEW t \in Threads, ClearFree(t) PROVE MapInv'
  BY <1>23 DEF ClearFree, FreeEntry
<1>24. ASSUME NEW p \in Procs, RefreshLock(p) PROVE MapInv'
  BY <1>24 DEF RefreshLock, RefreshEntry, Return
<1>25. ASSUME NEW p \in Procs, NextLine(p) PROVE MapInv'
  BY <1>25 DEF NextLine
<1>26. ASSUME NEW p \in Procs, CheckHeader(p) PROVE MapInv'
  BY <1>26 DEF CheckHeader, Segv, Disturb
<1>27. ASSUME NEW p \in Procs, SaveOld(p) PROVE MapInv'
  BY <1>27 DEF SaveOld, Segv, Saved
<1>28. ASSUME NEW p \in Procs, Replace(p) PROVE MapInv'
  BY <1>28 DEF Replace, Segv
<1>29. ASSUME NEW p \in Procs, Finish(p) PROVE MapInv'
  BY <1>29 DEF Finish, Return
<1>30. ASSUME NEW w \in Workers, WorkerTop(w) PROVE MapInv'
  BY <1>30 DEF WorkerTop
<1>31. ASSUME NEW w \in Workers, WorkerLock(w) PROVE MapInv'
  BY <1>31 DEF WorkerLock, WaitLoop
<1>32. ASSUME NEW w \in Workers, Spurious(w) PROVE MapInv'
  BY <1>32 DEF Spurious
<1>33. ASSUME NEW l \in Libs, NEW b \in Bases, Dlopen(l, b) PROVE MapInv'
  BY <1>33 DEF Dlopen, Disturb
<1>34. ASSUME NEW b \in Bases, Dlclose(b) PROVE MapInv'
  BY <1>34 DEF Dlclose, Disturb
<1>35. CASE UNCHANGED vars
  BY <1>35 DEF vars
<1> HIDE DEF AloneInv, StageInv, WorkerInv, MapInv, CalmInv, TypeInv, FlagType, Flags,
             Ghost, ControlType, ThreadPC, WorkerPC, ScanPC, ClearPC, AsyncPC, Refreshing,
             Clearing, Idle, Procs, Goto, lists, locks, memory, control
<1> QED
  BY <1>1, <1>2, <1>3, <1>4, <1>5, <1>6, <1>7, <1>8, <1>9, <1>10, <1>11, <1>12, <1>13,
     <1>14, <1>15, <1>16, <1>17, <1>18, <1>19, <1>20, <1>21, <1>22, <1>23, <1>24, <1>25,
     <1>26, <1>27, <1>28, <1>29, <1>30, <1>31, <1>32, <1>33, <1>34, <1>35
     DEF Next, Begin, ApiStep, RefreshStep, WorkerStep, Procs

\* A refresh that meets an unloaded library is caught by the handler.
LEMMA SegvSafe ==
  ASSUME TypeInv, CalmInv, NEW p \in Procs, Refreshing(p), Segv(p), UNCHANGED flags
  PROVE  ghost'.crashed =>
            ghost.crashed \/ ghost'.overlap \/ ghost'.toggled \/ ~flags'.enable
<1> SUFFICES ASSUME ~ghost.overlap, ~ghost.toggled, flags.enable
             PROVE  ghost'.crashed = ghost.crashed
  BY SegvCases DEF TypeInv, FlagType, Ghost
<1>1. flags.initOk
  <2>1. CASE p \in Threads
    BY <2>1 DEF CalmInv, StageInv, Refreshing, ScanPC
  <2>2. CASE p \in Workers
    BY <2>2 DEF CalmInv, StageInv, WorkerInv, Refreshing, Idle
  <2> QED
    BY <2>1, <2>2 DEF Procs
<1>2. sig = [handler |-> Xhook, saved |-> App]
  BY <1>1 DEF CalmInv, HandlerInv
<1>3. sig.handler = Xhook
  BY <1>2
<1> QED
  BY <1>3, SegvCases

\* No step crashes a refresh that is protected.
LEMMA NextCrash ==
  ASSUME TypeInv, CalmInv, RefreshSurvivesDlclose, [Next]_vars
  PROVE  RefreshSurvivesDlclose'
<1> DEFINE Safe == ghost'.crashed =>
                      ghost.crashed \/ ghost'.overlap \/ ghost'.toggled \/ ~flags'.enable
<1>1. ASSUME NEW t \in Threads, CallRegister(t, "register") PROVE Safe
  BY <1>1 DEF CallRegister, Call, TypeInv, FlagType, Ghost
<1>2. ASSUME NEW t \in Threads, CallRegister(t, "ignore") PROVE Safe
  BY <1>2 DEF CallRegister, Call, TypeInv, FlagType, Ghost
<1>3. ASSUME NEW t \in Threads, NEW a \in BOOLEAN, CallRefresh(t, a) PROVE Safe
  BY <1>3 DEF CallRefresh, Call, Spend, TypeInv, FlagType, Ghost
<1>4. ASSUME NEW t \in Threads, CallClear(t) PROVE Safe
  BY <1>4 DEF CallClear, Call, Spend, TypeInv, FlagType, Ghost
<1>5. ASSUME NEW t \in Threads, NEW on \in BOOLEAN, EnableSigsegvProtection(t, on) PROVE Safe
  BY <1>5 DEF EnableSigsegvProtection, TypeInv, FlagType, Ghost
<1>6. ASSUME NEW t \in Threads, NEW h \in Hooks, Register(t, h) PROVE Safe
  BY <1>6 DEF Register, TypeInv, FlagType, Ghost
<1>7. ASSUME NEW t \in Threads, NEW i \in Ignores, Ignore(t, i) PROVE Safe
  BY <1>7 DEF Ignore, TypeInv, FlagType, Ghost
<1>8. ASSUME NEW t \in Threads, RegisterFails(t) PROVE Safe
  BY <1>8 DEF RegisterFails, TypeInv, FlagType, Ghost
<1>9. ASSUME NEW t \in Threads, InitOnce(t) PROVE Safe
  BY <1>9 DEF InitOnce, TypeInv, FlagType, Ghost
<1>10. ASSUME NEW t \in Threads, AddHandler(t) PROVE Safe
  BY <1>10 DEF AddHandler, TypeInv, FlagType, Ghost
<1>11. ASSUME NEW t \in Threads, InitCheck(t) PROVE Safe
  BY <1>11 DEF InitCheck, TypeInv, FlagType, Ghost
<1>12. ASSUME NEW t \in Threads, InitAsyncOnce(t) PROVE Safe
  BY <1>12 DEF InitAsyncOnce, TypeInv, FlagType, Ghost
<1>13. ASSUME NEW t \in Threads, CreateThread(t) PROVE Safe
  BY <1>13 DEF CreateThread, TypeInv, FlagType, Ghost
<1>14. ASSUME NEW t \in Threads, AsyncCheck(t) PROVE Safe
  BY <1>14 DEF AsyncCheck, TypeInv, FlagType, Ghost
<1>15. ASSUME NEW t \in Threads, PostRefresh(t) PROVE Safe
  BY <1>15 DEF PostRefresh, TypeInv, FlagType, Ghost
<1>16. ASSUME NEW t \in Threads, ClearTest(t) PROVE Safe
  BY <1>16 DEF ClearTest, TypeInv, FlagType, Ghost
<1>17. ASSUME NEW t \in Threads, ClearSignal(t) PROVE Safe
  BY <1>17 DEF ClearSignal, TypeInv, FlagType, Ghost
<1>18. ASSUME NEW t \in Threads, ClearJoin(t) PROVE Safe
  BY <1>18 DEF ClearJoin, TypeInv, FlagType, Ghost
<1>19. ASSUME NEW t \in Threads, ClearAsync(t) PROVE Safe
  BY <1>19 DEF ClearAsync, TypeInv, FlagType, Ghost
<1>20. ASSUME NEW t \in Threads, ClearHandler(t) PROVE Safe
  BY <1>20 DEF ClearHandler, TypeInv, FlagType, Ghost
<1>21. ASSUME NEW t \in Threads, ClearInited(t) PROVE Safe
  BY <1>21 DEF ClearInited, TypeInv, FlagType, Ghost
<1>22. ASSUME NEW t \in Threads, ClearLock(t) PROVE Safe
  BY <1>22 DEF ClearLock, TypeInv, FlagType, Ghost
<1>23. ASSUME NEW t \in Threads, ClearFree(t) PROVE Safe
  BY <1>23 DEF ClearFree, TypeInv, FlagType, Ghost
<1>24. ASSUME NEW p \in Procs, RefreshLock(p) PROVE Safe
  BY <1>24 DEF RefreshLock, TypeInv, FlagType, Ghost
<1>25. ASSUME NEW p \in Procs, NextLine(p) PROVE Safe
  BY <1>25 DEF NextLine, TypeInv, FlagType, Ghost
<1>26. ASSUME NEW p \in Procs, CheckHeader(p) PROVE Safe
  <2>1. \/ Refreshing(p) /\ ghost' = ghost
        \/ Refreshing(p) /\ Segv(p) /\ UNCHANGED flags
        \/ ghost'.crashed = ghost.crashed
    BY <1>26, CheckHeaderCases DEF Refreshing, control, TypeInv, FlagType, Ghost
  <2> QED
    BY <2>1, SegvSafe
<1>27. ASSUME NEW p \in Procs, SaveOld(p) PROVE Safe
  <2>1. \/ Refreshing(p) /\ ghost' = ghost
        \/ Refreshing(p) /\ Segv(p) /\ UNCHANGED flags
        \/ ghost'.crashed = ghost.crashed
    BY <1>27, SaveOldCases DEF Refreshing, control, TypeInv, FlagType, Ghost
  <2> QED
    BY <2>1, SegvSafe
<1>28. ASSUME NEW p \in Procs, Replace(p) PROVE Safe
  <2>1. \/ Refreshing(p) /\ ghost' = ghost
        \/ Refreshing(p) /\ Segv(p) /\ UNCHANGED flags
        \/ ghost'.crashed = ghost.crashed
    BY <1>28, ReplaceCases DEF Refreshing, control, TypeInv, FlagType, Ghost
  <2> QED
    BY <2>1, SegvSafe
<1>29. ASSUME NEW p \in Procs, Finish(p) PROVE Safe
  BY <1>29 DEF Finish, TypeInv, FlagType, Ghost
<1>30. ASSUME NEW w \in Workers, WorkerTop(w) PROVE Safe
  BY <1>30 DEF WorkerTop, TypeInv, FlagType, Ghost
<1>31. ASSUME NEW w \in Workers, WorkerLock(w) PROVE Safe
  BY <1>31 DEF WorkerLock, TypeInv, FlagType, Ghost
<1>32. ASSUME NEW w \in Workers, Spurious(w) PROVE Safe
  BY <1>32 DEF Spurious, TypeInv, FlagType, Ghost
<1>33. ASSUME NEW l \in Libs, NEW b \in Bases, Dlopen(l, b) PROVE Safe
  BY <1>33 DEF Dlopen, TypeInv, FlagType, Ghost
<1>34. ASSUME NEW b \in Bases, Dlclose(b) PROVE Safe
  BY <1>34 DEF Dlclose, TypeInv, FlagType, Ghost
<1>35. CASE UNCHANGED vars
  BY <1>35 DEF vars, RefreshSurvivesDlclose
<1>36. ASSUME Next PROVE Safe
  <2> HIDE DEF Safe
  <2> QED
    BY <1>36, <1>1, <1>2, <1>3, <1>4, <1>5, <1>6, <1>7, <1>8, <1>9, <1>10, <1>11, <1>12,
       <1>13, <1>14, <1>15, <1>16, <1>17, <1>18, <1>19, <1>20, <1>21, <1>22, <1>23, <1>24,
       <1>25, <1>26, <1>27, <1>28, <1>29, <1>30, <1>31, <1>32, <1>33, <1>34
       DEF Next, Begin, ApiStep, RefreshStep, WorkerStep, Procs
<1> QED
  BY <1>35, <1>36 DEF Next, Running, RefreshSurvivesDlclose

-----------------------------------------------------------------------------
(***************************************************************************)
(* What a refresh leaves hooked.                                           *)
(***************************************************************************)
\* Addresses are numbers.
LEMMA ScanNat ==
  ASSUME TypeInv
  PROVE  /\ scan.cursor \in Nat /\ \A l \in Libs : scan.tree[l] \in Nat
         /\ \A b \in Bases : b \in Nat /\ b # 0
<1>1. \A b \in Bases : b \in Nat /\ b # 0
  OBVIOUS
<1>2. scan.cursor \in Bases \cup {0} /\ scan.tree \in [Libs -> Bases \cup {0}]
  BY DEF TypeInv, ScanInv, Scan, Absent
<1> DEFINE B == Bases \cup {0}
<1>3. B \subseteq Nat
  BY <1>1
<1>4. scan.cursor \in B /\ scan.tree \in [Libs -> B]
  BY <1>2
<1> HIDE DEF B
<1>5. scan.cursor \in Nat /\ \A l \in Libs : scan.tree[l] \in Nat
  BY <1>3, <1>4
<1> QED
  BY <1>1, <1>5

HIDE BasesAssumption

\* A set of positions has a last one.
LEMMA MaxIn ==
  ASSUME NEW n \in Nat, NEW S \in SUBSET (1..n), S # {}
  PROVE  Max(S) \in S /\ \A m \in S : m <= Max(S)
<1> DEFINE T == {n - x : x \in S}
           Less == {ss \in Nat \X Nat : ss[1] < ss[2]}
<1>1. T \subseteq Nat /\ T # {}
  <2>1. \A x \in S : n - x \in Nat
    OBVIOUS
  <2>2. T \subseteq Nat
    BY <2>1
  <2>3. PICK x \in S : TRUE
    OBVIOUS
  <2>4. n - x \in T
    OBVIOUS
  <2> QED
    BY <2>2, <2>4
<1>2. PICK m \in T : \A y \in T : ~(<<y, m>> \in Less)
  <2>1. IsWellFoundedOn(Less, Nat)
    BY NatLessThanWellFounded DEF OpToRel
  <2> HIDE DEF T, Less
  <2> QED
    BY <1>1, <2>1, WFMin
<1>3. PICK x \in S : m = n - x
  BY <1>2
<1>4. ASSUME NEW y \in S PROVE y <= x
  <2>1. n - y \in T /\ m \in Nat /\ n - y \in Nat
    BY <1>1, <1>2
  <2>2. ~(n - y < m)
    BY <1>2, <2>1
  <2> QED
    BY <1>3, <2>2
<1> QED
  BY <1>4 DEF Max

\* What is wanted of a library depends on the two lists, and whether it is hooked on its
\* slots too.
LEMMA SameLists ==
  ASSUME UNCHANGED <<hookInfo, ignoreInfo>>, NEW l
  PROVE  /\ Wanted(l)' = Wanted(l)
         /\ Match(l)' <=> Match(l)
         /\ WantedSyms(l)' = WantedSyms(l)
         /\ \A s : LastWanted(l, s)' = LastWanted(l, s)
         /\ slot'[l] = slot[l] => (Hooked(l)' <=> Hooked(l))
         /\ scan'.next = scan.next => \A s : Done(l, s)' = Done(l, s)
<1>1. Wanted(l)' = Wanted(l)
  BY DEF Wanted, IgnoredWhole, IgnoredSym
<1>2. Match(l)' <=> Match(l)
  BY <1>1 DEF Match
<1>3. WantedSyms(l)' = WantedSyms(l)
  BY <1>1 DEF WantedSyms
<1>4. ASSUME NEW s PROVE LastWanted(l, s)' = LastWanted(l, s)
  BY <1>1 DEF LastWanted
<1>5. ASSUME slot'[l] = slot[l] PROVE Hooked(l)' <=> Hooked(l)
  BY <1>3, <1>4, <1>5 DEF Hooked
<1>6. ASSUME scan'.next = scan.next, NEW s PROVE Done(l, s)' = Done(l, s)
  BY <1>1, <1>6 DEF Done
<1> QED
  BY <1>1, <1>2, <1>3, <1>4, <1>5, <1>6

\* One more ignore entry takes away every registration of a symbol, or none.
LEMMA MoreIgnored ==
  ASSUME TypeInv, NEW i \in Ignores, hookInfo' = hookInfo,
         ignoreInfo' = Append(ignoreInfo, i), NEW l \in Libs
  PROVE  /\ Wanted(l)' \subseteq Wanted(l)
         /\ \A m, n \in Wanted(l) :
               n \in Wanted(l)' /\ hookInfo[m].sym = hookInfo[n].sym => m \in Wanted(l)'
         /\ Match(l)' => Match(l)
<1>1. /\ Len(ignoreInfo) \in Nat /\ Len(ignoreInfo') = Len(ignoreInfo) + 1
      /\ \A k \in 1..Len(ignoreInfo) : ignoreInfo'[k] = ignoreInfo[k]
  BY DEF TypeInv, ListType
<1>2. IgnoredWhole(l) => IgnoredWhole(l)'
  BY <1>1 DEF IgnoredWhole
<1>3. \A s : IgnoredSym(l, s) => IgnoredSym(l, s)'
  BY <1>1 DEF IgnoredSym
<1>4. Wanted(l)' \subseteq Wanted(l)
  BY <1>2, <1>3 DEF Wanted
<1>5. \A m, n \in Wanted(l) :
         n \in Wanted(l)' /\ hookInfo[m].sym = hookInfo[n].sym => m \in Wanted(l)'
  BY DEF Wanted, IgnoredSym
<1>6. Match(l)' => Match(l)
  BY <1>4 DEF Match
<1> QED
  BY <1>4, <1>5, <1>6

\* The refresh in progress is the only one.
LEMMA OneRefresh ==
  ASSUME TypeInv, NEW p \in Procs, Refreshing(p)
  PROVE  refreshMutex = p /\ refreshMutex # None /\ \A q \in Procs : q # p => ~Refreshing(q)
  BY DEF TypeInv, ControlType, Procs

\* A library is recorded at bases only, and nothing is in hand without a refresh.
LEMMA NoneRefreshing ==
  ASSUME TypeInv, refreshMutex = None
  PROVE  /\ \A p \in Procs : ~Refreshing(p)
         /\ scan = NoLine
         /\ \A l \in Libs : scan.tree[l] = Absent
  BY DEF TypeInv, ControlType, Procs, ScanInv, NoLine

\* As long as no clear overlaps, every refresh runs while xhook is initialised.
LEMMA RefreshInited ==
  ASSUME TypeInv, CalmInv, ~ghost.overlap, NEW p \in Procs, Refreshing(p)
  PROVE  flags.inited
<1>1. CASE p \in Threads
  BY <1>1 DEF CalmInv, StageInv, Refreshing, ScanPC
<1>2. CASE p \in Workers
  BY <1>2 DEF CalmInv, StageInv, WorkerInv, Refreshing, Idle
<1> QED
  BY <1>1, <1>2 DEF Procs

\* Steps that only move other threads, and do not touch what a refresh looks at.
LEMMA FrameRefresh ==
  ASSUME RefreshInv, UNCHANGED <<at, slot, mapInfo, scan, hookInfo, ignoreInfo>>,
         ghost'.reloaded = ghost.reloaded, ghost'.late = ghost.late,
         ghost.overlap => ghost'.overlap,
         \A p \in Procs : pc'[p] = pc[p] \/ (~Refreshing(p) /\ ~Refreshing(p)')
  PROVE  RefreshInv'
<1>0. \A p \in Procs : \/ pc'[p] = pc[p]
                       \/ pc[p] \notin ScanPC /\ pc'[p] \notin ScanPC
  BY DEF Refreshing, ScanPC
<1>1. AtInv'
  BY DEF RefreshInv, AtInv
<1>2. HandInv'
  BY <1>0 DEF RefreshInv, HandInv, RecordedAt, ScanPC
<1>3. ProgressInv'
  <2>1. \A l \in Libs : \A s \in Syms : Done(l, s)' = Done(l, s)
    BY SameLists
  <2> QED
    BY <1>0, <2>1 DEF RefreshInv, ProgressInv, ScanPC
<1>4. RecordInv'
  <2>1. \A l \in Libs : InHand(l)' <=> InHand(l)
    BY <1>0 DEF InHand, ScanPC
  <2>2. \A l \in Libs, b \in Bases : RecordedAt(l, b)' <=> RecordedAt(l, b)
    BY DEF RecordedAt
  <2> QED
    BY <2>1, <2>2, SameLists DEF RefreshInv, RecordInv
<1>5. QuietInv'
  BY <1>0, SameLists DEF RefreshInv, QuietInv, Passed, Refreshing, ScanPC
<1> QED
  BY <1>1, <1>2, <1>3, <1>4, <1>5 DEF RefreshInv

\* Whatever disturbs a refresh ends its quiet.
LEMMA DisturbQuiet ==
  ASSUME TypeInv, Disturb, UNCHANGED refreshMutex,
         \A p \in Procs : pc'[p] = pc[p] \/ (~Refreshing(p) /\ ~Refreshing(p)')
  PROVE  QuietInv'
<1> SUFFICES ASSUME NEW p \in Procs, Refreshing(p)', scan'.quiet PROVE FALSE
  BY DEF QuietInv
<1>1. Refreshing(p)
  BY DEF Refreshing
<1>2. refreshMutex # None
  BY <1>1, OneRefresh
<1> QED
  BY <1>2 DEF Disturb, TypeInv, ScanInv, Scan

\* A registration is appended while there is nothing recorded, or it is late.
LEMMA RegisterRefresh ==
  ASSUME TypeInv, CalmInv, RefreshInv, NEW t \in Threads, NEW h \in Hooks, Register(t, h)
  PROVE  RefreshInv'
<1>1. /\ pc[t] = "register" /\ hookInfo' = Append(hookInfo, h) /\ Disturb
      /\ ghost' = IF flags.inited THEN [ghost EXCEPT !.late = @ \cup {h}] ELSE ghost
      /\ pc' = [pc EXCEPT ![t] = "idle"]
      /\ UNCHANGED <<ignoreInfo, mapInfo, flags, coreMutex, refreshMutex, at, slot>>
  BY DEF Register, Goto, locks, memory, control
<1>2. \A p \in Procs : \/ pc'[p] = pc[p]
                       \/ pc[p] \notin ScanPC /\ pc'[p] \notin ScanPC
  BY <1>1 DEF TypeInv, ControlType, ScanPC, Procs
<1>3. /\ scan'.cursor = scan.cursor /\ scan'.lib = scan.lib
      /\ scan'.next = scan.next /\ scan'.tree = scan.tree
  BY <1>1 DEF Disturb, TypeInv, ScanInv, Scan
<1>4. ghost'.overlap = ghost.overlap /\ ghost'.reloaded = ghost.reloaded
  BY <1>1 DEF TypeInv, FlagType, Ghost
<1>5. \A n \in 1..Len(hookInfo) : hookInfo'[n] = hookInfo[n]
  BY <1>1 DEF TypeInv, ListType
<1>6. ASSUME ~ghost'.overlap, ghost'.late = {}
      PROVE  /\ refreshMutex = None
             /\ \A l \in Libs : mapInfo[l] = Absent
  <2>1. ~flags.inited /\ ~ghost.overlap
    <3>1. CASE flags.inited
      BY <1>1, <1>6, <3>1 DEF TypeInv, FlagType, Ghost
    <3> QED
      BY <1>4, <1>6, <3>1
  <2>2. refreshMutex = None
    BY <2>1, RefreshInited DEF TypeInv, ControlType
  <2>3. \A u \in Threads : pc[u] \notin {"clearlock", "free"}
    BY <1>1, <2>1 DEF CalmInv, AloneInv, Clearing, Idle
  <2> QED
    BY <2>1, <2>2, <2>3 DEF CalmInv, MapInv
<1>7. AtInv'
  BY <1>1 DEF RefreshInv, AtInv
<1>8. HandInv'
  <2>1. \A p \in Procs : pc'[p] = "replace" => hookInfo'[scan'.next] = hookInfo[scan.next]
    BY <1>2, <1>3, <1>5 DEF TypeInv, ScanInv, ScanPC
  <2> QED
    BY <1>1, <1>2, <1>3, <1>4, <2>1 DEF RefreshInv, HandInv, RecordedAt, ScanPC
<1>9. ProgressInv'
  <2>1. ASSUME ~ghost'.overlap, ghost'.late = {}, NEW p \in Procs
        PROVE  pc'[p] \notin {"hook", "replace"}
    <3>1. ~Refreshing(p)
      BY <1>6, <2>1, NoneRefreshing
    <3> QED
      BY <1>2, <3>1 DEF Refreshing, ScanPC
  <2> QED
    BY <2>1 DEF ProgressInv
<1>10. RecordInv'
  <2>1. ASSUME ~ghost'.overlap, ghost'.late = {}, NEW b \in Bases, NEW l \in Libs
        PROVE  ~RecordedAt(l, b)'
    <3>1. mapInfo[l] = Absent /\ scan.tree[l] = Absent
      BY <1>6, <2>1, NoneRefreshing
    <3>2. b # Absent
      BY ScanNat DEF Absent
    <3> QED
      BY <1>1, <1>3, <3>1, <3>2 DEF RecordedAt
  <2> QED
    BY <2>1 DEF RecordInv
<1>11. QuietInv'
  BY <1>1, <1>2, DisturbQuiet DEF Refreshing, ScanPC
<1> QED
  BY <1>7, <1>8, <1>9, <1>10, <1>11 DEF RefreshInv

\* An ignore entry takes registrations away.
LEMMA IgnoreRefresh ==
  ASSUME TypeInv, RefreshInv, NEW t \in Threads, NEW i \in Ignores, Ignore(t, i)
  PROVE  RefreshInv'
<1>1. /\ pc[t] = "ignore" /\ ignoreInfo' = Append(ignoreInfo, i) /\ Disturb
      /\ pc' = [pc EXCEPT ![t] = "idle"]
      /\ UNCHANGED <<hookInfo, mapInfo, ghost, coreMutex, refreshMutex, at, slot>>
  BY DEF Ignore, Goto, locks, memory, control
<1>2. \A p \in Procs : \/ pc'[p] = pc[p]
                       \/ pc[p] \notin ScanPC /\ pc'[p] \notin ScanPC
  BY <1>1 DEF TypeInv, ControlType, ScanPC, Procs
<1>3. /\ scan'.cursor = scan.cursor /\ scan'.lib = scan.lib
      /\ scan'.next = scan.next /\ scan'.tree = scan.tree
  BY <1>1 DEF Disturb, TypeInv, ScanInv, Scan
<1>4. ASSUME NEW l \in Libs
      PROVE  /\ Wanted(l)' \subseteq Wanted(l)
             /\ \A m, n \in Wanted(l) :
                   n \in Wanted(l)' /\ hookInfo[m].sym = hookInfo[n].sym => m \in Wanted(l)'
             /\ Match(l)' => Match(l)
  BY <1>1, MoreIgnored
<1>5. AtInv'
  BY <1>1 DEF RefreshInv, AtInv
<1>6. HandInv'
  BY <1>1, <1>2, <1>3 DEF RefreshInv, HandInv, RecordedAt, ScanPC
<1>7. ProgressInv'
  <2>1. ASSUME NEW l \in Libs, NEW s \in Syms, Done(l, s)' # {}
        PROVE  Done(l, s)' = Done(l, s)
    <3>1. PICK n \in Wanted(l)' : n < scan.next /\ hookInfo[n].sym = s
      BY <1>1, <1>3, <2>1 DEF Done
    <3>2. \A m \in Wanted(l) : hookInfo[m].sym = s => m \in Wanted(l)'
      BY <1>4, <3>1
    <3> QED
      BY <1>1, <1>3, <1>4, <3>2 DEF Done
  <2> SUFFICES ASSUME ~ghost'.overlap, ghost'.late = {}, NEW p \in Procs, NEW l \in Libs,
                      pc'[p] \in {"hook", "replace"}, scan'.lib = l, at'[scan'.cursor] = l,
                      l \notin ghost'.reloaded, NEW s \in Syms, Done(l, s)' # {}
               PROVE  slot'[l][s] = hookInfo'[Max(Done(l, s)')]
    BY DEF ProgressInv
  <2>2. /\ ~ghost.overlap /\ ghost.late = {} /\ l \notin ghost.reloaded
        /\ pc[p] \in {"hook", "replace"} /\ scan.lib = l /\ at[scan.cursor] = l
    BY <1>1, <1>2, <1>3 DEF ScanPC
  <2>3. slot[l][s] = hookInfo[Max(Done(l, s))]
    BY <2>1, <2>2 DEF RefreshInv, ProgressInv
  <2> QED
    BY <1>1, <2>1, <2>3
<1>8. RecordInv'
  <2>1. ASSUME NEW l \in Libs, Hooked(l) PROVE Hooked(l)'
    <3> SUFFICES ASSUME NEW n \in Wanted(l)', NEW s, s = hookInfo[n].sym
                 PROVE  slot[l][s] = LastWanted(l, s)'
      BY <1>1 DEF Hooked, WantedSyms
    <3>1. {m \in Wanted(l)' : hookInfo[m].sym = s} = {m \in Wanted(l) : hookInfo[m].sym = s}
      BY <1>4
    <3>2. LastWanted(l, s)' = LastWanted(l, s)
      BY <1>1, <3>1 DEF LastWanted
    <3>3. s \in WantedSyms(l)
      BY <1>4 DEF WantedSyms
    <3> QED
      BY <2>1, <3>2, <3>3 DEF Hooked
  <2>2. \A l \in Libs : InHand(l)' <=> InHand(l)
    BY <1>2, <1>3 DEF InHand, ScanPC
  <2>3. \A l \in Libs, b \in Bases : RecordedAt(l, b)' <=> RecordedAt(l, b)
    BY <1>1, <1>3 DEF RecordedAt
  <2> QED
    BY <1>1, <1>4, <2>1, <2>2, <2>3 DEF RefreshInv, RecordInv
<1>9. QuietInv'
  BY <1>1, <1>2, DisturbQuiet DEF Refreshing, ScanPC
<1> QED
  BY <1>5, <1>6, <1>7, <1>8, <1>9 DEF RefreshInv

\* A clear frees the lists when there is no refresh.
LEMMA FreeRefresh ==
  ASSUME TypeInv, RefreshInv, NEW t \in Threads, ClearFree(t)
  PROVE  RefreshInv'
<1>1. /\ refreshMutex = None /\ pc[t] = "free" /\ pc' = [pc EXCEPT ![t] = "idle"]
      /\ hookInfo' = <<>> /\ UNCHANGED <<at, slot, scan>>
  BY DEF ClearFree, FreeEntry, Goto, memory
<1>2. \A p \in Procs : ~Refreshing(p) /\ ~Refreshing(p)'
  BY <1>1, NoneRefreshing DEF Refreshing, TypeInv, ControlType, Procs
<1>3. AtInv'
  BY <1>1 DEF RefreshInv, AtInv
<1>4. HandInv' /\ ProgressInv' /\ QuietInv'
  BY <1>2 DEF HandInv, ProgressInv, QuietInv, Refreshing
<1>5. \A l \in Libs : ~Match(l)'
  BY <1>1 DEF Match
<1>6. RecordInv'
  BY <1>5 DEF RecordInv
<1> QED
  BY <1>3, <1>4, <1>6 DEF RefreshInv

\* A refresh starts from nothing.
LEMMA LockRefresh ==
  ASSUME TypeInv, RefreshInv, NEW p \in Procs, RefreshLock(p)
  PROVE  RefreshInv'
<1>1. /\ pc[p] = "refresh" /\ refreshMutex = None
      /\ UNCHANGED <<at, slot, mapInfo, hookInfo, ignoreInfo, ghost>>
  BY DEF RefreshLock, RefreshEntry, memory, lists
<1>2. scan = NoLine /\ \A q \in Procs : ~Refreshing(q)
  BY <1>1, NoneRefreshing
<1>3. CASE scan' = NoLine /\ pc' = [pc EXCEPT ![p] = "line"]
  <2>1. \A q \in Procs : pc'[q] = pc[q] \/ pc'[q] = "line"
    BY <1>3 DEF TypeInv, ControlType
  <2>2. \A q \in Procs : pc[q] \notin ScanPC /\ pc'[q] \notin ScanPC \ {"line"}
    BY <1>2, <2>1 DEF Refreshing, ScanPC
  <2>3. AtInv'
    BY <1>1 DEF RefreshInv, AtInv
  <2>4. HandInv' /\ ProgressInv'
    BY <2>2 DEF HandInv, ProgressInv, ScanPC
  <2>5. RecordInv'
    <3>1. \A l \in Libs : ~InHand(l)
      BY <2>2 DEF InHand, ScanPC
    <3>2. \A l \in Libs, b \in Bases : RecordedAt(l, b)' <=> RecordedAt(l, b)
      BY <1>1, <1>2, <1>3 DEF RecordedAt
    <3> QED
      BY <1>1, <3>1, <3>2, SameLists DEF RefreshInv, RecordInv
  <2>6. QuietInv'
    <3> SUFFICES ASSUME NEW q \in Procs, Refreshing(q)', scan'.quiet
                 PROVE  /\ pc'[q] = "line"
                        /\ \A b \in Bases : ~Passed(q, b)'
                        /\ \A l \in Libs : scan'.tree[l] = Absent
      BY DEF QuietInv
    <3>1. pc'[q] = "line"
      BY <2>2 DEF Refreshing, ScanPC
    <3>2. scan'.cursor = 0 /\ \A l \in Libs : scan'.tree[l] = Absent
      BY <1>3 DEF NoLine
    <3>3. \A b \in Bases : ~(b < 0) /\ b # 0
      BY ScanNat
    <3> QED
      BY <3>1, <3>2, <3>3 DEF Passed
  <2> QED
    BY <2>3, <2>4, <2>5, <2>6 DEF RefreshInv
<1>4. CASE UNCHANGED scan /\ pc' = [pc EXCEPT ![p] = Return(p)]
  <2>1. \A q \in Procs : pc'[q] = pc[q] \/ (~Refreshing(q) /\ ~Refreshing(q)')
    BY <1>1, <1>2, <1>4 DEF Return, Refreshing, TypeInv, ControlType
  <2> QED
    BY <1>1, <1>4, <2>1, FrameRefresh
<1> QED
  BY <1>3, <1>4 DEF RefreshLock, Goto

\* A refresh moves alone.
LEMMA MovesAlone ==
  ASSUME TypeInv, NEW p \in Procs, Refreshing(p), NEW where, pc' = [pc EXCEPT ![p] = where]
  PROVE  /\ pc'[p] = where
         /\ \A q \in Procs : q # p => pc[q] \notin ScanPC /\ pc'[q] = pc[q]
<1>1. \A q \in Procs : q # p => ~Refreshing(q)
  BY OneRefresh
<1> QED
  BY <1>1 DEF Refreshing, ScanPC, TypeInv, ControlType

\* The refresh goes on with the next line.
LEMMA LineRefresh ==
  ASSUME TypeInv, RefreshInv, NEW p \in Procs, NextLine(p)
  PROVE  RefreshInv'
<1>1. pc[p] = "line" /\ UNCHANGED <<at, slot, mapInfo, hookInfo, ignoreInfo, ghost>>
  BY DEF NextLine, memory, lists
<1>2. Refreshing(p)
  BY <1>1 DEF Refreshing
<1>3. ASSUME scan'.tree = scan.tree, scan'.next = 1, pc'[p] \in {"line", "header", "finish"},
             \A q \in Procs : q # p => pc[q] \notin ScanPC /\ pc'[q] = pc[q],
             pc'[p] = "header" => at[scan'.cursor] = scan'.lib
      PROVE  AtInv' /\ HandInv' /\ ProgressInv' /\ RecordInv'
  <2>1. \A q \in Procs : pc'[q] \notin {"hook", "replace"} /\ pc[q] \notin {"hook", "replace"}
    BY <1>1, <1>3 DEF ScanPC
  <2>2. AtInv'
    BY <1>1 DEF RefreshInv, AtInv
  <2>3. HandInv'
    BY <1>1, <1>3, <2>1 DEF HandInv, ScanPC
  <2>4. ProgressInv'
    BY <2>1 DEF ProgressInv
  <2>5. RecordInv'
    <3>1. \A l \in Libs : ~InHand(l)
      BY <2>1 DEF InHand
    <3>2. \A l \in Libs, b \in Bases : RecordedAt(l, b)' <=> RecordedAt(l, b)
      BY <1>1, <1>3 DEF RecordedAt
    <3> QED
      BY <1>1, <3>1, <3>2, SameLists DEF RefreshInv, RecordInv
  <2> QED
    BY <2>2, <2>3, <2>4, <2>5
<1>4. \A l \in Libs : Match(l)' <=> Match(l)
  BY <1>1, SameLists
<1>5. ASSUME scan.quiet
      PROVE  /\ \A b \in Bases, l \in Libs :
                   b <= scan.cursor /\ at[b] = l /\ Match(l) => scan.tree[l] = b
             /\ \A l \in Libs : scan.tree[l] # Absent =>
                   at[scan.tree[l]] = l /\ scan.tree[l] <= scan.cursor
  <2>1. scan.cursor \in Nat /\ \A b \in Bases : b \in Nat
    BY ScanNat
  <2>2. \A b \in Bases : b <= scan.cursor => Passed(p, b)
    BY <1>1, <2>1 DEF Passed
  <2>3. \A l \in Libs : scan.tree[l] # Absent =>
           at[scan.tree[l]] = l /\ Passed(p, scan.tree[l])
    BY <1>2, <1>5 DEF RefreshInv, QuietInv
  <2>4. \A l \in Libs : scan.tree[l] \in Nat
    BY ScanNat
  <2>5. \A l \in Libs : scan.tree[l] # Absent =>
           at[scan.tree[l]] = l /\ scan.tree[l] <= scan.cursor
    BY <2>1, <2>3, <2>4 DEF Passed
  <2> QED
    BY <1>2, <1>5, <2>2, <2>5 DEF RefreshInv, QuietInv
<1>6. CASE /\ \A b \in Bases : b > scan.cursor => at[b] = None
           /\ pc' = [pc EXCEPT ![p] = "finish"]
           /\ scan' = [scan EXCEPT !.lib = None, !.next = 1]
  <2>1. /\ pc'[p] = "finish"
        /\ \A q \in Procs : q # p => pc[q] \notin ScanPC /\ pc'[q] = pc[q]
    BY <1>2, <1>6, MovesAlone
  <2>2. /\ scan'.tree = scan.tree /\ scan'.next = 1
        /\ scan'.cursor = scan.cursor /\ scan'.quiet = scan.quiet
    BY <1>6 DEF TypeInv, ScanInv, Scan
  <2>3. QuietInv'
    <3> SUFFICES ASSUME scan.quiet
                 PROVE  /\ \A b \in Bases, l \in Libs :
                              Passed(p, b)' /\ at[b] = l /\ Match(l)' => scan'.tree[l] = b
                        /\ \A l \in Libs : scan'.tree[l] # Absent =>
                              at[scan'.tree[l]] = l /\ Passed(p, scan.tree[l])'
                        /\ \A b \in Bases : at[b] # None => b <= scan'.cursor
      BY <1>1, <2>1, <2>2 DEF QuietInv, Refreshing, ScanPC
    <3>1. \A b : Passed(p, b)' <=> b < scan.cursor \/ b = scan.cursor
      BY <2>1, <2>2 DEF Passed
    <3>2. /\ scan.cursor \in Nat /\ \A l \in Libs : scan.tree[l] \in Nat
          /\ \A b \in Bases : b \in Nat
      BY ScanNat
    <3>3. \A b \in Bases, l \in Libs :
             Passed(p, b)' /\ at[b] = l /\ Match(l)' => scan'.tree[l] = b
      BY <1>4, <1>5, <2>2, <3>1, <3>2
    <3>4. ASSUME NEW l \in Libs, scan'.tree[l] # Absent
          PROVE  at[scan'.tree[l]] = l /\ Passed(p, scan.tree[l])'
      <4>1. at[scan.tree[l]] = l /\ scan.tree[l] <= scan.cursor
        BY <1>5, <2>2, <3>4
      <4> QED
        BY <2>1, <2>2, <3>2, <4>1 DEF Passed
    <3>5. \A b \in Bases : at[b] # None => b <= scan'.cursor
      BY <1>6, <2>2, <3>2
    <3> QED
      BY <3>3, <3>4, <3>5
  <2> QED
    BY <1>3, <2>1, <2>2, <2>3 DEF RefreshInv
<1>7. ASSUME NEW b \in Bases, b > scan.cursor, at[b] \in Libs,
             \A c \in Bases : c > scan.cursor /\ c < b => at[c] = None,
             scan'.tree = scan.tree, scan'.next = 1, scan'.cursor = b,
             scan'.quiet = scan.quiet, pc'[p] \in {"line", "header"},
             \A q \in Procs : q # p => pc[q] \notin ScanPC /\ pc'[q] = pc[q],
             pc'[p] = "header" => scan'.lib = at[b] /\ Match(at[b]),
             pc'[p] = "line" => ~Match(at[b])
      PROVE  RefreshInv'
  <2>1. QuietInv'
    <3> SUFFICES ASSUME scan.quiet
                 PROVE  /\ \A l \in Libs : pc'[p] = "header" /\ scan'.lib = l => Match(l)'
                        /\ \A c \in Bases, l \in Libs :
                              Passed(p, c)' /\ at[c] = l /\ Match(l)' => scan'.tree[l] = c
                        /\ \A l \in Libs : scan'.tree[l] # Absent =>
                              at[scan'.tree[l]] = l /\ Passed(p, scan.tree[l])'
      BY <1>1, <1>7 DEF QuietInv, Refreshing, ScanPC
    <3>1. /\ scan.cursor \in Nat /\ \A l \in Libs : scan.tree[l] \in Nat
          /\ \A c \in Bases : c \in Nat
      BY ScanNat
    <3>2. \A l \in Libs : pc'[p] = "header" /\ scan'.lib = l => Match(l)'
      BY <1>4, <1>7
    <3>3. ASSUME NEW c \in Bases, NEW l \in Libs, Passed(p, c)', at[c] = l, Match(l)'
          PROVE  scan'.tree[l] = c
      <4>1. c < b \/ (c = b /\ pc'[p] = "line")
        BY <1>7, <3>3 DEF Passed
      <4>2. Match(l) /\ l # None
        BY <1>4, <3>3
      <4>3. c # b \/ pc'[p] # "line"
        BY <1>7, <3>3, <4>2
      <4>4. c < b
        BY <4>1, <4>3
      <4>5. ~(c > scan.cursor)
        BY <1>7, <3>3, <4>2, <4>4
      <4>6. c <= scan.cursor
        BY <3>1, <4>5
      <4> QED
        BY <1>5, <1>7, <3>3, <4>2, <4>6
    <3>4. ASSUME NEW l \in Libs, scan'.tree[l] # Absent
          PROVE  at[scan'.tree[l]] = l /\ Passed(p, scan.tree[l])'
      <4>1. at[scan.tree[l]] = l /\ scan.tree[l] <= scan.cursor
        BY <1>5, <1>7, <3>4
      <4>2. scan.tree[l] < b
        BY <1>7, <3>1, <4>1
      <4> QED
        BY <1>7, <4>1, <4>2 DEF Passed
    <3> QED
      BY <3>2, <3>3, <3>4
  <2>2. AtInv' /\ HandInv' /\ ProgressInv' /\ RecordInv'
    BY <1>3, <1>7
  <2> QED
    BY <2>1, <2>2 DEF RefreshInv
<1>8. ASSUME NEW b \in Bases, b > scan.cursor, at[b] \in Libs,
             \A c \in Bases : c > scan.cursor /\ c < b => at[c] = None,
             \/ /\ Match(at[b])
                /\ scan' = [scan EXCEPT !.cursor = b, !.lib = at[b], !.next = 1]
                /\ pc' = [pc EXCEPT ![p] = "header"]
             \/ /\ ~Match(at[b])
                /\ scan' = [scan EXCEPT !.cursor = b, !.lib = None, !.next = 1]
                /\ UNCHANGED pc
      PROVE  RefreshInv'
  <2>1. /\ scan'.tree = scan.tree /\ scan'.next = 1 /\ scan'.cursor = b
        /\ scan'.quiet = scan.quiet
    BY <1>8 DEF TypeInv, ScanInv, Scan
  <2>2. CASE /\ Match(at[b]) /\ pc' = [pc EXCEPT ![p] = "header"]
             /\ scan' = [scan EXCEPT !.cursor = b, !.lib = at[b], !.next = 1]
    <3>1. /\ pc'[p] = "header"
          /\ \A q \in Procs : q # p => pc[q] \notin ScanPC /\ pc'[q] = pc[q]
      BY <1>2, <2>2, MovesAlone
    <3>2. scan'.lib = at[b]
      BY <2>2 DEF TypeInv, ScanInv, Scan
    <3> QED
      BY <1>7, <1>8, <2>1, <2>2, <3>1, <3>2
  <2>3. CASE ~Match(at[b]) /\ UNCHANGED pc
    <3>1. \A q \in Procs : q # p => pc[q] \notin ScanPC /\ pc'[q] = pc[q]
      BY <1>2, <2>3, OneRefresh DEF Refreshing, ScanPC
    <3> QED
      BY <1>1, <1>7, <1>8, <2>1, <2>3, <3>1
  <2> QED
    BY <1>8, <2>2, <2>3
<1> QED
  BY <1>6, <1>8, NextLineCases

\* A library is looked up, and kept as known or taken in hand.
LEMMA HeaderRefresh ==
  ASSUME TypeInv, RefreshInv, NEW p \in Procs, CheckHeader(p)
  PROVE  RefreshInv'
<1>1. /\ pc[p] = "header" /\ scan.lib \in Libs /\ scan.cursor \in Bases
      /\ UNCHANGED <<at, slot, hookInfo, ignoreInfo, refreshMutex>>
  BY CheckHeaderCases DEF lists, locks, memory
<1>2. PICK lib \in Libs, c \in Bases : lib = scan.lib /\ c = scan.cursor
  BY <1>1
<1>3. Refreshing(p) /\ \A q \in Procs : q # p => pc[q] \notin ScanPC
  <2>1. Refreshing(p)
    BY <1>1 DEF Refreshing
  <2> QED
    BY <2>1, OneRefresh DEF Refreshing, ScanPC
<1>4. \A l \in Libs : ~InHand(l)
  BY <1>1, <1>3 DEF InHand, ScanPC
<1>5. AtInv'
  BY <1>1 DEF RefreshInv, AtInv
<1>6. \A l \in Libs : (Match(l)' <=> Match(l)) /\ (Hooked(l)' <=> Hooked(l))
  BY <1>1, SameLists
<1>7. ASSUME scan.quiet
      PROVE  /\ at[c] = lib /\ Match(lib)
             /\ \A b \in Bases, l \in Libs : b < c /\ at[b] = l /\ Match(l) => scan.tree[l] = b
             /\ \A l \in Libs : scan.tree[l] # Absent => at[scan.tree[l]] = l /\ scan.tree[l] < c
  <2>1. \A b : Passed(p, b) <=> b < c
    BY <1>1, <1>2 DEF Passed
  <2> QED
    BY <1>1, <1>2, <1>3, <1>7, <2>1 DEF RefreshInv, QuietInv
\* The line is given up.
<1>8. ASSUME pc'[p] = "line" \/ pc'[p] = pc[p],
             \A q \in Procs : q # p => pc'[q] = pc[q], UNCHANGED mapInfo,
             scan'.tree = scan.tree, scan'.cursor = c, scan'.lib = lib, scan'.next = scan.next,
             ghost'.reloaded = ghost.reloaded, ghost'.late = ghost.late,
             ghost'.overlap = ghost.overlap, ~scan'.quiet
      PROVE  RefreshInv'
  <2>1. \A q \in Procs : pc'[q] \notin {"hook", "replace"}
    BY <1>1, <1>3, <1>8 DEF ScanPC
  <2>2. HandInv'
    <3>1. \A q \in Procs : pc'[q] = "header" => pc[q] = "header"
      BY <1>1, <1>8
    <3> QED
      BY <1>1, <1>2, <1>8, <2>1, <3>1 DEF RefreshInv, HandInv, RecordedAt
  <2>3. ProgressInv'
    BY <2>1 DEF ProgressInv
  <2>4. RecordInv'
    <3>1. \A l \in Libs, b \in Bases : RecordedAt(l, b)' <=> RecordedAt(l, b)
      BY <1>8 DEF RecordedAt
    <3> QED
      BY <1>1, <1>4, <1>6, <1>8, <3>1 DEF RefreshInv, RecordInv
  <2>5. QuietInv'
    BY <1>8 DEF QuietInv
  <2> QED
    BY <1>5, <2>2, <2>3, <2>4, <2>5 DEF RefreshInv
\* The library is recorded.
<1>9. ASSUME scan.tree[lib] = Absent, pc'[p] \in {"line", "hook"},
             \A q \in Procs : q # p => pc'[q] = pc[q],
             scan'.tree = [scan.tree EXCEPT ![lib] = c], scan'.cursor = c, scan'.lib = lib,
             scan'.next = scan.next, scan'.quiet = scan.quiet,
             mapInfo' = [mapInfo EXCEPT ![lib] = Absent],
             pc'[p] = "line" => mapInfo[lib] = c /\ ghost' = ghost,
             pc'[p] = "hook" => /\ ghost'.reloaded = ghost.reloaded \ {lib}
                                /\ ghost'.late = ghost.late
                                /\ ghost'.overlap = ghost.overlap
      PROVE  RefreshInv'
  <2>1. /\ scan'.tree[lib] = c /\ mapInfo'[lib] = Absent
        /\ \A l \in Libs : l # lib => scan'.tree[l] = scan.tree[l] /\ mapInfo'[l] = mapInfo[l]
    BY <1>9 DEF TypeInv, ScanInv, Scan, MemoryType
  <2>2. \A l \in Libs, b \in Bases : l # lib => (RecordedAt(l, b)' <=> RecordedAt(l, b))
    BY <2>1 DEF RecordedAt
  <2>3. /\ \A l \in Libs : l # lib => (l \in ghost'.reloaded <=> l \in ghost.reloaded)
        /\ ghost'.late = ghost.late /\ ghost'.overlap = ghost.overlap
    BY <1>9
  <2>4. \A q \in Procs : q # p => pc'[q] \notin ScanPC
    BY <1>3, <1>9
  <2>5. HandInv'
    <3> SUFFICES ASSUME pc'[p] = "hook", NEW l \in Libs, at[c] = l, l # lib
                 PROVE  l \in ghost'.reloaded \/ ~RecordedAt(l, c)'
      BY <1>1, <1>9, <2>1, <2>4 DEF HandInv, ScanPC, RecordedAt
    <3>1. l \in ghost.reloaded \/ ~RecordedAt(l, c)
      BY <1>1, <1>2 DEF RefreshInv, HandInv
    <3> QED
      BY <2>2, <2>3, <3>1
  <2>6. ProgressInv'
    <3> SUFFICES ASSUME NEW q \in Procs, NEW l \in Libs, pc'[q] \in {"hook", "replace"},
                        NEW s \in Syms
                 PROVE  Done(l, s)' = {}
      BY DEF ProgressInv
    <3>1. scan'.next = 1
      BY <1>1, <1>9 DEF RefreshInv, HandInv
    <3>2. \A n \in Wanted(l)' : ~(n < 1)
      <4>1. Wanted(l)' \subseteq 1..Len(hookInfo)
        BY <1>1 DEF Wanted
      <4> QED
        BY <4>1 DEF TypeInv, ListType
    <3> QED
      BY <3>1, <3>2 DEF Done
  <2>7. RecordInv'
    <3> SUFFICES ASSUME ~ghost'.overlap, ghost'.late = {}, NEW b \in Bases, NEW l \in Libs,
                        at[b] = l, l \notin ghost'.reloaded, RecordedAt(l, b)',
                        ~InHand(l)', Match(l)
                 PROVE  Hooked(l)
      BY <1>1, <1>6 DEF RecordInv
    <3>1. CASE l # lib
      BY <1>4, <2>2, <2>3, <3>1 DEF RefreshInv, RecordInv
    <3>2. CASE l = lib
      <4>1. pc'[p] = "line"
        BY <1>9, <3>2 DEF InHand
      <4>2. RecordedAt(l, b)
        <5>1. b = c
          BY <2>1, <3>2, ScanNat DEF RecordedAt, Absent
        <5> QED
          BY <1>9, <3>2, <4>1, <5>1 DEF RecordedAt
      <4> QED
        BY <1>4, <1>9, <4>1, <4>2 DEF RefreshInv, RecordInv
    <3> QED
      BY <3>1, <3>2
  <2>8. QuietInv'
    <3> SUFFICES ASSUME scan.quiet
                 PROVE  /\ at[c] = lib
                        /\ \A b \in Bases, l \in Libs :
                              Passed(p, b)' /\ at[b] = l /\ Match(l) => scan'.tree[l] = b
                        /\ \A l \in Libs : scan'.tree[l] # Absent =>
                              at[scan'.tree[l]] = l /\ Passed(p, scan.tree[l])'
      BY <1>1, <1>6, <1>9, <2>4 DEF QuietInv, Refreshing, ScanPC
    <3>1. \A b : Passed(p, b)' <=> b < c \/ b = c
      BY <1>9 DEF Passed
    <3>2. ASSUME NEW b \in Bases, NEW l \in Libs, Passed(p, b)', at[b] = l, Match(l)
          PROVE  scan'.tree[l] = b
      <4>1. CASE b = c
        BY <1>7, <2>1, <3>2, <4>1
      <4>2. CASE b < c /\ b # c
        <5>1. l # lib
          <6>1. at[c] = lib /\ lib # None
            BY <1>7
          <6>2. at[b] = at[c] => b = c
            BY <3>2, <6>1 DEF RefreshInv, AtInv
          <6> QED
            BY <3>2, <4>2, <6>1, <6>2
        <5> QED
          BY <1>7, <2>1, <3>2, <4>2, <5>1
      <4> QED
        BY <3>1, <3>2, <4>1, <4>2
    <3>3. ASSUME NEW l \in Libs, scan'.tree[l] # Absent
          PROVE  at[scan'.tree[l]] = l /\ (scan'.tree[l] < c \/ scan'.tree[l] = c)
      BY <1>7, <2>1, <3>3
    <3>4. \A l \in Libs : scan'.tree[l] < c \/ scan'.tree[l] = c => Passed(p, scan.tree[l])'
      BY <1>9 DEF Passed
    <3> QED
      BY <1>7, <3>2, <3>3, <3>4
  <2> QED
    BY <1>5, <2>5, <2>6, <2>7, <2>8 DEF RefreshInv
<1>10. CASE at[scan.cursor] = None /\ Segv(p) /\ UNCHANGED <<scan, mapInfo>>
  <2>1. ~scan.quiet
    BY <1>2, <1>7, <1>10
  <2>2. /\ pc'[p] = "line" \/ pc'[p] = pc[p]
        /\ \A q \in Procs : q # p => pc'[q] = pc[q]
        /\ ghost'.reloaded = ghost.reloaded /\ ghost'.late = ghost.late
        /\ ghost'.overlap = ghost.overlap
    BY <1>10, SegvCases DEF TypeInv, ControlType, FlagType, Ghost
  <2> QED
    BY <1>2, <1>8, <1>10, <2>1, <2>2
<1>11. CASE /\ at[scan.cursor] # None /\ scan.tree[scan.lib] # Absent
            /\ pc' = [pc EXCEPT ![p] = "line"]
            /\ UNCHANGED <<scan, mapInfo, ghost>>
  <2>1. ~scan.quiet
    <3> SUFFICES ASSUME scan.quiet PROVE FALSE
      OBVIOUS
    <3>1. at[c] = lib /\ at[scan.tree[lib]] = lib /\ scan.tree[lib] < c
      BY <1>2, <1>7, <1>11
    <3>2. scan.tree[lib] \in Bases /\ lib # None
      BY <1>2, <1>11 DEF TypeInv, ScanInv, Scan
    <3>3. scan.tree[lib] = c
      BY <3>1, <3>2 DEF RefreshInv, AtInv
    <3>4. c \in Nat
      BY ScanNat
    <3> QED
      BY <3>1, <3>3, <3>4
  <2>2. pc' = [pc EXCEPT ![p] = "line"]
    BY <1>11
  <2>3. pc'[p] = "line" /\ \A q \in Procs : q # p => pc'[q] = pc[q]
    BY ZenonT(30), <1>3, <2>2, MovesAlone
  <2> QED
    BY <1>2, <1>8, <1>11, <2>1, <2>3
<1>12. CASE /\ scan.tree[scan.lib] = Absent
            /\ scan' = [scan EXCEPT !.tree = [@ EXCEPT ![scan.lib] = scan.cursor]]
            /\ mapInfo' = [mapInfo EXCEPT ![scan.lib] = Absent]
            /\ \/ /\ Known(scan.lib)
                  /\ pc' = [pc EXCEPT ![p] = "line"] /\ UNCHANGED ghost
               \/ /\ ~Known(scan.lib)
                  /\ pc' = [pc EXCEPT ![p] = "hook"]
                  /\ ghost' = [ghost EXCEPT !.reloaded = @ \ {scan.lib}]
  <2>1. /\ scan'.tree = [scan.tree EXCEPT ![lib] = c] /\ scan'.cursor = c /\ scan'.lib = lib
        /\ scan'.next = scan.next /\ scan'.quiet = scan.quiet
    BY <1>2, <1>12 DEF TypeInv, ScanInv, Scan
  <2>2. CASE /\ Known(scan.lib) /\ pc' = [pc EXCEPT ![p] = "line"] /\ UNCHANGED ghost
    <3>1. pc'[p] = "line" /\ \A q \in Procs : q # p => pc'[q] = pc[q]
      BY ZenonT(30), <1>3, <2>2, MovesAlone
    <3>2. mapInfo[lib] = c
      BY <1>2, <2>2 DEF Known
    <3> QED
      BY <1>2, <1>9, <1>12, <2>1, <2>2, <3>1, <3>2
  <2>3. CASE /\ pc' = [pc EXCEPT ![p] = "hook"]
             /\ ghost' = [ghost EXCEPT !.reloaded = @ \ {scan.lib}]
    <3>1. pc'[p] = "hook" /\ \A q \in Procs : q # p => pc'[q] = pc[q]
      BY ZenonT(30), <1>3, <2>3, MovesAlone
    <3>2. /\ ghost'.reloaded = ghost.reloaded \ {lib} /\ ghost'.late = ghost.late
          /\ ghost'.overlap = ghost.overlap
      BY <1>2, <2>3 DEF TypeInv, FlagType, Ghost
    <3> QED
      BY <1>2, <1>9, <1>12, <2>1, <3>1, <3>2
  <2> QED
    BY <1>12, <2>2, <2>3
<1>13. CASE Disturb /\ pc' = [pc EXCEPT ![p] = "line"] /\ UNCHANGED <<mapInfo, ghost>>
  <2>1. pc'[p] = "line" /\ \A q \in Procs : q # p => pc'[q] = pc[q]
    BY ZenonT(30), <1>3, <1>13, MovesAlone
  <2>2. refreshMutex # None
    BY <1>3, OneRefresh
  <2>3. /\ scan'.tree = scan.tree /\ scan'.cursor = c /\ scan'.lib = lib
        /\ scan'.next = scan.next /\ ~scan'.quiet
    BY <1>2, <1>13, <2>2 DEF Disturb, TypeInv, ScanInv, Scan
  <2> QED
    BY <1>8, <1>13, <2>1, <2>3
<1> QED
  BY <1>10, <1>11, <1>12, <1>13, CheckHeaderCases

\* The refresh leaves a library: nothing else changes, and if the library is still at its
\* address it is hooked.
LEMMA LeaveRefresh ==
  ASSUME TypeInv, RefreshInv, NEW p \in Procs, pc[p] \in {"hook", "replace"},
         pc' = [pc EXCEPT ![p] = "line"],
         UNCHANGED <<at, slot, mapInfo, hookInfo, ignoreInfo, scan, ghost>>,
         NEW lib \in Libs, lib = scan.lib,
         ~ghost.overlap /\ ghost.late = {} /\ at[scan.cursor] = lib
            /\ lib \notin ghost.reloaded => Hooked(lib)
  PROVE  RefreshInv'
<1>1. Refreshing(p)
  BY DEF Refreshing
<1>2. pc'[p] = "line" /\ \A q \in Procs : q # p => pc[q] \notin ScanPC /\ pc'[q] = pc[q]
  BY <1>1, MovesAlone
<1>3. \A l \in Libs : (Match(l)' <=> Match(l)) /\ (Hooked(l)' <=> Hooked(l))
  BY SameLists
<1>4. AtInv'
  BY DEF RefreshInv, AtInv
<1>5. HandInv' /\ ProgressInv'
  BY <1>2 DEF HandInv, ProgressInv, ScanPC
<1>6. RecordInv'
  <2> SUFFICES ASSUME ~ghost.overlap, ghost.late = {}, NEW b \in Bases, NEW l \in Libs,
                      at[b] = l, l \notin ghost.reloaded, RecordedAt(l, b), Match(l)
               PROVE  Hooked(l)
    BY <1>3 DEF RecordInv, RecordedAt
  <2>1. CASE l # lib
    <3>1. ~InHand(l)
      BY <2>1 DEF InHand
    <3> QED
      BY <3>1 DEF RefreshInv, RecordInv
  <2>2. CASE l = lib
    <3>1. scan.tree[lib] = scan.cursor /\ mapInfo[lib] = Absent
      BY DEF RefreshInv, HandInv
    <3>2. b = scan.cursor
      BY <2>2, <3>1, ScanNat DEF RecordedAt, Absent
    <3> QED
      BY <2>2, <3>2
  <2> QED
    BY <2>1, <2>2
<1>7. QuietInv'
  <2> SUFFICES ASSUME scan.quiet
               PROVE  /\ \A b \in Bases, l \in Libs :
                            Passed(p, b)' /\ at[b] = l /\ Match(l) => scan.tree[l] = b
                      /\ \A l \in Libs : scan.tree[l] # Absent =>
                            at[scan.tree[l]] = l /\ Passed(p, scan.tree[l])'
    BY <1>2, <1>3 DEF QuietInv, Refreshing, ScanPC
  <2>1. /\ \A b : Passed(p, b)' <=> Passed(p, b)
        /\ \A l \in Libs : Passed(p, scan.tree[l])' <=> Passed(p, scan.tree[l])
    BY <1>2 DEF Passed
  <2> QED
    BY <1>1, <2>1 DEF RefreshInv, QuietInv
<1> QED
  BY <1>4, <1>5, <1>6, <1>7 DEF RefreshInv

\* The refresh goes on with a library, or with its store.
LEMMA StayRefresh ==
  ASSUME TypeInv, RefreshInv, NEW p \in Procs, pc[p] \in {"hook", "replace"},
         pc'[p] \in {"hook", "replace"}, \A q \in Procs : q # p => pc'[q] = pc[q],
         UNCHANGED <<at, mapInfo, hookInfo, ignoreInfo>>, NEW lib \in Libs, lib = scan.lib,
         scan'.tree = scan.tree, scan'.cursor = scan.cursor, scan'.lib = scan.lib,
         scan'.quiet = scan.quiet, pc'[p] = "replace" => lib \in hookInfo[scan'.next].libs,
         ghost'.overlap = ghost.overlap, ghost'.late = ghost.late,
         ghost'.reloaded = ghost.reloaded,
         \A l \in Libs : l # at[scan.cursor] => slot'[l] = slot[l],
         ~ghost.overlap /\ ghost.late = {} /\ at[scan.cursor] = lib
            /\ lib \notin ghost.reloaded =>
               \A s \in Syms : Done(lib, s)' # {} =>
                  slot'[lib][s] = hookInfo[Max(Done(lib, s)')]
  PROVE  RefreshInv'
<1>1. Refreshing(p) /\ \A q \in Procs : q # p => pc[q] \notin ScanPC
  <2>1. Refreshing(p)
    BY DEF Refreshing
  <2> QED
    BY <2>1, OneRefresh DEF Refreshing, ScanPC
<1>2. \A l \in Libs : \A b : RecordedAt(l, b)' <=> RecordedAt(l, b)
  BY DEF RecordedAt
<1>3. AtInv'
  BY DEF RefreshInv, AtInv
<1>4. HandInv'
  BY <1>1 DEF RefreshInv, HandInv, RecordedAt, ScanPC
<1>5. ProgressInv'
  BY <1>1 DEF ProgressInv, ScanPC
<1>6. RecordInv'
  <2> SUFFICES ASSUME ~ghost.overlap, ghost.late = {}, NEW b \in Bases, NEW l \in Libs,
                      at[b] = l, l \notin ghost.reloaded, RecordedAt(l, b), l # lib,
                      Match(l)'
               PROVE  Hooked(l)'
    <3>1. InHand(lib)'
      BY DEF InHand
    <3> QED
      BY <1>2, <3>1 DEF RecordInv
  <2>1. ~InHand(l)
    BY DEF InHand
  <2>2. Match(l)
    BY SameLists
  <2>3. Hooked(l)
    BY <2>1, <2>2 DEF RefreshInv, RecordInv
  <2>4. at[scan.cursor] # l
    <3> SUFFICES ASSUME at[scan.cursor] = l PROVE FALSE
      OBVIOUS
    <3>1. scan.cursor \in Bases
      BY DEF TypeInv, ScanInv
    <3>2. b = scan.cursor
      <4>1. l # None /\ at[b] = at[scan.cursor]
        OBVIOUS
      <4>2. AtInv
        BY DEF RefreshInv
      <4> QED
        BY <3>1, <4>1, <4>2 DEF AtInv
    <3>3. l \in ghost.reloaded \/ ~RecordedAt(l, scan.cursor)
      BY DEF RefreshInv, HandInv
    <3> QED
      BY <3>2, <3>3
  <2>5. slot'[l] = slot[l]
    BY <2>4
  <2> QED
    BY <2>3, <2>5, SameLists
<1>7. QuietInv'
  <2> SUFFICES ASSUME scan.quiet
               PROVE  /\ at[scan.cursor] = scan.lib
                      /\ \A b \in Bases, l \in Libs :
                            Passed(p, b)' /\ at[b] = l /\ Match(l)' => scan.tree[l] = b
                      /\ \A l \in Libs : scan.tree[l] # Absent =>
                            at[scan.tree[l]] = l /\ Passed(p, scan.tree[l])'
    BY <1>1 DEF QuietInv, Refreshing, ScanPC
  <2>1. /\ \A b : Passed(p, b)' <=> Passed(p, b)
        /\ \A l \in Libs : Passed(p, scan.tree[l])' <=> Passed(p, scan.tree[l])
    BY DEF Passed
  <2>2. \A l \in Libs : Match(l)' <=> Match(l)
    BY SameLists
  <2> QED
    BY <1>1, <2>1, <2>2 DEF RefreshInv, QuietInv
<1> QED
  BY <1>3, <1>4, <1>5, <1>6, <1>7 DEF RefreshInv

\* A registration of the library in hand has been dealt with.
LEMMA OneMoreDone ==
  ASSUME TypeInv, NEW lib \in Libs, NEW n \in 1..Len(hookInfo),
         UNCHANGED <<hookInfo, ignoreInfo>>, scan'.next = n + 1,
         \A m \in Wanted(lib) : m >= scan.next => n <= m, scan.next <= n,
         lib \in hookInfo[n].libs, slot'[lib][hookInfo[n].sym] = hookInfo[n],
         \A s \in Syms : s # hookInfo[n].sym => slot'[lib][s] = slot[lib][s],
         \A s \in Syms : Done(lib, s) # {} => slot[lib][s] = hookInfo[Max(Done(lib, s))]
  PROVE  \A s \in Syms : Done(lib, s)' # {} => slot'[lib][s] = hookInfo[Max(Done(lib, s)')]
<1>1. Wanted(lib)' = Wanted(lib) /\ Wanted(lib) \subseteq 1..Len(hookInfo)
  BY SameLists DEF Wanted
<1>2. Len(hookInfo) \in Nat /\ n \in Nat /\ scan.next \in Nat
  BY DEF TypeInv, ListType, ScanInv, Scan
<1> SUFFICES ASSUME NEW s \in Syms, Done(lib, s)' # {}
             PROVE  slot'[lib][s] = hookInfo[Max(Done(lib, s)')]
  OBVIOUS
<1>3. Done(lib, s)' = {m \in Wanted(lib) : m < n + 1 /\ hookInfo[m].sym = s}
  BY <1>1 DEF Done
<1>4. CASE s = hookInfo[n].sym
  <2>1. n \in Wanted(lib)
    <3>1. PICK m \in Wanted(lib) : hookInfo[m].sym = s
      BY <1>3
    <3> QED
      BY <1>4, <3>1 DEF Wanted
  <2>2. n \in Done(lib, s)' /\ \A m \in Done(lib, s)' : m <= n
    BY <1>1, <1>2, <1>3, <1>4, <2>1
  <2>3. Done(lib, s)' \in SUBSET (1..Len(hookInfo))
    BY <1>1, <1>3
  <2>4. /\ Max(Done(lib, s)') \in Done(lib, s)'
        /\ \A m \in Done(lib, s)' : m <= Max(Done(lib, s)')
    BY <1>2, <2>2, <2>3, MaxIn
  <2>5. Max(Done(lib, s)') = n
    <3>1. Max(Done(lib, s)') \in Nat
      BY <2>3, <2>4
    <3> QED
      BY <1>2, <2>2, <2>4, <3>1
  <2> QED
    BY <1>4, <2>5
<1>5. CASE s # hookInfo[n].sym
  <2>1. ASSUME NEW m \in Wanted(lib), hookInfo[m].sym = s
        PROVE  m < n + 1 <=> m < scan.next
    <3>1. m # n /\ m \in Nat
      BY <1>1, <1>5, <2>1
    <3>2. m >= scan.next => n <= m
      OBVIOUS
    <3> QED
      BY <1>2, <3>1, <3>2
  <2>2. Done(lib, s)' = Done(lib, s)
    BY <1>3, <2>1 DEF Done
  <2> QED
    BY <1>5, <2>2
<1> QED
  BY <1>4, <1>5

\* The next registration of the library in hand.
LEMMA SaveRefresh ==
  ASSUME TypeInv, RefreshInv, NEW p \in Procs, SaveOld(p)
  PROVE  RefreshInv'
<1>1. pc[p] = "hook" /\ UNCHANGED <<at, slot, mapInfo, hookInfo, ignoreInfo>>
  BY SaveOldCases DEF lists
<1>2. Refreshing(p)
  BY <1>1 DEF Refreshing
<1>3. PICK lib \in Libs : lib = scan.lib
  BY <1>1 DEF TypeInv, ScanInv
<1>4. ASSUME ~ghost.overlap /\ ghost.late = {} /\ at[scan.cursor] = lib
             /\ lib \notin ghost.reloaded
      PROVE  \A s \in Syms : Done(lib, s) # {} => slot[lib][s] = hookInfo[Max(Done(lib, s))]
  BY <1>1, <1>3, <1>4 DEF RefreshInv, ProgressInv
<1>5. scan.next \in Nat /\ Len(hookInfo) \in Nat /\ Wanted(lib) \subseteq 1..Len(hookInfo)
  BY DEF TypeInv, ScanInv, Scan, ListType, Wanted
<1>6. Remaining = {n \in Wanted(lib) : n >= scan.next}
  BY <1>3 DEF Remaining
\* Nothing remains: the library is hooked.
<1>7. CASE Remaining = {} /\ pc' = [pc EXCEPT ![p] = "line"] /\ UNCHANGED <<scan, old, ghost>>
  <2>1. ASSUME ~ghost.overlap /\ ghost.late = {} /\ at[scan.cursor] = lib
               /\ lib \notin ghost.reloaded
        PROVE  Hooked(lib)
    <3> SUFFICES ASSUME NEW n \in Wanted(lib), NEW s, s = hookInfo[n].sym
                 PROVE  slot[lib][s] = LastWanted(lib, s)
      BY DEF Hooked, WantedSyms
    <3>1. \A m \in Wanted(lib) : m < scan.next
      BY <1>5, <1>6, <1>7
    <3>2. Done(lib, s) = {m \in Wanted(lib) : hookInfo[m].sym = s}
      BY <3>1 DEF Done
    <3>3. s \in Syms /\ Done(lib, s) # {}
      BY <1>5, <3>2, HookAt
    <3> QED
      BY <1>4, <2>1, <3>2, <3>3 DEF LastWanted
  <2> QED
    BY <1>1, <1>3, <1>7, <2>1, LeaveRefresh
<1>8. ASSUME NEW n \in Remaining, n \in 1..Len(hookInfo), \A m \in Remaining : n <= m,
             \/ /\ at[scan.cursor] = None
                /\ Segv(p) /\ UNCHANGED <<scan, old>>
             \/ /\ at[scan.cursor] \in Libs
                /\ slot[at[scan.cursor]][hookInfo[n].sym] = hookInfo[n]
                /\ scan' = [scan EXCEPT !.next = n + 1]
                /\ UNCHANGED <<old, pc, ghost>>
             \/ /\ at[scan.cursor] \in Libs
                /\ slot[at[scan.cursor]][hookInfo[n].sym] # hookInfo[n]
                /\ scan' = [scan EXCEPT !.next = n]
                /\ pc' = [pc EXCEPT ![p] = "replace"]
                /\ UNCHANGED ghost
      PROVE  RefreshInv'
  <2>1. /\ n \in Wanted(lib) /\ n >= scan.next /\ lib \in hookInfo[n].libs /\ n \in Nat
        /\ \A m \in Wanted(lib) : m >= scan.next => n <= m
    BY <1>5, <1>6, <1>8 DEF Wanted
  <2>2. CASE at[scan.cursor] = None /\ Segv(p) /\ UNCHANGED <<scan, old>>
    <3>1. None # lib
      OBVIOUS
    <3>2. CASE pc' = [pc EXCEPT ![p] = "line"] /\ UNCHANGED ghost
      BY <1>1, <1>3, <2>2, <3>1, <3>2, LeaveRefresh
    <3>3. CASE ghost' = [ghost EXCEPT !.crashed = TRUE] /\ UNCHANGED pc
      <4>1. /\ ghost'.reloaded = ghost.reloaded /\ ghost'.late = ghost.late
            /\ ghost'.overlap = ghost.overlap
        BY <3>3 DEF TypeInv, FlagType, Ghost
      <4> QED
        BY <1>1, <2>2, <3>3, <4>1, FrameRefresh
    <3> QED
      BY <2>2, <3>2, <3>3, SegvCases
  <2>3. CASE /\ slot[at[scan.cursor]][hookInfo[n].sym] = hookInfo[n]
             /\ scan' = [scan EXCEPT !.next = n + 1]
             /\ UNCHANGED <<pc, ghost>>
    <3>1. /\ scan'.tree = scan.tree /\ scan'.cursor = scan.cursor /\ scan'.lib = scan.lib
          /\ scan'.quiet = scan.quiet /\ scan'.next = n + 1
      BY <2>3 DEF TypeInv, ScanInv, Scan
    <3>2. ASSUME ~ghost.overlap /\ ghost.late = {} /\ at[scan.cursor] = lib
                 /\ lib \notin ghost.reloaded
          PROVE  \A s \in Syms : Done(lib, s)' # {} =>
                    slot'[lib][s] = hookInfo[Max(Done(lib, s)')]
      <4>1. slot'[lib] = slot[lib] /\ slot'[lib][hookInfo[n].sym] = hookInfo[n]
        BY <1>1, <2>3, <3>2
      <4>2. scan.next <= n /\ hookInfo' = hookInfo /\ ignoreInfo' = ignoreInfo
        BY <1>1, <1>5, <2>1
      <4> QED
        BY <1>4, <1>8, <2>1, <3>1, <3>2, <4>1, <4>2, OneMoreDone
    <3>3. pc'[p] = "hook" /\ \A q \in Procs : q # p => pc'[q] = pc[q]
      BY <1>1, <2>3
    <3> QED
      BY <1>1, <1>3, <2>3, <3>1, <3>2, <3>3, StayRefresh
  <2>4. CASE /\ scan' = [scan EXCEPT !.next = n]
             /\ pc' = [pc EXCEPT ![p] = "replace"]
             /\ UNCHANGED ghost
    <3>1. /\ scan'.tree = scan.tree /\ scan'.cursor = scan.cursor /\ scan'.lib = scan.lib
          /\ scan'.quiet = scan.quiet /\ scan'.next = n
      BY <2>4 DEF TypeInv, ScanInv, Scan
    <3>2. \A s : Done(lib, s)' = Done(lib, s)
      <4>1. ASSUME NEW m \in Wanted(lib) PROVE m < n <=> m < scan.next
        <5>1. m \in Nat
          BY <1>5
        <5> QED
          BY <1>5, <2>1, <5>1
      <4>2. Wanted(lib)' = Wanted(lib)
        BY <1>1, SameLists
      <4> QED
        BY <1>1, <3>1, <4>1, <4>2 DEF Done
    <3>3. pc'[p] = "replace" /\ \A q \in Procs : q # p => pc'[q] = pc[q]
      BY <1>2, <2>4, MovesAlone
    <3>4. ~ghost.overlap /\ ghost.late = {} /\ at[scan.cursor] = lib
             /\ lib \notin ghost.reloaded =>
                \A s \in Syms : Done(lib, s)' # {} =>
                   slot'[lib][s] = hookInfo[Max(Done(lib, s)')]
      BY <1>1, <1>4, <3>2
    <3> QED
      BY <1>1, <1>3, <2>1, <2>4, <3>1, <3>3, <3>4, StayRefresh
  <2> QED
    BY <1>8, <2>2, <2>3, <2>4
<1> QED
  BY <1>7, <1>8, SaveOldCases

\* The store into a slot of the library at the address.
LEMMA StoreRefresh ==
  ASSUME TypeInv, RefreshInv, NEW p \in Procs, Replace(p)
  PROVE  RefreshInv'
<1>1. /\ pc[p] = "replace" /\ scan.next \in 1..Len(hookInfo)
      /\ UNCHANGED <<at, mapInfo, hookInfo, ignoreInfo>>
  BY ReplaceCases DEF lists
<1>2. Refreshing(p)
  BY <1>1 DEF Refreshing
<1>3. PICK lib \in Libs : lib = scan.lib
  BY <1>1 DEF TypeInv, ScanInv
<1>4. PICK n \in 1..Len(hookInfo) : n = scan.next
  BY <1>1
<1>5. CASE at[scan.cursor] = None /\ Segv(p) /\ UNCHANGED <<scan, slot>>
  <2>1. None # lib
    OBVIOUS
  <2>2. CASE pc' = [pc EXCEPT ![p] = "line"] /\ UNCHANGED ghost
    BY <1>1, <1>3, <1>5, <2>1, <2>2, LeaveRefresh
  <2>3. CASE ghost' = [ghost EXCEPT !.crashed = TRUE] /\ UNCHANGED pc
    <3>1. /\ ghost'.reloaded = ghost.reloaded /\ ghost'.late = ghost.late
          /\ ghost'.overlap = ghost.overlap
      BY <2>3 DEF TypeInv, FlagType, Ghost
    <3> QED
      BY <1>1, <1>5, <2>3, <3>1, FrameRefresh
  <2> QED
    BY <1>5, <2>2, <2>3, SegvCases
<1>6. CASE /\ at[scan.cursor] \in Libs
           /\ slot' = [slot EXCEPT ![at[scan.cursor]] =
                          [@ EXCEPT ![hookInfo[scan.next].sym] = hookInfo[scan.next]]]
           /\ scan' = [scan EXCEPT !.next = @ + 1]
           /\ ghost' = [ghost EXCEPT !.tainted = @ \/ at[scan.cursor] # scan.lib]
           /\ pc' = [pc EXCEPT ![p] = "hook"]
  <2>1. /\ scan'.tree = scan.tree /\ scan'.cursor = scan.cursor /\ scan'.lib = scan.lib
        /\ scan'.quiet = scan.quiet /\ scan'.next = n + 1
    BY <1>4, <1>6 DEF TypeInv, ScanInv, Scan
  <2>2. pc'[p] = "hook" /\ \A q \in Procs : q # p => pc'[q] = pc[q]
    <3>1. pc' = [pc EXCEPT ![p] = "hook"]
      BY <1>6
    <3> QED
      BY <1>2, <3>1, MovesAlone
  <2>3. /\ ghost'.reloaded = ghost.reloaded /\ ghost'.late = ghost.late
        /\ ghost'.overlap = ghost.overlap
    BY <1>6 DEF TypeInv, FlagType, Ghost
  <2>4. \A l \in Libs : l # at[scan.cursor] => slot'[l] = slot[l]
    BY <1>6 DEF TypeInv, MemoryType
  <2>5. ASSUME ~ghost.overlap /\ ghost.late = {} /\ at[scan.cursor] = lib
               /\ lib \notin ghost.reloaded
        PROVE  \A s \in Syms : Done(lib, s)' # {} =>
                  slot'[lib][s] = hookInfo[Max(Done(lib, s)')]
    <3>1. \A s \in Syms : Done(lib, s) # {} => slot[lib][s] = hookInfo[Max(Done(lib, s))]
      BY <1>1, <1>3, <2>5 DEF RefreshInv, ProgressInv
    <3>2. lib \in hookInfo[n].libs
      BY <1>1, <1>3, <1>4 DEF RefreshInv, HandInv
    <3>3. hookInfo[n].sym \in Syms
      BY HookAt
    <3>4. /\ slot'[lib][hookInfo[n].sym] = hookInfo[n]
          /\ \A s \in Syms : s # hookInfo[n].sym => slot'[lib][s] = slot[lib][s]
      BY <1>4, <1>6, <2>5, <3>3 DEF TypeInv, MemoryType
    <3>5. scan.next <= n /\ \A m \in Wanted(lib) : m >= scan.next => n <= m
      <4>1. Wanted(lib) \subseteq 1..Len(hookInfo) /\ Len(hookInfo) \in Nat
        BY DEF Wanted, TypeInv, ListType
      <4> QED
        BY <1>4, <4>1
    <3> QED
      BY <1>1, <2>1, <3>1, <3>2, <3>4, <3>5, OneMoreDone
  <2> QED
    BY <1>1, <1>3, <2>1, <2>2, <2>3, <2>4, <2>5, StayRefresh
<1> QED
  BY <1>5, <1>6, ReplaceCases

\* The recorded bases are handed over, and there is no refresh any more.
LEMMA FinishRefresh ==
  ASSUME TypeInv, TypeInv', RefreshInv, NEW p \in Procs, Finish(p)
  PROVE  RefreshInv'
<1>1. /\ pc[p] = "finish" /\ mapInfo' = scan.tree /\ scan' = NoLine /\ refreshMutex' = None
      /\ UNCHANGED <<at, slot, hookInfo, ignoreInfo, ghost>>
  BY DEF Finish, lists, memory
<1>2. Refreshing(p)
  BY <1>1 DEF Refreshing
<1>3. \A q \in Procs : pc[q] \notin {"hook", "replace"}
  <2>1. \A q \in Procs : q # p => ~Refreshing(q)
    BY <1>2, OneRefresh
  <2> QED
    BY <1>1, <2>1 DEF Refreshing
<1>4. \A q \in Procs : pc'[q] \notin ScanPC
  BY <1>1 DEF TypeInv, ControlType, Refreshing, ScanPC, Procs
<1>5. AtInv'
  BY <1>1 DEF RefreshInv, AtInv
<1>6. HandInv' /\ ProgressInv' /\ QuietInv'
  BY <1>4 DEF HandInv, ProgressInv, QuietInv, Refreshing, ScanPC
<1>7. RecordInv'
  <2>1. \A l \in Libs : ~InHand(l)
    BY <1>3 DEF InHand
  <2>2. ASSUME NEW l \in Libs, NEW b \in Bases, RecordedAt(l, b)' PROVE RecordedAt(l, b)
    <3>1. b # Absent
      BY ScanNat DEF Absent
    <3>2. scan'.tree[l] = Absent
      BY <1>1 DEF NoLine
    <3> QED
      BY <1>1, <2>2, <3>1, <3>2 DEF RecordedAt
  <2> QED
    BY <1>1, <2>1, <2>2, SameLists DEF RefreshInv, RecordInv
<1> QED
  BY <1>5, <1>6, <1>7 DEF RefreshInv

\* A library is loaded at a base: if it is recorded there it was loaded again.
LEMMA LoadRefresh ==
  ASSUME TypeInv, RefreshInv, NEW x \in Libs, NEW a \in Bases, Dlopen(x, a)
  PROVE  RefreshInv'
<1>1. /\ x \notin Mapped /\ at[a] = None /\ Disturb
      /\ at' = [at EXCEPT ![a] = x]
      /\ slot' = [slot EXCEPT ![x] = [s \in Syms |-> Original]]
      /\ ghost' = [ghost EXCEPT !.reloaded =
                      IF a \in {mapInfo[x], scan.tree[x]} THEN @ \cup {x} ELSE @ \ {x}]
      /\ UNCHANGED <<hookInfo, ignoreInfo, mapInfo, refreshMutex, pc>>
  BY DEF Dlopen, lists, locks
<1>2. /\ at'[a] = x /\ \A b \in Bases : b # a => at'[b] = at[b] /\ at[b] # x
      /\ \A l \in Libs : l # x => slot'[l] = slot[l]
  BY <1>1 DEF TypeInv, MemoryType, Mapped
<1>3. /\ RecordedAt(x, a) => x \in ghost'.reloaded
      /\ \A l \in Libs : l # x => (l \in ghost'.reloaded <=> l \in ghost.reloaded)
      /\ ghost'.late = ghost.late /\ ghost'.overlap = ghost.overlap
  BY <1>1 DEF TypeInv, FlagType, Ghost, RecordedAt
<1>4. /\ scan'.cursor = scan.cursor /\ scan'.lib = scan.lib
      /\ scan'.next = scan.next /\ scan'.tree = scan.tree
  BY <1>1 DEF Disturb, TypeInv, ScanInv, Scan
<1>5. \A l \in Libs : \A b : RecordedAt(l, b)' <=> RecordedAt(l, b)
  BY <1>1, <1>4 DEF RecordedAt
<1>6. \A l \in Libs : InHand(l)' <=> InHand(l)
  BY <1>1, <1>4 DEF InHand
<1>7. \A p \in Procs : pc[p] \in {"header", "hook", "replace"} =>
         scan.cursor \in Bases /\ scan.lib \in Libs
  BY DEF TypeInv, ScanInv
<1>8. AtInv'
  BY <1>1, <1>2 DEF RefreshInv, AtInv
<1>9. HandInv'
  <2> SUFFICES ASSUME NEW p \in Procs, pc[p] \in {"header", "hook", "replace"},
                      NEW l \in Libs, at'[scan.cursor] = l, l # scan.lib
               PROVE  l \in ghost'.reloaded \/ ~RecordedAt(l, scan.cursor)
    BY <1>1, <1>4, <1>5 DEF RefreshInv, HandInv, RecordedAt
  <2>1. CASE scan.cursor = a
    BY <1>2, <1>3, <2>1
  <2>2. CASE scan.cursor # a
    <3>1. at[scan.cursor] = l /\ l # x
      BY <1>2, <1>7, <2>2
    <3>2. l \in ghost.reloaded \/ ~RecordedAt(l, scan.cursor)
      BY <3>1 DEF RefreshInv, HandInv
    <3> QED
      BY <1>3, <3>1, <3>2
  <2> QED
    BY <2>1, <2>2
<1>10. ProgressInv'
  <2> SUFFICES ASSUME ~ghost.overlap, ghost.late = {}, NEW p \in Procs, NEW l \in Libs,
                      pc[p] \in {"hook", "replace"}, scan.lib = l, at'[scan.cursor] = l,
                      l \notin ghost'.reloaded, NEW s \in Syms, Done(l, s)' # {}
               PROVE  slot'[l][s] = hookInfo[Max(Done(l, s)')]
    BY <1>1, <1>3, <1>4 DEF ProgressInv
  <2>1. scan.cursor # a \/ l # x
    <3>1. scan.tree[l] = scan.cursor
      BY DEF RefreshInv, HandInv
    <3> QED
      BY <1>3, <3>1 DEF RecordedAt
  <2>2. at[scan.cursor] = l /\ l # x
    BY <1>2, <1>7, <2>1
  <2>3. Done(l, s)' = Done(l, s)
    BY <1>1, <1>4, SameLists
  <2>4. slot[l][s] = hookInfo[Max(Done(l, s))]
    BY <1>3, <2>2, <2>3 DEF RefreshInv, ProgressInv
  <2> QED
    BY <1>2, <2>2, <2>3, <2>4
<1>11. RecordInv'
  <2> SUFFICES ASSUME ~ghost.overlap, ghost.late = {}, NEW b \in Bases, NEW l \in Libs,
                      at'[b] = l, l \notin ghost'.reloaded, RecordedAt(l, b), ~InHand(l),
                      Match(l)'
               PROVE  Hooked(l)'
    BY <1>3, <1>5, <1>6 DEF RecordInv
  <2>1. l # x /\ b # a
    BY <1>2, <1>3
  <2>2. at[b] = l /\ l \notin ghost.reloaded
    BY <1>2, <1>3, <2>1
  <2>3. Match(l)
    BY <1>1, SameLists
  <2>4. Hooked(l)
    BY <2>2, <2>3 DEF RefreshInv, RecordInv
  <2>5. slot'[l] = slot[l]
    BY <1>2, <2>1
  <2> QED
    BY <1>1, <2>4, <2>5, SameLists
<1>12. QuietInv'
  BY <1>1, DisturbQuiet
<1> QED
  BY <1>8, <1>9, <1>10, <1>11, <1>12 DEF RefreshInv

\* A library is unloaded from a base.
LEMMA UnloadRefresh ==
  ASSUME TypeInv, RefreshInv, NEW a \in Bases, Dlclose(a)
  PROVE  RefreshInv'
<1>1. /\ at[a] # None /\ Disturb /\ at' = [at EXCEPT ![a] = None]
      /\ slot' = [slot EXCEPT ![at[a]] = [s \in Syms |-> Original]]
      /\ UNCHANGED <<hookInfo, ignoreInfo, mapInfo, refreshMutex, pc, ghost>>
  BY DEF Dlclose, lists, locks
<1>2. /\ at'[a] = None /\ \A b \in Bases : b # a => at'[b] = at[b] /\ at[b] # at[a]
      /\ \A l \in Libs : l # at[a] => slot'[l] = slot[l]
  <2>1. /\ at'[a] = None /\ \A b \in Bases : b # a => at'[b] = at[b]
        /\ \A l \in Libs : l # at[a] => slot'[l] = slot[l]
    BY <1>1 DEF TypeInv, MemoryType
  <2>2. \A b \in Bases : b # a => at[b] # at[a]
    BY <1>1 DEF RefreshInv, AtInv
  <2> QED
    BY <2>1, <2>2
<1>3. \A b \in Bases, l \in Libs : at'[b] = l => at[b] = l /\ slot'[l] = slot[l]
  <2> SUFFICES ASSUME NEW b \in Bases, NEW l \in Libs, at'[b] = l
               PROVE  at[b] = l /\ slot'[l] = slot[l]
    OBVIOUS
  <2>1. l # None
    OBVIOUS
  <2>2. b # a
    BY <1>2, <2>1
  <2> QED
    BY <1>2, <2>2
<1>4. /\ scan'.cursor = scan.cursor /\ scan'.lib = scan.lib
      /\ scan'.next = scan.next /\ scan'.tree = scan.tree
  BY <1>1 DEF Disturb, TypeInv, ScanInv, Scan
<1>5. \A l \in Libs : \A b : RecordedAt(l, b)' <=> RecordedAt(l, b)
  BY <1>1, <1>4 DEF RecordedAt
<1>6. \A l \in Libs : InHand(l)' <=> InHand(l)
  BY <1>1, <1>4 DEF InHand
<1>7. \A p \in Procs : pc[p] \in {"header", "hook", "replace"} =>
         scan.cursor \in Bases /\ scan.lib \in Libs
  BY DEF TypeInv, ScanInv
<1>8. AtInv'
  BY <1>1, <1>2 DEF RefreshInv, AtInv
<1>9. HandInv'
  <2> SUFFICES ASSUME NEW p \in Procs, pc[p] \in {"header", "hook", "replace"},
                      NEW l \in Libs, at'[scan.cursor] = l, l # scan.lib
               PROVE  l \in ghost.reloaded \/ ~RecordedAt(l, scan.cursor)
    BY <1>1, <1>4, <1>5 DEF RefreshInv, HandInv, RecordedAt
  <2>1. at[scan.cursor] = l
    BY <1>3, <1>7
  <2> QED
    BY <2>1 DEF RefreshInv, HandInv
<1>10. ProgressInv'
  <2> SUFFICES ASSUME ~ghost.overlap, ghost.late = {}, NEW p \in Procs, NEW l \in Libs,
                      pc[p] \in {"hook", "replace"}, scan.lib = l, at'[scan.cursor] = l,
                      l \notin ghost.reloaded, NEW s \in Syms, Done(l, s)' # {}
               PROVE  slot'[l][s] = hookInfo[Max(Done(l, s)')]
    BY <1>1, <1>4 DEF ProgressInv
  <2>1. at[scan.cursor] = l /\ slot'[l] = slot[l]
    BY <1>3, <1>7
  <2>2. Done(l, s)' = Done(l, s)
    BY <1>1, <1>4, SameLists
  <2>3. slot[l][s] = hookInfo[Max(Done(l, s))]
    BY <2>1, <2>2 DEF RefreshInv, ProgressInv
  <2> QED
    BY <2>1, <2>2, <2>3
<1>11. RecordInv'
  <2> SUFFICES ASSUME ~ghost.overlap, ghost.late = {}, NEW b \in Bases, NEW l \in Libs,
                      at'[b] = l, l \notin ghost.reloaded, RecordedAt(l, b), ~InHand(l),
                      Match(l)'
               PROVE  Hooked(l)'
    BY <1>1, <1>5, <1>6 DEF RecordInv
  <2>1. at[b] = l /\ slot'[l] = slot[l]
    BY <1>3
  <2>2. Match(l)
    BY <1>1, SameLists
  <2>3. Hooked(l)
    BY <2>1, <2>2 DEF RefreshInv, RecordInv
  <2> QED
    BY <1>1, <2>1, <2>3, SameLists
<1>12. QuietInv'
  BY <1>1, DisturbQuiet
<1> QED
  BY <1>8, <1>9, <1>10, <1>11, <1>12 DEF RefreshInv

\* Every step keeps what a refresh leaves hooked.
LEMMA NextRefresh ==
  ASSUME TypeInv, TypeInv', CalmInv, RefreshInv, [Next]_vars
  PROVE  RefreshInv'
<1>1. ASSUME NEW t \in Threads, CallRegister(t, "register") PROVE RefreshInv'
  <2>1. UNCHANGED <<at, slot, mapInfo, scan, hookInfo, ignoreInfo>>
    BY <1>1 DEF CallRegister, lists, memory
  <2>2. /\ ghost'.reloaded = ghost.reloaded /\ ghost'.late = ghost.late
        /\ ghost.overlap => ghost'.overlap
    BY <1>1 DEF CallRegister, Call, TypeInv, FlagType, Ghost
  <2>3. \A p \in Procs : pc'[p] = pc[p] \/ (~Refreshing(p) /\ ~Refreshing(p)')
    BY <1>1
       DEF CallRegister, Call, Goto, Refreshing, Idle, TypeInv, ControlType, Procs,
           WorkerPC, ScanPC
  <2> QED
    BY <2>1, <2>2, <2>3, FrameRefresh
<1>2. ASSUME NEW t \in Threads, CallRegister(t, "ignore") PROVE RefreshInv'
  <2>1. UNCHANGED <<at, slot, mapInfo, scan, hookInfo, ignoreInfo>>
    BY <1>2 DEF CallRegister, lists, memory
  <2>2. /\ ghost'.reloaded = ghost.reloaded /\ ghost'.late = ghost.late
        /\ ghost.overlap => ghost'.overlap
    BY <1>2 DEF CallRegister, Call, TypeInv, FlagType, Ghost
  <2>3. \A p \in Procs : pc'[p] = pc[p] \/ (~Refreshing(p) /\ ~Refreshing(p)')
    BY <1>2
       DEF CallRegister, Call, Goto, Refreshing, Idle, TypeInv, ControlType, Procs,
           WorkerPC, ScanPC
  <2> QED
    BY <2>1, <2>2, <2>3, FrameRefresh
<1>3. ASSUME NEW t \in Threads, NEW a \in BOOLEAN, CallRefresh(t, a) PROVE RefreshInv'
  <2>1. UNCHANGED <<at, slot, mapInfo, scan, hookInfo, ignoreInfo>>
    BY <1>3 DEF CallRefresh, lists, memory
  <2>2. /\ ghost'.reloaded = ghost.reloaded /\ ghost'.late = ghost.late
        /\ ghost.overlap => ghost'.overlap
    BY <1>3 DEF CallRefresh, Call, TypeInv, FlagType, Ghost
  <2>3. \A p \in Procs : pc'[p] = pc[p] \/ (~Refreshing(p) /\ ~Refreshing(p)')
    BY <1>3
       DEF CallRefresh, Call, Spend, Goto, Refreshing, Idle, TypeInv, ControlType, Procs,
           WorkerPC, ScanPC
  <2> QED
    BY <2>1, <2>2, <2>3, FrameRefresh
<1>4. ASSUME NEW t \in Threads, CallClear(t) PROVE RefreshInv'
  <2>1. UNCHANGED <<at, slot, mapInfo, scan, hookInfo, ignoreInfo>>
    BY <1>4 DEF CallClear, lists, memory
  <2>2. /\ ghost'.reloaded = ghost.reloaded /\ ghost'.late = ghost.late
        /\ ghost.overlap => ghost'.overlap
    BY <1>4 DEF CallClear, Call, TypeInv, FlagType, Ghost
  <2>3. \A p \in Procs : pc'[p] = pc[p] \/ (~Refreshing(p) /\ ~Refreshing(p)')
    BY <1>4
       DEF CallClear, Call, Spend, Goto, Refreshing, Idle, TypeInv, ControlType, Procs,
           WorkerPC, ScanPC
  <2> QED
    BY <2>1, <2>2, <2>3, FrameRefresh
<1>5. ASSUME NEW t \in Threads, NEW on \in BOOLEAN, EnableSigsegvProtection(t, on) PROVE RefreshInv'
  <2>1. UNCHANGED <<at, slot, mapInfo, scan, hookInfo, ignoreInfo>>
    BY <1>5 DEF EnableSigsegvProtection, lists, memory
  <2>2. /\ ghost'.reloaded = ghost.reloaded /\ ghost'.late = ghost.late
        /\ ghost.overlap => ghost'.overlap
    BY <1>5 DEF EnableSigsegvProtection, TypeInv, FlagType, Ghost
  <2>3. \A p \in Procs : pc'[p] = pc[p] \/ (~Refreshing(p) /\ ~Refreshing(p)')
    BY <1>5
       DEF EnableSigsegvProtection, Spend, Goto, Refreshing, Idle, TypeInv, ControlType,
           Procs, WorkerPC, ScanPC
  <2> QED
    BY <2>1, <2>2, <2>3, FrameRefresh
<1>6. ASSUME NEW t \in Threads, NEW h \in Hooks, Register(t, h) PROVE RefreshInv'
  BY <1>6, RegisterRefresh
<1>7. ASSUME NEW t \in Threads, NEW i \in Ignores, Ignore(t, i) PROVE RefreshInv'
  BY <1>7, IgnoreRefresh
<1>8. ASSUME NEW t \in Threads, RegisterFails(t) PROVE RefreshInv'
  <2>1. UNCHANGED <<at, slot, mapInfo, scan, hookInfo, ignoreInfo>>
    BY <1>8 DEF RegisterFails, lists, memory
  <2>2. /\ ghost'.reloaded = ghost.reloaded /\ ghost'.late = ghost.late
        /\ ghost.overlap => ghost'.overlap
    BY <1>8 DEF RegisterFails, TypeInv, FlagType, Ghost
  <2>3. \A p \in Procs : pc'[p] = pc[p] \/ (~Refreshing(p) /\ ~Refreshing(p)')
    BY <1>8
       DEF RegisterFails, Goto, Refreshing, Idle, TypeInv, ControlType, Procs, WorkerPC,
           ScanPC
  <2> QED
    BY <2>1, <2>2, <2>3, FrameRefresh
<1>9. ASSUME NEW t \in Threads, InitOnce(t) PROVE RefreshInv'
  <2>1. UNCHANGED <<at, slot, mapInfo, scan, hookInfo, ignoreInfo>>
    BY <1>9 DEF InitOnce, lists, memory
  <2>2. /\ ghost'.reloaded = ghost.reloaded /\ ghost'.late = ghost.late
        /\ ghost.overlap => ghost'.overlap
    BY <1>9 DEF InitOnce, TypeInv, FlagType, Ghost
  <2>3. \A p \in Procs : pc'[p] = pc[p] \/ (~Refreshing(p) /\ ~Refreshing(p)')
    BY <1>9
       DEF InitOnce, Goto, Refreshing, Idle, TypeInv, ControlType, Procs, WorkerPC, ScanPC
  <2> QED
    BY <2>1, <2>2, <2>3, FrameRefresh
<1>10. ASSUME NEW t \in Threads, AddHandler(t) PROVE RefreshInv'
  <2>1. UNCHANGED <<at, slot, mapInfo, scan, hookInfo, ignoreInfo>>
    BY <1>10 DEF AddHandler, lists, memory
  <2>2. /\ ghost'.reloaded = ghost.reloaded /\ ghost'.late = ghost.late
        /\ ghost.overlap => ghost'.overlap
    BY <1>10 DEF AddHandler, TypeInv, FlagType, Ghost
  <2>3. \A p \in Procs : pc'[p] = pc[p] \/ (~Refreshing(p) /\ ~Refreshing(p)')
    BY <1>10
       DEF AddHandler, Goto, Refreshing, Idle, TypeInv, ControlType, Procs, WorkerPC,
           ScanPC
  <2> QED
    BY <2>1, <2>2, <2>3, FrameRefresh
<1>11. ASSUME NEW t \in Threads, InitCheck(t) PROVE RefreshInv'
  <2>1. UNCHANGED <<at, slot, mapInfo, scan, hookInfo, ignoreInfo>>
    BY <1>11 DEF InitCheck, lists, memory
  <2>2. /\ ghost'.reloaded = ghost.reloaded /\ ghost'.late = ghost.late
        /\ ghost.overlap => ghost'.overlap
    BY <1>11 DEF InitCheck, TypeInv, FlagType, Ghost
  <2>3. \A p \in Procs : pc'[p] = pc[p] \/ (~Refreshing(p) /\ ~Refreshing(p)')
    BY <1>11
       DEF InitCheck, InitDone, Goto, Refreshing, Idle, TypeInv, ControlType, Procs,
           WorkerPC, ScanPC
  <2> QED
    BY <2>1, <2>2, <2>3, FrameRefresh
<1>12. ASSUME NEW t \in Threads, InitAsyncOnce(t) PROVE RefreshInv'
  <2>1. UNCHANGED <<at, slot, mapInfo, scan, hookInfo, ignoreInfo>>
    BY <1>12 DEF InitAsyncOnce, lists, memory
  <2>2. /\ ghost'.reloaded = ghost.reloaded /\ ghost'.late = ghost.late
        /\ ghost.overlap => ghost'.overlap
    BY <1>12 DEF InitAsyncOnce, TypeInv, FlagType, Ghost
  <2>3. \A p \in Procs : pc'[p] = pc[p] \/ (~Refreshing(p) /\ ~Refreshing(p)')
    BY <1>12
       DEF InitAsyncOnce, Goto, Refreshing, Idle, TypeInv, ControlType, Procs, WorkerPC,
           ScanPC
  <2> QED
    BY <2>1, <2>2, <2>3, FrameRefresh
<1>13. ASSUME NEW t \in Threads, CreateThread(t) PROVE RefreshInv'
  <2>1. UNCHANGED <<at, slot, mapInfo, scan, hookInfo, ignoreInfo>>
    BY <1>13 DEF CreateThread, lists, memory
  <2>2. /\ ghost'.reloaded = ghost.reloaded /\ ghost'.late = ghost.late
        /\ ghost.overlap => ghost'.overlap
    BY <1>13 DEF CreateThread, TypeInv, FlagType, Ghost
  <2>3. \A p \in Procs : pc'[p] = pc[p] \/ (~Refreshing(p) /\ ~Refreshing(p)')
    BY <1>13
       DEF CreateThread, Goto, Refreshing, Idle, TypeInv, ControlType, Procs, WorkerPC,
           ScanPC
  <2> QED
    BY <2>1, <2>2, <2>3, FrameRefresh
<1>14. ASSUME NEW t \in Threads, AsyncCheck(t) PROVE RefreshInv'
  <2>1. UNCHANGED <<at, slot, mapInfo, scan, hookInfo, ignoreInfo>>
    BY <1>14 DEF AsyncCheck, lists, memory
  <2>2. /\ ghost'.reloaded = ghost.reloaded /\ ghost'.late = ghost.late
        /\ ghost.overlap => ghost'.overlap
    BY <1>14 DEF AsyncCheck, TypeInv, FlagType, Ghost
  <2>3. \A p \in Procs : pc'[p] = pc[p] \/ (~Refreshing(p) /\ ~Refreshing(p)')
    BY <1>14
       DEF AsyncCheck, Goto, Refreshing, Idle, TypeInv, ControlType, Procs, WorkerPC,
           ScanPC
  <2> QED
    BY <2>1, <2>2, <2>3, FrameRefresh
<1>15. ASSUME NEW t \in Threads, PostRefresh(t) PROVE RefreshInv'
  <2>1. UNCHANGED <<at, slot, mapInfo, scan, hookInfo, ignoreInfo>>
    BY <1>15 DEF PostRefresh, lists, memory
  <2>2. /\ ghost'.reloaded = ghost.reloaded /\ ghost'.late = ghost.late
        /\ ghost.overlap => ghost'.overlap
    BY <1>15 DEF PostRefresh, TypeInv, FlagType, Ghost
  <2>3. \A p \in Procs : pc'[p] = pc[p] \/ (~Refreshing(p) /\ ~Refreshing(p)')
    BY <1>15
       DEF PostRefresh, Signal, Goto, Refreshing, Idle, TypeInv, ControlType, Procs,
           WorkerPC, ScanPC
  <2> QED
    BY <2>1, <2>2, <2>3, FrameRefresh
<1>16. ASSUME NEW t \in Threads, ClearTest(t) PROVE RefreshInv'
  <2>1. UNCHANGED <<at, slot, mapInfo, scan, hookInfo, ignoreInfo>>
    BY <1>16 DEF ClearTest, lists, memory
  <2>2. /\ ghost'.reloaded = ghost.reloaded /\ ghost'.late = ghost.late
        /\ ghost.overlap => ghost'.overlap
    BY <1>16 DEF ClearTest, TypeInv, FlagType, Ghost
  <2>3. \A p \in Procs : pc'[p] = pc[p] \/ (~Refreshing(p) /\ ~Refreshing(p)')
    BY <1>16
       DEF ClearTest, Goto, Refreshing, Idle, TypeInv, ControlType, Procs, WorkerPC,
           ScanPC
  <2> QED
    BY <2>1, <2>2, <2>3, FrameRefresh
<1>17. ASSUME NEW t \in Threads, ClearSignal(t) PROVE RefreshInv'
  <2>1. UNCHANGED <<at, slot, mapInfo, scan, hookInfo, ignoreInfo>>
    BY <1>17 DEF ClearSignal, lists, memory
  <2>2. /\ ghost'.reloaded = ghost.reloaded /\ ghost'.late = ghost.late
        /\ ghost.overlap => ghost'.overlap
    BY <1>17 DEF ClearSignal, TypeInv, FlagType, Ghost
  <2>3. \A p \in Procs : pc'[p] = pc[p] \/ (~Refreshing(p) /\ ~Refreshing(p)')
    BY <1>17
       DEF ClearSignal, Signal, Goto, Refreshing, Idle, TypeInv, ControlType, Procs,
           WorkerPC, ScanPC
  <2> QED
    BY <2>1, <2>2, <2>3, FrameRefresh
<1>18. ASSUME NEW t \in Threads, ClearJoin(t) PROVE RefreshInv'
  <2>1. UNCHANGED <<at, slot, mapInfo, scan, hookInfo, ignoreInfo>>
    BY <1>18 DEF ClearJoin, lists, memory
  <2>2. /\ ghost'.reloaded = ghost.reloaded /\ ghost'.late = ghost.late
        /\ ghost.overlap => ghost'.overlap
    BY <1>18 DEF ClearJoin, TypeInv, FlagType, Ghost
  <2>3. \A p \in Procs : pc'[p] = pc[p] \/ (~Refreshing(p) /\ ~Refreshing(p)')
    BY <1>18
       DEF ClearJoin, Goto, Refreshing, Idle, TypeInv, ControlType, Procs, WorkerPC,
           ScanPC
  <2> QED
    BY <2>1, <2>2, <2>3, FrameRefresh
<1>19. ASSUME NEW t \in Threads, ClearAsync(t) PROVE RefreshInv'
  <2>1. UNCHANGED <<at, slot, mapInfo, scan, hookInfo, ignoreInfo>>
    BY <1>19 DEF ClearAsync, lists, memory
  <2>2. /\ ghost'.reloaded = ghost.reloaded /\ ghost'.late = ghost.late
        /\ ghost.overlap => ghost'.overlap
    BY <1>19 DEF ClearAsync, TypeInv, FlagType, Ghost
  <2>3. \A p \in Procs : pc'[p] = pc[p] \/ (~Refreshing(p) /\ ~Refreshing(p)')
    BY <1>19
       DEF ClearAsync, Goto, Refreshing, Idle, TypeInv, ControlType, Procs, WorkerPC,
           ScanPC
  <2> QED
    BY <2>1, <2>2, <2>3, FrameRefresh
<1>20. ASSUME NEW t \in Threads, ClearHandler(t) PROVE RefreshInv'
  <2>1. UNCHANGED <<at, slot, mapInfo, scan, hookInfo, ignoreInfo>>
    BY <1>20 DEF ClearHandler, lists, memory
  <2>2. /\ ghost'.reloaded = ghost.reloaded /\ ghost'.late = ghost.late
        /\ ghost.overlap => ghost'.overlap
    BY <1>20 DEF ClearHandler, TypeInv, FlagType, Ghost
  <2>3. \A p \in Procs : pc'[p] = pc[p] \/ (~Refreshing(p) /\ ~Refreshing(p)')
    BY <1>20
       DEF ClearHandler, HandlerRestored, Goto, Refreshing, Idle, TypeInv, ControlType,
           Procs, WorkerPC, ScanPC
  <2> QED
    BY <2>1, <2>2, <2>3, FrameRefresh
<1>21. ASSUME NEW t \in Threads, ClearInited(t) PROVE RefreshInv'
  <2>1. UNCHANGED <<at, slot, mapInfo, scan, hookInfo, ignoreInfo>>
    BY <1>21 DEF ClearInited, lists, memory
  <2>2. /\ ghost'.reloaded = ghost.reloaded /\ ghost'.late = ghost.late
        /\ ghost.overlap => ghost'.overlap
    BY <1>21 DEF ClearInited, TypeInv, FlagType, Ghost
  <2>3. \A p \in Procs : pc'[p] = pc[p] \/ (~Refreshing(p) /\ ~Refreshing(p)')
    BY <1>21
       DEF ClearInited, Goto, Refreshing, Idle, TypeInv, ControlType, Procs, WorkerPC,
           ScanPC
  <2> QED
    BY <2>1, <2>2, <2>3, FrameRefresh
<1>22. ASSUME NEW t \in Threads, ClearLock(t) PROVE RefreshInv'
  <2>1. UNCHANGED <<at, slot, mapInfo, scan, hookInfo, ignoreInfo>>
    BY <1>22 DEF ClearLock, lists, memory
  <2>2. /\ ghost'.reloaded = ghost.reloaded /\ ghost'.late = ghost.late
        /\ ghost.overlap => ghost'.overlap
    BY <1>22 DEF ClearLock, TypeInv, FlagType, Ghost
  <2>3. \A p \in Procs : pc'[p] = pc[p] \/ (~Refreshing(p) /\ ~Refreshing(p)')
    BY <1>22
       DEF ClearLock, Goto, Refreshing, Idle, TypeInv, ControlType, Procs, WorkerPC,
           ScanPC
  <2> QED
    BY <2>1, <2>2, <2>3, FrameRefresh
<1>23. ASSUME NEW t \in Threads, ClearFree(t) PROVE RefreshInv'
  BY <1>23, FreeRefresh
<1>24. ASSUME NEW p \in Procs, RefreshLock(p) PROVE RefreshInv'
  BY <1>24, LockRefresh
<1>25. ASSUME NEW p \in Procs, NextLine(p) PROVE RefreshInv'
  BY <1>25, LineRefresh
<1>26. ASSUME NEW p \in Procs, CheckHeader(p) PROVE RefreshInv'
  BY <1>26, HeaderRefresh
<1>27. ASSUME NEW p \in Procs, SaveOld(p) PROVE RefreshInv'
  BY <1>27, SaveRefresh
<1>28. ASSUME NEW p \in Procs, Replace(p) PROVE RefreshInv'
  BY <1>28, StoreRefresh
<1>29. ASSUME NEW p \in Procs, Finish(p) PROVE RefreshInv'
  BY <1>29, FinishRefresh
<1>30. ASSUME NEW w \in Workers, WorkerTop(w) PROVE RefreshInv'
  <2>1. UNCHANGED <<at, slot, mapInfo, scan, hookInfo, ignoreInfo>>
    BY <1>30 DEF WorkerTop, lists, memory
  <2>2. /\ ghost'.reloaded = ghost.reloaded /\ ghost'.late = ghost.late
        /\ ghost.overlap => ghost'.overlap
    BY <1>30 DEF WorkerTop, TypeInv, FlagType, Ghost
  <2>3. \A p \in Procs : pc'[p] = pc[p] \/ (~Refreshing(p) /\ ~Refreshing(p)')
    BY <1>30
       DEF WorkerTop, Goto, Refreshing, Idle, TypeInv, ControlType, Procs, WorkerPC,
           ScanPC
  <2> QED
    BY <2>1, <2>2, <2>3, FrameRefresh
<1>31. ASSUME NEW w \in Workers, WorkerLock(w) PROVE RefreshInv'
  <2>1. UNCHANGED <<at, slot, mapInfo, scan, hookInfo, ignoreInfo>>
    BY <1>31 DEF WorkerLock, lists, memory
  <2>2. /\ ghost'.reloaded = ghost.reloaded /\ ghost'.late = ghost.late
        /\ ghost.overlap => ghost'.overlap
    BY <1>31 DEF WorkerLock, TypeInv, FlagType, Ghost
  <2>3. \A p \in Procs : pc'[p] = pc[p] \/ (~Refreshing(p) /\ ~Refreshing(p)')
    BY <1>31
       DEF WorkerLock, WaitLoop, Goto, Refreshing, Idle, TypeInv, ControlType, Procs,
           WorkerPC, ScanPC
  <2> QED
    BY <2>1, <2>2, <2>3, FrameRefresh
<1>32. ASSUME NEW w \in Workers, Spurious(w) PROVE RefreshInv'
  <2>1. UNCHANGED <<at, slot, mapInfo, scan, hookInfo, ignoreInfo>>
    BY <1>32 DEF Spurious, lists, memory
  <2>2. /\ ghost'.reloaded = ghost.reloaded /\ ghost'.late = ghost.late
        /\ ghost.overlap => ghost'.overlap
    BY <1>32 DEF Spurious, TypeInv, FlagType, Ghost
  <2>3. \A p \in Procs : pc'[p] = pc[p] \/ (~Refreshing(p) /\ ~Refreshing(p)')
    BY <1>32
       DEF Spurious, Goto, Refreshing, Idle, TypeInv, ControlType, Procs, WorkerPC, ScanPC
  <2> QED
    BY <2>1, <2>2, <2>3, FrameRefresh
<1>33. ASSUME NEW l \in Libs, NEW b \in Bases, Dlopen(l, b) PROVE RefreshInv'
  BY <1>33, LoadRefresh
<1>34. ASSUME NEW b \in Bases, Dlclose(b) PROVE RefreshInv'
  BY <1>34, UnloadRefresh
<1>35. CASE UNCHANGED vars
  <2>1. UNCHANGED <<at, slot, mapInfo, scan, hookInfo, ignoreInfo, pc, ghost>>
    BY <1>35 DEF vars
  <2> QED
    BY <2>1, FrameRefresh
<1> QED
  BY <1>1, <1>2, <1>3, <1>4, <1>5, <1>6, <1>7, <1>8, <1>9, <1>10, <1>11, <1>12, <1>13,
     <1>14, <1>15, <1>16, <1>17, <1>18, <1>19, <1>20, <1>21, <1>22, <1>23, <1>24, <1>25,
     <1>26, <1>27, <1>28, <1>29, <1>30, <1>31, <1>32, <1>33, <1>34, <1>35
     DEF Next, Begin, ApiStep, RefreshStep, WorkerStep, Procs

-----------------------------------------------------------------------------
(***************************************************************************)
(* The theorems.                                                           *)
(***************************************************************************)
LEMMA InitInv == Init => IInv
<1> SUFFICES ASSUME Init PROVE IInv
  OBVIOUS
<1>1. TypeInv
  BY InitType
<1>2. NoUseAfterFree /\ RefreshSurvivesDlclose
  BY DEF Init, NoUseAfterFree, RefreshSurvivesDlclose
<1>3. OldInv
  BY DEF Init, OldInv, Procs
<1>4. CalmInv
  BY DEF Init, CalmInv, AloneInv, StageInv, WorkerInv, HandlerInv, MapInv, Clearing, Idle,
         Procs, AsyncPC, ScanPC
<1>5. AtInv
  BY DEF Init, AtInv
<1>6. HandInv /\ ProgressInv /\ QuietInv
  BY DEF Init, HandInv, ProgressInv, QuietInv, Refreshing
<1>7. RecordInv
  <2>1. \A l \in Libs : ~Match(l)
    BY DEF Init, Match
  <2> QED
    BY <2>1 DEF RecordInv
<1> QED
  BY <1>1, <1>2, <1>3, <1>4, <1>5, <1>6, <1>7 DEF IInv, RefreshInv

\* Every step keeps the types.
LEMMA NextType == TypeInv /\ [Next]_vars => TypeInv'
<1> SUFFICES ASSUME TypeInv, [Next]_vars PROVE TypeInv'
  OBVIOUS
<1>1. ListType' /\ MemoryType' /\ FlagType' /\ ControlType' /\ ScanInv'
  BY NextList, NextMemory, NextFlag, NextControl, NextScan
<1> QED
  BY <1>1 DEF TypeInv

\* IInv is an invariant.
THEOREM Invariance == Spec => []IInv
<1>1. IInv /\ [Next]_vars => IInv'
  <2> SUFFICES ASSUME IInv, [Next]_vars PROVE IInv'
    OBVIOUS
  <2>0. TypeInv /\ NoUseAfterFree /\ OldInv /\ CalmInv /\ RefreshSurvivesDlclose /\ RefreshInv
    BY DEF IInv
  <2>1. TypeInv'
    BY <2>0, NextType
  <2>2. NoUseAfterFree' /\ OldInv'
    BY <2>0, NextFreed, NextOld
  <2>3. CalmInv'
    <3>1. AloneInv' /\ StageInv' /\ WorkerInv' /\ HandlerInv' /\ MapInv'
      BY <2>0, NextAlone, NextStage, NextWorker, NextHandler, NextMap
    <3> QED
      BY <3>1 DEF CalmInv
  <2>4. RefreshSurvivesDlclose'
    BY <2>0, NextCrash
  <2>5. RefreshInv'
    BY <2>0, <2>1, NextRefresh
  <2> QED
    BY <2>1, <2>2, <2>3, <2>4, <2>5 DEF IInv
<1> QED
  BY <1>1, InitInv, PTL DEF Spec

\* Every variable keeps its type, and only the holder of the refresh mutex walks the maps.
THEOREM TypesKept == Spec => []TypeOK
<1>1. TypeInv => TypeOK
  <2> SUFFICES ASSUME TypeInv PROVE TypeOK
    OBVIOUS
  <2>1. scan.tree \in [Libs -> Bases \cup {Absent}] /\ scan.next \in 1..Len(hookInfo) + 1
    BY DEF TypeInv, ScanInv, Scan
  <2> QED
    BY <2>1 DEF TypeOK, TypeInv, ListType, MemoryType, FlagType, Flags, ControlType
<1>2. IInv => TypeInv
  BY DEF IInv
<1> QED
  BY <1>1, <1>2, Invariance, PTL

\* xh_core_clear frees the lists only when no refresh walks them, whatever calls overlap.
THEOREM ListsOutliveRefresh == Spec => []NoUseAfterFree
<1>1. IInv => NoUseAfterFree
  BY DEF IInv
<1> QED
  BY <1>1, Invariance, PTL

\* A new function that a slot holds has its old_func set: xh_elf_replace_function saves
\* before it stores, and a refresh that is caught in between has stored nothing.
THEOREM OldSetFirst == Spec => []OldSetBeforeUse
<1>1. IInv => OldSetBeforeUse
  BY DEF IInv, OldInv, OldSetBeforeUse, Mapped
<1> QED
  BY <1>1, Invariance, PTL

\* A library unloaded in the middle of a refresh does not crash it: the handler is
\* installed for as long as a refresh can be in progress.
THEOREM RefreshProtected == Spec => []RefreshSurvivesDlclose
<1>1. IInv => RefreshSurvivesDlclose
  BY DEF IInv
<1> QED
  BY <1>1, Invariance, PTL

\* When the calls are over and xhook is not initialised, the application has its handler
\* back, no refresh thread is left and nothing is recorded.
THEOREM ClearIsComplete == Spec => []ClearUndoesAll
<1>1. IInv => ClearUndoesAll
  <2> SUFFICES ASSUME IInv, Quiescent
               PROVE  /\ sig.handler = App
                      /\ \A w \in Workers : Idle(w)
                      /\ \A l \in Libs : mapInfo[l] = Absent
    BY DEF ClearUndoesAll
  <2>1. ~flags.initOk /\ ~flags.asyncOk
    BY DEF Quiescent, IInv, CalmInv, StageInv
  <2>2. sig.handler = App
    BY <2>1 DEF Quiescent, IInv, CalmInv, HandlerInv
  <2>3. \A w \in Workers : Idle(w)
    BY <2>1 DEF Quiescent, IInv, CalmInv, WorkerInv
  <2>4. \A l \in Libs : mapInfo[l] = Absent
    BY DEF Quiescent, IInv, CalmInv, MapInv, Idle
  <2> QED
    BY <2>2, <2>3, <2>4
<1> QED
  BY <1>1, Invariance, PTL

\* The refresh thread waits only when there is nothing to do: the request and the end are
\* posted under the mutex that it holds from its test to its wait.
THEOREM NeverSleepsOnRequest == Spec => []NoLostWakeup
<1>1. IInv => NoLostWakeup
  BY DEF IInv, CalmInv, WorkerInv, NoLostWakeup
<1> QED
  BY <1>1, Invariance, PTL

\* A refresh that nothing disturbs leaves every slot that is wanted with the last
\* registration that wants it, the ones of libraries it passed over as known too.
THEOREM QuietRefreshComplete == Spec => []QuietRefreshHooksAll
<1>1. IInv => QuietRefreshHooksAll
  <2> SUFFICES ASSUME IInv, NEW p \in Procs, pc[p] = "finish", scan.quiet,
                      ghost.late = {}, ~ghost.overlap,
                      NEW l \in Mapped \ ghost.reloaded, Match(l)
               PROVE  Hooked(l)
    BY DEF QuietRefreshHooksAll, Hooked
  <2>0. TypeInv /\ RefreshInv /\ l \in Libs
    BY DEF IInv, Mapped
  <2>1. PICK b \in Bases : at[b] = l
    BY DEF Mapped
  <2>2. Refreshing(p)
    BY DEF Refreshing
  <2>3. l # None
    BY <2>0
  <2>4. b <= scan.cursor
    BY <2>0, <2>1, <2>2, <2>3 DEF RefreshInv, QuietInv
  <2>5. Passed(p, b)
    BY <2>0, <2>4, ScanNat DEF Passed
  <2>6. scan.tree[l] = b
    BY <2>0, <2>1, <2>2, <2>5 DEF RefreshInv, QuietInv
  <2>7. ~InHand(l)
    BY <2>0, <2>2, OneRefresh DEF InHand, Refreshing
  <2> QED
    BY <2>0, <2>1, <2>6, <2>7 DEF RefreshInv, RecordInv, RecordedAt
<1> QED
  BY <1>1, Invariance, PTL

-----------------------------------------------------------------------------
(***************************************************************************)
(* Calling on through old_func ends at the original function:              *)
(* CallReachesOriginal, whose inductive invariant, ChainInv, holds beside  *)
(* the one above.                                                          *)
(***************************************************************************)

\* A slot of the library holds a new function.
Patched(l) == \E s \in Syms : slot[l][s] # Original

\* Its slots hold registrations before the k-th.
HeldBelow(l, k) ==
    \A s \in Syms : slot[l][s] # Original =>
        \E m \in 1..Len(hookInfo) : m < k /\ slot[l][s] = hookInfo[m]

\* A registration is listed once.
DistinctInv == \A i, j \in 1..Len(hookInfo) : hookInfo[i] = hookInfo[j] => i = j

\* A refresh takes what it keeps out of the old tree.
TreeInv == \A l \in Libs : scan.tree[l] # Absent => mapInfo[l] = Absent

\* The linker maps libraries with their original functions.
FreshInv == \A l \in Libs : Patched(l) => \E b \in Bases : at[b] = l

\* What follows holds as long as no slot was patched twice over.  A patched library is
\* recorded where it is mapped, unless an ignore entry has taken it from the refreshes
\* for good: so no refresh hooks it again.
KeptAt(l, b) ==
    /\ refreshMutex = None => mapInfo[l] = b
    /\ \A p \in Procs : Refreshing(p) =>
          \/ scan.tree[l] = b
          \/ mapInfo[l] = b /\ ~Passed(p, b) /\ pc[p] # "finish"

KeptInv ==
    ~ghost.tainted =>
        \A b \in Bases, l \in Libs :
            at[b] = l /\ Patched(l) =>
                /\ \E n \in 1..Len(hookInfo) : l \in hookInfo[n].libs
                /\ Match(l) => KeptAt(l, b)

\* The header of a patched library is looked at only where it is recorded.
HeaderInv ==
    ~ghost.tainted =>
        \A p \in Procs, l \in Libs :
            pc[p] = "header" /\ Patched(l) =>
                /\ at[scan.cursor] = l => l = scan.lib
                /\ l = scan.lib => at[scan.cursor] = l /\ RecordedAt(l, scan.cursor)

\* The library in hand holds registrations before the next one; a library that took its
\* place at the address holds none.
OrderInv ==
    ~ghost.tainted =>
        \A p \in Procs, l \in Libs :
            pc[p] \in {"hook", "replace"} /\ at[scan.cursor] = l /\ Patched(l) =>
                l = scan.lib /\ HeldBelow(l, scan.next)

\* The registrations of G are all that slots and their old_func variables lead to, and
\* each leads to an earlier one or to the original function.
Closed(G) ==
    /\ \A l \in Libs, s \in Syms : slot[l][s] # Original => \E n \in G : slot[l][s] = hookInfo[n]
    /\ \A p \in Procs : pc[p] = "replace" => scan.next \in G
    /\ \A n \in G : \/ old[hookInfo[n]] = Original
                    \/ \E m \in G : m < n /\ old[hookInfo[n]] = hookInfo[m]

LinkInv == ~ghost.tainted => \E G \in SUBSET (1..Len(hookInfo)) : Closed(G)

ChainInv ==
    /\ DistinctInv /\ TreeInv /\ FreshInv
    /\ KeptInv /\ HeaderInv /\ OrderInv /\ LinkInv

USE BasesAssumption, HooksAssumption, InitialAssumption, BoundsAssumption

-----------------------------------------------------------------------------
(***************************************************************************)
(* Steps that patch nothing.                                               *)
(***************************************************************************)
\* At the start nothing is registered and nothing is patched.
LEMMA InitChain == Init => ChainInv
<1> SUFFICES ASSUME Init PROVE ChainInv
  OBVIOUS
<1>1. \A l \in Libs : ~Patched(l)
  BY DEF Init, Patched
<1>2. DistinctInv /\ TreeInv
  BY DEF Init, DistinctInv, TreeInv, NoLine
<1>3. FreshInv /\ KeptInv /\ HeaderInv /\ OrderInv
  BY <1>1 DEF FreshInv, KeptInv, HeaderInv, OrderInv
<1>4. LinkInv
  <2>1. Closed({})
    BY DEF Init, Closed, Procs
  <2> QED
    BY <2>1 DEF LinkInv
<1> QED
  BY <1>2, <1>3, <1>4 DEF ChainInv

\* Slots as they are.
LEMMA SameSlots ==
  ASSUME UNCHANGED slot, NEW l
  PROVE  Patched(l)' <=> Patched(l)
  BY DEF Patched

\* The lists may grow, the memory and the refresh stay as they are.
LEMMA GrowChain ==
  ASSUME TypeInv, ChainInv, DistinctInv',
         UNCHANGED <<at, slot, old, mapInfo, refreshMutex>>,
         scan'.cursor = scan.cursor, scan'.lib = scan.lib, scan'.next = scan.next,
         scan'.tree = scan.tree,
         Len(hookInfo') \in Nat, Len(hookInfo) <= Len(hookInfo'),
         \A n \in 1..Len(hookInfo) : hookInfo'[n] = hookInfo[n],
         \A l \in Libs : /\ \E n \in 1..Len(hookInfo) : l \in hookInfo[n].libs
                         /\ Match(l)'
                         => Match(l),
         ghost.tainted => ghost'.tainted,
         \A p \in Procs : pc'[p] = pc[p] \/ (~Refreshing(p) /\ ~Refreshing(p)')
  PROVE  ChainInv'
<1>0. \A p \in Procs : \/ pc'[p] = pc[p]
                       \/ pc[p] \notin ScanPC /\ pc'[p] \notin ScanPC
  BY DEF Refreshing, ScanPC
<1>n. Len(hookInfo) \in Nat
  BY DEF TypeInv, ListType
<1>p. \A l \in Libs : Patched(l)' <=> Patched(l)
  BY SameSlots
<1>1. TreeInv'
  BY DEF ChainInv, TreeInv
<1>2. FreshInv'
  BY <1>p DEF ChainInv, FreshInv
<1>3. KeptInv'
  <2> SUFFICES ASSUME ~ghost'.tainted, NEW b \in Bases, NEW l \in Libs, at[b] = l, Patched(l)
               PROVE  /\ \E n \in 1..Len(hookInfo') : l \in hookInfo'[n].libs
                      /\ Match(l)' => KeptAt(l, b)'
    BY <1>p DEF KeptInv
  <2>1. PICK n \in 1..Len(hookInfo) : l \in hookInfo[n].libs
    BY DEF ChainInv, KeptInv
  <2>2. n \in 1..Len(hookInfo') /\ l \in hookInfo'[n].libs
    BY <1>n, <2>1
  <2>3. ASSUME Match(l)' PROVE KeptAt(l, b)'
    <3>1. KeptAt(l, b)
      BY <2>1, <2>3 DEF ChainInv, KeptInv
    <3>2. \A p \in Procs : Refreshing(p)' => Refreshing(p) /\ pc'[p] = pc[p]
      BY <1>0 DEF Refreshing, ScanPC
    <3> QED
      BY <3>1, <3>2 DEF KeptAt, Passed
  <2> QED
    BY <2>2, <2>3
<1>4. HeaderInv'
  BY <1>0, <1>p DEF ChainInv, HeaderInv, RecordedAt, ScanPC
<1>5. OrderInv'
  <2> SUFFICES ASSUME ~ghost'.tainted, NEW p \in Procs, NEW l \in Libs,
                      pc[p] \in {"hook", "replace"}, at[scan.cursor] = l, Patched(l),
                      NEW k, k = scan.next
               PROVE  l = scan.lib /\ HeldBelow(l, k)'
    BY <1>0, <1>p DEF OrderInv, HeldBelow, ScanPC
  <2>1. l = scan.lib /\ HeldBelow(l, k)
    BY DEF ChainInv, OrderInv
  <2> QED
    BY <1>n, <2>1 DEF HeldBelow
<1>6. LinkInv'
  <2> SUFFICES ASSUME ~ghost'.tainted PROVE \E G \in SUBSET (1..Len(hookInfo')) : Closed(G)'
    BY DEF LinkInv
  <2>1. PICK G \in SUBSET (1..Len(hookInfo)) : Closed(G)
    BY DEF ChainInv, LinkInv
  <2>2. G \in SUBSET (1..Len(hookInfo')) /\ \A n \in G : hookInfo'[n] = hookInfo[n]
    BY <1>n
  <2>3. Closed(G)'
    BY <1>0, <2>1, <2>2 DEF Closed, ScanPC
  <2> QED
    BY <2>2, <2>3
<1> QED
  BY <1>1, <1>2, <1>3, <1>4, <1>5, <1>6 DEF ChainInv

\* A step of a call that is not a refresh's.
LEMMA FrameChain ==
  ASSUME TypeInv, ChainInv,
         UNCHANGED <<at, slot, old, mapInfo, scan, hookInfo, ignoreInfo, refreshMutex>>,
         ghost.tainted => ghost'.tainted,
         \A p \in Procs : pc'[p] = pc[p] \/ (~Refreshing(p) /\ ~Refreshing(p)')
  PROVE  ChainInv'
<1>1. Len(hookInfo) \in Nat
  BY DEF TypeInv, ListType
<1>2. DistinctInv'
  BY DEF ChainInv, DistinctInv
<1>3. \A l \in Libs : Match(l)' <=> Match(l)
  BY SameLists
<1> QED
  BY <1>1, <1>2, <1>3, GrowChain

\* A registration that is appended is a new one, and leaves the first match as it is.
LEMMA RegisterChain ==
  ASSUME TypeInv, ChainInv, NEW t \in Threads, NEW h \in Hooks, Register(t, h)
  PROVE  ChainInv'
<1>1. /\ pc[t] = "register" /\ hookInfo' = Append(hookInfo, h) /\ Disturb
      /\ h \notin Range(hookInfo)
      /\ ghost' = IF flags.inited THEN [ghost EXCEPT !.late = @ \cup {h}] ELSE ghost
      /\ pc' = [pc EXCEPT ![t] = "idle"]
      /\ UNCHANGED <<ignoreInfo, mapInfo, refreshMutex, at, slot, old>>
  BY DEF Register, Goto, locks, memory
<1>2. \A p \in Procs : pc'[p] = pc[p] \/ (~Refreshing(p) /\ ~Refreshing(p)')
  BY <1>1 DEF TypeInv, ControlType, Refreshing, Procs
<1>3. /\ scan'.cursor = scan.cursor /\ scan'.lib = scan.lib
      /\ scan'.next = scan.next /\ scan'.tree = scan.tree
  BY <1>1 DEF Disturb, TypeInv, ScanInv, Scan
<1>4. ghost'.tainted = ghost.tainted
  BY <1>1 DEF TypeInv, FlagType, Ghost
<1>5. /\ Len(hookInfo) \in Nat /\ Len(hookInfo') = Len(hookInfo) + 1
      /\ \A n \in 1..Len(hookInfo) : hookInfo'[n] = hookInfo[n] /\ hookInfo[n] # h
      /\ hookInfo'[Len(hookInfo) + 1] = h
  <2>1. \A n \in 1..Len(hookInfo) : hookInfo[n] \in Range(hookInfo)
    BY DEF TypeInv, ListType, Range
  <2> QED
    BY <1>1, <2>1 DEF TypeInv, ListType
<1>6. DistinctInv'
  <2> SUFFICES ASSUME NEW i \in 1..Len(hookInfo) + 1, NEW j \in 1..Len(hookInfo) + 1,
                      hookInfo'[i] = hookInfo'[j]
               PROVE  i = j
    BY <1>5 DEF DistinctInv
  <2>1. CASE i \in 1..Len(hookInfo) /\ j \in 1..Len(hookInfo)
    BY <1>5, <2>1 DEF ChainInv, DistinctInv
  <2>2. CASE i = Len(hookInfo) + 1 \/ j = Len(hookInfo) + 1
    BY <1>5, <2>2
  <2> QED
    BY <1>5, <2>1, <2>2
<1>7. ASSUME NEW l \in Libs, NEW k \in 1..Len(hookInfo), l \in hookInfo[k].libs, Match(l)'
      PROVE  Match(l)
  <2> DEFINE first == {n \in 1..Len(hookInfo) : l \in hookInfo[n].libs}
             next == {n \in 1..Len(hookInfo') : l \in hookInfo'[n].libs}
  <2>1. first \in SUBSET Nat /\ next \in SUBSET Nat /\ k \in first /\ first \subseteq next
    BY <1>5, <1>7
  <2>2. \A n \in next : n \in first \/ n = Len(hookInfo) + 1
    BY <1>5
  <2>3. Min(first) \in first /\ \A n \in first : Min(first) <= n
    <3> HIDE DEF first, next
    <3> QED
      BY <2>1, MinIn
  <2>4. Min(next) \in next /\ \A n \in next : Min(next) <= n
    <3> HIDE DEF first, next
    <3> QED
      BY <2>1, MinIn
  <2>5. Min(next) = Min(first)
    <3>1. \A n \in first : n <= Len(hookInfo)
      BY <1>5
    <3> HIDE DEF first, next
    <3>2. Min(first) \in Nat /\ Min(next) \in Nat
      BY <2>1, <2>3, <2>4
    <3>3. Min(next) <= Min(first) /\ Min(first) <= Len(hookInfo)
      BY <2>1, <2>3, <2>4, <3>1
    <3>4. Min(next) # Len(hookInfo) + 1
      BY <1>5, <3>2, <3>3
    <3>5. Min(first) <= Min(next)
      BY <2>2, <2>3, <2>4, <3>4
    <3> QED
      BY <3>2, <3>3, <3>5
  <2>6. Min(next) \in Wanted(l)'
    BY <1>7 DEF Match
  <2>7. Min(first) \in Wanted(l)
    BY ZenonT(30), <1>1, <1>5, <2>3, <2>5, <2>6 DEF Wanted, IgnoredWhole, IgnoredSym
  <2> QED
    BY <2>1, <2>7 DEF Match
<1> QED
  BY <1>1, <1>2, <1>3, <1>4, <1>5, <1>6, <1>7, GrowChain

\* An ignore entry takes libraries away only.
LEMMA IgnoreChain ==
  ASSUME TypeInv, ChainInv, NEW t \in Threads, NEW i \in Ignores, Ignore(t, i)
  PROVE  ChainInv'
<1>1. /\ pc[t] = "ignore" /\ ignoreInfo' = Append(ignoreInfo, i) /\ Disturb
      /\ pc' = [pc EXCEPT ![t] = "idle"]
      /\ UNCHANGED <<hookInfo, mapInfo, ghost, refreshMutex, at, slot, old>>
  BY DEF Ignore, Goto, locks, memory
<1>2. \A p \in Procs : pc'[p] = pc[p] \/ (~Refreshing(p) /\ ~Refreshing(p)')
  BY <1>1 DEF TypeInv, ControlType, Refreshing, Procs
<1>3. /\ scan'.cursor = scan.cursor /\ scan'.lib = scan.lib
      /\ scan'.next = scan.next /\ scan'.tree = scan.tree
  BY <1>1 DEF Disturb, TypeInv, ScanInv, Scan
<1>4. \A l \in Libs : Match(l)' => Match(l)
  BY <1>1, MoreIgnored
<1>5. Len(hookInfo) \in Nat
  BY DEF TypeInv, ListType
<1>6. DistinctInv'
  BY <1>1 DEF ChainInv, DistinctInv
<1> QED
  BY <1>1, <1>2, <1>3, <1>4, <1>5, <1>6, GrowChain

\* A clear forgets the registrations; if it leaves a slot patched, that is noted.
LEMMA FreeChain ==
  ASSUME TypeInv, ChainInv, NEW t \in Threads, ClearFree(t)
  PROVE  ChainInv'
<1>1. /\ refreshMutex = None /\ pc[t] = "free" /\ pc' = [pc EXCEPT ![t] = "idle"]
      /\ hookInfo' = <<>> /\ mapInfo' = [l \in Libs |-> Absent]
      /\ UNCHANGED <<at, slot, old, scan>>
  BY DEF ClearFree, FreeEntry, Goto, memory
<1>2. \A p \in Procs : ~Refreshing(p) /\ ~Refreshing(p)'
  BY <1>1, NoneRefreshing DEF Refreshing, TypeInv, ControlType, Procs
<1>3. ghost'.tainted <=> ghost.tainted \/ \E l \in Mapped, s \in Syms : slot[l][s] # Original
  BY DEF ClearFree, TypeInv, FlagType, Ghost
<1>4. \A l \in Libs : Patched(l)' <=> Patched(l)
  BY <1>1, SameSlots
<1>5. ~ghost'.tainted => \A l \in Libs : ~Patched(l)
  BY <1>3 DEF ChainInv, FreshInv, Mapped, Patched
<1>6. DistinctInv' /\ TreeInv'
  BY <1>1 DEF DistinctInv, TreeInv
<1>7. FreshInv'
  BY <1>1, <1>4 DEF ChainInv, FreshInv
<1>8. KeptInv' /\ HeaderInv' /\ OrderInv'
  BY <1>4, <1>5 DEF KeptInv, HeaderInv, OrderInv
<1>9. LinkInv'
  <2> SUFFICES ASSUME ~ghost'.tainted PROVE Closed({})'
    BY DEF LinkInv
  <2>1. \A l \in Libs, s \in Syms : slot'[l][s] = Original
    BY <1>1, <1>5 DEF Patched
  <2> QED
    BY <1>2, <2>1 DEF Closed, Refreshing
<1> QED
  BY <1>6, <1>7, <1>8, <1>9 DEF ChainInv

-----------------------------------------------------------------------------
(***************************************************************************)
(* Steps of a refresh.                                                     *)
(***************************************************************************)
\* Slots and old_func variables as they are, and no store in hand.
LEMMA SameLinks ==
  ASSUME LinkInv, UNCHANGED <<slot, old, hookInfo>>, ghost.tainted => ghost'.tainted,
         \A q \in Procs : pc'[q] # "replace"
  PROVE  LinkInv'
<1> SUFFICES ASSUME ~ghost'.tainted PROVE \E G \in SUBSET (1..Len(hookInfo)) : Closed(G)'
  BY DEF LinkInv
<1>1. PICK G \in SUBSET (1..Len(hookInfo)) : Closed(G)
  BY DEF LinkInv
<1>2. Closed(G)'
  BY <1>1 DEF Closed
<1> QED
  BY <1>2

\* A refresh begins at the first line, with every record ahead of it.
LEMMA LockChain ==
  ASSUME TypeInv, ChainInv, NEW p \in Procs, RefreshLock(p)
  PROVE  ChainInv'
<1>1. /\ pc[p] = "refresh" /\ refreshMutex = None
      /\ UNCHANGED <<at, slot, old, mapInfo, hookInfo, ignoreInfo, ghost>>
  BY DEF RefreshLock, RefreshEntry, memory, lists
<1>2. scan = NoLine /\ \A q \in Procs : ~Refreshing(q)
  BY <1>1, NoneRefreshing
<1>3. CASE scan' = NoLine /\ refreshMutex' = p /\ pc' = [pc EXCEPT ![p] = "line"]
  <2>1. \A q \in Procs : pc'[q] = pc[q] \/ pc'[q] = "line"
    BY <1>3 DEF TypeInv, ControlType
  <2>2. \A q \in Procs : pc[q] \notin ScanPC /\ pc'[q] \notin ScanPC \ {"line"}
    BY <1>2, <2>1 DEF Refreshing, ScanPC
  <2>3. /\ \A l \in Libs : Patched(l)' <=> Patched(l)
        /\ \A l \in Libs : Match(l)' <=> Match(l)
    BY <1>1, SameSlots, SameLists
  <2>4. DistinctInv' /\ TreeInv' /\ FreshInv'
    BY <1>1, <1>2, <1>3, <2>3 DEF ChainInv, DistinctInv, TreeInv, FreshInv
  <2>5. HeaderInv' /\ OrderInv'
    BY <2>2 DEF HeaderInv, OrderInv, ScanPC
  <2>6. KeptInv'
    <3> SUFFICES ASSUME ~ghost.tainted, NEW b \in Bases, NEW l \in Libs, at[b] = l, Patched(l)
                 PROVE  /\ \E n \in 1..Len(hookInfo) : l \in hookInfo[n].libs
                        /\ Match(l) => KeptAt(l, b)'
      BY <1>1, <2>3 DEF KeptInv
    <3>1. ASSUME Match(l) PROVE KeptAt(l, b)'
      <4>1. mapInfo[l] = b
        BY <1>1, <3>1 DEF ChainInv, KeptInv, KeptAt
      <4>2. scan'.cursor = 0 /\ b \in Nat /\ b # 0
        BY <1>3, ScanNat DEF NoLine
      <4>3. \A q \in Procs : ~Passed(q, b)'
        BY <4>2 DEF Passed
      <4>4. \A q \in Procs : Refreshing(q)' => pc'[q] = "line"
        BY <2>2 DEF Refreshing, ScanPC
      <4>5. refreshMutex' # None
        BY <1>3 DEF Procs
      <4> QED
        BY <1>1, <4>1, <4>3, <4>4, <4>5 DEF KeptAt
    <3> QED
      BY <3>1 DEF ChainInv, KeptInv
  <2>7. LinkInv'
    BY <1>1, <2>2, SameLinks DEF ChainInv, ScanPC
  <2> QED
    BY <2>4, <2>5, <2>6, <2>7 DEF ChainInv
<1>4. CASE UNCHANGED <<scan, refreshMutex>> /\ pc' = [pc EXCEPT ![p] = Return(p)]
  <2>1. \A q \in Procs : pc'[q] = pc[q] \/ (~Refreshing(q) /\ ~Refreshing(q)')
    BY <1>1, <1>2, <1>4 DEF Return, Refreshing, TypeInv, ControlType
  <2> QED
    BY <1>1, <1>4, <2>1, FrameChain
<1> QED
  BY <1>3, <1>4 DEF RefreshLock, Goto

\* The refresh looks at the next library where it is mapped.
LEMMA LineChain ==
  ASSUME TypeInv, ChainInv, NEW p \in Procs, NextLine(p)
  PROVE  ChainInv'
<1>1. /\ pc[p] = "line"
      /\ UNCHANGED <<at, slot, old, mapInfo, hookInfo, ignoreInfo, ghost, refreshMutex>>
  BY DEF NextLine, memory, lists, locks
<1>2. Refreshing(p) /\ scan \in Scan
  BY <1>1 DEF Refreshing, TypeInv, ScanInv
<1>3. /\ \A l \in Libs : Patched(l)' <=> Patched(l)
      /\ \A l \in Libs : Match(l)' <=> Match(l)
  BY <1>1, SameSlots, SameLists
<1>4. refreshMutex = p /\ refreshMutex # None
  BY <1>2, OneRefresh
<1>5. ASSUME scan'.tree = scan.tree, pc'[p] \in {"line", "header", "finish"},
             \A q \in Procs : q # p => pc[q] \notin ScanPC /\ pc'[q] = pc[q],
             \A b \in Bases, l \in Libs :
                /\ ~ghost.tainted /\ at[b] = l /\ Patched(l) /\ Match(l)
                /\ scan.tree[l] # b /\ mapInfo[l] = b /\ ~Passed(p, b)
                => ~Passed(p, b)' /\ pc'[p] # "finish",
             pc'[p] = "header" =>
                /\ scan'.lib \in Libs /\ scan'.cursor \in Bases
                /\ at[scan'.cursor] = scan'.lib /\ Match(scan'.lib)
      PROVE  ChainInv'
  <2>1. \A q \in Procs : pc'[q] \in ScanPC => q = p
    BY <1>5
  <2>2. DistinctInv' /\ TreeInv' /\ FreshInv'
    BY <1>1, <1>3, <1>5 DEF ChainInv, DistinctInv, TreeInv, FreshInv
  <2>3. OrderInv'
    BY <1>5, <2>1 DEF OrderInv, ScanPC
  <2>4. HeaderInv'
    <3> SUFFICES ASSUME ~ghost.tainted, NEW l \in Libs, pc'[p] = "header", Patched(l),
                        NEW c, c = scan'.cursor
                 PROVE  /\ at[c] = l => l = scan'.lib
                        /\ l = scan'.lib => at[c] = l /\ RecordedAt(l, c)'
      BY <1>1, <1>3, <2>1 DEF HeaderInv, RecordedAt, ScanPC
    <3>1. ASSUME l = scan'.lib PROVE RecordedAt(l, c)'
      <4>1. c \in Bases /\ at[c] = l /\ Match(l)
        BY <1>5, <3>1
      <4>2. KeptAt(l, c)
        BY <4>1 DEF ChainInv, KeptInv
      <4>3. scan.tree[l] = c \/ mapInfo[l] = c
        BY <1>2, <4>2 DEF KeptAt
      <4> QED
        BY <1>1, <1>5, <4>3 DEF RecordedAt
    <3> QED
      BY <1>5, <3>1
  <2>5. KeptInv'
    <3> SUFFICES ASSUME ~ghost.tainted, NEW b \in Bases, NEW l \in Libs, at[b] = l, Patched(l)
                 PROVE  /\ \E n \in 1..Len(hookInfo) : l \in hookInfo[n].libs
                        /\ Match(l) => KeptAt(l, b)'
      BY <1>1, <1>3 DEF KeptInv
    <3>1. ASSUME Match(l) PROVE KeptAt(l, b)'
      <4>1. \/ scan.tree[l] = b
            \/ mapInfo[l] = b /\ ~Passed(p, b)
        BY <1>2, <3>1 DEF ChainInv, KeptInv, KeptAt
      <4>2. \/ scan'.tree[l] = b
            \/ mapInfo'[l] = b /\ ~Passed(p, b)' /\ pc'[p] # "finish"
        BY <1>1, <1>5, <3>1, <4>1
      <4>3. \A q \in Procs : Refreshing(q)' => q = p
        BY <2>1 DEF Refreshing, ScanPC
      <4> QED
        BY <1>1, <1>4, <4>2, <4>3 DEF KeptAt
    <3> QED
      BY <3>1 DEF ChainInv, KeptInv
  <2>6. LinkInv'
    BY <1>1, <1>5, <2>1, SameLinks DEF ChainInv, ScanPC
  <2> QED
    BY <2>2, <2>3, <2>4, <2>5, <2>6 DEF ChainInv
<1>6. CASE /\ \A b \in Bases : b > scan.cursor => at[b] = None
           /\ pc' = [pc EXCEPT ![p] = "finish"]
           /\ scan' = [scan EXCEPT !.lib = None, !.next = 1]
  <2>1. pc'[p] = "finish" /\ \A q \in Procs : q # p => pc[q] \notin ScanPC /\ pc'[q] = pc[q]
    BY <1>2, <1>6, MovesAlone
  <2>2. scan'.tree = scan.tree
    BY <1>2, <1>6 DEF Scan
  <2>3. ASSUME NEW b \in Bases, at[b] \in Libs PROVE Passed(p, b)
    <3>1. ~(b > scan.cursor)
      BY <1>6, <2>3
    <3> QED
      BY <1>1, <3>1, ScanNat DEF Passed
  <2> QED
    BY <1>5, <2>1, <2>2, <2>3
<1>7. ASSUME NEW b \in Bases, b > scan.cursor, at[b] \in Libs,
             \A c \in Bases : c > scan.cursor /\ c < b => at[c] = None,
             \/ /\ Match(at[b])
                /\ scan' = [scan EXCEPT !.cursor = b, !.lib = at[b], !.next = 1]
                /\ pc' = [pc EXCEPT ![p] = "header"]
             \/ /\ ~Match(at[b])
                /\ scan' = [scan EXCEPT !.cursor = b, !.lib = None, !.next = 1]
                /\ UNCHANGED pc
      PROVE  ChainInv'
  <2>1. /\ pc'[p] \in {"line", "header"}
        /\ \A q \in Procs : q # p => pc[q] \notin ScanPC /\ pc'[q] = pc[q]
    <3>1. pc' = [pc EXCEPT ![p] = "header"] \/ pc' = [pc EXCEPT ![p] = "line"]
      BY <1>1, <1>7 DEF TypeInv, ControlType
    <3> QED
      BY <1>2, <3>1, MovesAlone
  <2>2. scan'.tree = scan.tree /\ scan'.cursor = b
    BY <1>2, <1>7 DEF Scan
  <2>3. pc'[p] = "header" => Match(at[b]) /\ scan'.lib = at[b]
    BY <1>1, <1>2, <1>7 DEF Scan
  <2>4. pc'[p] # "header" => ~Match(at[b])
    BY <1>1, <1>7 DEF TypeInv, ControlType
  <2>5. ASSUME NEW c \in Bases, at[c] \in Libs, Match(at[c]), ~Passed(p, c)
        PROVE  ~Passed(p, c)'
    <3>1. c > scan.cursor
      BY <1>1, <2>5, ScanNat DEF Passed
    <3>2. ~(c < b)
      BY <1>7, <2>5, <3>1
    <3>3. c = b => pc'[p] = "header"
      BY <2>4, <2>5
    <3> QED
      BY <2>2, <3>2, <3>3 DEF Passed
  <2> QED
    BY <1>5, <1>7, <2>1, <2>2, <2>3, <2>5
<1> QED
  BY <1>6, <1>7, NextLineCases

\* The refresh goes on with the next line.
LEMMA LeaveChain ==
  ASSUME TypeInv, ChainInv, NEW p \in Procs, pc[p] \in {"header", "hook", "replace"},
         pc' = [pc EXCEPT ![p] = "line"],
         UNCHANGED <<at, slot, old, mapInfo, hookInfo, ignoreInfo, refreshMutex>>,
         scan'.cursor = scan.cursor, scan'.tree = scan.tree,
         ghost'.tainted = ghost.tainted,
         \A l \in Libs : pc[p] = "header" /\ ~ghost.tainted /\ Patched(l) =>
            at[scan.cursor] # l \/ scan.tree[l] = scan.cursor
  PROVE  ChainInv'
<1>1. Refreshing(p)
  BY DEF Refreshing
<1>2. pc'[p] = "line" /\ \A q \in Procs : q # p => pc[q] \notin ScanPC /\ pc'[q] = pc[q]
  BY <1>1, MovesAlone
<1>3. /\ \A l \in Libs : Patched(l)' <=> Patched(l)
      /\ \A l \in Libs : Match(l)' <=> Match(l)
  BY SameSlots, SameLists
<1>4. DistinctInv' /\ TreeInv' /\ FreshInv'
  BY <1>3 DEF ChainInv, DistinctInv, TreeInv, FreshInv
<1>5. HeaderInv' /\ OrderInv'
  BY <1>2 DEF HeaderInv, OrderInv, ScanPC
<1>6. LinkInv'
  BY <1>2, SameLinks DEF ChainInv, ScanPC
<1>7. KeptInv'
  <2> SUFFICES ASSUME ~ghost.tainted, NEW b \in Bases, NEW l \in Libs, at[b] = l, Patched(l)
               PROVE  /\ \E n \in 1..Len(hookInfo) : l \in hookInfo[n].libs
                      /\ Match(l) => KeptAt(l, b)'
    BY <1>3 DEF KeptInv
  <2>1. ASSUME Match(l) PROVE KeptAt(l, b)'
    <3>1. /\ refreshMutex = p /\ refreshMutex # None
          /\ \A q \in Procs : Refreshing(q)' => q = p
      BY <1>1, <1>2, OneRefresh DEF Refreshing, ScanPC
    <3>2. \/ scan.tree[l] = b
          \/ mapInfo[l] = b /\ ~Passed(p, b)
      BY <1>1, <2>1 DEF ChainInv, KeptInv, KeptAt
    <3>3. scan.tree[l] = b \/ ~Passed(p, b)'
      BY <1>2, <3>2 DEF Passed
    <3> QED
      BY <1>2, <3>1, <3>2, <3>3 DEF KeptAt
  <2> QED
    BY <2>1 DEF ChainInv, KeptInv
<1> QED
  BY <1>4, <1>5, <1>6, <1>7 DEF ChainInv

\* An access to memory that is not mapped any more.
LEMMA SegvChain ==
  ASSUME TypeInv, ChainInv, NEW p \in Procs, pc[p] \in {"header", "hook", "replace"},
         Segv(p), at[scan.cursor] = None,
         UNCHANGED <<at, slot, old, mapInfo, hookInfo, ignoreInfo, scan, refreshMutex>>
  PROVE  ChainInv'
<1>1. CASE pc' = [pc EXCEPT ![p] = "line"] /\ UNCHANGED ghost
  BY <1>1, LeaveChain
<1>2. CASE ghost' = [ghost EXCEPT !.crashed = TRUE] /\ UNCHANGED pc
  <2>1. ghost'.tainted = ghost.tainted
    BY <1>2 DEF TypeInv, FlagType, Ghost
  <2> QED
    BY <1>2, <2>1, FrameChain
<1> QED
  BY <1>1, <1>2, SegvCases

\* A library is kept where it is recorded; one that is not recorded there was not patched.
LEMMA HeaderChain ==
  ASSUME TypeInv, AtInv, ChainInv, NEW p \in Procs, CheckHeader(p)
  PROVE  ChainInv'
<1>1. /\ pc[p] = "header" /\ scan.lib \in Libs /\ scan.cursor \in Bases
      /\ UNCHANGED <<at, slot, old, hookInfo, ignoreInfo, refreshMutex>>
  BY CheckHeaderCases DEF lists, locks, memory
<1>2. PICK lib \in Libs, c \in Bases : lib = scan.lib /\ c = scan.cursor
  BY <1>1
<1>3. Refreshing(p) /\ scan \in Scan /\ c # Absent
  BY <1>1, ScanNat DEF Refreshing, TypeInv, ScanInv, Absent
<1>4. ASSUME ~ghost.tainted, NEW l \in Libs, at[c] = l, Patched(l)
      PROVE  l = lib /\ (scan.tree[l] = c \/ mapInfo[l] = c)
  BY <1>1, <1>2, <1>4 DEF ChainInv, HeaderInv, RecordedAt
<1>5. CASE at[c] = None /\ Segv(p) /\ UNCHANGED <<scan, mapInfo>>
  BY <1>1, <1>2, <1>5, SegvChain
<1>6. CASE scan.tree[lib] # Absent /\ pc' = [pc EXCEPT ![p] = "line"]
           /\ UNCHANGED <<scan, mapInfo, ghost>>
  <2>1. mapInfo[lib] # c
    BY <1>3, <1>6 DEF ChainInv, TreeInv
  <2>2. \A l \in Libs : ~ghost.tainted /\ Patched(l) => at[c] # l \/ scan.tree[l] = c
    BY <1>4, <2>1
  <2> QED
    BY <1>1, <1>2, <1>6, <2>2, LeaveChain
<1>7. CASE scan.tree[lib] = Absent /\ mapInfo[lib] = Absent
           /\ Disturb /\ pc' = [pc EXCEPT ![p] = "line"]
           /\ UNCHANGED <<mapInfo, ghost>>
  <2>1. scan'.cursor = scan.cursor /\ scan'.tree = scan.tree
    BY <1>3, <1>7 DEF Disturb, Scan
  <2>2. \A l \in Libs : ~ghost.tainted /\ Patched(l) => at[c] # l \/ scan.tree[l] = c
    BY <1>3, <1>4, <1>7
  <2> QED
    BY <1>1, <1>2, <1>7, <2>1, <2>2, LeaveChain
<1>8. CASE /\ scan.tree[lib] = Absent
           /\ scan' = [scan EXCEPT !.tree = [@ EXCEPT ![lib] = c]]
           /\ mapInfo' = [mapInfo EXCEPT ![lib] = Absent]
           /\ \/ /\ Known(lib)
                 /\ pc' = [pc EXCEPT ![p] = "line"] /\ UNCHANGED ghost
              \/ /\ ~Known(lib)
                 /\ pc' = [pc EXCEPT ![p] = "hook"]
                 /\ ghost' = [ghost EXCEPT !.reloaded = @ \ {lib}]
  <2>1. /\ pc'[p] \in {"line", "hook"} /\ (pc'[p] = "hook" => ~Known(lib))
        /\ \A q \in Procs : q # p => pc[q] \notin ScanPC /\ pc'[q] = pc[q]
    BY <1>3, <1>8, MovesAlone
  <2>2. ghost'.tainted = ghost.tainted
    BY <1>8 DEF TypeInv, FlagType, Ghost
  <2>3. /\ scan'.cursor = c /\ scan'.tree[lib] = c /\ mapInfo'[lib] = Absent
        /\ \A l \in Libs : l # lib => scan'.tree[l] = scan.tree[l] /\ mapInfo'[l] = mapInfo[l]
    BY <1>2, <1>3, <1>8 DEF Scan, TypeInv, MemoryType
  <2>4. /\ \A l \in Libs : Patched(l)' <=> Patched(l)
        /\ \A l \in Libs : Match(l)' <=> Match(l)
    BY <1>1, SameSlots, SameLists
  <2>5. DistinctInv' /\ TreeInv' /\ FreshInv'
    BY <1>1, <2>3, <2>4 DEF ChainInv, DistinctInv, TreeInv, FreshInv
  <2>6. HeaderInv'
    BY <2>1 DEF HeaderInv, ScanPC
  <2>7. OrderInv'
    <3> SUFFICES ASSUME ~ghost.tainted, NEW l \in Libs, pc'[p] = "hook", at[c] = l, Patched(l)
                 PROVE  FALSE
      BY <1>1, <2>1, <2>2, <2>3, <2>4 DEF OrderInv, ScanPC
    <3>1. l = lib /\ (scan.tree[l] = c \/ mapInfo[l] = c)
      BY <1>4
    <3> QED
      BY <1>2, <1>3, <1>8, <2>1, <3>1 DEF Known
  <2>8. KeptInv'
    <3> SUFFICES ASSUME ~ghost.tainted, NEW b \in Bases, NEW l \in Libs, at[b] = l, Patched(l)
                 PROVE  /\ \E n \in 1..Len(hookInfo) : l \in hookInfo[n].libs
                        /\ Match(l) => KeptAt(l, b)'
      BY <1>1, <2>2, <2>4 DEF KeptInv
    <3>1. ASSUME Match(l) PROVE KeptAt(l, b)'
      <4>1. /\ refreshMutex = p /\ refreshMutex # None
            /\ \A q \in Procs : Refreshing(q)' => q = p
        BY <1>3, <2>1, OneRefresh DEF Refreshing, ScanPC
      <4>2. CASE l = lib
        <5>1. at[c] = lib
          BY <1>1, <1>2, <4>2 DEF ChainInv, HeaderInv
        <5>2. b = c
          BY <4>2, <5>1 DEF AtInv
        <5> QED
          BY <1>1, <2>3, <4>1, <4>2, <5>2 DEF KeptAt
      <4>3. CASE l # lib
        <5>1. b # c
          BY <1>4, <4>3
        <5>2. \/ scan.tree[l] = b
              \/ mapInfo[l] = b /\ ~Passed(p, b)
          BY <1>3, <3>1 DEF ChainInv, KeptInv, KeptAt
        <5>3. ~Passed(p, b) => ~Passed(p, b)'
          BY <1>2, <2>3, <5>1 DEF Passed
        <5> QED
          BY <1>1, <2>1, <2>3, <4>1, <4>3, <5>2, <5>3 DEF KeptAt
      <4> QED
        BY <4>2, <4>3
    <3> QED
      BY <3>1 DEF ChainInv, KeptInv
  <2>9. LinkInv'
    BY <1>1, <2>1, <2>2, SameLinks DEF ChainInv, ScanPC
  <2> QED
    BY <2>5, <2>6, <2>7, <2>8, <2>9 DEF ChainInv
<1> QED
  BY <1>2, <1>5, <1>6, <1>7, <1>8, CheckHeaderCases

\* The refresh goes on with the library in hand.
LEMMA StayChain ==
  ASSUME TypeInv, AtInv, HandInv, ChainInv, NEW p \in Procs, pc[p] \in {"hook", "replace"},
         pc'[p] \in {"hook", "replace"}, \A q \in Procs : q # p => pc'[q] = pc[q],
         UNCHANGED <<at, mapInfo, hookInfo, ignoreInfo, refreshMutex>>,
         scan'.tree = scan.tree, scan'.cursor = scan.cursor,
         ghost.tainted => ghost'.tainted,
         \A l \in Libs : Patched(l)' =>
            \/ Patched(l)
            \/ /\ at[scan.cursor] = l
               /\ ~ghost'.tainted =>
                     /\ l = scan.lib
                     /\ \E n \in 1..Len(hookInfo) : l \in hookInfo[n].libs,
         OrderInv', LinkInv'
  PROVE  ChainInv'
<1>1. /\ Refreshing(p) /\ refreshMutex = p /\ refreshMutex # None
      /\ \A q \in Procs : q # p => ~Refreshing(q)
  BY OneRefresh DEF Refreshing
<1>2. scan.cursor \in Bases /\ scan.lib \in Libs
  BY DEF TypeInv, ScanInv
<1>3. DistinctInv' /\ TreeInv'
  BY DEF ChainInv, DistinctInv, TreeInv
<1>4. FreshInv'
  BY <1>2 DEF ChainInv, FreshInv
<1>5. HeaderInv'
  BY <1>1 DEF HeaderInv, Refreshing
<1>6. KeptInv'
  <2> SUFFICES ASSUME ~ghost'.tainted, NEW b \in Bases, NEW l \in Libs, at[b] = l, Patched(l)'
               PROVE  /\ \E n \in 1..Len(hookInfo) : l \in hookInfo[n].libs
                      /\ Match(l) => KeptAt(l, b)'
    BY SameLists DEF KeptInv
  <2>1. \A q \in Procs : Refreshing(q)' => q = p
    BY <1>1 DEF Refreshing
  <2>2. CASE Patched(l)
    <3>1. ASSUME Match(l) PROVE KeptAt(l, b)'
      <4>1. scan.tree[l] = b \/ (mapInfo[l] = b /\ ~Passed(p, b))
        BY <1>1, <2>2, <3>1 DEF ChainInv, KeptInv, KeptAt
      <4>2. ~Passed(p, b) => ~Passed(p, b)'
        BY DEF Passed
      <4> QED
        BY <1>1, <2>1, <4>1, <4>2 DEF KeptAt
    <3> QED
      BY <2>2, <3>1 DEF ChainInv, KeptInv
  <2>3. CASE ~Patched(l)
    <3>1. /\ at[scan.cursor] = l /\ l = scan.lib
          /\ \E n \in 1..Len(hookInfo) : l \in hookInfo[n].libs
      BY <2>3
    <3>2. b = scan.cursor
      <4>1. at[b] = at[scan.cursor] /\ at[b] # None
        BY <3>1
      <4>2. \A c \in Bases : at[b] = at[c] /\ at[b] # None => b = c
        BY DEF AtInv
      <4> QED
        BY <1>2, <4>1, <4>2
    <3>3. scan.tree[l] = b
      BY <3>1, <3>2 DEF HandInv
    <3> QED
      BY <1>1, <2>1, <3>1, <3>3 DEF KeptAt
  <2> QED
    BY <2>2, <2>3
<1> QED
  BY <1>3, <1>4, <1>5, <1>6 DEF ChainInv

\* What is saved for a registration is the original function or an earlier registration.
LEMMA SaveChain ==
  ASSUME TypeInv, AtInv, HandInv, ChainInv, NEW p \in Procs, SaveOld(p)
  PROVE  ChainInv'
<1>1. /\ pc[p] = "hook"
      /\ UNCHANGED <<at, slot, mapInfo, hookInfo, ignoreInfo, refreshMutex>>
  BY SaveOldCases DEF lists, locks
<1>2. Refreshing(p) /\ scan \in Scan
  BY <1>1 DEF Refreshing, TypeInv, ScanInv
<1>3. \A q \in Procs : q # p => pc[q] \notin ScanPC
  BY <1>2, OneRefresh DEF Refreshing, ScanPC
<1>4. \A l \in Libs : Patched(l)' <=> Patched(l)
  BY <1>1, SameSlots
<1>5. CASE pc' = [pc EXCEPT ![p] = "line"] /\ UNCHANGED <<scan, old, ghost>>
  BY <1>1, <1>5, LeaveChain
<1>6. CASE at[scan.cursor] = None /\ Segv(p) /\ UNCHANGED <<scan, old>>
  BY <1>1, <1>6, SegvChain
<1>7. ASSUME NEW n \in Remaining, n \in 1..Len(hookInfo), scan' = [scan EXCEPT !.next = n],
             UNCHANGED ghost
      PROVE  /\ scan'.next = n /\ scan'.tree = scan.tree
             /\ scan'.cursor = scan.cursor /\ scan'.lib = scan.lib
             /\ scan.next <= n
  <2>1. n >= scan.next
    BY DEF Remaining
  <2> QED
    BY <1>2, <1>7, <2>1 DEF Scan
<1>8. ASSUME NEW n \in Nat, scan.next <= n, scan'.next = n, scan'.cursor = scan.cursor,
             scan'.lib = scan.lib, UNCHANGED ghost
      PROVE  OrderInv'
  <2> SUFFICES ASSUME ~ghost.tainted, NEW l \in Libs, at[scan.cursor] = l, Patched(l)
               PROVE  l = scan.lib /\ HeldBelow(l, n)'
    BY <1>1, <1>4, <1>8 DEF OrderInv, HeldBelow
  <2>1. l = scan.lib /\ HeldBelow(l, scan.next)
    BY <1>1 DEF ChainInv, OrderInv
  <2>2. scan.next \in Nat /\ Len(hookInfo) \in Nat
    BY <1>2 DEF Scan, TypeInv, ListType
  <2> QED
    BY <1>1, <1>8, <2>1, <2>2 DEF HeldBelow
<1>9. ASSUME NEW n \in Remaining, n \in 1..Len(hookInfo), at[scan.cursor] \in Libs,
             scan' = [scan EXCEPT !.next = n + 1], UNCHANGED <<old, pc, ghost>>
      PROVE  ChainInv'
  <2>1. /\ scan'.next = n + 1 /\ scan'.tree = scan.tree /\ scan'.cursor = scan.cursor
        /\ scan'.lib = scan.lib /\ scan.next <= n + 1 /\ n + 1 \in Nat
    <3>1. n >= scan.next /\ n \in Nat /\ scan.next \in Nat
      BY <1>2, <1>9 DEF Remaining, Scan
    <3> QED
      BY <1>2, <1>9, <3>1 DEF Scan
  <2>2. OrderInv'
    BY <1>8, <1>9, <2>1
  <2>3. LinkInv'
    <3>1. \A q \in Procs : pc'[q] # "replace"
      BY <1>1, <1>3, <1>9 DEF ScanPC
    <3> QED
      BY <1>1, <1>9, <3>1, SameLinks DEF ChainInv
  <2> QED
    BY <1>1, <1>4, <1>9, <2>1, <2>2, <2>3, StayChain
<1>10. ASSUME NEW n \in Remaining, n \in 1..Len(hookInfo), at[scan.cursor] \in Libs,
              old' = [old EXCEPT ![hookInfo[n]] = slot[at[scan.cursor]][hookInfo[n].sym]],
              scan' = [scan EXCEPT !.next = n], pc' = [pc EXCEPT ![p] = "replace"],
              UNCHANGED ghost
       PROVE  ChainInv'
  <2>1. /\ scan'.next = n /\ scan'.tree = scan.tree
        /\ scan'.cursor = scan.cursor /\ scan'.lib = scan.lib /\ scan.next <= n
    BY <1>7, <1>10
  <2>2. pc'[p] = "replace" /\ \A q \in Procs : q # p => pc'[q] = pc[q]
    BY <1>2, <1>10, MovesAlone
  <2>3. n \in Nat /\ Len(hookInfo) \in Nat /\ scan.next \in Nat
    BY <1>2, <1>10 DEF TypeInv, ListType, Scan
  <2>4. OrderInv'
    BY <1>8, <1>10, <2>1, <2>3
  <2>5. LinkInv'
    <3> SUFFICES ASSUME ~ghost.tainted
                 PROVE  \E G \in SUBSET (1..Len(hookInfo)) : Closed(G)'
      BY <1>1, <1>10 DEF LinkInv
    <3>1. PICK G \in SUBSET (1..Len(hookInfo)) : Closed(G)
      BY DEF ChainInv, LinkInv
    <3> DEFINE l == at[scan.cursor]
               v == slot[l][hookInfo[n].sym]
    <3>2. hookInfo[n] \in Hooks /\ hookInfo[n].sym \in Syms
      BY <1>10, HookAt
    <3>3. ASSUME v # Original PROVE \E m \in G : m < n /\ v = hookInfo[m]
      <4>1. Patched(l)
        BY <3>2, <3>3 DEF Patched
      <4>2. HeldBelow(l, scan.next)
        BY <1>1, <1>10, <4>1 DEF ChainInv, OrderInv
      <4>3. PICK m \in 1..Len(hookInfo) : m < scan.next /\ v = hookInfo[m]
        BY <3>2, <3>3, <4>2 DEF HeldBelow
      <4>4. PICK k \in G : v = hookInfo[k]
        BY <1>10, <3>1, <3>2, <3>3 DEF Closed
      <4>5. m = k
        BY <4>3, <4>4 DEF ChainInv, DistinctInv
      <4> QED
        BY <2>1, <2>3, <4>3, <4>4, <4>5
    <3>4. ASSUME NEW x \in G \cup {n}
          PROVE  \/ old'[hookInfo[x]] = Original
                 \/ \E m \in G \cup {n} : m < x /\ old'[hookInfo[x]] = hookInfo[m]
      <4>1. CASE x = n
        <5>1. old'[hookInfo[n]] = v
          BY <1>10, <3>2 DEF TypeInv, MemoryType
        <5> HIDE DEF v
        <5> QED
          BY <3>3, <4>1, <5>1
      <4>2. CASE x # n
        <5>1. x \in G /\ hookInfo[x] \in Hooks /\ hookInfo[x] # hookInfo[n]
          BY <1>10, <3>1, <4>2, HookAt DEF ChainInv, DistinctInv
        <5>2. old'[hookInfo[x]] = old[hookInfo[x]]
          BY <1>10, <5>1 DEF TypeInv, MemoryType
        <5> QED
          BY <3>1, <5>1, <5>2 DEF Closed
      <4> QED
        BY <4>1, <4>2
    <3>5. \A q \in Procs : pc'[q] = "replace" => q = p
      BY <1>3, <2>2 DEF ScanPC
    <3>6. Closed(G \cup {n})'
      BY <1>1, <2>1, <3>1, <3>4, <3>5 DEF Closed
    <3>7. G \cup {n} \in SUBSET (1..Len(hookInfo))
      BY <1>10, <3>1
    <3> QED
      BY <3>6, <3>7
  <2> QED
    BY <1>1, <1>4, <1>10, <2>1, <2>2, <2>4, <2>5, StayChain
<1> QED
  BY <1>5, <1>6, <1>9, <1>10, SaveOldCases

\* The registration that is stored comes after those that the library holds.
LEMMA StoreChain ==
  ASSUME TypeInv, AtInv, HandInv, ChainInv, NEW p \in Procs, Replace(p)
  PROVE  ChainInv'
<1>1. /\ pc[p] = "replace" /\ scan.next \in 1..Len(hookInfo)
      /\ UNCHANGED <<at, old, mapInfo, hookInfo, ignoreInfo, refreshMutex>>
  BY ReplaceCases DEF lists, locks
<1>2. /\ Refreshing(p) /\ scan \in Scan
      /\ scan.cursor \in Bases /\ scan.lib \in Libs
  BY <1>1 DEF Refreshing, TypeInv, ScanInv
<1>3. CASE at[scan.cursor] = None /\ Segv(p) /\ UNCHANGED <<scan, slot>>
  BY <1>1, <1>3, SegvChain
<1>4. ASSUME NEW here \in Libs, here = at[scan.cursor], NEW n, n = scan.next,
             NEW h \in Hooks, h = hookInfo[n], h.sym \in Syms,
             slot' = [slot EXCEPT ![here] = [@ EXCEPT ![h.sym] = h]],
             scan' = [scan EXCEPT !.next = n + 1],
             ghost' = [ghost EXCEPT !.tainted = @ \/ here # scan.lib],
             pc' = [pc EXCEPT ![p] = "hook"]
      PROVE  ChainInv'
  <2>1. /\ scan'.next = n + 1 /\ scan'.tree = scan.tree
        /\ scan'.cursor = scan.cursor /\ scan'.lib = scan.lib
    BY <1>2, <1>4 DEF Scan
  <2>2. pc'[p] = "hook" /\ \A q \in Procs : q # p => pc[q] \notin ScanPC /\ pc'[q] = pc[q]
    BY <1>2, <1>4, MovesAlone
  <2>3. n \in Nat /\ n < n + 1 /\ n \in 1..Len(hookInfo) /\ Len(hookInfo) \in Nat
    BY <1>1, <1>4 DEF TypeInv, ListType
  <2>4. ghost'.tainted <=> ghost.tainted \/ here # scan.lib
    BY <1>4 DEF TypeInv, FlagType, Ghost
  <2>5. /\ slot'[here][h.sym] = h
        /\ \A l \in Libs, s \in Syms : l # here \/ s # h.sym => slot'[l][s] = slot[l][s]
    BY <1>4 DEF TypeInv, MemoryType
  <2>6. \A l \in Libs : Patched(l)' => Patched(l) \/ l = here
    BY <2>5 DEF Patched
  <2>7. scan.lib \in hookInfo[n].libs
    BY <1>1, <1>4 DEF HandInv
  <2>8. OrderInv'
    <3> SUFFICES ASSUME ~ghost'.tainted PROVE here = scan.lib /\ HeldBelow(here, n + 1)'
      BY <1>1, <1>4, <2>1 DEF OrderInv, HeldBelow
    <3>1. ASSUME NEW s \in Syms, slot'[here][s] # Original
          PROVE  \E m \in 1..Len(hookInfo) : m < n + 1 /\ slot'[here][s] = hookInfo[m]
      <4>1. CASE s = h.sym
        BY <1>4, <2>3, <2>5, <4>1
      <4>2. CASE s # h.sym
        <5>1. slot'[here][s] = slot[here][s]
          BY <2>5, <4>2
        <5>2. Patched(here)
          BY <3>1, <5>1 DEF Patched
        <5>3. HeldBelow(here, n)
          BY <1>1, <1>4, <2>4, <5>2 DEF ChainInv, OrderInv
        <5> QED
          BY <2>3, <3>1, <5>1, <5>3 DEF HeldBelow
      <4> QED
        BY <4>1, <4>2
    <3> QED
      BY <1>1, <2>4, <3>1 DEF HeldBelow
  <2>9. LinkInv'
    <3> SUFFICES ASSUME ~ghost.tainted
                 PROVE  \E G \in SUBSET (1..Len(hookInfo)) : Closed(G)'
      BY <1>1, <2>4 DEF LinkInv
    <3>1. PICK G \in SUBSET (1..Len(hookInfo)) : Closed(G)
      BY DEF ChainInv, LinkInv
    <3>2. n \in G
      BY <1>1, <1>4, <3>1 DEF Closed
    <3>3. ASSUME NEW l \in Libs, NEW s \in Syms, slot'[l][s] # Original
          PROVE  \E m \in G : slot'[l][s] = hookInfo[m]
      <4>1. CASE l = here /\ s = h.sym
        BY <1>4, <2>5, <3>2, <4>1
      <4>2. CASE l # here \/ s # h.sym
        BY <2>5, <3>1, <3>3, <4>2 DEF Closed
      <4> QED
        BY <4>1, <4>2
    <3>4. \A q \in Procs : pc'[q] # "replace"
      BY <2>2 DEF ScanPC
    <3>5. Closed(G)'
      BY <1>1, <3>1, <3>3, <3>4 DEF Closed
    <3> QED
      BY <3>5
  <2> QED
    BY <1>1, <1>4, <2>1, <2>2, <2>3, <2>4, <2>6, <2>7, <2>8, <2>9, StayChain
<1>5. hookInfo[scan.next] \in Hooks /\ hookInfo[scan.next].sym \in Syms
  BY <1>1, HookAt
<1>6. scan.next \in Nat
  BY <1>2 DEF Scan
<1>7. CASE at[scan.cursor] # None
  <2>1. /\ at[scan.cursor] \in Libs
        /\ slot' = [slot EXCEPT ![at[scan.cursor]] =
                       [@ EXCEPT ![hookInfo[scan.next].sym] = hookInfo[scan.next]]]
        /\ scan' = [scan EXCEPT !.next = @ + 1]
        /\ ghost' = [ghost EXCEPT !.tainted = @ \/ at[scan.cursor] # scan.lib]
        /\ pc' = [pc EXCEPT ![p] = "hook"]
    BY <1>7, ReplaceCases
  <2> QED
    BY <1>2, <1>4, <1>5, <2>1 DEF Scan
<1> QED
  BY <1>3, <1>7, ReplaceCases

\* The new tree takes the place of the old one.
LEMMA FinishChain ==
  ASSUME TypeInv, ChainInv, NEW p \in Procs, Finish(p)
  PROVE  ChainInv'
<1>1. /\ pc[p] = "finish" /\ mapInfo' = scan.tree /\ scan' = NoLine /\ refreshMutex' = None
      /\ UNCHANGED <<at, slot, old, hookInfo, ignoreInfo, ghost>>
      /\ pc' = [pc EXCEPT ![p] = Return(p)]
  BY DEF Finish, Goto, memory, lists
<1>2. Refreshing(p) /\ Return(p) \notin ScanPC
  BY <1>1 DEF Refreshing, Return, ScanPC
<1>3. \A q \in Procs : ~Refreshing(q)' /\ pc'[q] \notin ScanPC
  BY <1>1, <1>2, MovesAlone DEF Refreshing, ScanPC
<1>4. /\ \A l \in Libs : Patched(l)' <=> Patched(l)
      /\ \A l \in Libs : Match(l)' <=> Match(l)
  BY <1>1, SameSlots, SameLists
<1>5. DistinctInv' /\ TreeInv' /\ FreshInv'
  BY <1>1, <1>4 DEF ChainInv, DistinctInv, TreeInv, FreshInv, NoLine
<1>6. HeaderInv' /\ OrderInv'
  BY <1>3 DEF HeaderInv, OrderInv, ScanPC
<1>7. KeptInv'
  <2> SUFFICES ASSUME ~ghost.tainted, NEW b \in Bases, NEW l \in Libs, at[b] = l, Patched(l)
               PROVE  /\ \E n \in 1..Len(hookInfo) : l \in hookInfo[n].libs
                      /\ Match(l) => KeptAt(l, b)'
    BY <1>1, <1>4 DEF KeptInv
  <2>1. ASSUME Match(l) PROVE KeptAt(l, b)'
    <3>1. scan.tree[l] = b
      BY <1>1, <1>2, <2>1 DEF ChainInv, KeptInv, KeptAt
    <3> QED
      BY <1>1, <1>3, <3>1 DEF KeptAt
  <2> QED
    BY <2>1 DEF ChainInv, KeptInv
<1>8. LinkInv'
  BY <1>1, <1>3, SameLinks DEF ChainInv, ScanPC
<1> QED
  BY <1>5, <1>6, <1>7, <1>8 DEF ChainInv

\* A library is mapped or unmapped: its slots are as the linker leaves them.
LEMMA LinkerChain ==
  ASSUME TypeInv, ChainInv, NEW x \in Libs,
         Disturb, UNCHANGED <<old, mapInfo, hookInfo, ignoreInfo, refreshMutex, pc>>,
         ghost'.tainted = ghost.tainted,
         slot' = [slot EXCEPT ![x] = [s \in Syms |-> Original]],
         \A b \in Bases, l \in Libs : l # x => (at'[b] = l <=> at[b] = l)
  PROVE  ChainInv'
<1>1. /\ scan'.cursor = scan.cursor /\ scan'.lib = scan.lib
      /\ scan'.next = scan.next /\ scan'.tree = scan.tree
  BY DEF Disturb, TypeInv, ScanInv, Scan
<1>2. /\ \A s \in Syms : slot'[x][s] = Original
      /\ \A l \in Libs : l # x => slot'[l] = slot[l]
  BY DEF TypeInv, MemoryType
<1>3. \A l \in Libs : Patched(l)' => l # x /\ Patched(l)
  BY <1>2 DEF Patched
<1>4. \A l \in Libs : Match(l)' <=> Match(l)
  BY SameLists
<1>5. \A p \in Procs : pc[p] \in {"header", "hook", "replace"} => scan.cursor \in Bases
  BY DEF TypeInv, ScanInv
<1>6. DistinctInv' /\ TreeInv'
  BY <1>1 DEF ChainInv, DistinctInv, TreeInv
<1>7. FreshInv'
  BY <1>3 DEF ChainInv, FreshInv
<1>8. HeaderInv'
  <2> SUFFICES ASSUME ~ghost.tainted, NEW p \in Procs, NEW l \in Libs, pc[p] = "header",
                      Patched(l)', NEW c, c = scan.cursor
               PROVE  /\ at'[c] = l => l = scan.lib
                      /\ l = scan.lib => at'[c] = l /\ RecordedAt(l, c)
    BY <1>1 DEF HeaderInv, RecordedAt
  <2>1. l # x /\ Patched(l) /\ c \in Bases
    BY <1>3, <1>5
  <2>2. at'[c] = l <=> at[c] = l
    BY <2>1
  <2> QED
    BY <2>1, <2>2 DEF ChainInv, HeaderInv
<1>9. OrderInv'
  <2> SUFFICES ASSUME ~ghost.tainted, NEW p \in Procs, NEW l \in Libs,
                      pc[p] \in {"hook", "replace"}, at'[scan.cursor] = l, Patched(l)',
                      NEW k, k = scan.next
               PROVE  l = scan.lib /\ HeldBelow(l, k)'
    BY <1>1 DEF OrderInv, HeldBelow
  <2>1. l # x /\ Patched(l) /\ at[scan.cursor] = l
    <3>1. l # x /\ Patched(l)
      BY <1>3
    <3>2. scan.cursor \in Bases
      BY <1>5
    <3> QED
      BY <3>1, <3>2
  <2>2. l = scan.lib /\ HeldBelow(l, k)
    BY <2>1 DEF ChainInv, OrderInv
  <2> QED
    BY <1>2, <2>1, <2>2 DEF HeldBelow
<1>10. KeptInv'
  <2> SUFFICES ASSUME ~ghost.tainted, NEW b \in Bases, NEW l \in Libs, at'[b] = l, Patched(l)'
               PROVE  /\ \E n \in 1..Len(hookInfo) : l \in hookInfo[n].libs
                      /\ Match(l) => KeptAt(l, b)'
    BY <1>4 DEF KeptInv
  <2>1. Patched(l) /\ at[b] = l
    BY <1>3
  <2>2. KeptAt(l, b) => KeptAt(l, b)'
    BY <1>1 DEF KeptAt, Passed, Refreshing
  <2> QED
    BY <2>1, <2>2 DEF ChainInv, KeptInv
<1>11. LinkInv'
  <2> SUFFICES ASSUME ~ghost.tainted PROVE \E G \in SUBSET (1..Len(hookInfo)) : Closed(G)'
    BY DEF LinkInv
  <2>1. PICK G \in SUBSET (1..Len(hookInfo)) : Closed(G)
    BY DEF ChainInv, LinkInv
  <2>2. ASSUME NEW l \in Libs, NEW s \in Syms, slot'[l][s] # Original
        PROVE  \E n \in G : slot'[l][s] = hookInfo[n]
    BY <1>2, <2>1, <2>2 DEF Closed
  <2>3. Closed(G)'
    BY <1>1, <2>1, <2>2 DEF Closed
  <2> QED
    BY <2>3
<1> QED
  BY <1>6, <1>7, <1>8, <1>9, <1>10, <1>11 DEF ChainInv

\* dlopen maps a library that was not mapped, at a free address.
LEMMA LoadChain ==
  ASSUME TypeInv, ChainInv, NEW x \in Libs, NEW a \in Bases, Dlopen(x, a)
  PROVE  ChainInv'
<1>1. /\ x \notin Mapped /\ at[a] = None /\ Disturb
      /\ at' = [at EXCEPT ![a] = x]
      /\ slot' = [slot EXCEPT ![x] = [s \in Syms |-> Original]]
      /\ UNCHANGED <<hookInfo, ignoreInfo, mapInfo, refreshMutex, pc, old>>
  BY DEF Dlopen, lists, locks
<1>2. ghost'.tainted = ghost.tainted
  BY DEF Dlopen, TypeInv, FlagType, Ghost
<1>3. ASSUME NEW b \in Bases, NEW l \in Libs, l # x PROVE at'[b] = l <=> at[b] = l
  <2>1. l # None
    OBVIOUS
  <2> QED
    BY <1>1, <1>3, <2>1 DEF TypeInv, MemoryType
<1> QED
  BY <1>1, <1>2, <1>3, LinkerChain

\* dlclose takes a library, and what was patched in it, away.
LEMMA UnloadChain ==
  ASSUME TypeInv, ChainInv, NEW a \in Bases, Dlclose(a)
  PROVE  ChainInv'
<1>1. /\ at[a] # None /\ Disturb /\ at' = [at EXCEPT ![a] = None]
      /\ slot' = [slot EXCEPT ![at[a]] = [s \in Syms |-> Original]]
      /\ UNCHANGED <<hookInfo, ignoreInfo, mapInfo, refreshMutex, pc, ghost, old>>
  BY DEF Dlclose, lists, locks
<1>2. PICK x \in Libs : at[a] = x
  BY <1>1 DEF TypeInv, MemoryType
<1>3. ASSUME NEW b \in Bases, NEW l \in Libs, l # x PROVE at'[b] = l <=> at[b] = l
  <2>1. l # None
    OBVIOUS
  <2> QED
    BY <1>1, <1>2, <1>3, <2>1 DEF TypeInv, MemoryType
<1> QED
  BY <1>1, <1>2, <1>3, LinkerChain

\* Every step keeps the chains.
LEMMA NextChain ==
  ASSUME TypeInv, RefreshInv, ChainInv, [Next]_vars
  PROVE  ChainInv'
<1>1. ASSUME NEW t \in Threads, CallRegister(t, "register") PROVE ChainInv'
  <2>1. UNCHANGED <<at, slot, old, mapInfo, scan, hookInfo, ignoreInfo, refreshMutex>>
    BY <1>1 DEF CallRegister, lists, memory, locks
  <2>2. ghost.tainted => ghost'.tainted
    BY <1>1 DEF CallRegister, Call, TypeInv, FlagType, Ghost
  <2>3. \A p \in Procs : pc'[p] = pc[p] \/ (~Refreshing(p) /\ ~Refreshing(p)')
    BY <1>1
       DEF CallRegister, Call, Goto, Refreshing, Idle, TypeInv, ControlType, Procs,
           WorkerPC, ScanPC
  <2> QED
    BY <2>1, <2>2, <2>3, FrameChain
<1>2. ASSUME NEW t \in Threads, CallRegister(t, "ignore") PROVE ChainInv'
  <2>1. UNCHANGED <<at, slot, old, mapInfo, scan, hookInfo, ignoreInfo, refreshMutex>>
    BY <1>2 DEF CallRegister, lists, memory, locks
  <2>2. ghost.tainted => ghost'.tainted
    BY <1>2 DEF CallRegister, Call, TypeInv, FlagType, Ghost
  <2>3. \A p \in Procs : pc'[p] = pc[p] \/ (~Refreshing(p) /\ ~Refreshing(p)')
    BY <1>2
       DEF CallRegister, Call, Goto, Refreshing, Idle, TypeInv, ControlType, Procs,
           WorkerPC, ScanPC
  <2> QED
    BY <2>1, <2>2, <2>3, FrameChain
<1>3. ASSUME NEW t \in Threads, NEW a \in BOOLEAN, CallRefresh(t, a) PROVE ChainInv'
  <2>1. UNCHANGED <<at, slot, old, mapInfo, scan, hookInfo, ignoreInfo, refreshMutex>>
    BY <1>3 DEF CallRefresh, lists, memory, locks
  <2>2. ghost.tainted => ghost'.tainted
    BY <1>3 DEF CallRefresh, Call, TypeInv, FlagType, Ghost
  <2>3. \A p \in Procs : pc'[p] = pc[p] \/ (~Refreshing(p) /\ ~Refreshing(p)')
    BY <1>3
       DEF CallRefresh, Call, Spend, Goto, Refreshing, Idle, TypeInv, ControlType, Procs,
           WorkerPC, ScanPC
  <2> QED
    BY <2>1, <2>2, <2>3, FrameChain
<1>4. ASSUME NEW t \in Threads, CallClear(t) PROVE ChainInv'
  <2>1. UNCHANGED <<at, slot, old, mapInfo, scan, hookInfo, ignoreInfo, refreshMutex>>
    BY <1>4 DEF CallClear, lists, memory, locks
  <2>2. ghost.tainted => ghost'.tainted
    BY <1>4 DEF CallClear, Call, TypeInv, FlagType, Ghost
  <2>3. \A p \in Procs : pc'[p] = pc[p] \/ (~Refreshing(p) /\ ~Refreshing(p)')
    BY <1>4
       DEF CallClear, Call, Spend, Goto, Refreshing, Idle, TypeInv, ControlType, Procs,
           WorkerPC, ScanPC
  <2> QED
    BY <2>1, <2>2, <2>3, FrameChain
<1>5. ASSUME NEW t \in Threads, NEW on \in BOOLEAN, EnableSigsegvProtection(t, on) PROVE ChainInv'
  <2>1. UNCHANGED <<at, slot, old, mapInfo, scan, hookInfo, ignoreInfo, refreshMutex>>
    BY <1>5 DEF EnableSigsegvProtection, lists, memory, locks
  <2>2. ghost.tainted => ghost'.tainted
    BY <1>5 DEF EnableSigsegvProtection, TypeInv, FlagType, Ghost
  <2>3. \A p \in Procs : pc'[p] = pc[p] \/ (~Refreshing(p) /\ ~Refreshing(p)')
    BY <1>5
       DEF EnableSigsegvProtection, Spend, Goto, Refreshing, Idle, TypeInv, ControlType,
           Procs, WorkerPC, ScanPC
  <2> QED
    BY <2>1, <2>2, <2>3, FrameChain
<1>6. ASSUME NEW t \in Threads, NEW h \in Hooks, Register(t, h) PROVE ChainInv'
  BY <1>6, RegisterChain
<1>7. ASSUME NEW t \in Threads, NEW i \in Ignores, Ignore(t, i) PROVE ChainInv'
  BY <1>7, IgnoreChain
<1>8. ASSUME NEW t \in Threads, RegisterFails(t) PROVE ChainInv'
  <2>1. UNCHANGED <<at, slot, old, mapInfo, scan, hookInfo, ignoreInfo, refreshMutex>>
    BY <1>8 DEF RegisterFails, lists, memory, locks
  <2>2. ghost.tainted => ghost'.tainted
    BY <1>8 DEF RegisterFails, TypeInv, FlagType, Ghost
  <2>3. \A p \in Procs : pc'[p] = pc[p] \/ (~Refreshing(p) /\ ~Refreshing(p)')
    BY <1>8
       DEF RegisterFails, Goto, Refreshing, Idle, TypeInv, ControlType, Procs, WorkerPC,
           ScanPC
  <2> QED
    BY <2>1, <2>2, <2>3, FrameChain
<1>9. ASSUME NEW t \in Threads, InitOnce(t) PROVE ChainInv'
  <2>1. UNCHANGED <<at, slot, old, mapInfo, scan, hookInfo, ignoreInfo, refreshMutex>>
    BY <1>9 DEF InitOnce, lists, memory, locks
  <2>2. ghost.tainted => ghost'.tainted
    BY <1>9 DEF InitOnce, TypeInv, FlagType, Ghost
  <2>3. \A p \in Procs : pc'[p] = pc[p] \/ (~Refreshing(p) /\ ~Refreshing(p)')
    BY <1>9
       DEF InitOnce, Goto, Refreshing, Idle, TypeInv, ControlType, Procs, WorkerPC, ScanPC
  <2> QED
    BY <2>1, <2>2, <2>3, FrameChain
<1>10. ASSUME NEW t \in Threads, AddHandler(t) PROVE ChainInv'
  <2>1. UNCHANGED <<at, slot, old, mapInfo, scan, hookInfo, ignoreInfo, refreshMutex>>
    BY <1>10 DEF AddHandler, lists, memory, locks
  <2>2. ghost.tainted => ghost'.tainted
    BY <1>10 DEF AddHandler, TypeInv, FlagType, Ghost
  <2>3. \A p \in Procs : pc'[p] = pc[p] \/ (~Refreshing(p) /\ ~Refreshing(p)')
    BY <1>10
       DEF AddHandler, Goto, Refreshing, Idle, TypeInv, ControlType, Procs, WorkerPC,
           ScanPC
  <2> QED
    BY <2>1, <2>2, <2>3, FrameChain
<1>11. ASSUME NEW t \in Threads, InitCheck(t) PROVE ChainInv'
  <2>1. UNCHANGED <<at, slot, old, mapInfo, scan, hookInfo, ignoreInfo, refreshMutex>>
    BY <1>11 DEF InitCheck, lists, memory, locks
  <2>2. ghost.tainted => ghost'.tainted
    BY <1>11 DEF InitCheck, TypeInv, FlagType, Ghost
  <2>3. \A p \in Procs : pc'[p] = pc[p] \/ (~Refreshing(p) /\ ~Refreshing(p)')
    BY <1>11
       DEF InitCheck, InitDone, Goto, Refreshing, Idle, TypeInv, ControlType, Procs,
           WorkerPC, ScanPC
  <2> QED
    BY <2>1, <2>2, <2>3, FrameChain
<1>12. ASSUME NEW t \in Threads, InitAsyncOnce(t) PROVE ChainInv'
  <2>1. UNCHANGED <<at, slot, old, mapInfo, scan, hookInfo, ignoreInfo, refreshMutex>>
    BY <1>12 DEF InitAsyncOnce, lists, memory, locks
  <2>2. ghost.tainted => ghost'.tainted
    BY <1>12 DEF InitAsyncOnce, TypeInv, FlagType, Ghost
  <2>3. \A p \in Procs : pc'[p] = pc[p] \/ (~Refreshing(p) /\ ~Refreshing(p)')
    BY <1>12
       DEF InitAsyncOnce, Goto, Refreshing, Idle, TypeInv, ControlType, Procs, WorkerPC,
           ScanPC
  <2> QED
    BY <2>1, <2>2, <2>3, FrameChain
<1>13. ASSUME NEW t \in Threads, CreateThread(t) PROVE ChainInv'
  <2>1. UNCHANGED <<at, slot, old, mapInfo, scan, hookInfo, ignoreInfo, refreshMutex>>
    BY <1>13 DEF CreateThread, lists, memory, locks
  <2>2. ghost.tainted => ghost'.tainted
    BY <1>13 DEF CreateThread, TypeInv, FlagType, Ghost
  <2>3. \A p \in Procs : pc'[p] = pc[p] \/ (~Refreshing(p) /\ ~Refreshing(p)')
    BY <1>13
       DEF CreateThread, Goto, Refreshing, Idle, TypeInv, ControlType, Procs, WorkerPC,
           ScanPC
  <2> QED
    BY <2>1, <2>2, <2>3, FrameChain
<1>14. ASSUME NEW t \in Threads, AsyncCheck(t) PROVE ChainInv'
  <2>1. UNCHANGED <<at, slot, old, mapInfo, scan, hookInfo, ignoreInfo, refreshMutex>>
    BY <1>14 DEF AsyncCheck, lists, memory, locks
  <2>2. ghost.tainted => ghost'.tainted
    BY <1>14 DEF AsyncCheck, TypeInv, FlagType, Ghost
  <2>3. \A p \in Procs : pc'[p] = pc[p] \/ (~Refreshing(p) /\ ~Refreshing(p)')
    BY <1>14
       DEF AsyncCheck, Goto, Refreshing, Idle, TypeInv, ControlType, Procs, WorkerPC,
           ScanPC
  <2> QED
    BY <2>1, <2>2, <2>3, FrameChain
<1>15. ASSUME NEW t \in Threads, PostRefresh(t) PROVE ChainInv'
  <2>1. UNCHANGED <<at, slot, old, mapInfo, scan, hookInfo, ignoreInfo, refreshMutex>>
    BY <1>15 DEF PostRefresh, lists, memory, locks
  <2>2. ghost.tainted => ghost'.tainted
    BY <1>15 DEF PostRefresh, TypeInv, FlagType, Ghost
  <2>3. \A p \in Procs : pc'[p] = pc[p] \/ (~Refreshing(p) /\ ~Refreshing(p)')
    BY <1>15
       DEF PostRefresh, Signal, Goto, Refreshing, Idle, TypeInv, ControlType, Procs,
           WorkerPC, ScanPC
  <2> QED
    BY <2>1, <2>2, <2>3, FrameChain
<1>16. ASSUME NEW t \in Threads, ClearTest(t) PROVE ChainInv'
  <2>1. UNCHANGED <<at, slot, old, mapInfo, scan, hookInfo, ignoreInfo, refreshMutex>>
    BY <1>16 DEF ClearTest, lists, memory, locks
  <2>2. ghost.tainted => ghost'.tainted
    BY <1>16 DEF ClearTest, TypeInv, FlagType, Ghost
  <2>3. \A p \in Procs : pc'[p] = pc[p] \/ (~Refreshing(p) /\ ~Refreshing(p)')
    BY <1>16
       DEF ClearTest, Goto, Refreshing, Idle, TypeInv, ControlType, Procs, WorkerPC,
           ScanPC
  <2> QED
    BY <2>1, <2>2, <2>3, FrameChain
<1>17. ASSUME NEW t \in Threads, ClearSignal(t) PROVE ChainInv'
  <2>1. UNCHANGED <<at, slot, old, mapInfo, scan, hookInfo, ignoreInfo, refreshMutex>>
    BY <1>17 DEF ClearSignal, lists, memory, locks
  <2>2. ghost.tainted => ghost'.tainted
    BY <1>17 DEF ClearSignal, TypeInv, FlagType, Ghost
  <2>3. \A p \in Procs : pc'[p] = pc[p] \/ (~Refreshing(p) /\ ~Refreshing(p)')
    BY <1>17
       DEF ClearSignal, Signal, Goto, Refreshing, Idle, TypeInv, ControlType, Procs,
           WorkerPC, ScanPC
  <2> QED
    BY <2>1, <2>2, <2>3, FrameChain
<1>18. ASSUME NEW t \in Threads, ClearJoin(t) PROVE ChainInv'
  <2>1. UNCHANGED <<at, slot, old, mapInfo, scan, hookInfo, ignoreInfo, refreshMutex>>
    BY <1>18 DEF ClearJoin, lists, memory, locks
  <2>2. ghost.tainted => ghost'.tainted
    BY <1>18 DEF ClearJoin, TypeInv, FlagType, Ghost
  <2>3. \A p \in Procs : pc'[p] = pc[p] \/ (~Refreshing(p) /\ ~Refreshing(p)')
    BY <1>18
       DEF ClearJoin, Goto, Refreshing, Idle, TypeInv, ControlType, Procs, WorkerPC,
           ScanPC
  <2> QED
    BY <2>1, <2>2, <2>3, FrameChain
<1>19. ASSUME NEW t \in Threads, ClearAsync(t) PROVE ChainInv'
  <2>1. UNCHANGED <<at, slot, old, mapInfo, scan, hookInfo, ignoreInfo, refreshMutex>>
    BY <1>19 DEF ClearAsync, lists, memory, locks
  <2>2. ghost.tainted => ghost'.tainted
    BY <1>19 DEF ClearAsync, TypeInv, FlagType, Ghost
  <2>3. \A p \in Procs : pc'[p] = pc[p] \/ (~Refreshing(p) /\ ~Refreshing(p)')
    BY <1>19
       DEF ClearAsync, Goto, Refreshing, Idle, TypeInv, ControlType, Procs, WorkerPC,
           ScanPC
  <2> QED
    BY <2>1, <2>2, <2>3, FrameChain
<1>20. ASSUME NEW t \in Threads, ClearHandler(t) PROVE ChainInv'
  <2>1. UNCHANGED <<at, slot, old, mapInfo, scan, hookInfo, ignoreInfo, refreshMutex>>
    BY <1>20 DEF ClearHandler, lists, memory, locks
  <2>2. ghost.tainted => ghost'.tainted
    BY <1>20 DEF ClearHandler, TypeInv, FlagType, Ghost
  <2>3. \A p \in Procs : pc'[p] = pc[p] \/ (~Refreshing(p) /\ ~Refreshing(p)')
    BY <1>20
       DEF ClearHandler, HandlerRestored, Goto, Refreshing, Idle, TypeInv, ControlType,
           Procs, WorkerPC, ScanPC
  <2> QED
    BY <2>1, <2>2, <2>3, FrameChain
<1>21. ASSUME NEW t \in Threads, ClearInited(t) PROVE ChainInv'
  <2>1. UNCHANGED <<at, slot, old, mapInfo, scan, hookInfo, ignoreInfo, refreshMutex>>
    BY <1>21 DEF ClearInited, lists, memory, locks
  <2>2. ghost.tainted => ghost'.tainted
    BY <1>21 DEF ClearInited, TypeInv, FlagType, Ghost
  <2>3. \A p \in Procs : pc'[p] = pc[p] \/ (~Refreshing(p) /\ ~Refreshing(p)')
    BY <1>21
       DEF ClearInited, Goto, Refreshing, Idle, TypeInv, ControlType, Procs, WorkerPC,
           ScanPC
  <2> QED
    BY <2>1, <2>2, <2>3, FrameChain
<1>22. ASSUME NEW t \in Threads, ClearLock(t) PROVE ChainInv'
  <2>1. UNCHANGED <<at, slot, old, mapInfo, scan, hookInfo, ignoreInfo, refreshMutex>>
    BY <1>22 DEF ClearLock, lists, memory, locks
  <2>2. ghost.tainted => ghost'.tainted
    BY <1>22 DEF ClearLock, TypeInv, FlagType, Ghost
  <2>3. \A p \in Procs : pc'[p] = pc[p] \/ (~Refreshing(p) /\ ~Refreshing(p)')
    BY <1>22
       DEF ClearLock, Goto, Refreshing, Idle, TypeInv, ControlType, Procs, WorkerPC,
           ScanPC
  <2> QED
    BY <2>1, <2>2, <2>3, FrameChain
<1>23. ASSUME NEW t \in Threads, ClearFree(t) PROVE ChainInv'
  BY <1>23, FreeChain
<1>24. ASSUME NEW p \in Procs, RefreshLock(p) PROVE ChainInv'
  BY <1>24, LockChain
<1>25. ASSUME NEW p \in Procs, NextLine(p) PROVE ChainInv'
  BY <1>25, LineChain
<1>26. ASSUME NEW p \in Procs, CheckHeader(p) PROVE ChainInv'
  BY <1>26, HeaderChain DEF RefreshInv
<1>27. ASSUME NEW p \in Procs, SaveOld(p) PROVE ChainInv'
  BY <1>27, SaveChain DEF RefreshInv
<1>28. ASSUME NEW p \in Procs, Replace(p) PROVE ChainInv'
  BY <1>28, StoreChain DEF RefreshInv
<1>29. ASSUME NEW p \in Procs, Finish(p) PROVE ChainInv'
  BY <1>29, FinishChain
<1>30. ASSUME NEW w \in Workers, WorkerTop(w) PROVE ChainInv'
  <2>1. UNCHANGED <<at, slot, old, mapInfo, scan, hookInfo, ignoreInfo, refreshMutex>>
    BY <1>30 DEF WorkerTop, lists, memory, locks
  <2>2. ghost.tainted => ghost'.tainted
    BY <1>30 DEF WorkerTop, TypeInv, FlagType, Ghost
  <2>3. \A p \in Procs : pc'[p] = pc[p] \/ (~Refreshing(p) /\ ~Refreshing(p)')
    BY <1>30
       DEF WorkerTop, Goto, Refreshing, Idle, TypeInv, ControlType, Procs, WorkerPC,
           ScanPC
  <2> QED
    BY <2>1, <2>2, <2>3, FrameChain
<1>31. ASSUME NEW w \in Workers, WorkerLock(w) PROVE ChainInv'
  <2>1. UNCHANGED <<at, slot, old, mapInfo, scan, hookInfo, ignoreInfo, refreshMutex>>
    BY <1>31 DEF WorkerLock, lists, memory, locks
  <2>2. ghost.tainted => ghost'.tainted
    BY <1>31 DEF WorkerLock, TypeInv, FlagType, Ghost
  <2>3. \A p \in Procs : pc'[p] = pc[p] \/ (~Refreshing(p) /\ ~Refreshing(p)')
    BY <1>31
       DEF WorkerLock, WaitLoop, Goto, Refreshing, Idle, TypeInv, ControlType, Procs,
           WorkerPC, ScanPC
  <2> QED
    BY <2>1, <2>2, <2>3, FrameChain
<1>32. ASSUME NEW w \in Workers, Spurious(w) PROVE ChainInv'
  <2>1. UNCHANGED <<at, slot, old, mapInfo, scan, hookInfo, ignoreInfo, refreshMutex>>
    BY <1>32 DEF Spurious, lists, memory, locks
  <2>2. ghost.tainted => ghost'.tainted
    BY <1>32 DEF Spurious, TypeInv, FlagType, Ghost
  <2>3. \A p \in Procs : pc'[p] = pc[p] \/ (~Refreshing(p) /\ ~Refreshing(p)')
    BY <1>32
       DEF Spurious, Goto, Refreshing, Idle, TypeInv, ControlType, Procs, WorkerPC, ScanPC
  <2> QED
    BY <2>1, <2>2, <2>3, FrameChain
<1>33. ASSUME NEW l \in Libs, NEW b \in Bases, Dlopen(l, b) PROVE ChainInv'
  BY <1>33, LoadChain
<1>34. ASSUME NEW b \in Bases, Dlclose(b) PROVE ChainInv'
  BY <1>34, UnloadChain
<1>35. CASE UNCHANGED vars
  <2>1. UNCHANGED <<at, slot, old, mapInfo, scan, hookInfo, ignoreInfo, refreshMutex, pc, ghost>>
    BY <1>35 DEF vars
  <2> QED
    BY <2>1, FrameChain
<1> QED
  BY <1>1, <1>2, <1>3, <1>4, <1>5, <1>6, <1>7, <1>8, <1>9, <1>10, <1>11, <1>12, <1>13,
     <1>14, <1>15, <1>16, <1>17, <1>18, <1>19, <1>20, <1>21, <1>22, <1>23, <1>24, <1>25,
     <1>26, <1>27, <1>28, <1>29, <1>30, <1>31, <1>32, <1>33, <1>34, <1>35
     DEF Next, Begin, ApiStep, RefreshStep, WorkerStep, Procs

-----------------------------------------------------------------------------
(***************************************************************************)
(* The calls.                                                              *)
(***************************************************************************)
\* A set of numbers with 0 and with the successor of each is all of them.
LEMMA NatIn ==
  ASSUME NEW T, 0 \in T, \A n \in Nat : n \in T => n + 1 \in T
  PROVE  Nat \subseteq T
<1> DEFINE Less == {ss \in Nat \X Nat : ss[1] < ss[2]}
           S == Nat \ T
<1>1. IsWellFoundedOn(Less, Nat)
  BY NatLessThanWellFounded DEF OpToRel
<1> SUFFICES ASSUME S # {} PROVE FALSE
  OBVIOUS
<1>2. PICK m \in S : \A n \in S : ~(<<n, m>> \in Less)
  <2> S \subseteq Nat
    OBVIOUS
  <2> HIDE DEF Less, S
  <2> QED
    BY <1>1, WFMin
<1>3. m \in Nat /\ m # 0 /\ m \notin T
  OBVIOUS
<1>4. m - 1 \in Nat /\ m - 1 < m /\ (m - 1) + 1 = m
  BY <1>3
<1>5. m - 1 \notin T
  BY <1>3, <1>4
<1>6. <<m - 1, m>> \in Less
  BY <1>3, <1>4
<1> QED
  BY <1>2, <1>4, <1>5, <1>6

\* Where a call goes on from x.
Follow(x) == IF x \in Hooks THEN old[x] ELSE x

\* The functions reached from f in up to k steps.
ChainTo(f, k, g) == g = [n \in 0..k |-> IF n = 0 THEN f ELSE Follow(g[n - 1])]

\* There are such functions: each step is defined by the one before.
LEMMA ChainExists ==
  ASSUME NEW f, NEW k \in Nat
  PROVE  \E g : ChainTo(f, k, g)
<1> DEFINE T == {n \in Nat : \E g : ChainTo(f, n, g)}
<1>1. 0 \in T
  <2> DEFINE g == [n \in 0..0 |-> f]
  <2>1. g = [n \in 0..0 |-> IF n = 0 THEN f ELSE Follow(g[n - 1])]
    OBVIOUS
  <2> QED
    BY <2>1 DEF ChainTo
<1>2. ASSUME NEW j \in Nat, j \in T PROVE j + 1 \in T
  <2>1. PICK g : ChainTo(f, j, g)
    BY <1>2
  <2> DEFINE h == [n \in 0..j + 1 |-> IF n = j + 1 THEN Follow(g[j]) ELSE g[n]]
  <2>2. ASSUME NEW n \in 0..j + 1 PROVE h[n] = IF n = 0 THEN f ELSE Follow(h[n - 1])
    <3>1. CASE n = j + 1
      <4>1. h[j + 1] = Follow(g[j]) /\ h[j] = g[j] /\ (j + 1) - 1 = j /\ j + 1 # 0
        OBVIOUS
      <4> QED
        BY <3>1, <4>1
    <3>2. CASE n # j + 1 /\ n = 0
      BY <2>1, <3>2 DEF ChainTo
    <3>3. CASE n # j + 1 /\ n # 0
      <4>1. n \in 0..j /\ n - 1 \in 0..j
        BY <3>3
      <4>2. h[n] = g[n] /\ h[n - 1] = g[n - 1]
        BY <4>1
      <4>3. g[n] = Follow(g[n - 1])
        BY <2>1, <3>3, <4>1 DEF ChainTo
      <4> QED
        BY <3>3, <4>2, <4>3
    <3> QED
      BY <3>1, <3>2, <3>3
  <2>3. ChainTo(f, j + 1, h)
    <3>1. h = [n \in 0..j + 1 |-> h[n]]
      OBVIOUS
    <3>2. h = [n \in 0..j + 1 |-> IF n = 0 THEN f ELSE Follow(h[n - 1])]
      <4> HIDE DEF h
      <4> QED
        BY <2>2, <3>1
    <3> QED
      BY <3>2 DEF ChainTo
  <2> QED
    BY <2>3
<1>3. Nat \subseteq T
  <2> HIDE DEF T
  <2> QED
    BY <1>1, <1>2, NatIn
<1> QED
  BY <1>3

\* CallChain is the last of them.
LEMMA CallChainEnds ==
  ASSUME NEW f
  PROVE  \E g : /\ ChainTo(f, Cardinality(Hooks), g)
                /\ CallChain(f) = g[Cardinality(Hooks)]
<1> DEFINE K == Cardinality(Hooks)
           G == CHOOSE g : ChainTo(f, K, g)
<1>1. K \in Nat
  BY FiniteAssumption, FS_CardinalityType
<1>2. ChainTo(f, K, G)
  BY <1>1, ChainExists
<1>3. CallChain(f) = G[K]
  BY DEF CallChain, ChainTo, Follow
<1> QED
  BY <1>2, <1>3

\* There are no more registrations listed than there are registrations.
LEMMA FewHooks ==
  ASSUME TypeInv, DistinctInv
  PROVE  Len(hookInfo) <= Cardinality(Hooks)
<1> DEFINE N == Len(hookInfo)
<1>1. N \in Nat /\ hookInfo \in [1..N -> Hooks]
  BY DEF TypeInv, ListType
<1>2. hookInfo \in Injection(1..N, Hooks)
  BY <1>1 DEF DistinctInv, Injection, IsInjective
<1>3. Cardinality(1..N) <= Cardinality(Hooks)
  BY <1>2, FiniteAssumption, FS_Injection
<1>4. Cardinality(1..N) = N
  <2> HIDE DEF N
  <2>1. 1 \in Int /\ N \in Int
    BY <1>1
  <2>2. Cardinality(1..N) = IF 1 > N THEN 0 ELSE N - 1 + 1
    BY <2>1, FS_Interval, Zenon
  <2> QED
    BY <1>1, <2>2
<1> QED
  BY <1>3, <1>4

\* The position falls with each step, so the original function is reached.
LEMMA ChainsEnd ==
  ASSUME TypeInv, ChainInv, ~ghost.tainted, NEW l \in Libs, NEW s \in Syms
  PROVE  CallChain(slot[l][s]) = Original
<1> DEFINE K == Cardinality(Hooks)
           N == Len(hookInfo)
           f == slot[l][s]
<1>1. PICK G \in SUBSET (1..N) : Closed(G)
  BY DEF ChainInv, LinkInv
<1>2. PICK g : ChainTo(f, K, g) /\ CallChain(f) = g[K]
  BY CallChainEnds
<1>3. K \in Nat /\ N \in Nat /\ N <= K
  BY FewHooks, FiniteAssumption, FS_CardinalityType DEF ChainInv, TypeInv, ListType
<1> DEFINE At(k) == g[k] = Original \/ \E m \in G : g[k] = hookInfo[m] /\ m + k <= N
           T == {k \in Nat : k <= K => At(k)}
<1>4. 0 \in T
  <2>1. g[0] = f
    BY <1>2, <1>3 DEF ChainTo
  <2>2. f = Original \/ \E m \in G : f = hookInfo[m]
    BY <1>1 DEF Closed
  <2>3. \A m \in G : m + 0 <= N
    BY <1>1, <1>3
  <2> QED
    BY <2>1, <2>2, <2>3
<1>5. ASSUME NEW k \in Nat, k \in T PROVE k + 1 \in T
  <2> SUFFICES ASSUME k + 1 <= K PROVE At(k + 1)
    OBVIOUS
  <2>1. k + 1 \in 0..K /\ k + 1 # 0 /\ (k + 1) - 1 = k /\ k <= K
    BY <1>3
  <2>2. g[k + 1] = Follow(g[k])
    <3>1. \A n \in 0..K : g[n] = IF n = 0 THEN f ELSE Follow(g[n - 1])
      BY <1>2 DEF ChainTo
    <3> HIDE DEF K, f
    <3> QED
      BY <2>1, <3>1
  <2>3. At(k)
    BY <1>5, <2>1
  <2>4. CASE g[k] = Original
    BY <2>2, <2>4 DEF Follow
  <2>5. ASSUME NEW m \in G, g[k] = hookInfo[m], m + k <= N PROVE At(k + 1)
    <3>1. m \in 1..N /\ hookInfo[m] \in Hooks
      BY <1>1, HookAt
    <3>2. g[k + 1] = old[hookInfo[m]]
      BY <2>2, <2>5, <3>1 DEF Follow
    <3>3. CASE old[hookInfo[m]] = Original
      BY <3>2, <3>3
    <3>4. ASSUME NEW j \in G, j < m, old[hookInfo[m]] = hookInfo[j] PROVE At(k + 1)
      <4>1. j \in 1..N
        BY <1>1
      <4>2. j + (k + 1) <= N
        BY <1>3, <2>5, <3>1, <3>4, <4>1
      <4> QED
        BY <3>2, <3>4, <4>2
    <3> QED
      BY <1>1, <3>3, <3>4 DEF Closed
  <2> QED
    BY <2>3, <2>4, <2>5
<1>6. Nat \subseteq T
  <2> HIDE DEF T
  <2> QED
    BY <1>4, <1>5, NatIn
<1>7. At(K)
  <2>1. K \in T
    BY <1>3, <1>6
  <2> QED
    BY <1>3, <2>1
<1>8. \A m \in G : ~(m + K <= N)
  BY <1>1, <1>3
<1> QED
  BY <1>2, <1>7, <1>8

\* ChainInv is an invariant, beside that of XhCore_proofs.
THEOREM ChainInvariance == Spec => [](IInv /\ ChainInv)
<1>1. Init => ChainInv
  BY InitChain
<1>2. IInv /\ ChainInv /\ [Next]_vars => ChainInv'
  BY NextChain DEF IInv
<1> QED
  BY <1>1, <1>2, Invariance, PTL DEF Spec

\* A call through a patched slot that goes on through old_func ends at the original
\* function: no registration leads back to itself, however refreshes, late registrations,
\* dlopen and dlclose interleave, unless a slot was patched again after a clear or on
\* behalf of another library at the same address.
THEOREM CallsReachOriginal == Spec => []CallReachesOriginal
<1>1. IInv /\ ChainInv => CallReachesOriginal
  <2> SUFFICES ASSUME IInv, ChainInv, ~ghost.tainted, NEW l \in Mapped, NEW s \in Syms
               PROVE  CallChain(slot[l][s]) = Original
    BY DEF CallReachesOriginal
  <2>1. TypeInv /\ l \in Libs
    BY DEF IInv, Mapped
  <2> QED
    BY <2>1, ChainsEnd
<1> QED
  BY <1>1, ChainInvariance, PTL


=============================================================================
