------------------------------- MODULE Startup -------------------------------
(***************************************************************************)
(* How bytehook comes up while the process already runs: bh_core_init, the *)
(* lazy start of the dlopen and dlclose monitor by the first hook call or  *)
(* the first dlopen callback (bh_dl_monitor.c, bh_task_manager.c), the     *)
(* proxies against the linker's own lock (bh_linker.c), the lazy parsing   *)
(* of an ELF object (bh_elf_parse_dynamic), and the table of protected     *)
(* threads that lets parsing survive a fault (bytesig.c).                  *)
(*                                                                         *)
(* Each thread is a small program with a stack of return labels; a step    *)
(* runs up to the next point where another thread can be noticed: a lock,  *)
(* an unlocked flag, a slot of the table.  Applying a task to one parsed   *)
(* ELF object is part of one step (HookManager is about its inside), as is *)
(* unhooking (TaskManager).  A library is opened once.                     *)
(***************************************************************************)
EXTENDS Naturals, Sequences, FiniteSets, SequencesExt

CONSTANTS
    Thread,
    Lib,          \* libraries; libdl.so is one of them
    Libdl,
    Callbacks,    \* dlopen callbacks
    Signals,      \* the sequence of signals protected against
    SlotMax,      \* BYTESIG_PROTECTED_THREADS_MAX
    Scenarios,    \* where the program may start, and what bounds it
    None

\* api is the API level, by the functions that are hooked; compat whether the linker's mutex
\* has the known layout; status is init_status, "OK" when bh_core_init was called before;
\* loaded the libraries.  The bounds: the calls each thread may make, how many, and the
\* faults and failing allocations.
Scenario == [api: {"J", "L", "O"}, compat: BOOLEAN, status: {"UNINIT", "OK"},
             loaded: SUBSET Lib,
             does: [Thread -> SUBSET {"init", "hook", "callback", "open", "close"}],
             calls: [Thread -> Nat], faults: Nat]

ASSUME StartupAssumption ==
    /\ \A sc \in Scenarios : sc \in Scenario /\ Libdl \in sc.loaded
    /\ SlotMax \in Nat \ {0}
    /\ Signals \in Seq(Range(Signals)) \ {<<>>} /\ IsInjective(Signals)
    /\ None \notin Thread \cup Lib

VARIABLES
    setup,      \* the scenario
    core,       \* bh_core.init_status, the parts that were created, and the lock
    tm,         \* bh_task_manager_init_dl_monitor: inited, ok, the lock's owner, and
                \* posts, whether the monitor's post callbacks are set
    dl,         \* bh_dl_monitor_init: inited, ok, initing, the lock's owner
    one,        \* bh_task_manager_hook: oneshot_refreshed and its lock
    stubs,      \* the monitor's stubs that are not NULL
    placed,     \* those of its tasks whose proxy is in place in libdl.so
    cbs,        \* bh_dl_monitor_cbs
    cbReaders,  \* readers of bh_dl_monitor_cbs_lock
    writer, readers,   \* bh_dl_monitor_dlclose_lock
    linker,     \* owner of the linker's g_dl_mutex
    linked,     \* the linker's list
    tree,       \* the ELF manager's tree
    parse,      \* bh_elf_t: parsed (dyn_parsed), error, tables (really parsed), lock
    slots,      \* protected_threads: [signal -> [1..SlotMax -> [tid, jbuf]]]
    pc, stack,
    local,      \* of each thread: res, todo (stubs to hook), elfs (objects of the pass), elf,
                \* sigs (signals the section has still to enter or leave), fault, job (the
                \* stub hooked, "user" or "post"), cb (the callback to add), frames (the
                \* linker calls under way, innermost first)
    applied,    \* the libraries the task of the thread was applied to
    listed,     \* the threads whose task is in the task manager's list
    hooked,     \* the threads whose hook call has succeeded
    unsafe,     \* history: libraries opened past the proxy, inside a constructor or after a
                \* callback had started the monitor alone, and those that a refresh
                \* without notification took into the tree
    early,      \* history: <<thread, library>> searched before it was parsed
    cbStart,    \* history: a callback was registered
    budget

vars == <<setup, core, tm, dl, one, stubs, placed, cbs, cbReaders, writer, readers, linker,
          linked, tree, parse, slots, pc, stack, local, applied, listed,
          hooked, unsafe, early, cbStart, budget>>
inits == <<core, tm, dl, one>>
monitor == <<stubs, placed, cbs, cbReaders>>
locks == <<writer, readers, linker>>
elves == <<linked, tree>>
history == <<applied, listed, hooked, unsafe, early, cbStart>>

Parts == {"linker", "task", "hook", "elf", "trampo", "sig", "cfi"}
PartSeq == <<"linker", "task", "hook", "elf", "trampo", "sig", "cfi">>
OpenStub == IF setup.api = "O" THEN "loader_dlopen" ELSE "dlopen"
CloseStub == IF setup.api = "O" THEN "loader_dlclose" ELSE "dlclose"

\* bh_dl_monitor_hook: what is hooked at the API level, in order.
StubSeq ==
    CASE setup.api = "J" -> <<"dlopen", "dlclose">>
      [] setup.api = "L" -> <<"dlopen", "android_dlopen_ext", "dlclose">>
      [] setup.api = "O" -> <<"loader_dlopen", "loader_android_dlopen_ext", "loader_dlclose">>

NoLocal == [res |-> TRUE, todo |-> <<>>, elfs |-> {}, elf |-> None, sigs |-> <<>>, fault |-> FALSE,
            job |-> "user", cb |-> None, frames |-> <<>>]

Init ==
    /\ setup \in Scenarios
    /\ core = [status |-> setup.status, parts |-> IF setup.status = "OK" THEN Parts ELSE {},
               lock |-> None]
    /\ tm = [inited |-> FALSE, ok |-> FALSE, posts |-> FALSE, lock |-> None]
    /\ dl = [inited |-> FALSE, ok |-> FALSE, initing |-> FALSE, lock |-> None]
    /\ one = [done |-> FALSE, lock |-> None]
    /\ stubs = {} /\ placed = {} /\ cbs = {} /\ cbReaders = {}
    /\ writer = None /\ readers = {} /\ linker = None
    /\ linked = setup.loaded /\ tree = {}
    /\ parse = [parsed |-> {}, error |-> {}, tables |-> {}, lock |-> [l \in Lib |-> None]]
    /\ slots = [s \in Range(Signals) |-> [j \in 1..SlotMax |-> [tid |-> None, jbuf |-> None]]]
    /\ pc = [th \in Thread |-> "idle"]
    /\ stack = [th \in Thread |-> <<>>]
    /\ local = [th \in Thread |-> NoLocal]
    /\ applied = [th \in Thread |-> {}]
    /\ listed = {} /\ hooked = {} /\ unsafe = {} /\ early = {} /\ cbStart = FALSE
    /\ budget = [calls |-> setup.calls, faults |-> setup.faults, shut |-> {}]

-----------------------------------------------------------------------------
(***************************************************************************)
(* Control.                                                                *)
(***************************************************************************)
Goto(th, l) == pc' = [pc EXCEPT ![th] = l] /\ UNCHANGED stack
Gosub(th, l, back) == /\ pc' = [pc EXCEPT ![th] = l]
                      /\ stack' = [stack EXCEPT ![th] = <<back>> \o @]
Return(th) == /\ pc' = [pc EXCEPT ![th] = Head(stack[th])]
              /\ stack' = [stack EXCEPT ![th] = Tail(@)]
Set(th, field, value) == local' = [local EXCEPT ![th][field] = value]

\* A call of the API, or of the linker by the application or by a constructor that runs
\* under the linker's lock.
Spend(th) == /\ budget.calls[th] > 0
             /\ budget' = [budget EXCEPT !.calls[th] = @ - 1]
Call(th, what, l, back) == what \in setup.does[th] /\ pc[th] = "idle" /\ Spend(th) /\ Gosub(th, l, back)
LinkerCall(th, what, l) ==
    what \in setup.does[th] /\ pc[th] \in {"idle", "ctor"} /\ Gosub(th, l, pc[th])
Fail == budget.faults > 0 /\ budget' = [budget EXCEPT !.faults = @ - 1]

-----------------------------------------------------------------------------
(***************************************************************************)
(* bh_core_init.                                                           *)
(***************************************************************************)
InitCall(th) ==
    /\ core.status = "UNINIT"
    /\ Call(th, "init", "init", "idle")
    /\ UNCHANGED <<setup, inits, monitor, locks, elves, parse, slots, local, history>>

\* Mutant: the status is stored before the parts are created.
InitLockEarly(th) ==
    /\ pc[th] = "init" /\ core.lock = None
    /\ core' = [core EXCEPT !.lock = th, !.status = "OK"]
    /\ Goto(th, "parts")
    /\ UNCHANGED <<setup, tm, dl, one, monitor, locks, elves, parse, slots, local, history, budget>>
InitLock(th) ==
    /\ pc[th] = "init" /\ core.lock = None
    /\ core' = [core EXCEPT !.lock = th]
    /\ Goto(th, "parts")
    /\ UNCHANGED <<setup, tm, dl, one, monitor, locks, elves, parse, slots, local, history, budget>>

\* The next part.  In manual mode there is no trampoline; what fails decides the status.
Missing == {i \in DOMAIN PartSeq : PartSeq[i] \notin core.parts}
InitPart(th) ==
    /\ pc[th] = "parts" /\ core.status = "UNINIT" /\ Missing # {}
    /\ LET part == PartSeq[CHOOSE i \in Missing : \A j \in Missing : i <= j]
       IN \/ /\ core' = [core EXCEPT !.parts = @ \cup {part}]
             /\ UNCHANGED budget
          \/ /\ Fail
             /\ core' = [core EXCEPT !.status = part]
    /\ UNCHANGED <<setup, tm, dl, one, monitor, locks, elves, parse, slots, pc, stack, local, history>>

\* Stored once everything is done.
InitEnd(th) ==
    /\ pc[th] = "parts"
    /\ core.status # "UNINIT" \/ Missing = {}
    /\ core' = [core EXCEPT !.status = IF @ = "UNINIT" THEN "OK" ELSE @, !.lock = None]
    /\ Return(th)
    /\ UNCHANGED <<setup, tm, dl, one, monitor, locks, elves, parse, slots, local, history, budget>>

-----------------------------------------------------------------------------
(***************************************************************************)
(* bh_core_hook_all by the application: the task is listed at once.        *)
(***************************************************************************)
HookCall(th) ==
    /\ th \notin listed        \* one task of each thread
    /\ core.status = "OK"      \* else NULL is returned
    /\ Call(th, "hook", "tm_hook", "hooked")
    /\ listed' = listed \cup {th}
    /\ UNCHANGED <<setup, inits, monitor, locks, elves, parse, slots, local, applied, hooked, unsafe,
                   early, cbStart>>

HookReturn(th) ==
    /\ pc[th] = "hooked"
    /\ hooked' = IF local[th].res THEN hooked \cup {th} ELSE hooked
    /\ Goto(th, "idle")
    /\ UNCHANGED <<setup, inits, monitor, locks, elves, parse, slots, local, applied, listed,
                   unsafe, early, cbStart, budget>>

-----------------------------------------------------------------------------
(***************************************************************************)
(* bh_task_manager_hook, for the application's task or one of the          *)
(* monitor's own.                                                          *)
(***************************************************************************)
TmHook(th) ==
    /\ pc[th] = "tm_hook"
    /\ Goto(th, IF dl.initing THEN "oneshot" ELSE "tm_init")
    /\ UNCHANGED <<setup, inits, monitor, locks, elves, parse, slots, local, history, budget>>

OneShot(th) ==
    /\ pc[th] = "oneshot"
    /\ IF one.done THEN Goto(th, "rdlock") /\ UNCHANGED one
       ELSE /\ one.lock = None
            /\ one' = [one EXCEPT !.lock = th]
            /\ Goto(th, "one")
    /\ UNCHANGED <<setup, core, tm, dl, monitor, locks, elves, parse, slots, local, history, budget>>

OneLocked(th) ==
    /\ pc[th] = "one"
    /\ IF one.done
       THEN /\ one' = [one EXCEPT !.lock = None]
            /\ Goto(th, "rdlock") /\ UNCHANGED readers
       ELSE /\ writer = None
            /\ readers' = readers \cup {th}
            /\ Goto(th, "one_refresh") /\ UNCHANGED one
    /\ UNCHANGED <<setup, core, tm, dl, monitor, writer, linker, elves, parse, slots, local, history,
                   budget>>

\* The objects a task visits: those of its callers.
Callers(job) == IF job \in {"user", "dlopen", "android_dlopen_ext", "dlclose"} THEN Lib ELSE {Libdl}

\* bh_elf_manager_refresh needs the linker's lock.
Iterable(th) == linker \in {None, th}
OneRefresh(th) ==
    /\ pc[th] = "one_refresh" /\ Iterable(th)
    /\ tree' = linked
    /\ Set(th, "elfs", linked \cap Callers(local[th].job))
    /\ Gosub(th, "visit", "one_end")
    /\ UNCHANGED <<setup, inits, monitor, locks, linked, parse, slots, history, budget>>

OneEnd(th) ==
    /\ pc[th] = "one_end"
    /\ readers' = readers \ {th}
    /\ one' = [done |-> TRUE, lock |-> None]
    /\ Set(th, "res", TRUE)
    /\ Return(th)
    /\ UNCHANGED <<setup, core, tm, dl, monitor, writer, linker, elves, parse, slots, history, budget>>

\* bh_task_hook under the read lock.
RdLock(th) ==
    /\ pc[th] = "rdlock" /\ writer = None
    /\ readers' = readers \cup {th}
    /\ Set(th, "elfs", tree \cap Callers(local[th].job))
    /\ Gosub(th, "visit", "rdunlock")
    /\ UNCHANGED <<setup, inits, monitor, writer, linker, elves, parse, slots, history, budget>>

RdUnlock(th) ==
    /\ pc[th] = "rdunlock"
    /\ readers' = readers \ {th}
    /\ Set(th, "res", TRUE)
    /\ Return(th)
    /\ UNCHANGED <<setup, inits, monitor, writer, linker, elves, parse, slots, history, budget>>

-----------------------------------------------------------------------------
(***************************************************************************)
(* bh_task_manager_init_dl_monitor.  Its flags are read without the lock,  *)
(* so their stores may be seen in either order.                            *)
(***************************************************************************)
TmResult(th, ok) ==
    /\ Set(th, "res", ok)
    /\ IF ok THEN Goto(th, "rdlock") ELSE Return(th)

TmInit(th) ==
    /\ pc[th] = "tm_init"
    /\ IF tm.inited THEN TmResult(th, tm.ok) /\ UNCHANGED tm
       ELSE /\ tm.lock = None
            /\ tm' = [tm EXCEPT !.lock = th]
            /\ Goto(th, "tm_locked") /\ UNCHANGED local
    /\ UNCHANGED <<setup, core, dl, one, monitor, locks, elves, parse, slots, history, budget>>

\* Mutant: the post callbacks are not set before the monitor starts.
TmLockedNoPost(th) ==
    /\ pc[th] = "tm_locked"
    /\ IF tm.inited
       THEN tm' = [tm EXCEPT !.lock = None] /\ TmResult(th, tm.ok)
       ELSE UNCHANGED tm /\ Gosub(th, "dl_init", "tm_store") /\ UNCHANGED local
    /\ UNCHANGED <<setup, core, dl, one, monitor, locks, elves, parse, slots, history, budget>>
TmLocked(th) ==
    /\ pc[th] = "tm_locked"
    /\ IF tm.inited
       THEN tm' = [tm EXCEPT !.lock = None] /\ TmResult(th, tm.ok)
       ELSE /\ tm' = [tm EXCEPT !.posts = TRUE]
            /\ Gosub(th, "dl_init", "tm_store") /\ UNCHANGED local
    /\ UNCHANGED <<setup, core, dl, one, monitor, locks, elves, parse, slots, history, budget>>

TmStore(th) ==
    /\ pc[th] = "tm_store"
    /\ \/ tm' = [tm EXCEPT !.ok = local[th].res]
       \/ tm' = [tm EXCEPT !.inited = TRUE]
    /\ Goto(th, "tm_done")
    /\ UNCHANGED <<setup, core, dl, one, monitor, locks, elves, parse, slots, local, history, budget>>

TmDone(th) ==
    /\ pc[th] = "tm_done"
    /\ tm' = [tm EXCEPT !.inited = TRUE, !.ok = local[th].res, !.lock = None]
    /\ TmResult(th, local[th].res)
    /\ UNCHANGED <<setup, core, dl, one, monitor, locks, elves, parse, slots, history, budget>>

-----------------------------------------------------------------------------
(***************************************************************************)
(* bh_dl_monitor_init.                                                     *)
(***************************************************************************)
DlInit(th) ==
    /\ pc[th] = "dl_init"
    /\ IF dl.inited THEN Set(th, "res", dl.ok) /\ Return(th) /\ UNCHANGED dl
       ELSE /\ dl.lock = None
            /\ dl' = [dl EXCEPT !.lock = th, !.initing = TRUE]
            /\ Goto(th, "dl_locked") /\ UNCHANGED local
    /\ UNCHANGED <<setup, core, tm, one, monitor, locks, elves, parse, slots, history, budget>>

DlLocked(th) ==
    /\ pc[th] = "dl_locked"
    /\ IF dl.inited
       THEN Set(th, "res", dl.ok) /\ Goto(th, "dl_end") /\ UNCHANGED dl
       ELSE /\ dl' = [dl EXCEPT !.inited = TRUE]
            /\ Set(th, "todo", StubSeq)
            /\ Goto(th, "mon")
    /\ UNCHANGED <<setup, core, tm, one, monitor, locks, elves, parse, slots, history, budget>>

\* bh_dl_monitor_hook: the next function, hooked through bh_core_hook_all or _single, which
\* give a stub whenever the library is initialised and a task can be allocated.
MonHook(th) ==
    /\ pc[th] = "mon" /\ local[th].todo # <<>> /\ core.status = "OK"
    /\ stubs' = stubs \cup {Head(local[th].todo)}
    /\ local' = [local EXCEPT ![th].job = Head(local[th].todo), ![th].todo = Tail(@)]
    /\ Gosub(th, "tm_hook", "mon")
    /\ UNCHANGED <<setup, inits, placed, cbs, cbReaders, locks, elves, parse, slots, history, budget>>

MonFail(th) ==
    /\ pc[th] = "mon" /\ local[th].todo # <<>>
    /\ IF core.status = "OK" THEN Fail ELSE UNCHANGED budget
    /\ Goto(th, "uninit")
    /\ UNCHANGED <<setup, inits, monitor, locks, elves, parse, slots, local, history>>

MonDone(th) ==
    /\ pc[th] = "mon" /\ local[th].todo = <<>>
    /\ dl' = [dl EXCEPT !.ok = TRUE]
    /\ local' = [local EXCEPT ![th].res = TRUE, ![th].job = "user"]
    /\ Goto(th, "dl_end")
    /\ UNCHANGED <<setup, core, tm, one, monitor, locks, elves, parse, slots, history, budget>>

\* bh_dl_monitor_uninit: unhooks what was hooked, under the read lock.
Uninit(th) ==
    /\ pc[th] = "uninit"
    /\ IF stubs = {}
       THEN /\ local' = [local EXCEPT ![th].res = FALSE, ![th].job = "user", ![th].todo = <<>>]
            /\ Goto(th, "dl_end") /\ UNCHANGED <<stubs, placed>>
       ELSE /\ writer = None
            /\ LET s == StubSeq[CHOOSE i \in DOMAIN StubSeq :
                                  /\ StubSeq[i] \in stubs
                                  /\ \A j \in DOMAIN StubSeq : StubSeq[j] \in stubs => i <= j]
               IN stubs' = stubs \ {s} /\ placed' = placed \ {s}
            /\ UNCHANGED <<pc, stack, local>>
    /\ UNCHANGED <<setup, inits, cbs, cbReaders, locks, elves, parse, slots, history, budget>>

DlEnd(th) ==
    /\ pc[th] = "dl_end"
    /\ dl' = [dl EXCEPT !.initing = FALSE, !.lock = None]
    /\ Return(th)
    /\ UNCHANGED <<setup, core, tm, one, monitor, locks, elves, parse, slots, local, history, budget>>

-----------------------------------------------------------------------------
(***************************************************************************)
(* The pass of a task, or of a notification, over ELF objects: parse each  *)
(* (bh_elf_parse_dynamic), then search it and patch.                       *)
(***************************************************************************)
Visit(th, l) ==
    /\ pc[th] = "visit" /\ l \in local[th].elfs
    /\ local' = [local EXCEPT ![th].elfs = @ \ {l}, ![th].elf = l]
    /\ IF l \in parse.error THEN UNCHANGED <<pc, stack, parse>>
       ELSE IF l \in parse.parsed THEN Goto(th, "find") /\ UNCHANGED parse
       ELSE /\ parse.lock[l] = None
            /\ parse' = [parse EXCEPT !.lock[l] = th]
            /\ Goto(th, "parse")
    /\ UNCHANGED <<setup, inits, monitor, locks, elves, slots, history, budget>>

VisitEnd(th) ==
    /\ pc[th] = "visit" /\ local[th].elfs = {}
    /\ Set(th, "elf", None)
    /\ Return(th)
    /\ UNCHANGED <<setup, inits, monitor, locks, elves, parse, slots, history, budget>>

\* dyn_parsed is set first; the protected section that follows does the work.
Parse(th) ==
    LET l == local[th].elf
    IN /\ pc[th] = "parse"
       /\ IF l \in parse.parsed
          THEN /\ parse' = [parse EXCEPT !.lock[l] = None]
               /\ Goto(th, IF l \in parse.error THEN "visit" ELSE "find")
               /\ UNCHANGED local
          ELSE /\ parse' = [parse EXCEPT !.parsed = @ \cup {l}]
               /\ Set(th, "sigs", Signals)
               /\ Gosub(th, "claim", "parsed")
       /\ UNCHANGED <<setup, inits, monitor, locks, elves, slots, history, budget>>

Parsed(th) ==
    LET l == local[th].elf
    IN /\ pc[th] = "parsed"
       /\ parse' = IF local[th].fault THEN [parse EXCEPT !.lock[l] = None, !.error = @ \cup {l}]
                   ELSE [parse EXCEPT !.lock[l] = None, !.tables = @ \cup {l}]
       /\ Goto(th, IF local[th].fault THEN "visit" ELSE "find")
       /\ Set(th, "fault", FALSE)
       /\ UNCHANGED <<setup, inits, monitor, locks, elves, slots, history, budget>>

\* A search of half-parsed tables may find the symbol or not.  A notification applies every
\* listed task.
Apply(th, l) ==
    CASE local[th].job = "user"   -> /\ applied' = [applied EXCEPT ![th] = @ \cup {l}]
                                     /\ UNCHANGED placed
      [] local[th].job = "post"   -> /\ applied' = [u \in Thread |-> IF u \in listed
                                                       THEN applied[u] \cup {l} ELSE applied[u]]
                                     /\ UNCHANGED placed
      [] OTHER                    -> /\ placed' = IF l = Libdl THEN placed \cup {local[th].job}
                                                  ELSE placed
                                     /\ UNCHANGED applied

\* The search is a protected section of its own: as nothing of it is shared but the slot, it
\* is one step, for which a slot must be free, and may fault like the other.
Find(th) ==
    LET l == local[th].elf
        half == l \notin parse.tables
    IN /\ pc[th] = "find"
       /\ \A s \in Range(Signals) : \E j \in 1..SlotMax : slots[s][j].tid = None
       /\ \/ Apply(th, l) /\ UNCHANGED <<parse, budget>>
          \/ half /\ UNCHANGED <<applied, placed, parse, budget>>
          \/ /\ Fail
             /\ parse' = [parse EXCEPT !.error = @ \cup {l}]
             /\ UNCHANGED <<applied, placed>>
       /\ early' = IF half THEN early \cup {<<th, l>>} ELSE early
       /\ Goto(th, "visit")
       /\ UNCHANGED <<setup, inits, stubs, cbs, cbReaders, locks, elves, slots, local, listed, hooked,
                      unsafe, cbStart>>

-----------------------------------------------------------------------------
(***************************************************************************)
(* A protected section: bytesig_protect, the section itself, the handler,  *)
(* bytesig_unprotect.                                                      *)
(***************************************************************************)
\* The signal at hand.  No section is entered inside another, so the test for a repeated
\* thread never holds.
Sig(th) == Head(local[th].sigs)
SlotOf(th) == {j \in 1..SlotMax : slots[Sig(th)][j].tid = th}

\* A free slot is claimed by compare-and-swap; with none free the thread goes round.
\* Mutant: an unconditional store.
ClaimTaken(th, j) ==
    /\ pc[th] = "claim"
    /\ slots' = [slots EXCEPT ![Sig(th)][j].tid = th]
    /\ Goto(th, "store")
    /\ UNCHANGED <<setup, inits, monitor, locks, elves, parse, local, history, budget>>
Claim(th, j) ==
    /\ pc[th] = "claim"
    /\ slots[Sig(th)][j].tid = None
    /\ slots' = [slots EXCEPT ![Sig(th)][j].tid = th]
    /\ Goto(th, "store")
    /\ UNCHANGED <<setup, inits, monitor, locks, elves, parse, local, history, budget>>

NextSignal(th, again, then(_)) ==
    /\ Set(th, "sigs", Tail(local[th].sigs))
    /\ IF Len(local[th].sigs) = 1 THEN then(th) ELSE Goto(th, again)

Store(th) ==
    /\ pc[th] = "store"
    /\ \E j \in SlotOf(th) : slots' = [slots EXCEPT ![Sig(th)][j].jbuf = th]
    /\ NextSignal(th, "claim", LAMBDA t : Goto(t, "section"))
    /\ UNCHANGED <<setup, inits, monitor, locks, elves, parse, history, budget>>

Leave(th) ==
    /\ pc[th] = "section"
    /\ Set(th, "sigs", Signals)
    /\ Goto(th, "clear")
    /\ UNCHANGED <<setup, inits, monitor, locks, elves, parse, slots, history, budget>>

\* bytesig_handler: siglongjmp with the buffer of the thread's slot.
Handler(th, s) ==
    /\ pc[th] = "section" /\ Fail
    /\ \E j \in 1..SlotMax : slots[s][j].tid = th
    /\ local' = [local EXCEPT ![th].fault = TRUE, ![th].sigs = Signals]
    /\ Goto(th, "clear")
    /\ UNCHANGED <<setup, inits, monitor, locks, elves, parse, slots, history>>

\* bytesig_unprotect, for each signal: the buffer is cleared, then the slot is free.
Clear(th) ==
    /\ pc[th] = "clear"
    /\ \E j \in SlotOf(th) : slots' = [slots EXCEPT ![Sig(th)][j].jbuf = None]
    /\ Goto(th, "free")
    /\ UNCHANGED <<setup, inits, monitor, locks, elves, parse, local, history, budget>>

Free(th) ==
    /\ pc[th] = "free"
    /\ \E j \in SlotOf(th) : slots' = [slots EXCEPT ![Sig(th)][j].tid = None]
    /\ NextSignal(th, "clear", Return)
    /\ UNCHANGED <<setup, inits, monitor, locks, elves, parse, history, budget>>

-----------------------------------------------------------------------------
(***************************************************************************)
(* dlopen callbacks.  Registering one starts the monitor, whether the      *)
(* library is initialised or not, and ignores the result.                  *)
(***************************************************************************)
AddCallback(th, c) ==
    /\ Call(th, "callback", "dl_init", "add_cb")
    /\ Set(th, "cb", c)
    /\ cbStart' = TRUE
    /\ UNCHANGED <<setup, inits, monitor, locks, elves, parse, slots, applied, listed, hooked, unsafe,
                   early>>

AddCb(th) ==
    /\ pc[th] = "add_cb" /\ cbReaders = {}
    /\ cbs' = cbs \cup {local[th].cb}
    /\ Set(th, "cb", None)
    /\ Goto(th, "idle")
    /\ UNCHANGED <<setup, inits, stubs, placed, cbReaders, locks, elves, parse, slots, history, budget>>

DelCallback(th, c) ==
    /\ "callback" \in setup.does[th] /\ pc[th] = "idle" /\ c \in cbs /\ cbReaders = {}
    /\ Spend(th)
    /\ cbs' = cbs \ {c}
    /\ UNCHANGED <<setup, inits, stubs, placed, cbReaders, locks, elves, parse, slots, pc, stack, local,
                   history>>

-----------------------------------------------------------------------------
(***************************************************************************)
(* dlopen and dlclose by the application, through a proxy if one is in     *)
(* place, and by the constructors that dlopen runs under the linker's      *)
(* lock.  A frame is a call: its library, whether it came through a proxy, *)
(* and wrlocked.                                                           *)
(***************************************************************************)
Frame(th) == Head(local[th].frames)
Push(th, l, stub) ==
    Set(th, "frames", <<[lib |-> l, proxy |-> stub \in placed, wrlocked |-> FALSE]>>
                        \o local[th].frames)
Pop(th) == Set(th, "frames", Tail(local[th].frames))
InUse == {f.lib : f \in UNION {Range(local[th].frames) : th \in Thread}}

\* bh_linker_is_in_lock, in calls made from within frames: the mutex says so, or else the
\* count that the proxies keep (bh_linker_add_lock_count, bh_linker_sub_lock_count).
InLockNever(th, frames) == FALSE
InLock(th, frames) == IF setup.compat THEN linker = th ELSE \E i \in DOMAIN frames : frames[i].proxy
Outer(th) == Tail(local[th].frames)

OpenCall(th, l) ==
    /\ l \notin linked \cup budget.shut \cup InUse
    /\ Spend(th)
    /\ LinkerCall(th, "open", IF OpenStub \in placed THEN "pre" ELSE "link")
    /\ Push(th, l, OpenStub)
    /\ UNCHANGED <<setup, inits, monitor, locks, elves, parse, slots, history>>

\* bh_dl_monitor_call_cb_pre and _post run the callbacks under the read lock.
CallCb(th, from, inside, to) ==
    \/ /\ pc[th] = from
       /\ IF cbs = {} THEN Goto(th, to) /\ UNCHANGED cbReaders
          ELSE Goto(th, inside) /\ cbReaders' = cbReaders \cup {th}
    \/ /\ pc[th] = inside
       /\ Goto(th, to)
       /\ cbReaders' = cbReaders \ {th}
Pre(th) ==
    /\ CallCb(th, "pre", "pre_cb", "link")
    /\ UNCHANGED <<setup, inits, stubs, placed, cbs, locks, elves, parse, slots, local, history, budget>>
Post(th) ==
    /\ CallCb(th, "post", "post_cb", "open_end")
    /\ UNCHANGED <<setup, inits, stubs, placed, cbs, locks, elves, parse, slots, local, history, budget>>

\* The linker: the library is mapped, its constructors run, the lock is released.
Link(th) ==
    /\ pc[th] = "link" /\ Iterable(th)
    /\ linker' = th
    /\ linked' = linked \cup {Frame(th).lib}
    /\ Goto(th, "ctor")
    /\ UNCHANGED <<setup, inits, monitor, writer, readers, tree, parse, slots, local, history, budget>>

Linked(th) ==
    /\ pc[th] = "ctor"
    /\ linker' = IF Outer(th) = <<>> THEN None ELSE th
    /\ Goto(th, IF Frame(th).proxy THEN "opened" ELSE "open_end")
    /\ unsafe' = IF Frame(th).proxy THEN unsafe ELSE unsafe \cup {Frame(th).lib}
    /\ UNCHANGED <<setup, inits, monitor, writer, readers, elves, parse, slots, local, applied, listed,
                   hooked, early, cbStart, budget>>

\* Back in the proxy: bh_task_manager_post_dlopen, unless the call came from inside the
\* linker or nobody asked for it.
Opened(th) ==
    /\ pc[th] = "opened"
    /\ Goto(th, IF ~InLock(th, Outer(th)) /\ tm.posts THEN "post_rd" ELSE "post")
    /\ unsafe' = IF InLock(th, Outer(th)) \/ (~tm.posts /\ cbStart)
                 THEN unsafe \cup {Frame(th).lib} ELSE unsafe
    /\ UNCHANGED <<setup, inits, monitor, locks, elves, parse, slots, local, applied, listed, hooked,
                   early, cbStart, budget>>

PostRdLock(th) ==
    /\ pc[th] = "post_rd" /\ writer = None
    /\ readers' = readers \cup {th}
    /\ Goto(th, "post_refresh")
    /\ UNCHANGED <<setup, inits, monitor, writer, linker, elves, parse, slots, local, history, budget>>

\* bh_elf_manager_refresh with bh_task_manager_post_new_elf for each new object.
PostRefresh(th) ==
    /\ pc[th] = "post_refresh" /\ Iterable(th)
    /\ tree' = linked
    /\ local' = [local EXCEPT ![th].elfs = linked \ tree, ![th].job = "post"]
    /\ Gosub(th, "visit", "post_end")
    /\ UNCHANGED <<setup, inits, monitor, locks, linked, parse, slots, history, budget>>

PostEnd(th) ==
    /\ pc[th] = "post_end"
    /\ readers' = readers \ {th}
    /\ Set(th, "job", "user")
    /\ Goto(th, "post")
    /\ UNCHANGED <<setup, inits, monitor, writer, linker, elves, parse, slots, history, budget>>

OpenEnd(th) ==
    /\ pc[th] = "open_end"
    /\ Pop(th) /\ Return(th)
    /\ UNCHANGED <<setup, inits, monitor, locks, elves, parse, slots, history, budget>>

CloseCall(th, l) ==
    /\ l \in linked \ (InUse \cup {Libdl})
    /\ LinkerCall(th, "close", IF CloseStub \in placed /\ ~InLock(th, local[th].frames)
                               THEN "wrlock" ELSE "unlink")
    /\ Push(th, l, CloseStub)
    /\ budget.calls[th] > 0
    /\ budget' = [budget EXCEPT !.calls[th] = @ - 1, !.shut = @ \cup {l}]
    /\ UNCHANGED <<setup, inits, monitor, locks, elves, parse, slots, history>>

WrLock(th) ==
    /\ pc[th] = "wrlock" /\ writer = None /\ readers = {}
    /\ writer' = th
    /\ local' = [local EXCEPT ![th].frames[1].wrlocked = TRUE]
    /\ Goto(th, "unlink")
    /\ UNCHANGED <<setup, inits, monitor, readers, linker, elves, parse, slots, history, budget>>

\* bh_task_manager_post_dlclose follows with the write lock held, or not at all.
Unlink(th) ==
    /\ pc[th] = "unlink" /\ Iterable(th)
    /\ linked' = linked \ {Frame(th).lib}
    /\ Goto(th, IF Frame(th).proxy /\ ~InLock(th, Outer(th)) /\ tm.posts
                THEN "sync_refresh" ELSE "close_end")
    /\ UNCHANGED <<setup, inits, monitor, locks, tree, parse, slots, local, history, budget>>

SyncRefresh(th) ==
    /\ pc[th] = "sync_refresh" /\ Iterable(th)
    /\ tree' = linked
    /\ unsafe' = unsafe \cup (linked \ tree)
    /\ Goto(th, "close_end")
    /\ UNCHANGED <<setup, inits, monitor, locks, linked, parse, slots, local, applied, listed, hooked,
                   early, cbStart, budget>>

CloseEnd(th) ==
    /\ pc[th] = "close_end"
    /\ writer' = IF Frame(th).wrlocked THEN None ELSE writer
    /\ Pop(th) /\ Return(th)
    /\ UNCHANGED <<setup, inits, monitor, readers, linker, elves, parse, slots, history, budget>>

-----------------------------------------------------------------------------
Quiet == \A th \in Thread : pc[th] = "idle"

\* The threads have made all their calls.
Finished == Quiet /\ UNCHANGED vars

Step(th) ==
    \/ InitCall(th) \/ InitLock(th) \/ InitPart(th) \/ InitEnd(th)
    \/ HookCall(th) \/ HookReturn(th)
    \/ TmHook(th) \/ OneShot(th) \/ OneLocked(th) \/ OneRefresh(th) \/ OneEnd(th)
    \/ RdLock(th) \/ RdUnlock(th)
    \/ TmInit(th) \/ TmLocked(th) \/ TmStore(th) \/ TmDone(th)
    \/ DlInit(th) \/ DlLocked(th) \/ MonHook(th) \/ MonFail(th) \/ MonDone(th) \/ Uninit(th) \/ DlEnd(th)
    \/ VisitEnd(th) \/ Parse(th) \/ Parsed(th) \/ Find(th)
    \/ Store(th) \/ Leave(th) \/ Clear(th) \/ Free(th)
    \/ AddCb(th)
    \/ Pre(th) \/ Post(th) \/ Link(th) \/ Linked(th) \/ Opened(th) \/ PostRdLock(th) \/ PostRefresh(th)
    \/ PostEnd(th) \/ OpenEnd(th) \/ WrLock(th) \/ Unlink(th) \/ SyncRefresh(th) \/ CloseEnd(th)
    \/ \E l \in Lib : Visit(th, l) \/ OpenCall(th, l) \/ CloseCall(th, l)
    \/ \E j \in 1..SlotMax : Claim(th, j)
    \/ \E s \in Range(Signals) : Handler(th, s)
    \/ \E c \in Callbacks : AddCallback(th, c) \/ DelCallback(th, c)

Next == (\E th \in Thread : Step(th)) \/ Finished

Spec == Init /\ [][Next]_vars

-----------------------------------------------------------------------------
\* The type invariant.
TypeOK ==
    /\ core.status \in {"UNINIT", "OK"} \cup Parts /\ core.parts \subseteq Parts
    /\ {core.lock, tm.lock, dl.lock, one.lock, writer, linker} \subseteq Thread \cup {None}
    /\ readers \cup cbReaders \cup listed \subseteq Thread /\ hooked \subseteq listed
    /\ stubs \subseteq Range(StubSeq) /\ placed \subseteq stubs
    /\ cbs \subseteq Callbacks
    /\ linked \cup tree \cup unsafe \subseteq Lib
    /\ parse.tables \subseteq parse.parsed
    /\ writer = None \/ readers = {}
    /\ \A th \in Thread : Range(local[th].sigs) \subseteq Range(Signals)

\* In a protected section the thread's slot holds its own jump buffer, for every signal, and
\* outside it has none: a fault always jumps back into the section it came from
\* (bytesig_protect, bytesig_unprotect, bytesig_handler).
JumpsHome ==
    \A th \in Thread, s \in Range(Signals) :
      LET mine == {j \in 1..SlotMax : slots[s][j].tid = th}
      IN /\ pc[th] = "section" => Cardinality(mine) = 1 /\ \A j \in mine : slots[s][j].jbuf = th
         /\ pc[th] \notin {"claim", "store", "section", "clear", "free"} => mine = {}

\* No thread asks for the dlclose lock with the linker's lock in hand, where a thread that
\* holds the former asks for the latter; only with a mutex of unknown layout, under a call
\* that did not come through a proxy (bh_linker_is_in_lock in the proxies).
LockOrder ==
    \A th \in Thread :
      linker = th /\ pc[th] \in {"wrlock", "post_rd", "rdlock", "one"} =>
        /\ ~setup.compat
        /\ \E i \in DOMAIN local[th].frames : ~local[th].frames[i].proxy

\* Whoever gets past init_status finds every part created, and a task makes its pass over a
\* tree that holds what was loaded before (bh_core_init, oneshot_refreshed).
StartedBeforeUse ==
    \A th \in Thread :
      /\ th \in listed => core.parts = Parts
      /\ "rdunlock" \in Range(stack[th]) => (setup.loaded \cap linked) \subseteq tree \cup budget.shut

\* When all is quiet, a task whose hook call succeeded was applied to every library that is
\* loaded: however the start of the monitor, other hook calls and dlopen were interleaved,
\* only an unreadable library, one that was searched while another thread parsed it, and
\* one opened past the monitor are missed (bh_task_manager_hook, bh_dl_monitor_init).
AppliedUnlessRaced ==
    Quiet => \A th \in hooked, l \in linked :
               \/ l \in applied[th] \cup unsafe \cup parse.error
               \/ \E u \in Thread : <<u, l>> \in early

=============================================================================
