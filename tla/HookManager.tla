----------------------------- MODULE HookManager -----------------------------
(***************************************************************************)
(* The hook chains of bytehook: bh_hook.c, bh_hook_manager.c and the parts *)
(* of bh_task.c they call back (bh_task_hooked, the manual_orig_func field)*)
(*                                                                         *)
(* A thread applies one task to a set of ELFs: bh_hook_manager_hook, or    *)
(* bh_hook_manager_unhook, once per ELF.  In every ELF it takes the ELF's  *)
(* hook_lock and walks the GOT slots that import the symbol.  In automatic *)
(* mode the proxies of a slot form a chain behind a trampoline; in manual  *)
(* mode the proxy is written into the slot.                                *)
(*                                                                         *)
(* Addresses.  A slot holds the function the linker resolved (an element   *)
(* of Orig), a trampoline (the number n >= 1 of the slot's n-th chain) or, *)
(* in manual mode, a proxy (an element of Func).  All tasks are for one    *)
(* symbol: tasks for other symbols use other slots.                        *)
(***************************************************************************)
EXTENDS Naturals, Sequences, FiniteSets

CONSTANTS
    Thread,
    Elf,         \* caller ELFs, all loaded (TaskManager is about loading)
    Got,         \* GOT slots
    Orig,        \* addresses of real functions
    Func,        \* addresses of proxy functions (task->new_func)
    Task,
    GotsOf,      \* [Elf -> SUBSET Got]: the slots importing the symbol
    OrigOf,      \* [Got -> Orig]: what the linker resolved the slot to
    FuncOf,      \* [Task -> Func]: task->new_func
    CalleeOf,    \* [Task -> Orig \cup {None}]: task->callee_addr
    Modes,       \* the modes a run starts in, a subset of {"AUTO", "MANUAL"}
    ScopeOf,     \* [Task -> SUBSET Elf]: the callers the task matches
    Single,      \* the tasks of type BH_TASK_TYPE_SINGLE
    MaxPosts,    \* bound: new-ELF notifications in a run
    Faults,      \* the failures a run injects
    Invalid,     \* BH_TASK_ORIG_FUNC_INVALID
    None         \* NULL; for an original function BH_TASK_ORIG_FUNC_UNSET

AllFaults ==
    {"read", "new_trampo", "append", "verify", "prot", "set_got", "cfi"}

Mutable == Orig \cup Func        \* what manual mode can find in a slot

ASSUME HookManagerAssumption ==
    /\ GotsOf \in [Elf -> SUBSET Got]
    /\ \A d, e \in Elf : d # e => GotsOf[d] \cap GotsOf[e] = {}
    /\ OrigOf \in [Got -> Orig]
    /\ FuncOf \in [Task -> Func]
    /\ CalleeOf \in [Task -> Orig \cup {None}]
    /\ Modes \subseteq {"AUTO", "MANUAL"}
    /\ Faults \subseteq AllFaults
    /\ ScopeOf \in [Task -> SUBSET Elf]
    /\ Single \subseteq Task
    /\ MaxPosts \in Nat
    /\ \A f \in Mutable : f \notin Nat
    /\ Invalid \notin Mutable \cup Nat \cup {None}
    /\ None \notin Mutable \cup Nat \cup Thread \cup Elf \cup Got \cup Task

VARIABLES
    mode,        \* bh_core.mode
    got,         \* the GOT slots
    hooks,       \* the hooks tree: the slot's chain, 0 if it has none
    chains,      \* every chain created for the slot, those abandoned too
    error,       \* elf->error
    cfi,         \* elf->cfi_hooked and cfi_hooked_ok: "no", "ok", "failed"
    hook_lock,   \* elf->hook_lock
    manual_orig, \* task->manual_orig_func
    phase,       \* the task: "new", "hooking" (on the list, its hook call has
                 \* not returned), "listed", "unhooking", "gone" (destroyed)
    posts,       \* how many new-ELF notifications came so far
    code,        \* task->hook_status_code, kept for single tasks only
    pc,          \* where the thread is
    job,         \* the task it applies and the ELFs that are left
    walk,        \* the slots of the ELF that are left, and everything_ok
    patched      \* history: the slots on which a task's hook succeeded, and
                 \* the address each held before

chainVars == <<got, hooks, chains>>
taskVars == <<manual_orig, phase, code>>
vars == <<mode, got, hooks, chains, error, cfi, hook_lock, manual_orig, phase,
          posts, code, pc, job, walk, patched>>

Codes == {"MAX", "OK", "READ_ELF", "CFI_HOOK_FAILED", "NOSYM", "NEW_TRAMPO",
          "APPEND_TRAMPO", "REPEATED_FUNC", "GOT_VERIFY", "SET_PROT", "SET_GOT"}

\* bh_hook_call_t, and bh_hook_t with its running_list.  The list is kept
\* oldest entry first: SLIST_FIRST is the last element.
Entry == [func : Func, task : Task, enabled : BOOLEAN]
Chain == [orig : Orig \cup Nat, list : Seq(Entry)]
Job == [task : Task, op : {"hook", "hook_elf", "unhook"}, elfs : SUBSET Elf]
Walk == [elf : Elf, todo : SUBSET Got, slot : Got \cup {None}, ok : BOOLEAN]

TypeOK ==
    /\ mode \in {"AUTO", "MANUAL"}
    /\ got \in [Got -> Mutable \cup Nat]
    /\ hooks \in [Got -> Nat]
    /\ chains \in [Got -> Seq(Chain)]
    /\ error \in [Elf -> BOOLEAN]
    /\ cfi \in [Elf -> {"no", "ok", "failed"}]
    /\ hook_lock \in [Elf -> Thread \cup {None}]
    /\ manual_orig \in [Task -> Mutable \cup {None, Invalid}]
    /\ phase \in [Task -> {"new", "hooking", "listed", "unhooking", "gone"}]
    /\ posts \in 0..MaxPosts
    /\ code \in [Task -> Codes]
    /\ pc \in [Thread -> {"idle", "elf", "lock", "slot", "replace", "restore"}]
    /\ job \in [Thread -> Job \cup {None}]
    /\ walk \in [Thread -> Walk \cup {None}]
    /\ patched \subseteq (Task \X Got \X (Mutable \cup Nat))

Init ==
    /\ mode \in Modes
    /\ got = OrigOf
    /\ hooks = [g \in Got |-> 0]
    /\ chains = [g \in Got |-> <<>>]
    /\ error = [e \in Elf |-> FALSE]
    /\ cfi = [e \in Elf |-> "no"]
    /\ hook_lock = [e \in Elf |-> None]
    /\ manual_orig = [t \in Task |-> None]
    /\ phase = [t \in Task |-> "new"]
    /\ posts = 0
    /\ code = [t \in Task |-> "MAX"]
    /\ pc = [th \in Thread |-> "idle"]
    /\ job = [th \in Thread |-> None]
    /\ walk = [th \in Thread |-> None]
    /\ patched = {}

-----------------------------------------------------------------------------
(* bh_hook.c                                                               *)

Enabled(c) == {i \in 1..Len(c.list) : c.list[i].enabled}

\* Mutant: only the newest entry is compared.
RepeatedNewestOnly(c, f) ==
    c.list # <<>> /\ c.list[Len(c.list)].enabled /\ c.list[Len(c.list)].func = f

Repeated(c, f) == \E i \in Enabled(c) : c.list[i].func = f

EntriesOf(c, f, t) ==
    {i \in 1..Len(c.list) : c.list[i].func = f /\ c.list[i].task = t}

\* bh_hook_add_func once the repeated check passed: re-enable or insert.
HookAddFunc(c, f, t) ==
    IF EntriesOf(c, f, t) # {}
    THEN [c EXCEPT !.list =
            [i \in 1..Len(c.list) |->
                IF i \in EntriesOf(c, f, t)
                THEN [c.list[i] EXCEPT !.enabled = TRUE]
                ELSE c.list[i]]]
    ELSE [c EXCEPT !.list =
            Append(c.list, [func |-> f, task |-> t, enabled |-> TRUE])]

\* Mutants of bh_hook_del_func: it stops at the oldest entry of the function; it
\* forgets to compare the function.
HookDelFuncOldestOnly(c, f) ==
    [c EXCEPT !.list =
        [i \in 1..Len(c.list) |->
            IF /\ c.list[i].func = f
               /\ \A j \in 1..(i - 1) : c.list[j].func # f
            THEN [c.list[i] EXCEPT !.enabled = FALSE]
            ELSE c.list[i]]]

HookDelFuncAny(c, f) ==
    [c EXCEPT !.list =
        [i \in 1..Len(c.list) |-> [c.list[i] EXCEPT !.enabled = FALSE]]]

\* bh_hook_del_func: every entry of the function, whoever added it.
HookDelFunc(c, f) ==
    [c EXCEPT !.list =
        [i \in 1..Len(c.list) |->
            IF c.list[i].func = f
            THEN [c.list[i] EXCEPT !.enabled = FALSE]
            ELSE c.list[i]]]

-----------------------------------------------------------------------------
(* Threads: one task, a set of ELFs                                        *)

TaskOf(th) == job[th].task
Hooking(th) == job[th].op \in {"hook", "hook_elf"}
ElfOf(th) == walk[th].elf

\* bh_task_hooked saves the code of a single task unless it is unhooking.
TaskHooked(t, c) ==
    code' = IF t \in Single /\ phase[t] # "unhooking"
            THEN [code EXCEPT ![t] = c] ELSE code

\* bh_hook_manager_find_all_got: by name, or by the current value of the slot.
FindAllGot(t, e) ==
    IF error[e] THEN {}
    ELSE IF CalleeOf[t] = None THEN GotsOf[e]
    ELSE {g \in GotsOf[e] : got[g] = CalleeOf[t]}

\* bh_task_hook: the hook call applies the task to every ELF it matches.
HookBegin(th, t) ==
    /\ pc[th] = "idle"
    /\ phase[t] = "new"
    /\ pc' = [pc EXCEPT ![th] = "elf"]
    /\ job' = [job EXCEPT ![th] =
                 [task |-> t, op |-> "hook", elfs |-> ScopeOf[t]]]
    /\ phase' = [phase EXCEPT ![t] = "hooking"]
    /\ UNCHANGED <<mode, chainVars, error, cfi, hook_lock, manual_orig, posts,
                   code, walk, patched>>

\* bh_task_hook_elf: a thread that found a new ELF applies the listed task to
\* it, perhaps while the hook call is applying it to the same ELF.
HookElfBegin(th, t, e) ==
    /\ pc[th] = "idle"
    /\ phase[t] \in {"hooking", "listed"}
    /\ e \in ScopeOf[t]
    /\ posts < MaxPosts
    /\ pc' = [pc EXCEPT ![th] = "elf"]
    /\ job' = [job EXCEPT ![th] = [task |-> t, op |-> "hook_elf", elfs |-> {e}]]
    /\ posts' = posts + 1
    /\ UNCHANGED <<mode, chainVars, error, cfi, hook_lock, taskVars, walk, patched>>

\* Mutant: manual mode goes on with nothing to restore.
UnhookBeginUnchecked(th, t) ==
    /\ pc[th] = "idle"
    /\ phase[t] = "listed"
    /\ \A u \in Thread : pc[u] # "idle" => TaskOf(u) # t
    /\ phase' = [phase EXCEPT ![t] = "unhooking"]
    /\ pc' = [pc EXCEPT ![th] = "elf"]
    /\ job' = [job EXCEPT ![th] =
                 [task |-> t, op |-> "unhook", elfs |-> ScopeOf[t]]]
    /\ UNCHANGED <<mode, chainVars, error, cfi, hook_lock, manual_orig, posts,
                   code, walk, patched>>

\* bh_task_unhook.  The task is off the list and no thread applies it any more
\* (TaskManager).  Manual mode returns early when it has nothing to restore.
UnhookBegin(th, t) ==
    /\ pc[th] = "idle"
    /\ phase[t] = "listed"
    /\ \A u \in Thread : pc[u] # "idle" => TaskOf(u) # t
    /\ IF mode = "MANUAL" /\ manual_orig[t] \in {None, Invalid}
       THEN /\ phase' = [phase EXCEPT ![t] = "gone"]
            /\ UNCHANGED <<pc, job>>
       ELSE /\ phase' = [phase EXCEPT ![t] = "unhooking"]
            /\ pc' = [pc EXCEPT ![th] = "elf"]
            /\ job' = [job EXCEPT ![th] =
                         [task |-> t, op |-> "unhook", elfs |-> ScopeOf[t]]]
    /\ UNCHANGED <<mode, chainVars, error, cfi, hook_lock, manual_orig, posts,
                   code, walk, patched>>

\* The last ELF is done: the call returns its stub, or destroys the task.
Finish(th) ==
    /\ pc[th] = "elf"
    /\ job[th].elfs = {}
    /\ pc' = [pc EXCEPT ![th] = "idle"]
    /\ job' = [job EXCEPT ![th] = None]
    /\ phase' = [phase EXCEPT ![TaskOf(th)] =
                    CASE job[th].op = "unhook" -> "gone"
                      [] job[th].op = "hook"   -> "listed"
                      [] OTHER                 -> @]
    /\ UNCHANGED <<mode, chainVars, error, cfi, hook_lock, manual_orig, posts,
                   code, walk, patched>>

NextElf(th, e) == [job EXCEPT ![th].elfs = @ \ {e}]

\* The early returns of bh_hook_manager_hook and bh_hook_manager_hook_impl.
HookRefused(th, e) ==
    /\ pc[th] = "elf"
    /\ e \in job[th].elfs
    /\ Hooking(th)
    /\ \/ error[e] /\ TaskHooked(TaskOf(th), "READ_ELF")
       \/ /\ ~error[e] /\ cfi[e] = "failed"
          /\ TaskHooked(TaskOf(th), "CFI_HOOK_FAILED")
       \/ /\ ~error[e] /\ cfi[e] = "ok"
          /\ FindAllGot(TaskOf(th), e) = {}
          /\ TaskHooked(TaskOf(th), "NOSYM")
    /\ job' = NextElf(th, e)
    /\ UNCHANGED <<mode, posts, chainVars, error, cfi, hook_lock, manual_orig, phase,
                   pc, walk, patched>>

\* Looking the slots up faults (bh_elf_find_import_func_addr_by_*): the ELF is
\* marked and the lookup finds nothing.
FindFault(th, e) ==
    /\ pc[th] = "elf"
    /\ e \in job[th].elfs
    /\ "read" \in Faults
    /\ ~error[e] /\ (Hooking(th) => cfi[e] = "ok")
    /\ error' = [error EXCEPT ![e] = TRUE]
    /\ TaskHooked(TaskOf(th), "NOSYM")
    /\ job' = NextElf(th, e)
    /\ UNCHANGED <<mode, posts, chainVars, cfi, hook_lock, manual_orig, phase, pc,
                   walk, patched>>

\* bh_hook_manager_hook_cfi, once per ELF under cfi_hook_lock: two internal
\* tasks for __cfi_slowpath and __cfi_slowpath_diag, with slots of their own.
HookCfi(th, e) ==
    /\ pc[th] = "elf"
    /\ e \in job[th].elfs
    /\ Hooking(th)
    /\ ~error[e] /\ cfi[e] = "no"
    /\ \/ cfi' = [cfi EXCEPT ![e] = "ok"]
       \/ "cfi" \in Faults /\ cfi' = [cfi EXCEPT ![e] = "failed"]
    /\ UNCHANGED <<mode, posts, chainVars, error, hook_lock, taskVars, pc, job, walk,
                   patched>>

\* bh_hook_manager_unhook finds no slot: the ELF is in error.
UnhookRefused(th, e) ==
    /\ pc[th] = "elf"
    /\ e \in job[th].elfs
    /\ job[th].op = "unhook"
    /\ error[e] \/ GotsOf[e] = {}
    /\ job' = NextElf(th, e)
    /\ UNCHANGED <<mode, posts, chainVars, error, cfi, hook_lock, taskVars, pc, walk,
                   patched>>

\* The slots are looked up before the lock is taken; unhook goes by name only.
FindSlots(th, e) ==
    LET found == IF Hooking(th) THEN FindAllGot(TaskOf(th), e)
                 ELSE IF error[e] THEN {} ELSE GotsOf[e]
    IN  /\ pc[th] = "elf"
        /\ e \in job[th].elfs
        /\ Hooking(th) => ~error[e] /\ cfi[e] = "ok"
        /\ found # {}
        /\ pc' = [pc EXCEPT ![th] = "lock"]
        /\ job' = NextElf(th, e)
        /\ walk' = [walk EXCEPT ![th] =
                      [elf |-> e, todo |-> found, slot |-> None, ok |-> TRUE]]
        /\ UNCHANGED <<mode, posts, chainVars, error, cfi, hook_lock, taskVars, patched>>

\* bh_elf_hook_lock
Lock(th) ==
    /\ pc[th] = "lock"
    /\ hook_lock[ElfOf(th)] = None
    /\ hook_lock' = [hook_lock EXCEPT ![ElfOf(th)] = th]
    /\ pc' = [pc EXCEPT ![th] = "slot"]
    /\ UNCHANGED <<mode, posts, chainVars, error, cfi, taskVars, job, walk, patched>>

\* bh_elf_hook_unlock and the final callback, once, if everything_ok.
Unlock(th) ==
    /\ pc[th] = "slot"
    /\ walk[th].todo = {}
    /\ hook_lock' = [hook_lock EXCEPT ![ElfOf(th)] = None]
    /\ pc' = [pc EXCEPT ![th] = "elf"]
    /\ walk' = [walk EXCEPT ![th] = None]
    /\ IF walk[th].ok THEN TaskHooked(TaskOf(th), "OK") ELSE UNCHANGED code
    /\ UNCHANGED <<mode, posts, chainVars, error, cfi, manual_orig, phase, job, patched>>

\* The thread is done with slot g of its ELF; r tells whether it succeeded.
SlotDone(th, g, r) ==
    /\ pc' = [pc EXCEPT ![th] = "slot"]
    /\ walk' = [walk EXCEPT ![th].todo = @ \ {g}, ![th].slot = None,
                            ![th].ok = @ /\ r]

HookSlot(th, g) == pc[th] = "slot" /\ g \in walk[th].todo /\ Hooking(th)

UnhookSlot(th, g) ==
    pc[th] = "slot" /\ g \in walk[th].todo /\ job[th].op = "unhook"

\* Reading the slot faults (hook_single_got and unhook_single_got).
ReadFault(th, g) ==
    /\ pc[th] = "slot"
    /\ g \in walk[th].todo
    /\ "read" \in Faults
    /\ error' = [error EXCEPT ![ElfOf(th)] = TRUE]
    /\ TaskHooked(TaskOf(th), "READ_ELF")
    /\ SlotDone(th, g, FALSE)
    /\ UNCHANGED <<mode, posts, chainVars, cfi, hook_lock, manual_orig, phase, job, patched>>

-----------------------------------------------------------------------------
(* Automatic mode                                                          *)

Cur(g) == chains[g][hooks[g]]

\* bh_hook_manager_add_func finds the chain in the tree: trampo stays NULL.
AddFuncFound(th, g) ==
    LET t == TaskOf(th) f == FuncOf[t]
    IN  /\ HookSlot(th, g) /\ mode = "AUTO"
        /\ hooks[g] # 0
        /\ ~Repeated(Cur(g), f)
        /\ chains' = [chains EXCEPT ![g][hooks[g]] = HookAddFunc(Cur(g), f, t)]
        /\ patched' = patched \cup {<<t, g, got[g]>>}
        /\ SlotDone(th, g, TRUE)
        /\ UNCHANGED <<mode, posts, got, hooks, error, cfi, hook_lock, taskVars, job>>

\* bh_hook_manager_add_func refuses: the function is enabled in the chain.
AddFuncRepeated(th, g) ==
    /\ HookSlot(th, g) /\ mode = "AUTO"
    /\ hooks[g] # 0
    /\ Repeated(Cur(g), FuncOf[TaskOf(th)])
    /\ TaskHooked(TaskOf(th), "REPEATED_FUNC")
    /\ SlotDone(th, g, FALSE)
    /\ UNCHANGED <<mode, posts, chainVars, error, cfi, hook_lock, manual_orig, phase,
                   job, patched>>

\* bh_hook_manager_add_func creates the chain and its trampoline; the slot is
\* patched in a later step.
AddFuncCreated(th, g) ==
    LET t == TaskOf(th)
        c == [orig |-> got[g], list |-> <<>>]
    IN  /\ HookSlot(th, g) /\ mode = "AUTO"
        /\ hooks[g] = 0
        /\ chains' = [chains EXCEPT ![g] = Append(@, HookAddFunc(c, FuncOf[t], t))]
        /\ hooks' = [hooks EXCEPT ![g] = Len(chains[g]) + 1]
        /\ pc' = [pc EXCEPT ![th] = "replace"]
        /\ walk' = [walk EXCEPT ![th].slot = g]
        /\ UNCHANGED <<mode, posts, got, error, cfi, hook_lock, taskVars, job, patched>>

\* bh_hook_manager_create_hook fails: no chain.
CreateFails(th, g) ==
    /\ HookSlot(th, g) /\ mode = "AUTO"
    /\ hooks[g] = 0
    /\ "new_trampo" \in Faults
    /\ TaskHooked(TaskOf(th), "NEW_TRAMPO")
    /\ SlotDone(th, g, FALSE)
    /\ UNCHANGED <<mode, posts, chainVars, error, cfi, hook_lock, manual_orig, phase,
                   job, patched>>

\* bh_hook_add_func cannot allocate the entry.  A chain created just before
\* stays in the tree, empty, and its slot is not patched.
AppendFails(th, g) ==
    /\ HookSlot(th, g) /\ mode = "AUTO"
    /\ "append" \in Faults
    /\ \/ /\ hooks[g] # 0
          /\ ~Repeated(Cur(g), FuncOf[TaskOf(th)])
          /\ EntriesOf(Cur(g), FuncOf[TaskOf(th)], TaskOf(th)) = {}
          /\ UNCHANGED <<chains, hooks>>
       \/ /\ hooks[g] = 0
          /\ chains' = [chains EXCEPT
                          ![g] = Append(@, [orig |-> got[g], list |-> <<>>])]
          /\ hooks' = [hooks EXCEPT ![g] = Len(chains[g]) + 1]
    /\ TaskHooked(TaskOf(th), "APPEND_TRAMPO")
    /\ SlotDone(th, g, FALSE)
    /\ UNCHANGED <<mode, posts, got, error, cfi, hook_lock, manual_orig, phase, job, patched>>

\* Mutant: the value in the slot is not verified.
MayVerifyAny(v) == TRUE

\* bh_hook_manager_verify_got_value: dladdr does not know a trampoline, and
\* knows a proxy only if its library exports it.  (For the functions of libdl,
\* which verification lets pass, see the README.)
MayVerify(v) == v \in Mutable
MayFailVerify(v) == v \notin Orig \/ "verify" \in Faults

\* What bh_hook_manager_replace_got_value reports when it fails; GET_PROT and
\* SET_PROT are one failure.
ReplaceFailures(v, op) ==
    (IF op = "hook" /\ MayFailVerify(v) THEN {"GOT_VERIFY"} ELSE {})
      \cup (IF (op = "hook" => MayVerify(v)) /\ "prot" \in Faults
            THEN {"SET_PROT"} ELSE {})
      \cup (IF (op = "hook" => MayVerify(v)) /\ "set_got" \in Faults
            THEN {"SET_GOT"} ELSE {})

\* A SIGSEGV on the write marks the ELF.
ErrorAfter(e, r) == IF r = "SET_GOT" THEN [error EXCEPT ![e] = TRUE] ELSE error

\* Mutant: the chain leaves the tree when its newest entry is disabled.
ChainDelNewest(g, f) ==
    LET c == HookDelFunc(Cur(g), f)
    IN  /\ chains' = [chains EXCEPT ![g][hooks[g]] = c]
        /\ hooks' = IF c.list = <<>> \/ ~c.list[Len(c.list)].enabled
                    THEN [hooks EXCEPT ![g] = 0] ELSE hooks

\* bh_hook_manager_del_func: the chain leaves the tree when nothing in it is
\* enabled any more.
ChainDel(g, f) ==
    LET c == HookDelFunc(Cur(g), f)
    IN  /\ chains' = [chains EXCEPT ![g][hooks[g]] = c]
        /\ hooks' = IF Enabled(c) = {} THEN [hooks EXCEPT ![g] = 0] ELSE hooks

\* hook_single_got: the trampoline goes into the slot.
Replace(th) ==
    LET g == walk[th].slot
    IN  /\ pc[th] = "replace"
        /\ MayVerify(got[g])
        /\ got' = [got EXCEPT ![g] = hooks[g]]
        /\ patched' = patched \cup {<<TaskOf(th), g, got[g]>>}
        /\ SlotDone(th, g, TRUE)
        /\ UNCHANGED <<mode, posts, hooks, chains, error, cfi, hook_lock, taskVars, job>>

\* hook_single_got: the slot could not be patched, the function is taken back.
ReplaceFails(th) ==
    LET g == walk[th].slot
    IN  /\ pc[th] = "replace"
        /\ \E r \in ReplaceFailures(got[g], "hook") :
              /\ error' = ErrorAfter(ElfOf(th), r)
              /\ TaskHooked(TaskOf(th), r)
        /\ ChainDel(g, FuncOf[TaskOf(th)])
        /\ SlotDone(th, g, FALSE)
        /\ UNCHANGED <<mode, posts, got, cfi, hook_lock, manual_orig, phase, job, patched>>

\* unhook_single_got, the slot has no chain: del_func fails.
DelFuncNone(th, g) ==
    /\ UnhookSlot(th, g) /\ mode = "AUTO"
    /\ hooks[g] = 0
    /\ SlotDone(th, g, FALSE)
    /\ UNCHANGED <<mode, posts, chainVars, error, cfi, hook_lock, taskVars, job, patched>>

\* unhook_single_got: the function is disabled.  The last one of the chain is
\* followed by restoring the slot.
DelFunc(th, g) ==
    LET f == FuncOf[TaskOf(th)]
        last == Enabled(HookDelFunc(Cur(g), f)) = {}
    IN  /\ UnhookSlot(th, g) /\ mode = "AUTO"
        /\ hooks[g] # 0
        /\ ChainDel(g, f)
        /\ IF last THEN /\ pc' = [pc EXCEPT ![th] = "restore"]
                        /\ walk' = [walk EXCEPT ![th].slot = g]
                   ELSE SlotDone(th, g, TRUE)
        /\ UNCHANGED <<mode, posts, got, error, cfi, hook_lock, taskVars, job, patched>>

\* The address that bh_hook_manager_del_func returns for the chain it dropped.
RestoreFunc(g) == chains[g][Len(chains[g])].orig

\* unhook_single_got: the original address goes back, or the write fails.
Restore(th) ==
    LET g == walk[th].slot
    IN  /\ pc[th] = "restore"
        /\ \/ /\ got' = [got EXCEPT ![g] = RestoreFunc(g)]
              /\ SlotDone(th, g, TRUE)
              /\ UNCHANGED error
           \/ \E r \in ReplaceFailures(got[g], "unhook") :
                /\ error' = ErrorAfter(ElfOf(th), r)
                /\ SlotDone(th, g, FALSE)
                /\ UNCHANGED got
        /\ UNCHANGED <<mode, posts, hooks, chains, cfi, hook_lock, taskVars, job, patched>>

-----------------------------------------------------------------------------
(* Manual mode                                                             *)

\* Mutant: the first address is kept on a mismatch.
ManualOrigFirst(t, v) ==
    IF manual_orig[t] = None THEN v ELSE manual_orig[t]

\* bh_task_set_manual_orig_func
ManualOrigAfter(t, v) ==
    CASE manual_orig[t] = None -> v
      [] manual_orig[t] \notin {None, Invalid, v} -> Invalid
      [] OTHER -> manual_orig[t]

\* hook_single_got in manual mode: patch, then remember the old address.
ManualHook(th, g) ==
    LET t == TaskOf(th)
    IN  /\ HookSlot(th, g) /\ mode = "MANUAL"
        /\ MayVerify(got[g])
        /\ got' = [got EXCEPT ![g] = FuncOf[t]]
        /\ manual_orig' = [manual_orig EXCEPT ![t] = ManualOrigAfter(t, got[g])]
        /\ patched' = patched \cup {<<t, g, got[g]>>}
        /\ SlotDone(th, g, TRUE)
        /\ UNCHANGED <<mode, posts, hooks, chains, error, cfi, hook_lock, phase, code, job>>

ManualHookFails(th, g) ==
    /\ HookSlot(th, g) /\ mode = "MANUAL"
    /\ \E r \in ReplaceFailures(got[g], "hook") :
          /\ error' = ErrorAfter(ElfOf(th), r)
          /\ TaskHooked(TaskOf(th), r)
    /\ SlotDone(th, g, FALSE)
    /\ UNCHANGED <<mode, posts, chainVars, cfi, hook_lock, manual_orig, phase, job, patched>>

\* unhook_single_got in manual mode: the task's one remembered address goes
\* into every slot of the symbol.
ManualUnhook(th, g) ==
    /\ UnhookSlot(th, g) /\ mode = "MANUAL"
    /\ \/ /\ got' = [got EXCEPT ![g] = manual_orig[TaskOf(th)]]
          /\ SlotDone(th, g, TRUE)
          /\ UNCHANGED error
       \/ \E r \in ReplaceFailures(got[g], "unhook") :
            /\ error' = ErrorAfter(ElfOf(th), r)
            /\ SlotDone(th, g, FALSE)
            /\ UNCHANGED got
    /\ UNCHANGED <<mode, posts, hooks, chains, cfi, hook_lock, taskVars, job, patched>>

-----------------------------------------------------------------------------

SlotStep(th, g) ==
    \/ ReadFault(th, g)
    \/ AddFuncFound(th, g)
    \/ AddFuncRepeated(th, g)
    \/ AddFuncCreated(th, g)
    \/ CreateFails(th, g)
    \/ AppendFails(th, g)
    \/ DelFuncNone(th, g)
    \/ DelFunc(th, g)
    \/ ManualHook(th, g)
    \/ ManualHookFails(th, g)
    \/ ManualUnhook(th, g)

ElfStep(th, e) ==
    \/ HookRefused(th, e)
    \/ FindFault(th, e)
    \/ HookCfi(th, e)
    \/ UnhookRefused(th, e)
    \/ FindSlots(th, e)

\* A step of a call that has begun.
Progress(th) ==
    \/ \E e \in Elf : ElfStep(th, e)
    \/ \E g \in Got : SlotStep(th, g)
    \/ Lock(th)
    \/ Unlock(th)
    \/ Replace(th)
    \/ ReplaceFails(th)
    \/ Restore(th)
    \/ Finish(th)

\* No call is in progress, and none has to come.
Quiet == (\A th \in Thread : pc[th] = "idle") /\ UNCHANGED vars

Next ==
    \/ \E th \in Thread :
        \/ Progress(th)
        \/ \E t \in Task : HookBegin(th, t) \/ UnhookBegin(th, t)
        \/ \E t \in Task, e \in Elf : HookElfBegin(th, t, e)
    \/ Quiet

Spec == Init /\ [][Next]_vars

-----------------------------------------------------------------------------
(* Properties                                                              *)

ChainNos(g) == 1..Len(chains[g])

\* In a chain no function is enabled twice (bh_hook_add_func's repeated check
\* together with its re-enabling of old entries): bh_trampo_get_prev_func looks
\* an entry up by its function alone.
UniqueEnabled ==
    \A g \in Got : \A n \in ChainNos(g) :
        \A i, j \in Enabled(chains[g][n]) :
            chains[g][n].list[i].func = chains[g][n].list[j].func => i = j

\* A chain that left the tree never runs a proxy again, although its trampoline
\* stays mapped and may still be in the slot when restoring it failed
\* (bh_hook_manager_del_func, unhook_single_got).
AbandonedInert ==
    \A g \in Got : \A n \in ChainNos(g) \ {hooks[g]} : Enabled(chains[g][n]) = {}

\* In automatic mode a call through the slot ends in the function the linker
\* resolved, whatever hooks, unhooks and failures the slot went through: the
\* slot holds it, or a trampoline whose chain has it as orig_func.
OrigKept ==
    mode = "AUTO" => \A g \in Got :
        \/ got[g] = OrigOf[g]
        \/ got[g] \in ChainNos(g) /\ chains[g][got[g]].orig = OrigOf[g]

\* No proxy outlives its task: an enabled entry belongs to a task that has not
\* been destroyed by bh_core_unhook, unless its ELF is in error (unhook skips
\* such an ELF).
GoneSilent ==
    \A e \in Elf : ~error[e] =>
        \A g \in GotsOf[e] : \A n \in ChainNos(g) :
            \A i \in Enabled(chains[g][n]) :
                phase[chains[g][n].list[i].task] # "gone"

Unshared(t) == \A u \in Task \ {t} : FuncOf[u] # FuncOf[t]

\* A slot on which hooking returned 0 really calls the proxy until the task is
\* unhooked: its trampoline is in place and its entry enabled.  For a proxy
\* that no other task uses: bh_hook_del_func disables by function.
HookTakesEffect ==
    mode = "AUTO" => \A p \in patched :
        LET t == p[1] g == p[2]
        IN  Unshared(t) /\ phase[t] \in {"hooking", "listed"} =>
                /\ hooks[g] # 0
                /\ got[g] = hooks[g]
                /\ Repeated(Cur(g), FuncOf[t])

\* In manual mode the address a task will restore is the one found in every
\* slot it patched (bh_task_set_manual_orig_func drops it on a mismatch).
ManualOrigAgrees ==
    mode = "MANUAL" => \A p \in patched : manual_orig[p[1]] \in {Invalid, p[3]}

=============================================================================
