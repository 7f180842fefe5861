----------------------------- MODULE TaskManager -----------------------------
(***************************************************************************)
(* Tasks, ELF objects and the locks between them: bh_core.c (hook, unhook),*)
(* bh_task.c, bh_task_manager.c, bh_elf_manager.c and the proxies of       *)
(* bh_dl_monitor.c for dlopen and dlclose.                                 *)
(*                                                                         *)
(* Threads hook and unhook tasks, and open and close libraries.  The ELF   *)
(* manager keeps one bh_elf_t per pathname in a tree that each dlopen and  *)
(* dlclose brings up to date with the linker's list.  Three locks: the     *)
(* dlclose rwlock (read: use ELF objects; write: dlclose), the rwlock of   *)
(* the task list, and the ELF manager's elfs_lock.  The last one and every *)
(* write section of the list are held over no other lock and are one step. *)
(*                                                                         *)
(* A pathname is loaded, closed and loaded again; gen counts its loads and *)
(* <<p, k>> is the ELF object created for the k-th.  Applying a task to one*)
(* ELF is one step here; its inside is HookManager.                        *)
(***************************************************************************)
EXTENDS Naturals, FiniteSets

CONSTANTS
    Thread,
    Path,
    Loaded0,       \* the pathnames loaded when the monitor starts
    MaxGen,        \* bound: loads of a pathname
    Task,
    Single,        \* the tasks of type SINGLE; the others are PARTIAL or ALL
    ScopeOf,       \* [Task -> SUBSET Path]: the callers a task matches
    Ignorable,     \* the pathnames given to bytehook_add_ignore
    CreateMayFail, \* may bh_elf_create fail?
    None

Elf == Path \X (1..MaxGen)

ASSUME TaskManagerAssumption ==
    /\ Loaded0 \subseteq Path
    /\ MaxGen \in Nat \ {0}
    /\ Single \subseteq Task
    /\ ScopeOf \in [Task -> SUBSET Path]
    /\ \A t \in Single : \A p, q \in ScopeOf[t] : p = q
    /\ Ignorable \subseteq Path
    /\ CreateMayFail \in BOOLEAN
    /\ None \notin Thread \cup Path \cup Task \cup Elf

VARIABLES
    loaded,     \* is the pathname in the linker's list?
    gen,        \* how often it has been loaded
    tree,       \* self->elfs: the load the pathname's object is for, 0: none
    abandoned,  \* self->abandoned_elfs
    destroyed,  \* the objects given to bh_elf_destroy
    ignored,    \* self->blocklist
    phase,      \* the task: "new", "listed" (its hook call runs), "stub" (the
                \* caller has its stub), "off" (removed from the list), "freed"
    finished,   \* task->status = FINISHED
    hooked,     \* <<t, p, k>>: the task is in place in the k-th load of p
    missed,     \* history: <<t, p, k>> where the object <<p, k>> entered the
                \* tree without a notification while t was listed
    writer,     \* bh_dl_monitor_dlclose_lock
    readers,
    list_readers, \* self->lock of the task manager
    pc,
    task,       \* the task a hook or unhook call is for
    path,       \* the library a dlopen or dlclose call is for
    elfs,       \* the ELF objects the call has still to visit
    elf,        \* the ELF object the notification is for
    todo        \* the tasks the notification has still to apply

linkVars == <<loaded, gen>>
elfVars == <<tree, abandoned, destroyed, ignored, missed>>
taskVars == <<phase, finished, hooked>>
lockVars == <<writer, readers, list_readers>>
callVars == <<task, path, elfs, elf, todo>>
vars == <<loaded, gen, tree, abandoned, destroyed, ignored, phase, finished,
          hooked, missed, writer, readers, list_readers, pc, task, path, elfs,
          elf, todo>>

PC == {"idle", "add", "hook_rd", "hook", "del", "unhook_rd", "unhook",
       "open_rd", "post", "post_elf", "close_wr", "close", "closed"}

TypeOK ==
    /\ loaded \in [Path -> BOOLEAN]
    /\ gen \in [Path -> 0..MaxGen]
    /\ tree \in [Path -> 0..MaxGen]
    /\ abandoned \subseteq Elf
    /\ destroyed \subseteq Elf
    /\ ignored \subseteq Path
    /\ phase \in [Task -> {"new", "listed", "stub", "off", "freed"}]
    /\ finished \subseteq Single
    /\ hooked \subseteq (Task \X Path \X (1..MaxGen))
    /\ missed \subseteq (Task \X Path \X (1..MaxGen))
    /\ writer \in Thread \cup {None}
    /\ readers \subseteq Thread
    /\ list_readers \subseteq Thread
    /\ pc \in [Thread -> PC]
    /\ task \in [Thread -> Task \cup {None}]
    /\ path \in [Thread -> Path \cup {None}]
    /\ elfs \in [Thread -> SUBSET Elf]
    /\ elf \in [Thread -> Elf \cup {None}]
    /\ todo \in [Thread -> SUBSET Task]

\* The DL monitor is up: its first internal task refreshed the tree once.
Init ==
    /\ loaded = [p \in Path |-> p \in Loaded0]
    /\ gen = [p \in Path |-> IF p \in Loaded0 THEN 1 ELSE 0]
    /\ tree = gen
    /\ abandoned = {}
    /\ destroyed = {}
    /\ ignored = {}
    /\ phase = [t \in Task |-> "new"]
    /\ finished = {}
    /\ hooked = {}
    /\ missed = {}
    /\ writer = None
    /\ readers = {}
    /\ list_readers = {}
    /\ pc = [th \in Thread |-> "idle"]
    /\ task = [th \in Thread |-> None]
    /\ path = [th \in Thread |-> None]
    /\ elfs = [th \in Thread |-> {}]
    /\ elf = [th \in Thread |-> None]
    /\ todo = [th \in Thread |-> {}]

Goto(th, l) == pc' = [pc EXCEPT ![th] = l]

-----------------------------------------------------------------------------
(* The dlclose lock and the ELF manager                                    *)

RdLock(th) == writer = None /\ readers' = readers \cup {th}
RdUnlock(th) == readers' = readers \ {th}

InTree == {o \in Elf : tree[o[1]] = o[2]}

\* bh_elf_manager_find_elf and bh_elf_manager_iterate copy the objects the task
\* can match, under elfs_lock; they are visited without it.
CopyElfs(t) == {o \in InTree : o[1] \in ScopeOf[t]}

\* bh_elf_manager_iterate_cb: the pathnames the linker lists, less the ignored.
Existing == {p \in Path : loaded[p] /\ p \notin ignored}

\* bh_elf_create may fail; the ELF is then new again at the next refresh.
Newborns == LET new == {p \in Existing : tree[p] = 0}
            IN  IF CreateMayFail THEN SUBSET new ELSE {new}

\* bh_elf_manager_refresh under elfs_lock: objects are made for new pathnames,
\* found by pathname for the others, and given up for those not seen.
Refresh(new) ==
    tree' = [p \in Path |-> IF p \in new THEN gen[p]
                            ELSE IF p \in Existing THEN tree[p] ELSE 0]

Dropped == {o \in InTree : o[1] \notin Existing}

\* bytehook_add_ignore: from now on refreshes skip the pathname.
AddIgnore(p) ==
    /\ p \in Ignorable \ ignored
    /\ ignored' = ignored \cup {p}
    /\ UNCHANGED <<linkVars, tree, abandoned, destroyed, missed, taskVars,
                   lockVars, pc, callVars>>

-----------------------------------------------------------------------------
(* bh_task_hook_or_unhook on one ELF object                                *)

\* Mutant: a task of any type is finished by its first ELF.
HookElfFinishesAny(t, o) ==
    /\ hooked' = hooked \cup {<<t, o[1], o[2]>>}
    /\ finished' = finished \cup {t}

HookElf(t, o) ==
    /\ hooked' = hooked \cup {<<t, o[1], o[2]>>}
    /\ finished' = IF t \in Single THEN finished \cup {t} ELSE finished

UnhookElf(t, o) == hooked' = hooked \ {<<t, o[1], o[2]>>}

-----------------------------------------------------------------------------
(* bh_core_hook_single, _partial, _all                                     *)

HookCall(th, t) ==
    /\ pc[th] = "idle"
    /\ phase[t] = "new"
    /\ \A u \in Thread : task[u] # t
    /\ Goto(th, "add")
    /\ task' = [task EXCEPT ![th] = t]
    /\ UNCHANGED <<linkVars, elfVars, taskVars, lockVars, path, elfs, elf, todo>>

\* bh_task_manager_add
Add(th) ==
    /\ pc[th] = "add"
    /\ list_readers = {}
    /\ phase' = [phase EXCEPT ![task[th]] = "listed"]
    /\ Goto(th, "hook_rd")
    /\ UNCHANGED <<linkVars, elfVars, finished, hooked, lockVars, callVars>>

\* bh_task_manager_hook takes the read lock; bh_task_hook stops at once when
\* the task is finished, or copies the objects.
HookStart(th) ==
    /\ pc[th] = "hook_rd"
    /\ RdLock(th)
    /\ elfs' = [elfs EXCEPT ![th] =
                  IF task[th] \in finished THEN {} ELSE CopyElfs(task[th])]
    /\ Goto(th, "hook")
    /\ UNCHANGED <<linkVars, elfVars, taskVars, writer, list_readers, task, path,
                   elf, todo>>

HookApply(th, o) ==
    /\ pc[th] = "hook"
    /\ o \in elfs[th]
    /\ HookElf(task[th], o)
    /\ elfs' = [elfs EXCEPT ![th] = @ \ {o}]
    /\ UNCHANGED <<linkVars, elfVars, phase, lockVars, pc, task, path, elf, todo>>

HookReturn(th) ==
    /\ pc[th] = "hook"
    /\ elfs[th] = {}
    /\ RdUnlock(th)
    /\ phase' = [phase EXCEPT ![task[th]] = "stub"]
    /\ task' = [task EXCEPT ![th] = None]
    /\ Goto(th, "idle")
    /\ UNCHANGED <<linkVars, elfVars, finished, hooked, writer, list_readers,
                   path, elfs, elf, todo>>

-----------------------------------------------------------------------------
(* bh_core_unhook                                                          *)

UnhookCall(th, t) ==
    /\ pc[th] = "idle"
    /\ phase[t] = "stub"
    /\ \A u \in Thread : task[u] # t
    /\ Goto(th, "del")
    /\ task' = [task EXCEPT ![th] = t]
    /\ UNCHANGED <<linkVars, elfVars, taskVars, lockVars, path, elfs, elf, todo>>

\* Mutant: the list is not locked.
DelUnlocked(th) ==
    /\ pc[th] = "del"
    /\ phase' = [phase EXCEPT ![task[th]] = "off"]
    /\ Goto(th, "unhook_rd")
    /\ UNCHANGED <<linkVars, elfVars, finished, hooked, lockVars, callVars>>

\* bh_task_manager_del
Del(th) ==
    /\ pc[th] = "del"
    /\ list_readers = {}
    /\ phase' = [phase EXCEPT ![task[th]] = "off"]
    /\ Goto(th, "unhook_rd")
    /\ UNCHANGED <<linkVars, elfVars, finished, hooked, lockVars, callVars>>

\* bh_task_manager_unhook, bh_task_unhook
UnhookStart(th) ==
    /\ pc[th] = "unhook_rd"
    /\ RdLock(th)
    /\ elfs' = [elfs EXCEPT ![th] = CopyElfs(task[th])]
    /\ Goto(th, "unhook")
    /\ UNCHANGED <<linkVars, elfVars, taskVars, writer, list_readers, task, path,
                   elf, todo>>

UnhookApply(th, o) ==
    /\ pc[th] = "unhook"
    /\ o \in elfs[th]
    /\ UnhookElf(task[th], o)
    /\ elfs' = [elfs EXCEPT ![th] = @ \ {o}]
    /\ UNCHANGED <<linkVars, elfVars, phase, finished, lockVars, pc, task, path,
                   elf, todo>>

\* The lock is released and bh_task_destroy frees the task.
UnhookReturn(th) ==
    /\ pc[th] = "unhook"
    /\ elfs[th] = {}
    /\ RdUnlock(th)
    /\ phase' = [phase EXCEPT ![task[th]] = "freed"]
    /\ task' = [task EXCEPT ![th] = None]
    /\ Goto(th, "idle")
    /\ UNCHANGED <<linkVars, elfVars, finished, hooked, writer, list_readers,
                   path, elfs, elf, todo>>

-----------------------------------------------------------------------------
(* The dlopen proxies and bh_task_manager_post_dlopen                      *)

\* The linker's dlopen: no lock of bytehook is held.  The pathname may be one
\* whose dlclose is between the linker's dlclose and its refresh.
OpenCall(th, p) ==
    /\ pc[th] = "idle"
    /\ ~loaded[p] /\ gen[p] < MaxGen
    /\ loaded' = [loaded EXCEPT ![p] = TRUE]
    /\ gen' = [gen EXCEPT ![p] = @ + 1]
    /\ path' = [path EXCEPT ![th] = p]
    /\ Goto(th, "open_rd")
    /\ UNCHANGED <<elfVars, taskVars, lockVars, task, elfs, elf, todo>>

\* The read lock, and bh_elf_manager_refresh(false, post_new_elf).
OpenRefresh(th) ==
    /\ pc[th] = "open_rd"
    /\ RdLock(th)
    /\ \E new \in Newborns :
          /\ Refresh(new)
          /\ elfs' = [elfs EXCEPT ![th] = {<<p, gen[p]>> : p \in new}]
    /\ abandoned' = abandoned \cup Dropped
    /\ Goto(th, "post")
    /\ UNCHANGED <<linkVars, destroyed, ignored, missed, taskVars, writer,
                   list_readers, task, path, elf, todo>>

\* Mutant: only tasks whose hook call has returned are notified.
PostElfStubOnly(th, o) ==
    /\ pc[th] = "post"
    /\ o \in elfs[th]
    /\ elfs' = [elfs EXCEPT ![th] = @ \ {o}]
    /\ elf' = [elf EXCEPT ![th] = o]
    /\ list_readers' = list_readers \cup {th}
    /\ todo' = [todo EXCEPT ![th] = {t \in Task : phase[t] = "stub"}]
    /\ Goto(th, "post_elf")
    /\ UNCHANGED <<linkVars, elfVars, taskVars, writer, readers, task, path>>

\* bh_task_manager_post_new_elf: the list is read-locked while its tasks are
\* applied to the object.
PostElf(th, o) ==
    /\ pc[th] = "post"
    /\ o \in elfs[th]
    /\ elfs' = [elfs EXCEPT ![th] = @ \ {o}]
    /\ elf' = [elf EXCEPT ![th] = o]
    /\ list_readers' = list_readers \cup {th}
    /\ todo' = [todo EXCEPT ![th] = {t \in Task : phase[t] \in {"listed", "stub"}}]
    /\ Goto(th, "post_elf")
    /\ UNCHANGED <<linkVars, elfVars, taskVars, writer, readers, task, path>>

\* bh_task_hook_elf: nothing for a finished task or a caller it does not match.
PostTask(th, t) ==
    /\ pc[th] = "post_elf"
    /\ t \in todo[th]
    /\ IF t \in finished \/ elf[th][1] \notin ScopeOf[t]
       THEN UNCHANGED <<hooked, finished>>
       ELSE HookElf(t, elf[th])
    /\ todo' = [todo EXCEPT ![th] = @ \ {t}]
    /\ UNCHANGED <<linkVars, elfVars, phase, lockVars, pc, task, path, elfs, elf>>

\* Mutant: the list stays read-locked.
PostElfDoneLocked(th) ==
    /\ pc[th] = "post_elf"
    /\ todo[th] = {}
    /\ elf' = [elf EXCEPT ![th] = None]
    /\ Goto(th, "post")
    /\ UNCHANGED <<linkVars, elfVars, taskVars, lockVars, task, path, elfs, todo>>

PostElfDone(th) ==
    /\ pc[th] = "post_elf"
    /\ todo[th] = {}
    /\ list_readers' = list_readers \ {th}
    /\ elf' = [elf EXCEPT ![th] = None]
    /\ Goto(th, "post")
    /\ UNCHANGED <<linkVars, elfVars, taskVars, writer, readers, task, path, elfs,
                   todo>>

OpenReturn(th) ==
    /\ pc[th] = "post"
    /\ elfs[th] = {}
    /\ RdUnlock(th)
    /\ path' = [path EXCEPT ![th] = None]
    /\ Goto(th, "idle")
    /\ UNCHANGED <<linkVars, elfVars, taskVars, writer, list_readers, task, elfs,
                   elf, todo>>

-----------------------------------------------------------------------------
(* The dlclose proxies and bh_task_manager_post_dlclose                    *)

CloseCall(th, p) ==
    /\ pc[th] = "idle"
    /\ loaded[p]
    /\ \A u \in Thread : path[u] # p
    /\ path' = [path EXCEPT ![th] = p]
    /\ Goto(th, "close_wr")
    /\ UNCHANGED <<linkVars, elfVars, taskVars, lockVars, task, elfs, elf, todo>>

\* Mutant: dlclose does not wait for the readers.
CloseLockUnguarded(th) ==
    /\ pc[th] = "close_wr"
    /\ writer = None
    /\ writer' = th
    /\ Goto(th, "close")
    /\ UNCHANGED <<linkVars, elfVars, taskVars, readers, list_readers, callVars>>

\* bh_dl_monitor_dlclose_wrlock
CloseLock(th) ==
    /\ pc[th] = "close_wr"
    /\ writer = None /\ readers = {}
    /\ writer' = th
    /\ Goto(th, "close")
    /\ UNCHANGED <<linkVars, elfVars, taskVars, readers, list_readers, callVars>>

\* dlclose succeeds, but another handle keeps the library.
CloseKeeps(th) ==
    /\ pc[th] = "close"
    /\ Goto(th, "closed")
    /\ UNCHANGED <<linkVars, elfVars, taskVars, lockVars, callVars>>

\* The linker's dlclose unmaps the library, with what was hooked in it.
CloseLink(th) ==
    LET p == path[th]
    IN  /\ pc[th] = "close"
        /\ loaded' = [loaded EXCEPT ![p] = FALSE]
        /\ hooked' = {h \in hooked : h[2] # p}
        /\ Goto(th, "closed")
        /\ UNCHANGED <<gen, elfVars, phase, finished, lockVars, callVars>>

\* dlclose fails: no refresh.
CloseFails(th) ==
    /\ pc[th] = "close"
    /\ writer' = None
    /\ path' = [path EXCEPT ![th] = None]
    /\ Goto(th, "idle")
    /\ UNCHANGED <<linkVars, elfVars, taskVars, readers, list_readers, task, elfs,
                   elf, todo>>

\* bh_elf_manager_refresh(true, NULL): new objects get no notification, and the
\* abandoned objects are destroyed.
CloseReturn(th) ==
    /\ pc[th] = "closed"
    /\ \E new \in Newborns :
          /\ Refresh(new)
          /\ missed' = missed \cup
                {<<t, p, gen[p]>> : t \in {u \in Task : phase[u] # "new"}, p \in new}
    /\ destroyed' = destroyed \cup abandoned \cup Dropped
    /\ abandoned' = {}
    /\ writer' = None
    /\ path' = [path EXCEPT ![th] = None]
    /\ Goto(th, "idle")
    /\ UNCHANGED <<linkVars, ignored, taskVars, readers, list_readers, task, elfs,
                   elf, todo>>

-----------------------------------------------------------------------------

\* A step of a call that has begun.
Progress(th) ==
    \/ Add(th)
    \/ HookStart(th)
    \/ \E o \in Elf : HookApply(th, o)
    \/ HookReturn(th)
    \/ Del(th)
    \/ UnhookStart(th)
    \/ \E o \in Elf : UnhookApply(th, o)
    \/ UnhookReturn(th)
    \/ OpenRefresh(th)
    \/ \E o \in Elf : PostElf(th, o)
    \/ \E t \in Task : PostTask(th, t)
    \/ PostElfDone(th)
    \/ OpenReturn(th)
    \/ CloseLock(th)
    \/ CloseLink(th)
    \/ CloseKeeps(th)
    \/ CloseFails(th)
    \/ CloseReturn(th)

Call(th) ==
    \/ \E t \in Task : HookCall(th, t) \/ UnhookCall(th, t)
    \/ \E p \in Path : OpenCall(th, p) \/ CloseCall(th, p)

\* No call is in progress, and none has to come.
Quiet == (\A th \in Thread : pc[th] = "idle") /\ UNCHANGED vars

Next ==
    \/ \E th \in Thread : Progress(th) \/ Call(th)
    \/ \E p \in Path : AddIgnore(p)
    \/ Quiet

\* A thread inside a call is scheduled again and again, and gets a lock that
\* stays free.
Spec == Init /\ [][Next]_vars /\ \A th \in Thread : WF_vars(Progress(th))

-----------------------------------------------------------------------------
(* Properties                                                              *)

\* The ELF objects a thread has copied or is being notified of.
Held(th) == elfs[th] \cup (IF elf[th] = None THEN {} ELSE {elf[th]})

\* No thread holds a destroyed ELF object: bh_elf_manager_iterate and the
\* notifications use the copied pointers without elfs_lock, and only the dlclose
\* lock keeps bh_elf_manager_refresh(true) from freeing them.
NoElfUseAfterFree == \A th \in Thread : Held(th) \cap destroyed = {}

\* No thread uses a task that bh_core_unhook has freed: a notification walks the
\* list while another thread removes a task from it and destroys it.
NoTaskUseAfterFree ==
    \A th \in Thread :
        /\ task[th] # None => phase[task[th]] # "freed"
        /\ \A t \in todo[th] : phase[t] \in {"listed", "stub"}

\* Once unhook has returned the task is in place nowhere, not even in a library
\* that was being opened meanwhile.  Ignored pathnames are excepted: a refresh
\* drops their objects while they are loaded.
UnhookComplete ==
    \A h \in hooked :
        phase[h[1]] = "freed" => ~loaded[h[2]] \/ gen[h[2]] # h[3] \/ h[2] \in ignored

Quiescent == \A th \in Thread : pc[th] = "idle"

\* A partial or all task is in place in every library that has an ELF object,
\* however hook, dlopen and dlclose calls interleaved, unless the object was made
\* by the refresh after a dlclose, which notifies nobody.
HookedUnlessMissed ==
    Quiescent =>
        \A t \in Task \ Single : phase[t] = "stub" =>
            \A p \in ScopeOf[t] :
                /\ loaded[p] /\ tree[p] = gen[p]
                /\ <<t, p, gen[p]>> \notin missed
                => <<t, p, gen[p]>> \in hooked

\* When no more calls come, every call in progress returns: the threads never
\* wait for one another's locks in a circle.  (While other threads keep calling
\* dlclose a reader may starve: an rwlock promises no order.)
CallsReturn ==
    <>[][\A th \in Thread : ~Call(th)]_vars
        => \A th \in Thread : pc[th] # "idle" ~> pc[th] = "idle"

\* A partial or all task is in place in every library that has an ELF object
\* (bh_elf_manager_refresh: "do callback for newborn ELFs").
NewbornsHooked ==
    Quiescent =>
        \A t \in Task \ Single : phase[t] = "stub" =>
            \A p \in ScopeOf[t] :
                loaded[p] /\ tree[p] = gen[p] => <<t, p, gen[p]>> \in hooked

===========================================================================
