--------------------------- MODULE HookManager_proofs ---------------------------
(***************************************************************************)
(* Safety of HookManager for every number of threads, ELFs, slots, tasks   *)
(* and proxies: the chains are well formed, a slot always leads back to    *)
(* the function the linker resolved, no proxy outlives its task, and a     *)
(* hook that was reported in place is in place.                            *)
(***************************************************************************)
EXTENDS HookManager, TLAPS

Walking == {"lock", "slot", "replace", "restore"}
Holding == {"slot", "replace", "restore"}

\* A call has a job, a visit to an ELF has a walk over slots of this ELF, and the
\* slots are touched under the ELF's hook_lock.
CallOk(th) ==
    /\ pc[th] # "idle" => job[th] \in Job /\ job[th].elfs \subseteq ScopeOf[TaskOf(th)]
    /\ pc[th] \in Walking =>
          /\ walk[th] \in Walk /\ walk[th].todo \subseteq GotsOf[ElfOf(th)]
          /\ ElfOf(th) \in ScopeOf[TaskOf(th)]
    /\ pc[th] \in Holding => hook_lock[ElfOf(th)] = th
    /\ pc[th] \in {"replace", "restore"} => walk[th].slot \in walk[th].todo

CallInv == \A th \in Thread : CallOk(th)

TypeInv == TypeOK /\ CallInv

\* A step of th leaves the calls of the other threads alone.
Others(th) ==
    \A u \in Thread \ {th} : pc'[u] = pc[u] /\ job'[u] = job[u] /\ walk'[u] = walk[u]

\* A task is hooked by one call, then unhooked by one, and by notifications only in
\* between.
PhaseOk(th) ==
    /\ pc[th] # "idle" =>
        /\ job[th].op = "hook" => phase[TaskOf(th)] = "hooking"
        /\ job[th].op = "hook_elf" => phase[TaskOf(th)] \in {"hooking", "listed"}
        /\ job[th].op = "unhook" =>
              /\ phase[TaskOf(th)] = "unhooking"
              /\ mode = "MANUAL" => manual_orig[TaskOf(th)] \notin {None, Invalid}
    /\ pc[th] = "replace" => Hooking(th)
    /\ pc[th] = "restore" => job[th].op = "unhook"

PhaseInv ==
    /\ \A th \in Thread : PhaseOk(th)
    /\ \A th, u \in Thread :
        /\ pc[th] # "idle" /\ pc[u] # "idle" /\ TaskOf(th) = TaskOf(u)
        /\ job[th].op = job[u].op /\ job[th].op # "hook_elf"
        => th = u

\* Only the newest chain of a slot can be in the tree.  A chain that is being put in
\* place has the slot's value as its orig_func and the entry it was made for; one that
\* is being taken out of the slot is not in the tree any more.
TreeSlot(g) ==
    /\ hooks[g] \in {0, Len(chains[g])}
    /\ mode = "MANUAL" => chains[g] = <<>>

FirstEntry(c, t) ==
    /\ Len(c.list) = 1
    /\ c.list[1].func = FuncOf[t] /\ c.list[1].task = t /\ c.list[1].enabled

TreeOk(th) ==
    /\ pc[th] \in {"replace", "restore"} =>
          mode = "AUTO" /\ chains[walk[th].slot] # <<>>
    /\ pc[th] = "replace" =>
          /\ hooks[walk[th].slot] # 0
          /\ Cur(walk[th].slot).orig = got[walk[th].slot]
          /\ FirstEntry(Cur(walk[th].slot), TaskOf(th))
    /\ pc[th] = "restore" => hooks[walk[th].slot] = 0

TreeInv ==
    /\ \A g \in Got : TreeSlot(g)
    /\ \A th \in Thread : TreeOk(th)

\* The trampoline of chain n leads to the function the linker resolved.
LeadsHome(g, n) == n \in ChainNos(g) /\ chains[g][n].orig = OrigOf[g]

\* A chain made on top of one that could not be taken out of the slot has its
\* trampoline as orig_func.
OrigInv ==
    /\ OrigKept
    /\ \A g \in Got : \A n \in ChainNos(g) :
          \/ chains[g][n].orig = OrigOf[g]
          \/ chains[g][n].orig < n /\ LeadsHome(g, chains[g][n].orig)

\* The entries of a chain: the proxies of tasks that match the ELF, one per task.
EntriesOk(g, c) ==
    /\ \A i \in 1..Len(c.list) :
          /\ c.list[i].func = FuncOf[c.list[i].task]
          /\ \E e \in ScopeOf[c.list[i].task] : g \in GotsOf[e]
    /\ \A i, j \in 1..Len(c.list) : c.list[i].task = c.list[j].task => i = j

TasksOf(c) == {c.list[i].task : i \in 1..Len(c.list)}

EntryInv ==
    \A g \in Got : \A n \in ChainNos(g) :
        /\ EntriesOk(g, chains[g][n])
        /\ \A t \in TasksOf(chains[g][n]) : phase[t] # "new"

\* A proxy may still run for task t in slot g.
EnabledFor(g, t) ==
    \E n \in ChainNos(g) : \E i \in Enabled(chains[g][n]) : chains[g][n].list[i].task = t

\* What an unhook call has not visited yet is still before it: what is enabled for
\* its task is in an ELF in error, one it has still to visit, or a slot of its walk.
Left(th, e, g) ==
    \/ e \in job[th].elfs
    \/ pc[th] \in Walking /\ ElfOf(th) = e /\ g \in walk[th].todo

UnhookInv ==
    \A th \in Thread : pc[th] # "idle" /\ job[th].op = "unhook" =>
        \A e \in Elf : \A g \in GotsOf[e] :
            EnabledFor(g, TaskOf(th)) => error[e] \/ Left(th, e, g)

\* A chain that is in the tree is in the slot, or about to be put there.  (Not so if
\* a chain could be left behind without entries.)
InSlot ==
    \A g \in Got : hooks[g] # 0 =>
        \/ got[g] = hooks[g]
        \/ \E th \in Thread : pc[th] = "replace" /\ walk[th].slot = g

PatchedNotNew == \A p \in patched : phase[p[1]] # "new"

PlaceInv ==
    /\ PatchedNotNew
    /\ "append" \notin Faults => InSlot /\ HookTakesEffect

\* The inductive invariant of the whole specification.
IInv ==
    /\ TypeInv /\ PhaseInv /\ TreeInv /\ OrigInv /\ EntryInv
    /\ UniqueEnabled /\ AbandonedInert /\ UnhookInv /\ GoneSilent
    /\ PlaceInv /\ ManualOrigAgrees

-----------------------------------------------------------------------------
(* The calls                                                               *)

\* A step of th keeps CallInv when it keeps th's part and takes no lock away.
LEMMA CallFrame ==
  ASSUME TypeOK, CallInv, NEW th \in Thread, Others(th), CallOk(th)',
         \A e \in Elf : hook_lock'[e] = hook_lock[e] \/ hook_lock[e] \in {th, None}
  PROVE  CallInv'
<1> SUFFICES ASSUME NEW u \in Thread PROVE CallOk(u)'
  BY DEF CallInv
<1>1. CASE u = th
  BY <1>1
<1>2. CASE u # th
  <2>1. CallOk(u)
    BY DEF CallInv
  <2>2. pc'[u] = pc[u] /\ job'[u] = job[u] /\ walk'[u] = walk[u]
    BY <1>2 DEF Others
  <2>3. ASSUME pc[u] \in Holding PROVE ElfOf(u) \in Elf /\ hook_lock'[ElfOf(u)] = u
    <3>1. ElfOf(u) \in Elf /\ hook_lock[ElfOf(u)] = u
      BY <2>1, <2>3 DEF CallOk, Walking, Holding, Walk, ElfOf
    <3> QED
      BY <3>1, <1>2, HookManagerAssumption
  <2> QED
    BY <2>1, <2>2, <2>3 DEF CallOk, TaskOf, ElfOf
<1> QED
  BY <1>1, <1>2

\* The slot a thread is done with leaves its walk, nothing else does.
LEMMA SlotDoneWalk ==
  ASSUME TypeOK, NEW th \in Thread, NEW g, NEW r \in BOOLEAN,
         walk[th] \in Walk, SlotDone(th, g, r)
  PROVE  /\ walk'[th] \in Walk
         /\ walk'[th].elf = walk[th].elf
         /\ walk'[th].todo = walk[th].todo \ {g}
         /\ pc'[th] = "slot"
<1>1. (walk[th].ok /\ r) \in BOOLEAN
  OBVIOUS
<1> QED
  BY <1>1 DEF Walk, SlotDone, TypeOK

\* Being done with a slot keeps the calls well formed.
LEMMA SlotDoneCall ==
  ASSUME TypeOK, CallInv, NEW th \in Thread, NEW g \in Got, NEW r \in BOOLEAN,
         pc[th] \in Holding, SlotDone(th, g, r), UNCHANGED <<hook_lock, job>>
  PROVE  CallInv'
<1>1. walk[th] \in Walk /\ CallOk(th)
  BY DEF CallInv, CallOk, Walking, Holding
<1>2. /\ walk'[th] \in Walk /\ pc'[th] = "slot"
      /\ walk'[th].elf = walk[th].elf
      /\ walk'[th].todo \subseteq walk[th].todo
  BY <1>1, SlotDoneWalk
<1>3. Others(th)
  BY DEF SlotDone, Others, TypeOK
<1>4. CallOk(th)'
  BY <1>1, <1>2 DEF CallOk, Walking, Holding, TaskOf, ElfOf
<1> QED
  BY <1>3, <1>4, CallFrame

\* A thread picks one of the slots left.
LEMMA PickSlotCall ==
  ASSUME TypeOK, CallInv, NEW th \in Thread, NEW g \in Got,
         pc[th] = "slot", g \in walk[th].todo,
         pc' = [pc EXCEPT ![th] = "replace"] \/ pc' = [pc EXCEPT ![th] = "restore"],
         walk' = [walk EXCEPT ![th].slot = g], UNCHANGED <<hook_lock, job>>
  PROVE  CallInv'
<1>1. walk[th] \in Walk /\ CallOk(th)
  BY DEF CallInv, CallOk, Walking, Holding
<1>2. /\ walk'[th] \in Walk /\ walk'[th].elf = walk[th].elf
      /\ walk'[th].todo = walk[th].todo /\ walk'[th].slot = g
  BY <1>1 DEF Walk, TypeOK
<1>3. Others(th)
  BY DEF Others, TypeOK
<1>4. pc'[th] \in {"replace", "restore"}
  BY DEF TypeOK
<1>5. CallOk(th)'
  BY <1>1, <1>2, <1>4 DEF CallOk, Walking, Holding, TaskOf, ElfOf
<1> QED
  BY <1>3, <1>5, CallFrame

\* A thread is done with an ELF, or has nothing to do in it.
LEMMA NextElfCall ==
  ASSUME TypeOK, CallInv, NEW th \in Thread, NEW e \in Elf,
         pc[th] = "elf", job' = NextElf(th, e), UNCHANGED <<hook_lock, pc, walk>>
  PROVE  CallInv'
<1>1. job[th] \in Job /\ CallOk(th)
  BY DEF CallInv, CallOk
<1>2. job'[th] = [job[th] EXCEPT !.elfs = @ \ {e}]
  BY DEF NextElf, TypeOK
<1>3. job'[th] \in Job /\ job'[th].task = job[th].task /\ job'[th].elfs \subseteq job[th].elfs
  BY <1>1, <1>2 DEF Job
<1>4. Others(th)
  BY DEF NextElf, Others, TypeOK
<1>5. CallOk(th)'
  BY <1>1, <1>3 DEF CallOk, Walking, Holding, TaskOf, ElfOf
<1> QED
  BY <1>4, <1>5, CallFrame

\* The calls stay well formed.
LEMMA NextCall ==
  ASSUME TypeOK, CallInv, [Next]_vars
  PROVE  CallInv'
<1>1. ASSUME NEW th \in Thread, NEW e \in Elf, HookRefused(th, e) PROVE CallInv'
  BY <1>1, NextElfCall DEF HookRefused
<1>2. ASSUME NEW th \in Thread, NEW e \in Elf, FindFault(th, e) PROVE CallInv'
  BY <1>2, NextElfCall DEF FindFault
<1>3. ASSUME NEW th \in Thread, NEW e \in Elf, HookCfi(th, e) PROVE CallInv'
  BY <1>3 DEF HookCfi, CallInv, CallOk, TaskOf, ElfOf
<1>4. ASSUME NEW th \in Thread, NEW e \in Elf, UnhookRefused(th, e) PROVE CallInv'
  BY <1>4, NextElfCall DEF UnhookRefused
<1>5. ASSUME NEW th \in Thread, NEW e \in Elf, FindSlots(th, e) PROVE CallInv'
  <2>1. /\ pc[th] = "elf" /\ e \in job[th].elfs
        /\ pc'[th] = "lock" /\ job'[th] = [job[th] EXCEPT !.elfs = @ \ {e}]
        /\ \E found \in SUBSET GotsOf[e] :
              walk'[th] = [elf |-> e, todo |-> found, slot |-> None, ok |-> TRUE]
    BY <1>5 DEF FindSlots, FindAllGot, NextElf, TypeOK
  <2>2. job[th] \in Job /\ e \in ScopeOf[TaskOf(th)] /\ job[th].elfs \subseteq ScopeOf[TaskOf(th)]
    BY <2>1 DEF CallInv, CallOk
  <2>3. /\ job'[th] \in Job /\ job'[th].task = job[th].task
        /\ job'[th].elfs \subseteq job[th].elfs
    BY <2>1, <2>2 DEF Job
  <2>4. /\ walk'[th] \in Walk /\ walk'[th].elf = e
        /\ walk'[th].todo \subseteq GotsOf[e]
    BY <2>1, HookManagerAssumption DEF Walk
  <2>5. CallOk(th)'
    BY <2>1, <2>2, <2>3, <2>4 DEF CallOk, Walking, Holding, TaskOf, ElfOf
  <2>6. Others(th) /\ UNCHANGED hook_lock
    BY <1>5 DEF FindSlots, NextElf, Others, TypeOK
  <2> QED
    BY <2>5, <2>6, CallFrame
<1>6. ASSUME NEW th \in Thread, NEW g \in Got, ReadFault(th, g) PROVE CallInv'
  <2>1. /\ pc[th] \in Holding /\ g \in walk[th].todo
        /\ UNCHANGED <<hook_lock, job>>
    BY <1>6 DEF ReadFault, UnhookSlot, HookSlot, Holding, taskVars
  <2>2. PICK r \in BOOLEAN : SlotDone(th, g, r)
    BY <1>6 DEF ReadFault
  <2> QED
    BY <2>1, <2>2, SlotDoneCall
<1>7. ASSUME NEW th \in Thread, NEW g \in Got, AddFuncFound(th, g) PROVE CallInv'
  <2>1. /\ pc[th] \in Holding /\ g \in walk[th].todo
        /\ UNCHANGED <<hook_lock, job>>
    BY <1>7 DEF AddFuncFound, UnhookSlot, HookSlot, Holding, taskVars
  <2>2. PICK r \in BOOLEAN : SlotDone(th, g, r)
    BY <1>7 DEF AddFuncFound
  <2> QED
    BY <2>1, <2>2, SlotDoneCall
<1>8. ASSUME NEW th \in Thread, NEW g \in Got, AddFuncRepeated(th, g) PROVE CallInv'
  <2>1. /\ pc[th] \in Holding /\ g \in walk[th].todo
        /\ UNCHANGED <<hook_lock, job>>
    BY <1>8 DEF AddFuncRepeated, UnhookSlot, HookSlot, Holding, taskVars
  <2>2. PICK r \in BOOLEAN : SlotDone(th, g, r)
    BY <1>8 DEF AddFuncRepeated
  <2> QED
    BY <2>1, <2>2, SlotDoneCall
<1>9. ASSUME NEW th \in Thread, NEW g \in Got, AddFuncCreated(th, g) PROVE CallInv'
  BY <1>9, PickSlotCall DEF AddFuncCreated, HookSlot, taskVars
<1>10. ASSUME NEW th \in Thread, NEW g \in Got, CreateFails(th, g) PROVE CallInv'
  <2>1. /\ pc[th] \in Holding /\ g \in walk[th].todo
        /\ UNCHANGED <<hook_lock, job>>
    BY <1>10 DEF CreateFails, UnhookSlot, HookSlot, Holding, taskVars
  <2>2. PICK r \in BOOLEAN : SlotDone(th, g, r)
    BY <1>10 DEF CreateFails
  <2> QED
    BY <2>1, <2>2, SlotDoneCall
<1>11. ASSUME NEW th \in Thread, NEW g \in Got, AppendFails(th, g) PROVE CallInv'
  <2>1. /\ pc[th] \in Holding /\ g \in walk[th].todo
        /\ UNCHANGED <<hook_lock, job>>
    BY <1>11 DEF AppendFails, UnhookSlot, HookSlot, Holding, taskVars
  <2>2. PICK r \in BOOLEAN : SlotDone(th, g, r)
    BY <1>11 DEF AppendFails
  <2> QED
    BY <2>1, <2>2, SlotDoneCall
<1>12. ASSUME NEW th \in Thread, NEW g \in Got, DelFuncNone(th, g) PROVE CallInv'
  <2>1. /\ pc[th] \in Holding /\ g \in walk[th].todo
        /\ UNCHANGED <<hook_lock, job>>
    BY <1>12 DEF DelFuncNone, UnhookSlot, HookSlot, Holding, taskVars
  <2>2. PICK r \in BOOLEAN : SlotDone(th, g, r)
    BY <1>12 DEF DelFuncNone
  <2> QED
    BY <2>1, <2>2, SlotDoneCall
<1>13. ASSUME NEW th \in Thread, NEW g \in Got, DelFunc(th, g) PROVE CallInv'
  <2>1. CASE pc' = [pc EXCEPT ![th] = "restore"] /\ walk' = [walk EXCEPT ![th].slot = g]
    BY <1>13, <2>1, PickSlotCall DEF DelFunc, UnhookSlot, taskVars
  <2>2. CASE SlotDone(th, g, TRUE)
    BY <1>13, <2>2, SlotDoneCall DEF DelFunc, UnhookSlot, Holding, taskVars
  <2> QED
    BY <1>13, <2>1, <2>2 DEF DelFunc
<1>14. ASSUME NEW th \in Thread, NEW g \in Got, ManualHook(th, g) PROVE CallInv'
  <2>1. /\ pc[th] \in Holding /\ g \in walk[th].todo
        /\ UNCHANGED <<hook_lock, job>>
    BY <1>14 DEF ManualHook, UnhookSlot, HookSlot, Holding, taskVars
  <2>2. PICK r \in BOOLEAN : SlotDone(th, g, r)
    BY <1>14 DEF ManualHook
  <2> QED
    BY <2>1, <2>2, SlotDoneCall
<1>15. ASSUME NEW th \in Thread, NEW g \in Got, ManualHookFails(th, g) PROVE CallInv'
  <2>1. /\ pc[th] \in Holding /\ g \in walk[th].todo
        /\ UNCHANGED <<hook_lock, job>>
    BY <1>15 DEF ManualHookFails, UnhookSlot, HookSlot, Holding, taskVars
  <2>2. PICK r \in BOOLEAN : SlotDone(th, g, r)
    BY <1>15 DEF ManualHookFails
  <2> QED
    BY <2>1, <2>2, SlotDoneCall
<1>16. ASSUME NEW th \in Thread, NEW g \in Got, ManualUnhook(th, g) PROVE CallInv'
  <2>1. /\ pc[th] \in Holding /\ g \in walk[th].todo
        /\ UNCHANGED <<hook_lock, job>>
    BY <1>16 DEF ManualUnhook, UnhookSlot, HookSlot, Holding, taskVars
  <2>2. PICK r \in BOOLEAN : SlotDone(th, g, r)
    BY <1>16 DEF ManualUnhook
  <2> QED
    BY <2>1, <2>2, SlotDoneCall
<1>17. ASSUME NEW th \in Thread, Lock(th) PROVE CallInv'
  <2>1. CallOk(th)
    BY DEF CallInv
  <2>2. CallOk(th)'
    BY <1>17, <2>1, HookManagerAssumption
       DEF Lock, CallOk, Walking, Holding, TaskOf, ElfOf, TypeOK, Walk
  <2>3. Others(th) /\ (\A e \in Elf : hook_lock'[e] = hook_lock[e] \/ hook_lock[e] \in {th, None})
    BY <1>17 DEF Lock, Others, TypeOK
  <2> QED
    BY <2>2, <2>3, CallFrame
<1>18. ASSUME NEW th \in Thread, Unlock(th) PROVE CallInv'
  <2>1. CallOk(th)
    BY DEF CallInv
  <2>2. CallOk(th)'
    BY <1>18, <2>1, HookManagerAssumption
       DEF Unlock, CallOk, Walking, Holding, TaskOf, ElfOf, TypeOK, Walk
  <2>3. Others(th) /\ (\A e \in Elf : hook_lock'[e] = hook_lock[e] \/ hook_lock[e] \in {th, None})
    BY <1>18, <2>1 DEF Unlock, CallOk, Holding, Others, TypeOK
  <2> QED
    BY <2>2, <2>3, CallFrame
<1>19. ASSUME NEW th \in Thread, Replace(th) PROVE CallInv'
  <2>1. /\ pc[th] \in {"replace", "restore"}
        /\ UNCHANGED <<hook_lock, job>>
    BY <1>19 DEF Replace, taskVars
  <2>2. /\ pc[th] \in Holding /\ walk[th].slot \in Got
        /\ walk[th].slot \in walk[th].todo
    BY <2>1 DEF CallInv, CallOk, Walking, Holding, Walk
  <2>3. PICK r \in BOOLEAN : SlotDone(th, walk[th].slot, r)
    BY <1>19 DEF Replace
  <2> QED
    BY <2>1, <2>2, <2>3, SlotDoneCall
<1>20. ASSUME NEW th \in Thread, ReplaceFails(th) PROVE CallInv'
  <2>1. /\ pc[th] \in {"replace", "restore"}
        /\ UNCHANGED <<hook_lock, job>>
    BY <1>20 DEF ReplaceFails, taskVars
  <2>2. /\ pc[th] \in Holding /\ walk[th].slot \in Got
        /\ walk[th].slot \in walk[th].todo
    BY <2>1 DEF CallInv, CallOk, Walking, Holding, Walk
  <2>3. PICK r \in BOOLEAN : SlotDone(th, walk[th].slot, r)
    BY <1>20 DEF ReplaceFails
  <2> QED
    BY <2>1, <2>2, <2>3, SlotDoneCall
<1>21. ASSUME NEW th \in Thread, Restore(th) PROVE CallInv'
  <2>1. /\ pc[th] \in {"replace", "restore"}
        /\ UNCHANGED <<hook_lock, job>>
    BY <1>21 DEF Restore, taskVars
  <2>2. /\ pc[th] \in Holding /\ walk[th].slot \in Got
        /\ walk[th].slot \in walk[th].todo
    BY <2>1 DEF CallInv, CallOk, Walking, Holding, Walk
  <2>3. PICK r \in BOOLEAN : SlotDone(th, walk[th].slot, r)
    BY <1>21 DEF Restore
  <2> QED
    BY <2>1, <2>2, <2>3, SlotDoneCall
<1>22. ASSUME NEW th \in Thread, Finish(th) PROVE CallInv'
  <2>1. CallOk(th)
    BY DEF CallInv
  <2>2. CallOk(th)'
    BY <1>22, <2>1, HookManagerAssumption
       DEF Finish, CallOk, Walking, Holding, TaskOf, ElfOf, TypeOK, Job
  <2>3. Others(th) /\ UNCHANGED hook_lock
    BY <1>22 DEF Finish, Others, TypeOK
  <2> QED
    BY <2>2, <2>3, CallFrame
<1>23. ASSUME NEW th \in Thread, NEW t \in Task, HookBegin(th, t) PROVE CallInv'
  <2>1. CallOk(th)
    BY DEF CallInv
  <2>2. CallOk(th)'
    BY <1>23, <2>1, HookManagerAssumption
       DEF HookBegin, CallOk, Walking, Holding, TaskOf, ElfOf, TypeOK, Job
  <2>3. Others(th) /\ UNCHANGED hook_lock
    BY <1>23 DEF HookBegin, Others, TypeOK
  <2> QED
    BY <2>2, <2>3, CallFrame
<1>24. ASSUME NEW th \in Thread, NEW t \in Task, UnhookBegin(th, t) PROVE CallInv'
  <2>1. CASE UNCHANGED <<pc, job>>
    BY <1>24, <2>1 DEF UnhookBegin, CallInv, CallOk, TaskOf, ElfOf
  <2>2. CASE /\ pc' = [pc EXCEPT ![th] = "elf"]
             /\ job' = [job EXCEPT ![th] =
                          [task |-> t, op |-> "unhook", elfs |-> ScopeOf[t]]]
    <3>1. CallOk(th)'
      BY <2>2, HookManagerAssumption DEF CallOk, Walking, Holding, TaskOf, Job, TypeOK
    <3>2. Others(th) /\ UNCHANGED hook_lock
      BY <1>24, <2>2 DEF UnhookBegin, Others, TypeOK
    <3> QED
      BY <3>1, <3>2, CallFrame
  <2> QED
    BY <1>24, <2>1, <2>2 DEF UnhookBegin
<1>25. ASSUME NEW th \in Thread, NEW t \in Task, NEW e \in Elf, HookElfBegin(th, t, e) PROVE CallInv'
  <2>1. CallOk(th)
    BY DEF CallInv
  <2>2. CallOk(th)'
    BY <1>25, <2>1, HookManagerAssumption
       DEF HookElfBegin, CallOk, Walking, Holding, TaskOf, ElfOf, TypeOK, Job
  <2>3. Others(th) /\ UNCHANGED hook_lock
    BY <1>25 DEF HookElfBegin, Others, TypeOK
  <2> QED
    BY <2>2, <2>3, CallFrame
<1>26. CASE UNCHANGED vars
  BY <1>26 DEF vars, CallInv, CallOk, TaskOf, ElfOf
<1> QED
  BY <1>1, <1>2, <1>3, <1>4, <1>5, <1>6, <1>7, <1>8, <1>9, <1>10, <1>11, <1>12, <1>13,
     <1>14, <1>15, <1>16, <1>17, <1>18, <1>19, <1>20, <1>21, <1>22, <1>23, <1>24, <1>25,
     <1>26
     DEF Next, Progress, ElfStep, SlotStep, Quiet

-----------------------------------------------------------------------------
(* The phases of the tasks                                                 *)

\* Taking the next ELF keeps the task and the operation of the call.
LEMMA NextElfJob ==
  ASSUME TypeOK, CallInv, NEW th \in Thread, NEW e \in Elf,
         pc[th] = "elf", job' = NextElf(th, e)
  PROVE  /\ job'[th].task = job[th].task /\ job'[th].op = job[th].op
         /\ job'[th].elfs = job[th].elfs \ {e}
<1>1. job[th] \in Job
  BY DEF CallInv, CallOk
<1> QED
  BY <1>1 DEF NextElf, Job, TypeOK

\* A step of a call that goes on keeps the phases.
LEMMA PhaseFrame ==
  ASSUME TypeOK, PhaseInv, NEW th \in Thread, Others(th), pc[th] # "idle",
         job'[th].task = job[th].task, job'[th].op = job[th].op,
         pc'[th] = "replace" => Hooking(th),
         pc'[th] = "restore" => job[th].op = "unhook",
         UNCHANGED <<mode, phase, manual_orig>>
  PROVE  PhaseInv'
<1>1. ASSUME NEW u \in Thread PROVE PhaseOk(u)'
  <2>1. PhaseOk(u)
    BY DEF PhaseInv
  <2>2. CASE u = th
    BY <2>1, <2>2 DEF PhaseOk, TaskOf, Hooking
  <2>3. CASE u # th
    BY <2>1, <2>3 DEF PhaseOk, TaskOf, Hooking, Others
  <2> QED
    BY <2>2, <2>3
<1> QED
  BY <1>1 DEF PhaseInv, Others, TaskOf

\* The phases of the tasks go on matching the calls.
LEMMA NextPhase ==
  ASSUME TypeOK, CallInv, PhaseInv, [Next]_vars
  PROVE  PhaseInv'
<1>1. ASSUME NEW th \in Thread, NEW e \in Elf, HookRefused(th, e) PROVE PhaseInv'
  <2>1. /\ Others(th) /\ UNCHANGED <<mode, phase, manual_orig>>
        /\ pc[th] # "idle" /\ pc'[th] = "elf"
    BY <1>1 DEF HookRefused, Others, NextElf, taskVars, TypeOK
  <2>2. job'[th].task = job[th].task /\ job'[th].op = job[th].op
    BY <1>1, NextElfJob DEF HookRefused
  <2> QED
    BY <2>1, <2>2, PhaseFrame DEF Hooking
<1>2. ASSUME NEW th \in Thread, NEW e \in Elf, FindFault(th, e) PROVE PhaseInv'
  <2>1. /\ Others(th) /\ UNCHANGED <<mode, phase, manual_orig>>
        /\ pc[th] # "idle" /\ pc'[th] = "elf"
    BY <1>2 DEF FindFault, Others, NextElf, taskVars, TypeOK
  <2>2. job'[th].task = job[th].task /\ job'[th].op = job[th].op
    BY <1>2, NextElfJob DEF FindFault
  <2> QED
    BY <2>1, <2>2, PhaseFrame DEF Hooking
<1>3. ASSUME NEW th \in Thread, NEW e \in Elf, HookCfi(th, e) PROVE PhaseInv'
  <2>1. /\ Others(th) /\ UNCHANGED <<mode, phase, manual_orig>>
        /\ pc[th] # "idle" /\ pc'[th] = "elf"
    BY <1>3 DEF HookCfi, Others, NextElf, taskVars, TypeOK
  <2>2. job'[th].task = job[th].task /\ job'[th].op = job[th].op
    BY <1>3 DEF HookCfi
  <2> QED
    BY <2>1, <2>2, PhaseFrame DEF Hooking
<1>4. ASSUME NEW th \in Thread, NEW e \in Elf, UnhookRefused(th, e) PROVE PhaseInv'
  <2>1. /\ Others(th) /\ UNCHANGED <<mode, phase, manual_orig>>
        /\ pc[th] # "idle" /\ pc'[th] = "elf"
    BY <1>4 DEF UnhookRefused, Others, NextElf, taskVars, TypeOK
  <2>2. job'[th].task = job[th].task /\ job'[th].op = job[th].op
    BY <1>4, NextElfJob DEF UnhookRefused
  <2> QED
    BY <2>1, <2>2, PhaseFrame DEF Hooking
<1>5. ASSUME NEW th \in Thread, NEW e \in Elf, FindSlots(th, e) PROVE PhaseInv'
  <2>1. /\ Others(th) /\ UNCHANGED <<mode, phase, manual_orig>>
        /\ pc[th] # "idle" /\ pc'[th] = "lock"
    BY <1>5 DEF FindSlots, Others, NextElf, taskVars, TypeOK
  <2>2. job'[th].task = job[th].task /\ job'[th].op = job[th].op
    BY <1>5, NextElfJob DEF FindSlots
  <2> QED
    BY <2>1, <2>2, PhaseFrame DEF Hooking
<1>6. ASSUME NEW th \in Thread, NEW g \in Got, ReadFault(th, g) PROVE PhaseInv'
  <2>1. /\ Others(th) /\ UNCHANGED <<mode, phase, manual_orig>>
        /\ pc[th] # "idle" /\ pc'[th] = "slot"
    BY <1>6 DEF ReadFault, SlotDone, HookSlot, UnhookSlot, Others, NextElf, taskVars, TypeOK
  <2>2. job'[th].task = job[th].task /\ job'[th].op = job[th].op
    BY <1>6 DEF ReadFault
  <2> QED
    BY <2>1, <2>2, PhaseFrame DEF Hooking
<1>7. ASSUME NEW th \in Thread, NEW g \in Got, AddFuncFound(th, g) PROVE PhaseInv'
  <2>1. /\ Others(th) /\ UNCHANGED <<mode, phase, manual_orig>>
        /\ pc[th] # "idle" /\ pc'[th] = "slot"
    BY <1>7
       DEF AddFuncFound, SlotDone, HookSlot, UnhookSlot, Others, NextElf, taskVars, TypeOK
  <2>2. job'[th].task = job[th].task /\ job'[th].op = job[th].op
    BY <1>7 DEF AddFuncFound
  <2> QED
    BY <2>1, <2>2, PhaseFrame DEF Hooking
<1>8. ASSUME NEW th \in Thread, NEW g \in Got, AddFuncRepeated(th, g) PROVE PhaseInv'
  <2>1. /\ Others(th) /\ UNCHANGED <<mode, phase, manual_orig>>
        /\ pc[th] # "idle" /\ pc'[th] = "slot"
    BY <1>8
       DEF AddFuncRepeated, SlotDone, HookSlot, UnhookSlot, Others, NextElf, taskVars,
           TypeOK
  <2>2. job'[th].task = job[th].task /\ job'[th].op = job[th].op
    BY <1>8 DEF AddFuncRepeated
  <2> QED
    BY <2>1, <2>2, PhaseFrame DEF Hooking
<1>9. ASSUME NEW th \in Thread, NEW g \in Got, AddFuncCreated(th, g) PROVE PhaseInv'
  <2>1. /\ Others(th) /\ UNCHANGED <<mode, phase, manual_orig, job>>
        /\ pc[th] # "idle" /\ pc'[th] = "replace" /\ Hooking(th)
    BY <1>9 DEF AddFuncCreated, HookSlot, Others, taskVars, TypeOK
  <2> QED
    BY <2>1, PhaseFrame
<1>10. ASSUME NEW th \in Thread, NEW g \in Got, CreateFails(th, g) PROVE PhaseInv'
  <2>1. /\ Others(th) /\ UNCHANGED <<mode, phase, manual_orig>>
        /\ pc[th] # "idle" /\ pc'[th] = "slot"
    BY <1>10
       DEF CreateFails, SlotDone, HookSlot, UnhookSlot, Others, NextElf, taskVars, TypeOK
  <2>2. job'[th].task = job[th].task /\ job'[th].op = job[th].op
    BY <1>10 DEF CreateFails
  <2> QED
    BY <2>1, <2>2, PhaseFrame DEF Hooking
<1>11. ASSUME NEW th \in Thread, NEW g \in Got, AppendFails(th, g) PROVE PhaseInv'
  <2>1. /\ Others(th) /\ UNCHANGED <<mode, phase, manual_orig>>
        /\ pc[th] # "idle" /\ pc'[th] = "slot"
    BY <1>11
       DEF AppendFails, SlotDone, HookSlot, UnhookSlot, Others, NextElf, taskVars, TypeOK
  <2>2. job'[th].task = job[th].task /\ job'[th].op = job[th].op
    BY <1>11 DEF AppendFails
  <2> QED
    BY <2>1, <2>2, PhaseFrame DEF Hooking
<1>12. ASSUME NEW th \in Thread, NEW g \in Got, DelFuncNone(th, g) PROVE PhaseInv'
  <2>1. /\ Others(th) /\ UNCHANGED <<mode, phase, manual_orig>>
        /\ pc[th] # "idle" /\ pc'[th] = "slot"
    BY <1>12
       DEF DelFuncNone, SlotDone, HookSlot, UnhookSlot, Others, NextElf, taskVars, TypeOK
  <2>2. job'[th].task = job[th].task /\ job'[th].op = job[th].op
    BY <1>12 DEF DelFuncNone
  <2> QED
    BY <2>1, <2>2, PhaseFrame DEF Hooking
<1>13. ASSUME NEW th \in Thread, NEW g \in Got, DelFunc(th, g) PROVE PhaseInv'
  <2>1. /\ Others(th) /\ UNCHANGED <<mode, phase, manual_orig, job>>
        /\ pc[th] # "idle" /\ pc'[th] \in {"slot", "restore"} /\ job[th].op = "unhook"
    BY <1>13 DEF DelFunc, UnhookSlot, SlotDone, Others, taskVars, TypeOK
  <2> QED
    BY <2>1, PhaseFrame
<1>14. ASSUME NEW th \in Thread, NEW g \in Got, ManualHook(th, g) PROVE PhaseInv'
  <2>1. /\ Others(th) /\ UNCHANGED <<mode, phase, job>>
        /\ pc[th] # "idle" /\ pc'[th] = "slot" /\ Hooking(th)
        /\ \A t \in Task \ {TaskOf(th)} : manual_orig'[t] = manual_orig[t]
    BY <1>14 DEF ManualHook, HookSlot, SlotDone, Others, TypeOK
  <2>2. /\ phase[TaskOf(th)] # "unhooking"
        /\ \A u \in Thread : pc'[u] # "idle" => pc[u] # "idle" /\ TaskOf(u) \in Task
    <3>1. ASSUME NEW u \in Thread, pc[u] # "idle" PROVE TaskOf(u) \in Task
      BY <3>1 DEF CallInv, CallOk, Job, TaskOf
    <3>2. PhaseOk(th)
      BY DEF PhaseInv
    <3> QED
      BY <2>1, <3>1, <3>2 DEF PhaseOk, Hooking, Others
  <2>3. \A u \in Thread : PhaseOk(u)'
    BY <2>1, <2>2 DEF PhaseInv, PhaseOk, Others, Hooking, TaskOf
  <2> QED
    BY <2>1, <2>2, <2>3 DEF PhaseInv, Others, TaskOf
<1>15. ASSUME NEW th \in Thread, NEW g \in Got, ManualHookFails(th, g) PROVE PhaseInv'
  <2>1. /\ Others(th) /\ UNCHANGED <<mode, phase, manual_orig>>
        /\ pc[th] # "idle" /\ pc'[th] = "slot"
    BY <1>15
       DEF ManualHookFails, SlotDone, HookSlot, UnhookSlot, Others, NextElf, taskVars,
           TypeOK
  <2>2. job'[th].task = job[th].task /\ job'[th].op = job[th].op
    BY <1>15 DEF ManualHookFails
  <2> QED
    BY <2>1, <2>2, PhaseFrame DEF Hooking
<1>16. ASSUME NEW th \in Thread, NEW g \in Got, ManualUnhook(th, g) PROVE PhaseInv'
  <2>1. /\ Others(th) /\ UNCHANGED <<mode, phase, manual_orig>>
        /\ pc[th] # "idle" /\ pc'[th] = "slot"
    BY <1>16
       DEF ManualUnhook, SlotDone, HookSlot, UnhookSlot, Others, NextElf, taskVars, TypeOK
  <2>2. job'[th].task = job[th].task /\ job'[th].op = job[th].op
    BY <1>16 DEF ManualUnhook
  <2> QED
    BY <2>1, <2>2, PhaseFrame DEF Hooking
<1>17. ASSUME NEW th \in Thread, Lock(th) PROVE PhaseInv'
  <2>1. /\ Others(th) /\ UNCHANGED <<mode, phase, manual_orig>>
        /\ pc[th] # "idle" /\ pc'[th] = "slot"
    BY <1>17 DEF Lock, Others, NextElf, taskVars, TypeOK
  <2>2. job'[th].task = job[th].task /\ job'[th].op = job[th].op
    BY <1>17 DEF Lock
  <2> QED
    BY <2>1, <2>2, PhaseFrame DEF Hooking
<1>18. ASSUME NEW th \in Thread, Unlock(th) PROVE PhaseInv'
  <2>1. /\ Others(th) /\ UNCHANGED <<mode, phase, manual_orig>>
        /\ pc[th] # "idle" /\ pc'[th] = "elf"
    BY <1>18 DEF Unlock, Others, NextElf, taskVars, TypeOK
  <2>2. job'[th].task = job[th].task /\ job'[th].op = job[th].op
    BY <1>18 DEF Unlock
  <2> QED
    BY <2>1, <2>2, PhaseFrame DEF Hooking
<1>19. ASSUME NEW th \in Thread, Replace(th) PROVE PhaseInv'
  <2>1. /\ Others(th) /\ UNCHANGED <<mode, phase, manual_orig>>
        /\ pc[th] # "idle" /\ pc'[th] = "slot"
    BY <1>19 DEF Replace, SlotDone, Others, NextElf, taskVars, TypeOK
  <2>2. job'[th].task = job[th].task /\ job'[th].op = job[th].op
    BY <1>19 DEF Replace
  <2> QED
    BY <2>1, <2>2, PhaseFrame DEF Hooking
<1>20. ASSUME NEW th \in Thread, ReplaceFails(th) PROVE PhaseInv'
  <2>1. /\ Others(th) /\ UNCHANGED <<mode, phase, manual_orig>>
        /\ pc[th] # "idle" /\ pc'[th] = "slot"
    BY <1>20 DEF ReplaceFails, SlotDone, Others, NextElf, taskVars, TypeOK
  <2>2. job'[th].task = job[th].task /\ job'[th].op = job[th].op
    BY <1>20 DEF ReplaceFails
  <2> QED
    BY <2>1, <2>2, PhaseFrame DEF Hooking
<1>21. ASSUME NEW th \in Thread, Restore(th) PROVE PhaseInv'
  <2>1. /\ Others(th) /\ UNCHANGED <<mode, phase, manual_orig>>
        /\ pc[th] # "idle" /\ pc'[th] = "slot"
    BY <1>21 DEF Restore, SlotDone, Others, NextElf, taskVars, TypeOK
  <2>2. job'[th].task = job[th].task /\ job'[th].op = job[th].op
    BY <1>21 DEF Restore
  <2> QED
    BY <2>1, <2>2, PhaseFrame DEF Hooking
<1>22. ASSUME NEW th \in Thread, Finish(th) PROVE PhaseInv'
  <2>1. /\ pc[th] = "elf" /\ pc'[th] = "idle"
        /\ Others(th) /\ UNCHANGED <<mode, manual_orig>>
        /\ TaskOf(th) \in Task
    BY <1>22 DEF Finish, Others, TypeOK, CallInv, CallOk, Job, TaskOf
  <2>2. \A t \in Task \ {TaskOf(th)} : phase'[t] = phase[t]
    BY <1>22 DEF Finish, TypeOK
  <2>3. phase'[TaskOf(th)] = CASE job[th].op = "unhook" -> "gone"
                               [] job[th].op = "hook"   -> "listed"
                               [] OTHER                 -> phase[TaskOf(th)]
    BY <1>22, <2>1 DEF Finish, TypeOK
  <2>4. ASSUME NEW u \in Thread PROVE PhaseOk(u)'
    <3>1. CASE u = th
      BY <2>1, <3>1 DEF PhaseOk
    <3>2. CASE u # th
      <4>1. /\ PhaseOk(u) /\ PhaseOk(th)
            /\ pc'[u] = pc[u] /\ job'[u] = job[u] /\ walk'[u] = walk[u]
            /\ pc[u] # "idle" => job[u].op \in {"hook", "hook_elf", "unhook"} /\ TaskOf(u) \in Task
        BY <2>1, <3>2 DEF PhaseInv, Others, CallInv, CallOk, Job, TaskOf
      <4>2. CASE pc[u] = "idle" \/ TaskOf(u) # TaskOf(th)
        BY <2>1, <2>2, <4>1, <4>2 DEF PhaseOk, TaskOf, Hooking
      <4>3. CASE pc[u] # "idle" /\ TaskOf(u) = TaskOf(th)
        <5>1. job[u].op # job[th].op \/ job[u].op = "hook_elf"
          BY <2>1, <3>2, <4>3 DEF PhaseInv
        <5>2. job[th].op = "unhook" => phase[TaskOf(th)] = "unhooking"
          BY <2>1, <4>1 DEF PhaseOk
        <5>3. job[th].op = "hook" => phase[TaskOf(th)] = "hooking"
          BY <2>1, <4>1 DEF PhaseOk
        <5> QED
          BY <2>1, <2>3, <4>1, <4>3, <5>1, <5>2, <5>3 DEF PhaseOk, TaskOf, Hooking
      <4> QED
        BY <4>2, <4>3
    <3> QED
      BY <3>1, <3>2
  <2> QED
    BY <2>1, <2>4 DEF PhaseInv, Others, TaskOf
<1>23. ASSUME NEW th \in Thread, NEW t \in Task, HookBegin(th, t) PROVE PhaseInv'
  <2>1. /\ pc'[th] = "elf" /\ TaskOf(th)' = t /\ job'[th].op = "hook"
        /\ Others(th) /\ UNCHANGED <<mode, manual_orig>>
        /\ phase[t] = "new" /\ phase'[t] = "hooking"
        /\ \A u \in Task \ {t} : phase'[u] = phase[u]
    BY <1>23 DEF HookBegin, Others, TypeOK, TaskOf
  <2>2. \A u \in Thread : pc[u] # "idle" => TaskOf(u) # t /\ TaskOf(u) \in Task
    <3> SUFFICES ASSUME NEW u \in Thread, pc[u] # "idle"
                 PROVE  TaskOf(u) # t /\ TaskOf(u) \in Task
      OBVIOUS
    <3>1. job[u] \in Job /\ PhaseOk(u)
      BY DEF CallInv, CallOk, PhaseInv
    <3> QED
      BY <2>1, <3>1 DEF PhaseOk, Job, TaskOf
  <2>3. \A u \in Thread : PhaseOk(u)'
    BY <2>1, <2>2 DEF PhaseInv, PhaseOk, Others, TaskOf, Hooking
  <2> QED
    BY <2>1, <2>2, <2>3 DEF PhaseInv, Others, TaskOf
<1>24. ASSUME NEW th \in Thread, NEW t \in Task, UnhookBegin(th, t) PROVE PhaseInv'
  <2>1. /\ phase[t] = "listed" /\ UNCHANGED <<mode, manual_orig, walk>>
        /\ \A u \in Task \ {t} : phase'[u] = phase[u]
    BY <1>24 DEF UnhookBegin, TypeOK
  <2>2. \A u \in Thread : pc[u] # "idle" => TaskOf(u) # t /\ TaskOf(u) \in Task
    BY <1>24 DEF UnhookBegin, CallInv, CallOk, Job, TaskOf
  <2>3. CASE UNCHANGED <<pc, job>>
    <3>1. \A u \in Thread : PhaseOk(u)'
      BY <2>1, <2>2, <2>3 DEF PhaseInv, PhaseOk, TaskOf, Hooking
    <3> QED
      BY <2>3, <3>1 DEF PhaseInv, TaskOf
  <2>4. CASE ~ UNCHANGED <<pc, job>>
    <3>1. /\ pc'[th] = "elf" /\ TaskOf(th)' = t /\ job'[th].op = "unhook"
          /\ Others(th) /\ phase'[t] = "unhooking"
          /\ ~(mode = "MANUAL" /\ manual_orig[t] \in {None, Invalid})
      BY <1>24, <2>4 DEF UnhookBegin, Others, TypeOK, TaskOf
    <3>2. \A u \in Thread : PhaseOk(u)'
      BY <2>1, <2>2, <3>1 DEF PhaseInv, PhaseOk, Others, TaskOf, Hooking
    <3> QED
      BY <2>2, <3>1, <3>2 DEF PhaseInv, Others, TaskOf
  <2> QED
    BY <2>3, <2>4
<1>25. ASSUME NEW th \in Thread, NEW t \in Task, NEW e \in Elf, HookElfBegin(th, t, e) PROVE PhaseInv'
  <2>1. /\ pc'[th] = "elf" /\ TaskOf(th)' = t /\ job'[th].op = "hook_elf"
        /\ Others(th) /\ UNCHANGED <<mode, phase, manual_orig>>
        /\ phase[t] \in {"hooking", "listed"}
    BY <1>25 DEF HookElfBegin, Others, TypeOK, TaskOf, taskVars
  <2>2. \A u \in Thread : PhaseOk(u)'
    BY <2>1 DEF PhaseInv, PhaseOk, Others, TaskOf, Hooking
  <2> QED
    BY <2>1, <2>2 DEF PhaseInv, Others, TaskOf
<1>26. CASE UNCHANGED vars
  BY <1>26 DEF vars, PhaseInv, PhaseOk, TaskOf, Hooking
<1> QED
  BY <1>1, <1>2, <1>3, <1>4, <1>5, <1>6, <1>7, <1>8, <1>9, <1>10, <1>11, <1>12, <1>13,
     <1>14, <1>15, <1>16, <1>17, <1>18, <1>19, <1>20, <1>21, <1>22, <1>23, <1>24, <1>25,
     <1>26
     DEF Next, Progress, ElfStep, SlotStep, Quiet

-----------------------------------------------------------------------------
(* The chains                                                              *)

\* A function on 1..n is a sequence of length n.
LEMMA FcnSeq ==
  ASSUME NEW S, NEW n \in Nat, NEW f \in [1..n -> S]
  PROVE  f \in Seq(S) /\ Len(f) = n
  OBVIOUS

\* What a chain is made of.
LEMMA ChainList ==
  ASSUME NEW c \in Chain
  PROVE  /\ c.list \in Seq(Entry) /\ Len(c.list) \in Nat
         /\ c.orig \in Orig \cup Nat
         /\ \A i \in 1..Len(c.list) : c.list[i] \in Entry
<1>1. c.list \in Seq(Entry) /\ c.orig \in Orig \cup Nat
  BY DEF Chain
<1> QED
  BY <1>1

\* bh_hook_del_func disables the entries of the function and keeps the rest.
LEMMA DelFuncFacts ==
  ASSUME NEW c \in Chain, NEW f \in Func
  PROVE  /\ HookDelFunc(c, f) \in Chain
         /\ HookDelFunc(c, f).orig = c.orig
         /\ Len(HookDelFunc(c, f).list) = Len(c.list)
         /\ \A i \in 1..Len(c.list) :
               /\ HookDelFunc(c, f).list[i].func = c.list[i].func
               /\ HookDelFunc(c, f).list[i].task = c.list[i].task
               /\ HookDelFunc(c, f).list[i].enabled = (c.list[i].enabled /\ c.list[i].func # f)
<1> DEFINE l == [i \in 1..Len(c.list) |->
            IF c.list[i].func = f
            THEN [c.list[i] EXCEPT !.enabled = FALSE]
            ELSE c.list[i]]
<1>1. l \in [1..Len(c.list) -> Entry]
  BY ChainList DEF Entry
<1>2. l \in Seq(Entry) /\ Len(l) = Len(c.list)
  BY <1>1, ChainList, FcnSeq
<1>3. HookDelFunc(c, f) = [c EXCEPT !.list = l]
  BY Zenon DEF HookDelFunc
<1>4. ASSUME NEW i \in 1..Len(c.list)
      PROVE /\ l[i].func = c.list[i].func /\ l[i].task = c.list[i].task
            /\ l[i].enabled = (c.list[i].enabled /\ c.list[i].func # f)
  BY ChainList DEF Entry
<1> HIDE DEF l
<1>5. /\ [c EXCEPT !.list = l].list = l
      /\ [c EXCEPT !.list = l].orig = c.orig
      /\ [c EXCEPT !.list = l] \in Chain
  BY <1>2 DEF Chain
<1> QED
  BY <1>2, <1>3, <1>4, <1>5

\* bh_hook_add_func enables the task's old entry ...
LEMMA ReEnableFacts ==
  ASSUME NEW c \in Chain, NEW f \in Func, NEW t \in Task, EntriesOf(c, f, t) # {}
  PROVE  /\ HookAddFunc(c, f, t) \in Chain
         /\ HookAddFunc(c, f, t).orig = c.orig
         /\ Len(HookAddFunc(c, f, t).list) = Len(c.list)
         /\ \A i \in 1..Len(c.list) :
               /\ HookAddFunc(c, f, t).list[i].func = c.list[i].func
               /\ HookAddFunc(c, f, t).list[i].task = c.list[i].task
               /\ HookAddFunc(c, f, t).list[i].enabled
                    = (c.list[i].enabled \/ i \in EntriesOf(c, f, t))
<1> DEFINE l == [i \in 1..Len(c.list) |->
            IF i \in EntriesOf(c, f, t)
            THEN [c.list[i] EXCEPT !.enabled = TRUE]
            ELSE c.list[i]]
<1>1. l \in [1..Len(c.list) -> Entry]
  BY ChainList DEF Entry
<1>2. l \in Seq(Entry) /\ Len(l) = Len(c.list)
  BY <1>1, ChainList, FcnSeq
<1>3. HookAddFunc(c, f, t) = [c EXCEPT !.list = l]
  BY Zenon DEF HookAddFunc
<1>4. ASSUME NEW i \in 1..Len(c.list)
      PROVE /\ l[i].func = c.list[i].func /\ l[i].task = c.list[i].task
            /\ l[i].enabled = (c.list[i].enabled \/ i \in EntriesOf(c, f, t))
  BY ChainList DEF Entry
<1> HIDE DEF l
<1>5. /\ [c EXCEPT !.list = l].list = l
      /\ [c EXCEPT !.list = l].orig = c.orig
      /\ [c EXCEPT !.list = l] \in Chain
  BY <1>2 DEF Chain
<1> QED
  BY <1>2, <1>3, <1>4, <1>5

\* ... or gives it a new one.
LEMMA InsertFacts ==
  ASSUME NEW c \in Chain, NEW f \in Func, NEW t \in Task, EntriesOf(c, f, t) = {}
  PROVE  /\ HookAddFunc(c, f, t) \in Chain
         /\ HookAddFunc(c, f, t).orig = c.orig
         /\ Len(HookAddFunc(c, f, t).list) = Len(c.list) + 1
         /\ \A i \in 1..Len(c.list) : HookAddFunc(c, f, t).list[i] = c.list[i]
         /\ HookAddFunc(c, f, t).list[Len(c.list) + 1].func = f
         /\ HookAddFunc(c, f, t).list[Len(c.list) + 1].task = t
         /\ HookAddFunc(c, f, t).list[Len(c.list) + 1].enabled
<1> DEFINE r == [func |-> f, task |-> t, enabled |-> TRUE]
           l == Append(c.list, r)
<1>1. r \in Entry /\ r.func = f /\ r.task = t /\ r.enabled
  BY DEF Entry
<1> HIDE DEF r
<1>2. /\ l \in Seq(Entry) /\ Len(l) = Len(c.list) + 1
      /\ \A i \in 1..Len(c.list) : l[i] = c.list[i]
      /\ l[Len(c.list) + 1] = r
  BY <1>1, ChainList
<1>3. HookAddFunc(c, f, t) = [c EXCEPT !.list = l]
  BY Zenon DEF HookAddFunc, r
<1> HIDE DEF l
<1>4. /\ [c EXCEPT !.list = l].list = l
      /\ [c EXCEPT !.list = l].orig = c.orig
      /\ [c EXCEPT !.list = l] \in Chain
  BY <1>2 DEF Chain
<1> QED
  BY <1>1, <1>2, <1>3, <1>4

\* A chain without entries, as bh_hook_create makes it, and with its first one.
LEMMA NewChain ==
  ASSUME NEW o \in Orig \cup Nat, NEW f \in Func, NEW t \in Task
  PROVE  LET c == [orig |-> o, list |-> <<>>]
         IN  /\ c \in Chain /\ c.orig = o /\ Len(c.list) = 0
             /\ EntriesOf(c, f, t) = {}
  BY DEF Chain, EntriesOf

\* One chain of a slot is changed, or one is added on top.
LEMMA SetChain ==
  ASSUME NEW cs \in [Got -> Seq(Chain)], NEW g \in Got, NEW n \in 1..Len(cs[g]),
         NEW c \in Chain
  PROVE  LET ds == [cs EXCEPT ![g][n] = c]
         IN  /\ ds \in [Got -> Seq(Chain)]
             /\ \A h \in Got : Len(ds[h]) = Len(cs[h])
             /\ \A h \in Got \ {g} : ds[h] = cs[h]
             /\ \A m \in 1..Len(cs[g]) : m # n => ds[g][m] = cs[g][m]
             /\ ds[g][n] = c
  OBVIOUS

\* A chain added to the chains of a slot.
LEMMA AppendChain ==
  ASSUME NEW cs \in [Got -> Seq(Chain)], NEW g \in Got, NEW c \in Chain
  PROVE  LET ds == [cs EXCEPT ![g] = Append(@, c)]
         IN  /\ ds \in [Got -> Seq(Chain)]
             /\ Len(ds[g]) = Len(cs[g]) + 1
             /\ \A h \in Got \ {g} : ds[h] = cs[h]
             /\ \A m \in 1..Len(cs[g]) : ds[g][m] = cs[g][m]
             /\ ds[g][Len(cs[g]) + 1] = c
  OBVIOUS

\* th is at work on slot g to hook its task there.
Adding(th, g) == pc[th] = "slot" /\ g \in walk[th].todo /\ Hooking(th)

\* ... to unhook it there, or to take it back.
Removing(th, g) ==
    \/ pc[th] = "slot" /\ g \in walk[th].todo /\ job[th].op = "unhook"
    \/ pc[th] = "replace" /\ g = walk[th].slot

\* In automatic mode a slot holds no proxy.
LEMMA GotInAuto ==
  ASSUME OrigInv, mode = "AUTO", NEW g \in Got
  PROVE  got[g] \in Orig \cup Nat
  BY HookManagerAssumption DEF OrigInv, OrigKept, ChainNos

-----------------------------------------------------------------------------
(* What a step does to the chains                                          *)

\* Chain n of slot g becomes c, or is added as c; the other chains stay.
SetsChain(g, n, c) ==
    /\ chains' \in [Got -> Seq(Chain)]
    /\ n \in ChainNos(g)' /\ chains'[g][n] = c
    /\ ChainNos(g)' = ChainNos(g) \cup {n}
    /\ \A m \in ChainNos(g) \ {n} : chains'[g][m] = chains[g][m]
    /\ \A h \in Got \ {g} : chains'[h] = chains[h] /\ hooks'[h] = hooks[h]

NoEntries(g) == [orig |-> got[g], list |-> <<>>]

\* The task of th gets an enabled entry in the slot's chain b, an old or a new one.
AddsTo(th, g, n, b) ==
    /\ mode = "AUTO"
    /\ \/ hooks[g] # 0 /\ n = hooks[g] /\ b = Cur(g)
       \/ hooks[g] = 0 /\ n = Len(chains[g]) + 1 /\ b = NoEntries(g)
    /\ ~Repeated(b, FuncOf[TaskOf(th)])
    /\ SetsChain(g, n, HookAddFunc(b, FuncOf[TaskOf(th)], TaskOf(th)))
    /\ n = Len(chains'[g]) /\ hooks'[g] = n

\* A new chain stays without entries.
AddsNone(g) ==
    /\ mode = "AUTO"
    /\ hooks[g] = 0
    /\ SetsChain(g, Len(chains[g]) + 1, NoEntries(g))
    /\ Len(chains'[g]) = Len(chains[g]) + 1 /\ hooks'[g] = Len(chains[g]) + 1

\* The proxy of th's task is disabled in the slot's chain.
Dels(th, g) ==
    /\ hooks[g] # 0 /\ Len(chains'[g]) = Len(chains[g])
    /\ SetsChain(g, hooks[g], HookDelFunc(Cur(g), FuncOf[TaskOf(th)]))
    /\ hooks'[g] = IF Enabled(HookDelFunc(Cur(g), FuncOf[TaskOf(th)])) = {}
                   THEN 0 ELSE hooks[g]

\* The chain in the tree is the newest one of its slot.
LEMMA CurChain ==
  ASSUME TypeOK, TreeInv, NEW g \in Got, hooks[g] # 0
  PROVE  /\ hooks[g] = Len(chains[g]) /\ hooks[g] \in ChainNos(g)
         /\ Cur(g) \in Chain /\ mode = "AUTO"
<1>1. hooks[g] = Len(chains[g]) /\ chains[g] \in Seq(Chain) /\ TreeSlot(g)
  BY DEF TreeInv, TreeSlot, TypeOK
<1>2. hooks[g] \in 1..Len(chains[g])
  BY <1>1
<1>3. chains[g][hooks[g]] \in Chain
  BY <1>1, <1>2
<1>4. mode # "MANUAL"
  BY <1>1, <1>2 DEF TreeSlot
<1> QED
  BY <1>1, <1>2, <1>3, <1>4 DEF ChainNos, Cur, TypeOK

\* The task of a call.
LEMMA TaskFacts ==
  ASSUME CallInv, NEW th \in Thread, pc[th] # "idle"
  PROVE  TaskOf(th) \in Task /\ FuncOf[TaskOf(th)] \in Func /\ job[th] \in Job
<1>1. job[th] \in Job
  BY DEF CallInv, CallOk
<1>2. TaskOf(th) \in Task
  BY <1>1 DEF Job, TaskOf
<1> QED
  BY <1>1, <1>2, HookManagerAssumption

\* bh_hook_add_func returns a chain with the same orig_func.
LEMMA AddFuncInChain ==
  ASSUME NEW c \in Chain, NEW f \in Func, NEW t \in Task
  PROVE  HookAddFunc(c, f, t) \in Chain /\ HookAddFunc(c, f, t).orig = c.orig
<1>1. CASE EntriesOf(c, f, t) = {}
  BY <1>1, InsertFacts
<1>2. CASE EntriesOf(c, f, t) # {}
  BY <1>2, ReEnableFacts
<1> QED
  BY <1>1, <1>2

\* The three ways of bh_hook_manager_add_func and the one of bh_hook_manager_del_func.
LEMMA AddFuncFoundAdds ==
  ASSUME TypeOK, CallInv, TreeInv,
         NEW th \in Thread, NEW g \in Got, AddFuncFound(th, g)
  PROVE  AddsTo(th, g, hooks[g], Cur(g))
<1> DEFINE c == HookAddFunc(Cur(g), FuncOf[TaskOf(th)], TaskOf(th))
<1>1. /\ pc[th] # "idle" /\ hooks[g] # 0 /\ ~Repeated(Cur(g), FuncOf[TaskOf(th)])
      /\ chains' = [chains EXCEPT ![g][hooks[g]] = c] /\ UNCHANGED hooks
  BY DEF AddFuncFound, HookSlot
<1>2. hooks[g] = Len(chains[g]) /\ hooks[g] \in 1..Len(chains[g]) /\ Cur(g) \in Chain
  BY <1>1, CurChain DEF ChainNos
<1>3. c \in Chain
  BY <1>1, <1>2, TaskFacts, AddFuncInChain
<1> HIDE DEF c
<1>4. chains \in [Got -> Seq(Chain)]
  BY DEF TypeOK
<1>5. /\ chains' \in [Got -> Seq(Chain)] /\ Len(chains'[g]) = Len(chains[g])
      /\ \A h \in Got \ {g} : chains'[h] = chains[h]
      /\ \A m \in 1..Len(chains[g]) : m # hooks[g] => chains'[g][m] = chains[g][m]
      /\ chains'[g][hooks[g]] = c
  BY <1>1, <1>2, <1>3, <1>4, SetChain
<1>6. SetsChain(g, hooks[g], c)
  BY <1>1, <1>2, <1>5 DEF SetsChain, ChainNos
<1> QED
  BY <1>1, <1>2, <1>5, <1>6, CurChain DEF AddsTo, c

\* ... a chain made for the entry,
LEMMA AddFuncCreatedAdds ==
  ASSUME TypeOK, CallInv, OrigInv,
         NEW th \in Thread, NEW g \in Got, AddFuncCreated(th, g)
  PROVE  AddsTo(th, g, Len(chains[g]) + 1, NoEntries(g))
<1> DEFINE c == HookAddFunc(NoEntries(g), FuncOf[TaskOf(th)], TaskOf(th))
           n == Len(chains[g]) + 1
<1>1. /\ pc[th] # "idle" /\ hooks[g] = 0 /\ mode = "AUTO"
      /\ chains' = [chains EXCEPT ![g] = Append(@, c)]
      /\ hooks' = [hooks EXCEPT ![g] = n]
  BY DEF AddFuncCreated, HookSlot, NoEntries
<1>2. got[g] \in Orig \cup Nat
  BY <1>1, HookManagerAssumption DEF OrigInv, OrigKept, ChainNos
<1>3. NoEntries(g) \in Chain /\ Len(NoEntries(g).list) = 0
  BY <1>2 DEF Chain, NoEntries
<1>4. c \in Chain
  BY <1>1, <1>3, TaskFacts, AddFuncInChain
<1>5. ~Repeated(NoEntries(g), FuncOf[TaskOf(th)])
  BY <1>3 DEF Repeated, Enabled
<1> HIDE DEF c
<1>6. chains \in [Got -> Seq(Chain)] /\ hooks \in [Got -> Nat] /\ Len(chains[g]) \in Nat
  BY DEF TypeOK
<1>7. /\ chains' \in [Got -> Seq(Chain)] /\ Len(chains'[g]) = n
      /\ \A h \in Got \ {g} : chains'[h] = chains[h]
      /\ \A m \in 1..Len(chains[g]) : chains'[g][m] = chains[g][m]
      /\ chains'[g][n] = c
  BY <1>1, <1>4, <1>6, AppendChain
<1>8. SetsChain(g, n, c)
  BY <1>1, <1>6, <1>7 DEF SetsChain, ChainNos
<1> QED
  BY <1>1, <1>5, <1>6, <1>7, <1>8 DEF AddsTo, c

\* ... a chain left behind without one,
LEMMA AppendFailsAdds ==
  ASSUME TypeOK, CallInv, OrigInv,
         NEW th \in Thread, NEW g \in Got, AppendFails(th, g)
  PROVE  UNCHANGED <<chains, hooks>> \/ AddsNone(g)
<1> DEFINE n == Len(chains[g]) + 1
<1>1. CASE UNCHANGED <<chains, hooks>>
  BY <1>1
<1>2. CASE ~UNCHANGED <<chains, hooks>>
  <2>1. /\ hooks[g] = 0 /\ mode = "AUTO"
        /\ chains' = [chains EXCEPT ![g] = Append(@, NoEntries(g))]
        /\ hooks' = [hooks EXCEPT ![g] = n]
    BY <1>2 DEF AppendFails, HookSlot, NoEntries
  <2>2. got[g] \in Orig \cup Nat
    BY <2>1, HookManagerAssumption DEF OrigInv, OrigKept, ChainNos
  <2>3. NoEntries(g) \in Chain
    BY <2>2 DEF Chain, NoEntries
  <2>4. chains \in [Got -> Seq(Chain)] /\ hooks \in [Got -> Nat] /\ Len(chains[g]) \in Nat
    BY DEF TypeOK
  <2>5. /\ chains' \in [Got -> Seq(Chain)] /\ Len(chains'[g]) = n
        /\ \A h \in Got \ {g} : chains'[h] = chains[h]
        /\ \A m \in 1..Len(chains[g]) : chains'[g][m] = chains[g][m]
        /\ chains'[g][n] = NoEntries(g)
    BY <2>1, <2>3, <2>4, AppendChain
  <2>6. SetsChain(g, n, NoEntries(g))
    BY <2>1, <2>4, <2>5 DEF SetsChain, ChainNos
  <2> QED
    BY <2>1, <2>4, <2>5, <2>6 DEF AddsNone
<1> QED
  BY <1>1, <1>2

\* ... the entries of a function disabled.
LEMMA ChainDelDels ==
  ASSUME TypeOK, CallInv, TreeInv, NEW th \in Thread, pc[th] # "idle",
         NEW g \in Got, hooks[g] # 0, ChainDel(g, FuncOf[TaskOf(th)])
  PROVE  Dels(th, g)
<1> DEFINE c == HookDelFunc(Cur(g), FuncOf[TaskOf(th)])
<1>1. /\ chains' = [chains EXCEPT ![g][hooks[g]] = c]
      /\ hooks' = IF Enabled(c) = {} THEN [hooks EXCEPT ![g] = 0] ELSE hooks
  BY DEF ChainDel
<1>2. hooks[g] = Len(chains[g]) /\ hooks[g] \in 1..Len(chains[g]) /\ Cur(g) \in Chain
  BY CurChain DEF ChainNos
<1>3. c \in Chain
  BY <1>2, TaskFacts, DelFuncFacts
<1> HIDE DEF c
<1>4. chains \in [Got -> Seq(Chain)] /\ hooks \in [Got -> Nat]
  BY DEF TypeOK
<1>5. /\ chains' \in [Got -> Seq(Chain)] /\ Len(chains'[g]) = Len(chains[g])
      /\ \A h \in Got \ {g} : chains'[h] = chains[h]
      /\ \A m \in 1..Len(chains[g]) : m # hooks[g] => chains'[g][m] = chains[g][m]
      /\ chains'[g][hooks[g]] = c
  BY <1>1, <1>2, <1>3, <1>4, SetChain
<1>6. SetsChain(g, hooks[g], c)
  BY <1>1, <1>2, <1>4, <1>5 DEF SetsChain, ChainNos
<1>7. hooks'[g] = IF Enabled(c) = {} THEN 0 ELSE hooks[g]
  BY <1>1, <1>4
<1> QED
  BY <1>5, <1>6, <1>7 DEF Dels, c

\* Two threads are not at work on one slot: ELFs have slots of their own.
LEMMA OneAtASlot ==
  ASSUME TypeOK, CallInv, NEW th \in Thread, NEW u \in Thread, u # th,
         pc[th] \in Holding, pc[u] \in Holding, NEW g \in walk[th].todo
  PROVE  g \notin walk[u].todo
<1>1. /\ ElfOf(th) \in Elf /\ ElfOf(u) \in Elf
      /\ walk[th].todo \subseteq GotsOf[ElfOf(th)] /\ walk[u].todo \subseteq GotsOf[ElfOf(u)]
      /\ hook_lock[ElfOf(th)] = th /\ hook_lock[ElfOf(u)] = u
  BY DEF CallInv, CallOk, Walking, Holding, Walk, ElfOf
<1> QED
  BY <1>1, HookManagerAssumption

\* A step of th keeps TreeInv when it keeps th's part and touches at most a slot th
\* is at work on.
LEMMA TreeFrame ==
  ASSUME TypeOK, CallInv, TreeInv, NEW th \in Thread, Others(th), mode' = mode,
         \A g \in Got : TreeSlot(g)', TreeOk(th)',
         \A h \in Got : ~(pc[th] \in Holding /\ h \in walk[th].todo) =>
            chains'[h] = chains[h] /\ hooks'[h] = hooks[h] /\ got'[h] = got[h]
  PROVE  TreeInv'
<1>1. ASSUME NEW u \in Thread, u # th PROVE TreeOk(u)'
  <2>1. TreeOk(u) /\ pc'[u] = pc[u] /\ walk'[u] = walk[u] /\ job'[u] = job[u]
    BY <1>1 DEF TreeInv, Others
  <2>2. CASE pc[u] \notin {"replace", "restore"}
    BY <2>1, <2>2 DEF TreeOk
  <2>3. CASE pc[u] \in {"replace", "restore"}
    <3>1. walk[u].slot \in walk[u].todo /\ walk[u].slot \in Got /\ pc[u] \in Holding
      BY <2>3, HookManagerAssumption DEF CallInv, CallOk, Walking, Holding, Walk
    <3>2. ~(pc[th] \in Holding /\ walk[u].slot \in walk[th].todo)
      BY <3>1, <1>1, OneAtASlot
    <3> QED
      BY ZenonT(30), <2>1, <3>1, <3>2 DEF TreeOk, Cur, TaskOf, FirstEntry
  <2> QED
    BY <2>2, <2>3
<1> QED
  BY <1>1 DEF TreeInv

\* A chain that was just made has one entry.
LEMMA FirstAdd ==
  ASSUME NEW g, NoEntries(g) \in Chain, NEW t \in Task
  PROVE  LET c == HookAddFunc(NoEntries(g), FuncOf[t], t)
         IN  c \in Chain /\ c.orig = NoEntries(g).orig /\ FirstEntry(c, t)
<1> DEFINE b == NoEntries(g)
           c == HookAddFunc(b, FuncOf[t], t)
           n == Len(b.list) + 1
<1>1. FuncOf[t] \in Func /\ n = 1 /\ EntriesOf(b, FuncOf[t], t) = {}
  BY HookManagerAssumption DEF EntriesOf, NoEntries
<1> HIDE DEF b
<1>2. /\ c \in Chain /\ c.orig = b.orig /\ Len(c.list) = n
      /\ c.list[n].func = FuncOf[t] /\ c.list[n].task = t /\ c.list[n].enabled
  BY <1>1, InsertFacts DEF b
<1> HIDE DEF c, n
<1>3. c \in Chain /\ c.orig = b.orig /\ FirstEntry(c, t)
  BY <1>1, <1>2 DEF FirstEntry
<1> QED
  BY <1>3 DEF b, c

\* A step that touches no slot.
LEMMA TreeSame ==
  ASSUME TypeOK, CallInv, TreeInv, NEW th \in Thread, Others(th),
         UNCHANGED <<mode, got, hooks, chains>>, pc'[th] \notin {"replace", "restore"}
  PROVE  TreeInv'
<1>1. \A g \in Got : TreeSlot(g)'
  BY DEF TreeInv, TreeSlot
<1>2. TreeOk(th)'
  BY DEF TreeOk
<1> QED
  BY <1>1, <1>2, TreeFrame

\* Every step changes at most one chain, in one of these ways.
LEMMA ChainSteps ==
  ASSUME TypeOK, CallInv, TreeInv, OrigInv, [Next]_vars
  PROVE  \/ UNCHANGED <<chains, hooks>>
         \/ \E th \in Thread, g \in Got, n \in Nat, b \in Chain :
               Adding(th, g) /\ AddsTo(th, g, n, b)
         \/ \E g \in Got : AddsNone(g)
         \/ \E th \in Thread, g \in Got : Removing(th, g) /\ Dels(th, g)
<1> DEFINE Goal ==
         \/ UNCHANGED <<chains, hooks>>
         \/ \E th \in Thread, g \in Got, n \in Nat, b \in Chain :
               Adding(th, g) /\ AddsTo(th, g, n, b)
         \/ \E g \in Got : AddsNone(g)
         \/ \E th \in Thread, g \in Got : Removing(th, g) /\ Dels(th, g)
<1> SUFFICES Goal
  OBVIOUS
<1>1. ASSUME NEW th \in Thread, NEW e \in Elf, HookRefused(th, e) PROVE Goal
  BY <1>1 DEF HookRefused, chainVars
<1>2. ASSUME NEW th \in Thread, NEW e \in Elf, FindFault(th, e) PROVE Goal
  BY <1>2 DEF FindFault, chainVars
<1>3. ASSUME NEW th \in Thread, NEW e \in Elf, HookCfi(th, e) PROVE Goal
  BY <1>3 DEF HookCfi, chainVars
<1>4. ASSUME NEW th \in Thread, NEW e \in Elf, UnhookRefused(th, e) PROVE Goal
  BY <1>4 DEF UnhookRefused, chainVars
<1>5. ASSUME NEW th \in Thread, NEW e \in Elf, FindSlots(th, e) PROVE Goal
  BY <1>5 DEF FindSlots, chainVars
<1>6. ASSUME NEW th \in Thread, NEW g \in Got, ReadFault(th, g) PROVE Goal
  BY <1>6 DEF ReadFault, chainVars
<1>7. ASSUME NEW th \in Thread, NEW g \in Got, AddFuncFound(th, g) PROVE Goal
  <2>1. Adding(th, g) /\ hooks[g] # 0
    BY <1>7 DEF AddFuncFound, HookSlot, Adding
  <2>2. hooks[g] \in Nat /\ Cur(g) \in Chain
    BY <2>1, CurChain DEF TypeOK
  <2>3. AddsTo(th, g, hooks[g], Cur(g))
    BY <1>7, AddFuncFoundAdds
  <2> QED
    BY <2>1, <2>2, <2>3
<1>8. ASSUME NEW th \in Thread, NEW g \in Got, AddFuncRepeated(th, g) PROVE Goal
  BY <1>8 DEF AddFuncRepeated, chainVars
<1>9. ASSUME NEW th \in Thread, NEW g \in Got, AddFuncCreated(th, g) PROVE Goal
  <2>1. NoEntries(g) \in Chain /\ Adding(th, g)
    BY <1>9, GotInAuto DEF AddFuncCreated, HookSlot, Adding, NoEntries, Chain
  <2>2. Len(chains[g]) + 1 \in Nat
    BY DEF TypeOK
  <2>3. AddsTo(th, g, Len(chains[g]) + 1, NoEntries(g))
    BY <1>9, AddFuncCreatedAdds
  <2> QED
    BY <2>1, <2>2, <2>3
<1>10. ASSUME NEW th \in Thread, NEW g \in Got, CreateFails(th, g) PROVE Goal
  BY <1>10 DEF CreateFails, chainVars
<1>11. ASSUME NEW th \in Thread, NEW g \in Got, AppendFails(th, g) PROVE Goal
  <2>1. UNCHANGED <<chains, hooks>> \/ AddsNone(g)
    BY <1>11, AppendFailsAdds
  <2> QED
    BY <2>1
<1>12. ASSUME NEW th \in Thread, NEW g \in Got, DelFuncNone(th, g) PROVE Goal
  BY <1>12 DEF DelFuncNone, chainVars
<1>13. ASSUME NEW th \in Thread, NEW g \in Got, DelFunc(th, g) PROVE Goal
  <2>1. pc[th] # "idle" /\ hooks[g] # 0 /\ ChainDel(g, FuncOf[TaskOf(th)])
    BY <1>13 DEF DelFunc, UnhookSlot
  <2>2. Dels(th, g)
    BY <2>1, ChainDelDels
  <2>3. Removing(th, g)
    BY <1>13 DEF DelFunc, UnhookSlot, Removing
  <2> QED
    BY <2>2, <2>3
<1>14. ASSUME NEW th \in Thread, NEW g \in Got, ManualHook(th, g) PROVE Goal
  BY <1>14 DEF ManualHook, chainVars
<1>15. ASSUME NEW th \in Thread, NEW g \in Got, ManualHookFails(th, g) PROVE Goal
  BY <1>15 DEF ManualHookFails, chainVars
<1>16. ASSUME NEW th \in Thread, NEW g \in Got, ManualUnhook(th, g) PROVE Goal
  BY <1>16 DEF ManualUnhook, chainVars
<1>17. ASSUME NEW th \in Thread, Lock(th) PROVE Goal
  BY <1>17 DEF Lock, chainVars
<1>18. ASSUME NEW th \in Thread, Unlock(th) PROVE Goal
  BY <1>18 DEF Unlock, chainVars
<1>19. ASSUME NEW th \in Thread, Replace(th) PROVE Goal
  BY <1>19 DEF Replace, chainVars
<1>20. ASSUME NEW th \in Thread, ReplaceFails(th) PROVE Goal
  <2>1. /\ pc[th] = "replace" /\ walk[th].slot \in Got /\ hooks[walk[th].slot] # 0
        /\ ChainDel(walk[th].slot, FuncOf[TaskOf(th)])
    BY <1>20 DEF ReplaceFails, CallInv, CallOk, Walking, Walk, TreeInv, TreeOk
  <2>2. Dels(th, walk[th].slot)
    BY <2>1, ChainDelDels
  <2>3. Removing(th, walk[th].slot)
    BY <2>1 DEF Removing
  <2> QED
    BY <2>1, <2>2, <2>3
<1>21. ASSUME NEW th \in Thread, Restore(th) PROVE Goal
  BY <1>21 DEF Restore, chainVars
<1>22. ASSUME NEW th \in Thread, Finish(th) PROVE Goal
  BY <1>22 DEF Finish, chainVars
<1>23. ASSUME NEW th \in Thread, NEW t \in Task, HookBegin(th, t) PROVE Goal
  BY <1>23 DEF HookBegin, chainVars
<1>24. ASSUME NEW th \in Thread, NEW t \in Task, UnhookBegin(th, t) PROVE Goal
  BY <1>24 DEF UnhookBegin, chainVars
<1>25. ASSUME NEW th \in Thread, NEW t \in Task, NEW e \in Elf, HookElfBegin(th, t, e) PROVE Goal
  BY <1>25 DEF HookElfBegin, chainVars
<1>26. CASE UNCHANGED vars
  BY <1>26 DEF vars, chainVars
<1> HIDE DEF Goal
<1> QED
  BY <1>1, <1>2, <1>3, <1>4, <1>5, <1>6, <1>7, <1>8, <1>9, <1>10, <1>11, <1>12, <1>13,
     <1>14, <1>15, <1>16, <1>17, <1>18, <1>19, <1>20, <1>21, <1>22, <1>23, <1>24, <1>25,
     <1>26
     DEF Next, Progress, ElfStep, SlotStep, Quiet

\* bh_core.mode is set once.
LEMMA NextMode ==
  ASSUME [Next]_vars
  PROVE  mode' = mode
<1> DEFINE Goal == mode' = mode
<1> SUFFICES Goal
  OBVIOUS
<1>1. ASSUME NEW th \in Thread, NEW e \in Elf, HookRefused(th, e) PROVE Goal
  BY <1>1 DEF HookRefused
<1>2. ASSUME NEW th \in Thread, NEW e \in Elf, FindFault(th, e) PROVE Goal
  BY <1>2 DEF FindFault
<1>3. ASSUME NEW th \in Thread, NEW e \in Elf, HookCfi(th, e) PROVE Goal
  BY <1>3 DEF HookCfi
<1>4. ASSUME NEW th \in Thread, NEW e \in Elf, UnhookRefused(th, e) PROVE Goal
  BY <1>4 DEF UnhookRefused
<1>5. ASSUME NEW th \in Thread, NEW e \in Elf, FindSlots(th, e) PROVE Goal
  BY <1>5 DEF FindSlots
<1>6. ASSUME NEW th \in Thread, NEW g \in Got, ReadFault(th, g) PROVE Goal
  BY <1>6 DEF ReadFault
<1>7. ASSUME NEW th \in Thread, NEW g \in Got, AddFuncFound(th, g) PROVE Goal
  BY <1>7 DEF AddFuncFound
<1>8. ASSUME NEW th \in Thread, NEW g \in Got, AddFuncRepeated(th, g) PROVE Goal
  BY <1>8 DEF AddFuncRepeated
<1>9. ASSUME NEW th \in Thread, NEW g \in Got, AddFuncCreated(th, g) PROVE Goal
  BY <1>9 DEF AddFuncCreated
<1>10. ASSUME NEW th \in Thread, NEW g \in Got, CreateFails(th, g) PROVE Goal
  BY <1>10 DEF CreateFails
<1>11. ASSUME NEW th \in Thread, NEW g \in Got, AppendFails(th, g) PROVE Goal
  BY <1>11 DEF AppendFails
<1>12. ASSUME NEW th \in Thread, NEW g \in Got, DelFuncNone(th, g) PROVE Goal
  BY <1>12 DEF DelFuncNone
<1>13. ASSUME NEW th \in Thread, NEW g \in Got, DelFunc(th, g) PROVE Goal
  BY <1>13 DEF DelFunc
<1>14. ASSUME NEW th \in Thread, NEW g \in Got, ManualHook(th, g) PROVE Goal
  BY <1>14 DEF ManualHook
<1>15. ASSUME NEW th \in Thread, NEW g \in Got, ManualHookFails(th, g) PROVE Goal
  BY <1>15 DEF ManualHookFails
<1>16. ASSUME NEW th \in Thread, NEW g \in Got, ManualUnhook(th, g) PROVE Goal
  BY <1>16 DEF ManualUnhook
<1>17. ASSUME NEW th \in Thread, Lock(th) PROVE Goal
  BY <1>17 DEF Lock
<1>18. ASSUME NEW th \in Thread, Unlock(th) PROVE Goal
  BY <1>18 DEF Unlock
<1>19. ASSUME NEW th \in Thread, Replace(th) PROVE Goal
  BY <1>19 DEF Replace
<1>20. ASSUME NEW th \in Thread, ReplaceFails(th) PROVE Goal
  BY <1>20 DEF ReplaceFails
<1>21. ASSUME NEW th \in Thread, Restore(th) PROVE Goal
  BY <1>21 DEF Restore
<1>22. ASSUME NEW th \in Thread, Finish(th) PROVE Goal
  BY <1>22 DEF Finish
<1>23. ASSUME NEW th \in Thread, NEW t \in Task, HookBegin(th, t) PROVE Goal
  BY <1>23 DEF HookBegin
<1>24. ASSUME NEW th \in Thread, NEW t \in Task, UnhookBegin(th, t) PROVE Goal
  BY <1>24 DEF UnhookBegin
<1>25. ASSUME NEW th \in Thread, NEW t \in Task, NEW e \in Elf, HookElfBegin(th, t, e) PROVE Goal
  BY <1>25 DEF HookElfBegin
<1>26. CASE UNCHANGED vars
  BY <1>26 DEF vars
<1> HIDE DEF Goal
<1> QED
  BY <1>1, <1>2, <1>3, <1>4, <1>5, <1>6, <1>7, <1>8, <1>9, <1>10, <1>11, <1>12, <1>13,
     <1>14, <1>15, <1>16, <1>17, <1>18, <1>19, <1>20, <1>21, <1>22, <1>23, <1>24, <1>25,
     <1>26
     DEF Next, Progress, ElfStep, SlotStep, Quiet

\* The tree holds the newest chains only, and knows those that are put in and taken out.
LEMMA NextTree ==
  ASSUME TypeOK, CallInv, TreeInv, OrigInv, [Next]_vars
  PROVE  TreeInv'
<1>1. ASSUME NEW th \in Thread, NEW e \in Elf, HookRefused(th, e) PROVE TreeInv'
  <2>1. Others(th) /\ UNCHANGED <<mode, got, hooks, chains>> /\ pc'[th] \notin {"replace", "restore"}
    BY <1>1 DEF HookRefused, NextElf, Others, chainVars, TypeOK
  <2> QED
    BY <2>1, TreeSame
<1>2. ASSUME NEW th \in Thread, NEW e \in Elf, FindFault(th, e) PROVE TreeInv'
  <2>1. Others(th) /\ UNCHANGED <<mode, got, hooks, chains>> /\ pc'[th] \notin {"replace", "restore"}
    BY <1>2 DEF FindFault, NextElf, Others, chainVars, TypeOK
  <2> QED
    BY <2>1, TreeSame
<1>3. ASSUME NEW th \in Thread, NEW e \in Elf, HookCfi(th, e) PROVE TreeInv'
  <2>1. Others(th) /\ UNCHANGED <<mode, got, hooks, chains>> /\ pc'[th] \notin {"replace", "restore"}
    BY <1>3 DEF HookCfi, NextElf, Others, chainVars, TypeOK
  <2> QED
    BY <2>1, TreeSame
<1>4. ASSUME NEW th \in Thread, NEW e \in Elf, UnhookRefused(th, e) PROVE TreeInv'
  <2>1. Others(th) /\ UNCHANGED <<mode, got, hooks, chains>> /\ pc'[th] \notin {"replace", "restore"}
    BY <1>4 DEF UnhookRefused, NextElf, Others, chainVars, TypeOK
  <2> QED
    BY <2>1, TreeSame
<1>5. ASSUME NEW th \in Thread, NEW e \in Elf, FindSlots(th, e) PROVE TreeInv'
  <2>1. Others(th) /\ UNCHANGED <<mode, got, hooks, chains>> /\ pc'[th] \notin {"replace", "restore"}
    BY <1>5 DEF FindSlots, NextElf, Others, chainVars, TypeOK
  <2> QED
    BY <2>1, TreeSame
<1>6. ASSUME NEW th \in Thread, NEW g \in Got, ReadFault(th, g) PROVE TreeInv'
  <2>1. Others(th) /\ UNCHANGED <<mode, got, hooks, chains>> /\ pc'[th] \notin {"replace", "restore"}
    BY <1>6
       DEF ReadFault, SlotDone, HookSlot, UnhookSlot, NextElf, Others, chainVars, TypeOK
  <2> QED
    BY <2>1, TreeSame
<1>7. ASSUME NEW th \in Thread, NEW g \in Got, AddFuncFound(th, g) PROVE TreeInv'
  <2>1. AddsTo(th, g, hooks[g], Cur(g))
    BY <1>7, AddFuncFoundAdds
  <2>2. \A h \in Got \ {g} : chains'[h] = chains[h] /\ hooks'[h] = hooks[h]
    BY <2>1 DEF AddsTo, SetsChain
  <2>3. hooks'[g] = Len(chains'[g])
    BY <2>1 DEF AddsTo
  <2>4. mode' = mode /\ mode = "AUTO"
    BY <1>7 DEF AddFuncFound, HookSlot, UnhookSlot
  <2>5. \A h \in Got : TreeSlot(h)'
    BY <2>2, <2>3, <2>4 DEF TreeInv, TreeSlot
  <2>6. /\ pc[th] \in Holding /\ g \in walk[th].todo /\ Others(th)
        /\ pc'[th] = "slot" /\ got' = got
    BY <1>7 DEF AddFuncFound, HookSlot, SlotDone, Others, Holding, TypeOK
  <2> QED
    BY <2>2, <2>4, <2>5, <2>6, TreeFrame DEF TreeOk
<1>8. ASSUME NEW th \in Thread, NEW g \in Got, AddFuncRepeated(th, g) PROVE TreeInv'
  <2>1. Others(th) /\ UNCHANGED <<mode, got, hooks, chains>> /\ pc'[th] \notin {"replace", "restore"}
    BY <1>8
       DEF AddFuncRepeated, SlotDone, HookSlot, UnhookSlot, NextElf, Others, chainVars,
           TypeOK
  <2> QED
    BY <2>1, TreeSame
<1>9. ASSUME NEW th \in Thread, NEW g \in Got, AddFuncCreated(th, g) PROVE TreeInv'
  <2>1. AddsTo(th, g, Len(chains[g]) + 1, NoEntries(g))
    BY <1>9, AddFuncCreatedAdds
  <2>2. \A h \in Got \ {g} : chains'[h] = chains[h] /\ hooks'[h] = hooks[h]
    BY <2>1 DEF AddsTo, SetsChain
  <2>3. hooks'[g] = Len(chains'[g])
    BY <2>1 DEF AddsTo
  <2>4. mode' = mode /\ mode = "AUTO"
    BY <1>9 DEF AddFuncCreated, HookSlot, UnhookSlot
  <2>5. \A h \in Got : TreeSlot(h)'
    BY <2>2, <2>3, <2>4 DEF TreeInv, TreeSlot
  <2>6. /\ pc[th] \in Holding /\ g \in walk[th].todo /\ walk[th] \in Walk
        /\ Others(th) /\ pc'[th] = "replace" /\ got' = got /\ walk'[th].slot = g
        /\ TaskOf(th)' = TaskOf(th)
    BY <1>9
       DEF AddFuncCreated, HookSlot, Others, Holding, Walking, Walk, TypeOK, CallInv,
           CallOk, TaskOf
  <2>7. /\ hooks[g] = 0 /\ NoEntries(g) \in Chain /\ pc[th] # "idle"
    BY <1>9, GotInAuto DEF AddFuncCreated, HookSlot, NoEntries, Chain
  <2>8. /\ hooks'[g] \in ChainNos(g)' /\ hooks'[g] = Len(chains'[g])
        /\ chains'[g][hooks'[g]] = HookAddFunc(NoEntries(g), FuncOf[TaskOf(th)], TaskOf(th))
    BY <2>1 DEF AddsTo, SetsChain
  <2>9. /\ chains'[g][hooks'[g]].orig = got[g]
        /\ FirstEntry(chains'[g][hooks'[g]], TaskOf(th))
    BY <2>7, <2>8, FirstAdd, TaskFacts DEF NoEntries
  <2>10. hooks'[g] # 0 /\ chains'[g] # <<>>
    BY <2>8 DEF ChainNos
  <2>11. TreeOk(th)'
    BY <2>4, <2>6, <2>9, <2>10 DEF TreeOk, Cur, FirstEntry
  <2> QED
    BY <2>2, <2>4, <2>5, <2>6, <2>11, TreeFrame
<1>10. ASSUME NEW th \in Thread, NEW g \in Got, CreateFails(th, g) PROVE TreeInv'
  <2>1. Others(th) /\ UNCHANGED <<mode, got, hooks, chains>> /\ pc'[th] \notin {"replace", "restore"}
    BY <1>10
       DEF CreateFails, SlotDone, HookSlot, UnhookSlot, NextElf, Others, chainVars, TypeOK
  <2> QED
    BY <2>1, TreeSame
<1>11. ASSUME NEW th \in Thread, NEW g \in Got, AppendFails(th, g) PROVE TreeInv'
  <2>1. /\ pc[th] \in Holding /\ g \in walk[th].todo /\ Others(th) /\ mode' = mode
        /\ pc'[th] = "slot" /\ got' = got
    BY <1>11 DEF AppendFails, HookSlot, SlotDone, Others, Holding, TypeOK
  <2>2. CASE UNCHANGED <<chains, hooks>>
    BY <2>1, <2>2, TreeSame
  <2>3. CASE AddsNone(g)
    <3>1. \A h \in Got \ {g} : chains'[h] = chains[h] /\ hooks'[h] = hooks[h]
      BY <2>3 DEF AddsNone, SetsChain
    <3>2. hooks'[g] = Len(chains'[g]) /\ mode = "AUTO"
      BY <2>3 DEF AddsNone
    <3>3. \A h \in Got : TreeSlot(h)'
      BY <2>1, <3>1, <3>2 DEF TreeInv, TreeSlot
    <3> QED
      BY <2>1, <3>1, <3>3, TreeFrame DEF TreeOk
  <2> QED
    BY <1>11, <2>2, <2>3, AppendFailsAdds
<1>12. ASSUME NEW th \in Thread, NEW g \in Got, DelFuncNone(th, g) PROVE TreeInv'
  <2>1. Others(th) /\ UNCHANGED <<mode, got, hooks, chains>> /\ pc'[th] \notin {"replace", "restore"}
    BY <1>12
       DEF DelFuncNone, SlotDone, HookSlot, UnhookSlot, NextElf, Others, chainVars, TypeOK
  <2> QED
    BY <2>1, TreeSame
<1>13. ASSUME NEW th \in Thread, NEW g \in Got, DelFunc(th, g) PROVE TreeInv'
  <2>1. Dels(th, g) /\ hooks[g] # 0
    BY <1>13, ChainDelDels DEF DelFunc, UnhookSlot
  <2>2. \A h \in Got \ {g} : chains'[h] = chains[h] /\ hooks'[h] = hooks[h]
    BY <2>1 DEF Dels, SetsChain
  <2>3. hooks'[g] \in {0, Len(chains'[g])} /\ chains'[g] # <<>>
    BY <2>1, CurChain DEF Dels, SetsChain, ChainNos
  <2>4. mode' = mode /\ mode = "AUTO" /\ got' = got
    BY <1>13 DEF DelFunc
  <2>5. \A h \in Got : TreeSlot(h)'
    BY <2>2, <2>3, <2>4 DEF TreeInv, TreeSlot
  <2>6. /\ pc[th] = "slot" /\ pc[th] \in Holding /\ g \in walk[th].todo
        /\ Others(th) /\ walk[th] \in Walk
    BY <1>13
       DEF DelFunc, UnhookSlot, SlotDone, Others, Holding, Walking, TypeOK, CallInv,
           CallOk
  <2>7. CASE Enabled(HookDelFunc(Cur(g), FuncOf[TaskOf(th)])) = {}
    <3>1. pc'[th] = "restore" /\ walk'[th].slot = g /\ hooks'[g] = 0
      BY <1>13, <2>1, <2>6, <2>7 DEF DelFunc, Dels, Walk, TypeOK
    <3>2. TreeOk(th)'
      BY <3>1, <2>3, <2>4 DEF TreeOk
    <3> QED
      BY <2>2, <2>4, <2>5, <2>6, <3>2, TreeFrame
  <2>8. CASE Enabled(HookDelFunc(Cur(g), FuncOf[TaskOf(th)])) # {}
    <3>1. pc'[th] = "slot"
      BY <1>13, <2>8 DEF DelFunc, SlotDone, TypeOK
    <3> QED
      BY <2>2, <2>4, <2>5, <2>6, <3>1, TreeFrame DEF TreeOk
  <2> QED
    BY <2>7, <2>8
<1>14. ASSUME NEW th \in Thread, NEW g \in Got, ManualHook(th, g) PROVE TreeInv'
  <2>1. \A h \in Got : TreeSlot(h)'
    BY <1>14 DEF ManualHook, TreeInv, TreeSlot
  <2>2. /\ pc[th] \in Holding /\ g \in walk[th].todo /\ Others(th) /\ mode' = mode
        /\ pc'[th] \notin {"replace", "restore"}
        /\ \A h \in Got \ {g} :
              chains'[h] = chains[h] /\ hooks'[h] = hooks[h] /\ got'[h] = got[h]
    BY <1>14 DEF ManualHook, HookSlot, UnhookSlot, SlotDone, Others, Holding, TypeOK
  <2>3. TreeOk(th)'
    BY <2>2 DEF TreeOk
  <2> QED
    BY <2>1, <2>2, <2>3, TreeFrame
<1>15. ASSUME NEW th \in Thread, NEW g \in Got, ManualHookFails(th, g) PROVE TreeInv'
  <2>1. Others(th) /\ UNCHANGED <<mode, got, hooks, chains>> /\ pc'[th] \notin {"replace", "restore"}
    BY <1>15
       DEF ManualHookFails, SlotDone, HookSlot, UnhookSlot, NextElf, Others, chainVars,
           TypeOK
  <2> QED
    BY <2>1, TreeSame
<1>16. ASSUME NEW th \in Thread, NEW g \in Got, ManualUnhook(th, g) PROVE TreeInv'
  <2>1. \A h \in Got : TreeSlot(h)'
    BY <1>16 DEF ManualUnhook, TreeInv, TreeSlot
  <2>2. /\ pc[th] \in Holding /\ g \in walk[th].todo /\ Others(th) /\ mode' = mode
        /\ pc'[th] \notin {"replace", "restore"}
        /\ \A h \in Got \ {g} :
              chains'[h] = chains[h] /\ hooks'[h] = hooks[h] /\ got'[h] = got[h]
    BY <1>16 DEF ManualUnhook, HookSlot, UnhookSlot, SlotDone, Others, Holding, TypeOK
  <2>3. TreeOk(th)'
    BY <2>2 DEF TreeOk
  <2> QED
    BY <2>1, <2>2, <2>3, TreeFrame
<1>17. ASSUME NEW th \in Thread, Lock(th) PROVE TreeInv'
  <2>1. Others(th) /\ UNCHANGED <<mode, got, hooks, chains>> /\ pc'[th] \notin {"replace", "restore"}
    BY <1>17 DEF Lock, NextElf, Others, chainVars, TypeOK
  <2> QED
    BY <2>1, TreeSame
<1>18. ASSUME NEW th \in Thread, Unlock(th) PROVE TreeInv'
  <2>1. Others(th) /\ UNCHANGED <<mode, got, hooks, chains>> /\ pc'[th] \notin {"replace", "restore"}
    BY <1>18 DEF Unlock, NextElf, Others, chainVars, TypeOK
  <2> QED
    BY <2>1, TreeSame
<1>19. ASSUME NEW th \in Thread, Replace(th) PROVE TreeInv'
  <2>1. \A h \in Got : TreeSlot(h)'
    BY <1>19 DEF Replace, TreeInv, TreeSlot
  <2>2. /\ pc[th] \in Holding /\ walk[th].slot \in walk[th].todo /\ Others(th) /\ mode' = mode
        /\ pc'[th] \notin {"replace", "restore"}
        /\ \A h \in Got \ {walk[th].slot} :
              chains'[h] = chains[h] /\ hooks'[h] = hooks[h] /\ got'[h] = got[h]
    BY <1>19
       DEF Replace, HookSlot, UnhookSlot, SlotDone, Others, Holding, TypeOK, CallInv,
           CallOk
  <2>3. TreeOk(th)'
    BY <2>2 DEF TreeOk
  <2> QED
    BY <2>1, <2>2, <2>3, TreeFrame
<1>20. ASSUME NEW th \in Thread, ReplaceFails(th) PROVE TreeInv'
  <2> DEFINE g == walk[th].slot
  <2>1. /\ pc[th] = "replace" /\ pc[th] \in Holding /\ g \in Got /\ hooks[g] # 0
        /\ g \in walk[th].todo /\ mode = "AUTO"
    BY <1>20 DEF ReplaceFails, CallInv, CallOk, Walking, Holding, Walk, TreeInv, TreeOk
  <2>2. Dels(th, g)
    BY <1>20, <2>1, ChainDelDels DEF ReplaceFails
  <2>3. Others(th) /\ UNCHANGED <<mode, got>> /\ pc'[th] = "slot"
    BY <1>20 DEF ReplaceFails, SlotDone, Others, TypeOK
  <2> HIDE DEF g
  <2>4. \A h \in Got \ {g} : chains'[h] = chains[h] /\ hooks'[h] = hooks[h]
    BY <2>2 DEF Dels, SetsChain
  <2>5. hooks'[g] \in {0, Len(chains'[g])}
    BY <2>1, <2>2, CurChain DEF Dels
  <2>6. \A h \in Got : TreeSlot(h)'
    BY <2>1, <2>3, <2>4, <2>5 DEF TreeInv, TreeSlot
  <2> QED
    BY <2>1, <2>3, <2>4, <2>6, TreeFrame DEF TreeOk
<1>21. ASSUME NEW th \in Thread, Restore(th) PROVE TreeInv'
  <2>1. \A h \in Got : TreeSlot(h)'
    BY <1>21 DEF Restore, TreeInv, TreeSlot
  <2>2. /\ pc[th] \in Holding /\ walk[th].slot \in walk[th].todo /\ Others(th) /\ mode' = mode
        /\ pc'[th] \notin {"replace", "restore"}
        /\ \A h \in Got \ {walk[th].slot} :
              chains'[h] = chains[h] /\ hooks'[h] = hooks[h] /\ got'[h] = got[h]
    BY <1>21
       DEF Restore, HookSlot, UnhookSlot, SlotDone, Others, Holding, TypeOK, CallInv,
           CallOk
  <2>3. TreeOk(th)'
    BY <2>2 DEF TreeOk
  <2> QED
    BY <2>1, <2>2, <2>3, TreeFrame
<1>22. ASSUME NEW th \in Thread, Finish(th) PROVE TreeInv'
  <2>1. Others(th) /\ UNCHANGED <<mode, got, hooks, chains>> /\ pc'[th] \notin {"replace", "restore"}
    BY <1>22 DEF Finish, NextElf, Others, chainVars, TypeOK
  <2> QED
    BY <2>1, TreeSame
<1>23. ASSUME NEW th \in Thread, NEW t \in Task, HookBegin(th, t) PROVE TreeInv'
  <2>1. Others(th) /\ UNCHANGED <<mode, got, hooks, chains>> /\ pc'[th] \notin {"replace", "restore"}
    BY <1>23 DEF HookBegin, NextElf, Others, chainVars, TypeOK
  <2> QED
    BY <2>1, TreeSame
<1>24. ASSUME NEW th \in Thread, NEW t \in Task, UnhookBegin(th, t) PROVE TreeInv'
  <2>1. Others(th) /\ UNCHANGED <<mode, got, hooks, chains>> /\ pc'[th] \notin {"replace", "restore"}
    BY <1>24 DEF UnhookBegin, NextElf, Others, chainVars, TypeOK
  <2> QED
    BY <2>1, TreeSame
<1>25. ASSUME NEW th \in Thread, NEW t \in Task, NEW e \in Elf, HookElfBegin(th, t, e) PROVE TreeInv'
  <2>1. Others(th) /\ UNCHANGED <<mode, got, hooks, chains>> /\ pc'[th] \notin {"replace", "restore"}
    BY <1>25 DEF HookElfBegin, NextElf, Others, chainVars, TypeOK
  <2> QED
    BY <2>1, TreeSame
<1>26. CASE UNCHANGED vars
  BY <1>26 DEF vars, TreeInv, TreeSlot, TreeOk, Cur, TaskOf, FirstEntry
<1> QED
  BY <1>1, <1>2, <1>3, <1>4, <1>5, <1>6, <1>7, <1>8, <1>9, <1>10, <1>11, <1>12, <1>13,
     <1>14, <1>15, <1>16, <1>17, <1>18, <1>19, <1>20, <1>21, <1>22, <1>23, <1>24, <1>25,
     <1>26
     DEF Next, Progress, ElfStep, SlotStep, Quiet

-----------------------------------------------------------------------------
(* Where a call through a slot ends                                        *)

\* A chain keeps its orig_func; a new one is made on top, with the slot's value.
LEMMA OrigSteps ==
  ASSUME TypeOK, CallInv, TreeInv, OrigInv, [Next]_vars, NEW g \in Got
  PROVE  /\ \A m \in ChainNos(g) : m \in ChainNos(g)' /\ chains'[g][m].orig = chains[g][m].orig
         /\ \A m \in ChainNos(g)' \ ChainNos(g) :
               m = Len(chains[g]) + 1 /\ mode = "AUTO" /\ chains'[g][m].orig = got[g]
<1>1. CASE UNCHANGED <<chains, hooks>>
  BY <1>1 DEF ChainNos
<1>2. ASSUME NEW th \in Thread, NEW h \in Got, NEW n \in Nat, NEW b \in Chain,
             Adding(th, h), AddsTo(th, h, n, b)
      PROVE  /\ \A m \in ChainNos(g) : m \in ChainNos(g)' /\ chains'[g][m].orig = chains[g][m].orig
             /\ \A m \in ChainNos(g)' \ ChainNos(g) :
                   m = Len(chains[g]) + 1 /\ mode = "AUTO" /\ chains'[g][m].orig = got[g]
  <2> DEFINE c == HookAddFunc(b, FuncOf[TaskOf(th)], TaskOf(th))
  <2>1. c.orig = b.orig
    BY <1>2, TaskFacts, AddFuncInChain DEF Adding
  <2>2. SetsChain(h, n, c) /\ mode = "AUTO"
    BY <1>2 DEF AddsTo
  <2>3. \/ n \in ChainNos(h) /\ b = chains[h][n]
        \/ n = Len(chains[h]) + 1 /\ b.orig = got[h]
    BY <1>2, CurChain DEF AddsTo, NoEntries, Cur
  <2>4. n = Len(chains[h]) + 1 => n \notin ChainNos(h)
    BY DEF ChainNos, TypeOK
  <2> HIDE DEF c
  <2>5. CASE g = h
    BY <2>1, <2>2, <2>3, <2>4, <2>5 DEF SetsChain
  <2>6. CASE g # h
    BY <2>2, <2>6 DEF SetsChain, ChainNos
  <2> QED
    BY <2>5, <2>6
<1>3. ASSUME NEW h \in Got, AddsNone(h)
      PROVE  /\ \A m \in ChainNos(g) : m \in ChainNos(g)' /\ chains'[g][m].orig = chains[g][m].orig
             /\ \A m \in ChainNos(g)' \ ChainNos(g) :
                   m = Len(chains[g]) + 1 /\ mode = "AUTO" /\ chains'[g][m].orig = got[g]
  <2>1. /\ SetsChain(h, Len(chains[h]) + 1, NoEntries(h)) /\ mode = "AUTO"
        /\ NoEntries(h).orig = got[h] /\ Len(chains[h]) + 1 \notin ChainNos(h)
    BY <1>3 DEF AddsNone, NoEntries, ChainNos, TypeOK
  <2>2. CASE g = h
    BY <2>1, <2>2 DEF SetsChain
  <2>3. CASE g # h
    BY <2>1, <2>3 DEF SetsChain, ChainNos
  <2> QED
    BY <2>2, <2>3
<1>4. ASSUME NEW th \in Thread, NEW h \in Got, Removing(th, h), Dels(th, h)
      PROVE  /\ \A m \in ChainNos(g) : m \in ChainNos(g)' /\ chains'[g][m].orig = chains[g][m].orig
             /\ ChainNos(g)' = ChainNos(g)
  <2> DEFINE c == HookDelFunc(Cur(h), FuncOf[TaskOf(th)])
  <2>1. hooks[h] \in ChainNos(h) /\ Cur(h) \in Chain /\ SetsChain(h, hooks[h], c)
    BY <1>4, CurChain DEF Dels
  <2>2. c.orig = chains[h][hooks[h]].orig
    BY <1>4, <2>1, TaskFacts, DelFuncFacts DEF Cur, Removing
  <2> HIDE DEF c
  <2>3. CASE g = h
    BY <2>1, <2>2, <2>3 DEF SetsChain
  <2>4. CASE g # h
    BY <2>1, <2>4 DEF SetsChain, ChainNos
  <2> QED
    BY <2>3, <2>4
<1> QED
  BY <1>1, <1>2, <1>3, <1>4, ChainSteps

\* In automatic mode a slot changes when its trampoline is put in place, over a
\* function, or when the orig_func of its newest chain goes back.
LEMMA GotSteps ==
  ASSUME TypeOK, TreeInv, mode = "AUTO", [Next]_vars, NEW x \in Got
  PROVE  \/ got'[x] = got[x]
         \/ got[x] \in Mutable /\ hooks[x] # 0 /\ got'[x] = hooks[x] /\ Cur(x).orig = got[x]
         \/ chains[x] # <<>> /\ hooks[x] = 0 /\ got'[x] = RestoreFunc(x)
<1> DEFINE Goal ==
         \/ got'[x] = got[x]
         \/ got[x] \in Mutable /\ hooks[x] # 0 /\ got'[x] = hooks[x] /\ Cur(x).orig = got[x]
         \/ chains[x] # <<>> /\ hooks[x] = 0 /\ got'[x] = RestoreFunc(x)
<1> SUFFICES Goal
  OBVIOUS
<1>1. ASSUME NEW th \in Thread, NEW e \in Elf, HookRefused(th, e) PROVE Goal
  BY <1>1 DEF HookRefused, chainVars
<1>2. ASSUME NEW th \in Thread, NEW e \in Elf, FindFault(th, e) PROVE Goal
  BY <1>2 DEF FindFault, chainVars
<1>3. ASSUME NEW th \in Thread, NEW e \in Elf, HookCfi(th, e) PROVE Goal
  BY <1>3 DEF HookCfi, chainVars
<1>4. ASSUME NEW th \in Thread, NEW e \in Elf, UnhookRefused(th, e) PROVE Goal
  BY <1>4 DEF UnhookRefused, chainVars
<1>5. ASSUME NEW th \in Thread, NEW e \in Elf, FindSlots(th, e) PROVE Goal
  BY <1>5 DEF FindSlots, chainVars
<1>6. ASSUME NEW th \in Thread, NEW g \in Got, ReadFault(th, g) PROVE Goal
  BY <1>6 DEF ReadFault, chainVars
<1>7. ASSUME NEW th \in Thread, NEW g \in Got, AddFuncFound(th, g) PROVE Goal
  BY <1>7 DEF AddFuncFound, chainVars
<1>8. ASSUME NEW th \in Thread, NEW g \in Got, AddFuncRepeated(th, g) PROVE Goal
  BY <1>8 DEF AddFuncRepeated, chainVars
<1>9. ASSUME NEW th \in Thread, NEW g \in Got, AddFuncCreated(th, g) PROVE Goal
  BY <1>9 DEF AddFuncCreated, chainVars
<1>10. ASSUME NEW th \in Thread, NEW g \in Got, CreateFails(th, g) PROVE Goal
  BY <1>10 DEF CreateFails, chainVars
<1>11. ASSUME NEW th \in Thread, NEW g \in Got, AppendFails(th, g) PROVE Goal
  BY <1>11 DEF AppendFails, chainVars
<1>12. ASSUME NEW th \in Thread, NEW g \in Got, DelFuncNone(th, g) PROVE Goal
  BY <1>12 DEF DelFuncNone, chainVars
<1>13. ASSUME NEW th \in Thread, NEW g \in Got, DelFunc(th, g) PROVE Goal
  BY <1>13 DEF DelFunc, chainVars
<1>14. ASSUME NEW th \in Thread, NEW g \in Got, ManualHook(th, g) PROVE Goal
  BY <1>14 DEF ManualHook
<1>15. ASSUME NEW th \in Thread, NEW g \in Got, ManualHookFails(th, g) PROVE Goal
  BY <1>15 DEF ManualHookFails, chainVars
<1>16. ASSUME NEW th \in Thread, NEW g \in Got, ManualUnhook(th, g) PROVE Goal
  BY <1>16 DEF ManualUnhook
<1>17. ASSUME NEW th \in Thread, Lock(th) PROVE Goal
  BY <1>17 DEF Lock, chainVars
<1>18. ASSUME NEW th \in Thread, Unlock(th) PROVE Goal
  BY <1>18 DEF Unlock, chainVars
<1>19. ASSUME NEW th \in Thread, Replace(th) PROVE Goal
  <2>1. /\ pc[th] = "replace" /\ MayVerify(got[walk[th].slot])
        /\ got' = [got EXCEPT ![walk[th].slot] = hooks[walk[th].slot]]
    BY <1>19 DEF Replace
  <2>2. TreeOk(th)
    BY DEF TreeInv
  <2> QED
    BY <2>1, <2>2 DEF TreeOk, MayVerify, TypeOK
<1>20. ASSUME NEW th \in Thread, ReplaceFails(th) PROVE Goal
  BY <1>20 DEF ReplaceFails, chainVars
<1>21. ASSUME NEW th \in Thread, Restore(th) PROVE Goal
  <2>1. /\ pc[th] = "restore"
        /\ got' \in {got, [got EXCEPT ![walk[th].slot] = RestoreFunc(walk[th].slot)]}
    BY <1>21 DEF Restore
  <2>2. TreeOk(th)
    BY DEF TreeInv
  <2> QED
    BY <2>1, <2>2 DEF TreeOk, TypeOK
<1>22. ASSUME NEW th \in Thread, Finish(th) PROVE Goal
  BY <1>22 DEF Finish, chainVars
<1>23. ASSUME NEW th \in Thread, NEW t \in Task, HookBegin(th, t) PROVE Goal
  BY <1>23 DEF HookBegin, chainVars
<1>24. ASSUME NEW th \in Thread, NEW t \in Task, UnhookBegin(th, t) PROVE Goal
  BY <1>24 DEF UnhookBegin, chainVars
<1>25. ASSUME NEW th \in Thread, NEW t \in Task, NEW e \in Elf, HookElfBegin(th, t, e) PROVE Goal
  BY <1>25 DEF HookElfBegin, chainVars
<1>26. CASE UNCHANGED vars
  BY <1>26 DEF vars, chainVars
<1> HIDE DEF Goal
<1> QED
  BY <1>1, <1>2, <1>3, <1>4, <1>5, <1>6, <1>7, <1>8, <1>9, <1>10, <1>11, <1>12, <1>13,
     <1>14, <1>15, <1>16, <1>17, <1>18, <1>19, <1>20, <1>21, <1>22, <1>23, <1>24, <1>25,
     <1>26
     DEF Next, Progress, ElfStep, SlotStep, Quiet

\* OrigKept and its strengthening are kept.
LEMMA NextOrig ==
  ASSUME TypeOK, CallInv, TreeInv, OrigInv, [Next]_vars
  PROVE  OrigInv'
<1>1. mode' = mode
  BY NextMode
<1>2. ASSUME NEW g \in Got, NEW n, LeadsHome(g, n)
      PROVE  n \in ChainNos(g)' /\ chains'[g][n].orig = OrigOf[g]
  BY <1>2, OrigSteps DEF LeadsHome
<1>3. \A g \in Got : Len(chains[g]) \in Nat
  BY DEF TypeOK
<1>4. ASSUME NEW g \in Got, NEW n \in ChainNos(g)'
      PROVE  \/ chains'[g][n].orig = OrigOf[g]
             \/ chains'[g][n].orig < n /\ LeadsHome(g, chains[g][n].orig)'
  <2>1. CASE n \in ChainNos(g)
    BY <1>2, <2>1, OrigSteps DEF OrigInv, LeadsHome
  <2>2. CASE n \notin ChainNos(g)
    <3>1. n = Len(chains[g]) + 1 /\ mode = "AUTO" /\ chains'[g][n].orig = got[g]
      BY <2>2, OrigSteps
    <3>2. got[g] = OrigOf[g] \/ LeadsHome(g, got[g])
      BY <3>1 DEF OrigInv, OrigKept, LeadsHome
    <3>3. LeadsHome(g, got[g]) => got[g] < n
      BY <1>3, <3>1 DEF LeadsHome, ChainNos
    <3> QED
      BY <1>2, <3>1, <3>2, <3>3 DEF LeadsHome
  <2> QED
    BY <2>1, <2>2
<1>5. ASSUME mode = "AUTO", NEW g \in Got
      PROVE  got'[g] = OrigOf[g] \/ LeadsHome(g, got[g])'
  <2>1. got[g] = OrigOf[g] \/ LeadsHome(g, got[g])
    BY <1>5 DEF OrigInv, OrigKept, LeadsHome
  <2>2. CASE got'[g] = got[g]
    BY <1>2, <2>1, <2>2 DEF LeadsHome
  <2>3. CASE got[g] \in Mutable /\ hooks[g] # 0 /\ got'[g] = hooks[g] /\ Cur(g).orig = got[g]
    <3>1. got[g] = OrigOf[g]
      BY <2>1, <2>3, HookManagerAssumption DEF LeadsHome, ChainNos
    <3>2. LeadsHome(g, hooks[g])
      BY <2>3, <3>1, CurChain DEF LeadsHome, Cur
    <3> QED
      BY <1>2, <2>3, <3>2 DEF LeadsHome
  <2>4. CASE chains[g] # <<>> /\ got'[g] = RestoreFunc(g)
    <3>1. Len(chains[g]) \in ChainNos(g)
      BY <2>4 DEF ChainNos, TypeOK
    <3> QED
      BY <1>2, <2>4, <3>1 DEF OrigInv, RestoreFunc, LeadsHome
  <2> QED
    BY <1>5, <2>2, <2>3, <2>4, GotSteps
<1> QED
  BY <1>1, <1>4, <1>5 DEF OrigInv, OrigKept, LeadsHome

-----------------------------------------------------------------------------
(* The entries of the chains                                               *)

\* A visited slot is one of the ELF's, and the task is for this ELF.
LEMMA WalkFacts ==
  ASSUME CallInv, NEW th \in Thread, pc[th] \in Walking, NEW g \in walk[th].todo
  PROVE  /\ ElfOf(th) \in Elf /\ ElfOf(th) \in ScopeOf[TaskOf(th)]
         /\ g \in GotsOf[ElfOf(th)]
         /\ walk[th] \in Walk
  BY DEF CallInv, CallOk, Walk, ElfOf

\* The task of a call has been hooked, or is being hooked.
LEMMA CallPhase ==
  ASSUME CallInv, PhaseInv, NEW th \in Thread, pc[th] # "idle"
  PROVE  phase[TaskOf(th)] \notin {"new", "gone"}
<1>1. job[th].op \in {"hook", "hook_elf", "unhook"}
  BY TaskFacts DEF Job
<1> QED
  BY <1>1 DEF PhaseInv, PhaseOk

\* An entry added for a task that matches the ELF, and entries disabled, leave one
\* entry for each task.
LEMMA EntriesAdd ==
  ASSUME NEW g \in Got, NEW c \in Chain, EntriesOk(g, c), NEW t \in Task,
         \E e \in ScopeOf[t] : g \in GotsOf[e]
  PROVE  /\ EntriesOk(g, HookAddFunc(c, FuncOf[t], t))
         /\ TasksOf(HookAddFunc(c, FuncOf[t], t)) \subseteq TasksOf(c) \cup {t}
<1> DEFINE d == HookAddFunc(c, FuncOf[t], t)
           n == Len(c.list) + 1
<1>1. FuncOf[t] \in Func /\ Len(c.list) \in Nat
  BY HookManagerAssumption, ChainList
<1>2. \/ /\ Len(d.list) = Len(c.list)
         /\ \A i \in 1..Len(c.list) : d.list[i].func = c.list[i].func /\ d.list[i].task = c.list[i].task
      \/ /\ Len(d.list) = n
         /\ \A i \in 1..Len(c.list) : d.list[i] = c.list[i] /\ c.list[i].task # t
         /\ d.list[n].func = FuncOf[t] /\ d.list[n].task = t
  <2>1. CASE EntriesOf(c, FuncOf[t], t) # {}
    BY <1>1, <2>1, ReEnableFacts
  <2>2. CASE EntriesOf(c, FuncOf[t], t) = {}
    <3>1. \A i \in 1..Len(c.list) : c.list[i].task # t
      BY <2>2 DEF EntriesOf, EntriesOk
    <3> QED
      BY <1>1, <2>2, <3>1, InsertFacts
  <2> QED
    BY <2>1, <2>2
<1>3. 1..n = 1..Len(c.list) \cup {n}
  BY <1>1
<1> HIDE DEF d, n
<1>4. EntriesOk(g, d)
  <2>1. CASE Len(d.list) = Len(c.list) /\ Len(d.list) # n
    BY <1>2, <2>1 DEF EntriesOk
  <2>2. CASE Len(d.list) = n
    <3>1. /\ \A i \in 1..Len(c.list) : d.list[i] = c.list[i] /\ c.list[i].task # t
          /\ d.list[n].func = FuncOf[t] /\ d.list[n].task = t
      BY <1>1, <1>2, <2>2 DEF n
    <3>2. \A i \in 1..n : i = n \/ i \in 1..Len(c.list)
      BY <1>3
    <3>3. ASSUME NEW i \in 1..n
          PROVE  d.list[i].func = FuncOf[d.list[i].task] /\ \E e \in ScopeOf[d.list[i].task] : g \in GotsOf[e]
      <4>1. CASE i = n
        BY <3>1, <4>1
      <4>2. CASE i \in 1..Len(c.list)
        BY <3>1, <4>2 DEF EntriesOk
      <4> QED
        BY <3>2, <4>1, <4>2
    <3>4. ASSUME NEW i \in 1..n, NEW j \in 1..n, d.list[i].task = d.list[j].task PROVE i = j
      BY <3>1, <3>2, <3>4 DEF EntriesOk
    <3> QED
      BY <2>2, <3>3, <3>4 DEF EntriesOk
  <2> QED
    BY <1>2, <2>1, <2>2
<1>5. TasksOf(d) \subseteq TasksOf(c) \cup {t}
  BY <1>2, <1>3 DEF TasksOf
<1> QED
  BY <1>4, <1>5 DEF d

\* ... and so for bh_hook_del_func.
LEMMA EntriesDel ==
  ASSUME NEW g \in Got, NEW c \in Chain, EntriesOk(g, c), NEW f \in Func
  PROVE  /\ EntriesOk(g, HookDelFunc(c, f))
         /\ TasksOf(HookDelFunc(c, f)) = TasksOf(c)
<1> DEFINE d == HookDelFunc(c, f)
<1>1. /\ Len(d.list) = Len(c.list)
      /\ \A i \in 1..Len(c.list) : d.list[i].func = c.list[i].func /\ d.list[i].task = c.list[i].task
  BY DelFuncFacts
<1> HIDE DEF d
<1>2. EntriesOk(g, d) /\ TasksOf(d) = TasksOf(c)
  BY <1>1 DEF EntriesOk, TasksOf
<1> QED
  BY <1>2 DEF d

\* A task does not become new again.
LEMMA NewPhase ==
  ASSUME TypeOK, CallInv, [Next]_vars, NEW x \in Task, phase[x] # "new"
  PROVE  phase'[x] # "new"
<1> DEFINE Goal == phase'[x] # "new"
<1> SUFFICES Goal
  OBVIOUS
<1>1. ASSUME NEW th \in Thread, NEW e \in Elf, HookRefused(th, e) PROVE Goal
  BY <1>1 DEF HookRefused, taskVars
<1>2. ASSUME NEW th \in Thread, NEW e \in Elf, FindFault(th, e) PROVE Goal
  BY <1>2 DEF FindFault, taskVars
<1>3. ASSUME NEW th \in Thread, NEW e \in Elf, HookCfi(th, e) PROVE Goal
  BY <1>3 DEF HookCfi, taskVars
<1>4. ASSUME NEW th \in Thread, NEW e \in Elf, UnhookRefused(th, e) PROVE Goal
  BY <1>4 DEF UnhookRefused, taskVars
<1>5. ASSUME NEW th \in Thread, NEW e \in Elf, FindSlots(th, e) PROVE Goal
  BY <1>5 DEF FindSlots, taskVars
<1>6. ASSUME NEW th \in Thread, NEW g \in Got, ReadFault(th, g) PROVE Goal
  BY <1>6 DEF ReadFault, taskVars
<1>7. ASSUME NEW th \in Thread, NEW g \in Got, AddFuncFound(th, g) PROVE Goal
  BY <1>7 DEF AddFuncFound, taskVars
<1>8. ASSUME NEW th \in Thread, NEW g \in Got, AddFuncRepeated(th, g) PROVE Goal
  BY <1>8 DEF AddFuncRepeated, taskVars
<1>9. ASSUME NEW th \in Thread, NEW g \in Got, AddFuncCreated(th, g) PROVE Goal
  BY <1>9 DEF AddFuncCreated, taskVars
<1>10. ASSUME NEW th \in Thread, NEW g \in Got, CreateFails(th, g) PROVE Goal
  BY <1>10 DEF CreateFails, taskVars
<1>11. ASSUME NEW th \in Thread, NEW g \in Got, AppendFails(th, g) PROVE Goal
  BY <1>11 DEF AppendFails, taskVars
<1>12. ASSUME NEW th \in Thread, NEW g \in Got, DelFuncNone(th, g) PROVE Goal
  BY <1>12 DEF DelFuncNone, taskVars
<1>13. ASSUME NEW th \in Thread, NEW g \in Got, DelFunc(th, g) PROVE Goal
  BY <1>13 DEF DelFunc, taskVars
<1>14. ASSUME NEW th \in Thread, NEW g \in Got, ManualHook(th, g) PROVE Goal
  BY <1>14 DEF ManualHook, taskVars
<1>15. ASSUME NEW th \in Thread, NEW g \in Got, ManualHookFails(th, g) PROVE Goal
  BY <1>15 DEF ManualHookFails, taskVars
<1>16. ASSUME NEW th \in Thread, NEW g \in Got, ManualUnhook(th, g) PROVE Goal
  BY <1>16 DEF ManualUnhook, taskVars
<1>17. ASSUME NEW th \in Thread, Lock(th) PROVE Goal
  BY <1>17 DEF Lock, taskVars
<1>18. ASSUME NEW th \in Thread, Unlock(th) PROVE Goal
  BY <1>18 DEF Unlock, taskVars
<1>19. ASSUME NEW th \in Thread, Replace(th) PROVE Goal
  BY <1>19 DEF Replace, taskVars
<1>20. ASSUME NEW th \in Thread, ReplaceFails(th) PROVE Goal
  BY <1>20 DEF ReplaceFails, taskVars
<1>21. ASSUME NEW th \in Thread, Restore(th) PROVE Goal
  BY <1>21 DEF Restore, taskVars
<1>22. ASSUME NEW th \in Thread, Finish(th) PROVE Goal
  <2>1. \A t \in Task : phase'[t] # phase[t] => phase'[t] \in {"gone", "listed"}
    BY <1>22 DEF Finish, TypeOK
  <2> QED
    BY <2>1
<1>23. ASSUME NEW th \in Thread, NEW t \in Task, HookBegin(th, t) PROVE Goal
  BY <1>23 DEF HookBegin, TypeOK
<1>24. ASSUME NEW th \in Thread, NEW t \in Task, UnhookBegin(th, t) PROVE Goal
  <2>1. \E p \in {"gone", "unhooking"} : phase' = [phase EXCEPT ![t] = p]
    BY <1>24 DEF UnhookBegin
  <2> QED
    BY <2>1 DEF TypeOK
<1>25. ASSUME NEW th \in Thread, NEW t \in Task, NEW e \in Elf, HookElfBegin(th, t, e) PROVE Goal
  BY <1>25 DEF HookElfBegin, taskVars
<1>26. CASE UNCHANGED vars
  BY <1>26 DEF vars
<1> HIDE DEF Goal
<1> QED
  BY <1>1, <1>2, <1>3, <1>4, <1>5, <1>6, <1>7, <1>8, <1>9, <1>10, <1>11, <1>12, <1>13,
     <1>14, <1>15, <1>16, <1>17, <1>18, <1>19, <1>20, <1>21, <1>22, <1>23, <1>24, <1>25,
     <1>26
     DEF Next, Progress, ElfStep, SlotStep, Quiet

\* The entries of the chains belong to tasks that match the ELF, one to each.
LEMMA NextEntries ==
  ASSUME TypeOK, CallInv, PhaseInv, TreeInv, OrigInv, EntryInv, [Next]_vars
  PROVE  EntryInv'
<1> DEFINE Ok(g, c) == EntriesOk(g, c) /\ \A t \in TasksOf(c) : phase'[t] # "new"
<1>1. ASSUME NEW g \in Got, NEW n \in ChainNos(g)
      PROVE  chains[g][n] \in Chain /\ Ok(g, chains[g][n])
  <2>1. chains[g][n] \in Chain
    BY DEF ChainNos, TypeOK
  <2>2. TasksOf(chains[g][n]) \subseteq Task
    BY <2>1, ChainList DEF TasksOf, Entry
  <2> QED
    BY <2>1, <2>2, NewPhase DEF EntryInv
<1> HIDE DEF Ok
<1>2. ASSUME NEW h \in Got, NEW n, NEW c \in Chain, SetsChain(h, n, c), Ok(h, c)
      PROVE  EntryInv'
  <2> SUFFICES ASSUME NEW g \in Got, NEW m \in ChainNos(g)' PROVE Ok(g, chains'[g][m])
    BY DEF EntryInv, EntriesOk, TasksOf, Ok
  <2>1. CASE g = h /\ m = n
    BY <1>2, <2>1 DEF SetsChain
  <2>2. CASE ~(g = h /\ m = n)
    BY <1>1, <1>2, <2>2 DEF SetsChain, ChainNos
  <2> QED
    BY <2>1, <2>2
<1>3. CASE UNCHANGED <<chains, hooks>>
  <2> SUFFICES ASSUME NEW g \in Got, NEW m \in ChainNos(g)' PROVE Ok(g, chains'[g][m])
    BY DEF EntryInv, EntriesOk, TasksOf, Ok
  <2> QED
    BY <1>1, <1>3 DEF ChainNos
<1>4. ASSUME NEW g \in Got PROVE Ok(g, NoEntries(g))
  <2>1. NoEntries(g).list = <<>>
    BY DEF NoEntries
  <2> QED
    BY <2>1 DEF Ok, EntriesOk, TasksOf
<1>5. ASSUME NEW th \in Thread, NEW g \in Got, NEW n \in Nat, NEW b \in Chain,
             Adding(th, g), AddsTo(th, g, n, b)
      PROVE  EntryInv'
  <2>1. Ok(g, b)
    BY <1>1, <1>4, <1>5, CurChain DEF AddsTo, Cur
  <2>2. /\ TaskOf(th) \in Task /\ FuncOf[TaskOf(th)] \in Func
        /\ phase[TaskOf(th)] # "new"
        /\ \E e \in ScopeOf[TaskOf(th)] : g \in GotsOf[e]
    BY <1>5, TaskFacts, CallPhase, WalkFacts DEF Adding, Walking
  <2>3. phase'[TaskOf(th)] # "new"
    BY <2>2, NewPhase
  <2>4. Ok(g, HookAddFunc(b, FuncOf[TaskOf(th)], TaskOf(th)))
    BY <2>1, <2>2, <2>3, EntriesAdd DEF Ok
  <2> QED
    BY <1>2, <1>5, <2>2, <2>4, AddFuncInChain DEF AddsTo
<1>6. ASSUME NEW g \in Got, AddsNone(g) PROVE EntryInv'
  <2>1. NoEntries(g) \in Chain
    BY <1>6, GotInAuto DEF AddsNone, Chain, NoEntries
  <2> QED
    BY <1>2, <1>4, <1>6, <2>1 DEF AddsNone
<1>7. ASSUME NEW th \in Thread, NEW g \in Got, Removing(th, g), Dels(th, g)
      PROVE  EntryInv'
  <2>1. Ok(g, Cur(g)) /\ Cur(g) \in Chain /\ FuncOf[TaskOf(th)] \in Func
    BY <1>1, <1>7, CurChain, TaskFacts DEF Dels, Cur, Removing
  <2>2. Ok(g, HookDelFunc(Cur(g), FuncOf[TaskOf(th)]))
    BY <2>1, EntriesDel DEF Ok
  <2> QED
    BY <1>2, <1>7, <2>1, <2>2, DelFuncFacts DEF Dels
<1> QED
  BY <1>3, <1>5, <1>6, <1>7, ChainSteps

\* In a chain no function is enabled twice.
Unique(c) == \A i, j \in Enabled(c) : c.list[i].func = c.list[j].func => i = j

\* bh_hook_add_func enables one entry of a function, after its repeated check.
LEMMA UniqueAdd ==
  ASSUME NEW g \in Got, NEW c \in Chain, NEW t \in Task,
         EntriesOk(g, c), Unique(c), ~Repeated(c, FuncOf[t])
  PROVE  Unique(HookAddFunc(c, FuncOf[t], t))
<1> DEFINE d == HookAddFunc(c, FuncOf[t], t)
<1>1. FuncOf[t] \in Func /\ Len(c.list) \in Nat
  BY HookManagerAssumption, ChainList
<1>2. \A i \in 1..Len(c.list) : c.list[i].enabled => c.list[i].func # FuncOf[t]
  BY DEF Repeated, Enabled
<1>3. CASE EntriesOf(c, FuncOf[t], t) # {}
  <2>1. /\ Len(d.list) = Len(c.list)
        /\ \A i \in 1..Len(c.list) :
              /\ d.list[i].func = c.list[i].func
              /\ d.list[i].enabled = (c.list[i].enabled \/ i \in EntriesOf(c, FuncOf[t], t))
    BY <1>1, <1>3, ReEnableFacts
  <2>2. \A i, j \in EntriesOf(c, FuncOf[t], t) : i = j
    BY DEF EntriesOf, EntriesOk
  <2>3. \A i \in EntriesOf(c, FuncOf[t], t) : c.list[i].func = FuncOf[t]
    BY DEF EntriesOf
  <2> HIDE DEF d
  <2>4. \A i \in Enabled(d) :
           /\ i \in 1..Len(c.list) /\ d.list[i].func = c.list[i].func
           /\ i \in Enabled(c) \/ i \in EntriesOf(c, FuncOf[t], t)
    BY <2>1 DEF Enabled
  <2>5. \A i \in Enabled(c) : c.list[i].func # FuncOf[t]
    BY <1>2 DEF Enabled
  <2>6. Unique(d)
    BY <2>2, <2>3, <2>4, <2>5 DEF Unique
  <2> QED
    BY <2>6 DEF d
<1>4. CASE EntriesOf(c, FuncOf[t], t) = {}
  <2> DEFINE n == Len(c.list) + 1
  <2>1. /\ Len(d.list) = n
        /\ \A i \in 1..Len(c.list) : d.list[i] = c.list[i]
        /\ d.list[n].func = FuncOf[t]
    BY <1>1, <1>4, InsertFacts
  <2>2. 1..n = 1..Len(c.list) \cup {n}
    BY <1>1
  <2> HIDE DEF d, n
  <2>3. ASSUME NEW i \in Enabled(d) PROVE i = n \/ (i \in Enabled(c) /\ d.list[i] = c.list[i])
    <3>1. i \in 1..n /\ d.list[i].enabled
      BY <2>1 DEF Enabled
    <3> QED
      BY <2>1, <2>2, <3>1 DEF Enabled
  <2>4. \A i \in Enabled(c) : c.list[i].func # FuncOf[t]
    BY <1>2 DEF Enabled
  <2>5. Unique(d)
    BY <2>1, <2>3, <2>4 DEF Unique
  <2> QED
    BY <2>5 DEF d
<1> QED
  BY <1>3, <1>4

\* Disabling a function enables nothing, and leaves no entry of it enabled.
LEMMA EnabledDel ==
  ASSUME NEW c \in Chain, NEW f \in Func
  PROVE  /\ Enabled(HookDelFunc(c, f)) = {i \in Enabled(c) : c.list[i].func # f}
         /\ \A i \in Enabled(HookDelFunc(c, f)) :
               /\ HookDelFunc(c, f).list[i].func = c.list[i].func
               /\ HookDelFunc(c, f).list[i].task = c.list[i].task
<1> DEFINE d == HookDelFunc(c, f)
<1>1. /\ Len(d.list) = Len(c.list)
      /\ \A i \in 1..Len(c.list) :
            /\ d.list[i].func = c.list[i].func /\ d.list[i].task = c.list[i].task
            /\ d.list[i].enabled = (c.list[i].enabled /\ c.list[i].func # f)
  BY DelFuncFacts
<1> HIDE DEF d
<1>2. /\ Enabled(d) = {i \in Enabled(c) : c.list[i].func # f}
      /\ \A i \in Enabled(d) : d.list[i].func = c.list[i].func /\ d.list[i].task = c.list[i].task
  BY <1>1 DEF Enabled
<1> QED
  BY <1>2 DEF d

\* bh_hook_del_func enables none.
LEMMA UniqueDel ==
  ASSUME NEW c \in Chain, Unique(c), NEW f \in Func
  PROVE  Unique(HookDelFunc(c, f))
  BY EnabledDel DEF Unique

\* UniqueEnabled is kept.
LEMMA NextUnique ==
  ASSUME TypeOK, CallInv, TreeInv, OrigInv, EntryInv, UniqueEnabled, [Next]_vars
  PROVE  UniqueEnabled'
<1>1. \A g \in Got : \A n \in ChainNos(g) : Unique(chains[g][n]) /\ EntriesOk(g, chains[g][n])
  BY DEF UniqueEnabled, Unique, EntryInv
<1>2. ASSUME NEW h \in Got, NEW n, NEW c, SetsChain(h, n, c), Unique(c)
      PROVE  UniqueEnabled'
  <2> SUFFICES ASSUME NEW g \in Got, NEW m \in ChainNos(g)' PROVE Unique(chains'[g][m])
    BY DEF UniqueEnabled, Unique, Enabled
  <2>1. CASE g = h /\ m = n
    BY <1>2, <2>1 DEF SetsChain
  <2>2. CASE ~(g = h /\ m = n)
    <3>1. m \in ChainNos(g) /\ chains'[g][m] = chains[g][m]
      BY <1>2, <2>2 DEF SetsChain, ChainNos
    <3> QED
      BY <1>1, <3>1
  <2> QED
    BY <2>1, <2>2
<1>3. CASE UNCHANGED <<chains, hooks>>
  <2> SUFFICES ASSUME NEW g \in Got, NEW m \in ChainNos(g)' PROVE Unique(chains'[g][m])
    BY DEF UniqueEnabled, Unique, Enabled
  <2> QED
    BY <1>1, <1>3 DEF ChainNos
<1>4. ASSUME NEW g \in Got PROVE Enabled(NoEntries(g)) = {}
  BY DEF NoEntries, Enabled
<1>5. ASSUME NEW th \in Thread, NEW g \in Got, NEW n \in Nat, NEW b \in Chain,
             Adding(th, g), AddsTo(th, g, n, b)
      PROVE  UniqueEnabled'
  <2>1. Unique(b) /\ EntriesOk(g, b)
    <3>1. CASE hooks[g] # 0
      BY <1>1, <1>5, <3>1, CurChain DEF AddsTo, Cur
    <3>2. CASE hooks[g] = 0
      BY <1>4, <1>5, <3>2 DEF AddsTo, Unique, EntriesOk, NoEntries
    <3> QED
      BY <3>1, <3>2
  <2>2. TaskOf(th) \in Task
    BY <1>5, TaskFacts DEF Adding
  <2> QED
    BY <1>2, <1>5, <2>1, <2>2, UniqueAdd DEF AddsTo
<1>6. ASSUME NEW g \in Got, AddsNone(g) PROVE UniqueEnabled'
  BY <1>2, <1>4, <1>6 DEF AddsNone, Unique
<1>7. ASSUME NEW th \in Thread, NEW g \in Got, Removing(th, g), Dels(th, g)
      PROVE  UniqueEnabled'
  <2>1. Unique(Cur(g)) /\ Cur(g) \in Chain /\ FuncOf[TaskOf(th)] \in Func
    BY <1>1, <1>7, CurChain, TaskFacts DEF Dels, Cur, Removing
  <2> QED
    BY <1>2, <1>7, <2>1, UniqueDel DEF Dels
<1> QED
  BY <1>3, <1>5, <1>6, <1>7, ChainSteps

\* AbandonedInert is kept.
LEMMA NextInert ==
  ASSUME TypeOK, CallInv, TreeInv, OrigInv, AbandonedInert, [Next]_vars
  PROVE  AbandonedInert'
<1>1. ASSUME NEW h \in Got, NEW n, NEW c, SetsChain(h, n, c),
             hooks'[h] = n \/ (hooks'[h] = 0 /\ Enabled(c) = {}),
             hooks[h] \in {0, n}
      PROVE  AbandonedInert'
  <2> SUFFICES ASSUME NEW g \in Got, NEW m \in ChainNos(g)', m # hooks'[g]
               PROVE  Enabled(chains'[g][m]) = {}
    BY DEF AbandonedInert, Enabled
  <2>1. CASE g = h /\ m = n
    BY <1>1, <2>1 DEF SetsChain
  <2>2. CASE ~(g = h /\ m = n)
    <3>1. m \in ChainNos(g) /\ chains'[g][m] = chains[g][m]
      BY <1>1, <2>2 DEF SetsChain, ChainNos
    <3>2. m # hooks[g]
      BY <1>1, <2>2, <3>1 DEF SetsChain, ChainNos
    <3> QED
      BY <3>1, <3>2 DEF AbandonedInert
  <2> QED
    BY <2>1, <2>2
<1>2. CASE UNCHANGED <<chains, hooks>>
  BY <1>2 DEF AbandonedInert, Enabled, ChainNos
<1>3. ASSUME NEW th \in Thread, NEW g \in Got, NEW n \in Nat, NEW b \in Chain,
             Adding(th, g), AddsTo(th, g, n, b)
      PROVE  AbandonedInert'
  <2>1. /\ SetsChain(g, n, HookAddFunc(b, FuncOf[TaskOf(th)], TaskOf(th)))
        /\ hooks'[g] = n /\ hooks[g] \in {0, n}
    BY <1>3 DEF AddsTo
  <2> QED
    BY <1>1, <2>1
<1>4. ASSUME NEW g \in Got, AddsNone(g) PROVE AbandonedInert'
  <2>1. /\ SetsChain(g, Len(chains[g]) + 1, NoEntries(g))
        /\ hooks'[g] = Len(chains[g]) + 1 /\ hooks[g] = 0
    BY <1>4 DEF AddsNone
  <2> QED
    BY <1>1, <2>1
<1>5. ASSUME NEW th \in Thread, NEW g \in Got, Removing(th, g), Dels(th, g)
      PROVE  AbandonedInert'
  <2> DEFINE c == HookDelFunc(Cur(g), FuncOf[TaskOf(th)])
  <2>1. /\ SetsChain(g, hooks[g], c)
        /\ hooks'[g] = hooks[g] \/ (hooks'[g] = 0 /\ Enabled(c) = {})
    BY <1>5 DEF Dels
  <2> QED
    BY <1>1, <2>1
<1> QED
  BY <1>2, <1>3, <1>4, <1>5, ChainSteps

-----------------------------------------------------------------------------
(* What is enabled for a task                                              *)

\* Disabling by function leaves nothing enabled for a task with this function.
LEMMA DisabledFor ==
  ASSUME NEW g \in Got, NEW c \in Chain, EntriesOk(g, c), NEW t \in Task,
         NEW i \in Enabled(HookDelFunc(c, FuncOf[t]))
  PROVE  HookDelFunc(c, FuncOf[t]).list[i].task # t
<1>1. FuncOf[t] \in Func
  BY HookManagerAssumption
<1>2. /\ i \in Enabled(c) /\ c.list[i].func # FuncOf[t]
      /\ HookDelFunc(c, FuncOf[t]).list[i].task = c.list[i].task
  BY <1>1, EnabledDel
<1> QED
  BY <1>2 DEF EntriesOk, Enabled

\* What bh_hook_add_func enables: an entry of its function, for its task.
LEMMA EnabledAdd ==
  ASSUME NEW c \in Chain, NEW t \in Task
  PROVE  LET d == HookAddFunc(c, FuncOf[t], t)
         IN  /\ Enabled(c) \subseteq Enabled(d)
             /\ \A i \in Enabled(c) : d.list[i].func = c.list[i].func
             /\ \A i \in Enabled(d) :
                   \/ d.list[i].task = t
                   \/ i \in Enabled(c) /\ d.list[i].task = c.list[i].task
             /\ \E i \in Enabled(d) : d.list[i].func = FuncOf[t]
<1> DEFINE d == HookAddFunc(c, FuncOf[t], t)
           E == EntriesOf(c, FuncOf[t], t)
           n == Len(c.list) + 1
<1>1. FuncOf[t] \in Func /\ Len(c.list) \in Nat
  BY HookManagerAssumption, ChainList
<1>2. CASE E # {}
  <2>1. /\ Len(d.list) = Len(c.list)
        /\ \A i \in 1..Len(c.list) :
              /\ d.list[i].func = c.list[i].func /\ d.list[i].task = c.list[i].task
              /\ d.list[i].enabled = (c.list[i].enabled \/ i \in E)
    BY <1>1, <1>2, ReEnableFacts
  <2>2. \A i \in E : i \in 1..Len(c.list) /\ c.list[i].func = FuncOf[t] /\ c.list[i].task = t
    BY DEF EntriesOf
  <2> HIDE DEF d, E
  <2>3. Enabled(d) = Enabled(c) \cup E
    BY <2>1, <2>2 DEF Enabled
  <2>4. Enabled(d) \subseteq 1..Len(c.list)
    BY <2>1 DEF Enabled
  <2>5. /\ \A i \in Enabled(c) : d.list[i].func = c.list[i].func
        /\ \A i \in Enabled(d) :
              d.list[i].task = t \/ (i \in Enabled(c) /\ d.list[i].task = c.list[i].task)
        /\ \E i \in Enabled(d) : d.list[i].func = FuncOf[t]
    BY <1>2, <2>1, <2>2, <2>3, <2>4
  <2> QED
    BY <2>3, <2>5 DEF d
<1>3. CASE E = {}
  <2>1. /\ Len(d.list) = n
        /\ \A i \in 1..Len(c.list) : d.list[i] = c.list[i]
        /\ d.list[n].func = FuncOf[t] /\ d.list[n].task = t /\ d.list[n].enabled
    BY <1>1, <1>3, InsertFacts
  <2>2. 1..n = 1..Len(c.list) \cup {n} /\ n \in 1..n
    BY <1>1
  <2> HIDE DEF d, E, n
  <2>3. \A i \in Enabled(c) : i \in 1..Len(c.list) /\ c.list[i].enabled
    BY DEF Enabled
  <2>4. \A i \in Enabled(c) : i \in Enabled(d) /\ d.list[i] = c.list[i]
    BY <2>1, <2>2, <2>3 DEF Enabled
  <2>5. ASSUME NEW i \in Enabled(d) PROVE i = n \/ (i \in Enabled(c) /\ d.list[i] = c.list[i])
    <3>1. i \in 1..n /\ d.list[i].enabled
      BY <2>1 DEF Enabled
    <3> QED
      BY <2>1, <2>2, <3>1 DEF Enabled
  <2>6. n \in Enabled(d)
    BY <2>1, <2>2 DEF Enabled
  <2>7. /\ Enabled(c) \subseteq Enabled(d)
        /\ \A i \in Enabled(c) : d.list[i].func = c.list[i].func
        /\ \A i \in Enabled(d) :
              d.list[i].task = t \/ (i \in Enabled(c) /\ d.list[i].task = c.list[i].task)
        /\ \E i \in Enabled(d) : d.list[i].func = FuncOf[t]
    BY <2>1, <2>4, <2>5, <2>6
  <2> QED
    BY <2>7 DEF d
<1> QED
  BY <1>2, <1>3

\* A proxy is enabled for a task only by a thread that hooks the task there.
LEMMA EnabledForSteps ==
  ASSUME TypeOK, CallInv, TreeInv, OrigInv, EntryInv, [Next]_vars,
         NEW g \in Got, NEW t \in Task, EnabledFor(g, t)'
  PROVE  EnabledFor(g, t) \/ \E th \in Thread : Adding(th, g) /\ TaskOf(th) = t
<1> DEFINE Has(c) == \E i \in Enabled(c) : c.list[i].task = t
<1>1. PICK m \in ChainNos(g)' : Has(chains'[g][m])
  BY DEF EnabledFor, Enabled
<1>2. \A n \in ChainNos(g) : Has(chains[g][n]) => EnabledFor(g, t)
  BY DEF EnabledFor
<1>3. CASE UNCHANGED <<chains, hooks>>
  BY <1>1, <1>2, <1>3 DEF ChainNos
<1>4. ASSUME NEW th \in Thread, NEW h \in Got, NEW n \in Nat, NEW b \in Chain,
             Adding(th, h), AddsTo(th, h, n, b)
      PROVE  EnabledFor(g, t) \/ \E u \in Thread : Adding(u, g) /\ TaskOf(u) = t
  <2> DEFINE c == HookAddFunc(b, FuncOf[TaskOf(th)], TaskOf(th))
  <2>1. SetsChain(h, n, c)
    BY <1>4 DEF AddsTo
  <2>2. TaskOf(th) \in Task
    BY <1>4, TaskFacts DEF Adding
  <2>3. Has(c) => TaskOf(th) = t \/ Has(b)
    BY <2>2, EnabledAdd
  <2>4. hooks[h] = 0 => Enabled(b) = {}
    BY <1>4 DEF AddsTo, NoEntries, Enabled
  <2>5. hooks[h] # 0 => n \in ChainNos(h) /\ b = chains[h][n]
    BY <1>4, CurChain DEF AddsTo, Cur
  <2> HIDE DEF c, Has
  <2>6. CASE g = h /\ m = n
    <3>1. Has(c)
      BY <1>1, <2>1, <2>6 DEF SetsChain
    <3>2. CASE TaskOf(th) = t
      BY <1>4, <2>6, <3>2
    <3>3. CASE Has(b)
      BY <1>2, <2>4, <2>5, <2>6, <3>3 DEF Has
    <3> QED
      BY <2>3, <3>1, <3>2, <3>3
  <2>7. CASE ~(g = h /\ m = n)
    BY <1>1, <1>2, <2>1, <2>7 DEF SetsChain, ChainNos
  <2> QED
    BY <2>6, <2>7
<1>5. ASSUME NEW h \in Got, AddsNone(h) PROVE EnabledFor(g, t)
  <2>1. SetsChain(h, Len(chains[h]) + 1, NoEntries(h)) /\ ~Has(NoEntries(h))
    BY <1>5 DEF AddsNone, NoEntries, Enabled
  <2> HIDE DEF Has
  <2> QED
    BY <1>1, <1>2, <2>1 DEF SetsChain, ChainNos
<1>6. ASSUME NEW th \in Thread, NEW h \in Got, Removing(th, h), Dels(th, h)
      PROVE  EnabledFor(g, t)
  <2> DEFINE c == HookDelFunc(Cur(h), FuncOf[TaskOf(th)])
  <2>1. /\ SetsChain(h, hooks[h], c) /\ Cur(h) \in Chain
        /\ hooks[h] \in ChainNos(h) /\ FuncOf[TaskOf(th)] \in Func
    BY <1>6, CurChain, TaskFacts DEF Dels, Removing
  <2>2. Has(c) => Has(Cur(h))
    BY <2>1, EnabledDel
  <2> HIDE DEF c, Has
  <2> QED
    BY <1>1, <1>2, <2>1, <2>2 DEF SetsChain, ChainNos, Cur
<1> QED
  BY <1>3, <1>4, <1>5, <1>6, ChainSteps

\* An ELF stays in error.
LEMMA ErrorKept ==
  ASSUME TypeOK, [Next]_vars, NEW d \in Elf, error[d]
  PROVE  error'[d]
<1> DEFINE Goal == error'[d]
<1> SUFFICES Goal
  OBVIOUS
<1>1. ASSUME NEW th \in Thread, NEW e \in Elf, HookRefused(th, e) PROVE Goal
  BY <1>1 DEF HookRefused
<1>2. ASSUME NEW th \in Thread, NEW e \in Elf, FindFault(th, e) PROVE Goal
  BY <1>2 DEF FindFault, TypeOK
<1>3. ASSUME NEW th \in Thread, NEW e \in Elf, HookCfi(th, e) PROVE Goal
  BY <1>3 DEF HookCfi
<1>4. ASSUME NEW th \in Thread, NEW e \in Elf, UnhookRefused(th, e) PROVE Goal
  BY <1>4 DEF UnhookRefused
<1>5. ASSUME NEW th \in Thread, NEW e \in Elf, FindSlots(th, e) PROVE Goal
  BY <1>5 DEF FindSlots
<1>6. ASSUME NEW th \in Thread, NEW g \in Got, ReadFault(th, g) PROVE Goal
  BY <1>6 DEF ReadFault, TypeOK
<1>7. ASSUME NEW th \in Thread, NEW g \in Got, AddFuncFound(th, g) PROVE Goal
  BY <1>7 DEF AddFuncFound
<1>8. ASSUME NEW th \in Thread, NEW g \in Got, AddFuncRepeated(th, g) PROVE Goal
  BY <1>8 DEF AddFuncRepeated
<1>9. ASSUME NEW th \in Thread, NEW g \in Got, AddFuncCreated(th, g) PROVE Goal
  BY <1>9 DEF AddFuncCreated
<1>10. ASSUME NEW th \in Thread, NEW g \in Got, CreateFails(th, g) PROVE Goal
  BY <1>10 DEF CreateFails
<1>11. ASSUME NEW th \in Thread, NEW g \in Got, AppendFails(th, g) PROVE Goal
  BY <1>11 DEF AppendFails
<1>12. ASSUME NEW th \in Thread, NEW g \in Got, DelFuncNone(th, g) PROVE Goal
  BY <1>12 DEF DelFuncNone
<1>13. ASSUME NEW th \in Thread, NEW g \in Got, DelFunc(th, g) PROVE Goal
  BY <1>13 DEF DelFunc
<1>14. ASSUME NEW th \in Thread, NEW g \in Got, ManualHook(th, g) PROVE Goal
  BY <1>14 DEF ManualHook
<1>15. ASSUME NEW th \in Thread, NEW g \in Got, ManualHookFails(th, g) PROVE Goal
  BY <1>15 DEF ManualHookFails, ErrorAfter, TypeOK
<1>16. ASSUME NEW th \in Thread, NEW g \in Got, ManualUnhook(th, g) PROVE Goal
  BY <1>16 DEF ManualUnhook, ErrorAfter, TypeOK
<1>17. ASSUME NEW th \in Thread, Lock(th) PROVE Goal
  BY <1>17 DEF Lock
<1>18. ASSUME NEW th \in Thread, Unlock(th) PROVE Goal
  BY <1>18 DEF Unlock
<1>19. ASSUME NEW th \in Thread, Replace(th) PROVE Goal
  BY <1>19 DEF Replace
<1>20. ASSUME NEW th \in Thread, ReplaceFails(th) PROVE Goal
  BY <1>20 DEF ReplaceFails, ErrorAfter, TypeOK
<1>21. ASSUME NEW th \in Thread, Restore(th) PROVE Goal
  BY <1>21 DEF Restore, ErrorAfter, TypeOK
<1>22. ASSUME NEW th \in Thread, Finish(th) PROVE Goal
  BY <1>22 DEF Finish
<1>23. ASSUME NEW th \in Thread, NEW t \in Task, HookBegin(th, t) PROVE Goal
  BY <1>23 DEF HookBegin
<1>24. ASSUME NEW th \in Thread, NEW t \in Task, UnhookBegin(th, t) PROVE Goal
  BY <1>24 DEF UnhookBegin
<1>25. ASSUME NEW th \in Thread, NEW t \in Task, NEW e \in Elf, HookElfBegin(th, t, e) PROVE Goal
  BY <1>25 DEF HookElfBegin
<1>26. CASE UNCHANGED vars
  BY <1>26 DEF vars
<1> HIDE DEF Goal
<1> QED
  BY <1>1, <1>2, <1>3, <1>4, <1>5, <1>6, <1>7, <1>8, <1>9, <1>10, <1>11, <1>12, <1>13,
     <1>14, <1>15, <1>16, <1>17, <1>18, <1>19, <1>20, <1>21, <1>22, <1>23, <1>24, <1>25,
     <1>26
     DEF Next, Progress, ElfStep, SlotStep, Quiet

\* What is enabled after a step for a task that is being unhooked was so before it.
LEMMA UnhookedBefore ==
  ASSUME TypeOK, CallInv, PhaseInv, TreeInv, OrigInv, EntryInv, [Next]_vars,
         NEW u \in Thread, pc[u] # "idle", job[u].op = "unhook", TaskOf(u)' = TaskOf(u),
         NEW g \in Got, EnabledFor(g, TaskOf(u))'
  PROVE  EnabledFor(g, TaskOf(u))
<1>1. TaskOf(u) \in Task
  BY TaskFacts
<1>2. phase[TaskOf(u)] = "unhooking"
  BY DEF PhaseInv, PhaseOk
<1>3. \A v \in Thread : Adding(v, g) => TaskOf(v) # TaskOf(u)
  BY <1>2 DEF Adding, Hooking, PhaseInv, PhaseOk
<1>4. ASSUME NEW t, t = TaskOf(u) PROVE EnabledFor(g, t)'
  BY <1>4 DEF EnabledFor, Enabled
<1> QED
  BY <1>1, <1>3, <1>4, EnabledForSteps

\* A step of th keeps what UnhookInv says of the other threads ...
LEMMA UnhookFrameOther ==
  ASSUME TypeOK, CallInv, PhaseInv, TreeInv, OrigInv, EntryInv, UnhookInv, [Next]_vars,
         NEW th \in Thread, Others(th), NEW u \in Thread, u # th,
         pc'[u] # "idle", job'[u].op = "unhook",
         NEW e \in Elf, NEW g \in GotsOf[e], EnabledFor(g, TaskOf(u))'
  PROVE  error'[e] \/ Left(u, e, g)'
<1>1. pc[u] # "idle" /\ job[u].op = "unhook" /\ TaskOf(u)' = TaskOf(u) /\ g \in Got
  BY HookManagerAssumption DEF Others, TaskOf
<1>2. EnabledFor(g, TaskOf(u))
  BY <1>1, UnhookedBefore
<1>3. CASE error[e]
  BY <1>3, ErrorKept
<1>4. CASE Left(u, e, g)
  BY <1>4 DEF Left, Others, ElfOf
<1> QED
  BY <1>1, <1>2, <1>3, <1>4 DEF UnhookInv

\* A thread without a call has nothing left to unhook.
LEMMA UnhookFrameIdle ==
  ASSUME TypeOK, CallInv, PhaseInv, TreeInv, OrigInv, EntryInv, UnhookInv, [Next]_vars,
         NEW th \in Thread, Others(th), pc'[th] = "idle" \/ job'[th].op # "unhook"
  PROVE  UnhookInv'
  BY UnhookFrameOther DEF UnhookInv

\* ... and all of it when it skips nothing that is enabled for its task.
LEMMA UnhookFrame ==
  ASSUME TypeOK, CallInv, PhaseInv, TreeInv, OrigInv, EntryInv, UnhookInv, [Next]_vars,
         NEW th \in Thread, Others(th), pc[th] # "idle",
         job'[th].op = job[th].op, TaskOf(th)' = TaskOf(th),
         ASSUME NEW e \in Elf, NEW g \in GotsOf[e], job[th].op = "unhook",
                Left(th, e, g), EnabledFor(g, TaskOf(th))'
         PROVE  error'[e] \/ Left(th, e, g)'
  PROVE  UnhookInv'
<1>1. CASE job[th].op # "unhook"
  BY <1>1, UnhookFrameIdle
<1>2. CASE job[th].op = "unhook"
  <2>1. ASSUME NEW e \in Elf, NEW g \in GotsOf[e], EnabledFor(g, TaskOf(th))'
        PROVE  error'[e] \/ Left(th, e, g)'
    <3>1. g \in Got
      BY HookManagerAssumption
    <3>2. EnabledFor(g, TaskOf(th))
      BY <1>2, <2>1, <3>1, UnhookedBefore
    <3>3. error[e] \/ Left(th, e, g)
      BY <1>2, <3>2 DEF UnhookInv
    <3> QED
      BY <1>2, <2>1, <3>3, ErrorKept
  <2> QED
    BY <2>1, UnhookFrameOther DEF UnhookInv
<1> QED
  BY <1>1, <1>2

\* What is not in the tree runs no proxy.
LEMMA NothingEnabled ==
  ASSUME AbandonedInert, TypeOK, NEW g \in Got, hooks[g] = 0, NEW t
  PROVE  ~EnabledFor(g, t)
<1>1. ChainNos(g) \ {hooks[g]} = ChainNos(g)
  BY DEF ChainNos, TypeOK
<1> QED
  BY <1>1 DEF AbandonedInert, EnabledFor

\* bh_hook_manager_del_func leaves nothing enabled for the task in the slot.
LEMMA DelsAll ==
  ASSUME TypeOK, CallInv, TreeInv, OrigInv, EntryInv, AbandonedInert, NEW th \in Thread,
         NEW g \in Got, pc[th] # "idle", Dels(th, g)
  PROVE  \A t : t = TaskOf(th) => ~EnabledFor(g, t)'
<1> DEFINE t == TaskOf(th)
           c == HookDelFunc(Cur(g), FuncOf[t])
<1>1. /\ SetsChain(g, hooks[g], c) /\ Cur(g) \in Chain /\ t \in Task
      /\ EntriesOk(g, Cur(g)) /\ hooks[g] \in ChainNos(g)
  BY CurChain, TaskFacts DEF Dels, EntryInv, Cur
<1>2. \A i \in Enabled(c) : c.list[i].task # t
  BY <1>1, DisabledFor
<1>3. \A n \in ChainNos(g) \ {hooks[g]} : Enabled(chains[g][n]) = {}
  BY DEF AbandonedInert
<1> HIDE DEF c
<1>4. ASSUME NEW n \in ChainNos(g)', NEW i \in Enabled(chains'[g][n])
      PROVE  chains'[g][n].list[i].task # t
  <2>1. CASE n = hooks[g]
    BY <1>1, <1>2, <1>4, <2>1 DEF SetsChain
  <2>2. CASE n # hooks[g]
    BY <1>1, <1>3, <1>4, <2>2 DEF SetsChain
  <2> QED
    BY <2>1, <2>2
<1> QED
  BY <1>4 DEF EnabledFor, Enabled

\* An unhook call leaves nothing enabled for its task behind it.
LEMMA NextUnhook ==
  ASSUME TypeOK, CallInv, PhaseInv, TreeInv, OrigInv, EntryInv, AbandonedInert, UnhookInv, [Next]_vars
  PROVE  UnhookInv'
<1>1. ASSUME NEW th \in Thread, NEW e \in Elf, HookRefused(th, e) PROVE UnhookInv'
  <2>1. Others(th) /\ job[th].op # "unhook" /\ job'[th].op = job[th].op
    BY <1>1, NextElfJob DEF HookRefused, NextElf, Hooking, Others, TypeOK
  <2> QED
    BY <2>1, UnhookFrameIdle
<1>2. ASSUME NEW th \in Thread, NEW e \in Elf, FindFault(th, e) PROVE UnhookInv'
  <2>1. /\ Others(th) /\ pc[th] = "elf" /\ pc'[th] = "elf" /\ job' = NextElf(th, e)
        /\ error'[e]
    BY <1>2 DEF FindFault, NextElf, Others, taskVars, TypeOK
  <2>2. /\ job'[th].op = job[th].op /\ TaskOf(th)' = TaskOf(th)
        /\ job'[th].elfs = job[th].elfs \ {e}
    BY <2>1, NextElfJob DEF TaskOf
  <2>3. ASSUME NEW d \in Elf, NEW g \in GotsOf[d], Left(th, d, g)
        PROVE  error'[d] \/ Left(th, d, g)'
    <3>1. d \in job[th].elfs
      BY <2>1, <2>3 DEF Left, Walking
    <3> QED
      BY <2>1, <2>2, <3>1, ErrorKept DEF Left
  <2> QED
    BY <2>1, <2>2, <2>3, UnhookFrame
<1>3. ASSUME NEW th \in Thread, NEW e \in Elf, HookCfi(th, e) PROVE UnhookInv'
  <2>1. Others(th) /\ job[th].op # "unhook" /\ job'[th].op = job[th].op
    BY <1>3 DEF HookCfi, taskVars, Hooking, Others, TypeOK
  <2> QED
    BY <2>1, UnhookFrameIdle
<1>4. ASSUME NEW th \in Thread, NEW e \in Elf, UnhookRefused(th, e) PROVE UnhookInv'
  <2>1. /\ Others(th) /\ pc[th] = "elf" /\ pc'[th] = "elf" /\ job' = NextElf(th, e)
        /\ error[e] \/ GotsOf[e] = {}
    BY <1>4 DEF UnhookRefused, NextElf, Others, taskVars, TypeOK
  <2>2. /\ job'[th].op = job[th].op /\ TaskOf(th)' = TaskOf(th)
        /\ job'[th].elfs = job[th].elfs \ {e}
    BY <2>1, NextElfJob DEF TaskOf
  <2>3. ASSUME NEW d \in Elf, NEW g \in GotsOf[d], Left(th, d, g)
        PROVE  error'[d] \/ Left(th, d, g)'
    <3>1. d \in job[th].elfs
      BY <2>1, <2>3 DEF Left, Walking
    <3> QED
      BY <2>1, <2>2, <3>1, ErrorKept DEF Left
  <2> QED
    BY <2>1, <2>2, <2>3, UnhookFrame
<1>5. ASSUME NEW th \in Thread, NEW e \in Elf, FindSlots(th, e) PROVE UnhookInv'
  <2>1. /\ Others(th) /\ pc[th] = "elf" /\ pc'[th] = "lock" /\ job' = NextElf(th, e)
        /\ job[th].op = "unhook" =>
              walk'[th] = [elf |-> e, todo |-> GotsOf[e], slot |-> None, ok |-> TRUE]
    BY <1>5 DEF FindSlots, Hooking, NextElf, Others, taskVars, TypeOK
  <2>2. /\ job'[th].op = job[th].op /\ TaskOf(th)' = TaskOf(th)
        /\ job'[th].elfs = job[th].elfs \ {e}
    BY <2>1, NextElfJob DEF TaskOf
  <2>3. ASSUME job[th].op = "unhook", NEW d \in Elf, NEW g \in GotsOf[d], Left(th, d, g)
        PROVE  Left(th, d, g)'
    <3>1. d \in job[th].elfs
      BY <2>1, <2>3 DEF Left, Walking
    <3> QED
      BY <2>1, <2>2, <2>3, <3>1 DEF Left, Walking, ElfOf
  <2> QED
    BY <2>1, <2>2, <2>3, UnhookFrame
<1>6. ASSUME NEW th \in Thread, NEW g \in Got, ReadFault(th, g) PROVE UnhookInv'
  <2>1. /\ Others(th) /\ UNCHANGED job /\ pc[th] \in {"slot", "restore"}
        /\ g \in Got /\ \E r \in BOOLEAN : SlotDone(th, g, r)
    BY <1>6 DEF ReadFault, UnhookSlot, SlotDone, Others, taskVars, TypeOK
  <2>2. /\ walk'[th].elf = walk[th].elf /\ walk'[th].todo = walk[th].todo \ {g}
        /\ pc'[th] = "slot"
    BY <2>1, SlotDoneWalk DEF CallInv, CallOk, Walking
  <2>3. error'[ElfOf(th)]
    <3>1. ElfOf(th) \in Elf
      BY <1>6 DEF ReadFault, CallInv, CallOk, Walking, Walk, ElfOf
    <3> QED
      BY <1>6, <3>1 DEF ReadFault, TypeOK
  <2>4. \A e \in Elf, h \in Got : Left(th, e, h) /\ ~Left(th, e, h)' => h = g /\ e = ElfOf(th)
    BY <2>1, <2>2 DEF Left, Walking, ElfOf
  <2>5. \A e \in Elf : \A h \in GotsOf[e] : h \in Got
    BY HookManagerAssumption
  <2> QED
    BY <2>1, <2>2, <2>3, <2>4, <2>5, UnhookFrame DEF TaskOf
<1>7. ASSUME NEW th \in Thread, NEW g \in Got, AddFuncFound(th, g) PROVE UnhookInv'
  <2>1. Others(th) /\ job[th].op # "unhook" /\ job'[th].op = job[th].op
    BY <1>7 DEF AddFuncFound, HookSlot, SlotDone, taskVars, Hooking, Others, TypeOK
  <2> QED
    BY <2>1, UnhookFrameIdle
<1>8. ASSUME NEW th \in Thread, NEW g \in Got, AddFuncRepeated(th, g) PROVE UnhookInv'
  <2>1. Others(th) /\ job[th].op # "unhook" /\ job'[th].op = job[th].op
    BY <1>8 DEF AddFuncRepeated, HookSlot, SlotDone, taskVars, Hooking, Others, TypeOK
  <2> QED
    BY <2>1, UnhookFrameIdle
<1>9. ASSUME NEW th \in Thread, NEW g \in Got, AddFuncCreated(th, g) PROVE UnhookInv'
  <2>1. Others(th) /\ job[th].op # "unhook" /\ job'[th].op = job[th].op
    BY <1>9 DEF AddFuncCreated, HookSlot, SlotDone, taskVars, Hooking, Others, TypeOK
  <2> QED
    BY <2>1, UnhookFrameIdle
<1>10. ASSUME NEW th \in Thread, NEW g \in Got, CreateFails(th, g) PROVE UnhookInv'
  <2>1. Others(th) /\ job[th].op # "unhook" /\ job'[th].op = job[th].op
    BY <1>10 DEF CreateFails, HookSlot, SlotDone, taskVars, Hooking, Others, TypeOK
  <2> QED
    BY <2>1, UnhookFrameIdle
<1>11. ASSUME NEW th \in Thread, NEW g \in Got, AppendFails(th, g) PROVE UnhookInv'
  <2>1. Others(th) /\ job[th].op # "unhook" /\ job'[th].op = job[th].op
    BY <1>11 DEF AppendFails, HookSlot, SlotDone, taskVars, Hooking, Others, TypeOK
  <2> QED
    BY <2>1, UnhookFrameIdle
<1>12. ASSUME NEW th \in Thread, NEW g \in Got, DelFuncNone(th, g) PROVE UnhookInv'
  <2>1. /\ Others(th) /\ UNCHANGED job /\ pc[th] \in {"slot", "restore"}
        /\ g \in Got /\ \E r \in BOOLEAN : SlotDone(th, g, r)
    BY <1>12 DEF DelFuncNone, UnhookSlot, SlotDone, Others, taskVars, TypeOK
  <2>2. /\ walk'[th].elf = walk[th].elf /\ walk'[th].todo = walk[th].todo \ {g}
        /\ pc'[th] = "slot"
    BY <2>1, SlotDoneWalk DEF CallInv, CallOk, Walking
  <2>3. \A t : ~EnabledFor(g, t)'
    <3>1. hooks[g] = 0 /\ UNCHANGED chains
      BY <1>12 DEF DelFuncNone, UnhookSlot, chainVars
    <3> QED
      BY <3>1, NothingEnabled DEF EnabledFor, Enabled, ChainNos
  <2>4. \A e \in Elf, h \in Got : Left(th, e, h) /\ ~Left(th, e, h)' => h = g /\ e = ElfOf(th)
    BY <2>1, <2>2 DEF Left, Walking, ElfOf
  <2>5. \A e \in Elf : \A h \in GotsOf[e] : h \in Got
    BY HookManagerAssumption
  <2> QED
    BY <2>1, <2>2, <2>3, <2>4, <2>5, UnhookFrame DEF TaskOf
<1>13. ASSUME NEW th \in Thread, NEW g \in Got, DelFunc(th, g) PROVE UnhookInv'
  <2>1. /\ Others(th) /\ UNCHANGED job /\ pc[th] = "slot" /\ pc[th] # "idle" /\ Dels(th, g)
    BY <1>13, ChainDelDels DEF DelFunc, UnhookSlot, SlotDone, Others, taskVars, TypeOK
  <2>2. \A t : t = TaskOf(th) => ~EnabledFor(g, t)'
    BY <2>1, DelsAll
  <2>3. walk[th] \in Walk
    BY <2>1 DEF CallInv, CallOk, Walking
  <2>4. /\ walk'[th].elf = walk[th].elf /\ walk[th].todo \ {g} \subseteq walk'[th].todo
        /\ pc'[th] \in {"slot", "restore"}
    <3>1. CASE SlotDone(th, g, TRUE)
      BY <2>3, <3>1, SlotDoneWalk
    <3>2. CASE pc' = [pc EXCEPT ![th] = "restore"] /\ walk' = [walk EXCEPT ![th].slot = g]
      BY <2>3, <3>2 DEF Walk, TypeOK
    <3> QED
      BY <1>13, <3>1, <3>2 DEF DelFunc
  <2>5. \A e \in Elf, h \in Got : Left(th, e, h) /\ ~Left(th, e, h)' => h = g
    BY <2>1, <2>4 DEF Left, Walking, ElfOf
  <2>6. ASSUME NEW t, t = TaskOf(th) PROVE ~EnabledFor(g, TaskOf(th))'
    BY <2>1, <2>2, <2>6 DEF TaskOf, EnabledFor, Enabled
  <2>7. \A e \in Elf : \A h \in GotsOf[e] : h \in Got
    BY HookManagerAssumption
  <2> QED
    BY <2>1, <2>4, <2>5, <2>6, <2>7, UnhookFrame DEF TaskOf
<1>14. ASSUME NEW th \in Thread, NEW g \in Got, ManualHook(th, g) PROVE UnhookInv'
  <2>1. Others(th) /\ job[th].op # "unhook" /\ job'[th].op = job[th].op
    BY <1>14 DEF ManualHook, HookSlot, SlotDone, taskVars, Hooking, Others, TypeOK
  <2> QED
    BY <2>1, UnhookFrameIdle
<1>15. ASSUME NEW th \in Thread, NEW g \in Got, ManualHookFails(th, g) PROVE UnhookInv'
  <2>1. Others(th) /\ job[th].op # "unhook" /\ job'[th].op = job[th].op
    BY <1>15 DEF ManualHookFails, HookSlot, SlotDone, taskVars, Hooking, Others, TypeOK
  <2> QED
    BY <2>1, UnhookFrameIdle
<1>16. ASSUME NEW th \in Thread, NEW g \in Got, ManualUnhook(th, g) PROVE UnhookInv'
  <2>1. /\ Others(th) /\ UNCHANGED job /\ pc[th] \in {"slot", "restore"}
        /\ g \in Got /\ \E r \in BOOLEAN : SlotDone(th, g, r)
    BY <1>16 DEF ManualUnhook, UnhookSlot, SlotDone, Others, taskVars, TypeOK
  <2>2. /\ walk'[th].elf = walk[th].elf /\ walk'[th].todo = walk[th].todo \ {g}
        /\ pc'[th] = "slot"
    BY <2>1, SlotDoneWalk DEF CallInv, CallOk, Walking
  <2>3. \A t : ~EnabledFor(g, t)'
    <3>1. mode = "MANUAL" /\ UNCHANGED chains
      BY <1>16 DEF ManualUnhook, UnhookSlot, chainVars
    <3> QED
      BY <3>1 DEF TreeInv, TreeSlot, EnabledFor, ChainNos
  <2>4. \A e \in Elf, h \in Got : Left(th, e, h) /\ ~Left(th, e, h)' => h = g /\ e = ElfOf(th)
    BY <2>1, <2>2 DEF Left, Walking, ElfOf
  <2>5. \A e \in Elf : \A h \in GotsOf[e] : h \in Got
    BY HookManagerAssumption
  <2> QED
    BY <2>1, <2>2, <2>3, <2>4, <2>5, UnhookFrame DEF TaskOf
<1>17. ASSUME NEW th \in Thread, Lock(th) PROVE UnhookInv'
  <2>1. /\ Others(th) /\ pc[th] = "lock" /\ pc'[th] = "slot" /\ UNCHANGED <<job, walk>>
    BY <1>17 DEF Lock, Others, TypeOK
  <2>2. \A e, g : Left(th, e, g) => Left(th, e, g)'
    BY <2>1 DEF Left, Walking, ElfOf
  <2> QED
    BY <2>1, <2>2, UnhookFrame DEF TaskOf
<1>18. ASSUME NEW th \in Thread, Unlock(th) PROVE UnhookInv'
  <2>1. /\ Others(th) /\ pc'[th] = "elf" /\ pc[th] = "slot" /\ walk[th].todo = {}
        /\ UNCHANGED job
    BY <1>18 DEF Unlock, Others, TypeOK
  <2>2. \A e, g : Left(th, e, g) => Left(th, e, g)'
    BY <2>1 DEF Left
  <2> QED
    BY <2>1, <2>2, UnhookFrame DEF TaskOf
<1>19. ASSUME NEW th \in Thread, Replace(th) PROVE UnhookInv'
  <2>1. Others(th) /\ job[th].op # "unhook" /\ job'[th].op = job[th].op
    BY <1>19 DEF Replace, SlotDone, PhaseInv, PhaseOk, taskVars, Hooking, Others, TypeOK
  <2> QED
    BY <2>1, UnhookFrameIdle
<1>20. ASSUME NEW th \in Thread, ReplaceFails(th) PROVE UnhookInv'
  <2>1. Others(th) /\ job[th].op # "unhook" /\ job'[th].op = job[th].op
    BY <1>20
       DEF ReplaceFails, SlotDone, PhaseInv, PhaseOk, taskVars, Hooking, Others, TypeOK
  <2> QED
    BY <2>1, UnhookFrameIdle
<1>21. ASSUME NEW th \in Thread, Restore(th) PROVE UnhookInv'
  <2>0. PICK g \in Got : g = walk[th].slot
    BY <1>21 DEF Restore, CallInv, CallOk, Walking, Walk
  <2>1. /\ Others(th) /\ UNCHANGED job /\ pc[th] \in {"slot", "restore"}
        /\ g \in Got /\ \E r \in BOOLEAN : SlotDone(th, g, r)
    BY <1>21, <2>0 DEF Restore, UnhookSlot, SlotDone, Others, taskVars, TypeOK
  <2>2. /\ walk'[th].elf = walk[th].elf /\ walk'[th].todo = walk[th].todo \ {g}
        /\ pc'[th] = "slot"
    BY <2>1, SlotDoneWalk DEF CallInv, CallOk, Walking
  <2>3. \A t : ~EnabledFor(g, t)'
    <3>1. pc[th] = "restore" /\ UNCHANGED chains
      BY <1>21 DEF Restore
    <3>2. hooks[g] = 0
      BY <2>0, <3>1 DEF TreeInv, TreeOk
    <3> QED
      BY <3>1, <3>2, NothingEnabled DEF EnabledFor, Enabled, ChainNos
  <2>4. \A e \in Elf, h \in Got : Left(th, e, h) /\ ~Left(th, e, h)' => h = g /\ e = ElfOf(th)
    BY <2>1, <2>2 DEF Left, Walking, ElfOf
  <2>5. \A e \in Elf : \A h \in GotsOf[e] : h \in Got
    BY HookManagerAssumption
  <2> QED
    BY <2>1, <2>2, <2>3, <2>4, <2>5, UnhookFrame DEF TaskOf
<1>22. ASSUME NEW th \in Thread, Finish(th) PROVE UnhookInv'
  <2>1. Others(th) /\ pc'[th] = "idle" /\ pc[th] = "elf" /\ job[th].elfs = {}
    BY <1>22 DEF Finish, Others, TypeOK
  <2>2. \A e, g : ~Left(th, e, g)
    BY <2>1 DEF Left, Walking
  <2> QED
    BY <2>1, <2>2, UnhookFrameIdle
<1>23. ASSUME NEW th \in Thread, NEW t \in Task, HookBegin(th, t) PROVE UnhookInv'
  <2>1. Others(th) /\ pc[th] = "idle" /\ job'[th].op # "unhook"
    BY <1>23 DEF HookBegin, Others, TypeOK
  <2> QED
    BY <2>1, UnhookFrameIdle
<1>24. ASSUME NEW th \in Thread, NEW t \in Task, UnhookBegin(th, t) PROVE UnhookInv'
  <2>1. Others(th) /\ UNCHANGED <<chains, error, walk>>
    BY <1>24 DEF UnhookBegin, Others, chainVars, TypeOK
  <2>2. CASE pc'[th] = "idle"
    BY <2>1, <2>2, UnhookFrameIdle
  <2>3. CASE pc'[th] # "idle"
    <3>1. job'[th].elfs = ScopeOf[t] /\ TaskOf(th)' = t
      BY <1>24, <2>3 DEF UnhookBegin, TaskOf, TypeOK
    <3>2. ASSUME NEW e \in Elf, NEW g \in GotsOf[e], EnabledFor(g, t)
          PROVE  e \in ScopeOf[t]
      <4>1. g \in Got
        BY HookManagerAssumption
      <4>2. PICK n \in ChainNos(g) : t \in TasksOf(chains[g][n])
        BY <3>2 DEF EnabledFor, Enabled, TasksOf
      <4>3. EntriesOk(g, chains[g][n])
        BY <4>1, <4>2 DEF EntryInv
      <4>4. PICK d \in ScopeOf[t] : g \in GotsOf[d]
        BY <4>2, <4>3 DEF EntriesOk, TasksOf
      <4> QED
        BY <4>4, HookManagerAssumption
    <3>3. ASSUME NEW e \in Elf, NEW g \in GotsOf[e], EnabledFor(g, TaskOf(th))'
          PROVE  Left(th, e, g)'
      <4>1. EnabledFor(g, t)
        BY <2>1, <3>1, <3>3 DEF EnabledFor, Enabled, ChainNos
      <4> QED
        BY <3>1, <3>2, <4>1 DEF Left
    <3> QED
      BY <2>1, <3>3, UnhookFrameOther DEF UnhookInv
  <2> QED
    BY <2>2, <2>3
<1>25. ASSUME NEW th \in Thread, NEW t \in Task, NEW e \in Elf, HookElfBegin(th, t, e) PROVE UnhookInv'
  <2>1. Others(th) /\ pc[th] = "idle" /\ job'[th].op # "unhook"
    BY <1>25 DEF HookElfBegin, Others, TypeOK
  <2> QED
    BY <2>1, UnhookFrameIdle
<1>26. CASE UNCHANGED vars
  <2> SUFFICES ASSUME NEW u \in Thread, pc'[u] # "idle", job'[u].op = "unhook",
                      NEW e \in Elf, NEW g \in GotsOf[e], EnabledFor(g, TaskOf(u))'
               PROVE  error'[e] \/ Left(u, e, g)'
    BY DEF UnhookInv
  <2>1. pc[u] # "idle" /\ job[u].op = "unhook" /\ EnabledFor(g, TaskOf(u))
    BY <1>26 DEF vars, EnabledFor, Enabled, ChainNos, TaskOf
  <2>2. error[e] \/ Left(u, e, g)
    BY <2>1 DEF UnhookInv
  <2> QED
    BY <1>26, <2>2 DEF vars, Left, ElfOf
<1> QED
  BY <1>1, <1>2, <1>3, <1>4, <1>5, <1>6, <1>7, <1>8, <1>9, <1>10, <1>11, <1>12, <1>13,
     <1>14, <1>15, <1>16, <1>17, <1>18, <1>19, <1>20, <1>21, <1>22, <1>23, <1>24, <1>25,
     <1>26
     DEF Next, Progress, ElfStep, SlotStep, Quiet

\* The chains stay in their type.
LEMMA ChainsType ==
  ASSUME TypeOK, CallInv, TreeInv, OrigInv, [Next]_vars
  PROVE  chains' \in [Got -> Seq(Chain)]
<1>1. CASE UNCHANGED <<chains, hooks>>
  BY <1>1 DEF TypeOK
<1> QED
  BY <1>1, ChainSteps DEF AddsTo, AddsNone, Dels, SetsChain

-----------------------------------------------------------------------------
(* The tasks that were destroyed                                           *)

\* A task is destroyed by its unhook call when this has visited every ELF, or at
\* once in manual mode.
LEMMA GoneSteps ==
  ASSUME TypeOK, CallInv, [Next]_vars, NEW x \in Task, phase'[x] = "gone"
  PROVE  \/ phase[x] = "gone"
         \/ mode = "MANUAL" /\ UNCHANGED chains
         \/ /\ UNCHANGED <<chains, error>>
            /\ \E th \in Thread : /\ pc[th] = "elf" /\ job[th].elfs = {}
                                  /\ job[th].op = "unhook" /\ TaskOf(th) = x
<1> DEFINE Goal ==
         \/ phase[x] = "gone"
         \/ mode = "MANUAL" /\ UNCHANGED chains
         \/ /\ UNCHANGED <<chains, error>>
            /\ \E th \in Thread : /\ pc[th] = "elf" /\ job[th].elfs = {}
                                  /\ job[th].op = "unhook" /\ TaskOf(th) = x
<1> SUFFICES Goal
  OBVIOUS
<1>1. ASSUME NEW th \in Thread, NEW e \in Elf, HookRefused(th, e) PROVE Goal
  BY <1>1 DEF HookRefused, taskVars
<1>2. ASSUME NEW th \in Thread, NEW e \in Elf, FindFault(th, e) PROVE Goal
  BY <1>2 DEF FindFault, taskVars
<1>3. ASSUME NEW th \in Thread, NEW e \in Elf, HookCfi(th, e) PROVE Goal
  BY <1>3 DEF HookCfi, taskVars
<1>4. ASSUME NEW th \in Thread, NEW e \in Elf, UnhookRefused(th, e) PROVE Goal
  BY <1>4 DEF UnhookRefused, taskVars
<1>5. ASSUME NEW th \in Thread, NEW e \in Elf, FindSlots(th, e) PROVE Goal
  BY <1>5 DEF FindSlots, taskVars
<1>6. ASSUME NEW th \in Thread, NEW g \in Got, ReadFault(th, g) PROVE Goal
  BY <1>6 DEF ReadFault, taskVars
<1>7. ASSUME NEW th \in Thread, NEW g \in Got, AddFuncFound(th, g) PROVE Goal
  BY <1>7 DEF AddFuncFound, taskVars
<1>8. ASSUME NEW th \in Thread, NEW g \in Got, AddFuncRepeated(th, g) PROVE Goal
  BY <1>8 DEF AddFuncRepeated, taskVars
<1>9. ASSUME NEW th \in Thread, NEW g \in Got, AddFuncCreated(th, g) PROVE Goal
  BY <1>9 DEF AddFuncCreated, taskVars
<1>10. ASSUME NEW th \in Thread, NEW g \in Got, CreateFails(th, g) PROVE Goal
  BY <1>10 DEF CreateFails, taskVars
<1>11. ASSUME NEW th \in Thread, NEW g \in Got, AppendFails(th, g) PROVE Goal
  BY <1>11 DEF AppendFails, taskVars
<1>12. ASSUME NEW th \in Thread, NEW g \in Got, DelFuncNone(th, g) PROVE Goal
  BY <1>12 DEF DelFuncNone, taskVars
<1>13. ASSUME NEW th \in Thread, NEW g \in Got, DelFunc(th, g) PROVE Goal
  BY <1>13 DEF DelFunc, taskVars
<1>14. ASSUME NEW th \in Thread, NEW g \in Got, ManualHook(th, g) PROVE Goal
  BY <1>14 DEF ManualHook, taskVars
<1>15. ASSUME NEW th \in Thread, NEW g \in Got, ManualHookFails(th, g) PROVE Goal
  BY <1>15 DEF ManualHookFails, taskVars
<1>16. ASSUME NEW th \in Thread, NEW g \in Got, ManualUnhook(th, g) PROVE Goal
  BY <1>16 DEF ManualUnhook, taskVars
<1>17. ASSUME NEW th \in Thread, Lock(th) PROVE Goal
  BY <1>17 DEF Lock, taskVars
<1>18. ASSUME NEW th \in Thread, Unlock(th) PROVE Goal
  BY <1>18 DEF Unlock, taskVars
<1>19. ASSUME NEW th \in Thread, Replace(th) PROVE Goal
  BY <1>19 DEF Replace, taskVars
<1>20. ASSUME NEW th \in Thread, ReplaceFails(th) PROVE Goal
  BY <1>20 DEF ReplaceFails, taskVars
<1>21. ASSUME NEW th \in Thread, Restore(th) PROVE Goal
  BY <1>21 DEF Restore, taskVars
<1>22. ASSUME NEW th \in Thread, Finish(th) PROVE Goal
  <2>1. /\ UNCHANGED <<chains, error>> /\ pc[th] = "elf" /\ job[th].elfs = {}
        /\ phase' = [phase EXCEPT ![TaskOf(th)] =
                        CASE job[th].op = "unhook" -> "gone"
                          [] job[th].op = "hook"   -> "listed"
                          [] OTHER                 -> @]
    BY <1>22 DEF Finish, chainVars
  <2>2. TaskOf(th) # x => phase'[x] = phase[x]
    BY <2>1 DEF TypeOK
  <2>3. TaskOf(th) = x => phase'[x] = CASE job[th].op = "unhook" -> "gone"
                                        [] job[th].op = "hook"   -> "listed"
                                        [] OTHER                 -> phase[x]
    BY <2>1 DEF TypeOK
  <2> QED
    BY <2>1, <2>2, <2>3
<1>23. ASSUME NEW th \in Thread, NEW t \in Task, HookBegin(th, t) PROVE Goal
  BY <1>23 DEF HookBegin, TypeOK
<1>24. ASSUME NEW th \in Thread, NEW t \in Task, UnhookBegin(th, t) PROVE Goal
  <2>1. CASE mode = "MANUAL"
    BY <1>24, <2>1 DEF UnhookBegin, chainVars
  <2>2. CASE mode # "MANUAL"
    BY <1>24, <2>2 DEF UnhookBegin, TypeOK
  <2> QED
    BY <2>1, <2>2
<1>25. ASSUME NEW th \in Thread, NEW t \in Task, NEW e \in Elf, HookElfBegin(th, t, e) PROVE Goal
  BY <1>25 DEF HookElfBegin, taskVars
<1>26. CASE UNCHANGED vars
  BY <1>26 DEF vars
<1> HIDE DEF Goal
<1> QED
  BY <1>1, <1>2, <1>3, <1>4, <1>5, <1>6, <1>7, <1>8, <1>9, <1>10, <1>11, <1>12, <1>13,
     <1>14, <1>15, <1>16, <1>17, <1>18, <1>19, <1>20, <1>21, <1>22, <1>23, <1>24, <1>25,
     <1>26
     DEF Next, Progress, ElfStep, SlotStep, Quiet

\* GoneSilent is kept.
LEMMA NextGone ==
  ASSUME TypeOK, CallInv, PhaseInv, TreeInv, OrigInv, EntryInv, UnhookInv, GoneSilent,
         [Next]_vars
  PROVE  GoneSilent'
<1>1. ASSUME NEW e \in Elf, ~error'[e], NEW g \in GotsOf[e], NEW t \in Task,
             phase'[t] = "gone", EnabledFor(g, t)'
      PROVE  FALSE
  <2>1. ~error[e] /\ g \in Got
    BY <1>1, ErrorKept, HookManagerAssumption
  <2>2. CASE phase[t] = "gone"
    <3>1. \A th \in Thread : Adding(th, g) => TaskOf(th) # t
      BY <2>2, CallPhase DEF Adding
    <3>2. EnabledFor(g, t)
      BY <1>1, <2>1, <3>1, EnabledForSteps
    <3> QED
      BY <2>1, <2>2, <3>2 DEF GoneSilent, EnabledFor
  <2>3. CASE mode = "MANUAL" /\ UNCHANGED chains
    BY <1>1, <2>1, <2>3 DEF EnabledFor, ChainNos, TreeInv, TreeSlot
  <2>4. CASE /\ UNCHANGED <<chains, error>>
             /\ \E th \in Thread : /\ pc[th] = "elf" /\ job[th].elfs = {}
                                   /\ job[th].op = "unhook" /\ TaskOf(th) = t
    <3>1. PICK th \in Thread : /\ pc[th] = "elf" /\ job[th].elfs = {}
                               /\ job[th].op = "unhook" /\ TaskOf(th) = t
      BY <2>4
    <3>2. EnabledFor(g, t)
      BY <1>1, <2>4 DEF EnabledFor, Enabled, ChainNos
    <3>3. ~Left(th, e, g)
      BY <3>1 DEF Left, Walking
    <3> QED
      BY <2>1, <3>1, <3>2, <3>3 DEF UnhookInv
  <2> QED
    BY <1>1, <2>2, <2>3, <2>4, GoneSteps
<1> SUFFICES ASSUME NEW e \in Elf, ~error'[e], NEW g \in GotsOf[e], NEW n \in ChainNos(g)',
                    NEW i \in Enabled(chains'[g][n])
             PROVE  phase'[chains'[g][n].list[i].task] # "gone"
  BY DEF GoneSilent, Enabled
<1>2. g \in Got
  BY HookManagerAssumption
<1>3. chains'[g][n] \in Chain /\ i \in 1..Len(chains'[g][n].list)
  BY <1>2, ChainsType DEF ChainNos, Enabled
<1>4. PICK t \in Task : t = chains'[g][n].list[i].task
  BY <1>3, ChainList DEF Entry
<1>5. EnabledFor(g, t)'
  BY <1>4 DEF EnabledFor, Enabled
<1> QED
  BY <1>1, <1>4, <1>5

-----------------------------------------------------------------------------
(* Manual mode                                                             *)

\* In manual mode slots are patched by ManualHook alone.
LEMMA ManualSteps ==
  ASSUME [Next]_vars, mode = "MANUAL", TypeOK, TreeInv
  PROVE  \/ UNCHANGED <<patched, manual_orig>>
         \/ \E th \in Thread, g \in Got : ManualHook(th, g)
<1> DEFINE Goal ==
         \/ UNCHANGED <<patched, manual_orig>>
         \/ \E th \in Thread, g \in Got : ManualHook(th, g)
<1> SUFFICES Goal
  OBVIOUS
<1>1. ASSUME NEW th \in Thread, NEW e \in Elf, HookRefused(th, e) PROVE Goal
  BY <1>1 DEF HookRefused, taskVars
<1>2. ASSUME NEW th \in Thread, NEW e \in Elf, FindFault(th, e) PROVE Goal
  BY <1>2 DEF FindFault, taskVars
<1>3. ASSUME NEW th \in Thread, NEW e \in Elf, HookCfi(th, e) PROVE Goal
  BY <1>3 DEF HookCfi, taskVars
<1>4. ASSUME NEW th \in Thread, NEW e \in Elf, UnhookRefused(th, e) PROVE Goal
  BY <1>4 DEF UnhookRefused, taskVars
<1>5. ASSUME NEW th \in Thread, NEW e \in Elf, FindSlots(th, e) PROVE Goal
  BY <1>5 DEF FindSlots, taskVars
<1>6. ASSUME NEW th \in Thread, NEW g \in Got, ReadFault(th, g) PROVE Goal
  BY <1>6 DEF ReadFault, taskVars
<1>7. ASSUME NEW th \in Thread, NEW g \in Got, AddFuncFound(th, g) PROVE Goal
  BY <1>7 DEF AddFuncFound
<1>8. ASSUME NEW th \in Thread, NEW g \in Got, AddFuncRepeated(th, g) PROVE Goal
  BY <1>8 DEF AddFuncRepeated, taskVars
<1>9. ASSUME NEW th \in Thread, NEW g \in Got, AddFuncCreated(th, g) PROVE Goal
  BY <1>9 DEF AddFuncCreated, taskVars
<1>10. ASSUME NEW th \in Thread, NEW g \in Got, CreateFails(th, g) PROVE Goal
  BY <1>10 DEF CreateFails, taskVars
<1>11. ASSUME NEW th \in Thread, NEW g \in Got, AppendFails(th, g) PROVE Goal
  BY <1>11 DEF AppendFails, taskVars
<1>12. ASSUME NEW th \in Thread, NEW g \in Got, DelFuncNone(th, g) PROVE Goal
  BY <1>12 DEF DelFuncNone, taskVars
<1>13. ASSUME NEW th \in Thread, NEW g \in Got, DelFunc(th, g) PROVE Goal
  BY <1>13 DEF DelFunc, taskVars
<1>14. ASSUME NEW th \in Thread, NEW g \in Got, ManualHook(th, g) PROVE Goal
  BY <1>14
<1>15. ASSUME NEW th \in Thread, NEW g \in Got, ManualHookFails(th, g) PROVE Goal
  BY <1>15 DEF ManualHookFails, taskVars
<1>16. ASSUME NEW th \in Thread, NEW g \in Got, ManualUnhook(th, g) PROVE Goal
  BY <1>16 DEF ManualUnhook, taskVars
<1>17. ASSUME NEW th \in Thread, Lock(th) PROVE Goal
  BY <1>17 DEF Lock, taskVars
<1>18. ASSUME NEW th \in Thread, Unlock(th) PROVE Goal
  BY <1>18 DEF Unlock, taskVars
<1>19. ASSUME NEW th \in Thread, Replace(th) PROVE Goal
  BY <1>19 DEF Replace, TreeInv, TreeOk
<1>20. ASSUME NEW th \in Thread, ReplaceFails(th) PROVE Goal
  BY <1>20 DEF ReplaceFails, taskVars
<1>21. ASSUME NEW th \in Thread, Restore(th) PROVE Goal
  BY <1>21 DEF Restore, taskVars
<1>22. ASSUME NEW th \in Thread, Finish(th) PROVE Goal
  BY <1>22 DEF Finish, taskVars
<1>23. ASSUME NEW th \in Thread, NEW t \in Task, HookBegin(th, t) PROVE Goal
  BY <1>23 DEF HookBegin, taskVars
<1>24. ASSUME NEW th \in Thread, NEW t \in Task, UnhookBegin(th, t) PROVE Goal
  BY <1>24 DEF UnhookBegin, taskVars
<1>25. ASSUME NEW th \in Thread, NEW t \in Task, NEW e \in Elf, HookElfBegin(th, t, e) PROVE Goal
  BY <1>25 DEF HookElfBegin, taskVars
<1>26. CASE UNCHANGED vars
  BY <1>26 DEF vars
<1> HIDE DEF Goal
<1> QED
  BY <1>1, <1>2, <1>3, <1>4, <1>5, <1>6, <1>7, <1>8, <1>9, <1>10, <1>11, <1>12, <1>13,
     <1>14, <1>15, <1>16, <1>17, <1>18, <1>19, <1>20, <1>21, <1>22, <1>23, <1>24, <1>25,
     <1>26
     DEF Next, Progress, ElfStep, SlotStep, Quiet

\* ManualOrigAgrees is kept.
LEMMA NextManual ==
  ASSUME TypeOK, CallInv, TreeInv, ManualOrigAgrees, [Next]_vars
  PROVE  ManualOrigAgrees'
<1> SUFFICES ASSUME mode = "MANUAL", NEW p \in patched'
             PROVE  manual_orig'[p[1]] \in {Invalid, p[3]}
  BY NextMode DEF ManualOrigAgrees
<1>1. \A q \in patched : /\ manual_orig[q[1]] \in {Invalid, q[3]}
                         /\ q[1] \in Task /\ q[3] # None
  BY HookManagerAssumption DEF ManualOrigAgrees, TypeOK
<1>2. CASE UNCHANGED <<patched, manual_orig>>
  BY <1>1, <1>2
<1>3. ASSUME NEW th \in Thread, NEW g \in Got, ManualHook(th, g)
      PROVE  manual_orig'[p[1]] \in {Invalid, p[3]}
  <2> DEFINE t == TaskOf(th)
  <2>1. /\ manual_orig' = [manual_orig EXCEPT ![t] = ManualOrigAfter(t, got[g])]
        /\ patched' = patched \cup {<<t, g, got[g]>>}
        /\ pc[th] # "idle"
    BY <1>3 DEF ManualHook, HookSlot
  <2>2. t \in Task
    BY <2>1, TaskFacts
  <2> HIDE DEF t
  <2>3. /\ manual_orig'[t] = ManualOrigAfter(t, got[g])
        /\ \A u \in Task \ {t} : manual_orig'[u] = manual_orig[u]
    BY <2>1, <2>2 DEF TypeOK
  <2>4. ManualOrigAfter(t, got[g]) \in {got[g], Invalid}
    BY DEF ManualOrigAfter
  <2>5. CASE p = <<t, g, got[g]>>
    BY <2>3, <2>4, <2>5
  <2>6. CASE p \in patched
    <3>1. CASE p[1] # t
      BY <1>1, <2>3, <2>6, <3>1
    <3>2. CASE p[1] = t
      <4>1. manual_orig[t] \in {Invalid, p[3]} /\ p[3] # None /\ Invalid # None
        BY <1>1, <2>6, <3>2, HookManagerAssumption
      <4>2. ManualOrigAfter(t, got[g]) \in {manual_orig[t], Invalid}
        BY <4>1 DEF ManualOrigAfter
      <4> QED
        BY <2>3, <3>2, <4>1, <4>2
    <3> QED
      BY <3>1, <3>2
  <2> QED
    BY <2>1, <2>5, <2>6
<1> QED
  BY <1>2, <1>3, ManualSteps

-----------------------------------------------------------------------------
(* The hooks in place                                                      *)

\* A step that leaves the tree and the slots alone, but for one slot, keeps InSlot.
LEMMA InSlotFrame ==
  ASSUME InSlot, NEW th \in Thread, Others(th),
         \A g \in Got : hooks'[g] # 0 =>
            \/ got'[g] = hooks'[g]
            \/ pc'[th] = "replace" /\ walk'[th].slot = g
            \/ /\ hooks'[g] = hooks[g] /\ got'[g] = got[g]
               /\ ~(pc[th] = "replace" /\ walk[th].slot = g)
  PROVE  InSlot'
<1> SUFFICES ASSUME NEW g \in Got, hooks'[g] # 0, got'[g] # hooks'[g],
                    ~(pc'[th] = "replace" /\ walk'[th].slot = g)
             PROVE  \E u \in Thread : pc'[u] = "replace" /\ walk'[u].slot = g
  BY DEF InSlot
<1>1. PICK u \in Thread : pc[u] = "replace" /\ walk[u].slot = g
  BY DEF InSlot
<1>2. u # th
  BY <1>1
<1> QED
  BY <1>1, <1>2 DEF Others

\* Taking the entry back for which a chain was made leaves it empty.
LEMMA FirstDel ==
  ASSUME NEW c \in Chain, NEW t \in Task, FirstEntry(c, t)
  PROVE  Enabled(HookDelFunc(c, FuncOf[t])) = {}
<1>1. FuncOf[t] \in Func
  BY HookManagerAssumption
<1>2. \A i \in Enabled(c) : c.list[i].func = FuncOf[t]
  BY DEF Enabled, FirstEntry
<1> QED
  BY <1>1, <1>2, EnabledDel

\* Without failed allocations a chain in the tree is in its slot.
LEMMA NextInSlot ==
  ASSUME TypeOK, CallInv, TreeInv, OrigInv, InSlot, "append" \notin Faults, [Next]_vars
  PROVE  InSlot'
<1>1. ASSUME NEW th \in Thread, NEW e \in Elf, HookRefused(th, e) PROVE InSlot'
  <2>1. /\ Others(th) /\ UNCHANGED <<hooks, got>> /\ pc[th] # "replace"
    BY <1>1 DEF HookRefused, NextElf, Others, chainVars, TypeOK
  <2> QED
    BY <2>1, InSlotFrame
<1>2. ASSUME NEW th \in Thread, NEW e \in Elf, FindFault(th, e) PROVE InSlot'
  <2>1. /\ Others(th) /\ UNCHANGED <<hooks, got>> /\ pc[th] # "replace"
    BY <1>2 DEF FindFault, NextElf, Others, chainVars, TypeOK
  <2> QED
    BY <2>1, InSlotFrame
<1>3. ASSUME NEW th \in Thread, NEW e \in Elf, HookCfi(th, e) PROVE InSlot'
  <2>1. /\ Others(th) /\ UNCHANGED <<hooks, got>> /\ pc[th] # "replace"
    BY <1>3 DEF HookCfi, Others, chainVars, TypeOK
  <2> QED
    BY <2>1, InSlotFrame
<1>4. ASSUME NEW th \in Thread, NEW e \in Elf, UnhookRefused(th, e) PROVE InSlot'
  <2>1. /\ Others(th) /\ UNCHANGED <<hooks, got>> /\ pc[th] # "replace"
    BY <1>4 DEF UnhookRefused, NextElf, Others, chainVars, TypeOK
  <2> QED
    BY <2>1, InSlotFrame
<1>5. ASSUME NEW th \in Thread, NEW e \in Elf, FindSlots(th, e) PROVE InSlot'
  <2>1. /\ Others(th) /\ UNCHANGED <<hooks, got>> /\ pc[th] # "replace"
    BY <1>5 DEF FindSlots, NextElf, Others, chainVars, TypeOK
  <2> QED
    BY <2>1, InSlotFrame
<1>6. ASSUME NEW th \in Thread, NEW g \in Got, ReadFault(th, g) PROVE InSlot'
  <2>1. /\ Others(th) /\ UNCHANGED <<hooks, got>> /\ pc[th] # "replace"
    BY <1>6 DEF ReadFault, SlotDone, HookSlot, UnhookSlot, Others, chainVars, TypeOK
  <2> QED
    BY <2>1, InSlotFrame
<1>7. ASSUME NEW th \in Thread, NEW g \in Got, AddFuncFound(th, g) PROVE InSlot'
  <2>1. /\ Others(th) /\ UNCHANGED <<hooks, got>> /\ pc[th] # "replace"
    BY <1>7 DEF AddFuncFound, SlotDone, HookSlot, UnhookSlot, Others, chainVars, TypeOK
  <2> QED
    BY <2>1, InSlotFrame
<1>8. ASSUME NEW th \in Thread, NEW g \in Got, AddFuncRepeated(th, g) PROVE InSlot'
  <2>1. /\ Others(th) /\ UNCHANGED <<hooks, got>> /\ pc[th] # "replace"
    BY <1>8 DEF AddFuncRepeated, SlotDone, HookSlot, UnhookSlot, Others, chainVars, TypeOK
  <2> QED
    BY <2>1, InSlotFrame
<1>9. ASSUME NEW th \in Thread, NEW g \in Got, AddFuncCreated(th, g) PROVE InSlot'
  <2>1. /\ Others(th) /\ got' = got /\ pc[th] = "slot" /\ pc'[th] = "replace"
        /\ \A h \in Got \ {g} : hooks'[h] = hooks[h]
    BY <1>9 DEF AddFuncCreated, HookSlot, Others, TypeOK
  <2>2. walk[th] \in Walk
    BY <2>1 DEF CallInv, CallOk, Walking
  <2>3. walk'[th].slot = g
    BY <1>9, <2>2 DEF AddFuncCreated, Walk, TypeOK
  <2> QED
    BY <2>1, <2>3, InSlotFrame
<1>10. ASSUME NEW th \in Thread, NEW g \in Got, CreateFails(th, g) PROVE InSlot'
  <2>1. /\ Others(th) /\ UNCHANGED <<hooks, got>> /\ pc[th] # "replace"
    BY <1>10 DEF CreateFails, SlotDone, HookSlot, UnhookSlot, Others, chainVars, TypeOK
  <2> QED
    BY <2>1, InSlotFrame
<1>11. ASSUME NEW th \in Thread, NEW g \in Got, AppendFails(th, g) PROVE InSlot'
  BY <1>11 DEF AppendFails
<1>12. ASSUME NEW th \in Thread, NEW g \in Got, DelFuncNone(th, g) PROVE InSlot'
  <2>1. /\ Others(th) /\ UNCHANGED <<hooks, got>> /\ pc[th] # "replace"
    BY <1>12 DEF DelFuncNone, SlotDone, HookSlot, UnhookSlot, Others, chainVars, TypeOK
  <2> QED
    BY <2>1, InSlotFrame
<1>13. ASSUME NEW th \in Thread, NEW g \in Got, DelFunc(th, g) PROVE InSlot'
  <2>1. /\ Others(th) /\ UNCHANGED got /\ pc[th] = "slot" /\ hooks[g] # 0
        /\ ChainDel(g, FuncOf[TaskOf(th)])
    BY <1>13 DEF DelFunc, UnhookSlot, SlotDone, Others, TypeOK
  <2>2. Dels(th, g)
    BY <2>1, ChainDelDels
  <2>3. hooks'[g] \in {0, hooks[g]} /\ \A h \in Got \ {g} : hooks'[h] = hooks[h]
    BY <2>2 DEF Dels, SetsChain
  <2> QED
    BY <2>1, <2>3, InSlotFrame
<1>14. ASSUME NEW th \in Thread, NEW g \in Got, ManualHook(th, g) PROVE InSlot'
  <2>1. UNCHANGED hooks /\ mode = "MANUAL"
    BY <1>14 DEF ManualHook
  <2> QED
    BY <2>1 DEF InSlot, TreeInv, TreeSlot
<1>15. ASSUME NEW th \in Thread, NEW g \in Got, ManualHookFails(th, g) PROVE InSlot'
  <2>1. /\ Others(th) /\ UNCHANGED <<hooks, got>> /\ pc[th] # "replace"
    BY <1>15 DEF ManualHookFails, SlotDone, HookSlot, UnhookSlot, Others, chainVars, TypeOK
  <2> QED
    BY <2>1, InSlotFrame
<1>16. ASSUME NEW th \in Thread, NEW g \in Got, ManualUnhook(th, g) PROVE InSlot'
  <2>1. UNCHANGED hooks /\ mode = "MANUAL"
    BY <1>16 DEF ManualUnhook
  <2> QED
    BY <2>1 DEF InSlot, TreeInv, TreeSlot
<1>17. ASSUME NEW th \in Thread, Lock(th) PROVE InSlot'
  <2>1. /\ Others(th) /\ UNCHANGED <<hooks, got>> /\ pc[th] # "replace"
    BY <1>17 DEF Lock, Others, chainVars, TypeOK
  <2> QED
    BY <2>1, InSlotFrame
<1>18. ASSUME NEW th \in Thread, Unlock(th) PROVE InSlot'
  <2>1. /\ Others(th) /\ UNCHANGED <<hooks, got>> /\ pc[th] # "replace"
    BY <1>18 DEF Unlock, Others, chainVars, TypeOK
  <2> QED
    BY <2>1, InSlotFrame
<1>19. ASSUME NEW th \in Thread, Replace(th) PROVE InSlot'
  <2>1. /\ Others(th) /\ UNCHANGED hooks
        /\ got' = [got EXCEPT ![walk[th].slot] = hooks[walk[th].slot]]
    BY <1>19 DEF Replace, SlotDone, Others, TypeOK
  <2> QED
    BY <2>1, InSlotFrame DEF TypeOK
<1>20. ASSUME NEW th \in Thread, ReplaceFails(th) PROVE InSlot'
  <2>1. PICK g \in Got : g = walk[th].slot
    BY <1>20 DEF ReplaceFails, CallInv, CallOk, Walking, Walk
  <2>2. /\ Others(th) /\ UNCHANGED got /\ pc[th] = "replace"
        /\ ChainDel(g, FuncOf[TaskOf(th)])
    BY <1>20, <2>1 DEF ReplaceFails, SlotDone, Others, TypeOK
  <2>3. hooks[g] # 0 /\ FirstEntry(Cur(g), TaskOf(th))
    BY <2>1, <2>2 DEF TreeInv, TreeOk
  <2>4. Cur(g) \in Chain /\ TaskOf(th) \in Task
    BY <2>2, <2>3, CurChain, TaskFacts
  <2>5. Enabled(HookDelFunc(Cur(g), FuncOf[TaskOf(th)])) = {}
    BY <2>3, <2>4, FirstDel
  <2>6. Dels(th, g)
    BY <2>2, <2>3, ChainDelDels
  <2>7. hooks'[g] = 0 /\ \A h \in Got \ {g} : hooks'[h] = hooks[h]
    BY <2>5, <2>6 DEF Dels, SetsChain
  <2> QED
    BY <2>1, <2>2, <2>7, InSlotFrame
<1>21. ASSUME NEW th \in Thread, Restore(th) PROVE InSlot'
  <2>1. /\ Others(th) /\ UNCHANGED hooks /\ pc[th] = "restore"
        /\ got' \in {got, [got EXCEPT ![walk[th].slot] = RestoreFunc(walk[th].slot)]}
    BY <1>21 DEF Restore, SlotDone, Others, TypeOK
  <2>2. hooks[walk[th].slot] = 0
    BY <2>1 DEF TreeInv, TreeOk
  <2>3. \A h \in Got : h # walk[th].slot => got'[h] = got[h]
    BY <2>1 DEF TypeOK
  <2> QED
    BY <2>1, <2>2, <2>3, InSlotFrame
<1>22. ASSUME NEW th \in Thread, Finish(th) PROVE InSlot'
  <2>1. /\ Others(th) /\ UNCHANGED <<hooks, got>> /\ pc[th] # "replace"
    BY <1>22 DEF Finish, Others, chainVars, TypeOK
  <2> QED
    BY <2>1, InSlotFrame
<1>23. ASSUME NEW th \in Thread, NEW t \in Task, HookBegin(th, t) PROVE InSlot'
  <2>1. /\ Others(th) /\ UNCHANGED <<hooks, got>> /\ pc[th] # "replace"
    BY <1>23 DEF HookBegin, Others, chainVars, TypeOK
  <2> QED
    BY <2>1, InSlotFrame
<1>24. ASSUME NEW th \in Thread, NEW t \in Task, UnhookBegin(th, t) PROVE InSlot'
  <2>1. /\ Others(th) /\ UNCHANGED <<hooks, got>> /\ pc[th] # "replace"
    BY <1>24 DEF UnhookBegin, Others, chainVars, TypeOK
  <2> QED
    BY <2>1, InSlotFrame
<1>25. ASSUME NEW th \in Thread, NEW t \in Task, NEW e \in Elf, HookElfBegin(th, t, e) PROVE InSlot'
  <2>1. /\ Others(th) /\ UNCHANGED <<hooks, got>> /\ pc[th] # "replace"
    BY <1>25 DEF HookElfBegin, Others, chainVars, TypeOK
  <2> QED
    BY <2>1, InSlotFrame
<1>26. CASE UNCHANGED vars
  BY <1>26 DEF vars, InSlot
<1> QED
  BY <1>1, <1>2, <1>3, <1>4, <1>5, <1>6, <1>7, <1>8, <1>9, <1>10, <1>11, <1>12, <1>13,
     <1>14, <1>15, <1>16, <1>17, <1>18, <1>19, <1>20, <1>21, <1>22, <1>23, <1>24, <1>25,
     <1>26
     DEF Next, Progress, ElfStep, SlotStep, Quiet

\* The proxy of t is what the slot calls.
OnSlot(t, g) == hooks[g] # 0 /\ got[g] = hooks[g] /\ Repeated(Cur(g), FuncOf[t])

\* A proxy that the slot calls stays called until its task is unhooked.
LEMMA EffectKept ==
  ASSUME TypeOK, CallInv, PhaseInv, TreeInv, OrigInv, mode = "AUTO", [Next]_vars,
         NEW t \in Task, Unshared(t), phase[t] \in {"hooking", "listed"},
         NEW g \in Got, OnSlot(t, g)
  PROVE  OnSlot(t, g)'
<1>1. /\ hooks[g] = Len(chains[g]) /\ hooks[g] \in ChainNos(g) /\ hooks[g] \in Nat
      /\ got[g] = hooks[g] /\ hooks[g] # 0 /\ Cur(g) \in Chain
  BY CurChain DEF OnSlot, TypeOK
<1>2. got'[g] = got[g]
  <2>1. got[g] \notin Mutable
    BY <1>1, HookManagerAssumption
  <2> QED
    BY <1>1, <2>1, GotSteps
<1> DEFINE Has(c) == \E i \in Enabled(c) : c.list[i].func = FuncOf[t]
<1>3. Has(Cur(g))
  BY DEF OnSlot, Repeated
<1>4. ASSUME hooks'[g] = hooks[g], Has(chains'[g][hooks[g]]) PROVE OnSlot(t, g)'
  BY <1>1, <1>2, <1>4 DEF OnSlot, Repeated, Cur, Enabled
<1> HIDE DEF Has
<1>5. CASE UNCHANGED <<chains, hooks>>
  BY <1>3, <1>4, <1>5 DEF Cur
<1>6. ASSUME NEW th \in Thread, NEW h \in Got, NEW n \in Nat, NEW b \in Chain,
             Adding(th, h), AddsTo(th, h, n, b)
      PROVE  OnSlot(t, g)'
  <2> DEFINE c == HookAddFunc(b, FuncOf[TaskOf(th)], TaskOf(th))
  <2>1. SetsChain(h, n, c) /\ TaskOf(th) \in Task
    BY <1>6, TaskFacts DEF AddsTo, Adding
  <2>2. Has(b) => Has(c)
    BY <2>1, EnabledAdd DEF Has
  <2> HIDE DEF c
  <2>3. CASE g = h
    <3>1. n = hooks[g] /\ b = Cur(g) /\ hooks'[g] = hooks[g]
      BY <1>1, <1>6, <2>3 DEF AddsTo
    <3> QED
      BY <1>3, <1>4, <2>1, <2>2, <2>3, <3>1 DEF SetsChain
  <2>4. CASE g # h
    BY <1>3, <1>4, <2>1, <2>4 DEF SetsChain, Cur
  <2> QED
    BY <2>3, <2>4
<1>7. ASSUME NEW h \in Got, AddsNone(h) PROVE OnSlot(t, g)'
  BY <1>1, <1>3, <1>4, <1>7 DEF AddsNone, SetsChain, Cur
<1>8. ASSUME NEW th \in Thread, NEW h \in Got, Removing(th, h), Dels(th, h)
      PROVE  OnSlot(t, g)'
  <2> DEFINE u == TaskOf(th)
             c == HookDelFunc(Cur(h), FuncOf[u])
  <2>1. SetsChain(h, hooks[h], c) /\ hooks'[h] = IF Enabled(c) = {} THEN 0 ELSE hooks[h]
    BY <1>8 DEF Dels
  <2>2. u \in Task /\ FuncOf[u] \in Func
    BY <1>8, TaskFacts DEF Removing
  <2>3. CASE g # h
    BY <1>3, <1>4, <2>1, <2>3 DEF SetsChain, Cur
  <2>4. CASE g = h /\ u = t
    <3>1. job[th].op # "unhook"
      BY <1>8, <2>4 DEF PhaseInv, PhaseOk, Removing
    <3>2. pc[th] = "replace" /\ g = walk[th].slot
      BY <1>8, <2>4, <3>1 DEF Removing
    <3>3. Cur(g).orig = hooks[g]
      BY <1>1, <3>2 DEF TreeInv, TreeOk
    <3>4. \/ Cur(g).orig = OrigOf[g]
          \/ Cur(g).orig < hooks[g]
      BY <1>1 DEF OrigInv, Cur
    <3>5. OrigOf[g] \notin Nat
      BY HookManagerAssumption DEF Mutable
    <3> QED
      BY <1>1, <3>3, <3>4, <3>5
  <2>5. CASE g = h /\ u # t
    <3>1. FuncOf[u] # FuncOf[t]
      BY <2>2, <2>5 DEF Unshared
    <3>2. Has(c)
      BY <1>1, <1>3, <2>2, <2>5, <3>1, EnabledDel DEF Has
    <3>3. Enabled(c) # {}
      BY <3>2 DEF Has
    <3> HIDE DEF c
    <3> QED
      BY <1>4, <2>1, <2>5, <3>2, <3>3 DEF SetsChain
  <2> QED
    BY <2>3, <2>4, <2>5
<1> QED
  BY <1>5, <1>6, <1>7, <1>8, ChainSteps

\* A task that can be applied came from being new, hooking or listed.
LEMMA PhaseSteps ==
  ASSUME TypeOK, CallInv, PhaseInv, [Next]_vars, NEW x \in Task,
         phase'[x] \in {"hooking", "listed"}
  PROVE  phase[x] \in {"new", "hooking", "listed"}
<1> DEFINE Goal == phase[x] \in {"new", "hooking", "listed"}
<1> SUFFICES Goal
  OBVIOUS
<1>1. ASSUME NEW th \in Thread, NEW e \in Elf, HookRefused(th, e) PROVE Goal
  BY <1>1 DEF HookRefused, taskVars
<1>2. ASSUME NEW th \in Thread, NEW e \in Elf, FindFault(th, e) PROVE Goal
  BY <1>2 DEF FindFault, taskVars
<1>3. ASSUME NEW th \in Thread, NEW e \in Elf, HookCfi(th, e) PROVE Goal
  BY <1>3 DEF HookCfi, taskVars
<1>4. ASSUME NEW th \in Thread, NEW e \in Elf, UnhookRefused(th, e) PROVE Goal
  BY <1>4 DEF UnhookRefused, taskVars
<1>5. ASSUME NEW th \in Thread, NEW e \in Elf, FindSlots(th, e) PROVE Goal
  BY <1>5 DEF FindSlots, taskVars
<1>6. ASSUME NEW th \in Thread, NEW g \in Got, ReadFault(th, g) PROVE Goal
  BY <1>6 DEF ReadFault, taskVars
<1>7. ASSUME NEW th \in Thread, NEW g \in Got, AddFuncFound(th, g) PROVE Goal
  BY <1>7 DEF AddFuncFound, taskVars
<1>8. ASSUME NEW th \in Thread, NEW g \in Got, AddFuncRepeated(th, g) PROVE Goal
  BY <1>8 DEF AddFuncRepeated, taskVars
<1>9. ASSUME NEW th \in Thread, NEW g \in Got, AddFuncCreated(th, g) PROVE Goal
  BY <1>9 DEF AddFuncCreated, taskVars
<1>10. ASSUME NEW th \in Thread, NEW g \in Got, CreateFails(th, g) PROVE Goal
  BY <1>10 DEF CreateFails, taskVars
<1>11. ASSUME NEW th \in Thread, NEW g \in Got, AppendFails(th, g) PROVE Goal
  BY <1>11 DEF AppendFails, taskVars
<1>12. ASSUME NEW th \in Thread, NEW g \in Got, DelFuncNone(th, g) PROVE Goal
  BY <1>12 DEF DelFuncNone, taskVars
<1>13. ASSUME NEW th \in Thread, NEW g \in Got, DelFunc(th, g) PROVE Goal
  BY <1>13 DEF DelFunc, taskVars
<1>14. ASSUME NEW th \in Thread, NEW g \in Got, ManualHook(th, g) PROVE Goal
  BY <1>14 DEF ManualHook, taskVars
<1>15. ASSUME NEW th \in Thread, NEW g \in Got, ManualHookFails(th, g) PROVE Goal
  BY <1>15 DEF ManualHookFails, taskVars
<1>16. ASSUME NEW th \in Thread, NEW g \in Got, ManualUnhook(th, g) PROVE Goal
  BY <1>16 DEF ManualUnhook, taskVars
<1>17. ASSUME NEW th \in Thread, Lock(th) PROVE Goal
  BY <1>17 DEF Lock, taskVars
<1>18. ASSUME NEW th \in Thread, Unlock(th) PROVE Goal
  BY <1>18 DEF Unlock, taskVars
<1>19. ASSUME NEW th \in Thread, Replace(th) PROVE Goal
  BY <1>19 DEF Replace, taskVars
<1>20. ASSUME NEW th \in Thread, ReplaceFails(th) PROVE Goal
  BY <1>20 DEF ReplaceFails, taskVars
<1>21. ASSUME NEW th \in Thread, Restore(th) PROVE Goal
  BY <1>21 DEF Restore, taskVars
<1>22. ASSUME NEW th \in Thread, Finish(th) PROVE Goal
  <2>1. /\ pc[th] # "idle"
        /\ phase' = [phase EXCEPT ![TaskOf(th)] =
                        CASE job[th].op = "unhook" -> "gone"
                          [] job[th].op = "hook"   -> "listed"
                          [] OTHER                 -> @]
    BY <1>22 DEF Finish
  <2>2. TaskOf(th) # x => phase'[x] = phase[x]
    BY <2>1 DEF TypeOK
  <2>3. TaskOf(th) = x => phase'[x] = CASE job[th].op = "unhook" -> "gone"
                                        [] job[th].op = "hook"   -> "listed"
                                        [] OTHER                 -> phase[x]
    BY <2>1 DEF TypeOK
  <2>4. job[th].op = "hook" => phase[TaskOf(th)] = "hooking"
    BY <2>1 DEF PhaseInv, PhaseOk
  <2> QED
    BY <2>1, <2>2, <2>3, <2>4
<1>23. ASSUME NEW th \in Thread, NEW t \in Task, HookBegin(th, t) PROVE Goal
  BY <1>23 DEF HookBegin, TypeOK
<1>24. ASSUME NEW th \in Thread, NEW t \in Task, UnhookBegin(th, t) PROVE Goal
  <2>1. phase[t] = "listed" /\ \E v \in {"gone", "unhooking"} : phase' = [phase EXCEPT ![t] = v]
    BY <1>24 DEF UnhookBegin
  <2> QED
    BY <2>1 DEF TypeOK
<1>25. ASSUME NEW th \in Thread, NEW t \in Task, NEW e \in Elf, HookElfBegin(th, t, e) PROVE Goal
  BY <1>25 DEF HookElfBegin, taskVars
<1>26. CASE UNCHANGED vars
  BY <1>26 DEF vars
<1> HIDE DEF Goal
<1> QED
  BY <1>1, <1>2, <1>3, <1>4, <1>5, <1>6, <1>7, <1>8, <1>9, <1>10, <1>11, <1>12, <1>13,
     <1>14, <1>15, <1>16, <1>17, <1>18, <1>19, <1>20, <1>21, <1>22, <1>23, <1>24, <1>25,
     <1>26
     DEF Next, Progress, ElfStep, SlotStep, Quiet

\* The steps that report a slot hooked.
LEMMA PatchedSteps ==
  ASSUME TypeOK, CallInv, TreeInv, [Next]_vars
  PROVE  \/ patched' = patched
         \/ mode = "MANUAL" /\ \E th \in Thread, g \in Got : ManualHook(th, g)
         \/ \E th \in Thread, g \in Got : AddFuncFound(th, g)
         \/ \E th \in Thread : Replace(th)
<1> DEFINE Goal ==
         \/ patched' = patched
         \/ mode = "MANUAL" /\ \E th \in Thread, g \in Got : ManualHook(th, g)
         \/ \E th \in Thread, g \in Got : AddFuncFound(th, g)
         \/ \E th \in Thread : Replace(th)
<1> SUFFICES Goal
  OBVIOUS
<1>1. ASSUME NEW th \in Thread, NEW e \in Elf, HookRefused(th, e) PROVE Goal
  BY <1>1 DEF HookRefused
<1>2. ASSUME NEW th \in Thread, NEW e \in Elf, FindFault(th, e) PROVE Goal
  BY <1>2 DEF FindFault
<1>3. ASSUME NEW th \in Thread, NEW e \in Elf, HookCfi(th, e) PROVE Goal
  BY <1>3 DEF HookCfi
<1>4. ASSUME NEW th \in Thread, NEW e \in Elf, UnhookRefused(th, e) PROVE Goal
  BY <1>4 DEF UnhookRefused
<1>5. ASSUME NEW th \in Thread, NEW e \in Elf, FindSlots(th, e) PROVE Goal
  BY <1>5 DEF FindSlots
<1>6. ASSUME NEW th \in Thread, NEW g \in Got, ReadFault(th, g) PROVE Goal
  BY <1>6 DEF ReadFault
<1>7. ASSUME NEW th \in Thread, NEW g \in Got, AddFuncFound(th, g) PROVE Goal
  BY <1>7
<1>8. ASSUME NEW th \in Thread, NEW g \in Got, AddFuncRepeated(th, g) PROVE Goal
  BY <1>8 DEF AddFuncRepeated
<1>9. ASSUME NEW th \in Thread, NEW g \in Got, AddFuncCreated(th, g) PROVE Goal
  BY <1>9 DEF AddFuncCreated
<1>10. ASSUME NEW th \in Thread, NEW g \in Got, CreateFails(th, g) PROVE Goal
  BY <1>10 DEF CreateFails
<1>11. ASSUME NEW th \in Thread, NEW g \in Got, AppendFails(th, g) PROVE Goal
  BY <1>11 DEF AppendFails
<1>12. ASSUME NEW th \in Thread, NEW g \in Got, DelFuncNone(th, g) PROVE Goal
  BY <1>12 DEF DelFuncNone
<1>13. ASSUME NEW th \in Thread, NEW g \in Got, DelFunc(th, g) PROVE Goal
  BY <1>13 DEF DelFunc
<1>14. ASSUME NEW th \in Thread, NEW g \in Got, ManualHook(th, g) PROVE Goal
  BY <1>14 DEF ManualHook
<1>15. ASSUME NEW th \in Thread, NEW g \in Got, ManualHookFails(th, g) PROVE Goal
  BY <1>15 DEF ManualHookFails
<1>16. ASSUME NEW th \in Thread, NEW g \in Got, ManualUnhook(th, g) PROVE Goal
  BY <1>16 DEF ManualUnhook
<1>17. ASSUME NEW th \in Thread, Lock(th) PROVE Goal
  BY <1>17 DEF Lock
<1>18. ASSUME NEW th \in Thread, Unlock(th) PROVE Goal
  BY <1>18 DEF Unlock
<1>19. ASSUME NEW th \in Thread, Replace(th) PROVE Goal
  BY <1>19
<1>20. ASSUME NEW th \in Thread, ReplaceFails(th) PROVE Goal
  BY <1>20 DEF ReplaceFails
<1>21. ASSUME NEW th \in Thread, Restore(th) PROVE Goal
  BY <1>21 DEF Restore
<1>22. ASSUME NEW th \in Thread, Finish(th) PROVE Goal
  BY <1>22 DEF Finish
<1>23. ASSUME NEW th \in Thread, NEW t \in Task, HookBegin(th, t) PROVE Goal
  BY <1>23 DEF HookBegin
<1>24. ASSUME NEW th \in Thread, NEW t \in Task, UnhookBegin(th, t) PROVE Goal
  BY <1>24 DEF UnhookBegin
<1>25. ASSUME NEW th \in Thread, NEW t \in Task, NEW e \in Elf, HookElfBegin(th, t, e) PROVE Goal
  BY <1>25 DEF HookElfBegin
<1>26. CASE UNCHANGED vars
  BY <1>26 DEF vars
<1> HIDE DEF Goal
<1> QED
  BY <1>1, <1>2, <1>3, <1>4, <1>5, <1>6, <1>7, <1>8, <1>9, <1>10, <1>11, <1>12, <1>13,
     <1>14, <1>15, <1>16, <1>17, <1>18, <1>19, <1>20, <1>21, <1>22, <1>23, <1>24, <1>25,
     <1>26
     DEF Next, Progress, ElfStep, SlotStep, Quiet

\* A task that patched a slot has begun.
LEMMA NextPatched ==
  ASSUME TypeOK, CallInv, PhaseInv, TreeInv, PatchedNotNew, [Next]_vars
  PROVE  PatchedNotNew'
<1> SUFFICES ASSUME NEW p \in patched' PROVE phase'[p[1]] # "new"
  BY DEF PatchedNotNew
<1>1. CASE p \in patched
  BY <1>1, NewPhase DEF PatchedNotNew, TypeOK
<1>2. CASE p \notin patched
  <2>1. \E th \in Thread : pc[th] # "idle" /\ p[1] = TaskOf(th)
    <3>1. ASSUME NEW th \in Thread, NEW g \in Got, ManualHook(th, g)
          PROVE  pc[th] # "idle" /\ p[1] = TaskOf(th)
      BY <1>2, <3>1 DEF ManualHook, HookSlot
    <3>2. ASSUME NEW th \in Thread, NEW g \in Got, AddFuncFound(th, g)
          PROVE  pc[th] # "idle" /\ p[1] = TaskOf(th)
      BY <1>2, <3>2 DEF AddFuncFound, HookSlot
    <3>3. ASSUME NEW th \in Thread, Replace(th)
          PROVE  pc[th] # "idle" /\ p[1] = TaskOf(th)
      BY <1>2, <3>3 DEF Replace
    <3> QED
      BY <1>2, <3>1, <3>2, <3>3, PatchedSteps
  <2> QED
    BY <2>1, CallPhase, TaskFacts, NewPhase
<1> QED
  BY <1>1, <1>2

\* HookTakesEffect is kept.
LEMMA NextEffect ==
  ASSUME TypeOK, CallInv, PhaseInv, TreeInv, OrigInv, InSlot, PatchedNotNew,
         HookTakesEffect, [Next]_vars
  PROVE  HookTakesEffect'
<1> SUFFICES ASSUME mode = "AUTO", NEW p \in patched', Unshared(p[1]),
                    phase'[p[1]] \in {"hooking", "listed"}
             PROVE  OnSlot(p[1], p[2])'
  BY NextMode DEF HookTakesEffect, OnSlot
<1>1. CASE p \in patched
  <2>1. p[1] \in Task /\ p[2] \in Got /\ phase[p[1]] # "new"
    BY <1>1 DEF TypeOK, PatchedNotNew
  <2>2. phase[p[1]] \in {"hooking", "listed"}
    BY <2>1, PhaseSteps
  <2>3. OnSlot(p[1], p[2])
    BY <1>1, <2>2 DEF HookTakesEffect, OnSlot
  <2>4. ASSUME NEW t \in Task, NEW g \in Got, t = p[1], g = p[2] PROVE OnSlot(t, g)'
    BY <2>2, <2>3, <2>4, EffectKept
  <2> QED
    BY <2>1, <2>4
<1>2. ASSUME NEW th \in Thread, NEW g \in Got, AddFuncFound(th, g), p \notin patched
      PROVE  OnSlot(p[1], p[2])'
  <2>1. /\ p[1] = TaskOf(th) /\ p[2] = g /\ hooks[g] # 0 /\ pc[th] = "slot"
        /\ g \in walk[th].todo /\ UNCHANGED got
    BY <1>2 DEF AddFuncFound, HookSlot
  <2>2. Cur(g) \in Chain /\ TaskOf(th) \in Task
    BY <2>1, CurChain, TaskFacts
  <2>3. /\ hooks'[g] = hooks[g]
        /\ chains'[g][hooks[g]] = HookAddFunc(Cur(g), FuncOf[TaskOf(th)], TaskOf(th))
    BY <1>2, AddFuncFoundAdds DEF AddsTo, SetsChain
  <2>4. \E i \in Enabled(chains'[g][hooks[g]]) :
           chains'[g][hooks[g]].list[i].func = FuncOf[TaskOf(th)]
    BY <2>2, <2>3, EnabledAdd
  <2>5. got[g] = hooks[g]
    <3>1. ASSUME NEW u \in Thread, pc[u] = "replace", walk[u].slot = g PROVE FALSE
      <4>1. g \in walk[u].todo
        BY <3>1 DEF CallInv, CallOk
      <4> QED
        BY <2>1, <3>1, <4>1, OneAtASlot DEF Holding
    <3> QED
      BY <2>1, <3>1 DEF InSlot
  <2> QED
    BY <2>1, <2>3, <2>4, <2>5 DEF OnSlot, Repeated, Cur, Enabled
<1>3. ASSUME NEW th \in Thread, Replace(th), p \notin patched
      PROVE  OnSlot(p[1], p[2])'
  <2>1. PICK g \in Got : g = walk[th].slot
    BY <1>3 DEF Replace, CallInv, CallOk, Walking, Walk
  <2>2. /\ p[1] = TaskOf(th) /\ p[2] = g /\ pc[th] = "replace"
        /\ UNCHANGED <<chains, hooks>> /\ got'[g] = hooks[g]
    BY <1>3, <2>1 DEF Replace, TypeOK
  <2>3. hooks[g] # 0 /\ FirstEntry(Cur(g), TaskOf(th))
    BY <2>1, <2>2 DEF TreeInv, TreeOk
  <2>4. Repeated(Cur(g), FuncOf[TaskOf(th)])
    BY <2>3 DEF FirstEntry, Repeated, Enabled
  <2> QED
    BY <2>2, <2>3, <2>4 DEF OnSlot, Repeated, Cur, Enabled
<1> QED
  BY <1>1, <1>2, <1>3, PatchedSteps

-----------------------------------------------------------------------------
(* The types                                                               *)

\* The types of what TaskHooked, NextElf, SlotDone and the choice of a slot change.
LEMMA TaskHookedType ==
  ASSUME TypeOK, NEW t \in Task, NEW c \in Codes, TaskHooked(t, c)
  PROVE  code' \in [Task -> Codes]
  BY DEF TypeOK, TaskHooked

\* ... the ELFs that are left,
LEMMA NextElfType ==
  ASSUME TypeOK, CallInv, NEW th \in Thread, NEW e \in Elf, pc[th] = "elf",
         job' = NextElf(th, e)
  PROVE  job' \in [Thread -> Job \cup {None}]
<1>1. job[th] \in Job
  BY DEF CallInv, CallOk
<1>2. [job[th] EXCEPT !.elfs = @ \ {e}] \in Job
  BY <1>1 DEF Job
<1>3. job' = [job EXCEPT ![th] = [job[th] EXCEPT !.elfs = @ \ {e}]]
  BY DEF NextElf
<1> QED
  BY <1>2, <1>3 DEF TypeOK

\* ... the slots that are left,
LEMMA SlotDoneType ==
  ASSUME TypeOK, CallInv, NEW th \in Thread, NEW g, NEW r \in BOOLEAN,
         pc[th] \in Holding, SlotDone(th, g, r)
  PROVE  /\ pc' \in [Thread -> {"idle", "elf", "lock", "slot", "replace", "restore"}]
         /\ walk' \in [Thread -> Walk \cup {None}]
<1>1. walk[th] \in Walk
  BY DEF CallInv, CallOk, Walking, Holding
<1>2. walk'[th] \in Walk
  BY <1>1, SlotDoneWalk
<1> QED
  BY <1>2 DEF SlotDone, TypeOK

\* ... the slot at hand.
LEMMA PickSlotType ==
  ASSUME TypeOK, CallInv, NEW th \in Thread, NEW g \in Got, pc[th] \in Holding,
         walk' = [walk EXCEPT ![th].slot = g]
  PROVE  walk' \in [Thread -> Walk \cup {None}]
<1>1. walk[th] \in Walk
  BY DEF CallInv, CallOk, Walking, Holding
<1>2. [walk[th] EXCEPT !.slot = g] \in Walk
  BY <1>1 DEF Walk
<1> QED
  BY <1>2 DEF TypeOK

\* The calls.
LEMMA CallType ==
  ASSUME TypeOK, CallInv, PhaseInv, [Next]_vars
  PROVE  /\ pc' \in [Thread -> {"idle", "elf", "lock", "slot", "replace", "restore"}]
         /\ job' \in [Thread -> Job \cup {None}]
         /\ walk' \in [Thread -> Walk \cup {None}]
<1> DEFINE Goal ==
         /\ pc' \in [Thread -> {"idle", "elf", "lock", "slot", "replace", "restore"}]
         /\ job' \in [Thread -> Job \cup {None}]
         /\ walk' \in [Thread -> Walk \cup {None}]
<1> SUFFICES Goal
  OBVIOUS
<1>1. ASSUME NEW th \in Thread, NEW e \in Elf, HookRefused(th, e) PROVE Goal
  BY <1>1, NextElfType DEF HookRefused, TypeOK
<1>2. ASSUME NEW th \in Thread, NEW e \in Elf, FindFault(th, e) PROVE Goal
  BY <1>2, NextElfType DEF FindFault, TypeOK
<1>3. ASSUME NEW th \in Thread, NEW e \in Elf, HookCfi(th, e) PROVE Goal
  BY <1>3 DEF HookCfi, TypeOK
<1>4. ASSUME NEW th \in Thread, NEW e \in Elf, UnhookRefused(th, e) PROVE Goal
  BY <1>4, NextElfType DEF UnhookRefused, TypeOK
<1>5. ASSUME NEW th \in Thread, NEW e \in Elf, FindSlots(th, e) PROVE Goal
  <2>1. PICK found \in SUBSET GotsOf[e] :
          walk' = [walk EXCEPT ![th] = [elf |-> e, todo |-> found, slot |-> None, ok |-> TRUE]]
    BY <1>5 DEF FindSlots, FindAllGot
  <2>2. [elf |-> e, todo |-> found, slot |-> None, ok |-> TRUE] \in Walk
    BY HookManagerAssumption DEF Walk
  <2>3. walk' \in [Thread -> Walk \cup {None}]
    BY <2>1, <2>2 DEF TypeOK
  <2>4. job' = NextElf(th, e) /\ pc[th] = "elf" /\ pc' = [pc EXCEPT ![th] = "lock"]
    BY <1>5 DEF FindSlots
  <2> QED
    BY <2>3, <2>4, NextElfType DEF TypeOK
<1>6. ASSUME NEW th \in Thread, NEW g \in Got, ReadFault(th, g) PROVE Goal
  <2>1. pc[th] \in Holding /\ UNCHANGED job
    BY <1>6 DEF ReadFault, UnhookSlot, HookSlot, Holding, taskVars
  <2>2. PICK r \in BOOLEAN : SlotDone(th, g, r)
    BY <1>6 DEF ReadFault
  <2> QED
    BY <2>1, <2>2, SlotDoneType DEF TypeOK
<1>7. ASSUME NEW th \in Thread, NEW g \in Got, AddFuncFound(th, g) PROVE Goal
  <2>1. pc[th] \in Holding /\ UNCHANGED job
    BY <1>7 DEF AddFuncFound, UnhookSlot, HookSlot, Holding, taskVars
  <2>2. PICK r \in BOOLEAN : SlotDone(th, g, r)
    BY <1>7 DEF AddFuncFound
  <2> QED
    BY <2>1, <2>2, SlotDoneType DEF TypeOK
<1>8. ASSUME NEW th \in Thread, NEW g \in Got, AddFuncRepeated(th, g) PROVE Goal
  <2>1. pc[th] \in Holding /\ UNCHANGED job
    BY <1>8 DEF AddFuncRepeated, UnhookSlot, HookSlot, Holding, taskVars
  <2>2. PICK r \in BOOLEAN : SlotDone(th, g, r)
    BY <1>8 DEF AddFuncRepeated
  <2> QED
    BY <2>1, <2>2, SlotDoneType DEF TypeOK
<1>9. ASSUME NEW th \in Thread, NEW g \in Got, AddFuncCreated(th, g) PROVE Goal
  <2>1. /\ pc[th] \in Holding /\ UNCHANGED job /\ pc' = [pc EXCEPT ![th] = "replace"]
        /\ walk' = [walk EXCEPT ![th].slot = g]
    BY <1>9 DEF AddFuncCreated, HookSlot, Holding
  <2> QED
    BY <2>1, PickSlotType DEF TypeOK
<1>10. ASSUME NEW th \in Thread, NEW g \in Got, CreateFails(th, g) PROVE Goal
  <2>1. pc[th] \in Holding /\ UNCHANGED job
    BY <1>10 DEF CreateFails, UnhookSlot, HookSlot, Holding, taskVars
  <2>2. PICK r \in BOOLEAN : SlotDone(th, g, r)
    BY <1>10 DEF CreateFails
  <2> QED
    BY <2>1, <2>2, SlotDoneType DEF TypeOK
<1>11. ASSUME NEW th \in Thread, NEW g \in Got, AppendFails(th, g) PROVE Goal
  <2>1. pc[th] \in Holding /\ UNCHANGED job
    BY <1>11 DEF AppendFails, UnhookSlot, HookSlot, Holding, taskVars
  <2>2. PICK r \in BOOLEAN : SlotDone(th, g, r)
    BY <1>11 DEF AppendFails
  <2> QED
    BY <2>1, <2>2, SlotDoneType DEF TypeOK
<1>12. ASSUME NEW th \in Thread, NEW g \in Got, DelFuncNone(th, g) PROVE Goal
  <2>1. pc[th] \in Holding /\ UNCHANGED job
    BY <1>12 DEF DelFuncNone, UnhookSlot, HookSlot, Holding, taskVars
  <2>2. PICK r \in BOOLEAN : SlotDone(th, g, r)
    BY <1>12 DEF DelFuncNone
  <2> QED
    BY <2>1, <2>2, SlotDoneType DEF TypeOK
<1>13. ASSUME NEW th \in Thread, NEW g \in Got, DelFunc(th, g) PROVE Goal
  <2>1. pc[th] \in Holding /\ UNCHANGED job
    BY <1>13 DEF DelFunc, UnhookSlot, Holding
  <2>2. CASE pc' = [pc EXCEPT ![th] = "restore"] /\ walk' = [walk EXCEPT ![th].slot = g]
    BY <2>1, <2>2, PickSlotType DEF TypeOK
  <2>3. CASE SlotDone(th, g, TRUE)
    BY <2>1, <2>3, SlotDoneType DEF TypeOK
  <2> QED
    BY <1>13, <2>2, <2>3 DEF DelFunc
<1>14. ASSUME NEW th \in Thread, NEW g \in Got, ManualHook(th, g) PROVE Goal
  <2>1. pc[th] \in Holding /\ UNCHANGED job
    BY <1>14 DEF ManualHook, UnhookSlot, HookSlot, Holding, taskVars
  <2>2. PICK r \in BOOLEAN : SlotDone(th, g, r)
    BY <1>14 DEF ManualHook
  <2> QED
    BY <2>1, <2>2, SlotDoneType DEF TypeOK
<1>15. ASSUME NEW th \in Thread, NEW g \in Got, ManualHookFails(th, g) PROVE Goal
  <2>1. pc[th] \in Holding /\ UNCHANGED job
    BY <1>15 DEF ManualHookFails, UnhookSlot, HookSlot, Holding, taskVars
  <2>2. PICK r \in BOOLEAN : SlotDone(th, g, r)
    BY <1>15 DEF ManualHookFails
  <2> QED
    BY <2>1, <2>2, SlotDoneType DEF TypeOK
<1>16. ASSUME NEW th \in Thread, NEW g \in Got, ManualUnhook(th, g) PROVE Goal
  <2>1. pc[th] \in Holding /\ UNCHANGED job
    BY <1>16 DEF ManualUnhook, UnhookSlot, HookSlot, Holding, taskVars
  <2>2. PICK r \in BOOLEAN : SlotDone(th, g, r)
    BY <1>16 DEF ManualUnhook
  <2> QED
    BY <2>1, <2>2, SlotDoneType DEF TypeOK
<1>17. ASSUME NEW th \in Thread, Lock(th) PROVE Goal
  BY <1>17 DEF Lock, TypeOK
<1>18. ASSUME NEW th \in Thread, Unlock(th) PROVE Goal
  BY <1>18 DEF Unlock, TypeOK
<1>19. ASSUME NEW th \in Thread, Replace(th) PROVE Goal
  <2>1. pc[th] \in Holding /\ UNCHANGED job
    BY <1>19 DEF Replace, UnhookSlot, HookSlot, Holding, taskVars
  <2>2. PICK r \in BOOLEAN : SlotDone(th, walk[th].slot, r)
    BY <1>19 DEF Replace
  <2> QED
    BY <2>1, <2>2, SlotDoneType DEF TypeOK
<1>20. ASSUME NEW th \in Thread, ReplaceFails(th) PROVE Goal
  <2>1. pc[th] \in Holding /\ UNCHANGED job
    BY <1>20 DEF ReplaceFails, UnhookSlot, HookSlot, Holding, taskVars
  <2>2. PICK r \in BOOLEAN : SlotDone(th, walk[th].slot, r)
    BY <1>20 DEF ReplaceFails
  <2> QED
    BY <2>1, <2>2, SlotDoneType DEF TypeOK
<1>21. ASSUME NEW th \in Thread, Restore(th) PROVE Goal
  <2>1. pc[th] \in Holding /\ UNCHANGED job
    BY <1>21 DEF Restore, UnhookSlot, HookSlot, Holding, taskVars
  <2>2. PICK r \in BOOLEAN : SlotDone(th, walk[th].slot, r)
    BY <1>21 DEF Restore
  <2> QED
    BY <2>1, <2>2, SlotDoneType DEF TypeOK
<1>22. ASSUME NEW th \in Thread, Finish(th) PROVE Goal
  BY <1>22 DEF Finish, TypeOK
<1>23. ASSUME NEW th \in Thread, NEW t \in Task, HookBegin(th, t) PROVE Goal
  BY <1>23, HookManagerAssumption DEF HookBegin, Job, TypeOK
<1>24. ASSUME NEW th \in Thread, NEW t \in Task, UnhookBegin(th, t) PROVE Goal
  <2>1. CASE UNCHANGED <<pc, job>>
    BY <1>24, <2>1 DEF UnhookBegin, TypeOK
  <2>2. CASE /\ pc' = [pc EXCEPT ![th] = "elf"]
             /\ job' = [job EXCEPT ![th] =
                          [task |-> t, op |-> "unhook", elfs |-> ScopeOf[t]]]
    <3>1. UNCHANGED walk
      BY <1>24 DEF UnhookBegin
    <3> QED
      BY <2>2, <3>1, HookManagerAssumption DEF Job, TypeOK
  <2> QED
    BY <1>24, <2>1, <2>2 DEF UnhookBegin
<1>25. ASSUME NEW th \in Thread, NEW t \in Task, NEW e \in Elf, HookElfBegin(th, t, e) PROVE Goal
  BY <1>25, HookManagerAssumption DEF HookElfBegin, Job, TypeOK
<1>26. CASE UNCHANGED vars
  BY <1>26 DEF vars, TypeOK
<1> HIDE DEF Goal
<1> QED
  BY <1>1, <1>2, <1>3, <1>4, <1>5, <1>6, <1>7, <1>8, <1>9, <1>10, <1>11, <1>12, <1>13,
     <1>14, <1>15, <1>16, <1>17, <1>18, <1>19, <1>20, <1>21, <1>22, <1>23, <1>24, <1>25,
     <1>26
     DEF Next, Progress, ElfStep, SlotStep, Quiet

\* The tasks and the ELFs.
LEMMA TaskType ==
  ASSUME TypeOK, CallInv, [Next]_vars
  PROVE  /\ error' \in [Elf -> BOOLEAN]
         /\ cfi' \in [Elf -> {"no", "ok", "failed"}]
         /\ hook_lock' \in [Elf -> Thread \cup {None}]
         /\ phase' \in [Task -> {"new", "hooking", "listed", "unhooking", "gone"}]
         /\ posts' \in 0..MaxPosts
         /\ code' \in [Task -> Codes]
<1> DEFINE Goal ==
         /\ error' \in [Elf -> BOOLEAN]
         /\ cfi' \in [Elf -> {"no", "ok", "failed"}]
         /\ hook_lock' \in [Elf -> Thread \cup {None}]
         /\ phase' \in [Task -> {"new", "hooking", "listed", "unhooking", "gone"}]
         /\ posts' \in 0..MaxPosts
         /\ code' \in [Task -> Codes]
<1> SUFFICES Goal
  OBVIOUS
<1>1. ASSUME NEW th \in Thread, NEW e \in Elf, HookRefused(th, e) PROVE Goal
  <2>1. TaskOf(th) \in Task
    BY <1>1, TaskFacts DEF HookRefused, HookSlot, UnhookSlot
  <2>2. code' \in [Task -> Codes]
    BY <1>1, <2>1, TaskHookedType DEF HookRefused, Codes
  <2>3. error' \in [Elf -> BOOLEAN]
    BY <1>1 DEF HookRefused, ErrorAfter, TypeOK
  <2> QED
    BY <1>1, <2>2, <2>3 DEF HookRefused, taskVars, TypeOK
<1>2. ASSUME NEW th \in Thread, NEW e \in Elf, FindFault(th, e) PROVE Goal
  <2>1. TaskOf(th) \in Task
    BY <1>2, TaskFacts DEF FindFault, HookSlot, UnhookSlot
  <2>2. code' \in [Task -> Codes]
    BY <1>2, <2>1, TaskHookedType DEF FindFault, Codes
  <2>3. error' \in [Elf -> BOOLEAN]
    BY <1>2 DEF FindFault, ErrorAfter, TypeOK
  <2> QED
    BY <1>2, <2>2, <2>3 DEF FindFault, taskVars, TypeOK
<1>3. ASSUME NEW th \in Thread, NEW e \in Elf, HookCfi(th, e) PROVE Goal
  BY <1>3 DEF HookCfi, taskVars, TypeOK
<1>4. ASSUME NEW th \in Thread, NEW e \in Elf, UnhookRefused(th, e) PROVE Goal
  BY <1>4 DEF UnhookRefused, taskVars, TypeOK
<1>5. ASSUME NEW th \in Thread, NEW e \in Elf, FindSlots(th, e) PROVE Goal
  BY <1>5 DEF FindSlots, taskVars, TypeOK
<1>6. ASSUME NEW th \in Thread, NEW g \in Got, ReadFault(th, g) PROVE Goal
  <2>1. TaskOf(th) \in Task
    BY <1>6, TaskFacts DEF ReadFault, HookSlot, UnhookSlot
  <2>2. code' \in [Task -> Codes]
    BY <1>6, <2>1, TaskHookedType DEF ReadFault, Codes
  <2>3. error' \in [Elf -> BOOLEAN]
    BY <1>6 DEF ReadFault, ErrorAfter, TypeOK
  <2> QED
    BY <1>6, <2>2, <2>3 DEF ReadFault, taskVars, TypeOK
<1>7. ASSUME NEW th \in Thread, NEW g \in Got, AddFuncFound(th, g) PROVE Goal
  BY <1>7 DEF AddFuncFound, taskVars, TypeOK
<1>8. ASSUME NEW th \in Thread, NEW g \in Got, AddFuncRepeated(th, g) PROVE Goal
  <2>1. TaskOf(th) \in Task
    BY <1>8, TaskFacts DEF AddFuncRepeated, HookSlot, UnhookSlot
  <2>2. code' \in [Task -> Codes]
    BY <1>8, <2>1, TaskHookedType DEF AddFuncRepeated, Codes
  <2>3. error' \in [Elf -> BOOLEAN]
    BY <1>8 DEF AddFuncRepeated, ErrorAfter, TypeOK
  <2> QED
    BY <1>8, <2>2, <2>3 DEF AddFuncRepeated, taskVars, TypeOK
<1>9. ASSUME NEW th \in Thread, NEW g \in Got, AddFuncCreated(th, g) PROVE Goal
  BY <1>9 DEF AddFuncCreated, taskVars, TypeOK
<1>10. ASSUME NEW th \in Thread, NEW g \in Got, CreateFails(th, g) PROVE Goal
  <2>1. TaskOf(th) \in Task
    BY <1>10, TaskFacts DEF CreateFails, HookSlot, UnhookSlot
  <2>2. code' \in [Task -> Codes]
    BY <1>10, <2>1, TaskHookedType DEF CreateFails, Codes
  <2>3. error' \in [Elf -> BOOLEAN]
    BY <1>10 DEF CreateFails, ErrorAfter, TypeOK
  <2> QED
    BY <1>10, <2>2, <2>3 DEF CreateFails, taskVars, TypeOK
<1>11. ASSUME NEW th \in Thread, NEW g \in Got, AppendFails(th, g) PROVE Goal
  <2>1. TaskOf(th) \in Task
    BY <1>11, TaskFacts DEF AppendFails, HookSlot, UnhookSlot
  <2>2. code' \in [Task -> Codes]
    BY <1>11, <2>1, TaskHookedType DEF AppendFails, Codes
  <2>3. error' \in [Elf -> BOOLEAN]
    BY <1>11 DEF AppendFails, ErrorAfter, TypeOK
  <2> QED
    BY <1>11, <2>2, <2>3 DEF AppendFails, taskVars, TypeOK
<1>12. ASSUME NEW th \in Thread, NEW g \in Got, DelFuncNone(th, g) PROVE Goal
  BY <1>12 DEF DelFuncNone, taskVars, TypeOK
<1>13. ASSUME NEW th \in Thread, NEW g \in Got, DelFunc(th, g) PROVE Goal
  BY <1>13 DEF DelFunc, taskVars, TypeOK
<1>14. ASSUME NEW th \in Thread, NEW g \in Got, ManualHook(th, g) PROVE Goal
  BY <1>14 DEF ManualHook, taskVars, TypeOK
<1>15. ASSUME NEW th \in Thread, NEW g \in Got, ManualHookFails(th, g) PROVE Goal
  <2>1. TaskOf(th) \in Task
    BY <1>15, TaskFacts DEF ManualHookFails, HookSlot, UnhookSlot
  <2>2. code' \in [Task -> Codes]
    BY <1>15, <2>1, TaskHookedType DEF ManualHookFails, Codes, ReplaceFailures
  <2>3. error' \in [Elf -> BOOLEAN]
    BY <1>15 DEF ManualHookFails, ErrorAfter, TypeOK
  <2> QED
    BY <1>15, <2>2, <2>3 DEF ManualHookFails, taskVars, TypeOK
<1>16. ASSUME NEW th \in Thread, NEW g \in Got, ManualUnhook(th, g) PROVE Goal
  <2>1. error' \in [Elf -> BOOLEAN]
    BY <1>16 DEF ManualUnhook, ErrorAfter, TypeOK
  <2> QED
    BY <1>16, <2>1 DEF ManualUnhook, taskVars, TypeOK
<1>17. ASSUME NEW th \in Thread, Lock(th) PROVE Goal
  BY <1>17 DEF Lock, taskVars, TypeOK
<1>18. ASSUME NEW th \in Thread, Unlock(th) PROVE Goal
  <2>1. TaskOf(th) \in Task
    BY <1>18, TaskFacts DEF Unlock
  <2>2. code' \in [Task -> Codes]
    <3>1. CASE TaskHooked(TaskOf(th), "OK")
      BY <2>1, <3>1, TaskHookedType DEF Codes
    <3>2. CASE UNCHANGED code
      BY <3>2 DEF TypeOK
    <3> QED
      BY <1>18, <3>1, <3>2 DEF Unlock
  <2> QED
    BY <1>18, <2>2 DEF Unlock, TypeOK
<1>19. ASSUME NEW th \in Thread, Replace(th) PROVE Goal
  BY <1>19 DEF Replace, taskVars, TypeOK
<1>20. ASSUME NEW th \in Thread, ReplaceFails(th) PROVE Goal
  <2>1. TaskOf(th) \in Task
    BY <1>20, TaskFacts DEF ReplaceFails, HookSlot, UnhookSlot
  <2>2. code' \in [Task -> Codes]
    BY <1>20, <2>1, TaskHookedType DEF ReplaceFails, Codes, ReplaceFailures
  <2>3. error' \in [Elf -> BOOLEAN]
    BY <1>20 DEF ReplaceFails, ErrorAfter, TypeOK
  <2> QED
    BY <1>20, <2>2, <2>3 DEF ReplaceFails, taskVars, TypeOK
<1>21. ASSUME NEW th \in Thread, Restore(th) PROVE Goal
  <2>1. error' \in [Elf -> BOOLEAN]
    BY <1>21 DEF Restore, ErrorAfter, TypeOK
  <2> QED
    BY <1>21, <2>1 DEF Restore, taskVars, TypeOK
<1>22. ASSUME NEW th \in Thread, Finish(th) PROVE Goal
  <2>1. TaskOf(th) \in Task
    BY <1>22, TaskFacts DEF Finish
  <2> QED
    BY <1>22, <2>1 DEF Finish, TypeOK
<1>23. ASSUME NEW th \in Thread, NEW t \in Task, HookBegin(th, t) PROVE Goal
  BY <1>23 DEF HookBegin, taskVars, TypeOK
<1>24. ASSUME NEW th \in Thread, NEW t \in Task, UnhookBegin(th, t) PROVE Goal
  BY <1>24 DEF UnhookBegin, taskVars, TypeOK
<1>25. ASSUME NEW th \in Thread, NEW t \in Task, NEW e \in Elf, HookElfBegin(th, t, e) PROVE Goal
  <2>1. posts < MaxPosts /\ posts' = posts + 1
    BY <1>25 DEF HookElfBegin
  <2>2. posts' \in 0..MaxPosts
    BY <2>1, HookManagerAssumption DEF TypeOK
  <2> QED
    BY <1>25, <2>2 DEF HookElfBegin, taskVars, TypeOK
<1>26. CASE UNCHANGED vars
  BY <1>26 DEF vars, TypeOK
<1> HIDE DEF Goal
<1> QED
  BY <1>1, <1>2, <1>3, <1>4, <1>5, <1>6, <1>7, <1>8, <1>9, <1>10, <1>11, <1>12, <1>13,
     <1>14, <1>15, <1>16, <1>17, <1>18, <1>19, <1>20, <1>21, <1>22, <1>23, <1>24, <1>25,
     <1>26
     DEF Next, Progress, ElfStep, SlotStep, Quiet

\* The slots.
LEMMA SlotType ==
  ASSUME TypeOK, CallInv, PhaseInv, TreeInv, OrigInv, [Next]_vars
  PROVE  /\ got' \in [Got -> Mutable \cup Nat]
         /\ hooks' \in [Got -> Nat]
         /\ manual_orig' \in [Task -> Mutable \cup {None, Invalid}]
         /\ patched' \subseteq (Task \X Got \X (Mutable \cup Nat))
<1> DEFINE Goal ==
         /\ got' \in [Got -> Mutable \cup Nat]
         /\ hooks' \in [Got -> Nat]
         /\ manual_orig' \in [Task -> Mutable \cup {None, Invalid}]
         /\ patched' \subseteq (Task \X Got \X (Mutable \cup Nat))
<1> SUFFICES Goal
  OBVIOUS
<1>1. ASSUME NEW th \in Thread, NEW e \in Elf, HookRefused(th, e) PROVE Goal
  BY <1>1 DEF HookRefused, chainVars, taskVars, TypeOK
<1>2. ASSUME NEW th \in Thread, NEW e \in Elf, FindFault(th, e) PROVE Goal
  BY <1>2 DEF FindFault, chainVars, taskVars, TypeOK
<1>3. ASSUME NEW th \in Thread, NEW e \in Elf, HookCfi(th, e) PROVE Goal
  BY <1>3 DEF HookCfi, chainVars, taskVars, TypeOK
<1>4. ASSUME NEW th \in Thread, NEW e \in Elf, UnhookRefused(th, e) PROVE Goal
  BY <1>4 DEF UnhookRefused, chainVars, taskVars, TypeOK
<1>5. ASSUME NEW th \in Thread, NEW e \in Elf, FindSlots(th, e) PROVE Goal
  BY <1>5 DEF FindSlots, chainVars, taskVars, TypeOK
<1>6. ASSUME NEW th \in Thread, NEW g \in Got, ReadFault(th, g) PROVE Goal
  BY <1>6 DEF ReadFault, chainVars, taskVars, TypeOK
<1>7. ASSUME NEW th \in Thread, NEW g \in Got, AddFuncFound(th, g) PROVE Goal
  <2>1. TaskOf(th) \in Task
    BY <1>7, TaskFacts DEF AddFuncFound, HookSlot
  <2>2. /\ UNCHANGED <<got, hooks, manual_orig>>
        /\ patched' = patched \cup {<<TaskOf(th), g, got[g]>>}
    BY <1>7 DEF AddFuncFound, taskVars
  <2> QED
    BY <2>1, <2>2 DEF TypeOK
<1>8. ASSUME NEW th \in Thread, NEW g \in Got, AddFuncRepeated(th, g) PROVE Goal
  BY <1>8 DEF AddFuncRepeated, chainVars, taskVars, TypeOK
<1>9. ASSUME NEW th \in Thread, NEW g \in Got, AddFuncCreated(th, g) PROVE Goal
  <2>1. /\ UNCHANGED <<got, manual_orig, patched>>
        /\ hooks' = [hooks EXCEPT ![g] = Len(chains[g]) + 1]
    BY <1>9 DEF AddFuncCreated, taskVars
  <2> QED
    BY <2>1 DEF TypeOK
<1>10. ASSUME NEW th \in Thread, NEW g \in Got, CreateFails(th, g) PROVE Goal
  BY <1>10 DEF CreateFails, chainVars, taskVars, TypeOK
<1>11. ASSUME NEW th \in Thread, NEW g \in Got, AppendFails(th, g) PROVE Goal
  <2>1. /\ UNCHANGED <<got, manual_orig, patched>>
        /\ hooks' \in {hooks, [hooks EXCEPT ![g] = Len(chains[g]) + 1]}
    BY <1>11 DEF AppendFails
  <2>2. Len(chains[g]) + 1 \in Nat
    BY DEF TypeOK
  <2>3. hooks' \in [Got -> Nat]
    BY <2>1, <2>2 DEF TypeOK
  <2> QED
    BY <2>1, <2>3 DEF TypeOK
<1>12. ASSUME NEW th \in Thread, NEW g \in Got, DelFuncNone(th, g) PROVE Goal
  BY <1>12 DEF DelFuncNone, chainVars, taskVars, TypeOK
<1>13. ASSUME NEW th \in Thread, NEW g \in Got, DelFunc(th, g) PROVE Goal
  <2>1. /\ UNCHANGED <<got, manual_orig, patched>>
        /\ hooks' \in {hooks, [hooks EXCEPT ![g] = 0]}
    BY <1>13 DEF DelFunc, ChainDel, taskVars
  <2> QED
    BY SMTT(30), <2>1 DEF TypeOK
<1>14. ASSUME NEW th \in Thread, NEW g \in Got, ManualHook(th, g) PROVE Goal
  <2>1. TaskOf(th) \in Task /\ FuncOf[TaskOf(th)] \in Mutable
    BY <1>14, TaskFacts DEF ManualHook, HookSlot, Mutable
  <2>2. /\ UNCHANGED hooks /\ got[g] \in Mutable
        /\ got' = [got EXCEPT ![g] = FuncOf[TaskOf(th)]]
        /\ manual_orig' = [manual_orig EXCEPT ![TaskOf(th)] = ManualOrigAfter(TaskOf(th), got[g])]
        /\ patched' = patched \cup {<<TaskOf(th), g, got[g]>>}
    BY <1>14 DEF ManualHook, MayVerify
  <2>3. ManualOrigAfter(TaskOf(th), got[g]) \in Mutable \cup {None, Invalid}
    BY <2>1, <2>2 DEF ManualOrigAfter, TypeOK
  <2> QED
    BY <2>1, <2>2, <2>3 DEF TypeOK
<1>15. ASSUME NEW th \in Thread, NEW g \in Got, ManualHookFails(th, g) PROVE Goal
  BY <1>15 DEF ManualHookFails, chainVars, taskVars, TypeOK
<1>16. ASSUME NEW th \in Thread, NEW g \in Got, ManualUnhook(th, g) PROVE Goal
  <2>1. /\ TaskOf(th) \in Task /\ job[th].op = "unhook" /\ mode = "MANUAL"
        /\ pc[th] # "idle"
    BY <1>16, TaskFacts DEF ManualUnhook, UnhookSlot
  <2>2. manual_orig[TaskOf(th)] \in Mutable
    BY <2>1 DEF PhaseInv, PhaseOk, TypeOK
  <2>3. /\ UNCHANGED <<hooks, manual_orig, patched>>
        /\ got' \in {got, [got EXCEPT ![g] = manual_orig[TaskOf(th)]]}
    BY <1>16 DEF ManualUnhook, taskVars
  <2> QED
    BY <2>2, <2>3 DEF TypeOK
<1>17. ASSUME NEW th \in Thread, Lock(th) PROVE Goal
  BY <1>17 DEF Lock, chainVars, taskVars, TypeOK
<1>18. ASSUME NEW th \in Thread, Unlock(th) PROVE Goal
  BY <1>18 DEF Unlock, chainVars, taskVars, TypeOK
<1>19. ASSUME NEW th \in Thread, Replace(th) PROVE Goal
  <2>1. TaskOf(th) \in Task /\ walk[th].slot \in Got
    BY <1>19, TaskFacts DEF Replace, CallInv, CallOk, Walking, Walk
  <2>2. /\ UNCHANGED <<hooks, manual_orig>>
        /\ got' = [got EXCEPT ![walk[th].slot] = hooks[walk[th].slot]]
        /\ patched' = patched \cup {<<TaskOf(th), walk[th].slot, got[walk[th].slot]>>}
    BY <1>19 DEF Replace, taskVars
  <2> QED
    BY <2>1, <2>2 DEF TypeOK
<1>20. ASSUME NEW th \in Thread, ReplaceFails(th) PROVE Goal
  <2>1. PICK g \in Got : g = walk[th].slot
    BY <1>20 DEF ReplaceFails, CallInv, CallOk, Walking, Walk
  <2>2. UNCHANGED <<got, manual_orig, patched>>
    BY <1>20 DEF ReplaceFails
  <2>3. hooks' = hooks \/ hooks' = [hooks EXCEPT ![g] = 0]
    BY <1>20, <2>1 DEF ReplaceFails, ChainDel
  <2> QED
    BY <2>2, <2>3 DEF TypeOK
<1>21. ASSUME NEW th \in Thread, Restore(th) PROVE Goal
  <2>1. PICK g \in Got : g = walk[th].slot
    BY <1>21 DEF Restore, CallInv, CallOk, Walking, Walk
  <2>2. chains[g] # <<>> /\ chains[g] \in Seq(Chain)
    BY <1>21, <2>1 DEF Restore, TreeInv, TreeOk, TypeOK
  <2>3. chains[g][Len(chains[g])] \in Chain
    BY <2>2
  <2>4. RestoreFunc(g) \in Mutable \cup Nat
    BY <2>3 DEF RestoreFunc, Chain, Mutable
  <2>5. /\ UNCHANGED <<hooks, manual_orig, patched>>
        /\ got' \in {got, [got EXCEPT ![g] = RestoreFunc(g)]}
    BY <1>21, <2>1 DEF Restore, taskVars
  <2> QED
    BY <2>4, <2>5 DEF TypeOK
<1>22. ASSUME NEW th \in Thread, Finish(th) PROVE Goal
  BY <1>22 DEF Finish, chainVars, taskVars, TypeOK
<1>23. ASSUME NEW th \in Thread, NEW t \in Task, HookBegin(th, t) PROVE Goal
  BY <1>23 DEF HookBegin, chainVars, taskVars, TypeOK
<1>24. ASSUME NEW th \in Thread, NEW t \in Task, UnhookBegin(th, t) PROVE Goal
  BY <1>24 DEF UnhookBegin, chainVars, taskVars, TypeOK
<1>25. ASSUME NEW th \in Thread, NEW t \in Task, NEW e \in Elf, HookElfBegin(th, t, e) PROVE Goal
  BY <1>25 DEF HookElfBegin, chainVars, taskVars, TypeOK
<1>26. CASE UNCHANGED vars
  BY <1>26 DEF vars, TypeOK
<1> HIDE DEF Goal
<1> QED
  BY <1>1, <1>2, <1>3, <1>4, <1>5, <1>6, <1>7, <1>8, <1>9, <1>10, <1>11, <1>12, <1>13,
     <1>14, <1>15, <1>16, <1>17, <1>18, <1>19, <1>20, <1>21, <1>22, <1>23, <1>24, <1>25,
     <1>26
     DEF Next, Progress, ElfStep, SlotStep, Quiet

\* Every variable stays in its type.
LEMMA NextType ==
  ASSUME TypeOK, CallInv, PhaseInv, TreeInv, OrigInv, [Next]_vars
  PROVE  TypeOK'
<1>1. mode' \in {"AUTO", "MANUAL"}
  BY NextMode DEF TypeOK
<1>2. chains' \in [Got -> Seq(Chain)]
  BY ChainsType
<1> QED
  BY <1>1, <1>2, CallType, TaskType, SlotType DEF TypeOK

-----------------------------------------------------------------------------
(* The invariant                                                           *)

\* IInv holds at the start,
LEMMA InitInv ==
  ASSUME Init
  PROVE  IInv
<1>1. /\ chains = [g \in Got |-> <<>>] /\ hooks = [g \in Got |-> 0] /\ patched = {}
      /\ pc = [th \in Thread |-> "idle"] /\ got = OrigOf
  BY DEF Init
<1>2. TypeOK
  <2>1. OrigOf \in [Got -> Mutable \cup Nat]
    BY HookManagerAssumption DEF Mutable
  <2>2. <<>> \in Seq(Chain)
    OBVIOUS
  <2>3. mode \in {"AUTO", "MANUAL"} /\ 0 \in 0..MaxPosts
    BY HookManagerAssumption DEF Init
  <2> QED
    BY <2>1, <2>2, <2>3 DEF Init, TypeOK, Codes
<1>3. CallInv /\ PhaseInv
  BY <1>1 DEF CallInv, CallOk, PhaseInv, PhaseOk, Walking, Holding
<1>4. TreeInv
  BY <1>1 DEF TreeInv, TreeSlot, TreeOk
<1>5. \A g \in Got : ChainNos(g) = {}
  BY <1>1 DEF ChainNos
<1>6. OrigInv /\ EntryInv /\ UniqueEnabled /\ AbandonedInert
  BY <1>1, <1>5 DEF OrigInv, OrigKept, EntryInv, UniqueEnabled, AbandonedInert
<1>7. UnhookInv /\ PlaceInv /\ ManualOrigAgrees
  BY <1>1 DEF UnhookInv, PlaceInv, PatchedNotNew, InSlot, HookTakesEffect, ManualOrigAgrees
<1>8. GoneSilent
  BY <1>5, HookManagerAssumption DEF GoneSilent
<1> QED
  BY <1>2, <1>3, <1>4, <1>6, <1>7, <1>8 DEF IInv, TypeInv

\* ... and every step keeps it.
LEMMA NextInv ==
  ASSUME IInv, [Next]_vars
  PROVE  IInv'
<1> USE DEF IInv, TypeInv
<1>1. TypeInv' /\ PhaseInv'
  BY NextType, NextCall, NextPhase
<1>2. TreeInv' /\ OrigInv'
  BY NextTree, NextOrig
<1>3. EntryInv' /\ UniqueEnabled' /\ AbandonedInert'
  BY NextEntries, NextUnique, NextInert
<1>4. UnhookInv' /\ GoneSilent' /\ ManualOrigAgrees'
  BY NextUnhook, NextGone, NextManual
<1>5. PlaceInv'
  BY NextPatched, NextInSlot, NextEffect DEF PlaceInv
<1> QED
  BY <1>1, <1>2, <1>3, <1>4, <1>5

\* IInv is inductive.
THEOREM Invariance == Spec => []IInv
<1>1. IInv /\ [Next]_vars => IInv'
  BY NextInv
<1> QED
  BY InitInv, <1>1, PTL DEF Spec

\* Every variable stays in its type (TypeOK), and a thread has a call, a walk and the
\* lock of the ELF it is in whenever it uses them.
THEOREM TypeCorrect == Spec => []TypeInv
<1>1. IInv => TypeInv
  BY DEF IInv
<1> QED
  BY <1>1, Invariance, PTL

\* Every variable stays in its type (TypeOK).
THEOREM TypesKept == Spec => []TypeOK
<1>1. TypeInv => TypeOK
  BY DEF TypeInv
<1> QED
  BY <1>1, TypeCorrect, PTL

\* In a chain no function is enabled twice (bh_hook_add_func).
THEOREM EnabledOnce == Spec => []UniqueEnabled
<1>1. IInv => UniqueEnabled
  BY DEF IInv
<1> QED
  BY <1>1, Invariance, PTL

\* A chain that left the tree never runs a proxy again (bh_hook_manager_del_func), for
\* as long as its trampoline stays mapped.
THEOREM AbandonedStayInert == Spec => []AbandonedInert
<1>1. IInv => AbandonedInert
  BY DEF IInv
<1> QED
  BY <1>1, Invariance, PTL

\* In automatic mode a call through a slot ends in the function the linker resolved,
\* under every failure of hook_single_got and unhook_single_got.
THEOREM CallsEndHome == Spec => []OrigKept
<1>1. IInv => OrigKept
  BY DEF IInv, OrigInv
<1> QED
  BY <1>1, Invariance, PTL

\* No proxy runs for a task that bh_core_unhook destroyed, unless the ELF is in error.
THEOREM NoProxyOutlivesTask == Spec => []GoneSilent
<1>1. IInv => GoneSilent
  BY DEF IInv
<1> QED
  BY <1>1, Invariance, PTL

\* A slot whose hooking succeeded calls the proxy until the task is unhooked, if
\* bh_hook_add_func can allocate its entries: a chain left behind without an entry by
\* a failed allocation is found by the next hook, which then does not patch the slot.
THEOREM HooksTakeEffect ==
  ASSUME "append" \notin Faults
  PROVE  Spec => []HookTakesEffect
<1>1. IInv => HookTakesEffect
  BY DEF IInv, PlaceInv
<1> QED
  BY <1>1, Invariance, PTL

\* In manual mode the address a task restores is the one found in every slot it patched
\* (bh_task_set_manual_orig_func).
THEOREM ManualOrigKept == Spec => []ManualOrigAgrees
<1>1. IInv => ManualOrigAgrees
  BY DEF IInv
<1> QED
  BY <1>1, Invariance, PTL

=============================================================================
