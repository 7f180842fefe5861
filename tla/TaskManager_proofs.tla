-------------------------- MODULE TaskManager_proofs --------------------------
(***************************************************************************)
(* Safety of TaskManager for every number of threads, libraries and tasks: *)
(* type correctness, that no thread holds a destroyed ELF object or a      *)
(* freed task, that unhooking is complete and that hooking misses nothing  *)
(* it is told of.  Unhooking rests on the tree: what is hooked in a mapped *)
(* library is reachable from it.  Hooking rests on the notifications: an   *)
(* object the hook call did not copy is on its way to the task.            *)
(***************************************************************************)
EXTENDS TaskManager, TLAPS

\* Where a call holds which lock, and what it may hold elsewhere.
UsingElfs == {"hook", "unhook", "post", "post_elf"}
Closing == {"close", "closed"}
Calling == {"add", "hook_rd", "hook", "del", "unhook_rd", "unhook"}

LockInv ==
    /\ writer # None => readers = {}
    /\ \A th \in Thread :
        /\ pc[th] \in UsingElfs <=> th \in readers
        /\ pc[th] \in Closing <=> writer = th
        /\ pc[th] = "post_elf" <=> th \in list_readers

CallInv ==
    \A th \in Thread :
        /\ pc[th] \in Calling <=> task[th] # None
        /\ elfs[th] # {} => pc[th] \in UsingElfs
        /\ pc[th] = "post_elf" <=> elf[th] # None
        /\ todo[th] # {} => pc[th] = "post_elf"

\* No object is made twice: one that was given up is of an earlier load, of a
\* library that is not loaded, or of one that is ignored.
FreshInv ==
    /\ \A p \in Path : tree[p] <= gen[p]
    /\ \A o \in abandoned \cup destroyed :
          /\ o[2] <= gen[o[1]]
          /\ o[2] < gen[o[1]] \/ ~loaded[o[1]] \/ o[1] \in ignored
    /\ InTree \cap (abandoned \cup destroyed) = {}

LoadedInv == \A p \in Path : loaded[p] => gen[p] # 0

TypeInv == TypeOK /\ LockInv /\ CallInv /\ LoadedInv

\* The inductive invariant behind NoElfUseAfterFree.
ElfSafe == FreshInv /\ NoElfUseAfterFree

ElfInv == TypeInv /\ ElfSafe

\* One call per task, at the phase of its task.
TaskInv ==
    \A th \in Thread :
        /\ \A u \in Thread : task[u] = task[th] /\ task[th] # None => u = th
        /\ pc[th] = "add" => phase[task[th]] = "new"
        /\ pc[th] \in {"hook_rd", "hook"} => phase[task[th]] = "listed"
        /\ pc[th] = "del" => phase[task[th]] = "stub"
        /\ pc[th] \in {"unhook_rd", "unhook"} => phase[task[th]] = "off"
        /\ \A t \in todo[th] : phase[t] \in {"listed", "stub"}

\* The k-th load of p is mapped, and refreshes see it.
Current(p, k) == loaded[p] /\ gen[p] = k /\ p \notin ignored

\* Whatever is hooked in a library, or about to be, is reached from the tree: a
\* later unhook will find it there.
ReachInv ==
    /\ \A th \in Thread : \A o \in Held(th) :
          o[2] <= gen[o[1]] /\ (Current(o[1], o[2]) => tree[o[1]] = o[2])
    /\ \A th \in Thread : pc[th] \in {"hook", "unhook"} =>
          \A o \in elfs[th] : o[1] \in ScopeOf[task[th]]
    /\ \A h \in hooked :
          /\ h[3] <= gen[h[2]] /\ h[2] \in ScopeOf[h[1]]
          /\ Current(h[2], h[3]) => tree[h[2]] = h[3]

\* What an unhook call has not visited yet is still on its list, and a freed task
\* is nowhere.
UnhookInv ==
    /\ \A th \in Thread : pc[th] = "unhook" =>
          \A h \in hooked :
              h[1] = task[th] /\ Current(h[2], h[3]) => <<h[2], h[3]>> \in elfs[th]
    /\ UnhookComplete

\* The object of p's current load is on its way to task t: the task's hook call has
\* still to visit it, or a notification has still to post it, or to apply t to it.
PendingAt(th, t, p) ==
    \/ pc[th] = "hook" /\ task[th] = t /\ <<p, gen[p]>> \in elfs[th]
    \/ pc[th] \in {"post", "post_elf"} /\ <<p, gen[p]>> \in elfs[th]
    \/ elf[th] = <<p, gen[p]>> /\ t \in todo[th]

Pending(t, p) == \E th \in Thread : PendingAt(th, t, p)

\* The hook call of t has copied the tree: what enters it later is for notifications.
CoveredAt(th, t) == pc[th] = "hook" /\ task[th] = t

Covered(t) ==
    \/ phase[t] = "stub"
    \/ phase[t] = "listed" /\ \E th \in Thread : CoveredAt(th, t)

InPlace(t, p) == <<t, p, gen[p]>> \in hooked

\* The object of p's current load was made by a refresh that notifies.
Wanted(t, p) == loaded[p] /\ tree[p] = gen[p] /\ <<t, p, gen[p]>> \notin missed

\* The inductive form of HookedUnlessMissed, which speaks of quiescent states only:
\* meanwhile, what is not in place is pending.
PendingInv ==
    \A t \in Task \ Single : Covered(t) =>
        \A p \in ScopeOf[t] :
            Wanted(t, p) => InPlace(t, p) \/ Pending(t, p)

\* The inductive invariant of the whole specification.
IInv == ElfInv /\ TaskInv /\ ReachInv /\ UnhookInv /\ PendingInv

USE TaskManagerAssumption

-----------------------------------------------------------------------------

\* The monitor starts with no call in progress, no lock held and an object per
\* loaded library.
LEMMA InitType == Init => TypeInv
<1> SUFFICES ASSUME Init PROVE TypeInv
  OBVIOUS
<1>1. TypeOK /\ LockInv /\ CallInv
  BY DEF Init, TypeOK, LockInv, CallInv, PC, UsingElfs, Closing, Calling
<1>2. LoadedInv
  <2> SUFFICES ASSUME NEW p \in Path, loaded[p] PROVE gen[p] # 0
    BY DEF LoadedInv
  <2>1. p \in Loaded0
    BY Zenon DEF Init
  <2> QED
    BY <2>1 DEF Init
<1> QED
  BY <1>1, <1>2 DEF TypeInv

\* An object is made only for a library that is loaded, not ignored and without
\* one, so it is an object of its current load.
LEMMA NewbornsLoaded ==
  ASSUME TypeInv
  PROVE  \A new \in Newborns : \A p \in new :
            /\ p \in Path /\ loaded[p] /\ p \notin ignored /\ tree[p] = 0
            /\ gen[p] \in 1..MaxGen
  BY DEF TypeInv, TypeOK, LoadedInv, Newborns, Existing

\* Every step keeps the types, and keeps what a call holds in agreement with the
\* locks it has taken.
LEMMA NextType == TypeInv /\ [Next]_vars => TypeInv'
<1> SUFFICES ASSUME TypeInv, [Next]_vars PROVE TypeInv'
  OBVIOUS
<1> USE DEF TypeInv, TypeOK, LockInv, CallInv, LoadedInv, PC, UsingElfs, Closing, Calling,
            Goto, RdLock, RdUnlock, linkVars, elfVars, taskVars, lockVars, callVars
<1>1. ASSUME NEW th \in Thread, Add(th) PROVE TypeInv'
  BY <1>1 DEF Add
<1>2. ASSUME NEW th \in Thread, HookStart(th) PROVE TypeInv'
  BY <1>2 DEF HookStart, CopyElfs, InTree
<1>3. ASSUME NEW th \in Thread, NEW o \in Elf, HookApply(th, o) PROVE TypeInv'
  BY <1>3 DEF HookApply, HookElf, Elf
<1>4. ASSUME NEW th \in Thread, HookReturn(th) PROVE TypeInv'
  BY <1>4 DEF HookReturn
<1>5. ASSUME NEW th \in Thread, Del(th) PROVE TypeInv'
  BY <1>5 DEF Del
<1>6. ASSUME NEW th \in Thread, UnhookStart(th) PROVE TypeInv'
  BY <1>6 DEF UnhookStart, CopyElfs, InTree
<1>7. ASSUME NEW th \in Thread, NEW o \in Elf, UnhookApply(th, o) PROVE TypeInv'
  BY <1>7 DEF UnhookApply, UnhookElf
<1>8. ASSUME NEW th \in Thread, UnhookReturn(th) PROVE TypeInv'
  BY <1>8 DEF UnhookReturn
<1>9. ASSUME NEW th \in Thread, OpenRefresh(th) PROVE TypeInv'
  <2>1. PICK new \in Newborns :
          /\ Refresh(new)
          /\ elfs' = [elfs EXCEPT ![th] = {<<p, gen[p]>> : p \in new}]
    BY <1>9 DEF OpenRefresh
  <2>2. tree' \in [Path -> 0..MaxGen]
    BY <2>1 DEF Refresh
  <2>3. {<<p, gen[p]>> : p \in new} \subseteq Elf
    BY <2>1, NewbornsLoaded DEF Elf
  <2>4. elfs' \in [Thread -> SUBSET Elf]
    BY <2>1, <2>3
  <2>5. abandoned' \subseteq Elf
    BY <1>9 DEF OpenRefresh, Dropped, InTree
  <2> QED
    BY <1>9, <2>1, <2>2, <2>4, <2>5 DEF OpenRefresh
<1>10. ASSUME NEW th \in Thread, NEW o \in Elf, PostElf(th, o) PROVE TypeInv'
  BY <1>10 DEF PostElf
<1>11. ASSUME NEW th \in Thread, NEW t \in Task, PostTask(th, t) PROVE TypeInv'
  BY <1>11 DEF PostTask, HookElf, Elf
<1>12. ASSUME NEW th \in Thread, PostElfDone(th) PROVE TypeInv'
  BY <1>12 DEF PostElfDone
<1>13. ASSUME NEW th \in Thread, OpenReturn(th) PROVE TypeInv'
  BY <1>13 DEF OpenReturn
<1>14. ASSUME NEW th \in Thread, CloseLock(th) PROVE TypeInv'
  BY <1>14 DEF CloseLock
<1>15. ASSUME NEW th \in Thread, CloseLink(th) PROVE TypeInv'
  <2>1. hooked' \subseteq hooked
    BY <1>15 DEF CloseLink
  <2>2. TypeOK'
    BY <1>15, <2>1 DEF CloseLink
  <2>3. LoadedInv'
    BY <1>15 DEF CloseLink
  <2>4. LockInv' /\ CallInv'
    BY <1>15 DEF CloseLink
  <2> QED
    BY <2>2, <2>3, <2>4 DEF TypeInv
<1>16. ASSUME NEW th \in Thread, CloseKeeps(th) PROVE TypeInv'
  BY <1>16 DEF CloseKeeps
<1>17. ASSUME NEW th \in Thread, CloseFails(th) PROVE TypeInv'
  BY <1>17 DEF CloseFails
<1>18. ASSUME NEW th \in Thread, CloseReturn(th) PROVE TypeInv'
  <2>1. PICK new \in Newborns :
          /\ Refresh(new)
          /\ missed' = missed \cup
               {<<t, p, gen[p]>> : t \in {u \in Task : phase[u] # "new"}, p \in new}
    BY <1>18 DEF CloseReturn
  <2>2. tree' \in [Path -> 0..MaxGen]
    BY <2>1 DEF Refresh
  <2>3. missed' \subseteq Task \X Path \X (1..MaxGen)
    BY <2>1, NewbornsLoaded
  <2>4. destroyed' \subseteq Elf /\ abandoned' \subseteq Elf
    BY <1>18 DEF CloseReturn, Dropped, InTree
  <2> QED
    BY <1>18, <2>2, <2>3, <2>4 DEF CloseReturn
<1>19. ASSUME NEW th \in Thread, NEW t \in Task, HookCall(th, t) PROVE TypeInv'
  BY <1>19 DEF HookCall
<1>20. ASSUME NEW th \in Thread, NEW t \in Task, UnhookCall(th, t) PROVE TypeInv'
  BY <1>20 DEF UnhookCall
<1>21. ASSUME NEW th \in Thread, NEW p \in Path, OpenCall(th, p) PROVE TypeInv'
  BY <1>21 DEF OpenCall
<1>22. ASSUME NEW th \in Thread, NEW p \in Path, CloseCall(th, p) PROVE TypeInv'
  BY <1>22 DEF CloseCall
<1>23. ASSUME NEW p \in Path, AddIgnore(p) PROVE TypeInv'
  BY <1>23 DEF AddIgnore
<1>24. CASE UNCHANGED vars
  BY <1>24 DEF vars
<1> QED
  BY <1>1, <1>2, <1>3, <1>4, <1>5, <1>6, <1>7, <1>8, <1>9, <1>10, <1>11, <1>12,
     <1>13, <1>14, <1>15, <1>16, <1>17, <1>18, <1>19, <1>20, <1>21, <1>22, <1>23,
     <1>24
     DEF Next, Progress, Call, Quiet

\* What a refresh leaves in the tree and what it drops.
LEMMA RefreshFresh ==
  ASSUME TypeInv, FreshInv, NEW new \in Newborns, Refresh(new),
         UNCHANGED <<loaded, gen, ignored>>
  PROVE  /\ \A p \in Path : tree'[p] <= gen[p]
         /\ InTree' \cap (abandoned \cup destroyed \cup Dropped) = {}
         /\ \A o \in Dropped :
               /\ o[2] <= gen[o[1]]
               /\ o[2] < gen[o[1]] \/ ~loaded[o[1]] \/ o[1] \in ignored
<1> USE DEF TypeInv, TypeOK
<1>1. \A p \in new : p \in Path /\ loaded[p] /\ p \notin ignored /\ tree[p] = 0
  BY NewbornsLoaded
<1>2. \A p \in Path : tree'[p] <= gen[p]
  BY DEF Refresh, FreshInv
<1>3. ASSUME NEW o \in InTree' PROVE o \notin abandoned \cup destroyed \cup Dropped
  <2>1. o \in Elf /\ o[1] \in Path /\ o[2] \in 1..MaxGen /\ tree'[o[1]] = o[2]
    BY DEF InTree, Elf
  <2>2. CASE o[1] \in new
    BY <1>1, <2>1, <2>2 DEF Refresh, FreshInv, Dropped, InTree
  <2>3. CASE o[1] \notin new
    BY <2>1, <2>3 DEF Refresh, FreshInv, Dropped, InTree, Existing
  <2> QED
    BY <2>2, <2>3
<1>4. ASSUME NEW o \in Dropped
      PROVE  /\ o[2] <= gen[o[1]]
             /\ o[2] < gen[o[1]] \/ ~loaded[o[1]] \/ o[1] \in ignored
  BY DEF Dropped, InTree, Existing, FreshInv, Elf
<1> QED
  BY <1>2, <1>3, <1>4

\* An object is destroyed only while the write lock keeps every user of objects
\* out, and none is made twice.
LEMMA NextElf == ElfInv /\ [Next]_vars => ElfSafe'
<1> SUFFICES ASSUME ElfInv, [Next]_vars PROVE ElfSafe'
  OBVIOUS
<1> USE DEF ElfInv, ElfSafe, TypeInv, TypeOK, LockInv, CallInv, UsingElfs, Closing,
            RdLock, FreshInv, NoElfUseAfterFree, Held, InTree, linkVars, elfVars, taskVars,
            lockVars, callVars
<1>1. ASSUME NEW th \in Thread, Add(th) PROVE ElfSafe'
  BY <1>1 DEF Add
<1>2. ASSUME NEW th \in Thread, HookStart(th) PROVE ElfSafe'
  BY <1>2 DEF HookStart, CopyElfs, InTree
<1>3. ASSUME NEW th \in Thread, NEW o \in Elf, HookApply(th, o) PROVE ElfSafe'
  BY <1>3 DEF HookApply, HookElf
<1>4. ASSUME NEW th \in Thread, HookReturn(th) PROVE ElfSafe'
  BY <1>4 DEF HookReturn
<1>5. ASSUME NEW th \in Thread, Del(th) PROVE ElfSafe'
  BY <1>5 DEF Del
<1>6. ASSUME NEW th \in Thread, UnhookStart(th) PROVE ElfSafe'
  BY <1>6 DEF UnhookStart, CopyElfs, InTree
<1>7. ASSUME NEW th \in Thread, NEW o \in Elf, UnhookApply(th, o) PROVE ElfSafe'
  BY <1>7 DEF UnhookApply, UnhookElf
<1>8. ASSUME NEW th \in Thread, UnhookReturn(th) PROVE ElfSafe'
  BY <1>8 DEF UnhookReturn
<1>9. ASSUME NEW th \in Thread, OpenRefresh(th) PROVE ElfSafe'
  <2>1. PICK new \in Newborns :
          /\ Refresh(new)
          /\ elfs' = [elfs EXCEPT ![th] = {<<p, gen[p]>> : p \in new}]
    BY <1>9 DEF OpenRefresh
  <2>2. UNCHANGED <<loaded, gen, ignored, destroyed, elf>>
    BY <1>9 DEF OpenRefresh
  <2>3. abandoned' = abandoned \cup Dropped
    BY <1>9 DEF OpenRefresh
  <2>4. FreshInv'
    BY <2>1, <2>2, <2>3, RefreshFresh
  <2>5. {<<p, gen[p]>> : p \in new} \cap destroyed = {}
    BY <2>1, NewbornsLoaded
  <2>6. NoElfUseAfterFree'
    BY <2>1, <2>2, <2>5
  <2> QED
    BY <2>4, <2>6
<1>10. ASSUME NEW th \in Thread, NEW o \in Elf, PostElf(th, o) PROVE ElfSafe'
  BY <1>10 DEF PostElf
<1>11. ASSUME NEW th \in Thread, NEW t \in Task, PostTask(th, t) PROVE ElfSafe'
  BY <1>11 DEF PostTask, HookElf
<1>12. ASSUME NEW th \in Thread, PostElfDone(th) PROVE ElfSafe'
  BY <1>12 DEF PostElfDone
<1>13. ASSUME NEW th \in Thread, OpenReturn(th) PROVE ElfSafe'
  BY <1>13 DEF OpenReturn
<1>14. ASSUME NEW th \in Thread, CloseLock(th) PROVE ElfSafe'
  BY <1>14 DEF CloseLock
<1>15. ASSUME NEW th \in Thread, CloseLink(th) PROVE ElfSafe'
  BY <1>15 DEF CloseLink
<1>16. ASSUME NEW th \in Thread, CloseKeeps(th) PROVE ElfSafe'
  BY <1>16 DEF CloseKeeps
<1>17. ASSUME NEW th \in Thread, CloseFails(th) PROVE ElfSafe'
  BY <1>17 DEF CloseFails
<1>18. ASSUME NEW th \in Thread, CloseReturn(th) PROVE ElfSafe'
  <2>1. PICK new \in Newborns : Refresh(new)
    BY <1>18 DEF CloseReturn
  <2>2. UNCHANGED <<loaded, gen, ignored, elfs, elf>>
    BY <1>18 DEF CloseReturn
  <2>3. destroyed' = destroyed \cup abandoned \cup Dropped /\ abandoned' = {}
    BY <1>18 DEF CloseReturn
  <2>4. FreshInv'
    BY <2>1, <2>2, <2>3, RefreshFresh
  <2>5. \A u \in Thread : elfs[u] = {} /\ elf[u] = None
    BY <1>18 DEF CloseReturn
  <2>6. NoElfUseAfterFree'
    BY <2>2, <2>5
  <2> QED
    BY <2>4, <2>6
<1>19. ASSUME NEW th \in Thread, NEW t \in Task, HookCall(th, t) PROVE ElfSafe'
  BY <1>19 DEF HookCall
<1>20. ASSUME NEW th \in Thread, NEW t \in Task, UnhookCall(th, t) PROVE ElfSafe'
  BY <1>20 DEF UnhookCall
<1>21. ASSUME NEW th \in Thread, NEW p \in Path, OpenCall(th, p) PROVE ElfSafe'
  <2>1. UNCHANGED <<tree, abandoned, destroyed, ignored, elfs, elf>>
    BY <1>21 DEF OpenCall
  <2>2. \A q \in Path : gen[q] <= gen'[q] /\ (q = p => gen[q] < gen'[q])
    BY <1>21 DEF OpenCall
  <2>3. \A q \in Path : q # p => gen'[q] = gen[q] /\ loaded'[q] = loaded[q]
    BY <1>21 DEF OpenCall
  <2>4. gen' \in [Path -> 0..MaxGen]
    BY <1>21 DEF OpenCall
  <2>5. ASSUME NEW o \in abandoned \cup destroyed
        PROVE  /\ o[2] <= gen'[o[1]]
               /\ o[2] < gen'[o[1]] \/ ~loaded'[o[1]] \/ o[1] \in ignored
    BY <2>2, <2>3, <2>4 DEF Elf
  <2>6. FreshInv'
    BY <2>1, <2>2, <2>4, <2>5
  <2> QED
    BY <2>1, <2>6
<1>22. ASSUME NEW th \in Thread, NEW p \in Path, CloseCall(th, p) PROVE ElfSafe'
  BY <1>22 DEF CloseCall
<1>23. ASSUME NEW p \in Path, AddIgnore(p) PROVE ElfSafe'
  BY <1>23 DEF AddIgnore
<1>24. CASE UNCHANGED vars
  BY <1>24 DEF vars
<1> QED
  BY <1>1, <1>2, <1>3, <1>4, <1>5, <1>6, <1>7, <1>8, <1>9, <1>10, <1>11,
     <1>12, <1>13, <1>14, <1>15, <1>16, <1>17, <1>18, <1>19, <1>20, <1>21,
     <1>22, <1>23, <1>24
     DEF Next, Progress, Call, Quiet

\* A task has one call at a time, and leaves the list only when no notification
\* is walking it.
LEMMA NextTask == TypeInv /\ TaskInv /\ [Next]_vars => TaskInv'
<1> SUFFICES ASSUME TypeInv /\ TaskInv, [Next]_vars PROVE TaskInv'
  OBVIOUS
<1> USE DEF TypeInv, TypeOK, LockInv, CallInv, TaskInv, Calling, Goto, RdLock, RdUnlock,
            linkVars, elfVars, taskVars, lockVars, callVars
<1>1. ASSUME NEW th \in Thread, Add(th) PROVE TaskInv'
  BY <1>1 DEF Add
<1>2. ASSUME NEW th \in Thread, HookStart(th) PROVE TaskInv'
  BY <1>2 DEF HookStart, CopyElfs, InTree
<1>3. ASSUME NEW th \in Thread, NEW o \in Elf, HookApply(th, o) PROVE TaskInv'
  BY <1>3 DEF HookApply, HookElf
<1>4. ASSUME NEW th \in Thread, HookReturn(th) PROVE TaskInv'
  BY <1>4 DEF HookReturn
<1>5. ASSUME NEW th \in Thread, Del(th) PROVE TaskInv'
  BY <1>5 DEF Del
<1>6. ASSUME NEW th \in Thread, UnhookStart(th) PROVE TaskInv'
  BY <1>6 DEF UnhookStart, CopyElfs, InTree
<1>7. ASSUME NEW th \in Thread, NEW o \in Elf, UnhookApply(th, o) PROVE TaskInv'
  BY <1>7 DEF UnhookApply, UnhookElf
<1>8. ASSUME NEW th \in Thread, UnhookReturn(th) PROVE TaskInv'
  BY <1>8 DEF UnhookReturn
<1>9. ASSUME NEW th \in Thread, OpenRefresh(th) PROVE TaskInv'
  BY <1>9 DEF OpenRefresh, Refresh, Dropped, InTree, Existing
<1>10. ASSUME NEW th \in Thread, NEW o \in Elf, PostElf(th, o) PROVE TaskInv'
  BY <1>10 DEF PostElf
<1>11. ASSUME NEW th \in Thread, NEW t \in Task, PostTask(th, t) PROVE TaskInv'
  BY <1>11 DEF PostTask, HookElf
<1>12. ASSUME NEW th \in Thread, PostElfDone(th) PROVE TaskInv'
  BY <1>12 DEF PostElfDone
<1>13. ASSUME NEW th \in Thread, OpenReturn(th) PROVE TaskInv'
  BY <1>13 DEF OpenReturn
<1>14. ASSUME NEW th \in Thread, CloseLock(th) PROVE TaskInv'
  BY <1>14 DEF CloseLock
<1>15. ASSUME NEW th \in Thread, CloseLink(th) PROVE TaskInv'
  BY <1>15 DEF CloseLink
<1>16. ASSUME NEW th \in Thread, CloseKeeps(th) PROVE TaskInv'
  BY <1>16 DEF CloseKeeps
<1>17. ASSUME NEW th \in Thread, CloseFails(th) PROVE TaskInv'
  BY <1>17 DEF CloseFails
<1>18. ASSUME NEW th \in Thread, CloseReturn(th) PROVE TaskInv'
  BY <1>18 DEF CloseReturn, Refresh, Dropped, InTree, Existing
<1>19. ASSUME NEW th \in Thread, NEW t \in Task, HookCall(th, t) PROVE TaskInv'
  BY <1>19 DEF HookCall
<1>20. ASSUME NEW th \in Thread, NEW t \in Task, UnhookCall(th, t) PROVE TaskInv'
  BY <1>20 DEF UnhookCall
<1>21. ASSUME NEW th \in Thread, NEW p \in Path, OpenCall(th, p) PROVE TaskInv'
  BY <1>21 DEF OpenCall, InTree
<1>22. ASSUME NEW th \in Thread, NEW p \in Path, CloseCall(th, p) PROVE TaskInv'
  BY <1>22 DEF CloseCall
<1>23. ASSUME NEW p \in Path, AddIgnore(p) PROVE TaskInv'
  BY <1>23 DEF AddIgnore
<1>24. CASE UNCHANGED vars
  BY <1>24 DEF vars
<1> QED
  BY <1>1, <1>2, <1>3, <1>4, <1>5, <1>6, <1>7, <1>8, <1>9, <1>10, <1>11,
     <1>12, <1>13, <1>14, <1>15, <1>16, <1>17, <1>18, <1>19, <1>20, <1>21,
     <1>22, <1>23, <1>24
     DEF Next, Progress, Call, Quiet

\* A refresh keeps the object of a load that is current.
LEMMA RefreshKeeps ==
  ASSUME TypeInv, NEW new \in Newborns, Refresh(new)
  PROVE  \A p \in Path : \A k \in 1..MaxGen :
            Current(p, k) /\ tree[p] = k => tree'[p] = k
  BY NewbornsLoaded DEF TypeInv, TypeOK, Refresh, Existing, Current

\* Objects in use and hooks in place stay reachable from the tree.
LEMMA NextReach == TypeInv /\ FreshInv /\ TaskInv /\ ReachInv /\ [Next]_vars => ReachInv'
<1> SUFFICES ASSUME TypeInv /\ FreshInv /\ TaskInv /\ ReachInv, [Next]_vars PROVE ReachInv'
  OBVIOUS
<1> USE DEF TypeInv, TypeOK, CallInv, ReachInv, Current, Held, Goto, RdLock, Calling,
            UsingElfs, linkVars, elfVars, taskVars, lockVars, callVars, FreshInv
<1>1. ASSUME NEW th \in Thread, Add(th) PROVE ReachInv'
  BY <1>1 DEF Add
<1>2. ASSUME NEW th \in Thread, HookStart(th) PROVE ReachInv'
  BY <1>2 DEF HookStart, CopyElfs, InTree
<1>3. ASSUME NEW th \in Thread, NEW o \in Elf, HookApply(th, o) PROVE ReachInv'
  BY <1>3 DEF HookApply, HookElf
<1>4. ASSUME NEW th \in Thread, HookReturn(th) PROVE ReachInv'
  BY <1>4 DEF HookReturn
<1>5. ASSUME NEW th \in Thread, Del(th) PROVE ReachInv'
  BY <1>5 DEF Del
<1>6. ASSUME NEW th \in Thread, UnhookStart(th) PROVE ReachInv'
  BY <1>6 DEF UnhookStart, CopyElfs, InTree
<1>7. ASSUME NEW th \in Thread, NEW o \in Elf, UnhookApply(th, o) PROVE ReachInv'
  BY <1>7 DEF UnhookApply, UnhookElf
<1>8. ASSUME NEW th \in Thread, UnhookReturn(th) PROVE ReachInv'
  BY <1>8 DEF UnhookReturn
<1>9. ASSUME NEW th \in Thread, OpenRefresh(th) PROVE ReachInv'
  <2>1. PICK new \in Newborns :
          /\ Refresh(new)
          /\ elfs' = [elfs EXCEPT ![th] = {<<q, gen[q]>> : q \in new}]
    BY <1>9 DEF OpenRefresh
  <2>2. UNCHANGED <<loaded, gen, ignored, hooked, elf, task>>
    BY <1>9 DEF OpenRefresh
  <2>3. \A q \in Path : \A k \in 1..MaxGen :
           Current(q, k) /\ tree[q] = k => tree'[q] = k
    BY <2>1, RefreshKeeps
  <2>4. \A o \in {<<q, gen[q]>> : q \in new} : o[2] <= gen[o[1]] /\ tree'[o[1]] = o[2]
    BY <2>1, NewbornsLoaded DEF Refresh
  <2>5. ASSUME NEW u \in Thread, NEW o \in Held(u)'
        PROVE  o[2] <= gen[o[1]] /\ (Current(o[1], o[2]) => tree'[o[1]] = o[2])
    <3>1. o \in Held(u) \/ o \in {<<q, gen[q]>> : q \in new}
      BY <2>1, <2>2
    <3>2. CASE o \in Held(u)
      <4>1. o \in Elf
        BY <3>2
      <4> QED
        BY <3>2, <4>1, <2>3 DEF Elf
    <3> QED
      BY <3>1, <3>2, <2>4
  <2>6. \A h \in hooked : Current(h[2], h[3]) => tree'[h[2]] = h[3]
    BY <2>3
  <2>7. pc[th] # "hook" /\ pc'[th] # "hook" /\ pc'[th] # "unhook"
        /\ \A u \in Thread : u # th => pc'[u] = pc[u] /\ elfs'[u] = elfs[u]
    BY <1>9, <2>1 DEF OpenRefresh
  <2> QED
    BY <2>2, <2>5, <2>6, <2>7
<1>10. ASSUME NEW th \in Thread, NEW o \in Elf, PostElf(th, o) PROVE ReachInv'
  BY <1>10 DEF PostElf
<1>11. ASSUME NEW th \in Thread, NEW t \in Task, PostTask(th, t) PROVE ReachInv'
  BY <1>11 DEF PostTask, HookElf
<1>12. ASSUME NEW th \in Thread, PostElfDone(th) PROVE ReachInv'
  BY <1>12 DEF PostElfDone
<1>13. ASSUME NEW th \in Thread, OpenReturn(th) PROVE ReachInv'
  BY <1>13 DEF OpenReturn
<1>14. ASSUME NEW th \in Thread, CloseLock(th) PROVE ReachInv'
  BY <1>14 DEF CloseLock
<1>15. ASSUME NEW th \in Thread, CloseLink(th) PROVE ReachInv'
  BY <1>15 DEF CloseLink
<1>16. ASSUME NEW th \in Thread, CloseKeeps(th) PROVE ReachInv'
  BY <1>16 DEF CloseKeeps
<1>17. ASSUME NEW th \in Thread, CloseFails(th) PROVE ReachInv'
  BY <1>17 DEF CloseFails
<1>18. ASSUME NEW th \in Thread, CloseReturn(th) PROVE ReachInv'
  <2>1. PICK new \in Newborns : Refresh(new)
    BY <1>18 DEF CloseReturn
  <2>2. UNCHANGED <<loaded, gen, ignored, hooked, elfs, elf, task>>
    BY <1>18 DEF CloseReturn
  <2>3. \A q \in Path : \A k \in 1..MaxGen :
           Current(q, k) /\ tree[q] = k => tree'[q] = k
    BY <2>1, RefreshKeeps
  <2>4. \A u \in Thread : \A o \in Held(u) : Current(o[1], o[2]) => tree'[o[1]] = o[2]
    BY <2>3 DEF Elf
  <2>5. \A h \in hooked : Current(h[2], h[3]) => tree'[h[2]] = h[3]
    BY <2>3
  <2>6. \A u \in Thread : pc'[u] \in {"hook", "unhook"} => pc'[u] = pc[u]
    BY <1>18 DEF CloseReturn
  <2> QED
    BY <2>2, <2>4, <2>5, <2>6
<1>19. ASSUME NEW th \in Thread, NEW t \in Task, HookCall(th, t) PROVE ReachInv'
  BY <1>19 DEF HookCall
<1>20. ASSUME NEW th \in Thread, NEW t \in Task, UnhookCall(th, t) PROVE ReachInv'
  BY <1>20 DEF UnhookCall
<1>21. ASSUME NEW th \in Thread, NEW p \in Path, OpenCall(th, p) PROVE ReachInv'
  <2>1. UNCHANGED <<tree, ignored, hooked, elfs, elf, task>>
    BY <1>21 DEF OpenCall
  <2>2. \A q \in Path : gen[q] <= gen'[q] /\ (q = p => gen[q] < gen'[q])
    BY <1>21 DEF OpenCall
  <2>3. \A q \in Path : q # p => gen'[q] = gen[q] /\ loaded'[q] = loaded[q]
    BY <1>21 DEF OpenCall
  <2>4. gen' \in [Path -> 0..MaxGen]
    BY <1>21 DEF OpenCall
  <2>5. \A q \in Path : \A k \in 1..MaxGen :
           k <= gen[q] => k <= gen'[q] /\ (Current(q, k)' => Current(q, k))
    BY <2>1, <2>2, <2>3, <2>4
  <2>6. \A u \in Thread : \A o \in Held(u) : o[1] \in Path /\ o[2] \in 1..MaxGen
    BY DEF Elf
  <2>7. \A h \in hooked : h[2] \in Path /\ h[3] \in 1..MaxGen
    OBVIOUS
  <2>8. \A u \in Thread : pc'[u] \in {"hook", "unhook"} => pc'[u] = pc[u]
    BY <1>21 DEF OpenCall
  <2>9. \A u \in Thread : \A o \in Held(u) :
           o[2] <= gen'[o[1]] /\ (Current(o[1], o[2])' => tree[o[1]] = o[2])
    BY <2>5, <2>6
  <2>10. \A h \in hooked : h[3] <= gen'[h[2]] /\ (Current(h[2], h[3])' => tree[h[2]] = h[3])
    BY <2>5, <2>7
  <2> QED
    BY <2>1, <2>8, <2>9, <2>10
<1>22. ASSUME NEW th \in Thread, NEW p \in Path, CloseCall(th, p) PROVE ReachInv'
  BY <1>22 DEF CloseCall
<1>23. ASSUME NEW p \in Path, AddIgnore(p) PROVE ReachInv'
  BY <1>23 DEF AddIgnore
<1>24. CASE UNCHANGED vars
  BY <1>24 DEF vars
<1> QED
  BY <1>1, <1>2, <1>3, <1>4, <1>5, <1>6, <1>7, <1>8, <1>9, <1>10, <1>11,
     <1>12, <1>13, <1>14, <1>15, <1>16, <1>17, <1>18, <1>19, <1>20, <1>21,
     <1>22, <1>23, <1>24
     DEF Next, Progress, Call, Quiet

\* While a task is being unhooked nobody hooks it again, so what it still has in
\* place stays on the list of objects the call visits.
LEMMA NextUnhook == TypeInv /\ TaskInv /\ ReachInv /\ UnhookInv /\ [Next]_vars => UnhookInv'
<1> SUFFICES ASSUME TypeInv /\ TaskInv /\ ReachInv /\ UnhookInv, [Next]_vars PROVE UnhookInv'
  OBVIOUS
<1> USE DEF TypeInv, TypeOK, CallInv, ReachInv, UnhookInv, UnhookComplete, TaskInv,
            Current, Held, Goto, RdLock, Calling, UsingElfs, linkVars, elfVars, taskVars,
            lockVars, callVars
<1>1. ASSUME NEW th \in Thread, Add(th) PROVE UnhookInv'
  BY <1>1 DEF Add
<1>2. ASSUME NEW th \in Thread, HookStart(th) PROVE UnhookInv'
  BY <1>2 DEF HookStart, CopyElfs, InTree
<1>3. ASSUME NEW th \in Thread, NEW o \in Elf, HookApply(th, o) PROVE UnhookInv'
  BY <1>3 DEF HookApply, HookElf
<1>4. ASSUME NEW th \in Thread, HookReturn(th) PROVE UnhookInv'
  BY <1>4 DEF HookReturn
<1>5. ASSUME NEW th \in Thread, Del(th) PROVE UnhookInv'
  BY <1>5 DEF Del
<1>6. ASSUME NEW th \in Thread, UnhookStart(th) PROVE UnhookInv'
  <2>1. UNCHANGED <<loaded, gen, ignored, hooked, task, phase>>
    BY <1>6 DEF UnhookStart
  <2>2. elfs'[th] = CopyElfs(task[th])
    BY <1>6 DEF UnhookStart
  <2>3. ASSUME NEW h \in hooked, h[1] = task[th], Current(h[2], h[3])
        PROVE  <<h[2], h[3]>> \in elfs'[th]
    <3>1. h[2] \in Path /\ h[3] \in 1..MaxGen /\ h[2] \in ScopeOf[task[th]]
      BY <2>3
    <3>2. tree[h[2]] = h[3]
      BY <2>3
    <3> QED
      BY <2>2, <3>1, <3>2 DEF CopyElfs, InTree, Elf
  <2>4. \A u \in Thread : u # th => pc'[u] = pc[u] /\ elfs'[u] = elfs[u]
    BY <1>6 DEF UnhookStart
  <2> QED
    BY <2>1, <2>3, <2>4
<1>7. ASSUME NEW th \in Thread, NEW o \in Elf, UnhookApply(th, o) PROVE UnhookInv'
  BY <1>7 DEF UnhookApply, UnhookElf
<1>8. ASSUME NEW th \in Thread, UnhookReturn(th) PROVE UnhookInv'
  <2>1. UNCHANGED <<loaded, gen, ignored, hooked, elfs>>
    BY <1>8 DEF UnhookReturn
  <2>2. \A h \in hooked : h[1] = task[th] => ~Current(h[2], h[3])
    BY <1>8 DEF UnhookReturn
  <2>3. \A t \in Task : t # task[th] => phase'[t] = phase[t]
    BY <1>8 DEF UnhookReturn
  <2>4. UnhookComplete'
    BY <2>1, <2>2, <2>3
  <2>5. \A u \in Thread : pc'[u] = "unhook" => pc[u] = "unhook" /\ task'[u] = task[u]
    BY <1>8 DEF UnhookReturn
  <2> QED
    BY <2>1, <2>4, <2>5
<1>9. ASSUME NEW th \in Thread, OpenRefresh(th) PROVE UnhookInv'
  BY <1>9 DEF OpenRefresh, Refresh, Dropped, InTree, Existing
<1>10. ASSUME NEW th \in Thread, NEW o \in Elf, PostElf(th, o) PROVE UnhookInv'
  BY <1>10 DEF PostElf
<1>11. ASSUME NEW th \in Thread, NEW t \in Task, PostTask(th, t) PROVE UnhookInv'
  BY <1>11 DEF PostTask, HookElf
<1>12. ASSUME NEW th \in Thread, PostElfDone(th) PROVE UnhookInv'
  BY <1>12 DEF PostElfDone
<1>13. ASSUME NEW th \in Thread, OpenReturn(th) PROVE UnhookInv'
  BY <1>13 DEF OpenReturn
<1>14. ASSUME NEW th \in Thread, CloseLock(th) PROVE UnhookInv'
  BY <1>14 DEF CloseLock
<1>15. ASSUME NEW th \in Thread, CloseLink(th) PROVE UnhookInv'
  BY <1>15 DEF CloseLink
<1>16. ASSUME NEW th \in Thread, CloseKeeps(th) PROVE UnhookInv'
  BY <1>16 DEF CloseKeeps
<1>17. ASSUME NEW th \in Thread, CloseFails(th) PROVE UnhookInv'
  BY <1>17 DEF CloseFails
<1>18. ASSUME NEW th \in Thread, CloseReturn(th) PROVE UnhookInv'
  BY <1>18 DEF CloseReturn, Refresh, Dropped, InTree, Existing
<1>19. ASSUME NEW th \in Thread, NEW t \in Task, HookCall(th, t) PROVE UnhookInv'
  BY <1>19 DEF HookCall
<1>20. ASSUME NEW th \in Thread, NEW t \in Task, UnhookCall(th, t) PROVE UnhookInv'
  BY <1>20 DEF UnhookCall
<1>21. ASSUME NEW th \in Thread, NEW p \in Path, OpenCall(th, p) PROVE UnhookInv'
  BY <1>21 DEF OpenCall, InTree
<1>22. ASSUME NEW th \in Thread, NEW p \in Path, CloseCall(th, p) PROVE UnhookInv'
  BY <1>22 DEF CloseCall
<1>23. ASSUME NEW p \in Path, AddIgnore(p) PROVE UnhookInv'
  BY <1>23 DEF AddIgnore
<1>24. CASE UNCHANGED vars
  BY <1>24 DEF vars
<1> QED
  BY <1>1, <1>2, <1>3, <1>4, <1>5, <1>6, <1>7, <1>8, <1>9, <1>10, <1>11,
     <1>12, <1>13, <1>14, <1>15, <1>16, <1>17, <1>18, <1>19, <1>20, <1>21,
     <1>22, <1>23, <1>24
     DEF Next, Progress, Call, Quiet

\* A library with an object that a task's hook call did not see is posted to the
\* task by the dlopen that refreshed the tree, and the task stays on the list.
LEMMA NextPending == ElfInv /\ TaskInv /\ PendingInv /\ [Next]_vars => PendingInv'
<1> SUFFICES ASSUME ElfInv /\ TaskInv /\ PendingInv, [Next]_vars,
                    NEW t \in Task \ Single, Covered(t)',
                    NEW p \in ScopeOf[t], Wanted(t, p)'
             PROVE  InPlace(t, p)' \/ Pending(t, p)'
  BY DEF PendingInv
<1> DEFINE Placed == InPlace(t, p)' \/ Pending(t, p)'
\* It is enough that the step makes nothing wanted and loses nothing pending.
<1>a. ASSUME Wanted(t, p), Covered(t), InPlace(t, p) => InPlace(t, p)',
             \A w \in Thread : PendingAt(w, t, p) => PendingAt(w, t, p)' \/ InPlace(t, p)'
      PROVE  Placed
  <2>1. InPlace(t, p) \/ Pending(t, p)
    BY <1>a DEF PendingInv
  <2> QED
    BY <1>a, <2>1 DEF Pending
<1>0. /\ p \in Path /\ t \in Task /\ t \notin finished
      /\ Covered(t)' /\ Wanted(t, p)' /\ ElfInv /\ TaskInv
  BY DEF ElfInv, TypeInv, TypeOK
<1> USE DEF ElfInv, ElfSafe, FreshInv, TypeInv, TypeOK, LoadedInv, CallInv, TaskInv,
            Calling, UsingElfs
<1>1. ASSUME NEW th \in Thread, Add(th) PROVE Placed
  <2>1. Wanted(t, p)
    BY <1>0, <1>1 DEF Wanted, Add, linkVars, elfVars, taskVars, lockVars, callVars
  <2>2. Covered(t)
    BY <1>0, <1>1
       DEF Covered, CoveredAt, Add, Goto, linkVars, elfVars, taskVars, lockVars, callVars
  <2>3. InPlace(t, p) => InPlace(t, p)'
    BY <1>0, <1>1 DEF InPlace, Add, linkVars, elfVars, taskVars, lockVars, callVars
  <2>4. ASSUME NEW w \in Thread, PendingAt(w, t, p) PROVE PendingAt(w, t, p)' \/ InPlace(t, p)'
    BY <1>0, <1>1, <2>4
       DEF PendingAt, InPlace, Add, Goto, linkVars, elfVars, taskVars, lockVars, callVars
  <2> QED
    BY <1>a, <2>1, <2>2, <2>3, <2>4
<1>2. ASSUME NEW th \in Thread, HookStart(th) PROVE Placed
  <2>1. Wanted(t, p)
    BY <1>2 DEF Wanted, HookStart, linkVars, elfVars
  <2>2. CASE task[th] = t
    <3>1. gen[p] \in 1..MaxGen /\ tree[p] = gen[p]
      BY <1>0, <2>1 DEF Wanted
    <3>2. <<p, gen[p]>> \in CopyElfs(t)
      BY <1>0, <3>1 DEF CopyElfs, InTree, Elf
    <3>3. PendingAt(th, t, p)'
      BY <1>0, <1>2, <2>2, <3>2 DEF PendingAt, HookStart, Goto, linkVars
    <3> QED
      BY <3>3 DEF Pending
  <2>3. CASE task[th] # t
    <3>1. Covered(t)
      BY <1>0, <1>2, <2>3 DEF Covered, CoveredAt, HookStart, Goto, taskVars
    <3>2. InPlace(t, p) => InPlace(t, p)'
      BY <1>2 DEF InPlace, HookStart, linkVars, taskVars
    <3>3. ASSUME NEW w \in Thread, PendingAt(w, t, p) PROVE PendingAt(w, t, p)'
      BY <1>0, <1>2, <2>3, <3>3 DEF PendingAt, HookStart, Goto, linkVars
    <3> QED
      BY <1>a, <2>1, <3>1, <3>2, <3>3
  <2> QED
    BY <2>2, <2>3
<1>3. ASSUME NEW th \in Thread, NEW o \in Elf, HookApply(th, o) PROVE Placed
  <2>1. Wanted(t, p)
    BY <1>0, <1>3
       DEF Wanted, HookApply, HookElf, linkVars, elfVars, taskVars, lockVars, callVars
  <2>2. Covered(t)
    BY <1>0, <1>3
       DEF Covered, CoveredAt, HookApply, Goto, linkVars, elfVars, taskVars, lockVars,
           callVars
  <2>3. InPlace(t, p) => InPlace(t, p)'
    BY <1>0, <1>3
       DEF InPlace, HookApply, HookElf, linkVars, elfVars, taskVars, lockVars, callVars
  <2>4. ASSUME NEW w \in Thread, PendingAt(w, t, p) PROVE PendingAt(w, t, p)' \/ InPlace(t, p)'
    BY <1>0, <1>3, <2>4
       DEF PendingAt, InPlace, HookApply, HookElf, Goto, linkVars, elfVars, taskVars,
           lockVars, callVars
  <2> QED
    BY <1>a, <2>1, <2>2, <2>3, <2>4
<1>4. ASSUME NEW th \in Thread, HookReturn(th) PROVE Placed
  <2>1. Wanted(t, p)
    BY <1>0, <1>4 DEF Wanted, HookReturn, linkVars, elfVars, taskVars, lockVars, callVars
  <2>2. Covered(t)
    BY <1>0, <1>4
       DEF Covered, CoveredAt, HookReturn, Goto, linkVars, elfVars, taskVars, lockVars,
           callVars
  <2>3. InPlace(t, p) => InPlace(t, p)'
    BY <1>0, <1>4 DEF InPlace, HookReturn, linkVars, elfVars, taskVars, lockVars, callVars
  <2>4. ASSUME NEW w \in Thread, PendingAt(w, t, p) PROVE PendingAt(w, t, p)' \/ InPlace(t, p)'
    BY <1>0, <1>4, <2>4
       DEF PendingAt, InPlace, HookReturn, Goto, linkVars, elfVars, taskVars, lockVars,
           callVars
  <2> QED
    BY <1>a, <2>1, <2>2, <2>3, <2>4
<1>5. ASSUME NEW th \in Thread, Del(th) PROVE Placed
  <2>1. Wanted(t, p)
    BY <1>0, <1>5 DEF Wanted, Del, linkVars, elfVars, taskVars, lockVars, callVars
  <2>2. Covered(t)
    BY <1>0, <1>5
       DEF Covered, CoveredAt, Del, Goto, linkVars, elfVars, taskVars, lockVars, callVars
  <2>3. InPlace(t, p) => InPlace(t, p)'
    BY <1>0, <1>5 DEF InPlace, Del, linkVars, elfVars, taskVars, lockVars, callVars
  <2>4. ASSUME NEW w \in Thread, PendingAt(w, t, p) PROVE PendingAt(w, t, p)' \/ InPlace(t, p)'
    BY <1>0, <1>5, <2>4
       DEF PendingAt, InPlace, Del, Goto, linkVars, elfVars, taskVars, lockVars, callVars
  <2> QED
    BY <1>a, <2>1, <2>2, <2>3, <2>4
<1>6. ASSUME NEW th \in Thread, UnhookStart(th) PROVE Placed
  <2>1. Wanted(t, p)
    BY <1>0, <1>6 DEF Wanted, UnhookStart, linkVars, elfVars, taskVars, lockVars, callVars
  <2>2. Covered(t)
    BY <1>0, <1>6
       DEF Covered, CoveredAt, UnhookStart, Goto, linkVars, elfVars, taskVars, lockVars,
           callVars
  <2>3. InPlace(t, p) => InPlace(t, p)'
    BY <1>0, <1>6 DEF InPlace, UnhookStart, linkVars, elfVars, taskVars, lockVars, callVars
  <2>4. ASSUME NEW w \in Thread, PendingAt(w, t, p) PROVE PendingAt(w, t, p)' \/ InPlace(t, p)'
    BY <1>0, <1>6, <2>4
       DEF PendingAt, InPlace, UnhookStart, Goto, linkVars, elfVars, taskVars, lockVars,
           callVars
  <2> QED
    BY <1>a, <2>1, <2>2, <2>3, <2>4
<1>7. ASSUME NEW th \in Thread, NEW o \in Elf, UnhookApply(th, o) PROVE Placed
  <2>1. Wanted(t, p)
    BY <1>0, <1>7
       DEF Wanted, UnhookApply, UnhookElf, linkVars, elfVars, taskVars, lockVars, callVars
  <2>2. Covered(t)
    BY <1>0, <1>7
       DEF Covered, CoveredAt, UnhookApply, Goto, linkVars, elfVars, taskVars, lockVars,
           callVars
  <2>3. InPlace(t, p) => InPlace(t, p)'
    <3>1. task[th] # t
      BY <1>0, <1>7, <2>2 DEF Covered, UnhookApply
    <3> QED
      BY <1>7, <3>1 DEF InPlace, UnhookApply, UnhookElf, linkVars
  <2>4. ASSUME NEW w \in Thread, PendingAt(w, t, p) PROVE PendingAt(w, t, p)' \/ InPlace(t, p)'
    BY <1>0, <1>7, <2>4
       DEF PendingAt, InPlace, UnhookApply, UnhookElf, Goto, linkVars, elfVars, taskVars,
           lockVars, callVars
  <2> QED
    BY <1>a, <2>1, <2>2, <2>3, <2>4
<1>8. ASSUME NEW th \in Thread, UnhookReturn(th) PROVE Placed
  <2>1. Wanted(t, p)
    BY <1>0, <1>8 DEF Wanted, UnhookReturn, linkVars, elfVars, taskVars, lockVars, callVars
  <2>2. Covered(t)
    BY <1>0, <1>8
       DEF Covered, CoveredAt, UnhookReturn, Goto, linkVars, elfVars, taskVars, lockVars,
           callVars
  <2>3. InPlace(t, p) => InPlace(t, p)'
    BY <1>0, <1>8 DEF InPlace, UnhookReturn, linkVars, elfVars, taskVars, lockVars, callVars
  <2>4. ASSUME NEW w \in Thread, PendingAt(w, t, p) PROVE PendingAt(w, t, p)' \/ InPlace(t, p)'
    BY <1>0, <1>8, <2>4
       DEF PendingAt, InPlace, UnhookReturn, Goto, linkVars, elfVars, taskVars, lockVars,
           callVars
  <2> QED
    BY <1>a, <2>1, <2>2, <2>3, <2>4
<1>9. ASSUME NEW th \in Thread, OpenRefresh(th) PROVE Placed
  <2>1. PICK new \in Newborns :
          /\ Refresh(new)
          /\ elfs' = [elfs EXCEPT ![th] = {<<q, gen[q]>> : q \in new}]
    BY <1>9 DEF OpenRefresh
  <2>2. UNCHANGED <<loaded, gen, missed, hooked, phase, task, elf, todo>>
    BY <1>9 DEF OpenRefresh, linkVars, taskVars
  <2>3. pc[th] = "open_rd" /\ pc' = [pc EXCEPT ![th] = "post"]
    BY <1>9 DEF OpenRefresh, Goto
  <2>4. CASE p \in new
    <3>1. PendingAt(th, t, p)'
      BY <1>0, <2>1, <2>2, <2>3, <2>4 DEF PendingAt
    <3> QED
      BY <3>1 DEF Pending
  <2>5. CASE p \notin new
    <3>1. Wanted(t, p)
      BY <1>0, <2>1, <2>2, <2>5 DEF Refresh, Wanted
    <3>2. Covered(t)
      BY <1>0, <2>2, <2>3 DEF Covered, CoveredAt
    <3>3. InPlace(t, p) => InPlace(t, p)'
      BY <2>2 DEF InPlace
    <3>4. ASSUME NEW w \in Thread, PendingAt(w, t, p) PROVE PendingAt(w, t, p)'
      BY <1>0, <2>1, <2>2, <2>3, <3>4 DEF PendingAt
    <3> QED
      BY <1>a, <3>1, <3>2, <3>3, <3>4
  <2> QED
    BY <2>4, <2>5
<1>10. ASSUME NEW th \in Thread, NEW o \in Elf, PostElf(th, o) PROVE Placed
  <2>1. Wanted(t, p)
    BY <1>0, <1>10 DEF Wanted, PostElf, linkVars, elfVars, taskVars, lockVars, callVars
  <2>2. Covered(t)
    BY <1>0, <1>10
       DEF Covered, CoveredAt, PostElf, Goto, linkVars, elfVars, taskVars, lockVars,
           callVars
  <2>3. InPlace(t, p) => InPlace(t, p)'
    BY <1>0, <1>10 DEF InPlace, PostElf, linkVars, elfVars, taskVars, lockVars, callVars
  <2>4. ASSUME NEW w \in Thread, PendingAt(w, t, p) PROVE PendingAt(w, t, p)'
    <3>1. CASE w # th
      BY <1>10, <2>4, <3>1 DEF PendingAt, PostElf, Goto, linkVars
    <3>2. CASE w = th
      <4>1. <<p, gen[p]>> \in elfs[th]
        BY <1>0, <1>10, <2>4, <3>2 DEF PendingAt, PostElf
      <4>2. t \in todo'[th] /\ elf'[th] = o
        BY <1>0, <1>10, <2>2 DEF PostElf, Covered
      <4>3. pc'[th] = "post_elf" /\ elfs'[th] = elfs[th] \ {o} /\ gen' = gen
        BY <1>10 DEF PostElf, Goto, linkVars
      <4> QED
        BY <3>2, <4>1, <4>2, <4>3 DEF PendingAt
    <3> QED
      BY <3>1, <3>2
  <2> QED
    BY <1>a, <2>1, <2>2, <2>3, <2>4
<1>11. ASSUME NEW th \in Thread, NEW u \in Task, PostTask(th, u) PROVE Placed
  <2>1. Wanted(t, p)
    BY <1>0, <1>11
       DEF Wanted, PostTask, HookElf, linkVars, elfVars, taskVars, lockVars, callVars
  <2>2. Covered(t)
    BY <1>0, <1>11
       DEF Covered, CoveredAt, PostTask, Goto, linkVars, elfVars, taskVars, lockVars,
           callVars
  <2>3. InPlace(t, p) => InPlace(t, p)'
    BY <1>0, <1>11
       DEF InPlace, PostTask, HookElf, linkVars, elfVars, taskVars, lockVars, callVars
  <2>4. ASSUME NEW w \in Thread, PendingAt(w, t, p) PROVE PendingAt(w, t, p)' \/ InPlace(t, p)'
    BY <1>0, <1>11, <2>4
       DEF PendingAt, InPlace, PostTask, HookElf, Goto, linkVars, elfVars, taskVars,
           lockVars, callVars
  <2> QED
    BY <1>a, <2>1, <2>2, <2>3, <2>4
<1>12. ASSUME NEW th \in Thread, PostElfDone(th) PROVE Placed
  <2>1. Wanted(t, p)
    BY <1>0, <1>12 DEF Wanted, PostElfDone, linkVars, elfVars, taskVars, lockVars, callVars
  <2>2. Covered(t)
    BY <1>0, <1>12
       DEF Covered, CoveredAt, PostElfDone, Goto, linkVars, elfVars, taskVars, lockVars,
           callVars
  <2>3. InPlace(t, p) => InPlace(t, p)'
    BY <1>0, <1>12 DEF InPlace, PostElfDone, linkVars, elfVars, taskVars, lockVars, callVars
  <2>4. ASSUME NEW w \in Thread, PendingAt(w, t, p) PROVE PendingAt(w, t, p)' \/ InPlace(t, p)'
    BY <1>0, <1>12, <2>4
       DEF PendingAt, InPlace, PostElfDone, Goto, linkVars, elfVars, taskVars, lockVars,
           callVars
  <2> QED
    BY <1>a, <2>1, <2>2, <2>3, <2>4
<1>13. ASSUME NEW th \in Thread, OpenReturn(th) PROVE Placed
  <2>1. Wanted(t, p)
    BY <1>0, <1>13 DEF Wanted, OpenReturn, linkVars, elfVars, taskVars, lockVars, callVars
  <2>2. Covered(t)
    BY <1>0, <1>13
       DEF Covered, CoveredAt, OpenReturn, Goto, linkVars, elfVars, taskVars, lockVars,
           callVars
  <2>3. InPlace(t, p) => InPlace(t, p)'
    BY <1>0, <1>13 DEF InPlace, OpenReturn, linkVars, elfVars, taskVars, lockVars, callVars
  <2>4. ASSUME NEW w \in Thread, PendingAt(w, t, p) PROVE PendingAt(w, t, p)' \/ InPlace(t, p)'
    BY <1>0, <1>13, <2>4
       DEF PendingAt, InPlace, OpenReturn, Goto, linkVars, elfVars, taskVars, lockVars,
           callVars
  <2> QED
    BY <1>a, <2>1, <2>2, <2>3, <2>4
<1>14. ASSUME NEW th \in Thread, CloseLock(th) PROVE Placed
  <2>1. Wanted(t, p)
    BY <1>0, <1>14 DEF Wanted, CloseLock, linkVars, elfVars, taskVars, lockVars, callVars
  <2>2. Covered(t)
    BY <1>0, <1>14
       DEF Covered, CoveredAt, CloseLock, Goto, linkVars, elfVars, taskVars, lockVars,
           callVars
  <2>3. InPlace(t, p) => InPlace(t, p)'
    BY <1>0, <1>14 DEF InPlace, CloseLock, linkVars, elfVars, taskVars, lockVars, callVars
  <2>4. ASSUME NEW w \in Thread, PendingAt(w, t, p) PROVE PendingAt(w, t, p)' \/ InPlace(t, p)'
    BY <1>0, <1>14, <2>4
       DEF PendingAt, InPlace, CloseLock, Goto, linkVars, elfVars, taskVars, lockVars,
           callVars
  <2> QED
    BY <1>a, <2>1, <2>2, <2>3, <2>4
<1>15. ASSUME NEW th \in Thread, CloseLink(th) PROVE Placed
  <2>1. Wanted(t, p)
    BY <1>0, <1>15 DEF Wanted, CloseLink, linkVars, elfVars, taskVars, lockVars, callVars
  <2>2. Covered(t)
    BY <1>0, <1>15
       DEF Covered, CoveredAt, CloseLink, Goto, linkVars, elfVars, taskVars, lockVars,
           callVars
  <2>3. InPlace(t, p) => InPlace(t, p)'
    <3>1. p # path[th]
      BY <1>0, <1>15 DEF Wanted, CloseLink
    <3> QED
      BY <1>15, <3>1 DEF InPlace, CloseLink
  <2>4. ASSUME NEW w \in Thread, PendingAt(w, t, p) PROVE PendingAt(w, t, p)' \/ InPlace(t, p)'
    BY <1>0, <1>15, <2>4
       DEF PendingAt, InPlace, CloseLink, Goto, linkVars, elfVars, taskVars, lockVars,
           callVars
  <2> QED
    BY <1>a, <2>1, <2>2, <2>3, <2>4
<1>16. ASSUME NEW th \in Thread, CloseKeeps(th) PROVE Placed
  <2>1. Wanted(t, p)
    BY <1>0, <1>16 DEF Wanted, CloseKeeps, linkVars, elfVars, taskVars, lockVars, callVars
  <2>2. Covered(t)
    BY <1>0, <1>16
       DEF Covered, CoveredAt, CloseKeeps, Goto, linkVars, elfVars, taskVars, lockVars,
           callVars
  <2>3. InPlace(t, p) => InPlace(t, p)'
    BY <1>0, <1>16 DEF InPlace, CloseKeeps, linkVars, elfVars, taskVars, lockVars, callVars
  <2>4. ASSUME NEW w \in Thread, PendingAt(w, t, p) PROVE PendingAt(w, t, p)' \/ InPlace(t, p)'
    BY <1>0, <1>16, <2>4
       DEF PendingAt, InPlace, CloseKeeps, Goto, linkVars, elfVars, taskVars, lockVars,
           callVars
  <2> QED
    BY <1>a, <2>1, <2>2, <2>3, <2>4
<1>17. ASSUME NEW th \in Thread, CloseFails(th) PROVE Placed
  <2>1. Wanted(t, p)
    BY <1>0, <1>17 DEF Wanted, CloseFails, linkVars, elfVars, taskVars, lockVars, callVars
  <2>2. Covered(t)
    BY <1>0, <1>17
       DEF Covered, CoveredAt, CloseFails, Goto, linkVars, elfVars, taskVars, lockVars,
           callVars
  <2>3. InPlace(t, p) => InPlace(t, p)'
    BY <1>0, <1>17 DEF InPlace, CloseFails, linkVars, elfVars, taskVars, lockVars, callVars
  <2>4. ASSUME NEW w \in Thread, PendingAt(w, t, p) PROVE PendingAt(w, t, p)' \/ InPlace(t, p)'
    BY <1>0, <1>17, <2>4
       DEF PendingAt, InPlace, CloseFails, Goto, linkVars, elfVars, taskVars, lockVars,
           callVars
  <2> QED
    BY <1>a, <2>1, <2>2, <2>3, <2>4
<1>18. ASSUME NEW th \in Thread, CloseReturn(th) PROVE Placed
  <2>1. PICK new \in Newborns :
          /\ Refresh(new)
          /\ missed' = missed \cup
               {<<u, q, gen[q]>> : u \in {v \in Task : phase[v] # "new"}, q \in new}
    BY <1>18 DEF CloseReturn
  <2>2. UNCHANGED <<loaded, gen, hooked, phase, task, elfs, elf, todo>>
    BY <1>18 DEF CloseReturn, linkVars, taskVars
  <2>3. pc[th] = "closed" /\ pc' = [pc EXCEPT ![th] = "idle"]
    BY <1>18 DEF CloseReturn, Goto
  <2>4. Covered(t)
    BY <1>0, <2>2, <2>3 DEF Covered, CoveredAt
  <2>5. p \notin new
    BY <1>0, <2>1, <2>2, <2>4 DEF Wanted, Covered
  <2>6. Wanted(t, p)
    BY <1>0, <2>1, <2>2, <2>5 DEF Refresh, Wanted
  <2>7. InPlace(t, p) => InPlace(t, p)'
    BY <2>2 DEF InPlace
  <2>8. ASSUME NEW w \in Thread, PendingAt(w, t, p) PROVE PendingAt(w, t, p)'
    BY <1>0, <2>2, <2>3, <2>8 DEF PendingAt
  <2> QED
    BY <1>a, <2>4, <2>6, <2>7, <2>8
<1>19. ASSUME NEW th \in Thread, NEW u \in Task, HookCall(th, u) PROVE Placed
  <2>1. Wanted(t, p)
    BY <1>0, <1>19 DEF Wanted, HookCall, linkVars, elfVars, taskVars, lockVars, callVars
  <2>2. Covered(t)
    BY <1>0, <1>19
       DEF Covered, CoveredAt, HookCall, Goto, linkVars, elfVars, taskVars, lockVars,
           callVars
  <2>3. InPlace(t, p) => InPlace(t, p)'
    BY <1>0, <1>19 DEF InPlace, HookCall, linkVars, elfVars, taskVars, lockVars, callVars
  <2>4. ASSUME NEW w \in Thread, PendingAt(w, t, p) PROVE PendingAt(w, t, p)' \/ InPlace(t, p)'
    BY <1>0, <1>19, <2>4
       DEF PendingAt, InPlace, HookCall, Goto, linkVars, elfVars, taskVars, lockVars,
           callVars
  <2> QED
    BY <1>a, <2>1, <2>2, <2>3, <2>4
<1>20. ASSUME NEW th \in Thread, NEW u \in Task, UnhookCall(th, u) PROVE Placed
  <2>1. Wanted(t, p)
    BY <1>0, <1>20 DEF Wanted, UnhookCall, linkVars, elfVars, taskVars, lockVars, callVars
  <2>2. Covered(t)
    BY <1>0, <1>20
       DEF Covered, CoveredAt, UnhookCall, Goto, linkVars, elfVars, taskVars, lockVars,
           callVars
  <2>3. InPlace(t, p) => InPlace(t, p)'
    BY <1>0, <1>20 DEF InPlace, UnhookCall, linkVars, elfVars, taskVars, lockVars, callVars
  <2>4. ASSUME NEW w \in Thread, PendingAt(w, t, p) PROVE PendingAt(w, t, p)' \/ InPlace(t, p)'
    BY <1>0, <1>20, <2>4
       DEF PendingAt, InPlace, UnhookCall, Goto, linkVars, elfVars, taskVars, lockVars,
           callVars
  <2> QED
    BY <1>a, <2>1, <2>2, <2>3, <2>4
<1>21. ASSUME NEW th \in Thread, NEW q \in Path, OpenCall(th, q) PROVE Placed
  <2>1. p # q
    BY <1>0, <1>21 DEF Wanted, OpenCall, elfVars
  <2>2. loaded'[p] = loaded[p] /\ gen'[p] = gen[p]
    BY <1>0, <1>21, <2>1 DEF OpenCall
  <2>3. UNCHANGED <<tree, missed, hooked, phase, task, elfs, elf, todo>>
    BY <1>21 DEF OpenCall, elfVars, taskVars
  <2>4. pc[th] = "idle" /\ pc' = [pc EXCEPT ![th] = "open_rd"]
    BY <1>21 DEF OpenCall, Goto
  <2>5. Wanted(t, p) /\ (InPlace(t, p) => InPlace(t, p)')
    BY <1>0, <2>2, <2>3 DEF Wanted, InPlace
  <2>6. Covered(t)
    BY <1>0, <2>3, <2>4 DEF Covered, CoveredAt
  <2>7. ASSUME NEW w \in Thread, PendingAt(w, t, p) PROVE PendingAt(w, t, p)'
    BY <1>0, <2>2, <2>3, <2>4, <2>7 DEF PendingAt
  <2> QED
    BY <1>a, <2>5, <2>6, <2>7
<1>22. ASSUME NEW th \in Thread, NEW q \in Path, CloseCall(th, q) PROVE Placed
  <2>1. Wanted(t, p)
    BY <1>0, <1>22 DEF Wanted, CloseCall, linkVars, elfVars, taskVars, lockVars, callVars
  <2>2. Covered(t)
    BY <1>0, <1>22
       DEF Covered, CoveredAt, CloseCall, Goto, linkVars, elfVars, taskVars, lockVars,
           callVars
  <2>3. InPlace(t, p) => InPlace(t, p)'
    BY <1>0, <1>22 DEF InPlace, CloseCall, linkVars, elfVars, taskVars, lockVars, callVars
  <2>4. ASSUME NEW w \in Thread, PendingAt(w, t, p) PROVE PendingAt(w, t, p)' \/ InPlace(t, p)'
    BY <1>0, <1>22, <2>4
       DEF PendingAt, InPlace, CloseCall, Goto, linkVars, elfVars, taskVars, lockVars,
           callVars
  <2> QED
    BY <1>a, <2>1, <2>2, <2>3, <2>4
<1>23. ASSUME NEW q \in Path, AddIgnore(q) PROVE Placed
  <2>1. Wanted(t, p)
    BY <1>0, <1>23 DEF Wanted, AddIgnore, linkVars, elfVars, taskVars, lockVars, callVars
  <2>2. Covered(t)
    BY <1>0, <1>23
       DEF Covered, CoveredAt, AddIgnore, Goto, linkVars, elfVars, taskVars, lockVars,
           callVars
  <2>3. InPlace(t, p) => InPlace(t, p)'
    BY <1>0, <1>23 DEF InPlace, AddIgnore, linkVars, elfVars, taskVars, lockVars, callVars
  <2>4. ASSUME NEW w \in Thread, PendingAt(w, t, p) PROVE PendingAt(w, t, p)' \/ InPlace(t, p)'
    BY <1>0, <1>23, <2>4
       DEF PendingAt, InPlace, AddIgnore, Goto, linkVars, elfVars, taskVars, lockVars,
           callVars
  <2> QED
    BY <1>a, <2>1, <2>2, <2>3, <2>4
<1>24. CASE UNCHANGED vars
  <2>1. Wanted(t, p)
    BY <1>0, <1>24 DEF Wanted, vars, linkVars, elfVars, taskVars, lockVars, callVars
  <2>2. Covered(t)
    BY <1>0, <1>24
       DEF Covered, CoveredAt, vars, Goto, linkVars, elfVars, taskVars, lockVars, callVars
  <2>3. InPlace(t, p) => InPlace(t, p)'
    BY <1>0, <1>24 DEF InPlace, vars, linkVars, elfVars, taskVars, lockVars, callVars
  <2>4. ASSUME NEW w \in Thread, PendingAt(w, t, p) PROVE PendingAt(w, t, p)' \/ InPlace(t, p)'
    BY <1>0, <1>24, <2>4
       DEF PendingAt, InPlace, vars, Goto, linkVars, elfVars, taskVars, lockVars, callVars
  <2> QED
    BY <1>a, <2>1, <2>2, <2>3, <2>4
<1> QED
  BY <1>1, <1>2, <1>3, <1>4, <1>5, <1>6, <1>7, <1>8, <1>9, <1>10, <1>11,
     <1>12, <1>13, <1>14, <1>15, <1>16, <1>17, <1>18, <1>19, <1>20, <1>21,
     <1>22, <1>23, <1>24
     DEF Next, Progress, Call, Quiet

-----------------------------------------------------------------------------

\* The inductive invariant holds when the monitor starts.
LEMMA InitInv == Init => IInv
<1> SUFFICES ASSUME Init PROVE IInv
  OBVIOUS
<1>1. TypeInv
  BY InitType
<1>2. FreshInv /\ NoElfUseAfterFree
  BY <1>1 DEF Init, TypeInv, TypeOK, FreshInv, NoElfUseAfterFree, Held
<1>3. TaskInv /\ ReachInv /\ UnhookInv
  BY DEF Init, TaskInv, ReachInv, UnhookInv, UnhookComplete, Held
<1>4. PendingInv
  BY DEF Init, PendingInv, Covered
<1> QED
  BY <1>1, <1>2, <1>3, <1>4 DEF IInv, ElfInv, ElfSafe

\* The inductive invariant holds of every behaviour of the specification.
THEOREM Invariance == Spec => []IInv
<1>1. IInv /\ [Next]_vars => IInv'
  BY NextType, NextElf, NextTask, NextReach, NextUnhook, NextPending
     DEF IInv, ElfInv, ElfSafe
<1> QED
  BY InitInv, <1>1, PTL DEF Spec

\* Type correctness of the task manager, the ELF manager and their callers.
THEOREM TypeCorrect == Spec => []TypeOK
<1>1. IInv => TypeOK
  BY DEF IInv, ElfInv, ElfSafe, TypeInv
<1> QED
  BY Invariance, <1>1, PTL

\* The copied ELF pointers that bh_elf_manager_iterate and the notifications use
\* without elfs_lock never point to an object that a dlclose destroyed.
THEOREM ElfSafety == Spec => []NoElfUseAfterFree
<1>1. IInv => NoElfUseAfterFree
  BY DEF IInv, ElfInv, ElfSafe
<1> QED
  BY Invariance, <1>1, PTL

\* No thread applies or unhooks a task that bh_core_unhook has freed.
THEOREM TaskSafety == Spec => []NoTaskUseAfterFree
<1>1. IInv => NoTaskUseAfterFree
  BY DEF IInv, ElfInv, ElfSafe, TypeInv, TypeOK, PC, CallInv, TaskInv, Calling,
         NoTaskUseAfterFree
<1> QED
  BY Invariance, <1>1, PTL

\* A task whose unhook returned is in place in no library it can still reach,
\* whatever libraries were opened, closed and refreshed meanwhile.
THEOREM UnhookSafety == Spec => []UnhookComplete
<1>1. IInv => UnhookComplete
  BY DEF IInv, UnhookInv
<1> QED
  BY Invariance, <1>1, PTL

\* When no call is in progress, a partial or all task whose hook call returned is in
\* place in every library with an ELF object, however hook, dlopen and dlclose calls
\* interleaved, unless the object was made by the refresh after a dlclose.
THEOREM HookSafety == Spec => []HookedUnlessMissed
<1>1. IInv => HookedUnlessMissed
  <2> SUFFICES ASSUME IInv, Quiescent, NEW t \in Task \ Single, phase[t] = "stub",
                      NEW p \in ScopeOf[t], Wanted(t, p)
               PROVE  InPlace(t, p)
    BY DEF HookedUnlessMissed, Wanted, InPlace
  <2>1. InPlace(t, p) \/ Pending(t, p)
    BY DEF IInv, PendingInv, Covered
  <2>2. ~Pending(t, p)
    BY DEF IInv, ElfInv, TypeInv, CallInv, Quiescent, Pending, PendingAt
  <2> QED
    BY <2>1, <2>2
<1> QED
  BY Invariance, <1>1, PTL

=============================================================================
