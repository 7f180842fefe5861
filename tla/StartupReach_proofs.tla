------------------------- MODULE StartupReach_proofs -------------------------
(***************************************************************************)
(* Every task reaches every library: AppliedUnlessRaced of Startup, for    *)
(* every number of threads, libraries, callbacks, signals and slots, and   *)
(* every scenario.  Its inductive invariant, ReachInv, holds beside that   *)
(* of Startup_proofs.                                                      *)
(***************************************************************************)
EXTENDS Startup_proofs

-----------------------------------------------------------------------------
(* Control flow                                                            *)

\* What lies in the stacks of each kind.
LEMMA RangeFacts ==
  /\ \A n \in Nat : Range(Nest(n)) \subseteq {"idle", "ctor"}
  /\ Range(FromHook) = {"hooked"}
  /\ \A s \in Starts : Range(s) \subseteq {"tm_store", "hooked", "add_cb"}
  /\ \A s \in HookStacks : /\ Range(s) \subseteq {"mon", "tm_store", "hooked", "add_cb"}
                           /\ "hooked" \in Range(s) \/ "mon" \in Range(s)
                           /\ s \in Seq(Label)
<1>0. {"idle", "ctor", "tm_store", "hooked", "add_cb", "mon"} \subseteq Label
  BY DEF Label, TopL, TmL, DlL, LinkL
<1>e. <<>> \in Seq(Label) /\ \A y : y \notin Range(<<>>)
  BY DEF Range
<1>1. ASSUME NEW n \in Nat PROVE Range(Nest(n)) \subseteq {"idle", "ctor"}
  BY DEF Nest, Range
<1>2. FromHook \in Seq(Label) /\ Range(FromHook) = {"hooked"}
  <2>1. \A y : y \in Range(On("hooked", <<>>)) <=> y = "hooked" \/ y \in Range(<<>>)
    BY <1>0, <1>e, PushPop
  <2> QED
    BY <1>e, <2>1, StackFacts DEF FromHook
<1>3. ASSUME NEW s \in Starts
      PROVE  s \in Seq(Label) /\ Range(s) \subseteq {"tm_store", "hooked", "add_cb"}
  <2>1. CASE s = On("tm_store", FromHook)
    <3>1. \A y : y \in Range(On("tm_store", FromHook)) <=> y = "tm_store" \/ y \in Range(FromHook)
      BY <1>0, <1>2, PushPop
    <3> QED
      BY <1>2, <2>1, <3>1, StackFacts
  <2>2. CASE s = On("add_cb", <<>>)
    <3>1. \A y : y \in Range(On("add_cb", <<>>)) <=> y = "add_cb" \/ y \in Range(<<>>)
      BY <1>0, <1>e, PushPop
    <3> QED
      BY <1>e, <2>2, <3>1, StackFacts
  <2> QED
    BY <2>1, <2>2 DEF Starts
<1>4. ASSUME NEW s \in HookStacks
      PROVE  /\ Range(s) \subseteq {"mon", "tm_store", "hooked", "add_cb"}
             /\ "hooked" \in Range(s) \/ "mon" \in Range(s)
             /\ s \in Seq(Label)
  <2>1. CASE s = FromHook
    BY <1>2, <2>1
  <2>2. CASE s \in MonStacks
    <3>1. PICK z \in Starts : s = On("mon", z)
      BY <2>2 DEF MonStacks
    <3>2. \A y : y \in Range(On("mon", z)) <=> y = "mon" \/ y \in Range(z)
      BY <1>0, <1>3, PushPop
    <3> QED
      BY <1>3, <2>2, <3>1, <3>2, StackFacts
  <2> QED
    BY <2>1, <2>2 DEF HookStacks
<1> QED
  BY <1>1, <1>2, <1>3, <1>4

\* What lies under a pass: one of the application, or of the monitor, or a notification.
LEMMA VisitRange ==
  ASSUME NEW n \in Nat, NEW v \in VisitStacks(n)
  PROVE  /\ v \in Seq(Label)
         /\ n = 0 => /\ Range(v) \subseteq {"one_end", "rdunlock", "mon", "tm_store", "hooked", "add_cb"}
                     /\ "hooked" \in Range(v) \/ "mon" \in Range(v)
                     /\ "one_end" \in Range(v) \/ "rdunlock" \in Range(v)
         /\ n > 0 => /\ Range(v) \subseteq {"post_end", "idle", "ctor"}
                     /\ "post_end" \in Range(v)
<1>0. {"one_end", "rdunlock", "post_end"} \subseteq Label
  BY DEF Label, HookL, LinkL
<1>1. CASE n = 0
  <2>1. PICK back \in {"one_end", "rdunlock"}, s \in HookStacks : v = On(back, s)
    BY <1>1 DEF VisitStacks
  <2>2. /\ On(back, s) \in Seq(Label)
        /\ \A y : y \in Range(On(back, s)) <=> y = back \/ y \in Range(s)
    <3>1. back \in Label /\ s \in Seq(Label)
      BY <1>0, RangeFacts
    <3> QED
      BY <3>1, PushPop
  <2>3. /\ Range(s) \subseteq {"mon", "tm_store", "hooked", "add_cb"}
        /\ "hooked" \in Range(s) \/ "mon" \in Range(s)
    BY RangeFacts
  <2> QED
    BY <1>1, <2>1, <2>2, <2>3
<1>2. CASE n > 0
  <2>1. v = On("post_end", Nest(n))
    BY <1>2 DEF VisitStacks
  <2>2. /\ On("post_end", Nest(n)) \in Seq(Label)
        /\ \A y : y \in Range(On("post_end", Nest(n))) <=> y = "post_end" \/ y \in Range(Nest(n))
    BY <1>0, NestFacts, PushPop
  <2>3. Range(Nest(n)) \subseteq {"idle", "ctor"}
    BY RangeFacts
  <2> QED
    BY <1>2, <2>1, <2>2, <2>3
<1> QED
  BY <1>1, <1>2

\* What a label says of the stack under it.
LEMMA RangeFits ==
  ASSUME NEW l \in Label, NEW n \in Nat, NEW s, Fits(l, s, n)
  PROVE  /\ Range(s) \subseteq Backs
         /\ "post_end" \in Range(s) => l \in VisitL \cup SectionL /\ n > 0
         /\ "mon" \in Range(s) => l \in HookL \cup VisitL \cup SectionL /\ n = 0
         /\ "one_end" \in Range(s) \/ "rdunlock" \in Range(s) => l \in VisitL \cup SectionL /\ n = 0
         /\ l \in TmL => "hooked" \in Range(s)
         /\ l \in HookL => "hooked" \in Range(s) \/ "mon" \in Range(s)
         /\ l \in VisitL \cup SectionL =>
               IF n > 0 THEN "post_end" \in Range(s)
               ELSE /\ "hooked" \in Range(s) \/ "mon" \in Range(s)
                    /\ "one_end" \in Range(s) \/ "rdunlock" \in Range(s)
<1>l. /\ l \in TopL \cup InitL \cup TmL \cup HookL \cup DlL \cup LinkL => l \notin VisitL \cup SectionL
      /\ l \in TopL \cup InitL \cup TmL \cup DlL \cup LinkL \cup VisitL \cup SectionL => l \notin HookL
      /\ l \in TopL \cup InitL \cup HookL \cup DlL \cup LinkL \cup VisitL \cup SectionL => l \notin TmL
  BY DEF TopL, InitL, TmL, HookL, DlL, LinkL, VisitL, SectionL
<1> USE DEF Backs
<1>1. CASE l \in TopL
  <2>1. s = <<>>
    BY <1>1 DEF Fits
  <2>2. Range(s) = {}
    BY <2>1 DEF Range
  <2> QED
    BY <1>1, <1>l, <2>2
<1>2. CASE l \in InitL
  <2>1. s = Nest(1)
    BY <1>2 DEF Fits
  <2> QED
    BY <1>2, <1>l, <2>1, RangeFacts
<1>3. CASE l \in TmL
  <2>1. s = FromHook
    BY <1>3 DEF Fits
  <2> QED
    BY <1>3, <1>l, <2>1, RangeFacts
<1>4. CASE l \in HookL
  <2>1. s \in HookStacks /\ n = 0
    BY <1>4 DEF Fits
  <2>2. /\ Range(s) \subseteq {"mon", "tm_store", "hooked", "add_cb"}
        /\ "hooked" \in Range(s) \/ "mon" \in Range(s)
    BY <2>1, RangeFacts
  <2> QED
    BY <1>4, <1>l, <2>1, <2>2
<1>5. CASE l \in DlL
  <2>1. s \in Starts
    BY <1>5 DEF Fits
  <2>2. Range(s) \subseteq {"tm_store", "hooked", "add_cb"}
    BY <2>1, RangeFacts
  <2> QED
    BY <1>5, <1>l, <2>2
<1>6. CASE l \in LinkL
  <2>1. s = Nest(n)
    BY <1>6 DEF Fits
  <2>2. Range(s) \subseteq {"idle", "ctor"}
    BY <2>1, RangeFacts
  <2> QED
    BY <1>6, <1>l, <2>2
<1>7. CASE l \in VisitL \cup SectionL
  <2>1. PICK v \in VisitStacks(n) : s = v \/ s = On("parsed", v)
    BY <1>7 DEF Fits
  <2>2. \A y : y \in Range(s) => y = "parsed" \/ y \in Range(v)
    <3>1. v \in Seq(Label) /\ "parsed" \in Label
      BY VisitRange DEF Label, VisitL
    <3>2. \A y : y \in Range(On("parsed", v)) <=> y = "parsed" \/ y \in Range(v)
      BY <3>1, PushPop
    <3> QED
      BY <2>1, <3>2
  <2>3. \A y : y \in Range(v) => y \in Range(s)
    <3>1. v \in Seq(Label) /\ "parsed" \in Label
      BY VisitRange DEF Label, VisitL
    <3>2. \A y : y \in Range(On("parsed", v)) <=> y = "parsed" \/ y \in Range(v)
      BY <3>1, PushPop
    <3> QED
      BY <2>1, <3>2
  <2>4. CASE n = 0
    <3>1. /\ Range(v) \subseteq {"one_end", "rdunlock", "mon", "tm_store", "hooked", "add_cb"}
          /\ "hooked" \in Range(v) \/ "mon" \in Range(v)
          /\ "one_end" \in Range(v) \/ "rdunlock" \in Range(v)
      BY <2>4, VisitRange
    <3> QED
      BY <1>7, <1>l, <2>2, <2>3, <2>4, <3>1
  <2>5. CASE n > 0
    <3>1. /\ Range(v) \subseteq {"post_end", "idle", "ctor"} /\ "post_end" \in Range(v)
      BY <2>5, VisitRange
    <3> QED
      BY <1>7, <1>l, <2>2, <2>3, <2>5, <3>1
  <2> QED
    BY <2>4, <2>5
<1> QED
  BY <1>1, <1>2, <1>3, <1>4, <1>5, <1>6, <1>7 DEF Label

\* What can run at a label.
Runs(th) ==
    /\ pc[th] = "idle" => \/ InitCall(th) \/ HookCall(th)
                          \/ \E l \in Lib : OpenCall(th, l) \/ CloseCall(th, l)
                          \/ \E c \in Callbacks : AddCallback(th, c) \/ DelCallback(th, c)
    /\ pc[th] = "hooked" => HookReturn(th)
    /\ pc[th] = "oneshot" => OneShot(th)
    /\ pc[th] = "one" => OneLocked(th)
    /\ pc[th] = "one_refresh" => OneRefresh(th)
    /\ pc[th] = "one_end" => OneEnd(th)
    /\ pc[th] = "rdlock" => RdLock(th)
    /\ pc[th] = "rdunlock" => RdUnlock(th)
    /\ pc[th] = "tm_init" => TmInit(th)
    /\ pc[th] = "tm_locked" => TmLocked(th)
    /\ pc[th] = "tm_store" => TmStore(th)
    /\ pc[th] = "tm_done" => TmDone(th)
    /\ pc[th] = "dl_init" => DlInit(th)
    /\ pc[th] = "dl_locked" => DlLocked(th)
    /\ pc[th] = "mon" => MonHook(th) \/ MonFail(th) \/ MonDone(th)
    /\ pc[th] = "uninit" => Uninit(th)
    /\ pc[th] = "dl_end" => DlEnd(th)
    /\ pc[th] = "visit" => VisitEnd(th) \/ \E l \in Lib : Visit(th, l)
    /\ pc[th] = "parse" => Parse(th)
    /\ pc[th] = "parsed" => Parsed(th)
    /\ pc[th] = "find" => Find(th)
    /\ pc[th] = "link" => Link(th)
    /\ pc[th] = "ctor" => Linked(th) \/ \E l \in Lib : OpenCall(th, l) \/ CloseCall(th, l)
    /\ pc[th] = "opened" => Opened(th)
    /\ pc[th] = "post_rd" => PostRdLock(th)
    /\ pc[th] = "post_refresh" => PostRefresh(th)
    /\ pc[th] = "post_end" => PostEnd(th)
    /\ pc[th] = "open_end" => OpenEnd(th)
    /\ pc[th] = "wrlock" => WrLock(th)
    /\ pc[th] = "unlink" => Unlink(th)
    /\ pc[th] = "sync_refresh" => SyncRefresh(th)
    /\ pc[th] = "close_end" => CloseEnd(th)

\* Every step is one that its label allows.
LEMMA StepRuns ==
  ASSUME NEW th \in Thread, Step(th)
  PROVE  Runs(th)
<1> USE DEF Call, LinkerCall, CallCb
<1>1. ASSUME InitCall(th) PROVE Runs(th)
  BY <1>1 DEF InitCall, Runs
<1>2. ASSUME InitLock(th) PROVE Runs(th)
  BY <1>2 DEF InitLock, Runs
<1>3. ASSUME InitPart(th) PROVE Runs(th)
  BY <1>3 DEF InitPart, Runs
<1>4. ASSUME InitEnd(th) PROVE Runs(th)
  BY <1>4 DEF InitEnd, Runs
<1>5. ASSUME HookCall(th) PROVE Runs(th)
  BY <1>5 DEF HookCall, Runs
<1>6. ASSUME HookReturn(th) PROVE Runs(th)
  BY <1>6 DEF HookReturn, Runs
<1>7. ASSUME TmHook(th) PROVE Runs(th)
  BY <1>7 DEF TmHook, Runs
<1>8. ASSUME OneShot(th) PROVE Runs(th)
  BY <1>8 DEF OneShot, Runs
<1>9. ASSUME OneLocked(th) PROVE Runs(th)
  BY <1>9 DEF OneLocked, Runs
<1>10. ASSUME OneRefresh(th) PROVE Runs(th)
  BY <1>10 DEF OneRefresh, Runs
<1>11. ASSUME OneEnd(th) PROVE Runs(th)
  BY <1>11 DEF OneEnd, Runs
<1>12. ASSUME RdLock(th) PROVE Runs(th)
  BY <1>12 DEF RdLock, Runs
<1>13. ASSUME RdUnlock(th) PROVE Runs(th)
  BY <1>13 DEF RdUnlock, Runs
<1>14. ASSUME TmInit(th) PROVE Runs(th)
  BY <1>14 DEF TmInit, Runs
<1>15. ASSUME TmLocked(th) PROVE Runs(th)
  BY <1>15 DEF TmLocked, Runs
<1>16. ASSUME TmStore(th) PROVE Runs(th)
  BY <1>16 DEF TmStore, Runs
<1>17. ASSUME TmDone(th) PROVE Runs(th)
  BY <1>17 DEF TmDone, Runs
<1>18. ASSUME DlInit(th) PROVE Runs(th)
  BY <1>18 DEF DlInit, Runs
<1>19. ASSUME DlLocked(th) PROVE Runs(th)
  BY <1>19 DEF DlLocked, Runs
<1>20. ASSUME MonHook(th) PROVE Runs(th)
  BY <1>20 DEF MonHook, Runs
<1>21. ASSUME MonFail(th) PROVE Runs(th)
  BY <1>21 DEF MonFail, Runs
<1>22. ASSUME MonDone(th) PROVE Runs(th)
  BY <1>22 DEF MonDone, Runs
<1>23. ASSUME Uninit(th) PROVE Runs(th)
  BY <1>23 DEF Uninit, Runs
<1>24. ASSUME DlEnd(th) PROVE Runs(th)
  BY <1>24 DEF DlEnd, Runs
<1>25. ASSUME VisitEnd(th) PROVE Runs(th)
  BY <1>25 DEF VisitEnd, Runs
<1>26. ASSUME Parse(th) PROVE Runs(th)
  BY <1>26 DEF Parse, Runs
<1>27. ASSUME Parsed(th) PROVE Runs(th)
  BY <1>27 DEF Parsed, Runs
<1>28. ASSUME Find(th) PROVE Runs(th)
  BY <1>28 DEF Find, Runs
<1>29. ASSUME Store(th) PROVE Runs(th)
  BY <1>29 DEF Store, Runs
<1>30. ASSUME Leave(th) PROVE Runs(th)
  BY <1>30 DEF Leave, Runs
<1>31. ASSUME Clear(th) PROVE Runs(th)
  BY <1>31 DEF Clear, Runs
<1>32. ASSUME Free(th) PROVE Runs(th)
  BY <1>32 DEF Free, Runs
<1>33. ASSUME AddCb(th) PROVE Runs(th)
  BY <1>33 DEF AddCb, Runs
<1>34. ASSUME Pre(th) PROVE Runs(th)
  BY <1>34 DEF Pre, Runs
<1>35. ASSUME Post(th) PROVE Runs(th)
  BY <1>35 DEF Post, Runs
<1>36. ASSUME Link(th) PROVE Runs(th)
  BY <1>36 DEF Link, Runs
<1>37. ASSUME Linked(th) PROVE Runs(th)
  BY <1>37 DEF Linked, Runs
<1>38. ASSUME Opened(th) PROVE Runs(th)
  BY <1>38 DEF Opened, Runs
<1>39. ASSUME PostRdLock(th) PROVE Runs(th)
  BY <1>39 DEF PostRdLock, Runs
<1>40. ASSUME PostRefresh(th) PROVE Runs(th)
  BY <1>40 DEF PostRefresh, Runs
<1>41. ASSUME PostEnd(th) PROVE Runs(th)
  BY <1>41 DEF PostEnd, Runs
<1>42. ASSUME OpenEnd(th) PROVE Runs(th)
  BY <1>42 DEF OpenEnd, Runs
<1>43. ASSUME WrLock(th) PROVE Runs(th)
  BY <1>43 DEF WrLock, Runs
<1>44. ASSUME Unlink(th) PROVE Runs(th)
  BY <1>44 DEF Unlink, Runs
<1>45. ASSUME SyncRefresh(th) PROVE Runs(th)
  BY <1>45 DEF SyncRefresh, Runs
<1>46. ASSUME CloseEnd(th) PROVE Runs(th)
  BY <1>46 DEF CloseEnd, Runs
<1>47. ASSUME NEW l \in Lib, Visit(th, l) PROVE Runs(th)
  BY <1>47 DEF Visit, Runs
<1>48. ASSUME NEW l \in Lib, OpenCall(th, l) PROVE Runs(th)
  BY <1>48 DEF OpenCall, Runs
<1>49. ASSUME NEW l \in Lib, CloseCall(th, l) PROVE Runs(th)
  BY <1>49 DEF CloseCall, Runs
<1>50. ASSUME NEW j \in 1..SlotMax, Claim(th, j) PROVE Runs(th)
  BY <1>50 DEF Claim, Runs
<1>51. ASSUME NEW s \in Range(Signals), Handler(th, s) PROVE Runs(th)
  BY <1>51 DEF Handler, Runs
<1>52. ASSUME NEW c \in Callbacks, AddCallback(th, c) PROVE Runs(th)
  BY <1>52 DEF AddCallback, Runs
<1>53. ASSUME NEW c \in Callbacks, DelCallback(th, c) PROVE Runs(th)
  BY <1>53 DEF DelCallback, Runs
<1> QED
  BY <1>1, <1>2, <1>3, <1>4, <1>5, <1>6, <1>7, <1>8, <1>9, <1>10, <1>11, <1>12, <1>13,
     <1>14, <1>15, <1>16, <1>17, <1>18, <1>19, <1>20, <1>21, <1>22, <1>23, <1>24, <1>25,
     <1>26, <1>27, <1>28, <1>29, <1>30, <1>31, <1>32, <1>33, <1>34, <1>35, <1>36, <1>37,
     <1>38, <1>39, <1>40, <1>41, <1>42, <1>43, <1>44, <1>45, <1>46, <1>47, <1>48, <1>49,
     <1>50, <1>51, <1>52, <1>53
     DEF Step

\* Where a step goes without a call or a return.
GoesTo(k, l) ==
    \/ k = "init" /\ l = "parts"
    \/ k = "hooked" /\ l = "idle"
    \/ k = "tm_hook" /\ l \in {"oneshot", "tm_init"}
    \/ k = "oneshot" /\ l \in {"rdlock", "one"}
    \/ k = "one" /\ l \in {"rdlock", "one_refresh"}
    \/ k = "tm_init" /\ l \in {"rdlock", "tm_locked"}
    \/ k = "tm_locked" /\ l = "rdlock"
    \/ k = "tm_store" /\ l = "tm_done"
    \/ k = "tm_done" /\ l = "rdlock"
    \/ k = "dl_init" /\ l = "dl_locked"
    \/ k = "dl_locked" /\ l \in {"mon", "dl_end"}
    \/ k = "mon" /\ l \in {"uninit", "dl_end"}
    \/ k = "uninit" /\ l = "dl_end"
    \/ k = "visit" /\ l \in {"parse", "find"}
    \/ k = "parse" /\ l \in {"visit", "find"}
    \/ k = "parsed" /\ l \in {"visit", "find"}
    \/ k = "find" /\ l = "visit"
    \/ k \in SectionL /\ l \in SectionL
    \/ k = "add_cb" /\ l = "idle"
    \/ k = "pre" /\ l \in {"pre_cb", "link"}
    \/ k = "pre_cb" /\ l = "link"
    \/ k = "link" /\ l = "ctor"
    \/ k = "ctor" /\ l \in {"opened", "open_end"}
    \/ k = "opened" /\ l \in {"post_rd", "post"}
    \/ k = "post_rd" /\ l = "post_refresh"
    \/ k = "post_end" /\ l = "post"
    \/ k = "post" /\ l \in {"post_cb", "open_end"}
    \/ k = "post_cb" /\ l = "open_end"
    \/ k = "wrlock" /\ l = "unlink"
    \/ k = "unlink" /\ l \in {"sync_refresh", "close_end"}
    \/ k = "sync_refresh" /\ l = "close_end"

\* What is called, from where, and what the call returns to.
Calls(k, l, back) ==
    \/ k = "idle" /\ l = "init" /\ back = "idle"
    \/ k = "idle" /\ l = "tm_hook" /\ back = "hooked"
    \/ k = "idle" /\ l = "dl_init" /\ back = "add_cb"
    \/ k = "tm_locked" /\ l = "dl_init" /\ back = "tm_store"
    \/ k = "mon" /\ l = "tm_hook" /\ back = "mon"
    \/ k = "one_refresh" /\ l = "visit" /\ back = "one_end"
    \/ k = "rdlock" /\ l = "visit" /\ back = "rdunlock"
    \/ k = "parse" /\ l = "claim" /\ back = "parsed"
    \/ k = "post_refresh" /\ l = "visit" /\ back = "post_end"
    \/ k \in {"idle", "ctor"} /\ l \in {"pre", "link", "wrlock", "unlink"} /\ back = k

\* What returns, and to where.
Returns(k, l) ==
    \/ k = "parts" /\ l = "idle"
    \/ k \in {"tm_init", "tm_locked", "tm_done"} /\ l = "hooked"
    \/ k \in {"one_end", "rdunlock"} /\ l \in {"hooked", "mon"}
    \/ k \in {"dl_init", "dl_end"} /\ l \in {"tm_store", "add_cb"}
    \/ k = "visit" /\ l \in {"one_end", "rdunlock", "post_end"}
    \/ k = "free" /\ l = "parsed"
    \/ k \in {"open_end", "close_end"} /\ l \in {"idle", "ctor"}

\* A step stays, goes on, calls, or returns.
Flows(th) ==
    \/ pc'[th] = pc[th] /\ Range(stack'[th]) = Range(stack[th])
    \/ GoesTo(pc[th], pc'[th]) /\ Range(stack'[th]) = Range(stack[th])
    \/ \E back : /\ Calls(pc[th], pc'[th], back)
                 /\ \A y : y \in Range(stack'[th]) <=> y = back \/ y \in Range(stack[th])
    \/ /\ Returns(pc[th], pc'[th])
       /\ \A y : y \in Range(stack[th]) <=> y = pc'[th] \/ y \in Range(stack'[th])

\* Every step follows the control flow.
LEMMA StepFlows ==
  ASSUME TypeInv, StackInv, NEW th \in Thread, Step(th)
  PROVE  Flows(th)
<1>T. pc \in [Thread -> Label] /\ stack \in [Thread -> Seq(Label)]
  BY DEF TypeInv
<1>g. ASSUME NEW l, Goto(th, l), GoesTo(pc[th], l) PROVE Flows(th)
  BY <1>g, StackMoves DEF Flows
<1>u. ASSUME UNCHANGED <<pc, stack>> PROVE Flows(th)
  BY <1>u DEF Flows
<1>c. ASSUME NEW l \in Label, NEW back \in Label, Gosub(th, l, back), Calls(pc[th], l, back)
      PROVE  Flows(th)
  <2>1. pc'[th] = l /\ \A y : y \in Range(stack'[th]) <=> y = back \/ y \in Range(stack[th])
    BY <1>c, StackMoves
  <2> QED
    BY <1>c, <2>1 DEF Flows
<1>r. ASSUME Return(th), pc[th] \in {"parts", "tm_init", "tm_locked", "tm_done", "one_end",
                                     "rdunlock", "dl_init", "dl_end", "visit", "free",
                                     "open_end", "close_end"}
      PROVE  Flows(th)
  <2>1. pc[th] \notin TopL
    BY <1>r DEF TopL
  <2>2. stack[th] # <<>> /\ stack[th] \in Seq(Label)
    BY <1>T, <2>1, CanReturn
  <2>3. pc'[th] = Head(stack[th]) /\ stack'[th] = Tail(stack[th])
    BY <1>r, Moves
  <2>4. \A y : y \in Range(stack[th]) <=> y = pc'[th] \/ y \in Range(stack'[th])
    BY <2>2, <2>3, TailRange
  <2>5. Returns(pc[th], pc'[th])
    BY <1>r, ReturnsTo DEF Returns, TmL, DlL, HookL, InitL, VisitL, SectionL, LinkL
  <2> QED
    BY <2>4, <2>5 DEF Flows
<1>k. {"idle", "ctor", "hooked", "tm_store", "mon", "add_cb", "one_end", "rdunlock", "post_end",
       "parsed", "init", "tm_hook", "dl_init", "visit", "claim", "pre", "link", "wrlock", "unlink"}
         \subseteq Label
  BY DEF Label, TopL, InitL, TmL, HookL, DlL, VisitL, SectionL, LinkL
<1> USE DEF Call
<1>1. ASSUME InitCall(th) PROVE Flows(th)
  BY <1>1, <1>c, <1>k DEF InitCall, Calls
<1>2. ASSUME InitLock(th) PROVE Flows(th)
  BY <1>2, <1>g DEF InitLock, GoesTo
<1>3. ASSUME InitPart(th) PROVE Flows(th)
  BY <1>3, <1>u DEF InitPart
<1>4. ASSUME InitEnd(th) PROVE Flows(th)
  BY <1>4, <1>r DEF InitEnd
<1>5. ASSUME HookCall(th) PROVE Flows(th)
  BY <1>5, <1>c, <1>k DEF HookCall, Calls
<1>6. ASSUME HookReturn(th) PROVE Flows(th)
  BY <1>6, <1>g DEF HookReturn, GoesTo
<1>7. ASSUME TmHook(th) PROVE Flows(th)
  BY <1>7, <1>g DEF TmHook, GoesTo
<1>8. ASSUME OneShot(th) PROVE Flows(th)
  BY <1>8, <1>g DEF OneShot, GoesTo
<1>9. ASSUME OneLocked(th) PROVE Flows(th)
  BY <1>9, <1>g DEF OneLocked, GoesTo
<1>10. ASSUME OneRefresh(th) PROVE Flows(th)
  BY <1>10, <1>c, <1>k DEF OneRefresh, Calls
<1>11. ASSUME OneEnd(th) PROVE Flows(th)
  BY <1>11, <1>r DEF OneEnd
<1>12. ASSUME RdLock(th) PROVE Flows(th)
  BY <1>12, <1>c, <1>k DEF RdLock, Calls
<1>13. ASSUME RdUnlock(th) PROVE Flows(th)
  BY <1>13, <1>r DEF RdUnlock
<1>14. ASSUME TmInit(th) PROVE Flows(th)
  BY <1>14, <1>g, <1>c, <1>k, <1>r DEF TmInit, TmResult, GoesTo, Calls
<1>15. ASSUME TmLocked(th) PROVE Flows(th)
  BY <1>15, <1>g, <1>c, <1>k, <1>r DEF TmLocked, TmResult, GoesTo, Calls
<1>16. ASSUME TmStore(th) PROVE Flows(th)
  BY <1>16, <1>g DEF TmStore, GoesTo
<1>17. ASSUME TmDone(th) PROVE Flows(th)
  BY <1>17, <1>g, <1>c, <1>k, <1>r DEF TmDone, TmResult, GoesTo, Calls
<1>18. ASSUME DlInit(th) PROVE Flows(th)
  BY <1>18, <1>g, <1>r DEF DlInit, GoesTo
<1>19. ASSUME DlLocked(th) PROVE Flows(th)
  BY <1>19, <1>g DEF DlLocked, GoesTo
<1>20. ASSUME MonHook(th) PROVE Flows(th)
  BY <1>20, <1>c, <1>k DEF MonHook, Calls
<1>21. ASSUME MonFail(th) PROVE Flows(th)
  BY <1>21, <1>g DEF MonFail, GoesTo
<1>22. ASSUME MonDone(th) PROVE Flows(th)
  BY <1>22, <1>g DEF MonDone, GoesTo
<1>23. ASSUME Uninit(th) PROVE Flows(th)
  BY <1>23, <1>g, <1>u DEF Uninit, GoesTo
<1>24. ASSUME DlEnd(th) PROVE Flows(th)
  BY <1>24, <1>r DEF DlEnd
<1>25. ASSUME VisitEnd(th) PROVE Flows(th)
  BY <1>25, <1>r DEF VisitEnd
<1>26. ASSUME Parse(th) PROVE Flows(th)
  BY <1>26, <1>g, <1>c, <1>k DEF Parse, GoesTo, Calls
<1>27. ASSUME Parsed(th) PROVE Flows(th)
  BY <1>27, <1>g DEF Parsed, GoesTo
<1>28. ASSUME Find(th) PROVE Flows(th)
  BY <1>28, <1>g DEF Find, GoesTo
<1>29. ASSUME Store(th) PROVE Flows(th)
  BY <1>29, <1>g DEF Store, NextSignal, GoesTo, SectionL
<1>30. ASSUME Leave(th) PROVE Flows(th)
  BY <1>30, <1>g DEF Leave, GoesTo, SectionL
<1>31. ASSUME Clear(th) PROVE Flows(th)
  BY <1>31, <1>g DEF Clear, GoesTo, SectionL
<1>32. ASSUME Free(th) PROVE Flows(th)
  BY <1>32, <1>g, <1>r DEF Free, NextSignal, GoesTo, SectionL
<1>33. ASSUME AddCb(th) PROVE Flows(th)
  BY <1>33, <1>g DEF AddCb, GoesTo
<1>34. ASSUME Pre(th) PROVE Flows(th)
  BY <1>34, <1>g DEF Pre, CallCb, GoesTo
<1>35. ASSUME Post(th) PROVE Flows(th)
  BY <1>35, <1>g DEF Post, CallCb, GoesTo
<1>36. ASSUME Link(th) PROVE Flows(th)
  BY <1>36, <1>g DEF Link, GoesTo
<1>37. ASSUME Linked(th) PROVE Flows(th)
  BY <1>37, <1>g DEF Linked, GoesTo
<1>38. ASSUME Opened(th) PROVE Flows(th)
  BY <1>38, <1>g DEF Opened, GoesTo
<1>39. ASSUME PostRdLock(th) PROVE Flows(th)
  BY <1>39, <1>g DEF PostRdLock, GoesTo
<1>40. ASSUME PostRefresh(th) PROVE Flows(th)
  BY <1>40, <1>c, <1>k DEF PostRefresh, Calls
<1>41. ASSUME PostEnd(th) PROVE Flows(th)
  BY <1>41, <1>g DEF PostEnd, GoesTo
<1>42. ASSUME OpenEnd(th) PROVE Flows(th)
  BY <1>42, <1>r DEF OpenEnd
<1>43. ASSUME WrLock(th) PROVE Flows(th)
  BY <1>43, <1>g DEF WrLock, GoesTo
<1>44. ASSUME Unlink(th) PROVE Flows(th)
  BY <1>44, <1>g DEF Unlink, GoesTo
<1>45. ASSUME SyncRefresh(th) PROVE Flows(th)
  BY <1>45, <1>g DEF SyncRefresh, GoesTo
<1>46. ASSUME CloseEnd(th) PROVE Flows(th)
  BY <1>46, <1>r DEF CloseEnd
<1>47. ASSUME NEW l \in Lib, Visit(th, l) PROVE Flows(th)
  BY <1>47, <1>g, <1>u DEF Visit, GoesTo
<1>48. ASSUME NEW l \in Lib, OpenCall(th, l) PROVE Flows(th)
  BY <1>48, <1>c, <1>k DEF OpenCall, LinkerCall, Calls
<1>49. ASSUME NEW l \in Lib, CloseCall(th, l) PROVE Flows(th)
  BY <1>49, <1>c, <1>k DEF CloseCall, LinkerCall, Calls
<1>50. ASSUME NEW j \in 1..SlotMax, Claim(th, j) PROVE Flows(th)
  BY <1>50, <1>g DEF Claim, GoesTo, SectionL
<1>51. ASSUME NEW s \in Range(Signals), Handler(th, s) PROVE Flows(th)
  BY <1>51, <1>g DEF Handler, GoesTo, SectionL
<1>52. ASSUME NEW c \in Callbacks, AddCallback(th, c) PROVE Flows(th)
  BY <1>52, <1>c, <1>k DEF AddCallback, Calls
<1>53. ASSUME NEW c \in Callbacks, DelCallback(th, c) PROVE Flows(th)
  BY <1>53, <1>u DEF DelCallback
<1> QED
  BY <1>1, <1>2, <1>3, <1>4, <1>5, <1>6, <1>7, <1>8, <1>9, <1>10, <1>11, <1>12, <1>13,
     <1>14, <1>15, <1>16, <1>17, <1>18, <1>19, <1>20, <1>21, <1>22, <1>23, <1>24, <1>25,
     <1>26, <1>27, <1>28, <1>29, <1>30, <1>31, <1>32, <1>33, <1>34, <1>35, <1>36, <1>37,
     <1>38, <1>39, <1>40, <1>41, <1>42, <1>43, <1>44, <1>45, <1>46, <1>47, <1>48, <1>49,
     <1>50, <1>51, <1>52, <1>53
     DEF Step

\* Where the shared state is written.
Writes(th) ==
    /\ tree' = tree \/ pc[th] \in {"one_refresh", "post_refresh", "sync_refresh"}
    /\ linked' = linked \/ pc[th] \in {"link", "unlink"}
    /\ unsafe' = unsafe \/ pc[th] \in {"ctor", "opened", "sync_refresh"}
    /\ applied' = applied \/ pc[th] = "find"
    /\ early' = early \/ pc[th] = "find"
    /\ placed' = placed \/ pc[th] \in {"find", "uninit"}
    /\ hooked' = hooked \/ pc[th] = "hooked"
    /\ listed' = listed \/ listed' = listed \cup {th}
    /\ cbStart => cbStart'
    /\ one' = one \/ pc[th] \in {"oneshot", "one", "one_end"}
    /\ tm' = tm \/ pc[th] \in {"tm_init", "tm_locked", "tm_store", "tm_done"}
    /\ dl' = dl \/ pc[th] \in {"dl_init", "dl_locked", "mon", "dl_end"}
    /\ parse' = parse \/ pc[th] \in {"visit", "parse", "parsed", "find"}
    /\ pc[th] = "idle" /\ pc'[th] = "tm_hook" => listed' = listed \cup {th}
    /\ pc[th] = "idle" /\ pc'[th] = "dl_init" => cbStart'

\* Every step writes at its label.
LEMMA StepWrites ==
  ASSUME TypeInv, NEW th \in Thread, Step(th)
  PROVE  Writes(th)
<1>T. pc \in [Thread -> Label]
  BY DEF TypeInv
<1> USE DEF inits, monitor, locks, elves, history, Writes
<1>1. ASSUME InitCall(th) PROVE Writes(th)
  BY <1>1, <1>T DEF InitCall, Call, Gosub
<1>2. ASSUME InitLock(th) PROVE Writes(th)
  BY <1>2 DEF InitLock
<1>3. ASSUME InitPart(th) PROVE Writes(th)
  BY <1>3 DEF InitPart
<1>4. ASSUME InitEnd(th) PROVE Writes(th)
  BY <1>4 DEF InitEnd
<1>5. ASSUME HookCall(th) PROVE Writes(th)
  BY <1>5, <1>T DEF HookCall, Call, Gosub
<1>6. ASSUME HookReturn(th) PROVE Writes(th)
  BY <1>6 DEF HookReturn
<1>7. ASSUME TmHook(th) PROVE Writes(th)
  BY <1>7 DEF TmHook
<1>8. ASSUME OneShot(th) PROVE Writes(th)
  BY <1>8 DEF OneShot
<1>9. ASSUME OneLocked(th) PROVE Writes(th)
  BY <1>9 DEF OneLocked
<1>10. ASSUME OneRefresh(th) PROVE Writes(th)
  BY <1>10 DEF OneRefresh
<1>11. ASSUME OneEnd(th) PROVE Writes(th)
  BY <1>11 DEF OneEnd
<1>12. ASSUME RdLock(th) PROVE Writes(th)
  BY <1>12 DEF RdLock
<1>13. ASSUME RdUnlock(th) PROVE Writes(th)
  BY <1>13 DEF RdUnlock
<1>14. ASSUME TmInit(th) PROVE Writes(th)
  BY <1>14 DEF TmInit
<1>15. ASSUME TmLocked(th) PROVE Writes(th)
  BY <1>15 DEF TmLocked
<1>16. ASSUME TmStore(th) PROVE Writes(th)
  BY <1>16 DEF TmStore
<1>17. ASSUME TmDone(th) PROVE Writes(th)
  BY <1>17 DEF TmDone
<1>18. ASSUME DlInit(th) PROVE Writes(th)
  BY <1>18 DEF DlInit
<1>19. ASSUME DlLocked(th) PROVE Writes(th)
  BY <1>19 DEF DlLocked
<1>20. ASSUME MonHook(th) PROVE Writes(th)
  BY <1>20 DEF MonHook
<1>21. ASSUME MonFail(th) PROVE Writes(th)
  BY <1>21 DEF MonFail
<1>22. ASSUME MonDone(th) PROVE Writes(th)
  BY <1>22 DEF MonDone
<1>23. ASSUME Uninit(th) PROVE Writes(th)
  BY <1>23 DEF Uninit
<1>24. ASSUME DlEnd(th) PROVE Writes(th)
  BY <1>24 DEF DlEnd
<1>25. ASSUME VisitEnd(th) PROVE Writes(th)
  BY <1>25 DEF VisitEnd
<1>26. ASSUME Parse(th) PROVE Writes(th)
  BY <1>26 DEF Parse
<1>27. ASSUME Parsed(th) PROVE Writes(th)
  BY <1>27 DEF Parsed
<1>28. ASSUME Find(th) PROVE Writes(th)
  BY <1>28 DEF Find
<1>29. ASSUME Store(th) PROVE Writes(th)
  BY <1>29 DEF Store
<1>30. ASSUME Leave(th) PROVE Writes(th)
  BY <1>30 DEF Leave
<1>31. ASSUME Clear(th) PROVE Writes(th)
  BY <1>31 DEF Clear
<1>32. ASSUME Free(th) PROVE Writes(th)
  BY <1>32 DEF Free
<1>33. ASSUME AddCb(th) PROVE Writes(th)
  BY <1>33 DEF AddCb
<1>34. ASSUME Pre(th) PROVE Writes(th)
  BY <1>34 DEF Pre, CallCb
<1>35. ASSUME Post(th) PROVE Writes(th)
  BY <1>35 DEF Post, CallCb
<1>36. ASSUME Link(th) PROVE Writes(th)
  BY <1>36 DEF Link
<1>37. ASSUME Linked(th) PROVE Writes(th)
  BY <1>37 DEF Linked
<1>38. ASSUME Opened(th) PROVE Writes(th)
  BY <1>38 DEF Opened
<1>39. ASSUME PostRdLock(th) PROVE Writes(th)
  BY <1>39 DEF PostRdLock
<1>40. ASSUME PostRefresh(th) PROVE Writes(th)
  BY <1>40 DEF PostRefresh
<1>41. ASSUME PostEnd(th) PROVE Writes(th)
  BY <1>41 DEF PostEnd
<1>42. ASSUME OpenEnd(th) PROVE Writes(th)
  BY <1>42 DEF OpenEnd
<1>43. ASSUME WrLock(th) PROVE Writes(th)
  BY <1>43 DEF WrLock
<1>44. ASSUME Unlink(th) PROVE Writes(th)
  BY <1>44 DEF Unlink
<1>45. ASSUME SyncRefresh(th) PROVE Writes(th)
  BY <1>45 DEF SyncRefresh
<1>46. ASSUME CloseEnd(th) PROVE Writes(th)
  BY <1>46 DEF CloseEnd
<1>47. ASSUME NEW l \in Lib, Visit(th, l) PROVE Writes(th)
  BY <1>47 DEF Visit
<1>48. ASSUME NEW l \in Lib, OpenCall(th, l) PROVE Writes(th)
  BY <1>48, <1>T DEF OpenCall, LinkerCall, Gosub
<1>49. ASSUME NEW l \in Lib, CloseCall(th, l) PROVE Writes(th)
  BY <1>49, <1>T DEF CloseCall, LinkerCall, Gosub
<1>50. ASSUME NEW j \in 1..SlotMax, Claim(th, j) PROVE Writes(th)
  BY <1>50 DEF Claim
<1>51. ASSUME NEW s \in Range(Signals), Handler(th, s) PROVE Writes(th)
  BY <1>51 DEF Handler
<1>52. ASSUME NEW c \in Callbacks, AddCallback(th, c) PROVE Writes(th)
  BY <1>52, <1>T DEF AddCallback, Call, Gosub
<1>53. ASSUME NEW c \in Callbacks, DelCallback(th, c) PROVE Writes(th)
  BY <1>53 DEF DelCallback
<1> QED
  BY <1>1, <1>2, <1>3, <1>4, <1>5, <1>6, <1>7, <1>8, <1>9, <1>10, <1>11, <1>12, <1>13,
     <1>14, <1>15, <1>16, <1>17, <1>18, <1>19, <1>20, <1>21, <1>22, <1>23, <1>24, <1>25,
     <1>26, <1>27, <1>28, <1>29, <1>30, <1>31, <1>32, <1>33, <1>34, <1>35, <1>36, <1>37,
     <1>38, <1>39, <1>40, <1>41, <1>42, <1>43, <1>44, <1>45, <1>46, <1>47, <1>48, <1>49,
     <1>50, <1>51, <1>52, <1>53
     DEF Step

\* Where the locals are written.
LocalWrites(th) ==
    /\ local'[th].job = local[th].job \/ pc[th] \in {"mon", "uninit", "post_refresh", "post_end"}
    /\ \/ local'[th].elfs = local[th].elfs
       \/ pc[th] \in {"one_refresh", "rdlock", "post_refresh", "visit"}
    /\ local'[th].elf = local[th].elf \/ pc[th] = "visit"
    /\ \/ local'[th].res = local[th].res
       \/ pc[th] \in {"one_end", "rdunlock", "tm_init", "tm_locked", "tm_done", "dl_init",
                      "dl_locked", "mon", "uninit"}
    /\ local'[th].todo = local[th].todo \/ pc[th] \in {"dl_locked", "mon", "uninit"}

\* Every step writes its thread's locals at its label.
LEMMA StepLocals ==
  ASSUME TypeInv, NEW th \in Thread, Step(th)
  PROVE  LocalWrites(th)
<1>T. local \in [Thread -> LocalType] /\ local[th] \in LocalType
  BY DEF TypeInv
<1>u. UNCHANGED local => LocalWrites(th)
  BY DEF LocalWrites
<1>r. ASSUME NEW v, Set(th, "res", v),
             pc[th] \in {"one_end", "rdunlock", "tm_init", "tm_locked", "tm_done", "dl_init",
                         "dl_locked", "mon", "uninit"}
      PROVE  LocalWrites(th)
  BY <1>T, <1>r DEF Set, LocalType, LocalWrites
<1>e. ASSUME NEW v, Set(th, "elfs", v), pc[th] \in {"one_refresh", "rdlock"} PROVE LocalWrites(th)
  BY <1>T, <1>e DEF Set, LocalType, LocalWrites
<1>o. ASSUME NEW v, Set(th, "sigs", v) \/ Set(th, "fault", v) \/ Set(th, "cb", v)
                    \/ Set(th, "frames", v)
      PROVE  LocalWrites(th)
  <2>1. CASE Set(th, "sigs", v)
    BY <1>T, <2>1 DEF Set, LocalType, LocalWrites
  <2>2. CASE Set(th, "fault", v)
    BY <1>T, <2>2 DEF Set, LocalType, LocalWrites
  <2>3. CASE Set(th, "cb", v)
    BY <1>T, <2>3 DEF Set, LocalType, LocalWrites
  <2>4. CASE Set(th, "frames", v)
    BY <1>T, <2>4 DEF Set, LocalType, LocalWrites
  <2> QED
    BY <1>o, <2>1, <2>2, <2>3, <2>4
<1> USE DEF Call
<1>1. ASSUME InitCall(th) PROVE LocalWrites(th)
  BY <1>1, <1>u DEF InitCall
<1>2. ASSUME InitLock(th) PROVE LocalWrites(th)
  BY <1>2, <1>u DEF InitLock
<1>3. ASSUME InitPart(th) PROVE LocalWrites(th)
  BY <1>3, <1>u DEF InitPart
<1>4. ASSUME InitEnd(th) PROVE LocalWrites(th)
  BY <1>4, <1>u DEF InitEnd
<1>5. ASSUME HookCall(th) PROVE LocalWrites(th)
  BY <1>5, <1>u DEF HookCall
<1>6. ASSUME HookReturn(th) PROVE LocalWrites(th)
  BY <1>6, <1>u DEF HookReturn
<1>7. ASSUME TmHook(th) PROVE LocalWrites(th)
  BY <1>7, <1>u DEF TmHook
<1>8. ASSUME OneShot(th) PROVE LocalWrites(th)
  BY <1>8, <1>u DEF OneShot
<1>9. ASSUME OneLocked(th) PROVE LocalWrites(th)
  BY <1>9, <1>u DEF OneLocked
<1>10. ASSUME OneRefresh(th) PROVE LocalWrites(th)
  BY <1>10, <1>e DEF OneRefresh
<1>11. ASSUME OneEnd(th) PROVE LocalWrites(th)
  BY <1>11, <1>r DEF OneEnd
<1>12. ASSUME RdLock(th) PROVE LocalWrites(th)
  BY <1>12, <1>e DEF RdLock
<1>13. ASSUME RdUnlock(th) PROVE LocalWrites(th)
  BY <1>13, <1>r DEF RdUnlock
<1>14. ASSUME TmInit(th) PROVE LocalWrites(th)
  BY <1>14, <1>u, <1>r DEF TmInit, TmResult
<1>15. ASSUME TmLocked(th) PROVE LocalWrites(th)
  BY <1>15, <1>u, <1>r DEF TmLocked, TmResult
<1>16. ASSUME TmStore(th) PROVE LocalWrites(th)
  BY <1>16, <1>u DEF TmStore
<1>17. ASSUME TmDone(th) PROVE LocalWrites(th)
  BY <1>17, <1>u, <1>r DEF TmDone, TmResult
<1>18. ASSUME DlInit(th) PROVE LocalWrites(th)
  BY <1>18, <1>u, <1>r DEF DlInit
<1>19. ASSUME DlLocked(th) PROVE LocalWrites(th)
  BY <1>19, <1>T DEF DlLocked, Set, LocalType, LocalWrites
<1>20. ASSUME MonHook(th) PROVE LocalWrites(th)
  BY <1>20, <1>T DEF MonHook, Set, LocalType, LocalWrites
<1>21. ASSUME MonFail(th) PROVE LocalWrites(th)
  BY <1>21, <1>u DEF MonFail
<1>22. ASSUME MonDone(th) PROVE LocalWrites(th)
  BY <1>22, <1>T DEF MonDone, Set, LocalType, LocalWrites
<1>23. ASSUME Uninit(th) PROVE LocalWrites(th)
  BY <1>23, <1>T DEF Uninit, Set, LocalType, LocalWrites
<1>24. ASSUME DlEnd(th) PROVE LocalWrites(th)
  BY <1>24, <1>u DEF DlEnd
<1>25. ASSUME VisitEnd(th) PROVE LocalWrites(th)
  BY <1>25, <1>T DEF VisitEnd, Set, LocalType, LocalWrites
<1>26. ASSUME Parse(th) PROVE LocalWrites(th)
  BY <1>26, <1>u, <1>o DEF Parse
<1>27. ASSUME Parsed(th) PROVE LocalWrites(th)
  BY <1>27, <1>o DEF Parsed
<1>28. ASSUME Find(th) PROVE LocalWrites(th)
  BY <1>28, <1>u DEF Find
<1>29. ASSUME Store(th) PROVE LocalWrites(th)
  BY <1>29, <1>o DEF Store, NextSignal
<1>30. ASSUME Leave(th) PROVE LocalWrites(th)
  BY <1>30, <1>o DEF Leave
<1>31. ASSUME Clear(th) PROVE LocalWrites(th)
  BY <1>31, <1>u DEF Clear
<1>32. ASSUME Free(th) PROVE LocalWrites(th)
  BY <1>32, <1>o DEF Free, NextSignal
<1>33. ASSUME AddCb(th) PROVE LocalWrites(th)
  BY <1>33, <1>o DEF AddCb
<1>34. ASSUME Pre(th) PROVE LocalWrites(th)
  BY <1>34, <1>u DEF Pre
<1>35. ASSUME Post(th) PROVE LocalWrites(th)
  BY <1>35, <1>u DEF Post
<1>36. ASSUME Link(th) PROVE LocalWrites(th)
  BY <1>36, <1>u DEF Link
<1>37. ASSUME Linked(th) PROVE LocalWrites(th)
  BY <1>37, <1>u DEF Linked
<1>38. ASSUME Opened(th) PROVE LocalWrites(th)
  BY <1>38, <1>u DEF Opened
<1>39. ASSUME PostRdLock(th) PROVE LocalWrites(th)
  BY <1>39, <1>u DEF PostRdLock
<1>40. ASSUME PostRefresh(th) PROVE LocalWrites(th)
  BY <1>40, <1>T DEF PostRefresh, Set, LocalType, LocalWrites
<1>41. ASSUME PostEnd(th) PROVE LocalWrites(th)
  BY <1>41, <1>T DEF PostEnd, Set, LocalType, LocalWrites
<1>42. ASSUME OpenEnd(th) PROVE LocalWrites(th)
  BY <1>42, <1>o DEF OpenEnd, Pop
<1>43. ASSUME WrLock(th) PROVE LocalWrites(th)
  BY <1>43, <1>T DEF WrLock, Set, LocalType, LocalWrites
<1>44. ASSUME Unlink(th) PROVE LocalWrites(th)
  BY <1>44, <1>u DEF Unlink
<1>45. ASSUME SyncRefresh(th) PROVE LocalWrites(th)
  BY <1>45, <1>u DEF SyncRefresh
<1>46. ASSUME CloseEnd(th) PROVE LocalWrites(th)
  BY <1>46, <1>o DEF CloseEnd, Pop
<1>47. ASSUME NEW l \in Lib, Visit(th, l) PROVE LocalWrites(th)
  BY <1>47, <1>T DEF Visit, Set, LocalType, LocalWrites
<1>48. ASSUME NEW l \in Lib, OpenCall(th, l) PROVE LocalWrites(th)
  BY <1>48, <1>o DEF OpenCall, Push
<1>49. ASSUME NEW l \in Lib, CloseCall(th, l) PROVE LocalWrites(th)
  BY <1>49, <1>o DEF CloseCall, Push
<1>50. ASSUME NEW j \in 1..SlotMax, Claim(th, j) PROVE LocalWrites(th)
  BY <1>50, <1>u DEF Claim
<1>51. ASSUME NEW s \in Range(Signals), Handler(th, s) PROVE LocalWrites(th)
  BY <1>51, <1>T DEF Handler, Set, LocalType, LocalWrites
<1>52. ASSUME NEW c \in Callbacks, AddCallback(th, c) PROVE LocalWrites(th)
  BY <1>52, <1>o DEF AddCallback
<1>53. ASSUME NEW c \in Callbacks, DelCallback(th, c) PROVE LocalWrites(th)
  BY <1>53, <1>u DEF DelCallback
<1> QED
  BY <1>1, <1>2, <1>3, <1>4, <1>5, <1>6, <1>7, <1>8, <1>9, <1>10, <1>11, <1>12, <1>13,
     <1>14, <1>15, <1>16, <1>17, <1>18, <1>19, <1>20, <1>21, <1>22, <1>23, <1>24, <1>25,
     <1>26, <1>27, <1>28, <1>29, <1>30, <1>31, <1>32, <1>33, <1>34, <1>35, <1>36, <1>37,
     <1>38, <1>39, <1>40, <1>41, <1>42, <1>43, <1>44, <1>45, <1>46, <1>47, <1>48, <1>49,
     <1>50, <1>51, <1>52, <1>53
     DEF Step

\* What each call has under it, for the calls under way.
Under(th) ==
    LET s == Range(stack[th])
        inside == pc[th] \in VisitL \cup SectionL
    IN /\ s \subseteq Backs
       /\ "post_end" \in s => inside /\ Len(local[th].frames) > 0
       /\ "mon" \in s => (inside \/ pc[th] \in HookL) /\ Len(local[th].frames) = 0
       /\ "one_end" \in s \/ "rdunlock" \in s => inside /\ Len(local[th].frames) = 0
       /\ pc[th] \in TmL => "hooked" \in s
       /\ pc[th] \in HookL => "hooked" \in s \/ "mon" \in s
       /\ inside => IF Len(local[th].frames) > 0 THEN "post_end" \in s
                    ELSE /\ "hooked" \in s \/ "mon" \in s
                         /\ "one_end" \in s \/ "rdunlock" \in s

\* The stacks say so, before and after a step.
LEMMA UnderBoth ==
  ASSUME TypeInv, StackInv, TypeInv', StackInv', NEW th \in Thread
  PROVE  Under(th) /\ Under(th)'
<1>1. /\ pc[th] \in Label /\ Len(local[th].frames) \in Nat
      /\ Fits(pc[th], stack[th], Len(local[th].frames))
  BY DEF TypeInv, StackInv, LocalType
<1>2. /\ pc'[th] \in Label /\ Len(local'[th].frames) \in Nat
      /\ Fits(pc'[th], stack'[th], Len(local'[th].frames))
  BY DEF TypeInv, StackInv, LocalType
<1>3. Under(th)
  <2> DEFINE l == pc[th]
             s == stack[th]
             n == Len(local[th].frames)
  <2>1. l \in Label /\ n \in Nat /\ Fits(l, s, n)
    BY <1>1
  <2>2. Under(th) <=>
         /\ Range(s) \subseteq Backs
         /\ "post_end" \in Range(s) => l \in VisitL \cup SectionL /\ n > 0
         /\ "mon" \in Range(s) => (l \in VisitL \cup SectionL \/ l \in HookL) /\ n = 0
         /\ "one_end" \in Range(s) \/ "rdunlock" \in Range(s) => l \in VisitL \cup SectionL /\ n = 0
         /\ l \in TmL => "hooked" \in Range(s)
         /\ l \in HookL => "hooked" \in Range(s) \/ "mon" \in Range(s)
         /\ l \in VisitL \cup SectionL =>
               IF n > 0 THEN "post_end" \in Range(s)
               ELSE /\ "hooked" \in Range(s) \/ "mon" \in Range(s)
                    /\ "one_end" \in Range(s) \/ "rdunlock" \in Range(s)
    BY DEF Under
  <2> HIDE DEF l, s, n
  <2> QED
    BY <2>1, <2>2, RangeFits
<1>4. Under(th)'
  <2> DEFINE l == pc'[th]
             s == stack'[th]
             n == Len(local'[th].frames)
  <2>1. l \in Label /\ n \in Nat /\ Fits(l, s, n)
    BY <1>2
  <2>2. Under(th)' <=>
         /\ Range(s) \subseteq Backs
         /\ "post_end" \in Range(s) => l \in VisitL \cup SectionL /\ n > 0
         /\ "mon" \in Range(s) => (l \in VisitL \cup SectionL \/ l \in HookL) /\ n = 0
         /\ "one_end" \in Range(s) \/ "rdunlock" \in Range(s) => l \in VisitL \cup SectionL /\ n = 0
         /\ l \in TmL => "hooked" \in Range(s)
         /\ l \in HookL => "hooked" \in Range(s) \/ "mon" \in Range(s)
         /\ l \in VisitL \cup SectionL =>
               IF n > 0 THEN "post_end" \in Range(s)
               ELSE /\ "hooked" \in Range(s) \/ "mon" \in Range(s)
                    /\ "one_end" \in Range(s) \/ "rdunlock" \in Range(s)
    BY DEF Under
  <2> HIDE DEF l, s, n
  <2> QED
    BY <2>1, <2>2, RangeFits
<1> QED
  BY <1>3, <1>4

-----------------------------------------------------------------------------
(* Whose pass it is                                                        *)

\* The job is the stub's while the monitor hooks it, that of a notification while one is
\* made, and else the application's.
JobAt(th) ==
    /\ "mon" \in Range(stack[th]) => local[th].job \in Stubs
    /\ "post_end" \in Labels(th) => local[th].job = "post"
    /\ Labels(th) \cap {"mon", "uninit", "post_end"} = {} => local[th].job = "user"
JobInv == \A th \in Thread : JobAt(th)

\* After its step, the thread's job fits its labels.
LEMMA NextJobAt ==
  ASSUME TypeInv, StackInv, TypeInv', StackInv', JobInv, NEW th \in Thread, Step(th)
  PROVE  JobAt(th)'
<1>T. local \in [Thread -> LocalType] /\ local[th] \in LocalType
  BY DEF TypeInv
<1>s. /\ JobAt(th) <=>
           /\ "mon" \in Range(stack[th]) => local[th].job \in Stubs
           /\ pc[th] = "post_end" \/ "post_end" \in Range(stack[th]) => local[th].job = "post"
           /\ \/ pc[th] \in {"mon", "uninit", "post_end"}
              \/ "mon" \in Range(stack[th]) \/ "uninit" \in Range(stack[th])
              \/ "post_end" \in Range(stack[th])
              \/ local[th].job = "user"
      /\ JobAt(th)' <=>
           /\ "mon" \in Range(stack'[th]) => local'[th].job \in Stubs
           /\ pc'[th] = "post_end" \/ "post_end" \in Range(stack'[th]) => local'[th].job = "post"
           /\ \/ pc'[th] \in {"mon", "uninit", "post_end"}
              \/ "mon" \in Range(stack'[th]) \/ "uninit" \in Range(stack'[th])
              \/ "post_end" \in Range(stack'[th])
              \/ local'[th].job = "user"
  BY DEF JobAt, Labels
<1>j. JobAt(th) /\ Flows(th)
  BY StepFlows DEF JobInv
<1>w. local'[th].job = local[th].job \/ pc[th] \in {"mon", "uninit", "post_refresh", "post_end"}
  BY StepLocals DEF LocalWrites
<1>u. /\ pc[th] \in {"mon", "uninit", "post_refresh", "post_end"} =>
           "mon" \notin Range(stack[th]) /\ "post_end" \notin Range(stack[th])
      /\ pc'[th] \in {"dl_end", "mon", "uninit", "post", "tm_hook"} =>
           "post_end" \notin Range(stack'[th])
  BY UnderBoth DEF Under, VisitL, SectionL, HookL
<1>1. CASE pc[th] \notin {"mon", "uninit", "post_refresh", "post_end"}
  <2>1. /\ "mon" \in Range(stack'[th]) => "mon" \in Range(stack[th])
        /\ pc'[th] = "post_end" \/ "post_end" \in Range(stack'[th]) => "post_end" \in Range(stack[th])
    BY <1>1, <1>j DEF Flows, GoesTo, Calls, Returns, SectionL
  <2>2. \A y \in {"mon", "uninit", "post_end"} :
           y \in Range(stack[th]) => pc'[th] = y \/ y \in Range(stack'[th])
    BY <1>j DEF Flows
  <2> QED
    BY <1>1, <1>s, <1>j, <1>w, <2>1, <2>2
<1>2. CASE pc[th] = "mon"
  <2>1. CASE MonHook(th)
    <3>1. local'[th].job = Head(local[th].todo) /\ local[th].todo \in Seq(Stubs) /\ local[th].todo # <<>>
      BY <1>T, <2>1 DEF MonHook, LocalType
    <3>2. local'[th].job \in Stubs
      BY <3>1
    <3>3. Gosub(th, "tm_hook", "mon")
      BY <2>1 DEF MonHook
    <3>4. pc'[th] = "tm_hook" /\ "mon" \in Range(stack'[th])
      <4>1. "tm_hook" \in Label /\ "mon" \in Label
        BY DEF Label, HookL, DlL
      <4> QED
        BY <3>3, <4>1, StackMoves
    <3> QED
      BY <1>s, <1>u, <3>2, <3>4
  <2>2. CASE MonFail(th)
    <3>1. Goto(th, "uninit") /\ local' = local
      BY <2>2 DEF MonFail
    <3>2. pc'[th] = "uninit" /\ Range(stack'[th]) = Range(stack[th])
      BY <3>1, StackMoves
    <3> QED
      BY <1>2, <1>s, <1>u, <3>2
  <2>3. CASE MonDone(th)
    <3>1. Goto(th, "dl_end") /\ local'[th].job = "user"
      BY <1>T, <2>3 DEF MonDone, LocalType
    <3>2. pc'[th] = "dl_end" /\ Range(stack'[th]) = Range(stack[th])
      BY <3>1, StackMoves
    <3> QED
      BY <1>2, <1>s, <1>u, <3>1, <3>2
  <2> QED
    BY <1>2, <2>1, <2>2, <2>3, StepRuns DEF Runs
<1>3. CASE pc[th] = "uninit"
  <2>0. Uninit(th)
    BY <1>3, StepRuns DEF Runs
  <2>1. CASE stubs = {}
    <3>1. Goto(th, "dl_end") /\ local'[th].job = "user"
      BY <1>T, <2>0, <2>1 DEF Uninit, LocalType
    <3>2. pc'[th] = "dl_end" /\ Range(stack'[th]) = Range(stack[th])
      BY <3>1, StackMoves
    <3> QED
      BY <1>3, <1>s, <1>u, <3>1, <3>2
  <2>2. CASE stubs # {}
    <3>1. UNCHANGED <<pc, stack, local>>
      BY <2>0, <2>2 DEF Uninit
    <3> QED
      BY <1>3, <1>s, <1>u, <3>1
  <2> QED
    BY <2>1, <2>2
<1>4. CASE pc[th] = "post_refresh"
  <2>1. Gosub(th, "visit", "post_end") /\ local'[th].job = "post"
    <3>1. PostRefresh(th)
      BY <1>4, StepRuns DEF Runs
    <3> QED
      BY <1>T, <3>1 DEF PostRefresh, LocalType
  <2>2. pc'[th] = "visit" /\ \A y : y \in Range(stack'[th]) <=> y = "post_end" \/ y \in Range(stack[th])
    <3>1. "visit" \in Label /\ "post_end" \in Label
      BY DEF Label, VisitL, LinkL
    <3> QED
      BY <2>1, <3>1, StackMoves
  <2> QED
    BY <1>4, <1>s, <1>u, <2>1, <2>2
<1>5. CASE pc[th] = "post_end"
  <2>1. Goto(th, "post") /\ local'[th].job = "user"
    <3>1. PostEnd(th)
      BY <1>5, StepRuns DEF Runs
    <3> QED
      BY <1>T, <3>1 DEF PostEnd, Set, LocalType
  <2>2. pc'[th] = "post" /\ Range(stack'[th]) = Range(stack[th])
    BY <2>1, StackMoves
  <2> QED
    BY <1>5, <1>s, <1>u, <2>1, <2>2
<1> QED
  BY <1>1, <1>2, <1>3, <1>4, <1>5

\* Every step keeps the jobs.
LEMMA NextJob ==
  ASSUME TypeInv, StackInv, TypeInv', StackInv', JobInv, NEW th \in Thread, Step(th)
  PROVE  JobInv'
<1>1. ASSUME NEW u \in Thread \ {th} PROVE JobAt(u)'
  <2>1. pc'[u] = pc[u] /\ stack'[u] = stack[u] /\ local'[u] = local[u]
    BY StepOnly DEF Only
  <2> QED
    BY <2>1 DEF JobInv, JobAt, Labels
<1> QED
  BY <1>1, NextJobAt DEF JobInv

-----------------------------------------------------------------------------
(* The first refresh                                                       *)

\* The first refresh is made by the thread with its lock, and is done wherever a task is
\* applied without one, and when the monitor has started.
OneAt(th) ==
    /\ pc[th] \in {"one", "one_refresh", "one_end"} \/ "one_end" \in Range(stack[th]) => one.lock = th
    /\ pc[th] \in {"one_refresh", "one_end"} \/ "one_end" \in Range(stack[th]) => ~one.done
    /\ pc[th] \in {"rdlock", "rdunlock"} \/ "rdunlock" \in Range(stack[th]) => one.done
    /\ pc[th] \in {"tm_store", "tm_done", "dl_end", "hooked"} /\ local[th].res => one.done
    /\ pc[th] = "mon" /\ local[th].todo # StubSeq => one.done
    /\ th \in hooked => one.done
OneInv == /\ dl.ok \/ tm.ok => one.done
          /\ \A th \in Thread : OneAt(th)

\* The first refresh is made once.
LEMMA OneDone ==
  ASSUME TypeInv, NEW th \in Thread, Step(th)
  PROVE  /\ one.done => one'.done
         /\ \/ one' = one
            \/ /\ pc[th] = "oneshot" /\ one.lock = None /\ ~one.done
               /\ one'.lock = th /\ one'.done = one.done
            \/ pc[th] \in {"one", "one_end"} /\ one'.lock = None
<1>T. one \in [done : BOOLEAN, lock : Thread \cup {None}]
  BY DEF TypeInv
<1>1. one' = one \/ pc[th] \in {"oneshot", "one", "one_end"}
  BY StepWrites DEF Writes
<1>2. ASSUME pc[th] = "oneshot"
      PROVE  \/ one' = one
             \/ /\ one.lock = None /\ ~one.done
                /\ one'.lock = th /\ one'.done = one.done
  <2>1. OneShot(th)
    BY <1>2, StepRuns DEF Runs
  <2> QED
    BY <1>T, <2>1 DEF OneShot
<1>3. ASSUME pc[th] = "one" PROVE  one' = one \/ (one'.lock = None /\ one'.done = one.done)
  <2>1. OneLocked(th)
    BY <1>3, StepRuns DEF Runs
  <2> QED
    BY <1>T, <2>1 DEF OneLocked
<1>4. ASSUME pc[th] = "one_end" PROVE one'.lock = None /\ one'.done
  <2>1. OneEnd(th)
    BY <1>4, StepRuns DEF Runs
  <2> QED
    BY <2>1 DEF OneEnd
<1> QED
  BY <1>1, <1>2, <1>3, <1>4

\* After its step, the thread has what its label says of the first refresh.
LEMMA NextOneAt ==
  ASSUME TypeInv, StackInv, TypeInv', StackInv', OneInv, NEW th \in Thread, Step(th)
  PROVE  OneAt(th)' /\ (dl'.ok \/ tm'.ok => one'.done)
<1> DEFINE Goal ==
      /\ pc'[th] \in {"one", "one_refresh", "one_end"} \/ "one_end" \in Range(stack'[th]) =>
           one'.lock = th
      /\ pc'[th] \in {"one_refresh", "one_end"} \/ "one_end" \in Range(stack'[th]) => ~one'.done
      /\ pc'[th] \in {"rdlock", "rdunlock"} \/ "rdunlock" \in Range(stack'[th]) => one'.done
      /\ pc'[th] \in {"tm_store", "tm_done", "dl_end", "hooked"} /\ local'[th].res => one'.done
      /\ pc'[th] = "mon" /\ local'[th].todo # StubSeq' => one'.done
      /\ th \in hooked' => one'.done
      /\ dl'.ok \/ tm'.ok => one'.done
<1> SUFFICES Goal
  BY DEF OneAt
<1>a. OneAt(th) /\ (dl.ok \/ tm.ok => one.done)
  BY DEF OneInv
<1>d. one.done => one'.done
  BY OneDone
<1>f. Flows(th)
  BY StepFlows
<1>T. /\ local \in [Thread -> LocalType] /\ local[th] \in LocalType /\ local[th].res \in BOOLEAN
      /\ dl \in [inited : BOOLEAN, ok : BOOLEAN, initing : BOOLEAN, lock : Thread \cup {None}]
      /\ tm \in [inited : BOOLEAN, ok : BOOLEAN, posts : BOOLEAN, lock : Thread \cup {None}]
      /\ one \in [done : BOOLEAN, lock : Thread \cup {None}]
  BY DEF TypeInv, LocalType
<1>q. StubSeq' = StubSeq /\ StubSeq # <<>>
  <2>1. setup' = setup
    BY StepOnly DEF Only
  <2> QED
    BY <2>1, StubSeqType DEF StubSeq
<1>w. /\ one' = one \/ pc[th] \in {"oneshot", "one", "one_end"}
      /\ tm' = tm \/ pc[th] \in {"tm_init", "tm_locked", "tm_store", "tm_done"}
      /\ dl' = dl \/ pc[th] \in {"dl_init", "dl_locked", "mon", "dl_end"}
      /\ hooked' = hooked \/ pc[th] = "hooked"
      /\ \/ local'[th].res = local[th].res
         \/ pc[th] \in {"one_end", "rdunlock", "tm_init", "tm_locked", "tm_done", "dl_init",
                        "dl_locked", "mon", "uninit"}
      /\ local'[th].todo = local[th].todo \/ pc[th] \in {"dl_locked", "mon", "uninit"}
  BY StepWrites, StepLocals DEF Writes, LocalWrites
\* The labels that are not reached from elsewhere.
<1>n. /\ "one_end" \in Range(stack'[th]) => "one_end" \in Range(stack[th]) \/ pc[th] = "one_refresh"
      /\ "rdunlock" \in Range(stack'[th]) => "rdunlock" \in Range(stack[th]) \/ pc[th] = "rdlock"
      /\ pc'[th] \in {"one", "one_refresh", "rdlock"} =>
           \/ pc'[th] = pc[th]
           \/ pc[th] \in {"oneshot", "one", "tm_init", "tm_locked", "tm_done"}
      /\ pc'[th] \in {"one_end", "rdunlock"} => pc'[th] = pc[th] \/ pc'[th] \in Range(stack[th])
      /\ pc'[th] = "tm_store" => pc'[th] = pc[th] \/ pc[th] \in {"dl_init", "dl_end"}
      /\ pc'[th] = "tm_done" => pc'[th] = pc[th] \/ pc[th] = "tm_store"
      /\ pc'[th] = "dl_end" => pc'[th] = pc[th] \/ pc[th] \in {"dl_locked", "mon", "uninit"}
      /\ pc'[th] = "hooked" =>
           pc'[th] = pc[th] \/ pc[th] \in {"tm_init", "tm_locked", "tm_done", "one_end", "rdunlock"}
      /\ pc'[th] = "mon" => pc'[th] = pc[th] \/ pc[th] \in {"dl_locked", "one_end", "rdunlock"}
  BY <1>f DEF Flows, GoesTo, Calls, Returns, SectionL
\* A refresh is not made inside another.
<1>v. /\ pc[th] \notin VisitL \cup SectionL =>
           "one_end" \notin Range(stack[th]) /\ "rdunlock" \notin Range(stack[th])
      /\ pc'[th] \notin VisitL \cup SectionL =>
           "one_end" \notin Range(stack'[th]) /\ "rdunlock" \notin Range(stack'[th])
  BY UnderBoth DEF Under
<1>1. CASE pc[th] \notin {"oneshot", "one", "one_refresh", "one_end", "rdlock", "rdunlock", "tm_init",
                          "tm_locked", "tm_store", "tm_done", "dl_init", "dl_locked", "mon", "uninit",
                          "dl_end", "hooked"}
  BY <1>1, <1>a, <1>d, <1>w, <1>n, <1>q DEF OneAt
<1>2. CASE pc[th] = "oneshot"
  <2>0. OneShot(th)
    BY <1>2, StepRuns DEF Runs
  <2>1. "one_end" \notin Range(stack'[th]) /\ "rdunlock" \notin Range(stack'[th])
    BY <1>n, <1>v, <1>2 DEF VisitL, SectionL
  <2>2. CASE one.done
    BY <1>2, <1>a, <1>d, <1>w, <2>0, <2>1, <2>2, StackMoves DEF OneShot, OneAt
  <2>3. CASE ~one.done
    <3>1. pc'[th] = "one" /\ one'.lock = th
      BY <1>T, <2>0, <2>3, StackMoves DEF OneShot
    <3>2. hooked' = hooked /\ dl' = dl /\ tm' = tm
      BY <1>w, <1>2
    <3> QED
      BY <1>a, <1>d, <2>1, <3>1, <3>2 DEF OneAt
  <2> QED
    BY <2>2, <2>3
<1>3. CASE pc[th] = "one"
  <2>0. OneLocked(th)
    BY <1>3, StepRuns DEF Runs
  <2>1. "one_end" \notin Range(stack'[th]) /\ "rdunlock" \notin Range(stack'[th])
    BY <1>n, <1>v, <1>3 DEF VisitL, SectionL
  <2>2. hooked' = hooked /\ dl' = dl /\ tm' = tm
    BY <1>w, <1>3
  <2>3. CASE one.done
    <3>1. pc'[th] = "rdlock"
      BY <2>0, <2>3, StackMoves DEF OneLocked
    <3> QED
      BY <1>a, <1>d, <2>1, <2>2, <2>3, <3>1
  <2>4. CASE ~one.done
    <3>1. pc'[th] = "one_refresh" /\ one' = one
      BY <2>0, <2>4, StackMoves DEF OneLocked
    <3> QED
      BY <1>3, <1>a, <1>d, <2>1, <2>2, <2>4, <3>1 DEF OneAt
  <2> QED
    BY <2>3, <2>4
<1>4. CASE pc[th] = "one_refresh"
  <2>0. OneRefresh(th)
    BY <1>4, StepRuns DEF Runs
  <2>1. pc'[th] = "visit" /\ one' = one /\ hooked' = hooked /\ dl' = dl /\ tm' = tm
    BY <1>4, <1>w, <2>0, Moves DEF OneRefresh
  <2>2. "rdunlock" \notin Range(stack'[th])
    BY <1>n, <1>v, <1>4 DEF VisitL, SectionL
  <2> QED
    BY <1>4, <1>a, <2>1, <2>2 DEF OneAt
<1>5. CASE pc[th] = "one_end"
  <2>0. OneEnd(th)
    BY <1>5, StepRuns DEF Runs
  <2>1. one'.done
    BY <2>0 DEF OneEnd
  <2>2. pc'[th] \in {"hooked", "mon"}
    BY <2>0, <1>5, ReturnsTo DEF OneEnd, HookL
  <2>3. "one_end" \notin Range(stack'[th])
    BY <1>v, <2>2 DEF VisitL, SectionL
  <2> QED
    BY <2>1, <2>2, <2>3
<1>6. CASE pc[th] \in {"rdlock", "rdunlock"}
  <2>1. one'.done
    BY <1>6, <1>a, <1>d DEF OneAt
  <2>2. "one_end" \notin Range(stack'[th])
    BY <1>n, <1>v, <1>6 DEF VisitL, SectionL
  <2>3. pc'[th] \notin {"one", "one_refresh", "one_end"}
    BY <1>6, <1>f DEF Flows, GoesTo, Calls, Returns, SectionL
  <2> QED
    BY <2>1, <2>2, <2>3
<1>7. CASE pc[th] \in {"tm_init", "tm_locked", "tm_done"}
  <2>1. "one_end" \notin Range(stack'[th]) /\ "rdunlock" \notin Range(stack'[th])
    BY <1>n, <1>v, <1>7 DEF VisitL, SectionL
  <2>2. /\ hooked' = hooked /\ dl' = dl
        /\ pc'[th] \notin {"one", "one_refresh", "one_end", "rdunlock", "tm_store", "tm_done",
                           "dl_end", "mon"} \/ pc'[th] = pc[th]
    BY <1>7, <1>w, <1>f DEF Flows, GoesTo, Calls, Returns, SectionL
  <2>3. CASE one.done
    BY <1>7, <1>d, <2>1, <2>2, <2>3
  <2>4. CASE ~one.done
    <3>1. ~tm.ok /\ ~dl.ok /\ th \notin hooked /\ (pc[th] = "tm_done" => ~local[th].res)
      BY <1>a, <2>4 DEF OneAt
    <3>2. tm'.ok = FALSE /\ pc'[th] # "rdlock" /\ pc'[th] # "tm_done"
          /\ (pc'[th] = "hooked" => ~local'[th].res)
      <4>r. ASSUME Set(th, "res", FALSE) PROVE local'[th].res = FALSE
        BY <1>T, <4>r DEF Set, LocalType
      <4>1. CASE pc[th] = "tm_init"
        <5>0. TmInit(th)
          BY <4>1, StepRuns DEF Runs
        <5>1. CASE tm.inited
          <6>1. TmResult(th, FALSE) /\ tm' = tm
            BY <1>T, <3>1, <5>0, <5>1 DEF TmInit
          <6>2. pc'[th] = "hooked" /\ local'[th].res = FALSE
            BY <4>1, <4>r, <6>1, ReturnsTo DEF TmResult, TmL
          <6> QED
            BY <1>T, <3>1, <6>1, <6>2
        <5>2. CASE ~tm.inited
          <6>1. Goto(th, "tm_locked") /\ tm'.ok = tm.ok
            BY <1>T, <5>0, <5>2 DEF TmInit
          <6> QED
            BY <1>T, <3>1, <6>1, Moves
        <5> QED
          BY <5>1, <5>2
      <4>2. CASE pc[th] = "tm_locked"
        <5>0. TmLocked(th)
          BY <4>2, StepRuns DEF Runs
        <5>1. CASE tm.inited
          <6>1. TmResult(th, FALSE) /\ tm'.ok = tm.ok
            BY <1>T, <3>1, <5>0, <5>1 DEF TmLocked
          <6>2. pc'[th] = "hooked" /\ local'[th].res = FALSE
            BY <4>2, <4>r, <6>1, ReturnsTo DEF TmResult, TmL
          <6> QED
            BY <1>T, <3>1, <6>1, <6>2
        <5>2. CASE ~tm.inited
          <6>1. Gosub(th, "dl_init", "tm_store") /\ tm'.ok = tm.ok
            BY <1>T, <5>0, <5>2 DEF TmLocked
          <6>2. pc'[th] = "dl_init"
            BY <6>1, Moves
          <6> QED
            BY <1>T, <3>1, <6>1, <6>2
        <5> QED
          BY <5>1, <5>2
      <4>3. CASE pc[th] = "tm_done"
        <5>0. TmDone(th)
          BY <4>3, StepRuns DEF Runs
        <5>1. TmResult(th, FALSE) /\ tm'.ok = FALSE
          BY <1>T, <3>1, <4>3, <5>0 DEF TmDone
        <5>2. pc'[th] = "hooked" /\ local'[th].res = FALSE
          BY <4>3, <4>r, <5>1, ReturnsTo DEF TmResult, TmL
        <5> QED
          BY <5>1, <5>2
      <4> QED
        BY <1>7, <4>1, <4>2, <4>3
    <3>3. one' = one
      BY <1>7, <1>w
    <3> QED
      BY <1>7, <1>a, <2>1, <2>2, <3>1, <3>2, <3>3 DEF OneAt
  <2> QED
    BY <1>T, <2>3, <2>4
<1>8. CASE pc[th] = "tm_store"
  <2>0. TmStore(th)
    BY <1>8, StepRuns DEF Runs
  <2>1. "one_end" \notin Range(stack'[th]) /\ "rdunlock" \notin Range(stack'[th])
    BY <1>n, <1>v, <1>8 DEF VisitL, SectionL
  <2>2. pc'[th] = "tm_done" /\ local'[th].res = local[th].res /\ tm'.ok \in {tm.ok, local[th].res}
    BY <1>T, <2>0, Moves DEF TmStore
  <2>3. hooked' = hooked /\ dl' = dl /\ one' = one
    BY <1>8, <1>w
  <2> QED
    BY <1>8, <1>a, <2>1, <2>2, <2>3 DEF OneAt
<1>9. CASE pc[th] \in {"dl_init", "dl_locked", "uninit", "dl_end", "mon"}
  <2>1. "one_end" \notin Range(stack'[th]) /\ "rdunlock" \notin Range(stack'[th])
    BY <1>n, <1>v, <1>9 DEF VisitL, SectionL
  <2>2. /\ hooked' = hooked /\ tm' = tm /\ one' = one
        /\ pc'[th] \in {"dl_init", "dl_locked", "dl_end", "mon", "uninit", "tm_hook", "tm_store", "add_cb"}
    BY <1>9, <1>w, <1>f DEF Flows, GoesTo, Calls, Returns, SectionL
  <2>3. CASE one.done
    BY <1>d, <2>1, <2>2, <2>3
  <2>4. CASE ~one.done
    <3>1. ~tm.ok /\ ~dl.ok /\ th \notin hooked /\ (pc[th] = "dl_end" => ~local[th].res)
          /\ (pc[th] = "mon" => local[th].todo = StubSeq)
      BY <1>a, <2>4 DEF OneAt
    <3>2. /\ dl'.ok = FALSE
          /\ pc'[th] \in {"dl_end", "tm_store"} => ~local'[th].res
          /\ pc'[th] = "mon" => local'[th].todo = StubSeq'
      <4>r. ASSUME Set(th, "res", FALSE) PROVE local'[th].res = FALSE
        BY <1>T, <4>r DEF Set, LocalType
      <4>1. CASE pc[th] = "dl_init"
        <5>0. DlInit(th)
          BY <4>1, StepRuns DEF Runs
        <5>1. CASE dl.inited
          <6>1. Set(th, "res", FALSE) /\ Return(th) /\ dl' = dl
            BY <1>T, <3>1, <5>0, <5>1 DEF DlInit
          <6>2. pc'[th] \in {"tm_store", "add_cb"}
            BY <4>1, <6>1, ReturnsTo DEF DlL
          <6> QED
            BY <1>T, <3>1, <4>r, <6>1, <6>2
        <5>2. CASE ~dl.inited
          <6>1. Goto(th, "dl_locked") /\ dl'.ok = dl.ok
            BY <1>T, <5>0, <5>2 DEF DlInit
          <6> QED
            BY <1>T, <3>1, <6>1, Moves
        <5> QED
          BY <5>1, <5>2
      <4>2. CASE pc[th] = "dl_locked"
        <5>0. DlLocked(th)
          BY <4>2, StepRuns DEF Runs
        <5>1. CASE dl.inited
          <6>1. Set(th, "res", FALSE) /\ Goto(th, "dl_end") /\ dl' = dl
            BY <1>T, <3>1, <5>0, <5>1 DEF DlLocked
          <6>2. pc'[th] = "dl_end"
            BY <6>1, Moves
          <6> QED
            BY <1>T, <3>1, <4>r, <6>1, <6>2
        <5>2. CASE ~dl.inited
          <6>1. Goto(th, "mon") /\ Set(th, "todo", StubSeq) /\ dl'.ok = dl.ok
            BY <1>T, <5>0, <5>2 DEF DlLocked
          <6>2. local'[th].todo = StubSeq'
            BY <1>T, <1>q, <6>1 DEF Set, LocalType
          <6>3. pc'[th] = "mon"
            BY <6>1, Moves
          <6> QED
            BY <1>T, <3>1, <6>1, <6>2, <6>3
        <5> QED
          BY <5>1, <5>2
      <4>3. CASE pc[th] = "uninit"
        <5>0. Uninit(th) /\ dl' = dl
          BY <1>w, <4>3, StepRuns DEF Runs
        <5>1. CASE stubs = {}
          <6>1. Goto(th, "dl_end") /\ local'[th].res = FALSE
            BY <1>T, <5>0, <5>1 DEF Uninit, LocalType
          <6>2. pc'[th] = "dl_end"
            BY <6>1, Moves
          <6> QED
            BY <1>T, <3>1, <5>0, <6>1, <6>2
        <5>2. CASE stubs # {}
          <6>1. pc'[th] = "uninit"
            BY <4>3, <5>0, <5>2 DEF Uninit
          <6> QED
            BY <1>T, <3>1, <5>0, <6>1
        <5> QED
          BY <5>1, <5>2
      <4>4. CASE pc[th] = "dl_end"
        <5>0. DlEnd(th)
          BY <4>4, StepRuns DEF Runs
        <5>1. local' = local /\ dl'.ok = dl.ok /\ Return(th)
          BY <1>T, <5>0 DEF DlEnd
        <5>2. pc'[th] \in {"tm_store", "add_cb"}
          BY <4>4, <5>1, ReturnsTo DEF DlL
        <5> QED
          BY <1>T, <3>1, <4>4, <5>1, <5>2
      <4>5. CASE pc[th] = "mon"
        <5>1. CASE MonHook(th)
          <6>1. pc'[th] = "tm_hook" /\ dl' = dl
            BY <5>1, Moves DEF MonHook, inits
          <6> QED
            BY <1>T, <3>1, <6>1
        <5>2. CASE MonFail(th)
          <6>1. pc'[th] = "uninit" /\ dl' = dl
            BY <5>2, Moves DEF MonFail, inits
          <6> QED
            BY <1>T, <3>1, <6>1
        <5>3. CASE MonDone(th)
          BY <1>q, <3>1, <4>5, <5>3 DEF MonDone
        <5> QED
          BY <4>5, <5>1, <5>2, <5>3, StepRuns DEF Runs
      <4> QED
        BY <1>9, <4>1, <4>2, <4>3, <4>4, <4>5
    <3> QED
      BY <2>1, <2>2, <3>1, <3>2
  <2> QED
    BY <1>T, <2>3, <2>4
<1>10. CASE pc[th] = "hooked"
  <2>0. HookReturn(th)
    BY <1>10, StepRuns DEF Runs
  <2>1. pc'[th] = "idle" /\ (th \in hooked' => th \in hooked \/ local[th].res)
    BY <1>T, <2>0, Moves DEF HookReturn
  <2>2. "one_end" \notin Range(stack'[th]) /\ "rdunlock" \notin Range(stack'[th])
    BY <1>v, <2>1 DEF VisitL, SectionL
  <2>3. one' = one /\ dl' = dl /\ tm' = tm
    BY <1>10, <1>w
  <2> QED
    BY <1>10, <1>a, <2>1, <2>2, <2>3 DEF OneAt
<1> QED
  BY <1>1, <1>2, <1>3, <1>4, <1>5, <1>6, <1>7, <1>8, <1>9, <1>10

\* Every step keeps what is known of the first refresh.
LEMMA NextOne ==
  ASSUME TypeInv, StackInv, TypeInv', StackInv', OneInv, NEW th \in Thread, Step(th)
  PROVE  OneInv'
<1>1. ASSUME NEW u \in Thread \ {th} PROVE OneAt(u)'
  <2>1. pc'[u] = pc[u] /\ stack'[u] = stack[u] /\ local'[u] = local[u] /\ setup' = setup
    BY StepOnly DEF Only
  <2>2. StubSeq' = StubSeq
    BY <2>1 DEF StubSeq
  <2>3. OneAt(u) /\ OneAt(th) /\ u # th /\ u # None
    BY StartupAssumption DEF OneInv
  <2>4. one.lock = u => one'.lock = u /\ one'.done = one.done
    BY <2>3, OneDone DEF OneAt
  <2>5. u \in hooked' => u \in hooked
    <3>1. hooked' = hooked \/ HookReturn(th)
      BY StepWrites, StepRuns DEF Writes, Runs
    <3> QED
      BY <2>3, <3>1 DEF HookReturn
  <2>6. one.done => one'.done
    BY OneDone
  <2> QED
    BY <2>1, <2>2, <2>3, <2>4, <2>5, <2>6 DEF OneAt
<1> QED
  BY <1>1, NextOneAt DEF OneInv

-----------------------------------------------------------------------------
(* The calls of the linker                                                 *)

\* The frames of the linker calls under way: kept, popped, or one more in front.
Kept(th) == /\ Len(local'[th].frames) = Len(local[th].frames)
            /\ \A i \in 1..Len(local[th].frames) :
                  /\ local'[th].frames[i].lib = local[th].frames[i].lib
                  /\ local'[th].frames[i].proxy = local[th].frames[i].proxy
Popped(th) == local'[th].frames = Tail(local[th].frames) /\ pc[th] \in {"open_end", "close_end"}
Pushed(th, l) ==
    /\ OpenCall(th, l) \/ CloseCall(th, l)
    /\ \E f \in FrameType : /\ f.lib = l /\ (f.proxy => placed # {})
                            /\ local'[th].frames = On(f, local[th].frames)

\* Every step keeps the frames, but for the calls of the linker and their ends.
LEMMA StepFrames ==
  ASSUME TypeInv, StackInv, NEW th \in Thread, Step(th)
  PROVE  /\ Kept(th) \/ Popped(th) \/ \E l \in Lib : Pushed(th, l)
         /\ \A l \in Lib : OpenCall(th, l) \/ CloseCall(th, l) => Pushed(th, l)
<1>T. local \in [Thread -> LocalType] /\ local[th] \in LocalType
      /\ local[th].frames \in Seq(FrameType)
  BY DEF TypeInv, LocalType
<1>1. ASSUME SameFrames(th) PROVE Kept(th)
  BY <1>1 DEF SameFrames, Kept
<1>2. ASSUME OpenEnd(th) \/ CloseEnd(th) PROVE Popped(th)
  BY <1>T, <1>2 DEF OpenEnd, CloseEnd, Pop, Set, LocalType, Popped
<1>3. ASSUME NEW l \in Lib, OpenCall(th, l) \/ CloseCall(th, l) PROVE Pushed(th, l)
  <2>1. PICK stub : Push(th, l, stub)
    BY <1>3 DEF OpenCall, CloseCall
  <2> DEFINE f == [lib |-> l, proxy |-> stub \in placed, wrlocked |-> FALSE]
  <2>2. Set(th, "frames", On(f, local[th].frames))
    BY <2>1 DEF Push, On
  <2>3. f \in FrameType /\ f.lib = l /\ (f.proxy => placed # {})
    <3>1. (stub \in placed) \in BOOLEAN
      OBVIOUS
    <3>2. f \in FrameType /\ f.lib = l /\ f.proxy = (stub \in placed)
      BY <3>1 DEF FrameType
    <3>3. stub \in placed => placed # {}
      OBVIOUS
    <3> QED
      BY <3>2, <3>3
  <2> HIDE DEF f
  <2>4. local'[th].frames = On(f, local[th].frames)
    BY <1>T, <2>2 DEF Set, LocalType
  <2> QED
    BY <1>3, <2>3, <2>4 DEF Pushed
<1>4. ASSUME WrLock(th) PROVE Kept(th)
  <2> DEFINE fs == local[th].frames
             f == [fs[1] EXCEPT !.wrlocked = TRUE]
  <2>1. fs \in Seq(FrameType) /\ fs # <<>> /\ fs = local[th].frames
    BY <1>4, HasFrame DEF WrLock, LinkL
  <2>2. local' = [local EXCEPT ![th].frames[1].wrlocked = TRUE]
    BY <1>4 DEF WrLock
  <2>3. local'[th].frames = [fs EXCEPT ![1] = f]
    BY <1>T, <2>2 DEF LocalType
  <2>4. fs[1] \in FrameType
    BY <2>1
  <2>5. f \in FrameType /\ f.lib = fs[1].lib /\ f.proxy = fs[1].proxy
    BY <2>4 DEF FrameType
  <2> HIDE DEF fs, f
  <2>6. Len([fs EXCEPT ![1] = f]) = Len(fs) /\ [fs EXCEPT ![1] = f][1] = f
        /\ \A i \in 1..Len(fs) : i # 1 => [fs EXCEPT ![1] = f][i] = fs[i]
    BY <2>1, <2>5
  <2>7. \A i \in 1..Len(fs) : /\ [fs EXCEPT ![1] = f][i].lib = fs[i].lib
                              /\ [fs EXCEPT ![1] = f][i].proxy = fs[i].proxy
    BY <2>5, <2>6
  <2> QED
    BY <2>1, <2>3, <2>6, <2>7 DEF Kept
<1>5. Link(th) \/ Linked(th) \/ Opened(th) \/ Unlink(th) => SameFrames(th)
  BY InnerStep
<1> QED
  BY <1>1, <1>2, <1>3, <1>4, <1>5, NextPlain DEF LinkerStep, Plain

\* The first frame of a call that goes on, and of one that begins.
LEMMA FirstFrame ==
  ASSUME TypeInv, StackInv, TypeInv', StackInv', NEW th \in Thread
  PROVE  /\ Kept(th) /\ pc[th] \in LinkL => Frame(th)'.lib = Frame(th).lib
         /\ \A l \in Lib : Pushed(th, l) => Frame(th)'.lib = l
<1>1. ASSUME Kept(th), pc[th] \in LinkL PROVE Frame(th)'.lib = Frame(th).lib
  <2>1. local[th].frames \in Seq(FrameType) /\ local[th].frames # <<>>
        /\ Frame(th) = local[th].frames[1]
    BY <1>1, HasFrame
  <2>2. local'[th].frames \in Seq(FrameType) /\ Len(local[th].frames) \in Nat
    BY <2>1 DEF TypeInv, LocalType
  <2>3. Len(local[th].frames) >= 1
    BY <2>1, <2>2
  <2>4. local'[th].frames # <<>> /\ Head(local'[th].frames) = local'[th].frames[1]
    BY <1>1, <2>2, <2>3 DEF Kept
  <2> QED
    BY <1>1, <2>1, <2>2, <2>3, <2>4 DEF Kept, Frame
<1>2. ASSUME NEW l \in Lib, Pushed(th, l) PROVE Frame(th)'.lib = l
  <2>1. PICK f \in FrameType : f.lib = l /\ local'[th].frames = On(f, local[th].frames)
    BY <1>2 DEF Pushed
  <2>2. local[th].frames \in Seq(FrameType)
    BY DEF TypeInv, LocalType
  <2>3. Head(On(f, local[th].frames)) = f
    BY <2>2, OnNext
  <2> QED
    BY <2>1, <2>3 DEF Frame
<1> QED
  BY <1>1, <1>2

\* What the linker has, and what was closed, change only in a call of the linker.
LEMMA StepLinked ==
  ASSUME TypeInv, StackInv, NEW th \in Thread, Step(th)
  PROVE  /\ \/ linked' = linked
            \/ pc[th] = "link" /\ pc'[th] = "ctor" /\ linked' = linked \cup {Frame(th).lib}
            \/ pc[th] = "unlink" /\ linked' = linked \ {Frame(th).lib}
         /\ \/ budget'.shut = budget.shut
            \/ \E l \in Lib : CloseCall(th, l) /\ budget'.shut = budget.shut \cup {l}
<1>1. CASE Plain(th)
  BY <1>1 DEF Plain
<1>2. CASE \E l \in Lib : OpenCall(th, l) \/ CloseCall(th, l)
  BY <1>2, OpenStep, CloseStep
<1>3. CASE OpenEnd(th) \/ CloseEnd(th)
  BY <1>3, EndStep
<1>4. CASE Link(th) \/ Linked(th) \/ Opened(th) \/ Unlink(th) \/ WrLock(th)
  BY <1>4, InnerStep
<1> QED
  BY <1>1, <1>2, <1>3, <1>4, NextPlain DEF LinkerStep

-----------------------------------------------------------------------------
(* What is being closed                                                    *)

\* What was closed is out of the linker's list, but for what is still being closed, and is
\* not opened again.
GoneInv ==
    /\ \A l \in linked \cap budget.shut :
          \E th \in Thread : pc[th] \in {"wrlock", "unlink"} /\ Frame(th).lib = l
    /\ \A th \in Thread : pc[th] \in {"pre", "pre_cb", "link"} => Frame(th).lib \notin budget.shut

\* Every step keeps it.
LEMMA NextGone ==
  ASSUME TypeInv, StackInv, TypeInv', StackInv', GoneInv, NEW th \in Thread, Step(th)
  PROVE  GoneInv'
<1>o. ASSUME NEW u \in Thread \ {th} PROVE pc'[u] = pc[u] /\ Frame(u)' = Frame(u)
  BY StepOnly DEF Only, Frame
<1>f. Flows(th)
  BY StepFlows
<1>1. CASE \E l \in Lib : CloseCall(th, l)
  <2>1. PICK l \in Lib : CloseCall(th, l)
    BY <1>1
  <2>2. /\ pc[th] \in {"idle", "ctor"} /\ pc'[th] \in {"wrlock", "unlink"}
        /\ linked' = linked /\ budget'.shut = budget.shut \cup {l} /\ l \notin InUse
    BY <2>1, CloseStep DEF CloseCall
  <2>3. Frame(th)'.lib = l
    BY <2>1, StepFrames, FirstFrame
  <2>4. ASSUME NEW k \in linked' \cap budget'.shut
        PROVE  \E u \in Thread : pc'[u] \in {"wrlock", "unlink"} /\ Frame(u)'.lib = k
    <3>1. CASE k = l
      BY <2>2, <2>3, <3>1
    <3>2. CASE k # l
      <4>1. PICK u \in Thread : pc[u] \in {"wrlock", "unlink"} /\ Frame(u).lib = k
        BY <2>2, <2>4, <3>2 DEF GoneInv
      <4>2. u # th
        BY <2>2, <4>1
      <4> QED
        BY <1>o, <4>1, <4>2
    <3> QED
      BY <3>1, <3>2
  <2>5. ASSUME NEW u \in Thread, pc'[u] \in {"pre", "pre_cb", "link"}
        PROVE  Frame(u)'.lib \notin budget'.shut
    <3>1. u # th
      BY <2>2, <2>5
    <3>2. pc[u] \in {"pre", "pre_cb", "link"} /\ Frame(u)' = Frame(u)
      BY <1>o, <2>5, <3>1
    <3>3. Frame(u).lib \notin budget.shut
      BY <3>2 DEF GoneInv
    <3>4. Frame(u).lib \in InUse
      <4>1. local[u].frames \in Seq(FrameType) /\ local[u].frames # <<>>
            /\ Frame(u) = local[u].frames[1]
        BY <3>2, HasFrame DEF LinkL
      <4>2. 1 \in DOMAIN local[u].frames
        BY <4>1
      <4>3. Frame(u) \in Range(local[u].frames)
        BY <4>1, <4>2 DEF Range
      <4> QED
        BY <4>3 DEF InUse
    <3> QED
      BY <2>2, <3>2, <3>3, <3>4
  <2> QED
    BY <2>4, <2>5 DEF GoneInv
<1>2. CASE ~\E l \in Lib : CloseCall(th, l)
  <2>1. /\ budget'.shut = budget.shut
        /\ \/ linked' = linked
           \/ pc[th] = "link" /\ linked' = linked \cup {Frame(th).lib}
           \/ pc[th] = "unlink" /\ linked' = linked \ {Frame(th).lib}
    BY <1>2, StepLinked
  <2>2. ASSUME NEW k \in linked' \cap budget'.shut
        PROVE  \E u \in Thread : pc'[u] \in {"wrlock", "unlink"} /\ Frame(u)'.lib = k
    <3>1. k \in linked \cap budget.shut
      BY <2>1, <2>2 DEF GoneInv
    <3>2. PICK u \in Thread : pc[u] \in {"wrlock", "unlink"} /\ Frame(u).lib = k
      BY <3>1 DEF GoneInv
    <3>3. CASE u # th
      BY <1>o, <3>2, <3>3
    <3>4. CASE u = th
      <4>1. CASE pc[th] = "wrlock"
        <5>1. pc'[th] = "unlink" /\ Frame(th)'.lib = Frame(th).lib
          BY <4>1, StepRuns, InnerStep DEF Runs
        <5> QED
          BY <3>2, <3>4, <5>1
      <4>2. CASE pc[th] = "unlink"
        <5>1. linked' = linked \ {Frame(th).lib}
          BY <4>2, StepRuns, InnerStep DEF Runs
        <5> QED
          BY <2>2, <3>2, <3>4, <5>1
      <4> QED
        BY <3>2, <3>4, <4>1, <4>2
    <3> QED
      BY <3>3, <3>4
  <2>3. ASSUME NEW u \in Thread, pc'[u] \in {"pre", "pre_cb", "link"}
        PROVE  Frame(u)'.lib \notin budget'.shut
    <3>1. CASE u # th
      BY <1>o, <2>1, <2>3, <3>1 DEF GoneInv
    <3>2. CASE u = th
      <4>1. CASE pc[th] \in {"idle", "ctor"}
        <5>1. PICK l \in Lib : OpenCall(th, l)
          <6>1. pc'[th] # pc[th] /\ ~GoesTo(pc[th], pc'[th]) /\ ~Returns(pc[th], pc'[th])
            BY <2>3, <3>2, <4>1 DEF GoesTo, Returns, SectionL
          <6>2. pc'[th] \in {"pre", "link"}
            BY <1>f, <2>3, <3>2, <4>1, <6>1 DEF Flows, Calls
          <6>3. ~InitCall(th) /\ ~HookCall(th) /\ \A c \in Callbacks : ~AddCallback(th, c) /\ ~DelCallback(th, c)
            BY <6>1, <6>2, Moves DEF InitCall, HookCall, AddCallback, DelCallback, Call
          <6>4. ~Linked(th)
            BY <6>2, InnerStep
          <6> QED
            BY <1>2, <4>1, <6>3, <6>4, StepRuns DEF Runs
        <5>2. Frame(th)'.lib = l
          BY <5>1, StepFrames, FirstFrame
        <5> QED
          BY <2>1, <3>2, <5>1, <5>2 DEF OpenCall
      <4>2. CASE pc[th] \notin {"idle", "ctor"}
        <5>1. pc[th] \in {"pre", "pre_cb", "link"}
          BY <1>f, <2>3, <3>2, <4>2 DEF Flows, GoesTo, Calls, Returns, SectionL
        <5>2. Kept(th)
          <6>1. ~Popped(th) /\ \A l \in Lib : ~Pushed(th, l)
            BY <5>1, OpenStep, CloseStep DEF Popped, Pushed
          <6> QED
            BY <6>1, StepFrames
        <5>3. Frame(th)'.lib = Frame(th).lib
          BY <5>1, <5>2, FirstFrame DEF LinkL
        <5> QED
          BY <2>1, <3>2, <5>1, <5>3 DEF GoneInv
      <4> QED
        BY <4>1, <4>2
    <3> QED
      BY <3>1, <3>2
  <2> QED
    BY <2>2, <2>3 DEF GoneInv
<1> QED
  BY <1>1, <1>2

-----------------------------------------------------------------------------
(* What is being opened                                                    *)

\* A proxy is in place, a call came through one, or the monitor starts, only when
\* notifications are on or a callback was registered.
Asked == tm.posts \/ cbStart
AskedAt(th) ==
    /\ pc[th] \in DlL \cup {"opened"} \/ "mon" \in Range(stack[th]) => Asked
    /\ \A i \in 1..Len(local[th].frames) : local[th].frames[i].proxy => Asked
AskedInv == /\ placed # {} => Asked
            /\ \A th \in Thread : AskedAt(th)

\* What was asked for stays so.
LEMMA AskedKept ==
  ASSUME TypeInv, NEW th \in Thread, Step(th)
  PROVE  Asked => Asked'
<1>T. tm \in [inited : BOOLEAN, ok : BOOLEAN, posts : BOOLEAN, lock : Thread \cup {None}]
  BY DEF TypeInv
<1>1. (cbStart => cbStart') /\ (tm' = tm \/ pc[th] \in {"tm_init", "tm_locked", "tm_store", "tm_done"})
  BY StepWrites DEF Writes
<1>2. ASSUME pc[th] = "tm_init" PROVE tm'.posts = tm.posts
  <2>1. TmInit(th)
    BY <1>2, StepRuns DEF Runs
  <2> QED
    BY <1>T, <2>1 DEF TmInit
<1>3. ASSUME pc[th] = "tm_locked" PROVE tm'.posts = tm.posts \/ tm'.posts
  <2>1. TmLocked(th)
    BY <1>3, StepRuns DEF Runs
  <2> QED
    BY <1>T, <2>1 DEF TmLocked
<1>4. ASSUME pc[th] = "tm_store" PROVE tm'.posts = tm.posts
  <2>1. TmStore(th)
    BY <1>4, StepRuns DEF Runs
  <2> QED
    BY <1>T, <2>1 DEF TmStore
<1>5. ASSUME pc[th] = "tm_done" PROVE tm'.posts = tm.posts
  <2>1. TmDone(th)
    BY <1>5, StepRuns DEF Runs
  <2> QED
    BY <1>T, <2>1 DEF TmDone
<1> QED
  BY <1>1, <1>2, <1>3, <1>4, <1>5 DEF Asked

\* Every step keeps it.
LEMMA NextAsked ==
  ASSUME TypeInv, StackInv, TypeInv', StackInv', JobInv, AskedInv, NEW th \in Thread, Step(th)
  PROVE  AskedInv'
<1>k. Asked => Asked'
  BY AskedKept
<1>a. AskedAt(th) /\ (placed # {} => Asked)
  BY DEF AskedInv
<1>f. Flows(th)
  BY StepFlows
<1>T. tm \in [inited : BOOLEAN, ok : BOOLEAN, posts : BOOLEAN, lock : Thread \cup {None}]
      /\ local[th].frames \in Seq(FrameType)
  BY DEF TypeInv, LocalType
<1>1. ASSUME NEW u \in Thread \ {th} PROVE AskedAt(u)'
  <2>1. pc'[u] = pc[u] /\ stack'[u] = stack[u] /\ local'[u] = local[u]
    BY StepOnly DEF Only
  <2>2. AskedAt(u)
    BY DEF AskedInv
  <2> QED
    BY <1>k, <2>1, <2>2 DEF AskedAt
<1>2. ASSUME pc'[th] \in DlL \cup {"opened"} \/ "mon" \in Range(stack'[th]) PROVE Asked'
  <2>1. CASE pc[th] \in DlL \/ "mon" \in Range(stack[th]) \/ pc[th] = "opened"
    BY <1>a, <1>k, <2>1 DEF AskedAt
  <2>2. CASE pc[th] \notin DlL /\ "mon" \notin Range(stack[th]) /\ pc[th] # "opened"
    <3>1. \/ pc[th] \in {"idle", "tm_locked"} /\ pc'[th] = "dl_init"
          \/ pc[th] = "ctor" /\ pc'[th] = "opened"
      BY <1>f, <1>2, <2>2 DEF Flows, GoesTo, Calls, Returns, SectionL, DlL
    <3>2. CASE pc[th] = "idle" /\ pc'[th] = "dl_init"
      BY <3>2, StepWrites DEF Writes, Asked
    <3>3. CASE pc[th] = "tm_locked" /\ pc'[th] = "dl_init"
      <4>1. TmLocked(th)
        BY <3>3, StepRuns DEF Runs
      <4>2. CASE tm.inited
        <5>1. TmResult(th, tm.ok)
          BY <4>1, <4>2 DEF TmLocked
        <5>2. pc'[th] \in {"rdlock", "hooked"}
          BY <3>3, <5>1, Moves, ReturnsTo DEF TmResult, TmL
        <5> QED
          BY <3>3, <5>2
      <4>3. CASE ~tm.inited
        BY <1>T, <4>1, <4>3 DEF TmLocked, Asked
      <4> QED
        BY <4>2, <4>3
    <3>4. CASE pc[th] = "ctor" /\ pc'[th] = "opened"
      <4>1. Linked(th)
        <5>1. \A l \in Lib : ~OpenCall(th, l) /\ ~CloseCall(th, l)
          BY <3>4, OpenStep, CloseStep
        <5> QED
          BY <3>4, <5>1, StepRuns DEF Runs
      <4>2. Frame(th).proxy
        <5>1. pc'[th] = IF Frame(th).proxy THEN "opened" ELSE "open_end"
          BY <4>1, Moves DEF Linked
        <5> QED
          BY <3>4, <5>1
      <4>3. /\ local[th].frames # <<>> /\ Frame(th) = local[th].frames[1]
        BY <3>4, HasFrame DEF LinkL
      <4>4. 1 \in 1..Len(local[th].frames)
        BY <1>T, <4>3
      <4> QED
        BY <1>a, <1>k, <4>2, <4>3, <4>4 DEF AskedAt
    <3> QED
      BY <3>1, <3>2, <3>3, <3>4
  <2> QED
    BY <2>1, <2>2
<1>3. ASSUME NEW i \in 1..Len(local'[th].frames), local'[th].frames[i].proxy PROVE Asked'
  <2>1. CASE Kept(th)
    BY <1>a, <1>k, <1>3, <2>1 DEF Kept, AskedAt
  <2>2. CASE Popped(th)
    <3>1. local[th].frames # <<>>
      BY <2>2, HasFrame DEF Popped, LinkL
    <3>2. i + 1 \in 1..Len(local[th].frames) /\ local'[th].frames[i] = local[th].frames[i + 1]
      BY <1>T, <1>3, <2>2, <3>1 DEF Popped
    <3> QED
      BY <1>a, <1>k, <1>3, <3>2 DEF AskedAt
  <2>3. CASE \E l \in Lib : Pushed(th, l)
    <3>1. PICK f \in FrameType : (f.proxy => placed # {}) /\ local'[th].frames = On(f, local[th].frames)
      BY <2>3 DEF Pushed
    <3>2. /\ On(f, local[th].frames)[1] = f
          /\ Len(On(f, local[th].frames)) = Len(local[th].frames) + 1
          /\ \A j \in 2..Len(local[th].frames) + 1 : On(f, local[th].frames)[j] = local[th].frames[j - 1]
      BY <1>T DEF On
    <3>3. CASE i = 1
      BY <1>a, <1>k, <1>3, <3>1, <3>2, <3>3
    <3>4. CASE i # 1
      <4>1. i \in 2..Len(local[th].frames) + 1 /\ i - 1 \in 1..Len(local[th].frames)
        BY <1>T, <1>3, <3>1, <3>2, <3>4
      <4>2. local[th].frames[i - 1].proxy
        BY <1>3, <3>1, <3>2, <4>1
      <4> QED
        BY <1>a, <1>k, <4>1, <4>2 DEF AskedAt
    <3> QED
      BY <3>3, <3>4
  <2> QED
    BY <2>1, <2>2, <2>3, StepFrames
<1>4. ASSUME placed' # {} PROVE Asked'
  <2>1. CASE placed' = placed
    BY <1>a, <1>k, <1>4, <2>1
  <2>2. CASE pc[th] = "uninit"
    BY <1>a, <1>k, <2>2 DEF AskedAt, DlL
  <2>3. CASE pc[th] = "find" /\ placed' # placed
    <3>1. Find(th)
      BY <2>3, StepRuns DEF Runs
    <3>2. local[th].job \notin {"user", "post"}
      <4>1. local[th].job \in {"user", "post"} => placed' = placed
        BY <3>1 DEF Find, Apply
      <4> QED
        BY <2>3, <4>1
    <3>3. "mon" \in Range(stack[th])
      <4>1. JobAt(th)
        BY DEF JobInv
      <4>2. "uninit" \notin Range(stack[th])
        BY UnderBoth DEF Under, Backs
      <4> QED
        BY <2>3, <3>2, <4>1, <4>2 DEF JobAt, Labels
    <3> QED
      BY <1>a, <1>k, <3>3 DEF AskedAt
  <2> QED
    BY <2>1, <2>2, <2>3, StepWrites DEF Writes
<1>5. AskedAt(th)'
  BY <1>2, <1>3 DEF AskedAt
<1> QED
  BY <1>1, <1>4, <1>5 DEF AskedInv

\* The libraries being opened whose proxy has still to notify.
InFlight(u, l) ==
    \E i \in 1..Len(local[u].frames) :
        /\ local[u].frames[i].lib = l
        /\ i > 1 \/ pc[u] \in {"ctor", "opened", "post_rd", "post_refresh"}
\* What was opened since the start is in the tree, on its way there, or was missed.
FlightInv ==
    \A l \in linked \ setup.loaded :
        l \in tree \cup unsafe \/ \E u \in Thread : InFlight(u, l)

\* No step takes a library back from those that were missed.
LEMMA UnsafeKept ==
  ASSUME TypeInv, NEW th \in Thread, Step(th)
  PROVE  unsafe \subseteq unsafe'
<1>1. unsafe' = unsafe \/ pc[th] \in {"ctor", "opened", "sync_refresh"}
  BY StepWrites DEF Writes
<1>2. ASSUME pc[th] = "ctor" PROVE unsafe \subseteq unsafe'
  <2>1. CASE Linked(th)
    BY <2>1 DEF Linked
  <2>2. CASE \E l \in Lib : OpenCall(th, l) \/ CloseCall(th, l)
    BY <2>2 DEF OpenCall, CloseCall, history
  <2> QED
    BY <1>2, <2>1, <2>2, StepRuns DEF Runs
<1>3. ASSUME pc[th] = "opened" PROVE unsafe \subseteq unsafe'
  <2>1. Opened(th)
    BY <1>3, StepRuns DEF Runs
  <2> QED
    BY <2>1 DEF Opened
<1>4. ASSUME pc[th] = "sync_refresh" PROVE unsafe \subseteq unsafe'
  <2>1. SyncRefresh(th)
    BY <1>4, StepRuns DEF Runs
  <2> QED
    BY <2>1 DEF SyncRefresh
<1> QED
  BY <1>1, <1>2, <1>3, <1>4

\* What a thread is opening it goes on opening, until it is in the tree or missed.
LEMMA FlightStep ==
  ASSUME TypeInv, StackInv, TypeInv', StackInv', AskedInv, NEW th \in Thread, Step(th),
         NEW l \in Lib, InFlight(th, l)
  PROVE  InFlight(th, l)' \/ l \in unsafe' \/ (tree' = linked /\ linked' = linked)
<1> DEFINE top == {"ctor", "opened", "post_rd", "post_refresh"}
<1>T. local[th].frames \in Seq(FrameType) /\ local'[th].frames \in Seq(FrameType)
  BY DEF TypeInv, LocalType
<1>1. PICK i \in 1..Len(local[th].frames) : /\ local[th].frames[i].lib = l
                                            /\ i > 1 \/ pc[th] \in top
  BY DEF InFlight
<1>2. CASE \E k \in Lib : Pushed(th, k)
  <2>1. PICK f \in FrameType : local'[th].frames = On(f, local[th].frames)
    BY <1>2 DEF Pushed
  <2>2. /\ Len(On(f, local[th].frames)) = Len(local[th].frames) + 1
        /\ On(f, local[th].frames)[i + 1] = local[th].frames[i]
    BY <1>T, <1>1 DEF On
  <2>3. i + 1 \in 1..Len(local'[th].frames) /\ i + 1 > 1 /\ local'[th].frames[i + 1].lib = l
    BY <1>T, <1>1, <2>1, <2>2
  <2> QED
    BY <2>3 DEF InFlight
<1>3. CASE Popped(th)
  <2>1. local[th].frames # <<>> /\ pc[th] \in {"open_end", "close_end"}
    BY <1>3, HasFrame DEF Popped, LinkL
  <2>2. i > 1
    BY <1>1, <2>1
  <2>3. i - 1 \in 1..Len(local'[th].frames) /\ local'[th].frames[i - 1] = local[th].frames[i]
    BY <1>T, <1>1, <1>3, <2>1, <2>2 DEF Popped
  <2>4. pc'[th] = "ctor"
    <3>1. OpenEnd(th) \/ CloseEnd(th)
      BY <2>1, StepRuns DEF Runs
    <3>2. Len(local[th].frames) # 1
      BY <1>T, <1>1, <2>2
    <3> QED
      BY <3>1, <3>2, EndStep
  <2> QED
    BY <1>1, <2>3, <2>4 DEF InFlight
<1>4. CASE Kept(th) /\ ~\E k \in Lib : Pushed(th, k)
  <2>1. i \in 1..Len(local'[th].frames) /\ local'[th].frames[i].lib = l
    BY <1>1, <1>4 DEF Kept
  <2>2. CASE i > 1 \/ pc'[th] \in top
    BY <2>1, <2>2 DEF InFlight
  <2>3. CASE i = 1 /\ pc'[th] \notin top
    <3>1. pc[th] \in top /\ Frame(th) = local[th].frames[1]
      BY <1>1, <2>3, HasFrame DEF LinkL
    <3>2. Frame(th).lib = l
      BY <1>1, <2>3, <3>1
    <3>3. CASE pc[th] = "ctor"
      <4>1. Linked(th)
        BY <1>4, <3>3, StepRuns, StepFrames DEF Runs
      <4>2. pc'[th] = IF Frame(th).proxy THEN "opened" ELSE "open_end"
        BY <4>1, Moves DEF Linked
      <4> QED
        BY <2>3, <3>2, <4>1, <4>2 DEF Linked
    <3>4. CASE pc[th] = "opened"
      <4>1. Opened(th)
        BY <3>4, StepRuns DEF Runs
      <4>2. pc'[th] = IF ~InLock(th, Outer(th)) /\ tm.posts THEN "post_rd" ELSE "post"
        BY <4>1, InnerStep
      <4>3. Asked
        BY <3>4 DEF AskedInv, AskedAt
      <4>4. InLock(th, Outer(th)) \/ (~tm.posts /\ cbStart)
        BY <2>3, <4>2, <4>3 DEF Asked
      <4> QED
        BY <3>2, <4>1, <4>4 DEF Opened
    <3>5. CASE pc[th] = "post_rd"
      <4>1. PostRdLock(th)
        BY <3>5, StepRuns DEF Runs
      <4>2. pc'[th] = "post_refresh"
        BY <4>1, Moves DEF PostRdLock
      <4> QED
        BY <2>3, <4>2
    <3>6. CASE pc[th] = "post_refresh"
      <4>1. PostRefresh(th)
        BY <3>6, StepRuns DEF Runs
      <4> QED
        BY <4>1 DEF PostRefresh
    <3> QED
      BY <3>1, <3>3, <3>4, <3>5, <3>6
  <2> QED
    BY <1>1, <2>2, <2>3
<1> QED
  BY <1>2, <1>3, <1>4, StepFrames

\* Every step keeps it.
LEMMA NextFlight ==
  ASSUME TypeInv, StackInv, TypeInv', StackInv', AskedInv, FlightInv, NEW th \in Thread, Step(th)
  PROVE  FlightInv'
<1>s. setup' = setup
  BY StepOnly DEF Only
<1>t. tree' = tree \/ (tree' = linked /\ linked' = linked)
  BY NextTree DEF TreeStep
<1>1. CASE tree' = linked /\ linked' = linked
  BY <1>1 DEF FlightInv
<1>2. CASE tree' = tree /\ ~(tree' = linked /\ linked' = linked)
  <2> SUFFICES ASSUME NEW l \in linked' \ setup.loaded
               PROVE  l \in tree' \cup unsafe' \/ \E u \in Thread : InFlight(u, l)'
    BY <1>s DEF FlightInv
  <2>1. CASE l \in linked
    <3>1. CASE l \in tree \cup unsafe
      BY <1>2, <3>1, UnsafeKept
    <3>2. CASE \E u \in Thread : InFlight(u, l)
      <4>1. PICK u \in Thread : InFlight(u, l)
        BY <3>2
      <4>2. CASE u = th
        <5>1. l \in Lib
          BY <2>1 DEF TypeInv
        <5> QED
          BY <1>2, <4>1, <4>2, <5>1, FlightStep
      <4>3. CASE u # th
        <5>1. pc'[u] = pc[u] /\ local'[u] = local[u]
          BY <4>3, StepOnly DEF Only
        <5>2. InFlight(u, l)'
          BY <4>1, <5>1 DEF InFlight
        <5> QED
          BY <5>2
      <4> QED
        BY <4>2, <4>3
    <3> QED
      BY <2>1, <3>1, <3>2 DEF FlightInv
  <2>2. CASE l \notin linked
    <3>1. pc[th] = "link" /\ pc'[th] = "ctor" /\ linked' = linked \cup {Frame(th).lib}
      BY <2>2, StepLinked
    <3>2. Link(th) /\ Frame(th).lib = l
      BY <2>2, <3>1, StepRuns DEF Runs
    <3>3. local[th].frames \in Seq(FrameType) /\ local[th].frames # <<>>
          /\ Frame(th) = local[th].frames[1]
      BY <3>1, HasFrame DEF LinkL
    <3>4. local'[th].frames = local[th].frames
      BY <3>2, InnerStep DEF SameFrames
    <3>5. 1 \in 1..Len(local'[th].frames) /\ local'[th].frames[1].lib = l
      BY <3>2, <3>3, <3>4
    <3>6. InFlight(th, l)'
      BY <3>1, <3>5 DEF InFlight
    <3> QED
      BY <3>6
  <2> QED
    BY <2>1, <2>2
<1> QED
  BY <1>t, <1>1, <1>2

-----------------------------------------------------------------------------
(* What was searched                                                       *)

HistInv ==
    /\ applied \in [Thread -> SUBSET (Lib \cup {None})]
    /\ parse \in [parsed : SUBSET (Lib \cup {None}), error : SUBSET (Lib \cup {None}),
                  tables : SUBSET (Lib \cup {None}), lock : [Lib -> Thread \cup {None}]]
HistStep == /\ parse.error \subseteq parse'.error /\ early \subseteq early'
            /\ \A u \in Thread : applied[u] \subseteq applied'[u]

\* Every step keeps the types of the history, and what was applied, found unreadable, or
\* searched early.
LEMMA NextHist ==
  ASSUME TypeInv, HistInv, NEW th \in Thread, Step(th)
  PROVE  HistInv' /\ HistStep
<1>T. /\ local[th].elf \in Lib \cup {None}
  BY DEF TypeInv, LocalType
<1>w. /\ applied' = applied \/ pc[th] = "find"
      /\ early' = early \/ pc[th] = "find"
      /\ parse' = parse \/ pc[th] \in {"visit", "parse", "parsed", "find"}
  BY StepWrites DEF Writes
<1>1. CASE pc[th] \notin {"visit", "parse", "parsed", "find"}
  BY <1>1, <1>w DEF HistInv, HistStep
<1>2. CASE pc[th] = "visit"
  <2>1. applied' = applied /\ early' = early
    BY <1>2, <1>w
  <2>2. CASE VisitEnd(th)
    BY <2>1, <2>2 DEF VisitEnd, HistInv, HistStep
  <2>3. CASE \E l \in Lib : Visit(th, l)
    <3>1. PICK l \in Lib : Visit(th, l)
      BY <2>3
    <3>2. parse' = parse \/ parse' = [parse EXCEPT !.lock[l] = th]
      BY <3>1 DEF Visit
    <3> QED
      BY <2>1, <3>2 DEF HistInv, HistStep
  <2> QED
    BY <1>2, <2>2, <2>3, StepRuns DEF Runs
<1>3. CASE pc[th] = "parse"
  <2>1. applied' = applied /\ early' = early
    BY <1>3, <1>w
  <2>2. Parse(th)
    BY <1>3, StepRuns DEF Runs
  <2>3. \/ parse' = [parse EXCEPT !.lock[local[th].elf] = None]
        \/ parse' = [parse EXCEPT !.parsed = @ \cup {local[th].elf}]
    BY <2>2 DEF Parse
  <2> QED
    BY <1>T, <2>1, <2>3 DEF HistInv, HistStep
<1>4. CASE pc[th] = "parsed"
  <2>1. applied' = applied /\ early' = early
    BY <1>4, <1>w
  <2> DEFINE e == local[th].elf
             Kind == [parsed : SUBSET (Lib \cup {None}), error : SUBSET (Lib \cup {None}),
                      tables : SUBSET (Lib \cup {None}), lock : [Lib -> Thread \cup {None}]]
  <2>2. \/ parse' = [parse EXCEPT !.lock[e] = None, !.error = @ \cup {e}]
        \/ parse' = [parse EXCEPT !.lock[e] = None, !.tables = @ \cup {e}]
    BY <1>4, StepRuns DEF Runs, Parsed
  <2>3. e \in Lib \cup {None} /\ parse \in Kind
    BY <1>T DEF HistInv
  <2> HIDE DEF e
  <2>4. CASE parse' = [parse EXCEPT !.lock[e] = None, !.error = @ \cup {e}]
    <3>1. parse' \in Kind /\ parse.error \subseteq parse'.error
      BY <2>3, <2>4
    <3> QED
      BY <2>1, <3>1 DEF HistInv, HistStep
  <2>5. CASE parse' = [parse EXCEPT !.lock[e] = None, !.tables = @ \cup {e}]
    <3>1. parse' \in Kind /\ parse.error \subseteq parse'.error
      BY <2>3, <2>5
    <3> QED
      BY <2>1, <3>1 DEF HistInv, HistStep
  <2> QED
    BY <2>2, <2>4, <2>5
<1>5. CASE pc[th] = "find"
  <2>1. Find(th)
    BY <1>5, StepRuns DEF Runs
  <2> DEFINE l == local[th].elf
  <2>2. \/ applied' = applied
        \/ applied' = [applied EXCEPT ![th] = @ \cup {l}]
        \/ applied' = [u \in Thread |-> IF u \in listed THEN applied[u] \cup {l} ELSE applied[u]]
    BY <2>1 DEF Find, Apply
  <2>3. parse' = parse \/ parse' = [parse EXCEPT !.error = @ \cup {l}]
    BY <2>1 DEF Find
  <2>4. early \subseteq early'
    BY <2>1 DEF Find
  <2>5. l \in Lib \cup {None}
    BY <1>T
  <2> HIDE DEF l
  <2>6. /\ applied' \in [Thread -> SUBSET (Lib \cup {None})]
        /\ \A u \in Thread : applied[u] \subseteq applied'[u]
    BY <2>2, <2>5 DEF HistInv
  <2>7. /\ parse' \in [parsed : SUBSET (Lib \cup {None}), error : SUBSET (Lib \cup {None}),
                       tables : SUBSET (Lib \cup {None}), lock : [Lib -> Thread \cup {None}]]
        /\ parse.error \subseteq parse'.error
    BY <2>3, <2>5 DEF HistInv
  <2> QED
    BY <2>4, <2>6, <2>7 DEF HistInv, HistStep
<1> QED
  BY <1>1, <1>2, <1>3, <1>4, <1>5

\* A thread in a hook call has its task in the list.
ListedInv == \A th \in Thread : "hooked" \in Labels(th) => th \in listed

\* No step takes a task from the list.
LEMMA NextListed ==
  ASSUME TypeInv, StackInv, ListedInv, NEW th \in Thread, Step(th)
  PROVE  ListedInv' /\ listed \subseteq listed'
<1>1. listed' = listed \/ listed' = listed \cup {th}
  BY StepWrites DEF Writes
<1>2. ASSUME "hooked" \in Labels(th)' PROVE th \in listed'
  <2>1. CASE "hooked" \in Labels(th)
    BY <1>1, <2>1 DEF ListedInv
  <2>2. CASE "hooked" \notin Labels(th)
    <3>1. pc[th] = "idle" /\ pc'[th] = "tm_hook"
      BY <1>2, <2>2, StepFlows DEF Flows, GoesTo, Calls, Returns, SectionL, Labels
    <3> QED
      BY <3>1, StepWrites DEF Writes
  <2> QED
    BY <2>1, <2>2
<1>3. ASSUME NEW u \in Thread \ {th}, "hooked" \in Labels(u)' PROVE u \in listed'
  <2>1. pc'[u] = pc[u] /\ stack'[u] = stack[u]
    BY StepOnly DEF Only
  <2>2. "hooked" \in Labels(u)
    BY <1>3, <2>1 DEF Labels
  <2> QED
    BY <1>1, <2>2 DEF ListedInv
<1> QED
  BY <1>1, <1>2, <1>3 DEF ListedInv

-----------------------------------------------------------------------------
(* Who sees to a library                                                   *)

\* A pass that still has the library before it.
Visiting(u, l) ==
    /\ pc[u] \in VisitL \cup SectionL
    /\ l \in local[u].elfs \/ (local[u].elf = l /\ pc[u] # "visit")
\* A task that has made its pass, or is about to finish it.
Covered(th) ==
    \/ th \in hooked
    \/ local[th].job = "user" /\ {"one_end", "rdunlock"} \cap Labels(th) # {}
    \/ pc[th] = "hooked" /\ local[th].res
Excused(l) == l \in unsafe \cup parse.error \/ \E u \in Thread : <<u, l>> \in early
Reached(th, l) ==
    \/ l \in applied[th] \/ Excused(l)
    \/ local[th].job = "user" /\ Visiting(th, l)
    \/ \E u \in Thread : local[u].job = "post" /\ Visiting(u, l)
CoverInv == \A th \in Thread : Covered(th) => th \in listed /\ \A l \in tree : Reached(th, l)

\* What was missed stays so.
LEMMA ExcusedKept ==
  ASSUME TypeInv, HistInv, NEW th \in Thread, Step(th), NEW l, Excused(l)
  PROVE  Excused(l)'
<1>1. unsafe \subseteq unsafe' /\ HistStep
  BY UnsafeKept, NextHist
<1> QED
  BY <1>1 DEF Excused, HistStep

\* A step of a pass keeps the library before it, or has applied the tasks, or missed it.
LEMMA VisitStep ==
  ASSUME TypeInv, StackInv, HistInv, NEW th \in Thread, Step(th), NEW l \in Lib, Visiting(th, l)
  PROVE  \/ Visiting(th, l)' /\ local'[th].job = local[th].job
         \/ Excused(l)'
         \/ local[th].job = "user" /\ l \in applied'[th]
         \/ local[th].job = "post" /\ \A u \in listed : l \in applied'[u]
         \/ local[th].job \in Stubs
<1>T. /\ local \in [Thread -> LocalType] /\ local[th] \in LocalType
      /\ local[th].job \in Stubs \cup {"user", "post"} /\ listed \subseteq Thread
  BY DEF TypeInv, LocalType
<1>v. /\ pc[th] \in VisitL \cup SectionL
      /\ l \in local[th].elfs \/ (local[th].elf = l /\ pc[th] # "visit")
  BY DEF Visiting
<1>w. /\ local'[th].job = local[th].job
      /\ local'[th].elfs = local[th].elfs \/ pc[th] = "visit"
      /\ local'[th].elf = local[th].elf \/ pc[th] = "visit"
  BY <1>v, StepLocals DEF LocalWrites, VisitL, SectionL
<1>x. (l \in parse'.error => Excused(l)') /\ (<<th, l>> \in early' => Excused(l)')
  BY DEF Excused
<1>1. CASE pc[th] = "visit"
  <2>1. l \in local[th].elfs
    BY <1>1, <1>v
  <2>2. PICK k \in Lib : Visit(th, k)
    <3>1. ~VisitEnd(th)
      BY <2>1 DEF VisitEnd
    <3> QED
      BY <1>1, <3>1, StepRuns DEF Runs
  <2>3. local'[th].elfs = local[th].elfs \ {k} /\ local'[th].elf = k
    BY <1>T, <2>2 DEF Visit, LocalType
  <2>4. CASE k \in parse.error
    <3>1. pc'[th] = "visit" /\ parse' = parse
      BY <1>1, <2>2, <2>4 DEF Visit
    <3>2. CASE k = l
      BY <1>x, <2>4, <3>1, <3>2
    <3>3. CASE k # l
      BY <1>w, <2>1, <2>3, <3>1, <3>3 DEF Visiting, VisitL
    <3> QED
      BY <3>2, <3>3
  <2>5. CASE k \notin parse.error
    <3>1. pc'[th] \in {"find", "parse"}
      BY <2>2, <2>5, Moves DEF Visit
    <3> QED
      BY <1>w, <2>1, <2>3, <3>1 DEF Visiting, VisitL
  <2> QED
    BY <2>4, <2>5
<1>2. CASE pc[th] \in SectionL
  <2>1. pc'[th] \in SectionL \cup {"parsed"}
    BY <1>2, StepFlows DEF Flows, GoesTo, Calls, Returns, SectionL
  <2>2. pc[th] # "visit" /\ pc'[th] # "visit"
    BY <1>2, <2>1 DEF SectionL
  <2> QED
    BY <1>v, <1>w, <2>1, <2>2 DEF Visiting, VisitL
<1>3. CASE pc[th] \in {"parse", "parsed", "find"}
  <2>1. pc'[th] \in VisitL \cup SectionL
    BY <1>3, StepFlows DEF Flows, GoesTo, Calls, Returns, SectionL, VisitL
  <2>2. CASE l \in local[th].elfs \/ pc'[th] # "visit"
    BY <1>3, <1>v, <1>w, <2>1, <2>2 DEF Visiting
  <2>3. CASE l \notin local[th].elfs /\ pc'[th] = "visit"
    <3>1. local[th].elf = l
      BY <1>v, <2>3
    <3>2. CASE pc[th] = "parse"
      <4>1. Parse(th)
        BY <3>2, StepRuns DEF Runs
      <4>2. l \in parse.error
        BY <2>3, <3>1, <4>1, Moves DEF Parse
      <4>3. parse.error \subseteq parse'.error
        BY NextHist DEF HistStep
      <4> QED
        BY <1>x, <4>2, <4>3
    <3>3. CASE pc[th] = "parsed"
      <4>1. Parsed(th)
        BY <3>3, StepRuns DEF Runs
      <4>2. local[th].fault
        BY <2>3, <4>1, Moves DEF Parsed
      <4>3. parse' = [parse EXCEPT !.lock[l] = None, !.error = @ \cup {l}]
        BY <3>1, <4>1, <4>2 DEF Parsed
      <4>4. l \in parse'.error
        BY <4>3 DEF HistInv
      <4> QED
        BY <1>x, <4>4
    <3>4. CASE pc[th] = "find"
      <4>1. Find(th)
        BY <3>4, StepRuns DEF Runs
      <4>2. \/ Apply(th, l)
            \/ l \notin parse.tables
            \/ parse' = [parse EXCEPT !.error = @ \cup {l}]
        BY <3>1, <4>1 DEF Find
      <4>3. CASE l \notin parse.tables
        <5>1. early' = early \cup {<<th, l>>}
          BY <3>1, <4>1, <4>3 DEF Find
        <5> QED
          BY <1>x, <5>1
      <4>4. CASE parse' = [parse EXCEPT !.error = @ \cup {l}]
        <5>1. l \in parse'.error
          BY <4>4 DEF HistInv
        <5> QED
          BY <1>x, <5>1
      <4>5. CASE Apply(th, l)
        <5>1. CASE local[th].job = "user"
          <6>1. applied' = [applied EXCEPT ![th] = @ \cup {l}]
            BY <4>5, <5>1 DEF Apply
          <6>2. l \in applied'[th]
            BY <6>1 DEF HistInv
          <6> QED
            BY <5>1, <6>2
        <5>2. CASE local[th].job = "post"
          <6>1. applied' = [u \in Thread |-> IF u \in listed THEN applied[u] \cup {l} ELSE applied[u]]
            BY <4>5, <5>2 DEF Apply
          <6>2. \A u \in listed : l \in applied'[u]
            BY <1>T, <6>1
          <6> QED
            BY <5>2, <6>2
        <5> QED
          BY <1>T, <5>1, <5>2
      <4> QED
        BY <4>2, <4>3, <4>4, <4>5
    <3> QED
      BY <1>3, <3>2, <3>3, <3>4
  <2> QED
    BY <2>2, <2>3
<1> QED
  BY <1>1, <1>2, <1>3, <1>v DEF VisitL

\* A library that is seen to stays seen to.
LEMMA ReachedStep ==
  ASSUME TypeInv, StackInv, HistInv, NEW th \in Thread, Step(th), NEW v \in listed, NEW l \in Lib,
         Reached(v, l)
  PROVE  Reached(v, l)'
<1>T. v \in Thread
  BY DEF TypeInv
<1>j. "user" \notin Stubs /\ "post" \notin Stubs
  BY DEF Stubs
<1>o. ASSUME NEW u \in Thread \ {th} PROVE pc'[u] = pc[u] /\ local'[u] = local[u]
  BY StepOnly DEF Only
<1>1. CASE l \in applied[v]
  BY <1>T, <1>1, NextHist DEF HistStep, Reached
<1>2. CASE Excused(l)
  BY <1>2, ExcusedKept DEF Reached
<1>3. CASE local[v].job = "user" /\ Visiting(v, l)
  <2>1. CASE v = th
    BY <1>3, <1>j, <2>1, VisitStep DEF Reached
  <2>2. CASE v # th
    BY <1>T, <1>3, <1>o, <2>2 DEF Reached, Visiting
  <2> QED
    BY <2>1, <2>2
<1>4. CASE \E u \in Thread : local[u].job = "post" /\ Visiting(u, l)
  <2>1. PICK u \in Thread : local[u].job = "post" /\ Visiting(u, l)
    BY <1>4
  <2>2. CASE u = th
    <3>1. \/ Visiting(th, l)' /\ local'[th].job = "post"
          \/ Excused(l)'
          \/ l \in applied'[v]
      BY <1>j, <2>1, <2>2, VisitStep
    <3> QED
      BY <3>1 DEF Reached
  <2>3. CASE u # th
    <3>1. local'[u].job = "post" /\ Visiting(u, l)'
      BY <1>o, <2>1, <2>3 DEF Visiting
    <3> QED
      BY <3>1 DEF Reached
  <2> QED
    BY <2>2, <2>3
<1> QED
  BY <1>1, <1>2, <1>3, <1>4 DEF Reached

\* A library that comes into the tree is seen to for every task that has made its pass.
LEMMA NewTree ==
  ASSUME TypeInv, StackInv, TypeInv', StackInv', OneInv, NEW th \in Thread, Step(th),
         NEW v \in Thread, Covered(v), NEW l \in tree' \ tree
  PROVE  Reached(v, l)'
<1>T. local \in [Thread -> LocalType]
  BY DEF TypeInv
<1>0. pc[th] \in {"one_refresh", "post_refresh", "sync_refresh"}
  BY StepWrites DEF Writes
<1>1. CASE pc[th] = "one_refresh"
  <2>1. OneAt(v) /\ OneAt(th)
    BY DEF OneInv
  <2>2. ~one.done /\ one.lock = th
    BY <1>1, <2>1 DEF OneAt
  <2>3. {"one_end", "rdunlock"} \cap Labels(v) # {}
    BY <2>1, <2>2 DEF Covered, OneAt
  <2>4. "one_end" \in Labels(v)
    BY <2>1, <2>2, <2>3 DEF OneAt, Labels
  <2>5. v = th
    BY <2>1, <2>2, <2>4 DEF OneAt, Labels
  <2>6. "one_end" \notin Range(stack[th])
    BY <1>1, UnderBoth DEF Under, VisitL, SectionL
  <2> QED
    BY <1>1, <2>4, <2>5, <2>6 DEF Labels
<1>2. CASE pc[th] = "post_refresh"
  <2>1. PostRefresh(th)
    BY <1>2, StepRuns DEF Runs
  <2>2. tree' = linked /\ local'[th].elfs = linked \ tree /\ local'[th].job = "post"
    BY <1>T, <2>1 DEF PostRefresh, LocalType
  <2>3. pc'[th] = "visit"
    BY <2>1, Moves DEF PostRefresh
  <2>4. Visiting(th, l)'
    BY <2>2, <2>3 DEF Visiting, VisitL
  <2> QED
    BY <2>2, <2>4 DEF Reached
<1>3. CASE pc[th] = "sync_refresh"
  <2>1. SyncRefresh(th)
    BY <1>3, StepRuns DEF Runs
  <2>2. l \in unsafe'
    BY <2>1 DEF SyncRefresh
  <2> QED
    BY <2>2 DEF Reached, Excused
<1> QED
  BY <1>0, <1>1, <1>2, <1>3

\* A task makes its pass only over what is in the tree: whoever comes to be covered has just
\* begun a pass over all of it.
LEMMA NewCovered ==
  ASSUME TypeInv, StackInv, TypeInv', StackInv', JobInv, ListedInv, NEW th \in Thread, Step(th),
         Covered(th)', ~Covered(th)
  PROVE  th \in listed /\ \A l \in tree' : Visiting(th, l)' /\ local'[th].job = "user"
<1>T. /\ local \in [Thread -> LocalType] /\ local[th] \in LocalType /\ linked \subseteq Lib
      /\ tree \subseteq Lib
  BY DEF TypeInv, LocalType
<1>f. Flows(th)
  BY StepFlows
<1>u. Under(th) /\ Under(th)' /\ JobAt(th)
  BY UnderBoth DEF JobInv
<1>1. th \notin hooked' \/ th \in hooked
  <2>1. hooked' = hooked \/ HookReturn(th)
    BY StepWrites, StepRuns DEF Writes, Runs
  <2> QED
    BY <2>1 DEF HookReturn, Covered
<1>2. ~(pc'[th] = "hooked" /\ local'[th].res)
  <2> SUFFICES ASSUME pc'[th] = "hooked", local'[th].res PROVE FALSE
    OBVIOUS
  <2>1. pc[th] # "hooked"
    <3>1. pc[th] = "hooked" => HookReturn(th)
      BY StepRuns DEF Runs
    <3> QED
      BY <3>1, Moves DEF HookReturn
  <2>2. /\ pc[th] \in {"tm_init", "tm_locked", "tm_done", "one_end", "rdunlock"}
        /\ \A y : y \in Range(stack[th]) <=> y = "hooked" \/ y \in Range(stack'[th])
    BY <1>f, <2>1 DEF Flows, GoesTo, Calls, Returns, SectionL
  <2>3. CASE pc[th] \in {"tm_init", "tm_locked", "tm_done"}
    <3>1. PICK ok \in BOOLEAN : TmResult(th, ok)
      <4>1. pc[th] = "tm_init" => TmInit(th)
        BY StepRuns DEF Runs
      <4>2. pc[th] = "tm_locked" => TmLocked(th)
        BY StepRuns DEF Runs
      <4>3. pc[th] = "tm_done" => TmDone(th)
        BY StepRuns DEF Runs
      <4>4. tm.ok \in BOOLEAN /\ local[th].res \in BOOLEAN
        BY DEF TypeInv, LocalType
      <4>5. TmInit(th) => TmResult(th, tm.ok)
        BY <2>1, Moves DEF TmInit
      <4>6. TmLocked(th) => TmResult(th, tm.ok)
        BY <2>1, Moves DEF TmLocked
      <4>7. TmDone(th) => TmResult(th, local[th].res)
        BY DEF TmDone
      <4> QED
        BY <2>3, <4>1, <4>2, <4>3, <4>4, <4>5, <4>6, <4>7
    <3>2. ok
      BY <1>T, <3>1 DEF TmResult, Set, LocalType
    <3> QED
      BY <3>1, <3>2, Moves DEF TmResult
  <2>4. CASE pc[th] \in {"one_end", "rdunlock"}
    <3>1. Range(stack[th]) \cap {"mon", "post_end"} = {}
      BY <1>u, <2>2 DEF Under, HookL, VisitL, SectionL
    <3>2. "uninit" \notin Range(stack[th])
      BY <1>u DEF Under, Backs
    <3>3. local[th].job = "user"
      BY <1>u, <2>4, <3>1, <3>2 DEF JobAt, Labels
    <3> QED
      BY <2>4, <3>3 DEF Covered, Labels
  <2> QED
    BY <2>2, <2>3, <2>4
<1>3. local'[th].job = "user" /\ {"one_end", "rdunlock"} \cap Labels(th)' # {}
  BY <1>1, <1>2 DEF Covered
<1>4. pc[th] \in {"one_refresh", "rdlock"}
  <2> SUFFICES ASSUME pc[th] \notin {"one_refresh", "rdlock"} PROVE FALSE
    OBVIOUS
  <2>1. {"one_end", "rdunlock"} \cap Labels(th) # {}
    BY <1>3, <1>f DEF Flows, GoesTo, Calls, Returns, SectionL, Labels
  <2>2. pc[th] \notin {"mon", "uninit", "post_refresh", "post_end"}
    BY <1>u, <2>1 DEF Under, Labels, VisitL, SectionL
  <2>3. local'[th].job = local[th].job
    BY <2>2, StepLocals DEF LocalWrites
  <2> QED
    BY <1>3, <2>1, <2>3 DEF Covered
<1>5. local'[th].job = local[th].job
  BY <1>4, StepLocals DEF LocalWrites
<1>6. local[th].job = "user"
  BY <1>3, <1>5
<1>7. "mon" \notin Range(stack[th])
  BY <1>u, <1>6 DEF JobAt, Stubs
<1>8. "hooked" \in Labels(th)
  BY <1>u, <1>4, <1>7 DEF Under, HookL, Labels
<1>9. ASSUME NEW l \in tree' PROVE l \in local'[th].elfs /\ pc'[th] = "visit"
  <2>1. Callers(local[th].job) = Lib
    BY <1>6 DEF Callers
  <2>2. CASE pc[th] = "one_refresh"
    <3>1. OneRefresh(th)
      BY <2>2, StepRuns DEF Runs
    <3>2. tree' = linked /\ local'[th].elfs = linked
      BY <1>T, <2>1, <3>1 DEF OneRefresh, Set, LocalType
    <3>3. pc'[th] = "visit"
      BY <3>1, Moves DEF OneRefresh
    <3> QED
      BY <1>9, <3>2, <3>3
  <2>3. CASE pc[th] = "rdlock"
    <3>1. RdLock(th)
      BY <2>3, StepRuns DEF Runs
    <3>2. tree' = tree /\ local'[th].elfs = tree
      BY <1>T, <2>1, <3>1 DEF RdLock, Set, LocalType, elves
    <3>3. pc'[th] = "visit"
      BY <3>1, Moves DEF RdLock
    <3> QED
      BY <1>9, <3>2, <3>3
  <2> QED
    BY <1>4, <2>2, <2>3
<1> QED
  BY <1>3, <1>8, <1>9 DEF ListedInv, Visiting, VisitL

\* Every step keeps the tree covered.
LEMMA NextCover ==
  ASSUME TypeInv, StackInv, TypeInv', StackInv', HistInv, JobInv, OneInv, ListedInv, CoverInv,
         NEW th \in Thread, Step(th)
  PROVE  CoverInv'
<1>1. listed \subseteq listed'
  BY NextListed
<1>2. ASSUME NEW v \in Thread, Covered(v), NEW l \in tree' PROVE v \in listed /\ Reached(v, l)'
  <2>1. v \in listed
    BY <1>2 DEF CoverInv
  <2>2. CASE l \in tree
    <3>1. Reached(v, l) /\ l \in Lib
      BY <1>2, <2>2 DEF CoverInv, TypeInv
    <3> QED
      BY <2>1, <3>1, ReachedStep
  <2>3. CASE l \notin tree
    BY <1>2, <2>1, <2>3, NewTree
  <2> QED
    BY <2>1, <2>2, <2>3
<1>3. ASSUME NEW v \in Thread, Covered(v)' PROVE v \in listed' /\ \A l \in tree' : Reached(v, l)'
  <2>1. CASE Covered(v)
    <3>1. v \in listed
      BY <2>1 DEF CoverInv
    <3> QED
      BY <1>1, <1>2, <2>1, <3>1
  <2>2. CASE ~Covered(v) /\ v = th
    <3>1. th \in listed /\ \A l \in tree' : Visiting(th, l)' /\ local'[th].job = "user"
      BY <1>3, <2>2, NewCovered
    <3> QED
      BY <1>1, <2>2, <3>1 DEF Reached
  <2>3. CASE ~Covered(v) /\ v # th
    <3>1. pc'[v] = pc[v] /\ stack'[v] = stack[v] /\ local'[v] = local[v]
      BY <2>3, StepOnly DEF Only
    <3>2. v \in hooked' => v \in hooked
      <4>1. hooked' = hooked \/ HookReturn(th)
        BY StepWrites, StepRuns DEF Writes, Runs
      <4> QED
        BY <2>3, <4>1 DEF HookReturn
    <3>3. Covered(v)
      BY <1>3, <3>1, <3>2 DEF Covered, Labels
    <3> QED
      BY <2>3, <3>3
  <2> QED
    BY <2>1, <2>2, <2>3
<1> QED
  BY <1>3 DEF CoverInv

-----------------------------------------------------------------------------
(* The whole                                                               *)

ReachInv == /\ JobInv /\ OneInv /\ AskedInv /\ GoneInv /\ FlightInv
            /\ HistInv /\ ListedInv /\ CoverInv /\ hooked \subseteq Thread

\* It holds at the start.
LEMMA InitReach ==
  Init => ReachInv
<1> SUFFICES ASSUME Init PROVE ReachInv
  OBVIOUS
<1>0. \A y : y \notin Range(<<>>)
  BY DEF Range
<1>1. \A th \in Thread : /\ pc[th] = "idle" /\ stack[th] = <<>> /\ local[th].job = "user"
                         /\ Len(local[th].frames) = 0
  BY DEF Init, NoLocal
<1>2. \A th \in Thread : Labels(th) = {"idle"}
  BY <1>0, <1>1 DEF Labels
<1>3. JobInv
  BY <1>0, <1>1, <1>2 DEF JobInv, JobAt
<1>4. OneInv
  BY <1>0, <1>1 DEF OneInv, OneAt, Init
<1>5. AskedInv
  BY <1>0, <1>1 DEF AskedInv, AskedAt, DlL, Init
<1>6. GoneInv
  BY <1>1 DEF GoneInv, Init
<1>7. FlightInv
  BY DEF FlightInv, Init
<1>8. HistInv
  BY DEF HistInv, Init
<1>9. ListedInv
  BY <1>2 DEF ListedInv
<1>10. CoverInv
  BY <1>1, <1>2 DEF CoverInv, Covered, Init
<1>11. hooked \subseteq Thread
  BY DEF Init
<1> QED
  BY <1>3, <1>4, <1>5, <1>6, <1>7, <1>8, <1>9, <1>10, <1>11 DEF ReachInv

\* Every step keeps it.
LEMMA NextReach ==
  IInv /\ ReachInv /\ [Next]_vars => ReachInv'
<1> SUFFICES ASSUME IInv, ReachInv, [Next]_vars PROVE ReachInv'
  OBVIOUS
<1>0. /\ JobInv /\ OneInv /\ AskedInv /\ GoneInv /\ FlightInv
      /\ HistInv /\ ListedInv /\ CoverInv /\ hooked \subseteq Thread
  BY DEF ReachInv
<1>t. TypeInv /\ StackInv /\ TypeInv' /\ StackInv'
  BY NextInv DEF IInv
<1>1. ASSUME NEW th \in Thread, Step(th) PROVE ReachInv'
  <2>1. JobInv' /\ OneInv'
    BY <1>0, <1>1, <1>t, NextJob, NextOne
  <2>2. AskedInv' /\ GoneInv' /\ FlightInv'
    BY <1>0, <1>1, <1>t, NextAsked, NextGone, NextFlight
  <2>3. HistInv' /\ ListedInv'
    BY <1>0, <1>1, <1>t, NextHist, NextListed
  <2>4. CoverInv'
    BY <1>0, <1>1, <1>t, NextCover
  <2>5. hooked' \subseteq Thread
    <3>1. hooked' = hooked \/ HookReturn(th)
      BY <1>1, <1>t, StepWrites, StepRuns DEF Writes, Runs
    <3> QED
      BY <1>0, <3>1 DEF HookReturn
  <2> QED
    BY <2>1, <2>2, <2>3, <2>4, <2>5 DEF ReachInv
<1>2. CASE UNCHANGED vars
  <2> USE <1>2 DEF vars, inits, monitor, locks, elves, history
  <2>1. JobInv'
    BY <1>0 DEF JobInv, JobAt, Labels
  <2>2. OneInv'
    BY <1>0 DEF OneInv, OneAt, StubSeq
  <2>3. AskedInv'
    BY <1>0 DEF AskedInv, AskedAt, Asked
  <2>4. GoneInv'
    BY <1>0 DEF GoneInv, Frame
  <2>5. FlightInv'
    BY <1>0 DEF FlightInv, InFlight
  <2>6. HistInv' /\ ListedInv' /\ hooked' \subseteq Thread
    BY <1>0 DEF HistInv, ListedInv, Labels
  <2>7. CoverInv'
    BY <1>0 DEF CoverInv, Covered, Reached, Visiting, Excused, Labels
  <2> QED
    BY <2>1, <2>2, <2>3, <2>4, <2>5, <2>6, <2>7 DEF ReachInv
<1> QED
  BY <1>1, <1>2 DEF Next, Finished

\* The two invariants together hold in every state of every start.
THEOREM ReachInvariance == Spec => [](IInv /\ ReachInv)
<1>1. Init => IInv /\ ReachInv
  BY InitInv, InitReach
<1>2. (IInv /\ ReachInv) /\ [Next]_vars => (IInv /\ ReachInv)'
  BY NextInv, NextReach
<1> QED
  BY <1>1, <1>2, PTL DEF Spec

\* Once all calls are over, what is loaded is in the tree, unless it was missed.
LEMMA QuietTree ==
  ASSUME IInv, ReachInv, Quiet, NEW th \in hooked, NEW l \in linked
  PROVE  l \in tree \cup unsafe
<1>q. \A u \in Thread : pc[u] = "idle" /\ Len(local[u].frames) = 0
  <2> SUFFICES ASSUME NEW u \in Thread PROVE Len(local[u].frames) = 0
    BY DEF Quiet
  <2>1. pc[u] = "idle"
    BY DEF Quiet
  <2> QED
    BY <2>1 DEF IInv, StackInv, Fits, TopL
<1>1. CASE l \in setup.loaded
  <2>1. OneAt(th)
    BY DEF ReachInv, OneInv
  <2>2. Refreshed
    BY <2>1 DEF OneAt, IInv, RefreshInv
  <2>3. l \notin budget.shut
    BY <1>q DEF ReachInv, GoneInv
  <2> QED
    BY <1>1, <2>2, <2>3 DEF Refreshed
<1>2. CASE l \notin setup.loaded
  <2>1. l \in tree \cup unsafe \/ \E u \in Thread : InFlight(u, l)
    BY <1>2 DEF ReachInv, FlightInv
  <2>2. ASSUME NEW u \in Thread PROVE ~InFlight(u, l)
    BY <1>q DEF InFlight
  <2> QED
    BY <2>1, <2>2
<1> QED
  BY <1>1, <1>2

\* When all is quiet, the task of every hook call that succeeded was applied to every library
\* that is loaded, whatever the number of threads, of libraries and of calls, and however the
\* start of the monitor, other hook calls, dlopen, dlclose and their callbacks were
\* interleaved: missed are only an unreadable library, one that was searched while another
\* thread parsed it, and one opened past the monitor (bh_task_manager_hook,
\* bh_task_manager_post_dlopen, bh_dl_monitor_init).
THEOREM HooksReachAll == Spec => []AppliedUnlessRaced
<1>1. IInv /\ ReachInv => AppliedUnlessRaced
  <2> SUFFICES ASSUME IInv, ReachInv, Quiet, NEW th \in hooked, NEW l \in linked
               PROVE  \/ l \in applied[th] \cup unsafe \cup parse.error
                      \/ \E u \in Thread : <<u, l>> \in early
    BY DEF AppliedUnlessRaced
  <2>1. \A u \in Thread : ~Visiting(u, l)
    BY DEF Quiet, Visiting, VisitL, SectionL
  <2>2. CASE l \in tree
    <3>1. Covered(th) /\ th \in Thread
      BY DEF Covered, ReachInv
    <3>2. Reached(th, l)
      BY <2>2, <3>1 DEF ReachInv, CoverInv
    <3> QED
      BY <2>1, <3>1, <3>2 DEF Reached, Excused
  <2>3. CASE l \notin tree
    BY <2>3, QuietTree
  <2> QED
    BY <2>2, <2>3
<1> QED
  BY <1>1, ReachInvariance, PTL

==============================================================================
