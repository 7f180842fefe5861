---------------------------- MODULE Startup_proofs ----------------------------
(***************************************************************************)
(* Safety of Startup for every number of threads, libraries, callbacks,    *)
(* signals and slots, and every scenario.                                  *)
(***************************************************************************)
EXTENDS Startup, FiniteSetTheorems, TLAPS

\* The labels, by the call they belong to.
TopL == {"idle", "hooked", "add_cb"}
InitL == {"init", "parts"}
TmL == {"tm_init", "tm_locked", "tm_store", "tm_done"}
HookL == {"tm_hook", "oneshot", "one", "one_refresh", "one_end", "rdlock", "rdunlock"}
DlL == {"dl_init", "dl_locked", "mon", "uninit", "dl_end"}
VisitL == {"visit", "parse", "parsed", "find"}
SectionL == {"claim", "store", "section", "clear", "free"}
LinkL == {"pre", "pre_cb", "link", "ctor", "opened", "post_rd", "post_refresh", "post_end",
          "post", "post_cb", "open_end", "wrlock", "unlink", "sync_refresh", "close_end"}
Label == TopL \cup InitL \cup TmL \cup HookL \cup DlL \cup VisitL \cup SectionL \cup LinkL

\* The stacks a call can have under it.  n nested linker calls return to the constructors
\* they were made from, the first to the application.
On(x, s) == <<x>> \o s
Nest(n) == [i \in 1..n |-> IF i = n THEN "idle" ELSE "ctor"]
FromHook == On("hooked", <<>>)
Starts == {On("tm_store", FromHook), On("add_cb", <<>>)}
MonStacks == {On("mon", s) : s \in Starts}
HookStacks == {FromHook} \cup MonStacks
VisitStacks(n) == IF n = 0 THEN {On(back, s) : back \in {"one_end", "rdunlock"}, s \in HookStacks}
                           ELSE {On("post_end", Nest(n))}

\* The stack s and n linker calls under way fit label l.
Fits(l, s, n) ==
    /\ l \in TopL => n = 0 /\ s = <<>>
    /\ l \in InitL => n = 0 /\ s = Nest(1)
    /\ l \in TmL => n = 0 /\ s = FromHook
    /\ l \in HookL => n = 0 /\ s \in HookStacks
    /\ l \in DlL => n = 0 /\ s \in Starts
    /\ l \in LinkL => n > 0 /\ s = Nest(n)
    /\ l \in VisitL => s \in VisitStacks(n)
    /\ l \in SectionL => s \in {On("parsed", v) : v \in VisitStacks(n)}
StackInv == \A th \in Thread : Fits(pc[th], stack[th], Len(local[th].frames))

FrameType == [lib : Lib, proxy : BOOLEAN, wrlocked : BOOLEAN]
Stubs == {"dlopen", "dlclose", "android_dlopen_ext", "loader_dlopen",
          "loader_android_dlopen_ext", "loader_dlclose"}
LocalType == [res : BOOLEAN, todo : Seq(Stubs), elfs : SUBSET Lib, elf : Lib \cup {None},
              sigs : Seq(Range(Signals)), fault : BOOLEAN, job : Stubs \cup {"user", "post"},
              cb : Callbacks \cup {None}, frames : Seq(FrameType)]
TypeInv ==
    /\ setup \in Scenarios
    /\ pc \in [Thread -> Label] /\ stack \in [Thread -> Seq(Label)]
    /\ local \in [Thread -> LocalType]
    /\ core \in [status : {"UNINIT", "OK"} \cup Parts, parts : SUBSET Parts,
                 lock : Thread \cup {None}]
    /\ tm \in [inited : BOOLEAN, ok : BOOLEAN, posts : BOOLEAN, lock : Thread \cup {None}]
    /\ dl \in [inited : BOOLEAN, ok : BOOLEAN, initing : BOOLEAN, lock : Thread \cup {None}]
    /\ one \in [done : BOOLEAN, lock : Thread \cup {None}]
    /\ linker \in Thread \cup {None}
    /\ slots \in [Range(Signals) -> [1..SlotMax -> [tid : Thread \cup {None},
                                                   jbuf : Thread \cup {None}]]]
    /\ budget \in [calls : [Thread -> Nat], faults : Nat, shut : SUBSET Lib]
    /\ linked \subseteq Lib /\ tree \subseteq Lib /\ listed \subseteq Thread

\* The entries of the table: none of the thread's, exactly one, one with its buffer.
Free0(th, s) == \A j \in 1..SlotMax : slots[s][j].tid # th
Claimed(th, s) == \E j \in 1..SlotMax : \A i \in 1..SlotMax : slots[s][i].tid = th <=> i = j
Armed(th, s) == /\ Claimed(th, s)
                /\ \A j \in 1..SlotMax : slots[s][j].tid = th => slots[s][j].jbuf = th
SlotAt(th) ==
    LET left == local[th].sigs
    IN /\ pc[th] \notin SectionL => \A s \in Range(Signals) : Free0(th, s)
       /\ pc[th] = "section" => \A s \in Range(Signals) : Armed(th, s)
       /\ pc[th] \in SectionL \ {"section"} => left # <<>> /\ IsInjective(left)
       /\ pc[th] \in {"claim", "store"} => \A s \in Range(Signals) :
             /\ s \notin Range(left) => Armed(th, s)
             /\ s \in Range(Tail(left)) => Free0(th, s)
             /\ s = Head(left) => IF pc[th] = "store" THEN Claimed(th, s) ELSE Free0(th, s)
       /\ pc[th] \in {"clear", "free"} => \A s \in Range(Signals) :
             /\ s \notin Range(left) => Free0(th, s)
             /\ s \in Range(Tail(left)) => Armed(th, s)
             /\ s = Head(left) => IF pc[th] = "free" THEN Claimed(th, s) ELSE Armed(th, s)
SlotInv == \A th \in Thread : SlotAt(th)

\* The linker's lock is held by the thread whose constructors run.
LinkerInv == \A th \in Thread :
    linker = th <=> pc[th] = "ctor" \/ Len(local[th].frames) > 1

\* bh_core_init
CoreInv == /\ core.status = "OK" => core.parts = Parts
           /\ listed # {} => core.parts = Parts

\* What was loaded at the start is in the tree, or was closed.
Refreshed == setup.loaded \cap linked \subseteq tree \cup budget.shut
CloseL == {"wrlock", "unlink", "sync_refresh", "close_end"}
ShutInv == /\ setup.loaded \subseteq linked \cup budget.shut
           /\ \A th \in Thread : pc[th] \in CloseL => Frame(th).lib \in budget.shut
Labels(th) == {pc[th]} \cup Range(stack[th])
\* The thread that starts the monitor keeps the lock and initing until it is done.
DlInv == \A th \in Thread :
    pc[th] \in DlL \ {"dl_init"} \/ "mon" \in Range(stack[th]) => dl.lock = th /\ dl.initing
RefreshInv ==
    /\ one.done \/ dl.ok \/ tm.ok => Refreshed
    /\ \A th \in Thread :
         /\ {"rdlock", "rdunlock", "one_end"} \cap Labels(th) # {} => Refreshed
         /\ pc[th] \in {"tm_store", "tm_done", "dl_end"} /\ local[th].res => Refreshed
         /\ pc[th] = "mon" /\ local[th].todo # StubSeq => Refreshed

IInv == TypeInv /\ StackInv /\ SlotInv /\ LinkerInv /\ LockOrder /\ CoreInv /\ ShutInv /\ DlInv
        /\ RefreshInv
-----------------------------------------------------------------------------
(* Stacks                                                                  *)

HIDE StartupAssumption

\* What is pushed is popped.
LEMMA PushPop ==
  ASSUME NEW S, NEW x \in S, NEW s \in Seq(S)
  PROVE  /\ On(x, s) \in Seq(S) /\ On(x, s) # <<>>
         /\ Head(On(x, s)) = x /\ Tail(On(x, s)) = s
         /\ \A y : y \in Range(On(x, s)) <=> y = x \/ y \in Range(s)
<1>1. /\ On(x, s) \in Seq(S) /\ On(x, s) # <<>>
      /\ Head(On(x, s)) = x /\ Tail(On(x, s)) = s
      /\ Len(On(x, s)) = Len(s) + 1 /\ On(x, s)[1] = x
      /\ \A i \in 1..Len(s) : On(x, s)[i + 1] = s[i]
  BY DEF On
<1>2. DOMAIN On(x, s) = 1..Len(s) + 1 /\ DOMAIN s = 1..Len(s) /\ Len(s) \in Nat
  BY <1>1
<1>3. ASSUME NEW y \in Range(On(x, s)) PROVE y \in {x} \cup Range(s)
  <2>1. PICK i \in 1..Len(s) + 1 : y = On(x, s)[i]
    BY <1>2 DEF Range
  <2>2. i = 1 \/ (i - 1 \in 1..Len(s) /\ On(x, s)[(i - 1) + 1] = On(x, s)[i])
    BY <1>2
  <2> QED
    BY <1>1, <1>2, <2>1, <2>2 DEF Range
<1>4. Range(s) \subseteq Range(On(x, s))
  <2>1. \A i \in 1..Len(s) : i + 1 \in 1..Len(s) + 1
    BY <1>2
  <2> QED
    BY <1>1, <1>2, <2>1 DEF Range
<1>5. x \in Range(On(x, s))
  BY <1>1, <1>2 DEF Range
<1>6. \A y : y \in Range(On(x, s)) <=> y = x \/ y \in Range(s)
  BY <1>3, <1>4, <1>5
<1> QED
  BY <1>1, <1>6

\* What is left after the head was in the sequence.
LEMMA TailRange ==
  ASSUME NEW S, NEW s \in Seq(S), s # <<>>
  PROVE  /\ Head(s) \in S /\ Tail(s) \in Seq(S)
         /\ \A y : y \in Range(s) <=> y = Head(s) \/ y \in Range(Tail(s))
<1>1. PICK x \in S, t \in Seq(S) : s = On(x, t)
  <2>1. s = On(Head(s), Tail(s)) /\ Head(s) \in S /\ Tail(s) \in Seq(S)
    BY DEF On
  <2> QED
    BY <2>1
<1>2. Head(On(x, t)) = x /\ Tail(On(x, t)) = t
      /\ \A y : y \in Range(On(x, t)) <=> y = x \/ y \in Range(t)
  BY PushPop
<1>3. Head(s) = x /\ Tail(s) = t
  BY <1>1, <1>2
<1> QED
  BY <1>1, <1>2, <1>3

\* A sequence without repetition has its head once.
LEMMA TailInjective ==
  ASSUME NEW S, NEW s \in Seq(S), s # <<>>, IsInjective(s)
  PROVE  IsInjective(Tail(s)) /\ Head(s) \notin Range(Tail(s))
<1> DEFINE t == Tail(s)
<1>1. t \in Seq(S) /\ Len(s) \in Nat /\ Len(s) > 0 /\ Len(t) = Len(s) - 1
      /\ DOMAIN t = 1..Len(s) - 1 /\ DOMAIN s = 1..Len(s) /\ Head(s) = s[1]
      /\ \A i \in 1..Len(s) - 1 : t[i] = s[i + 1]
  OBVIOUS
<1> HIDE DEF t
<1>2. \A i \in 1..Len(s) - 1 : i + 1 \in 1..Len(s) /\ i + 1 # 1
  BY <1>1
<1>3. 1 \in DOMAIN s
  BY <1>1
<1>4. ASSUME NEW i \in DOMAIN t PROVE t[i] # Head(s)
  BY <1>1, <1>2, <1>3 DEF IsInjective
<1>5. ASSUME NEW i \in DOMAIN t, NEW j \in DOMAIN t, t[i] = t[j] PROVE i = j
  <2>1. i + 1 = j + 1
    BY <1>1, <1>2, <1>5 DEF IsInjective
  <2> QED
    BY <1>1, <2>1
<1> QED
  BY <1>4, <1>5 DEF IsInjective, Range, t

\* Nested linker calls.
LEMMA NestFacts ==
  ASSUME NEW n \in Nat
  PROVE  /\ Nest(n) \in Seq(Label) /\ Nest(0) = <<>>
         /\ n > 0 => /\ Nest(n) # <<>> /\ Tail(Nest(n)) = Nest(n - 1)
                     /\ Head(Nest(n)) = IF n = 1 THEN "idle" ELSE "ctor"
                     /\ On("ctor", Nest(n)) = Nest(n + 1)
         /\ On("idle", <<>>) = Nest(1)
<1> USE DEF Label, TopL, LinkL
<1>1. Nest(n) \in Seq(Label) /\ Len(Nest(n)) = n
  BY DEF Nest
<1>2. Nest(0) = <<>>
  BY DEF Nest
<1>3. On("idle", <<>>) = Nest(1)
  <2>1. On("idle", <<>>) = <<"idle">>
    BY DEF On
  <2>2. Nest(1) = <<"idle">>
    BY DEF Nest
  <2> QED
    BY <2>1, <2>2
<1>4. ASSUME n > 0
      PROVE  /\ Nest(n) # <<>> /\ Tail(Nest(n)) = Nest(n - 1)
             /\ Head(Nest(n)) = IF n = 1 THEN "idle" ELSE "ctor"
             /\ On("ctor", Nest(n)) = Nest(n + 1)
  <2>1. Nest(n) # <<>> /\ Head(Nest(n)) = Nest(n)[1] /\ Tail(Nest(n)) \in Seq(Label)
        /\ Len(Tail(Nest(n))) = n - 1
        /\ \A i \in 1..n - 1 : Tail(Nest(n))[i] = Nest(n)[i + 1]
    BY <1>1, <1>4
  <2>2. Head(Nest(n)) = IF n = 1 THEN "idle" ELSE "ctor"
    BY <1>4, <2>1 DEF Nest
  <2>3. Tail(Nest(n)) = Nest(n - 1)
    <3>1. \A i \in 1..n - 1 : Tail(Nest(n))[i] = Nest(n - 1)[i]
      BY <1>4, <2>1 DEF Nest
    <3>2. Nest(n - 1) \in Seq(Label) /\ Len(Nest(n - 1)) = n - 1
      BY <1>4 DEF Nest
    <3> QED
      BY <2>1, <3>1, <3>2
  <2>4. On("ctor", Nest(n)) = Nest(n + 1)
    <3> DEFINE s == On("ctor", Nest(n))
    <3>1. s \in Seq(Label) /\ Len(s) = n + 1 /\ s[1] = "ctor"
          /\ \A i \in 2..n + 1 : s[i] = Nest(n)[i - 1]
      BY <1>1 DEF On
    <3>2. Nest(n + 1) \in Seq(Label) /\ Len(Nest(n + 1)) = n + 1
      BY DEF Nest
    <3>3. \A i \in 2..n + 1 : s[i] = Nest(n + 1)[i]
      BY <3>1 DEF Nest
    <3>4. s[1] = Nest(n + 1)[1]
      BY <1>4, <3>1 DEF Nest
    <3> HIDE DEF s
    <3>5. \A i \in 1..n + 1 : s[i] = Nest(n + 1)[i]
      BY <3>3, <3>4
    <3> QED
      BY <3>1, <3>2, <3>5 DEF s
  <2> QED
    BY <2>1, <2>2, <2>3, <2>4
<1> QED
  BY <1>1, <1>2, <1>3, <1>4

\* The kinds of stacks, popped.
LEMMA StackFacts ==
  /\ FromHook \in Seq(Label) /\ FromHook # <<>>
  /\ Head(FromHook) = "hooked" /\ Tail(FromHook) = <<>> /\ "mon" \notin Range(FromHook)
  /\ \A s \in Starts :
        /\ s \in Seq(Label) /\ s # <<>> /\ "mon" \notin Range(s)
        /\ \/ Head(s) = "tm_store" /\ Tail(s) = FromHook
           \/ Head(s) = "add_cb" /\ Tail(s) = <<>>
  /\ \A s \in MonStacks :
        /\ s \in Seq(Label) /\ s # <<>> /\ "mon" \in Range(s)
        /\ Head(s) = "mon" /\ Tail(s) \in Starts
<1> USE DEF Label, TopL, TmL, DlL
<1>0. <<>> \in Seq(Label) /\ \A y : y \notin Range(<<>>)
  BY DEF Range
<1>1. /\ FromHook \in Seq(Label) /\ FromHook # <<>>
      /\ \A y : y \in Range(FromHook) <=> y = "hooked"
      /\ Head(FromHook) = "hooked" /\ Tail(FromHook) = <<>>
  <2>1. "hooked" \in Label
    OBVIOUS
  <2> HIDE DEF Label
  <2> QED
    BY <1>0, <2>1, PushPop DEF FromHook
<1>2. ASSUME NEW s \in Starts
      PROVE  /\ s \in Seq(Label) /\ s # <<>> /\ "mon" \notin Range(s)
             /\ \/ Head(s) = "tm_store" /\ Tail(s) = FromHook
                \/ Head(s) = "add_cb" /\ Tail(s) = <<>>
  <2>1. "tm_store" \in Label /\ "add_cb" \in Label
    OBVIOUS
  <2> HIDE DEF Label
  <2>2. CASE s = On("tm_store", FromHook)
    <3>1. /\ On("tm_store", FromHook) \in Seq(Label) /\ On("tm_store", FromHook) # <<>>
          /\ Head(On("tm_store", FromHook)) = "tm_store"
          /\ Tail(On("tm_store", FromHook)) = FromHook
          /\ \A y : y \in Range(On("tm_store", FromHook)) <=>
                     y = "tm_store" \/ y \in Range(FromHook)
      BY <1>1, <2>1, PushPop
    <3> HIDE DEF FromHook
    <3> QED
      BY <1>1, <2>2, <3>1
  <2>3. CASE s = On("add_cb", <<>>)
    BY ZenonT(30), <1>0, <2>1, <2>3, PushPop
  <2> QED
    BY <2>2, <2>3 DEF Starts
<1>3. ASSUME NEW s \in MonStacks
      PROVE  /\ s \in Seq(Label) /\ s # <<>> /\ "mon" \in Range(s)
             /\ Head(s) = "mon" /\ Tail(s) \in Starts
  <2>1. "mon" \in Label
    OBVIOUS
  <2> HIDE DEF Label
  <2>2. PICK z \in Starts : s = On("mon", z)
    BY DEF MonStacks
  <2> QED
    BY <1>2, <2>1, <2>2, PushPop
<1> QED
  BY <1>1, <1>2, <1>3

\* What lies under a visit of an ELF: the end of a one-shot refresh or of a post.
LEMMA VisitFacts ==
  ASSUME NEW n \in Nat, NEW v \in VisitStacks(n)
  PROVE  /\ v \in Seq(Label) /\ v # <<>>
         /\ \/ n = 0 /\ Head(v) \in {"one_end", "rdunlock"} /\ Tail(v) \in HookStacks
            \/ n > 0 /\ Head(v) = "post_end" /\ Tail(v) = Nest(n)
<1>1. {"one_end", "rdunlock", "post_end"} \subseteq Label
  BY DEF Label, HookL, LinkL
<1>2. CASE n = 0
  <2>1. PICK back \in {"one_end", "rdunlock"}, s \in HookStacks : v = On(back, s)
    BY <1>2 DEF VisitStacks
  <2>2. s \in Seq(Label)
    BY StackFacts DEF HookStacks
  <2>3. back \in Label /\ v = On(back, s)
    BY <1>1, <2>1
  <2>4. v \in Seq(Label) /\ v # <<>> /\ Head(v) = back /\ Tail(v) = s
    BY <2>2, <2>3, PushPop
  <2> QED
    BY <1>2, <2>1, <2>4
<1>3. CASE n > 0
  <2>1. v = On("post_end", Nest(n))
    BY <1>3 DEF VisitStacks
  <2>2. "post_end" \in Label /\ Nest(n) \in Seq(Label)
    BY <1>1, NestFacts
  <2>3. v \in Seq(Label) /\ v # <<>> /\ Head(v) = "post_end" /\ Tail(v) = Nest(n)
    BY <2>1, <2>2, PushPop
  <2> QED
    BY <1>3, <2>3
<1> QED
  BY <1>2, <1>3

\* Where a call may return to.
Backs == {"idle", "ctor", "hooked", "tm_store", "mon", "add_cb", "one_end", "rdunlock", "post_end",
          "parsed"}

\* A call that returns fits below.
LEMMA ReturnFits ==
  ASSUME NEW l \in Label \ TopL, NEW s \in Seq(Label), NEW n \in Nat, Fits(l, s, n)
  PROVE  /\ s # <<>> /\ Head(s) \in Backs
         /\ Fits(Head(s), Tail(s), IF l \in LinkL THEN n - 1 ELSE n)
         /\ l \in LinkL => n > 0 /\ Head(s) = IF n = 1 THEN "idle" ELSE "ctor"
         /\ l \in TmL => Head(s) = "hooked"
         /\ l \in DlL => Head(s) \in {"tm_store", "add_cb"}
         /\ l \in HookL => Head(s) \in {"hooked", "mon"}
         /\ l \in InitL => Head(s) = "idle"
         /\ l \in VisitL => Head(s) \in {"one_end", "rdunlock", "post_end"}
         /\ l \in SectionL => Head(s) = "parsed"
<1> USE DEF Fits, Backs, TopL, InitL, TmL, HookL, DlL, LinkL, VisitL, SectionL
<1>1. CASE l \in InitL
  <2>1. Nest(1) # <<>> /\ Tail(Nest(1)) = Nest(0) /\ Head(Nest(1)) = "idle" /\ Nest(0) = <<>>
    <3>1. 1 \in Nat /\ 1 > 0 /\ 1 - 1 = 0
      OBVIOUS
    <3> QED
      BY <3>1, NestFacts
  <2>2. n = 0 /\ s = Nest(1)
    BY <1>1
  <2> QED
    BY <1>1, <2>1, <2>2
<1>2. CASE l \in TmL
  BY <1>2, StackFacts
<1>3. CASE l \in HookL
  <2>1. s = FromHook \/ s \in MonStacks
    BY <1>3 DEF HookStacks
  <2> QED
    BY <1>3, <2>1, StackFacts
<1>4. CASE l \in DlL
  BY <1>4, StackFacts
<1>5. CASE l \in LinkL
  <2>1. n > 0 /\ s = Nest(n)
    BY <1>5
  <2>2. s # <<>> /\ Tail(s) = Nest(n - 1) /\ Head(s) = IF n = 1 THEN "idle" ELSE "ctor"
    BY <2>1, NestFacts
  <2>3. n = 1 => Nest(n - 1) = <<>>
    BY NestFacts
  <2> QED
    BY <1>5, <2>1, <2>2, <2>3
<1>6. CASE l \in VisitL
  <2>1. s \in VisitStacks(n)
    BY <1>6
  <2> QED
    BY <1>6, <2>1, VisitFacts
<1>7. CASE l \in SectionL
  <2>1. PICK v \in VisitStacks(n) : s = On("parsed", v)
    BY <1>7
  <2>2. "parsed" \in Label /\ v \in Seq(Label)
    BY VisitFacts DEF Label
  <2>3. s # <<>> /\ Head(s) = "parsed" /\ Tail(s) = v
    BY <2>1, <2>2, PushPop
  <2> QED
    BY <1>7, <2>3
<1> QED
  BY <1>1, <1>2, <1>3, <1>4, <1>5, <1>6, <1>7 DEF Label

\* A call that is made fits on top.
LEMMA CallFits ==
  ASSUME NEW k \in Label, NEW l \in Label, NEW back \in Label, NEW s \in Seq(Label), NEW n \in Nat,
         Fits(k, s, n)
  PROVE  /\ k = "idle" /\ l \in InitL /\ back = "idle" => Fits(l, On(back, s), n)
         /\ k = "idle" /\ l = "tm_hook" /\ back = "hooked" => Fits(l, On(back, s), n)
         /\ k = "idle" /\ l = "dl_init" /\ back = "add_cb" => Fits(l, On(back, s), n)
         /\ k \in TmL /\ l = "dl_init" /\ back = "tm_store" => Fits(l, On(back, s), n)
         /\ k = "mon" /\ l = "tm_hook" /\ back = "mon" => Fits(l, On(back, s), n)
         /\ k \in HookL /\ l = "visit" /\ back \in {"one_end", "rdunlock"} =>
               Fits(l, On(back, s), n)
         /\ k \in LinkL /\ l = "visit" /\ back = "post_end" => Fits(l, On(back, s), n)
         /\ k \in VisitL /\ l = "claim" /\ back = "parsed" => Fits(l, On(back, s), n)
         /\ k \in {"idle", "ctor"} /\ l \in LinkL /\ back = k => Fits(l, On(back, s), n + 1)
<1> USE DEF Fits, TopL, InitL, TmL, HookL, DlL, LinkL, VisitL, SectionL
<1>1. k = "idle" /\ l \in InitL /\ back = "idle" => Fits(l, On(back, s), n)
  BY NestFacts
<1>2. k = "idle" /\ l = "tm_hook" /\ back = "hooked" => Fits(l, On(back, s), n)
  BY DEF FromHook, HookStacks
<1>3. k = "idle" /\ l = "dl_init" /\ back = "add_cb" => Fits(l, On(back, s), n)
  BY DEF Starts
<1>4. k \in TmL /\ l = "dl_init" /\ back = "tm_store" => Fits(l, On(back, s), n)
  BY DEF Starts
<1>5. k = "mon" /\ l = "tm_hook" /\ back = "mon" => Fits(l, On(back, s), n)
  BY DEF MonStacks, HookStacks
<1>6. k \in HookL /\ l = "visit" /\ back \in {"one_end", "rdunlock"} => Fits(l, On(back, s), n)
  BY DEF VisitStacks
<1>7. k \in LinkL /\ l = "visit" /\ back = "post_end" => Fits(l, On(back, s), n)
  BY DEF VisitStacks
<1>8. k \in VisitL /\ l = "claim" /\ back = "parsed" => Fits(l, On(back, s), n)
  OBVIOUS
<1>9. k \in {"idle", "ctor"} /\ l \in LinkL /\ back = k => Fits(l, On(back, s), n + 1)
  <2>1. CASE k = "idle"
    BY <2>1, NestFacts
  <2>2. CASE k = "ctor"
    BY <2>2, NestFacts
  <2> QED
    BY <2>1, <2>2
<1> QED
  BY <1>1, <1>2, <1>3, <1>4, <1>5, <1>6, <1>7, <1>8, <1>9

-----------------------------------------------------------------------------
(* Types                                                                   *)

\* The next call to be hooked.
LEMMA StubSeqType ==
  ASSUME TypeInv
  PROVE  StubSeq \in Seq(Stubs) \ {<<>>}
<1>1. setup.api \in {"J", "L", "O"}
  BY StartupAssumption DEF TypeInv, Scenario
<1> QED
  BY <1>1 DEF StubSeq, Stubs

\* The program counter, the stack and the locals of the other threads stay.
Only(th) ==
    /\ setup' = setup
    /\ \A u \in Thread \ {th} : pc'[u] = pc[u] /\ stack'[u] = stack[u] /\ local'[u] = local[u]

\* A step of one thread leaves the label, stack and locals of the others alone.
LEMMA StepOnly ==
  ASSUME TypeInv, NEW th \in Thread, Step(th)
  PROVE  Only(th)
<1> USE DEF Only, TypeInv, inits, monitor, locks, elves, history, Goto, Gosub, Return, Set,
            Call,
            LinkerCall, TmResult, NextSignal, CallCb, Push, Pop
<1>1. ASSUME InitCall(th) PROVE Only(th)
  BY <1>1 DEF InitCall
<1>2. ASSUME InitLock(th) PROVE Only(th)
  BY <1>2 DEF InitLock
<1>3. ASSUME InitPart(th) PROVE Only(th)
  BY <1>3 DEF InitPart
<1>4. ASSUME InitEnd(th) PROVE Only(th)
  BY <1>4 DEF InitEnd
<1>5. ASSUME HookCall(th) PROVE Only(th)
  BY <1>5 DEF HookCall
<1>6. ASSUME HookReturn(th) PROVE Only(th)
  BY <1>6 DEF HookReturn
<1>7. ASSUME TmHook(th) PROVE Only(th)
  BY <1>7 DEF TmHook
<1>8. ASSUME OneShot(th) PROVE Only(th)
  BY <1>8 DEF OneShot
<1>9. ASSUME OneLocked(th) PROVE Only(th)
  BY <1>9 DEF OneLocked
<1>10. ASSUME OneRefresh(th) PROVE Only(th)
  BY <1>10 DEF OneRefresh
<1>11. ASSUME OneEnd(th) PROVE Only(th)
  BY <1>11 DEF OneEnd
<1>12. ASSUME RdLock(th) PROVE Only(th)
  BY <1>12 DEF RdLock
<1>13. ASSUME RdUnlock(th) PROVE Only(th)
  BY <1>13 DEF RdUnlock
<1>14. ASSUME TmInit(th) PROVE Only(th)
  BY <1>14 DEF TmInit
<1>15. ASSUME TmLocked(th) PROVE Only(th)
  BY <1>15 DEF TmLocked
<1>16. ASSUME TmStore(th) PROVE Only(th)
  BY <1>16 DEF TmStore
<1>17. ASSUME TmDone(th) PROVE Only(th)
  BY <1>17 DEF TmDone
<1>18. ASSUME DlInit(th) PROVE Only(th)
  BY <1>18 DEF DlInit
<1>19. ASSUME DlLocked(th) PROVE Only(th)
  BY <1>19 DEF DlLocked
<1>20. ASSUME MonHook(th) PROVE Only(th)
  BY <1>20 DEF MonHook
<1>21. ASSUME MonFail(th) PROVE Only(th)
  BY <1>21 DEF MonFail
<1>22. ASSUME MonDone(th) PROVE Only(th)
  BY <1>22 DEF MonDone
<1>23. ASSUME Uninit(th) PROVE Only(th)
  BY <1>23 DEF Uninit
<1>24. ASSUME DlEnd(th) PROVE Only(th)
  BY <1>24 DEF DlEnd
<1>25. ASSUME VisitEnd(th) PROVE Only(th)
  BY <1>25 DEF VisitEnd
<1>26. ASSUME Parse(th) PROVE Only(th)
  BY <1>26 DEF Parse
<1>27. ASSUME Parsed(th) PROVE Only(th)
  BY <1>27 DEF Parsed
<1>28. ASSUME Find(th) PROVE Only(th)
  BY <1>28 DEF Find
<1>29. ASSUME Store(th) PROVE Only(th)
  BY <1>29 DEF Store
<1>30. ASSUME Leave(th) PROVE Only(th)
  BY <1>30 DEF Leave
<1>31. ASSUME Clear(th) PROVE Only(th)
  BY <1>31 DEF Clear
<1>32. ASSUME Free(th) PROVE Only(th)
  BY <1>32 DEF Free
<1>33. ASSUME AddCb(th) PROVE Only(th)
  BY <1>33 DEF AddCb
<1>34. ASSUME Pre(th) PROVE Only(th)
  BY <1>34 DEF Pre
<1>35. ASSUME Post(th) PROVE Only(th)
  BY <1>35 DEF Post
<1>36. ASSUME Link(th) PROVE Only(th)
  BY <1>36 DEF Link
<1>37. ASSUME Linked(th) PROVE Only(th)
  BY <1>37 DEF Linked
<1>38. ASSUME Opened(th) PROVE Only(th)
  BY <1>38 DEF Opened
<1>39. ASSUME PostRdLock(th) PROVE Only(th)
  BY <1>39 DEF PostRdLock
<1>40. ASSUME PostRefresh(th) PROVE Only(th)
  BY <1>40 DEF PostRefresh
<1>41. ASSUME PostEnd(th) PROVE Only(th)
  BY <1>41 DEF PostEnd
<1>42. ASSUME OpenEnd(th) PROVE Only(th)
  BY <1>42 DEF OpenEnd
<1>43. ASSUME WrLock(th) PROVE Only(th)
  BY <1>43 DEF WrLock
<1>44. ASSUME Unlink(th) PROVE Only(th)
  BY <1>44 DEF Unlink
<1>45. ASSUME SyncRefresh(th) PROVE Only(th)
  BY <1>45 DEF SyncRefresh
<1>46. ASSUME CloseEnd(th) PROVE Only(th)
  BY <1>46 DEF CloseEnd
<1>47. ASSUME NEW l \in Lib, Visit(th, l) PROVE Only(th)
  BY <1>47 DEF Visit
<1>48. ASSUME NEW l \in Lib, OpenCall(th, l) PROVE Only(th)
  BY <1>48 DEF OpenCall
<1>49. ASSUME NEW l \in Lib, CloseCall(th, l) PROVE Only(th)
  BY <1>49 DEF CloseCall
<1>50. ASSUME NEW j \in 1..SlotMax, Claim(th, j) PROVE Only(th)
  BY <1>50 DEF Claim
<1>51. ASSUME NEW s \in Range(Signals), Handler(th, s) PROVE Only(th)
  BY <1>51 DEF Handler
<1>52. ASSUME NEW c \in Callbacks, AddCallback(th, c) PROVE Only(th)
  BY <1>52 DEF AddCallback
<1>53. ASSUME NEW c \in Callbacks, DelCallback(th, c) PROVE Only(th)
  BY <1>53 DEF DelCallback
<1> QED
  BY <1>1, <1>2, <1>3, <1>4, <1>5, <1>6, <1>7, <1>8, <1>9, <1>10, <1>11, <1>12, <1>13,
     <1>14, <1>15, <1>16, <1>17, <1>18, <1>19, <1>20, <1>21, <1>22, <1>23, <1>24, <1>25,
     <1>26, <1>27, <1>28, <1>29, <1>30, <1>31, <1>32, <1>33, <1>34, <1>35, <1>36, <1>37,
     <1>38, <1>39, <1>40, <1>41, <1>42, <1>43, <1>44, <1>45, <1>46, <1>47, <1>48, <1>49,
     <1>50, <1>51, <1>52, <1>53
     DEF Step

-----------------------------------------------------------------------------
(* Types are kept                                                          *)

\* A call in progress has where to return to.
LEMMA CanReturn ==
  ASSUME TypeInv, StackInv, NEW th \in Thread, pc[th] \notin TopL
  PROVE  /\ stack[th] # <<>> /\ Head(stack[th]) \in Label /\ Tail(stack[th]) \in Seq(Label)
         /\ Head(stack[th]) \in Backs
<1>1. /\ pc[th] \in Label \ TopL /\ stack[th] \in Seq(Label)
      /\ Len(local[th].frames) \in Nat /\ Fits(pc[th], stack[th], Len(local[th].frames))
  BY DEF TypeInv, StackInv, LocalType
<1>2. stack[th] # <<>> /\ Head(stack[th]) \in Backs
  BY <1>1, ReturnFits
<1> QED
  BY <1>1, <1>2

\* A linker call in progress has a frame.
LEMMA HasFrame ==
  ASSUME TypeInv, StackInv, NEW th \in Thread, pc[th] \in LinkL
  PROVE  /\ local[th].frames \in Seq(FrameType) /\ local[th].frames # <<>>
         /\ Frame(th) \in FrameType /\ Outer(th) \in Seq(FrameType)
         /\ Len(Outer(th)) = Len(local[th].frames) - 1
         /\ Frame(th) = local[th].frames[1]
<1>1. /\ Len(local[th].frames) > 0 /\ local[th].frames \in Seq(FrameType)
  BY DEF TypeInv, StackInv, LocalType, Fits
<1> QED
  BY <1>1 DEF Frame, Outer

PcStack == pc \in [Thread -> Label] /\ stack \in [Thread -> Seq(Label)]

\* Labels and stacks keep their types.
LEMMA NextPcStack ==
  ASSUME TypeInv, StackInv, NEW th \in Thread, Step(th)
  PROVE  PcStack'
<1> USE DEF PcStack, inits, monitor, locks, elves, history, Goto, Gosub, Return, Set, Call,
            LinkerCall, TmResult, NextSignal, CallCb, Push, Pop
<1>0. PcStack /\ pc[th] \in Label
  BY DEF TypeInv, Label
<1>a. ASSUME NEW l \in Label PROVE [pc EXCEPT ![th] = l] \in [Thread -> Label]
  BY <1>0
<1>b. ASSUME NEW l \in Label
      PROVE  [stack EXCEPT ![th] = <<l>> \o @] \in [Thread -> Seq(Label)]
  BY <1>0
<1>c. pc[th] \notin TopL => /\ Head(stack[th]) \in Label
                            /\ [stack EXCEPT ![th] = Tail(@)] \in [Thread -> Seq(Label)]
  BY <1>0, CanReturn
<1>d. {"idle", "hooked", "add_cb", "init", "parts", "tm_init", "tm_locked", "tm_store", "tm_done",
       "tm_hook", "oneshot", "one", "one_refresh", "one_end", "rdlock", "rdunlock", "dl_init",
       "dl_locked", "mon", "uninit", "dl_end", "visit", "parse", "parsed", "find", "claim", "store",
       "section", "clear", "free", "pre", "pre_cb", "link", "ctor", "opened", "post_rd",
       "post_refresh", "post_end", "post", "post_cb", "open_end", "wrlock", "unlink",
       "sync_refresh", "close_end"} \subseteq Label
  BY DEF Label, TopL, InitL, TmL, HookL, DlL, VisitL, SectionL, LinkL
<1>e. PcStack' <=> pc' \in [Thread -> Label] /\ stack' \in [Thread -> Seq(Label)]
  OBVIOUS
<1>f. UNCHANGED pc => pc' \in [Thread -> Label]
  BY <1>0
<1>g. UNCHANGED stack => stack' \in [Thread -> Seq(Label)]
  BY <1>0
<1>h. pc[th] \in {"parts", "tm_init", "tm_locked", "tm_done", "one_end", "rdunlock", "dl_init",
                  "dl_end", "visit", "free", "open_end", "close_end"} => pc[th] \notin TopL
  BY DEF TopL
<1> HIDE DEF PcStack
<1>1. ASSUME InitCall(th) PROVE PcStack'
  BY <1>1, <1>a, <1>b, <1>c, <1>d, <1>e, <1>f, <1>g, <1>h DEF InitCall
<1>2. ASSUME InitLock(th) PROVE PcStack'
  BY <1>2, <1>a, <1>b, <1>c, <1>d, <1>e, <1>f, <1>g, <1>h DEF InitLock
<1>3. ASSUME InitPart(th) PROVE PcStack'
  BY <1>3, <1>a, <1>b, <1>c, <1>d, <1>e, <1>f, <1>g, <1>h DEF InitPart
<1>4. ASSUME InitEnd(th) PROVE PcStack'
  BY <1>4, <1>a, <1>b, <1>c, <1>d, <1>e, <1>f, <1>g, <1>h DEF InitEnd
<1>5. ASSUME HookCall(th) PROVE PcStack'
  BY <1>5, <1>a, <1>b, <1>c, <1>d, <1>e, <1>f, <1>g, <1>h DEF HookCall
<1>6. ASSUME HookReturn(th) PROVE PcStack'
  BY <1>6, <1>a, <1>b, <1>c, <1>d, <1>e, <1>f, <1>g, <1>h DEF HookReturn
<1>7. ASSUME TmHook(th) PROVE PcStack'
  BY <1>7, <1>a, <1>b, <1>c, <1>d, <1>e, <1>f, <1>g, <1>h DEF TmHook
<1>8. ASSUME OneShot(th) PROVE PcStack'
  BY ZenonT(30), <1>8, <1>a, <1>b, <1>c, <1>d, <1>e, <1>f, <1>g, <1>h DEF OneShot
<1>9. ASSUME OneLocked(th) PROVE PcStack'
  BY <1>9, <1>a, <1>b, <1>c, <1>d, <1>e, <1>f, <1>g, <1>h DEF OneLocked
<1>10. ASSUME OneRefresh(th) PROVE PcStack'
  BY <1>10, <1>a, <1>b, <1>c, <1>d, <1>e, <1>f, <1>g, <1>h DEF OneRefresh
<1>11. ASSUME OneEnd(th) PROVE PcStack'
  BY <1>11, <1>a, <1>b, <1>c, <1>d, <1>e, <1>f, <1>g, <1>h DEF OneEnd
<1>12. ASSUME RdLock(th) PROVE PcStack'
  BY <1>12, <1>a, <1>b, <1>c, <1>d, <1>e, <1>f, <1>g, <1>h DEF RdLock
<1>13. ASSUME RdUnlock(th) PROVE PcStack'
  BY <1>13, <1>a, <1>b, <1>c, <1>d, <1>e, <1>f, <1>g, <1>h DEF RdUnlock
<1>14. ASSUME TmInit(th) PROVE PcStack'
  BY ZenonT(30), <1>14, <1>a, <1>b, <1>c, <1>d, <1>e, <1>f, <1>g, <1>h DEF TmInit
<1>15. ASSUME TmLocked(th) PROVE PcStack'
  <2>1. CASE ~tm.inited
    <3>1. pc' = [pc EXCEPT ![th] = "dl_init"] /\ stack' = [stack EXCEPT ![th] = <<"tm_store">> \o @]
      BY <1>15, <2>1 DEF TmLocked
    <3>2. "dl_init" \in Label /\ "tm_store" \in Label
      BY <1>d
    <3> QED
      BY <1>a, <1>b, <1>e, <3>1, <3>2
  <2>2. CASE tm.inited /\ tm.ok
    BY <1>15, <2>2, <1>a, <1>b, <1>c, <1>d, <1>e, <1>f, <1>g, <1>h DEF TmLocked
  <2>3. CASE tm.inited /\ ~tm.ok
    BY <1>15, <2>3, <1>a, <1>b, <1>c, <1>d, <1>e, <1>f, <1>g, <1>h DEF TmLocked
  <2> QED
    BY <2>1, <2>2, <2>3 DEF TypeInv
<1>16. ASSUME TmStore(th) PROVE PcStack'
  BY <1>16, <1>a, <1>b, <1>c, <1>d, <1>e, <1>f, <1>g, <1>h DEF TmStore
<1>17. ASSUME TmDone(th) PROVE PcStack'
  BY ZenonT(30), <1>17, <1>a, <1>b, <1>c, <1>d, <1>e, <1>f, <1>g, <1>h DEF TmDone
<1>18. ASSUME DlInit(th) PROVE PcStack'
  BY ZenonT(30), <1>18, <1>a, <1>b, <1>c, <1>d, <1>e, <1>f, <1>g, <1>h DEF DlInit
<1>19. ASSUME DlLocked(th) PROVE PcStack'
  BY <1>19, <1>a, <1>b, <1>c, <1>d, <1>e, <1>f, <1>g, <1>h DEF DlLocked
<1>20. ASSUME MonHook(th) PROVE PcStack'
  BY <1>20, <1>a, <1>b, <1>c, <1>d, <1>e, <1>f, <1>g, <1>h DEF MonHook
<1>21. ASSUME MonFail(th) PROVE PcStack'
  BY <1>21, <1>a, <1>b, <1>c, <1>d, <1>e, <1>f, <1>g, <1>h DEF MonFail
<1>22. ASSUME MonDone(th) PROVE PcStack'
  BY <1>22, <1>a, <1>b, <1>c, <1>d, <1>e, <1>f, <1>g, <1>h DEF MonDone
<1>23. ASSUME Uninit(th) PROVE PcStack'
  BY ZenonT(30), <1>23, <1>a, <1>b, <1>c, <1>d, <1>e, <1>f, <1>g, <1>h DEF Uninit
<1>24. ASSUME DlEnd(th) PROVE PcStack'
  BY <1>24, <1>a, <1>b, <1>c, <1>d, <1>e, <1>f, <1>g, <1>h DEF DlEnd
<1>25. ASSUME VisitEnd(th) PROVE PcStack'
  BY <1>25, <1>a, <1>b, <1>c, <1>d, <1>e, <1>f, <1>g, <1>h DEF VisitEnd
<1>26. ASSUME Parse(th) PROVE PcStack'
  <2>1. CASE local[th].elf \in parse.parsed /\ local[th].elf \in parse.error
    BY SMTT(30), <1>26, <2>1, <1>a, <1>b, <1>c, <1>d, <1>e, <1>f, <1>g, <1>h DEF Parse
  <2>2. CASE local[th].elf \in parse.parsed /\ local[th].elf \notin parse.error
    BY SMTT(30), <1>26, <2>2, <1>a, <1>b, <1>c, <1>d, <1>e, <1>f, <1>g, <1>h DEF Parse
  <2>3. CASE local[th].elf \notin parse.parsed
    <3>1. pc' = [pc EXCEPT ![th] = "claim"] /\ stack' = [stack EXCEPT ![th] = <<"parsed">> \o @]
      BY <1>26, <2>3 DEF Parse
    <3>2. "claim" \in Label /\ "parsed" \in Label
      BY <1>d
    <3> QED
      BY <1>a, <1>b, <1>e, <3>1, <3>2
  <2> QED
    BY <2>1, <2>2, <2>3 DEF TypeInv
<1>27. ASSUME Parsed(th) PROVE PcStack'
  BY <1>27, <1>a, <1>b, <1>c, <1>d, <1>e, <1>f, <1>g, <1>h DEF Parsed
<1>28. ASSUME Find(th) PROVE PcStack'
  BY <1>28, <1>a, <1>b, <1>c, <1>d, <1>e, <1>f, <1>g, <1>h DEF Find
<1>29. ASSUME Store(th) PROVE PcStack'
  BY <1>29, <1>a, <1>b, <1>c, <1>d, <1>e, <1>f, <1>g, <1>h DEF Store
<1>30. ASSUME Leave(th) PROVE PcStack'
  BY <1>30, <1>a, <1>b, <1>c, <1>d, <1>e, <1>f, <1>g, <1>h DEF Leave
<1>31. ASSUME Clear(th) PROVE PcStack'
  BY <1>31, <1>a, <1>b, <1>c, <1>d, <1>e, <1>f, <1>g, <1>h DEF Clear
<1>32. ASSUME Free(th) PROVE PcStack'
  BY ZenonT(30), <1>32, <1>a, <1>b, <1>c, <1>d, <1>e, <1>f, <1>g, <1>h DEF Free
<1>33. ASSUME AddCb(th) PROVE PcStack'
  BY <1>33, <1>a, <1>b, <1>c, <1>d, <1>e, <1>f, <1>g, <1>h DEF AddCb
<1>34. ASSUME Pre(th) PROVE PcStack'
  BY <1>34, <1>a, <1>b, <1>c, <1>d, <1>e, <1>f, <1>g, <1>h DEF Pre
<1>35. ASSUME Post(th) PROVE PcStack'
  BY <1>35, <1>a, <1>b, <1>c, <1>d, <1>e, <1>f, <1>g, <1>h DEF Post
<1>36. ASSUME Link(th) PROVE PcStack'
  BY <1>36, <1>a, <1>b, <1>c, <1>d, <1>e, <1>f, <1>g, <1>h DEF Link
<1>37. ASSUME Linked(th) PROVE PcStack'
  BY <1>37, <1>a, <1>b, <1>c, <1>d, <1>e, <1>f, <1>g, <1>h DEF Linked
<1>38. ASSUME Opened(th) PROVE PcStack'
  BY <1>38, <1>a, <1>b, <1>c, <1>d, <1>e, <1>f, <1>g, <1>h DEF Opened
<1>39. ASSUME PostRdLock(th) PROVE PcStack'
  BY <1>39, <1>a, <1>b, <1>c, <1>d, <1>e, <1>f, <1>g, <1>h DEF PostRdLock
<1>40. ASSUME PostRefresh(th) PROVE PcStack'
  BY <1>40, <1>a, <1>b, <1>c, <1>d, <1>e, <1>f, <1>g, <1>h DEF PostRefresh
<1>41. ASSUME PostEnd(th) PROVE PcStack'
  BY <1>41, <1>a, <1>b, <1>c, <1>d, <1>e, <1>f, <1>g, <1>h DEF PostEnd
<1>42. ASSUME OpenEnd(th) PROVE PcStack'
  BY <1>42, <1>a, <1>b, <1>c, <1>d, <1>e, <1>f, <1>g, <1>h DEF OpenEnd
<1>43. ASSUME WrLock(th) PROVE PcStack'
  BY <1>43, <1>a, <1>b, <1>c, <1>d, <1>e, <1>f, <1>g, <1>h DEF WrLock
<1>44. ASSUME Unlink(th) PROVE PcStack'
  BY <1>44, <1>a, <1>b, <1>c, <1>d, <1>e, <1>f, <1>g, <1>h DEF Unlink
<1>45. ASSUME SyncRefresh(th) PROVE PcStack'
  BY <1>45, <1>a, <1>b, <1>c, <1>d, <1>e, <1>f, <1>g, <1>h DEF SyncRefresh
<1>46. ASSUME CloseEnd(th) PROVE PcStack'
  BY <1>46, <1>a, <1>b, <1>c, <1>d, <1>e, <1>f, <1>g, <1>h DEF CloseEnd
<1>47. ASSUME NEW l \in Lib, Visit(th, l) PROVE PcStack'
  BY SMTT(30), <1>47, <1>a, <1>b, <1>c, <1>d, <1>e, <1>f, <1>g, <1>h DEF Visit
<1>48. ASSUME NEW l \in Lib, OpenCall(th, l) PROVE PcStack'
  BY <1>48, <1>a, <1>b, <1>c, <1>d, <1>e, <1>f, <1>g, <1>h DEF OpenCall
<1>49. ASSUME NEW l \in Lib, CloseCall(th, l) PROVE PcStack'
  BY <1>49, <1>a, <1>b, <1>c, <1>d, <1>e, <1>f, <1>g, <1>h DEF CloseCall
<1>50. ASSUME NEW j \in 1..SlotMax, Claim(th, j) PROVE PcStack'
  BY <1>50, <1>a, <1>b, <1>c, <1>d, <1>e, <1>f, <1>g, <1>h DEF Claim
<1>51. ASSUME NEW s \in Range(Signals), Handler(th, s) PROVE PcStack'
  BY <1>51, <1>a, <1>b, <1>c, <1>d, <1>e, <1>f, <1>g, <1>h DEF Handler
<1>52. ASSUME NEW c \in Callbacks, AddCallback(th, c) PROVE PcStack'
  BY <1>52, <1>a, <1>b, <1>c, <1>d, <1>e, <1>f, <1>g, <1>h DEF AddCallback
<1>53. ASSUME NEW c \in Callbacks, DelCallback(th, c) PROVE PcStack'
  BY <1>53, <1>a, <1>b, <1>c, <1>d, <1>e, <1>f, <1>g, <1>h DEF DelCallback
<1> QED
  BY <1>1, <1>2, <1>3, <1>4, <1>5, <1>6, <1>7, <1>8, <1>9, <1>10, <1>11, <1>12, <1>13,
     <1>14, <1>15, <1>16, <1>17, <1>18, <1>19, <1>20, <1>21, <1>22, <1>23, <1>24, <1>25,
     <1>26, <1>27, <1>28, <1>29, <1>30, <1>31, <1>32, <1>33, <1>34, <1>35, <1>36, <1>37,
     <1>38, <1>39, <1>40, <1>41, <1>42, <1>43, <1>44, <1>45, <1>46, <1>47, <1>48, <1>49,
     <1>50, <1>51, <1>52, <1>53
     DEF Step

LocalTyped == local \in [Thread -> LocalType]

\* Locals keep their types.
LEMMA NextLocal ==
  ASSUME TypeInv, StackInv, SlotInv, NEW th \in Thread, Step(th)
  PROVE  LocalTyped'
<1> USE DEF LocalTyped, inits, monitor, locks, elves, history, Goto, Gosub, Return, Set,
            Call,
            LinkerCall, TmResult, NextSignal, CallCb, Push, Pop
<1>0. local \in [Thread -> LocalType] /\ local[th] \in LocalType
  BY DEF TypeInv
<1>a. /\ \A v \in BOOLEAN : [local EXCEPT ![th].res = v] \in [Thread -> LocalType]
      /\ \A v \in BOOLEAN : [local EXCEPT ![th].fault = v] \in [Thread -> LocalType]
      /\ \A v \in SUBSET Lib : [local EXCEPT ![th].elfs = v] \in [Thread -> LocalType]
      /\ \A v \in Lib \cup {None} : [local EXCEPT ![th].elf = v] \in [Thread -> LocalType]
      /\ \A v \in Seq(Range(Signals)) : [local EXCEPT ![th].sigs = v] \in [Thread -> LocalType]
      /\ \A v \in Callbacks \cup {None} : [local EXCEPT ![th].cb = v] \in [Thread -> LocalType]
      /\ \A v \in Seq(Stubs) : [local EXCEPT ![th].todo = v] \in [Thread -> LocalType]
      /\ \A v \in Stubs \cup {"user", "post"} :
            [local EXCEPT ![th].job = v] \in [Thread -> LocalType]
      /\ \A v \in Seq(FrameType) : [local EXCEPT ![th].frames = v] \in [Thread -> LocalType]
  BY <1>0 DEF LocalType
<1>b. UNCHANGED local => local' \in [Thread -> LocalType]
  BY <1>0
<1>c. /\ linked \subseteq Lib /\ tree \subseteq Lib
      /\ tm \in [inited : BOOLEAN, ok : BOOLEAN, posts : BOOLEAN, lock : Thread \cup {None}]
    /\ dl \in [inited : BOOLEAN, ok : BOOLEAN, initing : BOOLEAN, lock : Thread \cup {None}]
  BY DEF TypeInv
<1>d. LocalTyped' <=> local' \in [Thread -> LocalType]
  OBVIOUS
<1>e. Signals \in Seq(Range(Signals))
  BY StartupAssumption
<1>f. pc[th] \in LinkL => local[th].frames # <<>> /\ local[th].frames \in Seq(FrameType)
  BY HasFrame
<1>g. /\ local[th].res \in BOOLEAN /\ local[th].todo \in Seq(Stubs) /\ local[th].elfs \in SUBSET Lib
      /\ local[th].sigs \in Seq(Range(Signals)) /\ local[th].frames \in Seq(FrameType)
  BY <1>0 DEF LocalType
<1>h. StubSeq \in Seq(Stubs)
  BY StubSeqType
<1> HIDE DEF LocalTyped
<1>1. ASSUME InitCall(th) PROVE LocalTyped'
  BY <1>1, <1>a, <1>b, <1>c, <1>d, <1>e, <1>f, <1>g, <1>h DEF InitCall
<1>2. ASSUME InitLock(th) PROVE LocalTyped'
  BY <1>2, <1>a, <1>b, <1>c, <1>d, <1>e, <1>f, <1>g, <1>h DEF InitLock
<1>3. ASSUME InitPart(th) PROVE LocalTyped'
  BY <1>3, <1>a, <1>b, <1>c, <1>d, <1>e, <1>f, <1>g, <1>h DEF InitPart
<1>4. ASSUME InitEnd(th) PROVE LocalTyped'
  BY <1>4, <1>a, <1>b, <1>c, <1>d, <1>e, <1>f, <1>g, <1>h DEF InitEnd
<1>5. ASSUME HookCall(th) PROVE LocalTyped'
  BY <1>5, <1>a, <1>b, <1>c, <1>d, <1>e, <1>f, <1>g, <1>h DEF HookCall
<1>6. ASSUME HookReturn(th) PROVE LocalTyped'
  BY <1>6, <1>a, <1>b, <1>c, <1>d, <1>e, <1>f, <1>g, <1>h DEF HookReturn
<1>7. ASSUME TmHook(th) PROVE LocalTyped'
  BY <1>7, <1>a, <1>b, <1>c, <1>d, <1>e, <1>f, <1>g, <1>h DEF TmHook
<1>8. ASSUME OneShot(th) PROVE LocalTyped'
  BY <1>8, <1>a, <1>b, <1>c, <1>d, <1>e, <1>f, <1>g, <1>h DEF OneShot
<1>9. ASSUME OneLocked(th) PROVE LocalTyped'
  BY <1>9, <1>a, <1>b, <1>c, <1>d, <1>e, <1>f, <1>g, <1>h DEF OneLocked
<1>10. ASSUME OneRefresh(th) PROVE LocalTyped'
  BY <1>10, <1>a, <1>b, <1>c, <1>d, <1>e, <1>f, <1>g, <1>h DEF OneRefresh
<1>11. ASSUME OneEnd(th) PROVE LocalTyped'
  BY <1>11, <1>a, <1>b, <1>c, <1>d, <1>e, <1>f, <1>g, <1>h DEF OneEnd
<1>12. ASSUME RdLock(th) PROVE LocalTyped'
  BY <1>12, <1>a, <1>b, <1>c, <1>d, <1>e, <1>f, <1>g, <1>h DEF RdLock
<1>13. ASSUME RdUnlock(th) PROVE LocalTyped'
  BY <1>13, <1>a, <1>b, <1>c, <1>d, <1>e, <1>f, <1>g, <1>h DEF RdUnlock
<1>14. ASSUME TmInit(th) PROVE LocalTyped'
  BY <1>14, <1>a, <1>b, <1>c, <1>d, <1>e, <1>f, <1>g, <1>h DEF TmInit
<1>15. ASSUME TmLocked(th) PROVE LocalTyped'
  BY <1>15, <1>a, <1>b, <1>c, <1>d, <1>e, <1>f, <1>g, <1>h DEF TmLocked
<1>16. ASSUME TmStore(th) PROVE LocalTyped'
  BY <1>16, <1>a, <1>b, <1>c, <1>d, <1>e, <1>f, <1>g, <1>h DEF TmStore
<1>17. ASSUME TmDone(th) PROVE LocalTyped'
  BY <1>17, <1>a, <1>b, <1>c, <1>d, <1>e, <1>f, <1>g, <1>h DEF TmDone
<1>18. ASSUME DlInit(th) PROVE LocalTyped'
  <2>1. local' = [local EXCEPT ![th].res = dl.ok] \/ UNCHANGED local
    BY <1>18 DEF DlInit
  <2>2. [local EXCEPT ![th].res = dl.ok] \in [Thread -> LocalType]
    BY <1>a, <1>c
  <2> QED
    BY <1>b, <1>d, <2>1, <2>2
<1>19. ASSUME DlLocked(th) PROVE LocalTyped'
  <2>1. \/ local' = [local EXCEPT ![th].res = dl.ok]
        \/ local' = [local EXCEPT ![th].todo = StubSeq]
    BY <1>19 DEF DlLocked
  <2>2. [local EXCEPT ![th].res = dl.ok] \in [Thread -> LocalType]
    BY <1>a, <1>c
  <2>3. [local EXCEPT ![th].todo = StubSeq] \in [Thread -> LocalType]
    BY <1>a, <1>h
  <2> QED
    BY <1>d, <2>1, <2>2, <2>3
<1>20. ASSUME MonHook(th) PROVE LocalTyped'
  <2>1. local' = [local EXCEPT ![th].job = Head(local[th].todo), ![th].todo = Tail(@)]
    BY <1>20 DEF MonHook
  <2>2. [local EXCEPT ![th].job = Head(local[th].todo), ![th].todo = Tail(@)]
        \in [Thread -> LocalType]
    <3>1. local[th].todo # <<>>
      BY <1>20 DEF MonHook
    <3>2. Head(local[th].todo) \in Stubs /\ Tail(local[th].todo) \in Seq(Stubs)
      BY <1>g, <3>1
    <3> QED
      BY <1>0, <3>2 DEF LocalType
  <2> QED
    BY <1>d, <2>1, <2>2
<1>21. ASSUME MonFail(th) PROVE LocalTyped'
  BY <1>21, <1>a, <1>b, <1>c, <1>d, <1>e, <1>f, <1>g, <1>h DEF MonFail
<1>22. ASSUME MonDone(th) PROVE LocalTyped'
  <2>1. local' = [local EXCEPT ![th].res = TRUE, ![th].job = "user"]
    BY <1>22 DEF MonDone
  <2>2. [local EXCEPT ![th].res = TRUE, ![th].job = "user"]
        \in [Thread -> LocalType]
    BY <1>0 DEF LocalType
  <2> QED
    BY <1>d, <2>1, <2>2
<1>23. ASSUME Uninit(th) PROVE LocalTyped'
  <2>1. \/ local' = [local EXCEPT ![th].res = FALSE, ![th].job = "user", ![th].todo = <<>>]
        \/ UNCHANGED local
    BY <1>23 DEF Uninit
  <2>2. [local EXCEPT ![th].res = FALSE, ![th].job = "user", ![th].todo = <<>>]
          \in [Thread -> LocalType]
    <3>1. <<>> \in Seq(Stubs)
      OBVIOUS
    <3> QED
      BY <1>0, <3>1 DEF LocalType
  <2> QED
    BY <1>b, <1>d, <2>1, <2>2
<1>24. ASSUME DlEnd(th) PROVE LocalTyped'
  BY <1>24, <1>a, <1>b, <1>c, <1>d, <1>e, <1>f, <1>g, <1>h DEF DlEnd
<1>25. ASSUME VisitEnd(th) PROVE LocalTyped'
  BY <1>25, <1>a, <1>b, <1>c, <1>d, <1>e, <1>f, <1>g, <1>h DEF VisitEnd
<1>26. ASSUME Parse(th) PROVE LocalTyped'
  BY <1>26, <1>a, <1>b, <1>c, <1>d, <1>e, <1>f, <1>g, <1>h DEF Parse
<1>27. ASSUME Parsed(th) PROVE LocalTyped'
  BY <1>27, <1>a, <1>b, <1>c, <1>d, <1>e, <1>f, <1>g, <1>h DEF Parsed
<1>28. ASSUME Find(th) PROVE LocalTyped'
  BY <1>28, <1>a, <1>b, <1>c, <1>d, <1>e, <1>f, <1>g, <1>h DEF Find
<1>29. ASSUME Store(th) PROVE LocalTyped'
  <2>1. local' = [local EXCEPT ![th].sigs = Tail(local[th].sigs)]
    BY <1>29 DEF Store
  <2>2. [local EXCEPT ![th].sigs = Tail(local[th].sigs)]
        \in [Thread -> LocalType]
    <3>1. pc[th] \in SectionL \ {"section"}
      BY <1>29 DEF Store, SectionL
    <3>2. local[th].sigs # <<>>
      BY <3>1 DEF SlotInv, SlotAt
    <3>3. Tail(local[th].sigs) \in Seq(Range(Signals))
      BY <1>g, <3>2
    <3> QED
      BY <1>a, <3>3
  <2> QED
    BY <1>d, <2>1, <2>2
<1>30. ASSUME Leave(th) PROVE LocalTyped'
  BY <1>30, <1>a, <1>b, <1>c, <1>d, <1>e, <1>f, <1>g, <1>h DEF Leave
<1>31. ASSUME Clear(th) PROVE LocalTyped'
  BY <1>31, <1>a, <1>b, <1>c, <1>d, <1>e, <1>f, <1>g, <1>h DEF Clear
<1>32. ASSUME Free(th) PROVE LocalTyped'
  <2>1. local' = [local EXCEPT ![th].sigs = Tail(local[th].sigs)]
    BY <1>32 DEF Free
  <2>2. [local EXCEPT ![th].sigs = Tail(local[th].sigs)]
        \in [Thread -> LocalType]
    <3>1. pc[th] \in SectionL \ {"section"}
      BY <1>32 DEF Free, SectionL
    <3>2. local[th].sigs # <<>>
      BY <3>1 DEF SlotInv, SlotAt
    <3>3. Tail(local[th].sigs) \in Seq(Range(Signals))
      BY <1>g, <3>2
    <3> QED
      BY <1>a, <3>3
  <2> QED
    BY <1>d, <2>1, <2>2
<1>33. ASSUME AddCb(th) PROVE LocalTyped'
  BY <1>33, <1>a, <1>b, <1>c, <1>d, <1>e, <1>f, <1>g, <1>h DEF AddCb
<1>34. ASSUME Pre(th) PROVE LocalTyped'
  BY <1>34, <1>a, <1>b, <1>c, <1>d, <1>e, <1>f, <1>g, <1>h DEF Pre
<1>35. ASSUME Post(th) PROVE LocalTyped'
  BY <1>35, <1>a, <1>b, <1>c, <1>d, <1>e, <1>f, <1>g, <1>h DEF Post
<1>36. ASSUME Link(th) PROVE LocalTyped'
  BY <1>36, <1>a, <1>b, <1>c, <1>d, <1>e, <1>f, <1>g, <1>h DEF Link
<1>37. ASSUME Linked(th) PROVE LocalTyped'
  BY <1>37, <1>a, <1>b, <1>c, <1>d, <1>e, <1>f, <1>g, <1>h DEF Linked
<1>38. ASSUME Opened(th) PROVE LocalTyped'
  BY <1>38, <1>a, <1>b, <1>c, <1>d, <1>e, <1>f, <1>g, <1>h DEF Opened
<1>39. ASSUME PostRdLock(th) PROVE LocalTyped'
  BY <1>39, <1>a, <1>b, <1>c, <1>d, <1>e, <1>f, <1>g, <1>h DEF PostRdLock
<1>40. ASSUME PostRefresh(th) PROVE LocalTyped'
  <2>1. local' = [local EXCEPT ![th].elfs = linked \ tree, ![th].job = "post"]
    BY <1>40 DEF PostRefresh
  <2>2. [local EXCEPT ![th].elfs = linked \ tree, ![th].job = "post"]
        \in [Thread -> LocalType]
    BY <1>0, <1>c DEF LocalType
  <2> QED
    BY <1>d, <2>1, <2>2
<1>41. ASSUME PostEnd(th) PROVE LocalTyped'
  BY <1>41, <1>a, <1>b, <1>c, <1>d, <1>e, <1>f, <1>g, <1>h DEF PostEnd
<1>42. ASSUME OpenEnd(th) PROVE LocalTyped'
  <2>1. local' = [local EXCEPT ![th].frames = Tail(local[th].frames)]
    BY <1>42 DEF OpenEnd
  <2>2. [local EXCEPT ![th].frames = Tail(local[th].frames)]
        \in [Thread -> LocalType]
    <3>1. pc[th] \in LinkL
      BY <1>42 DEF OpenEnd, LinkL
    <3>2. Tail(local[th].frames) \in Seq(FrameType)
      BY <1>f, <3>1
    <3> QED
      BY <1>a, <3>2
  <2> QED
    BY <1>d, <2>1, <2>2
<1>43. ASSUME WrLock(th) PROVE LocalTyped'
  <2>1. local' = [local EXCEPT ![th].frames[1].wrlocked = TRUE]
    BY <1>43 DEF WrLock
  <2>2. [local EXCEPT ![th].frames[1].wrlocked = TRUE]
        \in [Thread -> LocalType]
    <3>1. pc[th] \in LinkL
      BY <1>43 DEF WrLock, LinkL
    <3>2. [local[th].frames EXCEPT ![1].wrlocked = TRUE] \in Seq(FrameType)
      <4>1. local[th].frames[1] \in FrameType /\ local[th].frames \in Seq(FrameType)
        BY <1>f, <3>1
      <4>2. [local[th].frames[1] EXCEPT !.wrlocked = TRUE] \in FrameType
        BY <4>1 DEF FrameType
      <4> QED
        BY <1>f, <3>1, <4>1, <4>2
    <3>3. [local EXCEPT ![th].frames = [local[th].frames EXCEPT ![1].wrlocked = TRUE]]
            \in [Thread -> LocalType]
      BY <1>a, <3>2
    <3> QED
      BY <1>0, <3>3 DEF LocalType
  <2> QED
    BY <1>d, <2>1, <2>2
<1>44. ASSUME Unlink(th) PROVE LocalTyped'
  BY <1>44, <1>a, <1>b, <1>c, <1>d, <1>e, <1>f, <1>g, <1>h DEF Unlink
<1>45. ASSUME SyncRefresh(th) PROVE LocalTyped'
  BY <1>45, <1>a, <1>b, <1>c, <1>d, <1>e, <1>f, <1>g, <1>h DEF SyncRefresh
<1>46. ASSUME CloseEnd(th) PROVE LocalTyped'
  <2>1. local' = [local EXCEPT ![th].frames = Tail(local[th].frames)]
    BY <1>46 DEF CloseEnd
  <2>2. [local EXCEPT ![th].frames = Tail(local[th].frames)]
        \in [Thread -> LocalType]
    <3>1. pc[th] \in LinkL
      BY <1>46 DEF CloseEnd, LinkL
    <3>2. Tail(local[th].frames) \in Seq(FrameType)
      BY <1>f, <3>1
    <3> QED
      BY <1>a, <3>2
  <2> QED
    BY <1>d, <2>1, <2>2
<1>47. ASSUME NEW l \in Lib, Visit(th, l) PROVE LocalTyped'
  <2>1. local' = [local EXCEPT ![th].elfs = @ \ {l}, ![th].elf = l]
    BY <1>47 DEF Visit
  <2>2. [local EXCEPT ![th].elfs = @ \ {l}, ![th].elf = l]
        \in [Thread -> LocalType]
    BY <1>0 DEF LocalType
  <2> QED
    BY <1>d, <2>1, <2>2
<1>48. ASSUME NEW l \in Lib, OpenCall(th, l) PROVE LocalTyped'
  <2>1. local' = [local EXCEPT ![th].frames =
          <<[lib |-> l, proxy |-> OpenStub \in placed, wrlocked |-> FALSE]>> \o local[th].frames]
    BY <1>48 DEF OpenCall
  <2>2. [local EXCEPT ![th].frames =
          <<[lib |-> l, proxy |-> OpenStub \in placed, wrlocked |-> FALSE]>> \o local[th].frames]
        \in [Thread -> LocalType]
    <3>1. [lib |-> l, proxy |-> OpenStub \in placed, wrlocked |-> FALSE] \in FrameType
      BY DEF FrameType
    <3>2. <<[lib |-> l, proxy |-> OpenStub \in placed, wrlocked |-> FALSE]>> \o local[th].frames
            \in Seq(FrameType)
      BY <1>g, <3>1
    <3> QED
      BY <1>a, <3>2
  <2> QED
    BY <1>d, <2>1, <2>2
<1>49. ASSUME NEW l \in Lib, CloseCall(th, l) PROVE LocalTyped'
  <2>1. local' = [local EXCEPT ![th].frames =
          <<[lib |-> l, proxy |-> CloseStub \in placed, wrlocked |-> FALSE]>> \o local[th].frames]
    BY <1>49 DEF CloseCall
  <2>2. [local EXCEPT ![th].frames =
          <<[lib |-> l, proxy |-> CloseStub \in placed, wrlocked |-> FALSE]>> \o local[th].frames]
        \in [Thread -> LocalType]
    <3>1. [lib |-> l, proxy |-> CloseStub \in placed, wrlocked |-> FALSE] \in FrameType
      BY DEF FrameType
    <3>2. <<[lib |-> l, proxy |-> CloseStub \in placed, wrlocked |-> FALSE]>> \o local[th].frames
            \in Seq(FrameType)
      BY <1>g, <3>1
    <3> QED
      BY <1>a, <3>2
  <2> QED
    BY <1>d, <2>1, <2>2
<1>50. ASSUME NEW j \in 1..SlotMax, Claim(th, j) PROVE LocalTyped'
  BY <1>50, <1>a, <1>b, <1>c, <1>d, <1>e, <1>f, <1>g, <1>h DEF Claim
<1>51. ASSUME NEW s \in Range(Signals), Handler(th, s) PROVE LocalTyped'
  <2>1. local' = [local EXCEPT ![th].fault = TRUE, ![th].sigs = Signals]
    BY <1>51 DEF Handler
  <2>2. [local EXCEPT ![th].fault = TRUE, ![th].sigs = Signals]
        \in [Thread -> LocalType]
    BY <1>0, <1>e DEF LocalType
  <2> QED
    BY <1>d, <2>1, <2>2
<1>52. ASSUME NEW c \in Callbacks, AddCallback(th, c) PROVE LocalTyped'
  BY <1>52, <1>a, <1>b, <1>c, <1>d, <1>e, <1>f, <1>g, <1>h DEF AddCallback
<1>53. ASSUME NEW c \in Callbacks, DelCallback(th, c) PROVE LocalTyped'
  BY <1>53, <1>a, <1>b, <1>c, <1>d, <1>e, <1>f, <1>g, <1>h DEF DelCallback
<1> QED
  BY <1>1, <1>2, <1>3, <1>4, <1>5, <1>6, <1>7, <1>8, <1>9, <1>10, <1>11, <1>12, <1>13,
     <1>14, <1>15, <1>16, <1>17, <1>18, <1>19, <1>20, <1>21, <1>22, <1>23, <1>24, <1>25,
     <1>26, <1>27, <1>28, <1>29, <1>30, <1>31, <1>32, <1>33, <1>34, <1>35, <1>36, <1>37,
     <1>38, <1>39, <1>40, <1>41, <1>42, <1>43, <1>44, <1>45, <1>46, <1>47, <1>48, <1>49,
     <1>50, <1>51, <1>52, <1>53
     DEF Step

BudgetTyped == budget \in [calls : [Thread -> Nat], faults : Nat, shut : SUBSET Lib]

\* The budget keeps its type.
LEMMA NextBudget ==
  ASSUME TypeInv, NEW th \in Thread, Step(th)
  PROVE  BudgetTyped'
<1> USE DEF inits, monitor, locks, elves, history, Goto, Gosub, Return, Set, Call,
            LinkerCall,
            TmResult, NextSignal, CallCb
<1>0. budget \in [calls : [Thread -> Nat], faults : Nat, shut : SUBSET Lib]
  BY DEF TypeInv
<1>a. Spend(th) => BudgetTyped'
  BY <1>0 DEF Spend, BudgetTyped
<1>b. Fail => BudgetTyped'
  BY <1>0 DEF Fail, BudgetTyped
<1>c. UNCHANGED budget => BudgetTyped'
  BY <1>0 DEF BudgetTyped
<1>1. ASSUME InitCall(th) PROVE BudgetTyped'
  BY <1>1, <1>a, <1>b, <1>c DEF InitCall
<1>2. ASSUME InitLock(th) PROVE BudgetTyped'
  BY <1>2, <1>a, <1>b, <1>c DEF InitLock
<1>3. ASSUME InitPart(th) PROVE BudgetTyped'
  BY <1>3, <1>a, <1>b, <1>c DEF InitPart
<1>4. ASSUME InitEnd(th) PROVE BudgetTyped'
  BY <1>4, <1>a, <1>b, <1>c DEF InitEnd
<1>5. ASSUME HookCall(th) PROVE BudgetTyped'
  BY <1>5, <1>a, <1>b, <1>c DEF HookCall
<1>6. ASSUME HookReturn(th) PROVE BudgetTyped'
  BY <1>6, <1>a, <1>b, <1>c DEF HookReturn
<1>7. ASSUME TmHook(th) PROVE BudgetTyped'
  BY <1>7, <1>a, <1>b, <1>c DEF TmHook
<1>8. ASSUME OneShot(th) PROVE BudgetTyped'
  BY <1>8, <1>a, <1>b, <1>c DEF OneShot
<1>9. ASSUME OneLocked(th) PROVE BudgetTyped'
  BY <1>9, <1>a, <1>b, <1>c DEF OneLocked
<1>10. ASSUME OneRefresh(th) PROVE BudgetTyped'
  BY <1>10, <1>a, <1>b, <1>c DEF OneRefresh
<1>11. ASSUME OneEnd(th) PROVE BudgetTyped'
  BY <1>11, <1>a, <1>b, <1>c DEF OneEnd
<1>12. ASSUME RdLock(th) PROVE BudgetTyped'
  BY <1>12, <1>a, <1>b, <1>c DEF RdLock
<1>13. ASSUME RdUnlock(th) PROVE BudgetTyped'
  BY <1>13, <1>a, <1>b, <1>c DEF RdUnlock
<1>14. ASSUME TmInit(th) PROVE BudgetTyped'
  BY <1>14, <1>a, <1>b, <1>c DEF TmInit
<1>15. ASSUME TmLocked(th) PROVE BudgetTyped'
  BY <1>15, <1>a, <1>b, <1>c DEF TmLocked
<1>16. ASSUME TmStore(th) PROVE BudgetTyped'
  BY <1>16, <1>a, <1>b, <1>c DEF TmStore
<1>17. ASSUME TmDone(th) PROVE BudgetTyped'
  BY <1>17, <1>a, <1>b, <1>c DEF TmDone
<1>18. ASSUME DlInit(th) PROVE BudgetTyped'
  BY <1>18, <1>a, <1>b, <1>c DEF DlInit
<1>19. ASSUME DlLocked(th) PROVE BudgetTyped'
  BY <1>19, <1>a, <1>b, <1>c DEF DlLocked
<1>20. ASSUME MonHook(th) PROVE BudgetTyped'
  BY <1>20, <1>a, <1>b, <1>c DEF MonHook
<1>21. ASSUME MonFail(th) PROVE BudgetTyped'
  BY <1>21, <1>a, <1>b, <1>c DEF MonFail
<1>22. ASSUME MonDone(th) PROVE BudgetTyped'
  BY <1>22, <1>a, <1>b, <1>c DEF MonDone
<1>23. ASSUME Uninit(th) PROVE BudgetTyped'
  BY <1>23, <1>a, <1>b, <1>c DEF Uninit
<1>24. ASSUME DlEnd(th) PROVE BudgetTyped'
  BY <1>24, <1>a, <1>b, <1>c DEF DlEnd
<1>25. ASSUME VisitEnd(th) PROVE BudgetTyped'
  BY <1>25, <1>a, <1>b, <1>c DEF VisitEnd
<1>26. ASSUME Parse(th) PROVE BudgetTyped'
  BY <1>26, <1>a, <1>b, <1>c DEF Parse
<1>27. ASSUME Parsed(th) PROVE BudgetTyped'
  BY <1>27, <1>a, <1>b, <1>c DEF Parsed
<1>28. ASSUME Find(th) PROVE BudgetTyped'
  BY <1>28, <1>a, <1>b, <1>c DEF Find
<1>29. ASSUME Store(th) PROVE BudgetTyped'
  BY <1>29, <1>a, <1>b, <1>c DEF Store
<1>30. ASSUME Leave(th) PROVE BudgetTyped'
  BY <1>30, <1>a, <1>b, <1>c DEF Leave
<1>31. ASSUME Clear(th) PROVE BudgetTyped'
  BY <1>31, <1>a, <1>b, <1>c DEF Clear
<1>32. ASSUME Free(th) PROVE BudgetTyped'
  BY <1>32, <1>a, <1>b, <1>c DEF Free
<1>33. ASSUME AddCb(th) PROVE BudgetTyped'
  BY <1>33, <1>a, <1>b, <1>c DEF AddCb
<1>34. ASSUME Pre(th) PROVE BudgetTyped'
  BY <1>34, <1>a, <1>b, <1>c DEF Pre
<1>35. ASSUME Post(th) PROVE BudgetTyped'
  BY <1>35, <1>a, <1>b, <1>c DEF Post
<1>36. ASSUME Link(th) PROVE BudgetTyped'
  BY <1>36, <1>a, <1>b, <1>c DEF Link
<1>37. ASSUME Linked(th) PROVE BudgetTyped'
  BY <1>37, <1>a, <1>b, <1>c DEF Linked
<1>38. ASSUME Opened(th) PROVE BudgetTyped'
  BY <1>38, <1>a, <1>b, <1>c DEF Opened
<1>39. ASSUME PostRdLock(th) PROVE BudgetTyped'
  BY <1>39, <1>a, <1>b, <1>c DEF PostRdLock
<1>40. ASSUME PostRefresh(th) PROVE BudgetTyped'
  BY <1>40, <1>a, <1>b, <1>c DEF PostRefresh
<1>41. ASSUME PostEnd(th) PROVE BudgetTyped'
  BY <1>41, <1>a, <1>b, <1>c DEF PostEnd
<1>42. ASSUME OpenEnd(th) PROVE BudgetTyped'
  BY <1>42, <1>a, <1>b, <1>c DEF OpenEnd
<1>43. ASSUME WrLock(th) PROVE BudgetTyped'
  BY <1>43, <1>a, <1>b, <1>c DEF WrLock
<1>44. ASSUME Unlink(th) PROVE BudgetTyped'
  BY <1>44, <1>a, <1>b, <1>c DEF Unlink
<1>45. ASSUME SyncRefresh(th) PROVE BudgetTyped'
  BY <1>45, <1>a, <1>b, <1>c DEF SyncRefresh
<1>46. ASSUME CloseEnd(th) PROVE BudgetTyped'
  BY <1>46, <1>a, <1>b, <1>c DEF CloseEnd
<1>47. ASSUME NEW l \in Lib, Visit(th, l) PROVE BudgetTyped'
  BY <1>47, <1>a, <1>b, <1>c DEF Visit
<1>48. ASSUME NEW l \in Lib, OpenCall(th, l) PROVE BudgetTyped'
  BY <1>48, <1>a, <1>b, <1>c DEF OpenCall
<1>49. ASSUME NEW l \in Lib, CloseCall(th, l) PROVE BudgetTyped'
  <2>1. budget' = [budget EXCEPT !.calls[th] = @ - 1, !.shut = @ \cup {l}]
        /\ budget.calls[th] > 0
    BY <1>49, <1>a, <1>b, <1>c DEF CloseCall
  <2>2. budget.calls[th] - 1 \in Nat /\ budget.shut \cup {l} \in SUBSET Lib
    BY <1>0, <2>1
  <2>3. [budget.calls EXCEPT ![th] = @ - 1] \in [Thread -> Nat]
    BY <1>0, <2>2
  <2> QED
    BY <1>0, <2>1, <2>2, <2>3 DEF BudgetTyped
<1>50. ASSUME NEW j \in 1..SlotMax, Claim(th, j) PROVE BudgetTyped'
  BY <1>50, <1>a, <1>b, <1>c DEF Claim
<1>51. ASSUME NEW s \in Range(Signals), Handler(th, s) PROVE BudgetTyped'
  BY <1>51, <1>a, <1>b, <1>c DEF Handler
<1>52. ASSUME NEW c \in Callbacks, AddCallback(th, c) PROVE BudgetTyped'
  BY <1>52, <1>a, <1>b, <1>c DEF AddCallback
<1>53. ASSUME NEW c \in Callbacks, DelCallback(th, c) PROVE BudgetTyped'
  BY <1>53, <1>a, <1>b, <1>c DEF DelCallback
<1> QED
  BY <1>1, <1>2, <1>3, <1>4, <1>5, <1>6, <1>7, <1>8, <1>9, <1>10, <1>11, <1>12, <1>13,
     <1>14, <1>15, <1>16, <1>17, <1>18, <1>19, <1>20, <1>21, <1>22, <1>23, <1>24, <1>25,
     <1>26, <1>27, <1>28, <1>29, <1>30, <1>31, <1>32, <1>33, <1>34, <1>35, <1>36, <1>37,
     <1>38, <1>39, <1>40, <1>41, <1>42, <1>43, <1>44, <1>45, <1>46, <1>47, <1>48, <1>49,
     <1>50, <1>51, <1>52, <1>53
     DEF Step

TableTyped == slots \in [Range(Signals) -> [1..SlotMax -> [tid : Thread \cup {None},
                                                         jbuf : Thread \cup {None}]]]

\* bytesig's table keeps its type.
LEMMA NextTable ==
  ASSUME TypeInv, SlotInv, NEW th \in Thread, Step(th)
  PROVE  TableTyped'
<1> USE DEF inits, monitor, locks, elves, history, Goto, Gosub, Return, Set, Call,
            LinkerCall,
            TmResult, NextSignal, CallCb
<1>0. TableTyped
  BY DEF TypeInv, TableTyped
<1>a. pc[th] \in SectionL \ {"section"} => Sig(th) \in Range(Signals)
  <2>1. local[th].sigs \in Seq(Range(Signals))
    BY DEF TypeInv, LocalType
  <2>2. pc[th] \in SectionL \ {"section"} => local[th].sigs # <<>>
    BY DEF SlotInv, SlotAt
  <2> QED
    BY <2>1, <2>2 DEF Sig
<1>b. ASSUME NEW s \in Range(Signals), NEW j \in 1..SlotMax, NEW v \in Thread \cup {None}
      PROVE  /\ slots' = [slots EXCEPT ![s][j].tid = v] => TableTyped'
             /\ slots' = [slots EXCEPT ![s][j].jbuf = v] => TableTyped'
  <2>1. slots[s] \in [1..SlotMax -> [tid : Thread \cup {None}, jbuf : Thread \cup {None}]]
    BY <1>0 DEF TableTyped
  <2>2. /\ [slots[s][j] EXCEPT !.tid = v] \in [tid : Thread \cup {None}, jbuf : Thread \cup {None}]
        /\ [slots[s][j] EXCEPT !.jbuf = v] \in [tid : Thread \cup {None}, jbuf : Thread \cup {None}]
    BY <2>1
  <2>3. \A x \in [tid : Thread \cup {None}, jbuf : Thread \cup {None}] :
          [slots EXCEPT ![s] = [slots[s] EXCEPT ![j] = x]]
            \in [Range(Signals) ->
              [1..SlotMax -> [tid : Thread \cup {None}, jbuf : Thread \cup {None}]]]
    BY <1>0, <2>1 DEF TableTyped
  <2>4. /\ slots' = [slots EXCEPT ![s][j].tid = v] =>
             slots' = [slots EXCEPT ![s] = [slots[s] EXCEPT ![j] = [slots[s][j] EXCEPT !.tid = v]]]
        /\ slots' = [slots EXCEPT ![s][j].jbuf = v] =>
             slots' = [slots EXCEPT ![s] = [slots[s] EXCEPT ![j] = [slots[s][j] EXCEPT !.jbuf = v]]]
    OBVIOUS
  <2> QED
    BY <2>2, <2>3, <2>4 DEF TableTyped
<1>c. UNCHANGED slots => TableTyped'
  BY <1>0 DEF TableTyped
<1>1. ASSUME InitCall(th) PROVE TableTyped'
  BY <1>1, <1>c DEF InitCall
<1>2. ASSUME InitLock(th) PROVE TableTyped'
  BY <1>2, <1>c DEF InitLock
<1>3. ASSUME InitPart(th) PROVE TableTyped'
  BY <1>3, <1>c DEF InitPart
<1>4. ASSUME InitEnd(th) PROVE TableTyped'
  BY <1>4, <1>c DEF InitEnd
<1>5. ASSUME HookCall(th) PROVE TableTyped'
  BY <1>5, <1>c DEF HookCall
<1>6. ASSUME HookReturn(th) PROVE TableTyped'
  BY <1>6, <1>c DEF HookReturn
<1>7. ASSUME TmHook(th) PROVE TableTyped'
  BY <1>7, <1>c DEF TmHook
<1>8. ASSUME OneShot(th) PROVE TableTyped'
  BY <1>8, <1>c DEF OneShot
<1>9. ASSUME OneLocked(th) PROVE TableTyped'
  BY <1>9, <1>c DEF OneLocked
<1>10. ASSUME OneRefresh(th) PROVE TableTyped'
  BY <1>10, <1>c DEF OneRefresh
<1>11. ASSUME OneEnd(th) PROVE TableTyped'
  BY <1>11, <1>c DEF OneEnd
<1>12. ASSUME RdLock(th) PROVE TableTyped'
  BY <1>12, <1>c DEF RdLock
<1>13. ASSUME RdUnlock(th) PROVE TableTyped'
  BY <1>13, <1>c DEF RdUnlock
<1>14. ASSUME TmInit(th) PROVE TableTyped'
  BY <1>14, <1>c DEF TmInit
<1>15. ASSUME TmLocked(th) PROVE TableTyped'
  BY <1>15, <1>c DEF TmLocked
<1>16. ASSUME TmStore(th) PROVE TableTyped'
  BY <1>16, <1>c DEF TmStore
<1>17. ASSUME TmDone(th) PROVE TableTyped'
  BY <1>17, <1>c DEF TmDone
<1>18. ASSUME DlInit(th) PROVE TableTyped'
  BY <1>18, <1>c DEF DlInit
<1>19. ASSUME DlLocked(th) PROVE TableTyped'
  BY <1>19, <1>c DEF DlLocked
<1>20. ASSUME MonHook(th) PROVE TableTyped'
  BY <1>20, <1>c DEF MonHook
<1>21. ASSUME MonFail(th) PROVE TableTyped'
  BY <1>21, <1>c DEF MonFail
<1>22. ASSUME MonDone(th) PROVE TableTyped'
  BY <1>22, <1>c DEF MonDone
<1>23. ASSUME Uninit(th) PROVE TableTyped'
  BY <1>23, <1>c DEF Uninit
<1>24. ASSUME DlEnd(th) PROVE TableTyped'
  BY <1>24, <1>c DEF DlEnd
<1>25. ASSUME VisitEnd(th) PROVE TableTyped'
  BY <1>25, <1>c DEF VisitEnd
<1>26. ASSUME Parse(th) PROVE TableTyped'
  BY <1>26, <1>c DEF Parse
<1>27. ASSUME Parsed(th) PROVE TableTyped'
  BY <1>27, <1>c DEF Parsed
<1>28. ASSUME Find(th) PROVE TableTyped'
  BY <1>28, <1>c DEF Find
<1>29. ASSUME Store(th) PROVE TableTyped'
  <2>1. Sig(th) \in Range(Signals) /\ th \in Thread \cup {None} /\ None \in Thread \cup {None}
    BY <1>29, <1>a DEF Store, SectionL
  <2>2. \E j \in 1..SlotMax : slots' = [slots EXCEPT ![Sig(th)][j].jbuf = th]
    BY <1>29, <1>c DEF Store, SlotOf
  <2> QED
    BY <2>1, <2>2, <1>b
<1>30. ASSUME Leave(th) PROVE TableTyped'
  BY <1>30, <1>c DEF Leave
<1>31. ASSUME Clear(th) PROVE TableTyped'
  <2>1. Sig(th) \in Range(Signals) /\ th \in Thread \cup {None} /\ None \in Thread \cup {None}
    BY <1>31, <1>a DEF Clear, SectionL
  <2>2. \E j \in 1..SlotMax : slots' = [slots EXCEPT ![Sig(th)][j].jbuf = None]
    BY <1>31, <1>c DEF Clear, SlotOf
  <2> QED
    BY <2>1, <2>2, <1>b
<1>32. ASSUME Free(th) PROVE TableTyped'
  <2>1. Sig(th) \in Range(Signals) /\ th \in Thread \cup {None} /\ None \in Thread \cup {None}
    BY <1>32, <1>a DEF Free, SectionL
  <2>2. \E j \in 1..SlotMax : slots' = [slots EXCEPT ![Sig(th)][j].tid = None]
    BY <1>32, <1>c DEF Free, SlotOf
  <2> QED
    BY <2>1, <2>2, <1>b
<1>33. ASSUME AddCb(th) PROVE TableTyped'
  BY <1>33, <1>c DEF AddCb
<1>34. ASSUME Pre(th) PROVE TableTyped'
  BY <1>34, <1>c DEF Pre
<1>35. ASSUME Post(th) PROVE TableTyped'
  BY <1>35, <1>c DEF Post
<1>36. ASSUME Link(th) PROVE TableTyped'
  BY <1>36, <1>c DEF Link
<1>37. ASSUME Linked(th) PROVE TableTyped'
  BY <1>37, <1>c DEF Linked
<1>38. ASSUME Opened(th) PROVE TableTyped'
  BY <1>38, <1>c DEF Opened
<1>39. ASSUME PostRdLock(th) PROVE TableTyped'
  BY <1>39, <1>c DEF PostRdLock
<1>40. ASSUME PostRefresh(th) PROVE TableTyped'
  BY <1>40, <1>c DEF PostRefresh
<1>41. ASSUME PostEnd(th) PROVE TableTyped'
  BY <1>41, <1>c DEF PostEnd
<1>42. ASSUME OpenEnd(th) PROVE TableTyped'
  BY <1>42, <1>c DEF OpenEnd
<1>43. ASSUME WrLock(th) PROVE TableTyped'
  BY <1>43, <1>c DEF WrLock
<1>44. ASSUME Unlink(th) PROVE TableTyped'
  BY <1>44, <1>c DEF Unlink
<1>45. ASSUME SyncRefresh(th) PROVE TableTyped'
  BY <1>45, <1>c DEF SyncRefresh
<1>46. ASSUME CloseEnd(th) PROVE TableTyped'
  BY <1>46, <1>c DEF CloseEnd
<1>47. ASSUME NEW l \in Lib, Visit(th, l) PROVE TableTyped'
  BY <1>47, <1>c DEF Visit
<1>48. ASSUME NEW l \in Lib, OpenCall(th, l) PROVE TableTyped'
  BY <1>48, <1>c DEF OpenCall
<1>49. ASSUME NEW l \in Lib, CloseCall(th, l) PROVE TableTyped'
  BY <1>49, <1>c DEF CloseCall
<1>50. ASSUME NEW j \in 1..SlotMax, Claim(th, j) PROVE TableTyped'
  <2>1. Sig(th) \in Range(Signals) /\ th \in Thread \cup {None} /\ None \in Thread \cup {None}
    BY <1>50, <1>a DEF Claim, SectionL
  <2>2. slots' = [slots EXCEPT ![Sig(th)][j].tid = th]
    BY <1>50, <1>c DEF Claim, SlotOf
  <2> QED
    BY <2>1, <2>2, <1>b
<1>51. ASSUME NEW s \in Range(Signals), Handler(th, s) PROVE TableTyped'
  BY <1>51, <1>c DEF Handler
<1>52. ASSUME NEW c \in Callbacks, AddCallback(th, c) PROVE TableTyped'
  BY <1>52, <1>c DEF AddCallback
<1>53. ASSUME NEW c \in Callbacks, DelCallback(th, c) PROVE TableTyped'
  BY <1>53, <1>c DEF DelCallback
<1> QED
  BY <1>1, <1>2, <1>3, <1>4, <1>5, <1>6, <1>7, <1>8, <1>9, <1>10, <1>11, <1>12, <1>13,
     <1>14, <1>15, <1>16, <1>17, <1>18, <1>19, <1>20, <1>21, <1>22, <1>23, <1>24, <1>25,
     <1>26, <1>27, <1>28, <1>29, <1>30, <1>31, <1>32, <1>33, <1>34, <1>35, <1>36, <1>37,
     <1>38, <1>39, <1>40, <1>41, <1>42, <1>43, <1>44, <1>45, <1>46, <1>47, <1>48, <1>49,
     <1>50, <1>51, <1>52, <1>53
     DEF Step

\* The part that is next exists.
LEMMA NextPart ==
  ASSUME Missing # {}
  PROVE  PartSeq[CHOOSE i \in Missing : \A j \in Missing : i <= j] \in Parts
<1>1. DOMAIN PartSeq = {1, 2, 3, 4, 5, 6, 7} /\ \A i \in DOMAIN PartSeq : PartSeq[i] \in Parts
  BY DEF PartSeq, Parts
<1>2. Missing \subseteq {1, 2, 3, 4, 5, 6, 7}
  BY <1>1 DEF Missing
<1>3. \E i \in Missing : \A j \in Missing : i <= j
  <2> HIDE DEF Missing
  <2> DEFINE M == Missing
  <2>1. 1 \in M \/ 2 \in M \/ 3 \in M \/ 4 \in M \/ 5 \in M \/ 6 \in M \/ 7 \in M
    BY <1>2
  <2>2. CASE 1 \in M
    BY <1>2, <2>2
  <2>3. CASE 1 \notin M /\ 2 \in M
    BY <1>2, <2>3
  <2>4. CASE 1 \notin M /\ 2 \notin M /\ 3 \in M
    BY <1>2, <2>4
  <2>5. CASE 1 \notin M /\ 2 \notin M /\ 3 \notin M /\ 4 \in M
    BY <1>2, <2>5
  <2>6. CASE 1 \notin M /\ 2 \notin M /\ 3 \notin M /\ 4 \notin M
    BY <1>2, <2>1, <2>6
  <2> QED
    BY <2>2, <2>3, <2>4, <2>5, <2>6
<1>4. (CHOOSE i \in Missing : \A j \in Missing : i <= j) \in Missing
  BY <1>3
<1> QED
  BY <1>1, <1>2, <1>4

StateTyped ==
    /\ setup \in Scenarios
    /\ core \in [status : {"UNINIT", "OK"} \cup Parts, parts : SUBSET Parts,
                 lock : Thread \cup {None}]
    /\ tm \in [inited : BOOLEAN, ok : BOOLEAN, posts : BOOLEAN, lock : Thread \cup {None}]
    /\ dl \in [inited : BOOLEAN, ok : BOOLEAN, initing : BOOLEAN, lock : Thread \cup {None}]
    /\ one \in [done : BOOLEAN, lock : Thread \cup {None}]
    /\ linker \in Thread \cup {None}
    /\ linked \subseteq Lib /\ tree \subseteq Lib /\ listed \subseteq Thread

\* The locks, the flags and the lists keep their types.
LEMMA NextState ==
  ASSUME TypeInv, StackInv, NEW th \in Thread, Step(th)
  PROVE  StateTyped'
<1> USE DEF StateTyped, inits, monitor, locks, elves, history, Goto, Gosub, Return, Set,
            Call, LinkerCall,
            TmResult, NextSignal, CallCb
<1>0. StateTyped /\ local[th].res \in BOOLEAN
  BY DEF TypeInv, LocalType
<1>1. ASSUME InitCall(th) PROVE StateTyped'
  BY <1>1, <1>0 DEF InitCall
<1>2. ASSUME InitLock(th) PROVE StateTyped'
  BY <1>2, <1>0 DEF InitLock
<1>3. ASSUME InitPart(th) PROVE StateTyped'
  <2>1. \E p \in Parts : \/ core' = [core EXCEPT !.parts = @ \cup {p}]
                         \/ core' = [core EXCEPT !.status = p]
    BY <1>3, NextPart DEF InitPart
  <2>2. core' \in [status : {"UNINIT", "OK"} \cup Parts, parts : SUBSET Parts,
                   lock : Thread \cup {None}]
    BY <1>0, <2>1
  <2> QED
    BY <1>3, <1>0, <2>2 DEF InitPart
<1>4. ASSUME InitEnd(th) PROVE StateTyped'
  BY ZenonT(30), <1>4, <1>0 DEF InitEnd
<1>5. ASSUME HookCall(th) PROVE StateTyped'
  BY <1>5, <1>0 DEF HookCall
<1>6. ASSUME HookReturn(th) PROVE StateTyped'
  BY <1>6, <1>0 DEF HookReturn
<1>7. ASSUME TmHook(th) PROVE StateTyped'
  BY <1>7, <1>0 DEF TmHook
<1>8. ASSUME OneShot(th) PROVE StateTyped'
  BY <1>8, <1>0 DEF OneShot
<1>9. ASSUME OneLocked(th) PROVE StateTyped'
  BY <1>9, <1>0 DEF OneLocked
<1>10. ASSUME OneRefresh(th) PROVE StateTyped'
  BY <1>10, <1>0 DEF OneRefresh
<1>11. ASSUME OneEnd(th) PROVE StateTyped'
  BY <1>11, <1>0 DEF OneEnd
<1>12. ASSUME RdLock(th) PROVE StateTyped'
  BY <1>12, <1>0 DEF RdLock
<1>13. ASSUME RdUnlock(th) PROVE StateTyped'
  BY <1>13, <1>0 DEF RdUnlock
<1>14. ASSUME TmInit(th) PROVE StateTyped'
  BY <1>14, <1>0 DEF TmInit
<1>15. ASSUME TmLocked(th) PROVE StateTyped'
  BY ZenonT(30), <1>15, <1>0 DEF TmLocked
<1>16. ASSUME TmStore(th) PROVE StateTyped'
  BY ZenonT(30), <1>16, <1>0 DEF TmStore
<1>17. ASSUME TmDone(th) PROVE StateTyped'
  BY <1>17, <1>0 DEF TmDone
<1>18. ASSUME DlInit(th) PROVE StateTyped'
  BY <1>18, <1>0 DEF DlInit
<1>19. ASSUME DlLocked(th) PROVE StateTyped'
  BY ZenonT(30), <1>19, <1>0 DEF DlLocked
<1>20. ASSUME MonHook(th) PROVE StateTyped'
  BY <1>20, <1>0 DEF MonHook
<1>21. ASSUME MonFail(th) PROVE StateTyped'
  BY <1>21, <1>0 DEF MonFail
<1>22. ASSUME MonDone(th) PROVE StateTyped'
  BY <1>22, <1>0 DEF MonDone
<1>23. ASSUME Uninit(th) PROVE StateTyped'
  BY <1>23, <1>0 DEF Uninit
<1>24. ASSUME DlEnd(th) PROVE StateTyped'
  BY <1>24, <1>0 DEF DlEnd
<1>25. ASSUME VisitEnd(th) PROVE StateTyped'
  BY <1>25, <1>0 DEF VisitEnd
<1>26. ASSUME Parse(th) PROVE StateTyped'
  BY <1>26, <1>0 DEF Parse
<1>27. ASSUME Parsed(th) PROVE StateTyped'
  BY <1>27, <1>0 DEF Parsed
<1>28. ASSUME Find(th) PROVE StateTyped'
  BY <1>28, <1>0 DEF Find
<1>29. ASSUME Store(th) PROVE StateTyped'
  BY <1>29, <1>0 DEF Store
<1>30. ASSUME Leave(th) PROVE StateTyped'
  BY <1>30, <1>0 DEF Leave
<1>31. ASSUME Clear(th) PROVE StateTyped'
  BY <1>31, <1>0 DEF Clear
<1>32. ASSUME Free(th) PROVE StateTyped'
  BY <1>32, <1>0 DEF Free
<1>33. ASSUME AddCb(th) PROVE StateTyped'
  BY <1>33, <1>0 DEF AddCb
<1>34. ASSUME Pre(th) PROVE StateTyped'
  BY <1>34, <1>0 DEF Pre
<1>35. ASSUME Post(th) PROVE StateTyped'
  BY <1>35, <1>0 DEF Post
<1>36. ASSUME Link(th) PROVE StateTyped'
  <2>1. pc[th] \in LinkL
    BY <1>36, <1>0 DEF Link, LinkL
  <2>2. Frame(th).lib \in Lib
    BY <2>1, HasFrame DEF FrameType
  <2> QED
    BY <1>36, <1>0, <2>2 DEF Link
<1>37. ASSUME Linked(th) PROVE StateTyped'
  BY <1>37, <1>0 DEF Linked
<1>38. ASSUME Opened(th) PROVE StateTyped'
  BY <1>38, <1>0 DEF Opened
<1>39. ASSUME PostRdLock(th) PROVE StateTyped'
  BY <1>39, <1>0 DEF PostRdLock
<1>40. ASSUME PostRefresh(th) PROVE StateTyped'
  BY <1>40, <1>0 DEF PostRefresh
<1>41. ASSUME PostEnd(th) PROVE StateTyped'
  BY <1>41, <1>0 DEF PostEnd
<1>42. ASSUME OpenEnd(th) PROVE StateTyped'
  BY <1>42, <1>0 DEF OpenEnd
<1>43. ASSUME WrLock(th) PROVE StateTyped'
  BY <1>43, <1>0 DEF WrLock
<1>44. ASSUME Unlink(th) PROVE StateTyped'
  BY <1>44, <1>0 DEF Unlink
<1>45. ASSUME SyncRefresh(th) PROVE StateTyped'
  BY <1>45, <1>0 DEF SyncRefresh
<1>46. ASSUME CloseEnd(th) PROVE StateTyped'
  BY <1>46, <1>0 DEF CloseEnd
<1>47. ASSUME NEW l \in Lib, Visit(th, l) PROVE StateTyped'
  BY <1>47, <1>0 DEF Visit
<1>48. ASSUME NEW l \in Lib, OpenCall(th, l) PROVE StateTyped'
  BY <1>48, <1>0 DEF OpenCall
<1>49. ASSUME NEW l \in Lib, CloseCall(th, l) PROVE StateTyped'
  BY <1>49, <1>0 DEF CloseCall
<1>50. ASSUME NEW j \in 1..SlotMax, Claim(th, j) PROVE StateTyped'
  BY <1>50, <1>0 DEF Claim
<1>51. ASSUME NEW s \in Range(Signals), Handler(th, s) PROVE StateTyped'
  BY <1>51, <1>0 DEF Handler
<1>52. ASSUME NEW c \in Callbacks, AddCallback(th, c) PROVE StateTyped'
  BY <1>52, <1>0 DEF AddCallback
<1>53. ASSUME NEW c \in Callbacks, DelCallback(th, c) PROVE StateTyped'
  BY <1>53, <1>0 DEF DelCallback
<1> QED
  BY <1>1, <1>2, <1>3, <1>4, <1>5, <1>6, <1>7, <1>8, <1>9, <1>10, <1>11, <1>12, <1>13,
     <1>14, <1>15, <1>16, <1>17, <1>18, <1>19, <1>20, <1>21, <1>22, <1>23, <1>24, <1>25,
     <1>26, <1>27, <1>28, <1>29, <1>30, <1>31, <1>32, <1>33, <1>34, <1>35, <1>36, <1>37,
     <1>38, <1>39, <1>40, <1>41, <1>42, <1>43, <1>44, <1>45, <1>46, <1>47, <1>48, <1>49,
     <1>50, <1>51, <1>52, <1>53
     DEF Step

-----------------------------------------------------------------------------
(* Stacks are kept                                                         *)

\* A step inside a call leaves what is under it.
LEMMA GotoFits ==
  ASSUME NEW s, NEW n
  PROVE  /\ \A l, m \in TopL : Fits(l, s, n) => Fits(m, s, n)
         /\ \A l, m \in InitL : Fits(l, s, n) => Fits(m, s, n)
         /\ \A l, m \in TmL : Fits(l, s, n) => Fits(m, s, n)
         /\ \A l, m \in HookL : Fits(l, s, n) => Fits(m, s, n)
         /\ \A l, m \in DlL : Fits(l, s, n) => Fits(m, s, n)
         /\ \A l, m \in LinkL : Fits(l, s, n) => Fits(m, s, n)
         /\ \A l, m \in VisitL : Fits(l, s, n) => Fits(m, s, n)
         /\ \A l, m \in SectionL : Fits(l, s, n) => Fits(m, s, n)
BY DEF Fits, TopL, InitL, TmL, HookL, DlL, LinkL, VisitL, SectionL

\* bh_task_manager_init_dl_monitor before and after the pass.
LEMMA TmFits ==
  ASSUME NEW s, NEW n
  PROVE  /\ \A l \in TmL : Fits(l, s, n) => Fits("rdlock", s, n)
         /\ \A l \in HookL, m \in TmL : Fits(l, s, n) /\ "mon" \notin Range(s) => Fits(m, s, n)
<1> USE DEF Fits, TopL, InitL, TmL, HookL, DlL, LinkL, VisitL, SectionL
<1>1. ASSUME NEW l \in TmL, Fits(l, s, n) PROVE Fits("rdlock", s, n)
  BY <1>1 DEF HookStacks
<1>2. ASSUME NEW l \in HookL, NEW m \in TmL, Fits(l, s, n), "mon" \notin Range(s)
      PROVE  Fits(m, s, n)
  <2>1. n = 0 /\ s \in HookStacks
    BY <1>2
  <2>2. s = FromHook
    BY <1>2, <2>1, StackFacts DEF HookStacks
  <2> QED
    BY <1>2, <2>1, <2>2
<1> QED
  BY <1>1, <1>2

Own(th) == Fits(pc[th], stack[th], Len(local[th].frames))

\* After its step, the stack of the thread fits its label again.
LEMMA NextOwn ==
  ASSUME TypeInv, StackInv, DlInv, NEW th \in Thread, Step(th)
  PROVE  Own(th)'
<1> DEFINE n == Len(local[th].frames)
<1>0. /\ pc[th] \in Label /\ stack[th] \in Seq(Label) /\ n \in Nat
      /\ local[th].frames \in Seq(FrameType) /\ Fits(pc[th], stack[th], n)
  BY DEF TypeInv, StackInv, LocalType
<1>T. /\ pc \in [Thread -> Label] /\ stack \in [Thread -> Seq(Label)]
      /\ local \in [Thread -> LocalType]
  BY DEF TypeInv
<1>g. ASSUME NEW l, Goto(th, l) PROVE pc'[th] = l /\ stack'[th] = stack[th]
  BY <1>g, <1>T DEF Goto
<1>c. ASSUME NEW l, NEW back, Gosub(th, l, back)
      PROVE  pc'[th] = l /\ stack'[th] = On(back, stack[th])
  BY <1>c, <1>T DEF Gosub, On
<1>t. ASSUME Return(th) PROVE pc'[th] = Head(stack[th]) /\ stack'[th] = Tail(stack[th])
  BY <1>t, <1>T DEF Return
<1>u. ASSUME UNCHANGED <<pc, stack>> PROVE pc'[th] = pc[th] /\ stack'[th] = stack[th]
  BY <1>u
<1>n. /\ UNCHANGED local => Len(local'[th].frames) = n
      /\ \A v : /\ Set(th, "res", v) => Len(local'[th].frames) = n
                /\ Set(th, "elfs", v) => Len(local'[th].frames) = n
                /\ Set(th, "elf", v) => Len(local'[th].frames) = n
                /\ Set(th, "todo", v) => Len(local'[th].frames) = n
                /\ Set(th, "sigs", v) => Len(local'[th].frames) = n
                /\ Set(th, "fault", v) => Len(local'[th].frames) = n
                /\ Set(th, "job", v) => Len(local'[th].frames) = n
                /\ Set(th, "cb", v) => Len(local'[th].frames) = n
  <2>1. ASSUME NEW v, Set(th, "res", v) PROVE local'[th].frames = local[th].frames
    BY <2>1, <1>T DEF Set, LocalType
  <2>2. ASSUME NEW v, Set(th, "elfs", v) PROVE local'[th].frames = local[th].frames
    BY <2>2, <1>T DEF Set, LocalType
  <2>3. ASSUME NEW v, Set(th, "elf", v) PROVE local'[th].frames = local[th].frames
    BY <2>3, <1>T DEF Set, LocalType
  <2>4. ASSUME NEW v, Set(th, "todo", v) PROVE local'[th].frames = local[th].frames
    BY <2>4, <1>T DEF Set, LocalType
  <2>5. ASSUME NEW v, Set(th, "sigs", v) PROVE local'[th].frames = local[th].frames
    BY <2>5, <1>T DEF Set, LocalType
  <2>6. ASSUME NEW v, Set(th, "fault", v) PROVE local'[th].frames = local[th].frames
    BY <2>6, <1>T DEF Set, LocalType
  <2>7. ASSUME NEW v, Set(th, "job", v) PROVE local'[th].frames = local[th].frames
    BY <2>7, <1>T DEF Set, LocalType
  <2>8. ASSUME NEW v, Set(th, "cb", v) PROVE local'[th].frames = local[th].frames
    BY <2>8, <1>T DEF Set, LocalType
  <2> QED
    BY <2>1, <2>2, <2>3, <2>4, <2>5, <2>6, <2>7, <2>8 DEF n
<1>r. /\ pc[th] \notin TopL \cup LinkL => Fits(Head(stack[th]), Tail(stack[th]), n)
      /\ pc[th] \in LinkL \ TopL => Fits(Head(stack[th]), Tail(stack[th]), n - 1)
  BY <1>0, ReturnFits
<1>f. ASSUME NEW l \in Label, NEW back \in Label
      PROVE  /\ pc[th] = "idle" /\ l \in InitL /\ back = "idle" =>
                   Fits(l, On(back, stack[th]), n)
             /\ pc[th] = "idle" /\ l = "tm_hook" /\ back = "hooked" =>
                   Fits(l, On(back, stack[th]), n)
             /\ pc[th] = "idle" /\ l = "dl_init" /\ back = "add_cb" =>
                   Fits(l, On(back, stack[th]), n)
             /\ pc[th] \in TmL /\ l = "dl_init" /\ back = "tm_store" =>
                   Fits(l, On(back, stack[th]), n)
             /\ pc[th] = "mon" /\ l = "tm_hook" /\ back = "mon" =>
                   Fits(l, On(back, stack[th]), n)
             /\ pc[th] \in HookL /\ l = "visit" /\ back \in {"one_end", "rdunlock"} =>
                   Fits(l, On(back, stack[th]), n)
             /\ pc[th] \in LinkL /\ l = "visit" /\ back = "post_end" =>
                   Fits(l, On(back, stack[th]), n)
             /\ pc[th] \in VisitL /\ l = "claim" /\ back = "parsed" =>
                   Fits(l, On(back, stack[th]), n)
             /\ pc[th] \in {"idle", "ctor"} /\ l \in LinkL /\ back = pc[th] =>
                   Fits(l, On(back, stack[th]), n + 1)
  BY <1>0, CallFits
<1>k. /\ \A l, m \in TopL : Fits(l, stack[th], n) => Fits(m, stack[th], n)
      /\ \A l, m \in InitL : Fits(l, stack[th], n) => Fits(m, stack[th], n)
      /\ \A l, m \in TmL : Fits(l, stack[th], n) => Fits(m, stack[th], n)
      /\ \A l, m \in HookL : Fits(l, stack[th], n) => Fits(m, stack[th], n)
      /\ \A l, m \in DlL : Fits(l, stack[th], n) => Fits(m, stack[th], n)
      /\ \A l, m \in LinkL : Fits(l, stack[th], n) => Fits(m, stack[th], n)
      /\ \A l, m \in VisitL : Fits(l, stack[th], n) => Fits(m, stack[th], n)
      /\ \A l, m \in SectionL : Fits(l, stack[th], n) => Fits(m, stack[th], n)
  BY GotoFits
<1>m. /\ \A l \in TmL : Fits(l, stack[th], n) => Fits("rdlock", stack[th], n)
      /\ \A l \in HookL, m \in TmL :
            Fits(l, stack[th], n) /\ "mon" \notin Range(stack[th]) => Fits(m, stack[th], n)
  BY TmFits
<1>l. Label = TopL \cup InitL \cup TmL \cup HookL \cup DlL \cup VisitL \cup SectionL \cup LinkL
  BY DEF Label
<1>o. Own(th)' <=> Fits(pc'[th], stack'[th], Len(local'[th].frames))
  BY DEF Own
<1> HIDE DEF n
<1>1. ASSUME InitCall(th) PROVE Own(th)'
  BY <1>1, <1>0, <1>c, <1>f, <1>l, <1>n, <1>o
     DEF InitCall, TopL, InitL, TmL, HookL, DlL, VisitL, SectionL, LinkL, Call
<1>2. ASSUME InitLock(th) PROVE Own(th)'
  BY <1>2, <1>0, <1>g, <1>k, <1>n, <1>o DEF InitLock, InitL
<1>3. ASSUME InitPart(th) PROVE Own(th)'
  BY <1>3, <1>0, <1>u, <1>n, <1>o DEF InitPart
<1>4. ASSUME InitEnd(th) PROVE Own(th)'
  BY <1>4, <1>0, <1>t, <1>r, <1>n, <1>o
     DEF InitEnd, TopL, InitL, TmL, HookL, DlL, VisitL, SectionL, LinkL
<1>5. ASSUME HookCall(th) PROVE Own(th)'
  BY <1>5, <1>0, <1>c, <1>f, <1>l, <1>n, <1>o
     DEF HookCall, TopL, InitL, TmL, HookL, DlL, VisitL, SectionL, LinkL, Call
<1>6. ASSUME HookReturn(th) PROVE Own(th)'
  BY <1>6, <1>0, <1>g, <1>k, <1>n, <1>o DEF HookReturn, TopL
<1>7. ASSUME TmHook(th) PROVE Own(th)'
  <2>1. CASE dl.initing
    BY <1>7, <2>1, <1>0, <1>g, <1>k, <1>n, <1>o DEF TmHook, HookL
  <2>2. CASE ~dl.initing
    <3>1. "mon" \notin Range(stack[th])
      BY <2>2 DEF DlInv
    <3> QED
      BY <1>7, <2>2, <3>1, <1>0, <1>g, <1>m, <1>n, <1>o DEF TmHook, HookL, TmL
  <2> QED
    BY <2>1, <2>2
<1>8. ASSUME OneShot(th) PROVE Own(th)'
  BY <1>8, <1>0, <1>g, <1>k, <1>n, <1>o DEF OneShot, HookL
<1>9. ASSUME OneLocked(th) PROVE Own(th)'
  BY <1>9, <1>0, <1>g, <1>k, <1>n, <1>o DEF OneLocked, HookL
<1>10. ASSUME OneRefresh(th) PROVE Own(th)'
  BY <1>10, <1>0, <1>c, <1>f, <1>l, <1>n, <1>o
     DEF OneRefresh, TopL, InitL, TmL, HookL, DlL, VisitL, SectionL, LinkL
<1>11. ASSUME OneEnd(th) PROVE Own(th)'
  BY <1>11, <1>0, <1>t, <1>r, <1>n, <1>o
     DEF OneEnd, TopL, InitL, TmL, HookL, DlL, VisitL, SectionL, LinkL
<1>12. ASSUME RdLock(th) PROVE Own(th)'
  BY <1>12, <1>0, <1>c, <1>f, <1>l, <1>n, <1>o
     DEF RdLock, TopL, InitL, TmL, HookL, DlL, VisitL, SectionL, LinkL
<1>13. ASSUME RdUnlock(th) PROVE Own(th)'
  BY <1>13, <1>0, <1>t, <1>r, <1>n, <1>o
     DEF RdUnlock, TopL, InitL, TmL, HookL, DlL, VisitL, SectionL, LinkL
<1>14. ASSUME TmInit(th) PROVE Own(th)'
  <2>1. CASE tm.inited /\ tm.ok
    BY <1>14, <2>1, <1>0, <1>g, <1>m, <1>n, <1>o DEF TmInit, TmResult, TmL
  <2>2. CASE tm.inited /\ ~tm.ok
    BY <1>14, <2>2, <1>0, <1>t, <1>r, <1>n, <1>o
       DEF TmInit, TmResult, TopL, InitL, TmL, HookL, DlL, VisitL, SectionL, LinkL
  <2>3. CASE ~tm.inited
    BY <1>14, <2>3, <1>0, <1>g, <1>k, <1>n, <1>o DEF TmInit, TmL
  <2> QED
    BY <2>1, <2>2, <2>3
<1>15. ASSUME TmLocked(th) PROVE Own(th)'
  <2>1. CASE tm.inited /\ tm.ok
    BY <1>15, <2>1, <1>0, <1>g, <1>m, <1>n, <1>o DEF TmLocked, TmResult, TmL
  <2>2. CASE tm.inited /\ ~tm.ok
    BY <1>15, <2>2, <1>0, <1>t, <1>r, <1>n, <1>o
       DEF TmLocked, TmResult, TopL, InitL, TmL, HookL, DlL, VisitL, SectionL, LinkL
  <2>3. CASE ~tm.inited
    BY <1>15, <2>3, <1>0, <1>c, <1>f, <1>l, <1>n, <1>o
       DEF TmLocked, TopL, InitL, TmL, HookL, DlL, VisitL, SectionL, LinkL
  <2> QED
    BY <2>1, <2>2, <2>3
<1>16. ASSUME TmStore(th) PROVE Own(th)'
  BY <1>16, <1>0, <1>g, <1>k, <1>n, <1>o DEF TmStore, TmL
<1>17. ASSUME TmDone(th) PROVE Own(th)'
  <2>1. CASE local[th].res
    BY <1>17, <2>1, <1>0, <1>g, <1>m, <1>n, <1>o DEF TmDone, TmResult, TmL
  <2>2. CASE ~local[th].res
    BY <1>17, <2>2, <1>0, <1>t, <1>r, <1>n, <1>o
       DEF TmDone, TmResult, TopL, InitL, TmL, HookL, DlL, VisitL, SectionL, LinkL
  <2> QED
    BY <2>1, <2>2
<1>18. ASSUME DlInit(th) PROVE Own(th)'
  <2>1. CASE dl.inited
    BY <1>18, <2>1, <1>0, <1>t, <1>r, <1>n, <1>o
       DEF DlInit, TopL, InitL, TmL, HookL, DlL, VisitL, SectionL, LinkL
  <2>2. CASE ~dl.inited
    BY <1>18, <2>2, <1>0, <1>g, <1>k, <1>n, <1>o DEF DlInit, DlL
  <2> QED
    BY <2>1, <2>2
<1>19. ASSUME DlLocked(th) PROVE Own(th)'
  BY <1>19, <1>0, <1>g, <1>k, <1>n, <1>o DEF DlLocked, DlL
<1>20. ASSUME MonHook(th) PROVE Own(th)'
  <2>1. Len(local'[th].frames) = n
    BY <1>20, <1>T DEF MonHook, LocalType, n
  <2> QED
    BY <1>20, <2>1, <1>0, <1>c, <1>f, <1>l, <1>o
       DEF MonHook, TopL, InitL, TmL, HookL, DlL, VisitL, SectionL, LinkL
<1>21. ASSUME MonFail(th) PROVE Own(th)'
  BY <1>21, <1>0, <1>g, <1>k, <1>n, <1>o DEF MonFail, DlL
<1>22. ASSUME MonDone(th) PROVE Own(th)'
  <2>1. Len(local'[th].frames) = n
    BY <1>22, <1>T DEF MonDone, LocalType, n
  <2> QED
    BY <1>22, <2>1, <1>0, <1>g, <1>k, <1>o DEF MonDone, DlL
<1>23. ASSUME Uninit(th) PROVE Own(th)'
  <2>1. Len(local'[th].frames) = n
    BY ZenonT(30), <1>23, <1>T DEF Uninit, LocalType, n
  <2> QED
    BY <1>23, <2>1, <1>0, <1>g, <1>k, <1>o, <1>u, <1>n DEF Uninit, DlL
<1>24. ASSUME DlEnd(th) PROVE Own(th)'
  BY <1>24, <1>0, <1>t, <1>r, <1>n, <1>o
     DEF DlEnd, TopL, InitL, TmL, HookL, DlL, VisitL, SectionL, LinkL
<1>25. ASSUME VisitEnd(th) PROVE Own(th)'
  BY <1>25, <1>0, <1>t, <1>r, <1>n, <1>o
     DEF VisitEnd, TopL, InitL, TmL, HookL, DlL, VisitL, SectionL, LinkL
<1>26. ASSUME Parse(th) PROVE Own(th)'
  <2>1. CASE local[th].elf \in parse.parsed
    BY <1>26, <2>1, <1>0, <1>g, <1>k, <1>n, <1>o DEF Parse, VisitL
  <2>2. CASE local[th].elf \notin parse.parsed
    BY <1>26, <2>2, <1>0, <1>c, <1>f, <1>l, <1>n, <1>o
       DEF Parse, TopL, InitL, TmL, HookL, DlL, VisitL, SectionL, LinkL
  <2> QED
    BY <2>1, <2>2
<1>27. ASSUME Parsed(th) PROVE Own(th)'
  BY <1>27, <1>0, <1>g, <1>k, <1>n, <1>o DEF Parsed, VisitL
<1>28. ASSUME Find(th) PROVE Own(th)'
  BY <1>28, <1>0, <1>g, <1>k, <1>n, <1>o DEF Find, VisitL
<1>29. ASSUME Store(th) PROVE Own(th)'
  <2>1. /\ pc[th] = "store" /\ Set(th, "sigs", Tail(local[th].sigs))
        /\ IF Len(local[th].sigs) = 1 THEN Goto(th, "section") ELSE Goto(th, "claim")
    BY <1>29 DEF Store, NextSignal
  <2> QED
    BY <2>1, <1>0, <1>g, <1>k, <1>n, <1>o DEF SectionL
<1>30. ASSUME Leave(th) PROVE Own(th)'
  BY <1>30, <1>0, <1>g, <1>k, <1>n, <1>o DEF Leave, SectionL
<1>31. ASSUME Clear(th) PROVE Own(th)'
  BY <1>31, <1>0, <1>g, <1>k, <1>n, <1>o DEF Clear, SectionL
<1>32. ASSUME Free(th) PROVE Own(th)'
  <2>1. /\ pc[th] = "free" /\ Set(th, "sigs", Tail(local[th].sigs))
        /\ IF Len(local[th].sigs) = 1 THEN Return(th) ELSE Goto(th, "clear")
    BY <1>32 DEF Free, NextSignal
  <2>2. CASE Len(local[th].sigs) = 1
    BY <2>1, <2>2, <1>0, <1>t, <1>r, <1>n, <1>o
       DEF TopL, InitL, TmL, HookL, DlL, VisitL, SectionL, LinkL
  <2>3. CASE Len(local[th].sigs) # 1
    BY <2>1, <2>3, <1>0, <1>g, <1>k, <1>n, <1>o DEF SectionL
  <2> QED
    BY <2>2, <2>3
<1>33. ASSUME AddCb(th) PROVE Own(th)'
  BY <1>33, <1>0, <1>g, <1>k, <1>n, <1>o DEF AddCb, TopL
<1>34. ASSUME Pre(th) PROVE Own(th)'
  BY <1>34, <1>0, <1>g, <1>k, <1>n, <1>o DEF Pre, LinkL, CallCb
<1>35. ASSUME Post(th) PROVE Own(th)'
  BY <1>35, <1>0, <1>g, <1>k, <1>n, <1>o DEF Post, LinkL, CallCb
<1>36. ASSUME Link(th) PROVE Own(th)'
  BY <1>36, <1>0, <1>g, <1>k, <1>n, <1>o DEF Link, LinkL
<1>37. ASSUME Linked(th) PROVE Own(th)'
  BY <1>37, <1>0, <1>g, <1>k, <1>n, <1>o DEF Linked, LinkL
<1>38. ASSUME Opened(th) PROVE Own(th)'
  BY <1>38, <1>0, <1>g, <1>k, <1>n, <1>o DEF Opened, LinkL
<1>39. ASSUME PostRdLock(th) PROVE Own(th)'
  BY <1>39, <1>0, <1>g, <1>k, <1>n, <1>o DEF PostRdLock, LinkL
<1>40. ASSUME PostRefresh(th) PROVE Own(th)'
  <2>1. Len(local'[th].frames) = n
    BY <1>40, <1>T DEF PostRefresh, LocalType, n
  <2> QED
    BY <1>40, <2>1, <1>0, <1>c, <1>f, <1>l, <1>o
       DEF PostRefresh, TopL, InitL, TmL, HookL, DlL, VisitL, SectionL, LinkL
<1>41. ASSUME PostEnd(th) PROVE Own(th)'
  BY <1>41, <1>0, <1>g, <1>k, <1>n, <1>o DEF PostEnd, LinkL
<1>42. ASSUME OpenEnd(th) PROVE Own(th)'
  <2>1. pc[th] \in LinkL \ TopL /\ Return(th) /\ Pop(th)
    BY <1>42 DEF OpenEnd, LinkL, TopL
  <2>2. local[th].frames # <<>> /\ local[th].frames \in Seq(FrameType)
    BY <2>1, HasFrame
  <2>3. local'[th].frames = Tail(local[th].frames)
    BY <1>T, <2>1 DEF Pop, Set, LocalType
  <2>4. Len(local'[th].frames) = n - 1
    BY <2>2, <2>3 DEF n
  <2> QED
    BY <1>t, <1>r, <1>o, <2>1, <2>4
<1>43. ASSUME WrLock(th) PROVE Own(th)'
  <2>1. Len(local'[th].frames) = n
    BY <1>43, <1>T DEF WrLock, LocalType, n
  <2> QED
    BY <1>43, <2>1, <1>0, <1>g, <1>k, <1>o DEF WrLock, LinkL
<1>44. ASSUME Unlink(th) PROVE Own(th)'
  BY <1>44, <1>0, <1>g, <1>k, <1>n, <1>o DEF Unlink, LinkL
<1>45. ASSUME SyncRefresh(th) PROVE Own(th)'
  BY <1>45, <1>0, <1>g, <1>k, <1>n, <1>o DEF SyncRefresh, LinkL
<1>46. ASSUME CloseEnd(th) PROVE Own(th)'
  <2>1. pc[th] \in LinkL \ TopL /\ Return(th) /\ Pop(th)
    BY <1>46 DEF CloseEnd, LinkL, TopL
  <2>2. local[th].frames # <<>> /\ local[th].frames \in Seq(FrameType)
    BY <2>1, HasFrame
  <2>3. local'[th].frames = Tail(local[th].frames)
    BY <1>T, <2>1 DEF Pop, Set, LocalType
  <2>4. Len(local'[th].frames) = n - 1
    BY <2>2, <2>3 DEF n
  <2> QED
    BY <1>t, <1>r, <1>o, <2>1, <2>4
<1>47. ASSUME NEW l \in Lib, Visit(th, l) PROVE Own(th)'
  <2>1. Len(local'[th].frames) = n
    BY <1>47, <1>T DEF Visit, LocalType, n
  <2> QED
    BY <1>47, <2>1, <1>0, <1>g, <1>k, <1>o, <1>u DEF Visit, VisitL
<1>48. ASSUME NEW l \in Lib, OpenCall(th, l) PROVE Own(th)'
  <2>1. PICK fr : Set(th, "frames", <<fr>> \o local[th].frames)
    BY <1>48 DEF OpenCall, Push
  <2>2. Len(local'[th].frames) = n + 1
    <3>1. local'[th].frames = <<fr>> \o local[th].frames
      BY <1>T, <2>1 DEF Set, LocalType
    <3> QED
      BY <1>0, <3>1 DEF n
  <2>3. pc[th] \in {"idle", "ctor"} /\ \E m \in LinkL : Gosub(th, m, pc[th])
    BY <1>48 DEF OpenCall, LinkerCall, LinkL
  <2> QED
    BY <1>0, <1>c, <1>f, <1>l, <1>o, <2>2, <2>3
<1>49. ASSUME NEW l \in Lib, CloseCall(th, l) PROVE Own(th)'
  <2>1. PICK fr : Set(th, "frames", <<fr>> \o local[th].frames)
    BY <1>49 DEF CloseCall, Push
  <2>2. Len(local'[th].frames) = n + 1
    <3>1. local'[th].frames = <<fr>> \o local[th].frames
      BY <1>T, <2>1 DEF Set, LocalType
    <3> QED
      BY <1>0, <3>1 DEF n
  <2>3. pc[th] \in {"idle", "ctor"} /\ \E m \in LinkL : Gosub(th, m, pc[th])
    BY <1>49 DEF CloseCall, LinkerCall, LinkL
  <2> QED
    BY <1>0, <1>c, <1>f, <1>l, <1>o, <2>2, <2>3
<1>50. ASSUME NEW j \in 1..SlotMax, Claim(th, j) PROVE Own(th)'
  BY <1>50, <1>0, <1>g, <1>k, <1>n, <1>o DEF Claim, SectionL
<1>51. ASSUME NEW s \in Range(Signals), Handler(th, s) PROVE Own(th)'
  <2>1. Len(local'[th].frames) = n
    BY <1>51, <1>T DEF Handler, LocalType, n
  <2> QED
    BY <1>51, <2>1, <1>0, <1>g, <1>k, <1>o DEF Handler, SectionL
<1>52. ASSUME NEW c \in Callbacks, AddCallback(th, c) PROVE Own(th)'
  BY <1>52, <1>0, <1>c, <1>f, <1>l, <1>n, <1>o
     DEF AddCallback, TopL, InitL, TmL, HookL, DlL, VisitL, SectionL, LinkL, Call
<1>53. ASSUME NEW c \in Callbacks, DelCallback(th, c) PROVE Own(th)'
  BY <1>53, <1>0, <1>u, <1>n, <1>o DEF DelCallback
<1> QED
  BY <1>1, <1>2, <1>3, <1>4, <1>5, <1>6, <1>7, <1>8, <1>9, <1>10, <1>11, <1>12, <1>13,
     <1>14, <1>15, <1>16, <1>17, <1>18, <1>19, <1>20, <1>21, <1>22, <1>23, <1>24, <1>25,
     <1>26, <1>27, <1>28, <1>29, <1>30, <1>31, <1>32, <1>33, <1>34, <1>35, <1>36, <1>37,
     <1>38, <1>39, <1>40, <1>41, <1>42, <1>43, <1>44, <1>45, <1>46, <1>47, <1>48, <1>49,
     <1>50, <1>51, <1>52, <1>53
     DEF Step

-----------------------------------------------------------------------------
(* The table of protected threads                                          *)

\* What a step does to the table: nothing, or one entry that is the thread's own or free.
TableStep(th) ==
    \/ UNCHANGED slots
    \/ \E s \in Range(Signals), j \in 1..SlotMax :
          \/ slots[s][j].tid = None /\ slots' = [slots EXCEPT ![s][j].tid = th]
          \/ slots[s][j].tid = th /\ slots' = [slots EXCEPT ![s][j].jbuf = th]
          \/ slots[s][j].tid = th /\ slots' = [slots EXCEPT ![s][j].jbuf = None]
          \/ slots[s][j].tid = th /\ slots' = [slots EXCEPT ![s][j].tid = None]

\* The signal at hand.
LEMMA SigType ==
  ASSUME TypeInv, SlotInv, NEW th \in Thread, pc[th] \in SectionL \ {"section"}
  PROVE  /\ local[th].sigs \in Seq(Range(Signals)) /\ local[th].sigs # <<>>
         /\ Sig(th) \in Range(Signals) /\ Sig(th) = Head(local[th].sigs)
<1>1. local[th].sigs \in Seq(Range(Signals))
  BY DEF TypeInv, LocalType
<1>2. local[th].sigs # <<>>
  BY DEF SlotInv, SlotAt
<1> QED
  BY <1>1, <1>2 DEF Sig

\* A step changes only entries that are free or belong to its thread.
LEMMA NextTableStep ==
  ASSUME TypeInv, SlotInv, NEW th \in Thread, Step(th)
  PROVE  TableStep(th)
<1>u. UNCHANGED slots => TableStep(th)
  BY DEF TableStep
<1>1. ASSUME InitCall(th) PROVE TableStep(th)
  BY <1>1, <1>u DEF InitCall
<1>2. ASSUME InitLock(th) PROVE TableStep(th)
  BY <1>2, <1>u DEF InitLock
<1>3. ASSUME InitPart(th) PROVE TableStep(th)
  BY <1>3, <1>u DEF InitPart
<1>4. ASSUME InitEnd(th) PROVE TableStep(th)
  BY <1>4, <1>u DEF InitEnd
<1>5. ASSUME HookCall(th) PROVE TableStep(th)
  BY <1>5, <1>u DEF HookCall
<1>6. ASSUME HookReturn(th) PROVE TableStep(th)
  BY <1>6, <1>u DEF HookReturn
<1>7. ASSUME TmHook(th) PROVE TableStep(th)
  BY <1>7, <1>u DEF TmHook
<1>8. ASSUME OneShot(th) PROVE TableStep(th)
  BY <1>8, <1>u DEF OneShot
<1>9. ASSUME OneLocked(th) PROVE TableStep(th)
  BY <1>9, <1>u DEF OneLocked
<1>10. ASSUME OneRefresh(th) PROVE TableStep(th)
  BY <1>10, <1>u DEF OneRefresh
<1>11. ASSUME OneEnd(th) PROVE TableStep(th)
  BY <1>11, <1>u DEF OneEnd
<1>12. ASSUME RdLock(th) PROVE TableStep(th)
  BY <1>12, <1>u DEF RdLock
<1>13. ASSUME RdUnlock(th) PROVE TableStep(th)
  BY <1>13, <1>u DEF RdUnlock
<1>14. ASSUME TmInit(th) PROVE TableStep(th)
  BY <1>14, <1>u DEF TmInit
<1>15. ASSUME TmLocked(th) PROVE TableStep(th)
  BY <1>15, <1>u DEF TmLocked
<1>16. ASSUME TmStore(th) PROVE TableStep(th)
  BY <1>16, <1>u DEF TmStore
<1>17. ASSUME TmDone(th) PROVE TableStep(th)
  BY <1>17, <1>u DEF TmDone
<1>18. ASSUME DlInit(th) PROVE TableStep(th)
  BY <1>18, <1>u DEF DlInit
<1>19. ASSUME DlLocked(th) PROVE TableStep(th)
  BY <1>19, <1>u DEF DlLocked
<1>20. ASSUME MonHook(th) PROVE TableStep(th)
  BY <1>20, <1>u DEF MonHook
<1>21. ASSUME MonFail(th) PROVE TableStep(th)
  BY <1>21, <1>u DEF MonFail
<1>22. ASSUME MonDone(th) PROVE TableStep(th)
  BY <1>22, <1>u DEF MonDone
<1>23. ASSUME Uninit(th) PROVE TableStep(th)
  BY <1>23, <1>u DEF Uninit
<1>24. ASSUME DlEnd(th) PROVE TableStep(th)
  BY <1>24, <1>u DEF DlEnd
<1>25. ASSUME VisitEnd(th) PROVE TableStep(th)
  BY <1>25, <1>u DEF VisitEnd
<1>26. ASSUME Parse(th) PROVE TableStep(th)
  BY <1>26, <1>u DEF Parse
<1>27. ASSUME Parsed(th) PROVE TableStep(th)
  BY <1>27, <1>u DEF Parsed
<1>28. ASSUME Find(th) PROVE TableStep(th)
  BY <1>28, <1>u DEF Find
<1>29. ASSUME Store(th) PROVE TableStep(th)
  <2>1. pc[th] \in SectionL \ {"section"}
    BY <1>29, <1>u DEF Store, SectionL
  <2>2. Sig(th) \in Range(Signals)
    BY <2>1, SigType
  <2> QED
    BY <1>29, <2>2 DEF Store, SlotOf, TableStep
<1>30. ASSUME Leave(th) PROVE TableStep(th)
  BY <1>30, <1>u DEF Leave
<1>31. ASSUME Clear(th) PROVE TableStep(th)
  <2>1. pc[th] \in SectionL \ {"section"}
    BY <1>31, <1>u DEF Clear, SectionL
  <2>2. Sig(th) \in Range(Signals)
    BY <2>1, SigType
  <2> QED
    BY <1>31, <2>2 DEF Clear, SlotOf, TableStep
<1>32. ASSUME Free(th) PROVE TableStep(th)
  <2>1. pc[th] \in SectionL \ {"section"}
    BY <1>32, <1>u DEF Free, SectionL
  <2>2. Sig(th) \in Range(Signals)
    BY <2>1, SigType
  <2> QED
    BY <1>32, <2>2 DEF Free, SlotOf, TableStep
<1>33. ASSUME AddCb(th) PROVE TableStep(th)
  BY <1>33, <1>u DEF AddCb
<1>34. ASSUME Pre(th) PROVE TableStep(th)
  BY <1>34, <1>u DEF Pre
<1>35. ASSUME Post(th) PROVE TableStep(th)
  BY <1>35, <1>u DEF Post
<1>36. ASSUME Link(th) PROVE TableStep(th)
  BY <1>36, <1>u DEF Link
<1>37. ASSUME Linked(th) PROVE TableStep(th)
  BY <1>37, <1>u DEF Linked
<1>38. ASSUME Opened(th) PROVE TableStep(th)
  BY <1>38, <1>u DEF Opened
<1>39. ASSUME PostRdLock(th) PROVE TableStep(th)
  BY <1>39, <1>u DEF PostRdLock
<1>40. ASSUME PostRefresh(th) PROVE TableStep(th)
  BY <1>40, <1>u DEF PostRefresh
<1>41. ASSUME PostEnd(th) PROVE TableStep(th)
  BY <1>41, <1>u DEF PostEnd
<1>42. ASSUME OpenEnd(th) PROVE TableStep(th)
  BY <1>42, <1>u DEF OpenEnd
<1>43. ASSUME WrLock(th) PROVE TableStep(th)
  BY <1>43, <1>u DEF WrLock
<1>44. ASSUME Unlink(th) PROVE TableStep(th)
  BY <1>44, <1>u DEF Unlink
<1>45. ASSUME SyncRefresh(th) PROVE TableStep(th)
  BY <1>45, <1>u DEF SyncRefresh
<1>46. ASSUME CloseEnd(th) PROVE TableStep(th)
  BY <1>46, <1>u DEF CloseEnd
<1>47. ASSUME NEW l \in Lib, Visit(th, l) PROVE TableStep(th)
  BY <1>47, <1>u DEF Visit
<1>48. ASSUME NEW l \in Lib, OpenCall(th, l) PROVE TableStep(th)
  BY <1>48, <1>u DEF OpenCall
<1>49. ASSUME NEW l \in Lib, CloseCall(th, l) PROVE TableStep(th)
  BY <1>49, <1>u DEF CloseCall
<1>50. ASSUME NEW j \in 1..SlotMax, Claim(th, j) PROVE TableStep(th)
  <2>1. pc[th] \in SectionL \ {"section"}
    BY <1>50, <1>u DEF Claim, SectionL
  <2>2. Sig(th) \in Range(Signals)
    BY <2>1, SigType
  <2> QED
    BY <1>50, <2>2 DEF Claim, SlotOf, TableStep
<1>51. ASSUME NEW s \in Range(Signals), Handler(th, s) PROVE TableStep(th)
  BY <1>51, <1>u DEF Handler
<1>52. ASSUME NEW c \in Callbacks, AddCallback(th, c) PROVE TableStep(th)
  BY <1>52, <1>u DEF AddCallback
<1>53. ASSUME NEW c \in Callbacks, DelCallback(th, c) PROVE TableStep(th)
  BY <1>53, <1>u DEF DelCallback
<1> QED
  BY <1>1, <1>2, <1>3, <1>4, <1>5, <1>6, <1>7, <1>8, <1>9, <1>10, <1>11, <1>12, <1>13,
     <1>14, <1>15, <1>16, <1>17, <1>18, <1>19, <1>20, <1>21, <1>22, <1>23, <1>24, <1>25,
     <1>26, <1>27, <1>28, <1>29, <1>30, <1>31, <1>32, <1>33, <1>34, <1>35, <1>36, <1>37,
     <1>38, <1>39, <1>40, <1>41, <1>42, <1>43, <1>44, <1>45, <1>46, <1>47, <1>48, <1>49,
     <1>50, <1>51, <1>52, <1>53
     DEF Step

\* One field of one entry is written.
WithTid(s, j, v) == [slots EXCEPT ![s][j].tid = v]
WithJbuf(s, j, v) == [slots EXCEPT ![s][j].jbuf = v]

\* One field of one entry changes.
LEMMA EntryUpdate ==
  ASSUME TypeInv, NEW s \in Range(Signals), NEW j \in 1..SlotMax, NEW v,
         NEW r \in Range(Signals), NEW i \in 1..SlotMax
  PROVE  /\ slots' = WithTid(s, j, v) =>
              /\ slots'[r][i].tid = IF r = s /\ i = j THEN v ELSE slots[r][i].tid
              /\ slots'[r][i].jbuf = slots[r][i].jbuf
         /\ slots' = WithJbuf(s, j, v) =>
              /\ slots'[r][i].jbuf = IF r = s /\ i = j THEN v ELSE slots[r][i].jbuf
              /\ slots'[r][i].tid = slots[r][i].tid
<1>1. /\ DOMAIN slots = Range(Signals) /\ DOMAIN slots[s] = 1..SlotMax
      /\ slots[s][j] \in [tid : Thread \cup {None}, jbuf : Thread \cup {None}]
  <2>1. slots \in [Range(Signals) -> [1..SlotMax -> [tid : Thread \cup {None},
                                                    jbuf : Thread \cup {None}]]]
    BY DEF TypeInv
  <2> QED
    BY <2>1
<1> DEFINE tab(e) == [slots EXCEPT ![s] = [slots[s] EXCEPT ![j] = e]]
<1>2. ASSUME NEW e PROVE tab(e)[r][i] = IF r = s /\ i = j THEN e ELSE slots[r][i]
  BY <1>1
<1> DEFINE et == [slots[s][j] EXCEPT !.tid = v]
           ej == [slots[s][j] EXCEPT !.jbuf = v]
<1>3. /\ slots' = WithTid(s, j, v) => slots' = tab(et)
      /\ slots' = WithJbuf(s, j, v) => slots' = tab(ej)
  BY DEF WithTid, WithJbuf
<1>4. /\ et.tid = v /\ et.jbuf = slots[s][j].jbuf
      /\ ej.jbuf = v /\ ej.tid = slots[s][j].tid
  BY <1>1
<1> HIDE DEF tab, et, ej
<1> QED
  BY <1>2, <1>3, <1>4

\* The entries of the others stay.
LEMMA OthersSlots ==
  ASSUME TypeInv, SlotInv, NEW th \in Thread, Step(th), NEW u \in Thread \ {th}
  PROVE  SlotAt(u)'
<1>1. ASSUME NEW s \in Range(Signals), NEW i \in 1..SlotMax
      PROVE  /\ slots'[s][i].tid = u <=> slots[s][i].tid = u
             /\ slots[s][i].tid = u => slots'[s][i].jbuf = slots[s][i].jbuf
  <2>1. None # u /\ th # u
    BY StartupAssumption
  <2>2. TableStep(th)
    BY NextTableStep
  <2>3. CASE UNCHANGED slots
    BY <2>3
  <2>4. CASE ~UNCHANGED slots
    <3>1. PICK r \in Range(Signals), j \in 1..SlotMax :
            \/ slots[r][j].tid = None /\ slots' = WithTid(r, j, th)
            \/ slots[r][j].tid = th /\ slots' = WithJbuf(r, j, th)
            \/ slots[r][j].tid = th /\ slots' = WithJbuf(r, j, None)
            \/ slots[r][j].tid = th /\ slots' = WithTid(r, j, None)
      BY <2>2, <2>4 DEF TableStep, WithTid, WithJbuf
    <3>2. CASE slots[r][j].tid = None /\ slots' = WithTid(r, j, th)
      BY <2>1, <3>2, EntryUpdate
    <3>3. CASE slots[r][j].tid = th /\ slots' = WithJbuf(r, j, th)
      BY <2>1, <3>3, EntryUpdate
    <3>4. CASE slots[r][j].tid = th /\ slots' = WithJbuf(r, j, None)
      BY <2>1, <3>4, EntryUpdate
    <3>5. CASE slots[r][j].tid = th /\ slots' = WithTid(r, j, None)
      BY <2>1, <3>5, EntryUpdate
    <3> QED
      BY <3>1, <3>2, <3>3, <3>4, <3>5
  <2> QED
    BY <2>3, <2>4
<1>2. SlotAt(u) /\ pc'[u] = pc[u] /\ local'[u] = local[u]
  BY StepOnly DEF Only, SlotInv
<1>3. ASSUME NEW s \in Range(Signals)
      PROVE  /\ Free0(u, s)' <=> Free0(u, s)
             /\ Claimed(u, s)' <=> Claimed(u, s)
             /\ Armed(u, s)' <=> Armed(u, s)
  BY <1>1 DEF Free0, Claimed, Armed
<1> QED
  BY <1>2, <1>3 DEF SlotAt

\* A step outside of the sections.
Outside(th) == UNCHANGED slots /\ pc[th] \notin SectionL /\ pc'[th] \notin SectionL

\* The steps that are not part of a section leave the table alone.
LEMMA NextOutside ==
  ASSUME TypeInv, StackInv, NEW th \in Thread, Step(th)
  PROVE  \/ Outside(th)
         \/ Parse(th) \/ Store(th) \/ Leave(th) \/ Clear(th) \/ Free(th)
         \/ \E j \in 1..SlotMax : Claim(th, j)
         \/ \E s \in Range(Signals) : Handler(th, s)
<1> USE DEF Outside, SectionL, inits, monitor, locks, elves, history, Goto, Gosub, Set,
            Call,
            LinkerCall, TmResult, CallCb
<1>0. pc \in [Thread -> Label]
  BY DEF TypeInv
<1>1. Return(th) /\ pc[th] \notin TopL => pc'[th] \notin SectionL
  BY <1>0, CanReturn DEF Return, Backs
<1>2. pc[th] \in {"parts", "tm_init", "tm_locked", "tm_done", "one_end", "rdunlock", "dl_init",
                  "dl_end", "visit", "open_end", "close_end"} => pc[th] \notin TopL
  BY DEF TopL
<1>3. ASSUME InitCall(th) PROVE Outside(th)
  BY <1>0, <1>1, <1>2, <1>3 DEF InitCall
<1>4. ASSUME InitLock(th) PROVE Outside(th)
  BY <1>0, <1>1, <1>2, <1>4 DEF InitLock
<1>5. ASSUME InitPart(th) PROVE Outside(th)
  BY <1>0, <1>1, <1>2, <1>5 DEF InitPart
<1>6. ASSUME InitEnd(th) PROVE Outside(th)
  BY <1>0, <1>1, <1>2, <1>6 DEF InitEnd
<1>7. ASSUME HookCall(th) PROVE Outside(th)
  BY <1>0, <1>1, <1>2, <1>7 DEF HookCall
<1>8. ASSUME HookReturn(th) PROVE Outside(th)
  BY <1>0, <1>1, <1>2, <1>8 DEF HookReturn
<1>9. ASSUME TmHook(th) PROVE Outside(th)
  BY <1>0, <1>1, <1>2, <1>9 DEF TmHook
<1>10. ASSUME OneShot(th) PROVE Outside(th)
  BY <1>0, <1>1, <1>2, <1>10 DEF OneShot
<1>11. ASSUME OneLocked(th) PROVE Outside(th)
  BY <1>0, <1>1, <1>2, <1>11 DEF OneLocked
<1>12. ASSUME OneRefresh(th) PROVE Outside(th)
  BY <1>0, <1>1, <1>2, <1>12 DEF OneRefresh
<1>13. ASSUME OneEnd(th) PROVE Outside(th)
  BY <1>0, <1>1, <1>2, <1>13 DEF OneEnd
<1>14. ASSUME RdLock(th) PROVE Outside(th)
  BY <1>0, <1>1, <1>2, <1>14 DEF RdLock
<1>15. ASSUME RdUnlock(th) PROVE Outside(th)
  BY <1>0, <1>1, <1>2, <1>15 DEF RdUnlock
<1>16. ASSUME TmInit(th) PROVE Outside(th)
  BY <1>0, <1>1, <1>2, <1>16 DEF TmInit
<1>17. ASSUME TmLocked(th) PROVE Outside(th)
  BY <1>0, <1>1, <1>2, <1>17 DEF TmLocked
<1>18. ASSUME TmStore(th) PROVE Outside(th)
  BY <1>0, <1>1, <1>2, <1>18 DEF TmStore
<1>19. ASSUME TmDone(th) PROVE Outside(th)
  BY <1>0, <1>1, <1>2, <1>19 DEF TmDone
<1>20. ASSUME DlInit(th) PROVE Outside(th)
  BY <1>0, <1>1, <1>2, <1>20 DEF DlInit
<1>21. ASSUME DlLocked(th) PROVE Outside(th)
  BY <1>0, <1>1, <1>2, <1>21 DEF DlLocked
<1>22. ASSUME MonHook(th) PROVE Outside(th)
  BY <1>0, <1>1, <1>2, <1>22 DEF MonHook
<1>23. ASSUME MonFail(th) PROVE Outside(th)
  BY <1>0, <1>1, <1>2, <1>23 DEF MonFail
<1>24. ASSUME MonDone(th) PROVE Outside(th)
  BY <1>0, <1>1, <1>2, <1>24 DEF MonDone
<1>25. ASSUME Uninit(th) PROVE Outside(th)
  BY <1>0, <1>1, <1>2, <1>25 DEF Uninit
<1>26. ASSUME DlEnd(th) PROVE Outside(th)
  BY <1>0, <1>1, <1>2, <1>26 DEF DlEnd
<1>27. ASSUME VisitEnd(th) PROVE Outside(th)
  BY <1>0, <1>1, <1>2, <1>27 DEF VisitEnd
<1>28. ASSUME Parsed(th) PROVE Outside(th)
  BY <1>0, <1>1, <1>2, <1>28 DEF Parsed
<1>29. ASSUME Find(th) PROVE Outside(th)
  BY <1>0, <1>1, <1>2, <1>29 DEF Find
<1>30. ASSUME AddCb(th) PROVE Outside(th)
  BY <1>0, <1>1, <1>2, <1>30 DEF AddCb
<1>31. ASSUME Pre(th) PROVE Outside(th)
  BY <1>0, <1>1, <1>2, <1>31 DEF Pre
<1>32. ASSUME Post(th) PROVE Outside(th)
  BY <1>0, <1>1, <1>2, <1>32 DEF Post
<1>33. ASSUME Link(th) PROVE Outside(th)
  BY <1>0, <1>1, <1>2, <1>33 DEF Link
<1>34. ASSUME Linked(th) PROVE Outside(th)
  BY <1>0, <1>1, <1>2, <1>34 DEF Linked
<1>35. ASSUME Opened(th) PROVE Outside(th)
  BY <1>0, <1>1, <1>2, <1>35 DEF Opened
<1>36. ASSUME PostRdLock(th) PROVE Outside(th)
  BY <1>0, <1>1, <1>2, <1>36 DEF PostRdLock
<1>37. ASSUME PostRefresh(th) PROVE Outside(th)
  BY <1>0, <1>1, <1>2, <1>37 DEF PostRefresh
<1>38. ASSUME PostEnd(th) PROVE Outside(th)
  BY <1>0, <1>1, <1>2, <1>38 DEF PostEnd
<1>39. ASSUME OpenEnd(th) PROVE Outside(th)
  BY <1>0, <1>1, <1>2, <1>39 DEF OpenEnd
<1>40. ASSUME WrLock(th) PROVE Outside(th)
  BY <1>0, <1>1, <1>2, <1>40 DEF WrLock
<1>41. ASSUME Unlink(th) PROVE Outside(th)
  BY <1>0, <1>1, <1>2, <1>41 DEF Unlink
<1>42. ASSUME SyncRefresh(th) PROVE Outside(th)
  BY <1>0, <1>1, <1>2, <1>42 DEF SyncRefresh
<1>43. ASSUME CloseEnd(th) PROVE Outside(th)
  BY <1>0, <1>1, <1>2, <1>43 DEF CloseEnd
<1>44. ASSUME NEW l \in Lib, Visit(th, l) PROVE Outside(th)
  BY <1>0, <1>1, <1>2, <1>44 DEF Visit
<1>45. ASSUME NEW l \in Lib, OpenCall(th, l) PROVE Outside(th)
  BY <1>0, <1>1, <1>2, <1>45 DEF OpenCall
<1>46. ASSUME NEW l \in Lib, CloseCall(th, l) PROVE Outside(th)
  BY <1>0, <1>1, <1>2, <1>46 DEF CloseCall
<1>47. ASSUME NEW c \in Callbacks, AddCallback(th, c) PROVE Outside(th)
  BY <1>0, <1>1, <1>2, <1>47 DEF AddCallback
<1>48. ASSUME NEW c \in Callbacks, DelCallback(th, c) PROVE Outside(th)
  BY <1>0, <1>1, <1>2, <1>48 DEF DelCallback
<1> QED
  BY <1>3, <1>4, <1>5, <1>6, <1>7, <1>8, <1>9, <1>10, <1>11, <1>12, <1>13, <1>14, <1>15,
     <1>16, <1>17, <1>18, <1>19, <1>20, <1>21, <1>22, <1>23, <1>24, <1>25, <1>26, <1>27,
     <1>28, <1>29, <1>30, <1>31, <1>32, <1>33, <1>34, <1>35, <1>36, <1>37, <1>38, <1>39,
     <1>40, <1>41, <1>42, <1>43, <1>44, <1>45, <1>46, <1>47, <1>48
     DEF Step

\* A sequence with one element has an empty tail.
LEMMA TailEmpty ==
  ASSUME NEW S, NEW s \in Seq(S), s # <<>>
  PROVE  Len(s) = 1 <=> Tail(s) = <<>>
<1>1. Len(s) \in Nat /\ Len(s) > 0 /\ Tail(s) \in Seq(S) /\ Len(Tail(s)) = Len(s) - 1
  OBVIOUS
<1>2. ASSUME NEW t \in Seq(S) PROVE Len(t) = 0 <=> t = <<>>
  OBVIOUS
<1> QED
  BY <1>1, <1>2

\* The step of a thread in a section.
LEMMA NextSlotOwn ==
  ASSUME TypeInv, StackInv, SlotInv, NEW th \in Thread, Step(th)
  PROVE  SlotAt(th)'
<1> DEFINE left == local[th].sigs
<1>0. /\ pc \in [Thread -> Label] /\ local \in [Thread -> LocalType] /\ SlotAt(th)
      /\ local[th].sigs \in Seq(Range(Signals))
      /\ slots \in [Range(Signals) ->
              [1..SlotMax -> [tid : Thread \cup {None}, jbuf : Thread \cup {None}]]]
  BY DEF TypeInv, SlotInv, LocalType
<1>s. Signals \in Seq(Range(Signals)) /\ Signals # <<>> /\ IsInjective(Signals) /\ None # th
  BY StartupAssumption
<1>p. SlotAt(th)' <=>
        /\ pc'[th] \notin SectionL => \A s \in Range(Signals) : Free0(th, s)'
        /\ pc'[th] = "section" => \A s \in Range(Signals) : Armed(th, s)'
        /\ pc'[th] \in SectionL \ {"section"} =>
             local'[th].sigs # <<>> /\ IsInjective(local'[th].sigs)
        /\ pc'[th] \in {"claim", "store"} => \A s \in Range(Signals) :
             /\ s \notin Range(local'[th].sigs) => Armed(th, s)'
             /\ s \in Range(Tail(local'[th].sigs)) => Free0(th, s)'
             /\ s = Head(local'[th].sigs) =>
                   IF pc'[th] = "store" THEN Claimed(th, s)' ELSE Free0(th, s)'
        /\ pc'[th] \in {"clear", "free"} => \A s \in Range(Signals) :
             /\ s \notin Range(local'[th].sigs) => Free0(th, s)'
             /\ s \in Range(Tail(local'[th].sigs)) => Armed(th, s)'
             /\ s = Head(local'[th].sigs) =>
                   IF pc'[th] = "free" THEN Claimed(th, s)' ELSE Armed(th, s)'
  BY DEF SlotAt
<1>q. SlotAt(th) <=>
        /\ pc[th] \notin SectionL => \A s \in Range(Signals) : Free0(th, s)
        /\ pc[th] = "section" => \A s \in Range(Signals) : Armed(th, s)
        /\ pc[th] \in SectionL \ {"section"} => left # <<>> /\ IsInjective(left)
        /\ pc[th] \in {"claim", "store"} => \A s \in Range(Signals) :
             /\ s \notin Range(left) => Armed(th, s)
             /\ s \in Range(Tail(left)) => Free0(th, s)
             /\ s = Head(left) => IF pc[th] = "store" THEN Claimed(th, s) ELSE Free0(th, s)
        /\ pc[th] \in {"clear", "free"} => \A s \in Range(Signals) :
             /\ s \notin Range(left) => Free0(th, s)
             /\ s \in Range(Tail(left)) => Armed(th, s)
             /\ s = Head(left) => IF pc[th] = "free" THEN Claimed(th, s) ELSE Armed(th, s)
  BY DEF SlotAt
<1>e. ASSUME NEW s \in Range(Signals), slots'[s] = slots[s]
      PROVE  /\ Free0(th, s)' <=> Free0(th, s)
             /\ Claimed(th, s)' <=> Claimed(th, s)
             /\ Armed(th, s)' <=> Armed(th, s)
  BY <1>e DEF Free0, Claimed, Armed
<1>u. ASSUME UNCHANGED slots, NEW s \in Range(Signals)
      PROVE  /\ Free0(th, s)' <=> Free0(th, s)
             /\ Claimed(th, s)' <=> Claimed(th, s)
             /\ Armed(th, s)' <=> Armed(th, s)
  <2>1. slots'[s] = slots[s]
    BY <1>u
  <2> QED
    BY <1>e, <2>1
<1>l. ASSUME pc[th] \in SectionL \ {"section"}
      PROVE  /\ left \in Seq(Range(Signals)) /\ left # <<>>
             /\ Sig(th) \in Range(Signals) /\ Sig(th) = Head(left)
             /\ IsInjective(left) /\ IsInjective(Tail(left)) /\ Head(left) \notin Range(Tail(left))
             /\ Tail(left) \in Seq(Range(Signals))
             /\ \A y : y \in Range(left) <=> y = Head(left) \/ y \in Range(Tail(left))
             /\ Len(left) = 1 <=> Tail(left) = <<>>
  <2>1. /\ left \in Seq(Range(Signals)) /\ left # <<>> /\ IsInjective(left)
        /\ Sig(th) \in Range(Signals) /\ Sig(th) = Head(left)
    BY <1>l, SigType DEF SlotInv, SlotAt
  <2>2. /\ Tail(left) \in Seq(Range(Signals))
        /\ \A y : y \in Range(left) <=> y = Head(left) \/ y \in Range(Tail(left))
    BY <2>1, TailRange
  <2>3. IsInjective(Tail(left)) /\ Head(left) \notin Range(Tail(left))
    BY <2>1, TailInjective
  <2>4. Len(left) = 1 <=> Tail(left) = <<>>
    BY <2>1, TailEmpty
  <2> QED
    BY <2>1, <2>2, <2>3, <2>4
<1>1. CASE Outside(th)
  <2>1. UNCHANGED slots /\ pc[th] \notin SectionL /\ pc'[th] \notin SectionL
    BY <1>1 DEF Outside
  <2>2. ASSUME NEW s \in Range(Signals) PROVE Free0(th, s)'
    <3>1. Free0(th, s)
      BY <1>0, <1>q, <2>1
    <3> QED
      BY <1>u, <2>1, <3>1
  <2>3. pc'[th] \notin {"claim", "store", "section", "clear", "free"}
    BY <2>1 DEF SectionL
  <2> QED
    BY <1>p, <2>1, <2>2, <2>3
<1>2. CASE Parse(th)
  <2>1. pc[th] \notin SectionL /\ UNCHANGED slots /\ \A s \in Range(Signals) : Free0(th, s)
    BY <1>0, <1>2, <1>p, <1>q DEF Parse, SectionL
  <2>2. CASE pc'[th] \notin SectionL
    <3>1. ASSUME NEW s \in Range(Signals) PROVE Free0(th, s)'
      BY <1>u, <2>1
    <3>2. pc'[th] \notin {"claim", "store", "section", "clear", "free"}
      BY <2>2 DEF SectionL
    <3> QED
      BY <1>p, <2>2, <3>1, <3>2
  <2>3. CASE pc'[th] \in SectionL
    <3>1. pc'[th] = "claim" /\ local'[th].sigs = Signals
      BY <1>0, <1>2, <2>3 DEF Parse, Goto, Gosub, Set, SectionL, LocalType
    <3>2. Signals \in Seq(Range(Signals)) /\ Signals # <<>> /\ IsInjective(Signals)
      BY <1>s
    <3> QED
      BY <1>u, <2>1, <3>1, <3>2, <1>p, <1>q
  <2> QED
    BY <2>2, <2>3
<1>3. CASE \E j \in 1..SlotMax : Claim(th, j)
  <2>1. PICK j \in 1..SlotMax : Claim(th, j)
    BY <1>3
  <2>2. pc[th] = "claim" /\ pc'[th] = "store" /\ local'[th].sigs = left
        /\ slots' = [slots EXCEPT ![Sig(th)][j].tid = th] /\ slots[Sig(th)][j].tid = None
    BY <1>0, <2>1 DEF Claim, Goto
  <2>3. pc[th] \in SectionL \ {"section"}
    BY <2>2 DEF SectionL
  <2>4. Claimed(th, Sig(th))'
    <3>1. Free0(th, Sig(th))
      BY <1>0, <1>l, <2>2, <2>3, <1>p, <1>q
    <3>2. ASSUME NEW i \in 1..SlotMax
          PROVE  slots'[Sig(th)][i].tid = IF i = j THEN th ELSE slots[Sig(th)][i].tid
      <4>1. PICK r \in Range(Signals) : r = Sig(th)
        BY <1>l, <2>3
      <4>2. slots' = WithTid(r, j, th)
        BY <2>2, <4>1 DEF WithTid
      <4>3. slots'[r][i].tid = IF i = j THEN th ELSE slots[r][i].tid
        BY <4>2, EntryUpdate
      <4> QED
        BY <4>1, <4>3
    <3>3. \A i \in 1..SlotMax : slots'[Sig(th)][i].tid = th <=> i = j
      BY <3>1, <3>2 DEF Free0
    <3>4. Sig(th)' = Sig(th)
      BY <2>2 DEF Sig
    <3> QED
      BY <3>3, <3>4 DEF Claimed
  <2>5. \A s \in Range(Signals) : s # Sig(th) => slots'[s] = slots[s]
    BY <1>0, <1>l, <2>2, <2>3
  <2>6. Sig(th)' = Sig(th) /\ Sig(th) = Head(left)
    BY <1>l, <2>2, <2>3 DEF Sig
  <2> QED
    BY <1>0, <1>e, <1>l, <2>2, <2>3, <2>4, <2>5, <2>6, <1>p, <1>q DEF SectionL
<1>4. CASE Store(th)
  <2>1. PICK j \in 1..SlotMax : /\ slots[Sig(th)][j].tid = th
                                /\ slots' = [slots EXCEPT ![Sig(th)][j].jbuf = th]
    BY <1>4 DEF Store, SlotOf
  <2>2. /\ pc[th] = "store" /\ local'[th].sigs = Tail(left)
        /\ pc'[th] = IF Len(left) = 1 THEN "section" ELSE "claim"
    BY <1>0, <1>4 DEF Store, NextSignal, Goto, Set, LocalType
  <2>3. pc[th] \in SectionL \ {"section"}
    BY <2>2 DEF SectionL
  <2>s. PICK s0 \in Range(Signals) : s0 = Sig(th)
    BY <1>l, <2>3
  <2>4. s0 \in Range(Signals) /\ s0 = Head(left)
    BY <1>l, <2>3, <2>s
  <2>5. \A s \in Range(Signals) : s # s0 => slots'[s] = slots[s]
    BY <1>0, <2>1, <2>s
  <2>6. Claimed(th, s0)
    BY <1>0, <2>2, <2>4, <1>p, <1>q
  <2>7. \A s \in Range(Signals) : s = s0 => Armed(th, s)'
    <3>0. slots' = WithJbuf(s0, j, th)
      BY <2>1, <2>s DEF WithJbuf
    <3>1. ASSUME NEW i \in 1..SlotMax
          PROVE  /\ slots'[s0][i].tid = slots[s0][i].tid
                 /\ slots'[s0][i].jbuf = IF i = j THEN th ELSE slots[s0][i].jbuf
      BY EntryUpdate, <3>0
    <3>2. \A i \in 1..SlotMax : slots[s0][i].tid = th => i = j
      BY <2>1, <2>s, <2>6 DEF Claimed
    <3> QED
      BY <2>6, <3>1, <3>2 DEF Armed, Claimed
  <2>8. \A s \in Range(Signals) : s # s0 => (s \in Range(Tail(left)) => Free0(th, s)')
                             /\ (s \notin Range(Tail(left)) => Armed(th, s)')
    BY <1>0, <1>e, <1>l, <2>2, <2>3, <2>4, <2>5, <1>p, <1>q
  <2>9. CASE Len(left) = 1
    <3>1. \A s \in Range(Signals) : s \notin Range(Tail(left))
      BY <1>l, <2>3, <2>9 DEF Range
    <3> QED
      BY <2>2, <2>7, <2>8, <2>9, <3>1, <1>p, <1>q DEF SectionL
  <2>10. CASE Len(left) # 1
    <3>1. Tail(left) # <<>> /\ Tail(left) \in Seq(Range(Signals)) /\ IsInjective(Tail(left))
      BY <1>l, <2>3, <2>10
    <3>2. \A y : y \in Range(Tail(left)) <=> y = Head(Tail(left)) \/ y \in Range(Tail(Tail(left)))
      BY <3>1, TailRange
    <3>3. s0 \notin Range(Tail(left))
      BY <1>l, <2>3, <2>4
    <3> QED
      BY <2>2, <2>7, <2>8, <2>10, <3>1, <3>2, <3>3, <1>p, <1>q DEF SectionL
  <2> QED
    BY <2>9, <2>10
<1>5. CASE Leave(th) \/ \E s \in Range(Signals) : Handler(th, s)
  <2>1. pc[th] = "section" /\ pc'[th] = "clear" /\ local'[th].sigs = Signals /\ UNCHANGED slots
    BY <1>0, <1>5 DEF Leave, Handler, Goto, Set, LocalType
  <2>2. \A s \in Range(Signals) : Armed(th, s)
    BY <1>0, <2>1, <1>p, <1>q
  <2> QED
    BY <1>s, <1>u, <2>1, <2>2, <1>p, <1>q DEF SectionL
<1>6. CASE Clear(th)
  <2>1. PICK j \in 1..SlotMax : slots' = [slots EXCEPT ![Sig(th)][j].jbuf = None]
    BY <1>6 DEF Clear, SlotOf
  <2>2. pc[th] = "clear" /\ local'[th].sigs = left /\ pc'[th] = "free"
    BY <1>0, <1>6 DEF Clear, Goto
  <2>3. pc[th] \in SectionL \ {"section"}
    BY <2>2 DEF SectionL
  <2>4. Sig(th) \in Range(Signals) /\ Sig(th) = Head(left)
    BY <1>l, <2>3
  <2>5. \A s \in Range(Signals) : s # Sig(th) => slots'[s] = slots[s]
    BY <1>0, <2>1, <2>4
  <2>6. \A s \in Range(Signals) : s = Sig(th) => Claimed(th, s)'
    <3>1. Claimed(th, Sig(th))
      BY <1>0, <2>2, <2>4, <1>p, <1>q DEF Armed
    <3>2. ASSUME NEW i \in 1..SlotMax PROVE slots'[Sig(th)][i].tid = slots[Sig(th)][i].tid
      <4>1. PICK r \in Range(Signals) : r = Sig(th)
        BY <2>4
      <4>2. slots' = WithJbuf(r, j, None)
        BY <2>1, <4>1 DEF WithJbuf
      <4> QED
        BY SMTT(30), EntryUpdate, <4>1, <4>2
    <3> QED
      BY <3>1, <3>2 DEF Claimed
  <2> QED
    BY <1>0, <1>e, <1>l, <2>2, <2>3, <2>4, <2>5, <2>6, <1>p, <1>q DEF SectionL
<1>7. CASE Free(th)
  <2>1. PICK j \in 1..SlotMax : /\ slots[Sig(th)][j].tid = th
                                /\ slots' = [slots EXCEPT ![Sig(th)][j].tid = None]
    BY <1>7 DEF Free, SlotOf
  <2>2. /\ pc[th] = "free" /\ local'[th].sigs = Tail(left)
        /\ IF Len(left) = 1 THEN pc'[th] \notin SectionL ELSE pc'[th] = "clear"
    <3>1. pc[th] = "free" /\ Set(th, "sigs", Tail(left))
          /\ IF Len(left) = 1 THEN Return(th) ELSE Goto(th, "clear")
      BY <1>7 DEF Free, NextSignal
    <3>2. pc[th] \notin TopL
      BY <3>1 DEF TopL
    <3>3. Return(th) => pc'[th] \notin SectionL
      BY <1>0, <3>2, CanReturn DEF Return, Backs, SectionL
    <3>4. local'[th].sigs = Tail(left)
      BY <1>0, <3>1 DEF Set, LocalType
    <3> QED
      BY <1>0, <3>1, <3>3, <3>4 DEF Goto
  <2>3. pc[th] \in SectionL \ {"section"}
    BY <2>2 DEF SectionL
  <2>s. PICK s0 \in Range(Signals) : s0 = Sig(th)
    BY <1>l, <2>3
  <2>4. s0 \in Range(Signals) /\ s0 = Head(left)
    BY <1>l, <2>3, <2>s
  <2>5. \A s \in Range(Signals) : s # s0 => slots'[s] = slots[s]
    BY <1>0, <2>1, <2>s
  <2>6. Claimed(th, s0)
    BY <1>0, <2>2, <2>4, <1>p, <1>q
  <2>7. \A s \in Range(Signals) : s = s0 => Free0(th, s)'
    <3>0. slots' = WithTid(s0, j, None)
      BY <2>1, <2>s DEF WithTid
    <3>1. ASSUME NEW i \in 1..SlotMax
          PROVE  slots'[s0][i].tid = IF i = j THEN None ELSE slots[s0][i].tid
      BY EntryUpdate, <3>0
    <3>2. \A i \in 1..SlotMax : slots[s0][i].tid = th => i = j
      BY <2>1, <2>s, <2>6 DEF Claimed
    <3> QED
      BY <1>s, <3>1, <3>2 DEF Free0
  <2>8. \A s \in Range(Signals) : s # s0 => (s \in Range(Tail(left)) => Armed(th, s)')
                             /\ (s \notin Range(Tail(left)) => Free0(th, s)')
    BY <1>0, <1>e, <1>l, <2>2, <2>3, <2>4, <2>5, <1>p, <1>q
  <2>9. CASE Len(left) = 1
    <3>1. \A s \in Range(Signals) : s \notin Range(Tail(left))
      BY <1>l, <2>3, <2>9 DEF Range
    <3> QED
      BY <2>2, <2>7, <2>8, <2>9, <3>1, <1>p, <1>q DEF SectionL
  <2>10. CASE Len(left) # 1
    <3>1. Tail(left) # <<>> /\ Tail(left) \in Seq(Range(Signals)) /\ IsInjective(Tail(left))
      BY <1>l, <2>3, <2>10
    <3>2. \A y : y \in Range(Tail(left)) <=> y = Head(Tail(left)) \/ y \in Range(Tail(Tail(left)))
      BY <3>1, TailRange
    <3>3. s0 \notin Range(Tail(left))
      BY <1>l, <2>3, <2>4
    <3> QED
      BY <2>2, <2>7, <2>8, <2>10, <3>1, <3>2, <3>3, <1>p, <1>q DEF SectionL
  <2> QED
    BY <2>9, <2>10
<1> QED
  BY <1>1, <1>2, <1>3, <1>4, <1>5, <1>6, <1>7, NextOutside

-----------------------------------------------------------------------------
(* The linker's lock                                                       *)

\* A step that writes one of the locals leaves the frames.
SameFrames(th) == local'[th].frames = local[th].frames

\* Setting another local leaves the linker calls under way alone.
LEMMA SetKeeps ==
  ASSUME TypeInv, NEW th \in Thread
  PROVE  /\ UNCHANGED local => SameFrames(th)
         /\ \A v : /\ Set(th, "res", v) => SameFrames(th)
                   /\ Set(th, "elfs", v) => SameFrames(th)
                   /\ Set(th, "elf", v) => SameFrames(th)
                   /\ Set(th, "todo", v) => SameFrames(th)
                   /\ Set(th, "sigs", v) => SameFrames(th)
                   /\ Set(th, "fault", v) => SameFrames(th)
                   /\ Set(th, "job", v) => SameFrames(th)
                   /\ Set(th, "cb", v) => SameFrames(th)
<1>T. local \in [Thread -> LocalType]
  BY DEF TypeInv
<1>1. ASSUME NEW v, Set(th, "res", v) PROVE SameFrames(th)
  BY <1>1, <1>T DEF Set, LocalType, SameFrames
<1>2. ASSUME NEW v, Set(th, "elfs", v) PROVE SameFrames(th)
  BY <1>2, <1>T DEF Set, LocalType, SameFrames
<1>3. ASSUME NEW v, Set(th, "elf", v) PROVE SameFrames(th)
  BY <1>3, <1>T DEF Set, LocalType, SameFrames
<1>4. ASSUME NEW v, Set(th, "todo", v) PROVE SameFrames(th)
  BY <1>4, <1>T DEF Set, LocalType, SameFrames
<1>5. ASSUME NEW v, Set(th, "sigs", v) PROVE SameFrames(th)
  BY <1>5, <1>T DEF Set, LocalType, SameFrames
<1>6. ASSUME NEW v, Set(th, "fault", v) PROVE SameFrames(th)
  BY <1>6, <1>T DEF Set, LocalType, SameFrames
<1>7. ASSUME NEW v, Set(th, "job", v) PROVE SameFrames(th)
  BY <1>7, <1>T DEF Set, LocalType, SameFrames
<1>8. ASSUME NEW v, Set(th, "cb", v) PROVE SameFrames(th)
  BY <1>8, <1>T DEF Set, LocalType, SameFrames
<1> QED
  BY <1>1, <1>2, <1>3, <1>4, <1>5, <1>6, <1>7, <1>8 DEF SameFrames

\* Where a step goes that is not a call of the linker or its return.
LEMMA Moves ==
  ASSUME TypeInv, StackInv, NEW th \in Thread
  PROVE  /\ \A l : Goto(th, l) => pc'[th] = l /\ stack'[th] = stack[th]
         /\ \A l, back : Gosub(th, l, back) => pc'[th] = l /\ stack'[th] = On(back, stack[th])
         /\ Return(th) => pc'[th] = Head(stack[th]) /\ stack'[th] = Tail(stack[th])
         /\ UNCHANGED <<pc, stack>> => pc'[th] = pc[th] /\ stack'[th] = stack[th]
         /\ pc[th] \notin TopL \cup LinkL =>
               Head(stack[th]) \in {"idle", "hooked", "tm_store", "mon", "add_cb", "one_end",
                                    "rdunlock", "post_end", "parsed"}
<1>0. /\ pc[th] \in Label /\ stack[th] \in Seq(Label) /\ Len(local[th].frames) \in Nat
      /\ Fits(pc[th], stack[th], Len(local[th].frames))
  BY DEF TypeInv, StackInv, LocalType
<1>T. pc \in [Thread -> Label] /\ stack \in [Thread -> Seq(Label)]
  BY DEF TypeInv
<1>1. ASSUME NEW l, Goto(th, l) PROVE pc'[th] = l /\ stack'[th] = stack[th]
  BY <1>1, <1>T DEF Goto
<1>2. ASSUME NEW l, NEW back, Gosub(th, l, back)
      PROVE  pc'[th] = l /\ stack'[th] = On(back, stack[th])
  BY <1>2, <1>T DEF Gosub, On
<1>3. ASSUME Return(th) PROVE pc'[th] = Head(stack[th]) /\ stack'[th] = Tail(stack[th])
  BY <1>3, <1>T DEF Return
<1>4. ASSUME pc[th] \notin TopL \cup LinkL
      PROVE  Head(stack[th]) \in {"idle", "hooked", "tm_store", "mon", "add_cb", "one_end",
                                  "rdunlock", "post_end", "parsed"}
  <2>1. pc[th] \in Label \ TopL /\ pc[th] \notin LinkL
    BY <1>0, <1>4
  <2>2. /\ pc[th] \in TmL => Head(stack[th]) = "hooked"
        /\ pc[th] \in DlL => Head(stack[th]) \in {"tm_store", "add_cb"}
        /\ pc[th] \in HookL => Head(stack[th]) \in {"hooked", "mon"}
        /\ pc[th] \in InitL => Head(stack[th]) = "idle"
        /\ pc[th] \in VisitL => Head(stack[th]) \in {"one_end", "rdunlock", "post_end"}
        /\ pc[th] \in SectionL => Head(stack[th]) = "parsed"
    BY <1>0, <2>1, ReturnFits
  <2> QED
    BY <2>1, <2>2 DEF Label
<1> QED
  BY <1>1, <1>2, <1>3, <1>4

\* A step that is not about the linker, whose lock and list it leaves.
Plain(th) ==
    /\ linker' = linker /\ linked' = linked /\ budget'.shut = budget.shut
    /\ SameFrames(th)
    /\ pc[th] # "ctor" /\ pc'[th] \notin {"ctor", "wrlock", "post_rd"}
    /\ pc'[th] \in CloseL => pc[th] \in CloseL
LinkerStep(th) ==
    \/ Link(th) \/ Linked(th) \/ Opened(th) \/ OpenEnd(th)
    \/ WrLock(th) \/ Unlink(th) \/ CloseEnd(th)
    \/ \E l \in Lib : OpenCall(th, l) \/ CloseCall(th, l)

\* Apart from the linker steps, no step moves the linker or the frames.
LEMMA NextPlain ==
  ASSUME TypeInv, StackInv, NEW th \in Thread, Step(th)
  PROVE  Plain(th) \/ LinkerStep(th)
<1>f. /\ UNCHANGED local => SameFrames(th)
      /\ \A v : /\ Set(th, "res", v) => SameFrames(th)
                /\ Set(th, "elfs", v) => SameFrames(th)
                /\ Set(th, "elf", v) => SameFrames(th)
                /\ Set(th, "todo", v) => SameFrames(th)
                /\ Set(th, "sigs", v) => SameFrames(th)
                /\ Set(th, "fault", v) => SameFrames(th)
                /\ Set(th, "job", v) => SameFrames(th)
                /\ Set(th, "cb", v) => SameFrames(th)
  BY SetKeeps
<1>g. \A l : Goto(th, l) => pc'[th] = l
  BY Moves
<1>c. \A l, back : Gosub(th, l, back) => pc'[th] = l
  BY Moves
<1>t. /\ Return(th) => pc'[th] = Head(stack[th])
      /\ pc[th] \notin TopL \cup LinkL =>
            Head(stack[th]) \in {"idle", "hooked", "tm_store", "mon", "add_cb", "one_end",
                                 "rdunlock", "post_end", "parsed"}
  BY Moves
<1>u. UNCHANGED pc => pc'[th] = pc[th]
  OBVIOUS
<1>x. ASSUME budget.shut # budget'.shut PROVE ~UNCHANGED budget /\ ~Spend(th) /\ ~Fail
  <2>1. budget \in [calls : [Thread -> Nat], faults : Nat, shut : SUBSET Lib]
    BY DEF TypeInv
  <2>2. Spend(th) => budget'.shut = budget.shut
    BY <2>1 DEF Spend
  <2>3. Fail => budget'.shut = budget.shut
    BY <2>1 DEF Fail
  <2> QED
    BY <1>x, <2>2, <2>3
<1>T. local \in [Thread -> LocalType]
  BY DEF TypeInv
<1>l. /\ pc[th] \in {"parts", "tm_init", "tm_locked", "tm_done", "one_end", "rdunlock", "dl_init",
                      "dl_end", "visit", "free"} => pc[th] \notin TopL \cup LinkL
  BY DEF TopL, LinkL
<1> USE DEF locks, elves, inits, history, CloseL, Call
<1>1. ASSUME InitCall(th) PROVE Plain(th)
  BY <1>1, <1>c, <1>f, <1>x DEF InitCall, Plain
<1>2. ASSUME InitLock(th) PROVE Plain(th)
  BY <1>2, <1>g, <1>f, <1>x DEF InitLock, Plain
<1>3. ASSUME InitPart(th) PROVE Plain(th)
  BY <1>3, <1>u, <1>f, <1>x DEF InitPart, Plain
<1>4. ASSUME InitEnd(th) PROVE Plain(th)
  BY <1>4, <1>t, <1>l, <1>f, <1>x DEF InitEnd, Plain
<1>5. ASSUME HookCall(th) PROVE Plain(th)
  BY <1>5, <1>c, <1>f, <1>x DEF HookCall, Plain
<1>6. ASSUME HookReturn(th) PROVE Plain(th)
  BY <1>6, <1>g, <1>f, <1>x DEF HookReturn, Plain
<1>7. ASSUME TmHook(th) PROVE Plain(th)
  BY <1>7, <1>g, <1>f, <1>x DEF TmHook, Plain
<1>8. ASSUME OneShot(th) PROVE Plain(th)
  BY <1>8, <1>g, <1>f, <1>x DEF OneShot, Plain
<1>9. ASSUME OneLocked(th) PROVE Plain(th)
  BY <1>9, <1>g, <1>f, <1>x DEF OneLocked, Plain
<1>10. ASSUME OneRefresh(th) PROVE Plain(th)
  BY <1>10, <1>c, <1>f, <1>x DEF OneRefresh, Plain
<1>11. ASSUME OneEnd(th) PROVE Plain(th)
  BY <1>11, <1>t, <1>l, <1>f, <1>x DEF OneEnd, Plain
<1>12. ASSUME RdLock(th) PROVE Plain(th)
  BY <1>12, <1>c, <1>f, <1>x DEF RdLock, Plain
<1>13. ASSUME RdUnlock(th) PROVE Plain(th)
  BY <1>13, <1>t, <1>l, <1>f, <1>x DEF RdUnlock, Plain
<1>14. ASSUME TmInit(th) PROVE Plain(th)
  BY <1>14, <1>g, <1>c, <1>t, <1>l, <1>f, <1>x DEF TmInit, Plain, TmResult
<1>15. ASSUME TmLocked(th) PROVE Plain(th)
  BY <1>15, <1>g, <1>c, <1>t, <1>l, <1>f, <1>x DEF TmLocked, Plain, TmResult
<1>16. ASSUME TmStore(th) PROVE Plain(th)
  BY <1>16, <1>g, <1>f, <1>x DEF TmStore, Plain
<1>17. ASSUME TmDone(th) PROVE Plain(th)
  BY <1>17, <1>g, <1>c, <1>t, <1>l, <1>f, <1>x DEF TmDone, Plain, TmResult
<1>18. ASSUME DlInit(th) PROVE Plain(th)
  BY <1>18, <1>g, <1>t, <1>l, <1>f, <1>x DEF DlInit, Plain
<1>19. ASSUME DlLocked(th) PROVE Plain(th)
  BY <1>19, <1>g, <1>f, <1>x DEF DlLocked, Plain
<1>20. ASSUME MonHook(th) PROVE Plain(th)
  <2>1. SameFrames(th)
    BY <1>20, <1>T, <1>f DEF MonHook, LocalType, SameFrames
  <2> QED
    BY <1>20, <2>1, <1>c, <1>x DEF MonHook, Plain
<1>21. ASSUME MonFail(th) PROVE Plain(th)
  BY <1>21, <1>g, <1>f, <1>x DEF MonFail, Plain
<1>22. ASSUME MonDone(th) PROVE Plain(th)
  <2>1. SameFrames(th)
    BY <1>22, <1>T, <1>f DEF MonDone, LocalType, SameFrames
  <2> QED
    BY <1>22, <2>1, <1>g, <1>x DEF MonDone, Plain
<1>23. ASSUME Uninit(th) PROVE Plain(th)
  <2>1. SameFrames(th)
    BY <1>23, <1>T, <1>f DEF Uninit, LocalType, SameFrames
  <2> QED
    BY <1>23, <2>1, <1>g, <1>u, <1>x DEF Uninit, Plain
<1>24. ASSUME DlEnd(th) PROVE Plain(th)
  BY <1>24, <1>t, <1>l, <1>f, <1>x DEF DlEnd, Plain
<1>25. ASSUME VisitEnd(th) PROVE Plain(th)
  BY <1>25, <1>t, <1>l, <1>f, <1>x DEF VisitEnd, Plain
<1>26. ASSUME Parse(th) PROVE Plain(th)
  BY <1>26, <1>g, <1>c, <1>f, <1>x DEF Parse, Plain
<1>27. ASSUME Parsed(th) PROVE Plain(th)
  BY <1>27, <1>g, <1>f, <1>x DEF Parsed, Plain
<1>28. ASSUME Find(th) PROVE Plain(th)
  BY <1>28, <1>g, <1>f, <1>x DEF Find, Plain
<1>29. ASSUME Store(th) PROVE Plain(th)
  <2>1. /\ pc[th] = "store" /\ Set(th, "sigs", Tail(local[th].sigs))
        /\ IF Len(local[th].sigs) = 1 THEN Goto(th, "section") ELSE Goto(th, "claim")
    BY <1>29 DEF Store, NextSignal
  <2> QED
    BY <1>29, <2>1, <1>g, <1>f, <1>x DEF Store, Plain
<1>30. ASSUME Leave(th) PROVE Plain(th)
  BY <1>30, <1>g, <1>f, <1>x DEF Leave, Plain
<1>31. ASSUME Clear(th) PROVE Plain(th)
  BY <1>31, <1>g, <1>f, <1>x DEF Clear, Plain
<1>32. ASSUME Free(th) PROVE Plain(th)
  <2>1. /\ pc[th] = "free" /\ Set(th, "sigs", Tail(local[th].sigs))
        /\ IF Len(local[th].sigs) = 1 THEN Return(th) ELSE Goto(th, "clear")
    BY <1>32 DEF Free, NextSignal
  <2> QED
    BY <1>32, <2>1, <1>g, <1>t, <1>l, <1>f, <1>x DEF Free, Plain
<1>33. ASSUME AddCb(th) PROVE Plain(th)
  BY <1>33, <1>g, <1>f, <1>x DEF AddCb, Plain
<1>34. ASSUME Pre(th) PROVE Plain(th)
  BY <1>34, <1>g, <1>f, <1>x DEF Pre, Plain, CallCb
<1>35. ASSUME Post(th) PROVE Plain(th)
  BY <1>35, <1>g, <1>f, <1>x DEF Post, Plain, CallCb
<1>36. ASSUME PostRdLock(th) PROVE Plain(th)
  BY <1>36, <1>g, <1>f, <1>x DEF PostRdLock, Plain
<1>37. ASSUME PostRefresh(th) PROVE Plain(th)
  <2>1. SameFrames(th)
    BY <1>37, <1>T, <1>f DEF PostRefresh, LocalType, SameFrames
  <2> QED
    BY <1>37, <2>1, <1>c, <1>x DEF PostRefresh, Plain
<1>38. ASSUME PostEnd(th) PROVE Plain(th)
  BY <1>38, <1>g, <1>f, <1>x DEF PostEnd, Plain
<1>39. ASSUME SyncRefresh(th) PROVE Plain(th)
  BY <1>39, <1>g, <1>f, <1>x DEF SyncRefresh, Plain
<1>40. ASSUME NEW l \in Lib, Visit(th, l) PROVE Plain(th)
  <2>1. SameFrames(th)
    BY <1>40, <1>T, <1>f DEF Visit, LocalType, SameFrames
  <2> QED
    BY <1>40, <2>1, <1>g, <1>u, <1>x DEF Visit, Plain
<1>41. ASSUME NEW j \in 1..SlotMax, Claim(th, j) PROVE Plain(th)
  BY <1>41, <1>g, <1>f, <1>x DEF Claim, Plain
<1>42. ASSUME NEW s \in Range(Signals), Handler(th, s) PROVE Plain(th)
  <2>1. SameFrames(th)
    BY <1>42, <1>T, <1>f DEF Handler, LocalType, SameFrames
  <2> QED
    BY <1>42, <2>1, <1>g, <1>x DEF Handler, Plain
<1>43. ASSUME NEW c \in Callbacks, AddCallback(th, c) PROVE Plain(th)
  BY <1>43, <1>c, <1>f, <1>x DEF AddCallback, Plain
<1>44. ASSUME NEW c \in Callbacks, DelCallback(th, c) PROVE Plain(th)
  BY <1>44, <1>u, <1>f, <1>x DEF DelCallback, Plain
<1> QED
  BY <1>1, <1>2, <1>3, <1>4, <1>5, <1>6, <1>7, <1>8, <1>9, <1>10, <1>11, <1>12, <1>13,
     <1>14, <1>15, <1>16, <1>17, <1>18, <1>19, <1>20, <1>21, <1>22, <1>23, <1>24, <1>25,
     <1>26, <1>27, <1>28, <1>29, <1>30, <1>31, <1>32, <1>33, <1>34, <1>35, <1>36, <1>37,
     <1>38, <1>39, <1>40, <1>41, <1>42, <1>43, <1>44
     DEF Step, LinkerStep

\* What the calls of the linker do to the lock, the list and the frames.
LEMMA OpenStep ==
  ASSUME TypeInv, StackInv, NEW th \in Thread, NEW l \in Lib, OpenCall(th, l)
  PROVE  /\ pc[th] \in {"idle", "ctor"} /\ pc'[th] \in {"pre", "link"}
         /\ linker' = linker /\ linked' = linked /\ budget'.shut = budget.shut
         /\ \E f : local'[th].frames = On(f, local[th].frames)
<1>T. pc \in [Thread -> Label] /\ local \in [Thread -> LocalType]
      /\ budget \in [calls : [Thread -> Nat], faults : Nat, shut : SUBSET Lib]
  BY DEF TypeInv
<1>1. /\ pc[th] \in {"idle", "ctor"} /\ \E m \in {"pre", "link"} : Gosub(th, m, pc[th])
      /\ linker' = linker /\ linked' = linked /\ Spend(th)
  BY DEF OpenCall, LinkerCall, locks, elves
<1>2. \E f : Set(th, "frames", On(f, local[th].frames))
  BY DEF OpenCall, Push, On
<1>3. ASSUME NEW fs, Set(th, "frames", fs) PROVE local'[th].frames = fs
  BY <1>T, <1>3 DEF Set, LocalType
<1>4. pc'[th] \in {"pre", "link"}
  BY <1>T, <1>1 DEF Gosub
<1>5. budget'.shut = budget.shut
  BY <1>T, <1>1 DEF Spend
<1> QED
  BY <1>1, <1>2, <1>3, <1>4, <1>5

\* A dlclose begins: one more frame, with or without the write lock to take.
LEMMA CloseStep ==
  ASSUME TypeInv, StackInv, NEW th \in Thread, NEW l \in Lib, CloseCall(th, l)
  PROVE  /\ pc[th] \in {"idle", "ctor"}
         /\ pc'[th] = IF CloseStub \in placed /\ ~InLock(th, local[th].frames)
                      THEN "wrlock" ELSE "unlink"
         /\ linker' = linker /\ linked' = linked /\ budget'.shut = budget.shut \cup {l}
         /\ \E f \in FrameType : f.lib = l /\ local'[th].frames = On(f, local[th].frames)
<1>T. pc \in [Thread -> Label] /\ local \in [Thread -> LocalType]
      /\ budget \in [calls : [Thread -> Nat], faults : Nat, shut : SUBSET Lib]
  BY DEF TypeInv
<1>1. /\ pc[th] \in {"idle", "ctor"}
      /\ Gosub(th, IF CloseStub \in placed /\ ~InLock(th, local[th].frames)
                   THEN "wrlock" ELSE "unlink", pc[th])
      /\ linker' = linker /\ linked' = linked
      /\ budget' = [budget EXCEPT !.calls[th] = @ - 1, !.shut = @ \cup {l}]
  BY DEF CloseCall, LinkerCall, locks, elves
<1>2. \E f \in FrameType : f.lib = l /\ Set(th, "frames", On(f, local[th].frames))
  <2> DEFINE f == [lib |-> l, proxy |-> CloseStub \in placed, wrlocked |-> FALSE]
  <2>1. f \in FrameType /\ f.lib = l
    BY DEF FrameType
  <2>2. Set(th, "frames", On(f, local[th].frames))
    BY DEF CloseCall, Push, On
  <2> QED
    BY <2>1, <2>2
<1>3. ASSUME NEW fs, Set(th, "frames", fs) PROVE local'[th].frames = fs
  BY <1>T, <1>3 DEF Set, LocalType
<1>4. pc'[th] = IF CloseStub \in placed /\ ~InLock(th, local[th].frames)
                THEN "wrlock" ELSE "unlink"
  BY <1>T, <1>1 DEF Gosub
<1>5. budget'.shut = budget.shut \cup {l}
  BY <1>T, <1>1
<1> QED
  BY <1>1, <1>2, <1>3, <1>4, <1>5

\* A linker call ends: one frame less.
LEMMA EndStep ==
  ASSUME TypeInv, StackInv, NEW th \in Thread, OpenEnd(th) \/ CloseEnd(th)
  PROVE  /\ pc[th] \in LinkL \ {"ctor"}
         /\ pc'[th] = IF Len(local[th].frames) = 1 THEN "idle" ELSE "ctor"
         /\ linker' = linker /\ linked' = linked /\ budget'.shut = budget.shut
         /\ Len(local'[th].frames) = Len(local[th].frames) - 1
<1>T. pc \in [Thread -> Label] /\ local \in [Thread -> LocalType]
      /\ budget \in [calls : [Thread -> Nat], faults : Nat, shut : SUBSET Lib]
  BY DEF TypeInv
<1>1. /\ pc[th] \in LinkL \ {"ctor"} /\ Return(th) /\ Pop(th)
      /\ linker' = linker /\ linked' = linked /\ budget'.shut = budget.shut
  BY DEF OpenEnd, CloseEnd, LinkL, locks, elves
<1>2. local[th].frames # <<>> /\ local[th].frames \in Seq(FrameType)
  BY <1>1, HasFrame
<1>3. local'[th].frames = Tail(local[th].frames)
  BY <1>T, <1>1 DEF Pop, Set, LocalType
<1>4. Len(local'[th].frames) = Len(local[th].frames) - 1
  BY <1>2, <1>3
<1>5. pc'[th] = Head(stack[th])
  BY <1>1, Moves
<1>6. Head(stack[th]) = IF Len(local[th].frames) = 1 THEN "idle" ELSE "ctor"
  <2>1. /\ pc[th] \in Label \ TopL /\ stack[th] \in Seq(Label) /\ Len(local[th].frames) \in Nat
        /\ Fits(pc[th], stack[th], Len(local[th].frames))
    BY SMTT(30), <1>1, <1>2 DEF TypeInv, StackInv, LinkL, TopL, Label
  <2> QED
    BY <1>1, <2>1, ReturnFits
<1> QED
  BY <1>1, <1>4, <1>5, <1>6

\* The steps in the middle of a linker call, and what they do to its mutex.
LEMMA InnerStep ==
  ASSUME TypeInv, StackInv, NEW th \in Thread
  PROVE  /\ Link(th) => /\ linker \in {None, th} /\ linker' = th
                        /\ pc[th] = "link" /\ pc'[th] = "ctor"
                        /\ linked' = linked \cup {Frame(th).lib}
         /\ Linked(th) => /\ pc[th] = "ctor" /\ pc'[th] \in {"opened", "open_end"}
                          /\ linker' = IF Outer(th) = <<>> THEN None ELSE th
                          /\ linked' = linked
         /\ Opened(th) => /\ pc[th] = "opened"
                          /\ pc'[th] = IF ~InLock(th, Outer(th)) /\ tm.posts
                                       THEN "post_rd" ELSE "post"
                          /\ linker' = linker /\ linked' = linked
         /\ Unlink(th) => /\ pc[th] = "unlink" /\ pc'[th] \in {"sync_refresh", "close_end"}
                          /\ linker' = linker
                          /\ linked' = linked \ {Frame(th).lib}
         /\ Link(th) \/ Linked(th) \/ Opened(th) \/ Unlink(th) =>
               SameFrames(th) /\ budget'.shut = budget.shut
         /\ WrLock(th) => /\ pc[th] = "wrlock" /\ pc'[th] = "unlink"
                          /\ linker' = linker /\ linked' = linked /\ budget'.shut = budget.shut
                          /\ Len(local'[th].frames) = Len(local[th].frames)
                          /\ Frame(th)'.lib = Frame(th).lib
<1>T. pc \in [Thread -> Label] /\ local \in [Thread -> LocalType]
  BY DEF TypeInv
<1> USE DEF locks, elves, Goto
<1>1. Link(th) => /\ linker \in {None, th} /\ linker' = th /\ pc[th] = "link" /\ pc'[th] = "ctor"
                  /\ linked' = linked \cup {Frame(th).lib}
                  /\ SameFrames(th) /\ budget'.shut = budget.shut
  BY <1>T DEF Link, Iterable, SameFrames
<1>2. Linked(th) => /\ pc[th] = "ctor" /\ pc'[th] \in {"opened", "open_end"}
                    /\ linker' = IF Outer(th) = <<>> THEN None ELSE th
                    /\ linked' = linked
                    /\ SameFrames(th) /\ budget'.shut = budget.shut
  BY <1>T DEF Linked, SameFrames
<1>3. Opened(th) => /\ pc[th] = "opened"
                    /\ pc'[th] = IF ~InLock(th, Outer(th)) /\ tm.posts THEN "post_rd" ELSE "post"
                    /\ linker' = linker /\ linked' = linked
                    /\ SameFrames(th) /\ budget'.shut = budget.shut
  BY <1>T DEF Opened, SameFrames
<1>4. Unlink(th) => /\ pc[th] = "unlink" /\ pc'[th] \in {"sync_refresh", "close_end"}
                    /\ linker' = linker /\ linked' = linked \ {Frame(th).lib}
                    /\ SameFrames(th) /\ budget'.shut = budget.shut
  BY <1>T DEF Unlink, SameFrames
<1>5. ASSUME WrLock(th)
      PROVE  /\ pc[th] = "wrlock" /\ pc'[th] = "unlink"
             /\ linker' = linker /\ linked' = linked /\ budget'.shut = budget.shut
             /\ Len(local'[th].frames) = Len(local[th].frames)
             /\ Frame(th)'.lib = Frame(th).lib
  <2>1. /\ pc[th] = "wrlock" /\ pc'[th] = "unlink" /\ linker' = linker /\ linked' = linked
        /\ budget'.shut = budget.shut
        /\ local' = [local EXCEPT ![th].frames[1].wrlocked = TRUE]
    BY <1>5, <1>T DEF WrLock
  <2> DEFINE fs == local[th].frames
  <2>2. fs \in Seq(FrameType) /\ fs # <<>>
    BY <2>1, HasFrame DEF LinkL
  <2>3. local'[th].frames = [fs EXCEPT ![1] = [fs[1] EXCEPT !.wrlocked = TRUE]]
    BY <1>T, <2>1 DEF LocalType
  <2> DEFINE f == [fs[1] EXCEPT !.wrlocked = TRUE]
  <2>4. fs[1] \in FrameType /\ Len(fs) \in Nat /\ Len(fs) > 0 /\ Head(fs) = fs[1]
    BY <2>2
  <2>5. f \in FrameType /\ f.lib = fs[1].lib
    BY <2>4 DEF FrameType
  <2> HIDE DEF fs, f
  <2>6. [fs EXCEPT ![1] = f] \in Seq(FrameType) /\ Len([fs EXCEPT ![1] = f]) = Len(fs)
        /\ [fs EXCEPT ![1] = f][1] = f
    BY <2>2, <2>4, <2>5
  <2>7. Head([fs EXCEPT ![1] = f]) = f
    BY <2>2, <2>4, <2>6
  <2>8. local'[th].frames = [fs EXCEPT ![1] = f] /\ local[th].frames = fs
    BY <2>3 DEF fs, f
  <2> QED
    BY <2>1, <2>4, <2>5, <2>6, <2>7, <2>8 DEF Frame
<1> QED
  BY <1>1, <1>2, <1>3, <1>4, <1>5

\* Every step keeps the linker's mutex with the thread whose constructors run.
LEMMA NextLinker ==
  ASSUME TypeInv, StackInv, LinkerInv, NEW th \in Thread, Step(th)
  PROVE  LinkerInv'
<1> DEFINE n == Len(local[th].frames)
           Holds(u) == pc[u] = "ctor" \/ Len(local[u].frames) > 1
<1>0. n \in Nat /\ Fits(pc[th], stack[th], n) /\ local[th].frames \in Seq(FrameType)
  BY DEF TypeInv, StackInv, LocalType
<1>1. linker = th <=> pc[th] = "ctor" \/ n > 1
  BY DEF LinkerInv
<1>a. None # th /\ \A u \in Thread \ {th} : u # th /\ u # None
  BY StartupAssumption
<1> DEFINE Goal == /\ linker' # linker => linker \in {None, th} /\ linker' \in {None, th}
                   /\ linker' = th <=> pc'[th] = "ctor" \/ Len(local'[th].frames) > 1
<1>p. ASSUME NEW f PROVE Len(On(f, local[th].frames)) = n + 1
  BY <1>0 DEF On
<1> HIDE DEF n
<1>2. Goal
  <2>1. CASE Plain(th)
    BY <1>1, <2>1 DEF Plain, SameFrames, n
  <2>2. CASE \E l \in Lib : OpenCall(th, l)
    <3>1. PICK f : local'[th].frames = On(f, local[th].frames)
      BY <2>2, OpenStep
    <3>2. /\ pc[th] \in {"idle", "ctor"} /\ pc'[th] # "ctor" /\ linker' = linker
          /\ Len(local'[th].frames) = n + 1
      BY <1>p, <2>2, <3>1, OpenStep
    <3>3. pc[th] = "idle" => n = 0
      BY <1>0 DEF Fits, TopL
    <3>4. pc[th] = "ctor" => n > 0
      BY <1>0 DEF Fits, LinkL
    <3> QED
      BY <1>0, <1>1, <3>2, <3>3, <3>4
  <2>3. CASE \E l \in Lib : CloseCall(th, l)
    <3>1. PICK f : local'[th].frames = On(f, local[th].frames)
      BY <2>3, CloseStep
    <3>2. /\ pc[th] \in {"idle", "ctor"} /\ pc'[th] # "ctor" /\ linker' = linker
          /\ Len(local'[th].frames) = n + 1
      BY <1>p, <2>3, <3>1, CloseStep
    <3>3. pc[th] = "idle" => n = 0
      BY <1>0 DEF Fits, TopL
    <3>4. pc[th] = "ctor" => n > 0
      BY <1>0 DEF Fits, LinkL
    <3> QED
      BY <1>0, <1>1, <3>2, <3>3, <3>4
  <2>4. CASE OpenEnd(th) \/ CloseEnd(th)
    <3>1. /\ pc[th] \in LinkL \ {"ctor"} /\ pc'[th] = (IF n = 1 THEN "idle" ELSE "ctor")
          /\ linker' = linker /\ Len(local'[th].frames) = n - 1
      BY <2>4, EndStep DEF n
    <3>2. n > 0
      BY <1>0, <3>1 DEF Fits
    <3> QED
      BY <1>0, <1>1, <3>1, <3>2
  <2>5. CASE Link(th)
    BY <2>5, InnerStep
  <2>6. CASE Linked(th)
    <3>1. /\ pc[th] = "ctor" /\ pc'[th] # "ctor" /\ SameFrames(th)
          /\ linker' = IF Outer(th) = <<>> THEN None ELSE th
      BY <2>6, InnerStep
    <3>2. Len(Outer(th)) = n - 1 /\ Outer(th) \in Seq(FrameType) /\ n > 0
      BY <1>0, <3>1, HasFrame DEF LinkL, n, Fits
    <3>3. Outer(th) = <<>> <=> n = 1
      BY <1>0, <3>2
    <3>4. Len(local'[th].frames) = n
      BY <3>1 DEF SameFrames, n
    <3> QED
      BY <1>0, <1>1, <1>a, <3>1, <3>2, <3>3, <3>4
  <2>7. CASE Opened(th) \/ Unlink(th) \/ WrLock(th)
    <3>1. pc[th] # "ctor" /\ pc'[th] # "ctor" /\ linker' = linker /\ Len(local'[th].frames) = n
      BY <2>7, InnerStep DEF SameFrames, n
    <3> QED
      BY <1>1, <3>1
  <2> QED
    BY <2>1, <2>2, <2>3, <2>4, <2>5, <2>6, <2>7, NextPlain DEF LinkerStep
<1>3. ASSUME NEW u \in Thread \ {th}
      PROVE  linker' = u <=> pc'[u] = "ctor" \/ Len(local'[u].frames) > 1
  <2>1. pc'[u] = pc[u] /\ local'[u] = local[u]
    BY StepOnly DEF Only
  <2>2. linker' = u <=> linker = u
    BY <1>2, <1>a
  <2> QED
    BY <2>1, <2>2 DEF LinkerInv
<1> QED
  BY <1>2, <1>3 DEF LinkerInv

\* The elements of a sequence with one more in front.
LEMMA OnNext ==
  ASSUME NEW S, NEW s \in Seq(S), NEW f
  PROVE  /\ DOMAIN On(f, s) = 1..Len(s) + 1 /\ Len(s) \in Nat
         /\ \A i \in 1..Len(s) : On(f, s)[i + 1] = s[i]
         /\ Head(On(f, s)) = f
<1>1. On(f, s) \in Seq(S \cup {f}) /\ Len(On(f, s)) = Len(s) + 1 /\ On(f, s)[1] = f
      /\ \A i \in 1..Len(s) : On(f, s)[i + 1] = s[i]
  BY DEF On
<1> QED
  BY <1>1

\* Every step keeps the order of the locks.
LEMMA NextLockOrder ==
  ASSUME TypeInv, StackInv, LinkerInv, LockOrder, NEW th \in Thread, Step(th),
         StackInv', LinkerInv', TypeInv'
  PROVE  LockOrder'
<1> DEFINE Safe(u) == /\ ~setup.compat
                      /\ \E i \in DOMAIN local[u].frames : ~local[u].frames[i].proxy
<1>1. /\ LockOrder <=> \A u \in Thread :
                          linker = u /\ pc[u] \in {"wrlock", "post_rd", "rdlock", "one"} => Safe(u)
      /\ LockOrder' <=> \A u \in Thread :
                          linker' = u /\ pc'[u] \in {"wrlock", "post_rd", "rdlock", "one"} =>
                            Safe(u)'
  BY DEF LockOrder
<1>2. setup' = setup
  BY StepOnly DEF Only
<1>3. ASSUME NEW u \in Thread \ {th}, linker' = u,
             pc'[u] \in {"wrlock", "post_rd", "rdlock", "one"}
      PROVE  Safe(u)'
  <2>1. pc'[u] = pc[u] /\ local'[u] = local[u]
    BY StepOnly DEF Only
  <2>2. linker = u
    BY <1>3, <2>1 DEF LinkerInv
  <2>3. Safe(u)
    BY <1>1, <1>3, <2>1, <2>2
  <2> QED
    BY <1>2, <2>1, <2>3
<1>4. ASSUME linker' = th, pc'[th] \in {"wrlock", "post_rd", "rdlock", "one"}
      PROVE  Safe(th)'
  <2> DEFINE fs == local[th].frames
  <2>0. fs \in Seq(FrameType) /\ Len(fs) \in Nat /\ Fits(pc[th], stack[th], Len(fs))
    BY DEF TypeInv, StackInv, LocalType
  <2>1. pc'[th] \in {"wrlock", "post_rd"}
    <3>1. pc'[th] = "ctor" \/ Len(local'[th].frames) > 1
      BY <1>4 DEF LinkerInv
    <3>2. pc'[th] \in {"rdlock", "one"} => Len(local'[th].frames) = 0
      BY DEF StackInv, Fits, HookL
    <3> QED
      BY <1>4, <3>1, <3>2
  <2>2. ~Plain(th)
    BY <2>1 DEF Plain
  <2>3. (\E l \in Lib : CloseCall(th, l)) \/ Opened(th)
    <3>1. \A l \in Lib : ~OpenCall(th, l)
      BY <2>1, OpenStep
    <3>2. ~OpenEnd(th) /\ ~CloseEnd(th)
      BY <2>1, EndStep
    <3>3. ~Link(th) /\ ~Linked(th) /\ ~Unlink(th) /\ ~WrLock(th)
      BY <2>1, InnerStep
    <3> QED
      BY <2>2, <3>1, <3>2, <3>3, NextPlain DEF LinkerStep
  <2>4. CASE \E l \in Lib : CloseCall(th, l)
    <3>1. /\ pc[th] \in {"idle", "ctor"} /\ linker = th /\ ~InLock(th, fs)
          /\ \E f : local'[th].frames = On(f, fs)
      BY <1>4, <2>1, <2>4, CloseStep
    <3>2. ~setup.compat /\ \A i \in DOMAIN fs : ~fs[i].proxy
      BY <3>1 DEF InLock
    <3>3. Len(fs) > 0
      BY <2>0, <3>1 DEF LinkerInv, Fits, LinkL, TopL
    <3> HIDE DEF fs
    <3>4. PICK f : local'[th].frames = On(f, fs)
      BY <3>1
    <3>5. 2 \in DOMAIN On(f, fs) /\ On(f, fs)[2] = fs[1] /\ 1 \in DOMAIN fs
      <4>1. 1 \in 1..Len(fs) /\ 2 = 1 + 1 /\ 2 \in 1..Len(fs) + 1 /\ 1 \in DOMAIN fs
        BY <2>0, <3>3
      <4> QED
        BY <2>0, <4>1, OnNext
    <3>6. ~local'[th].frames[2].proxy /\ 2 \in DOMAIN local'[th].frames
      BY <3>2, <3>4, <3>5
    <3> QED
      BY <1>2, <3>2, <3>6
  <2>5. CASE Opened(th)
    <3>1. /\ pc[th] = "opened" /\ linker = th /\ ~InLock(th, Outer(th)) /\ SameFrames(th)
      BY <1>4, <2>1, <2>5, InnerStep
    <3>2. ~setup.compat /\ \A i \in DOMAIN Outer(th) : ~Outer(th)[i].proxy
      BY <3>1 DEF InLock
    <3>3. Len(fs) > 1
      BY <3>1 DEF LinkerInv
    <3> HIDE DEF fs
    <3>4. Outer(th) = Tail(fs) /\ local'[th].frames = fs
      BY <3>1 DEF Outer, fs, SameFrames
    <3>5. 2 \in DOMAIN fs /\ 1 \in DOMAIN Tail(fs) /\ Tail(fs)[1] = fs[2]
      BY <2>0, <3>3
    <3>6. ~local'[th].frames[2].proxy /\ 2 \in DOMAIN local'[th].frames
      BY <3>2, <3>4, <3>5
    <3> QED
      BY <1>2, <3>2, <3>6
  <2> QED
    BY <2>3, <2>4, <2>5
<1> HIDE DEF Safe
<1> QED
  BY <1>1, <1>3, <1>4

-----------------------------------------------------------------------------
(* The tree                                                                *)

\* Every step keeps ShutInv, and loses nothing that the tree has.
LEMMA NextShut ==
  ASSUME TypeInv, StackInv, ShutInv, NEW th \in Thread, Step(th)
  PROVE  ShutInv' /\ (Refreshed /\ tree' = tree => Refreshed')
<1>1. setup' = setup /\ \A u \in Thread \ {th} : pc'[u] = pc[u] /\ local'[u] = local[u]
  BY StepOnly DEF Only
<1>2. setup.loaded \subseteq linked \cup budget.shut
  BY DEF ShutInv
<1>3. pc[th] \in CloseL => Frame(th).lib \in budget.shut
  BY DEF ShutInv
<1>4. SameFrames(th) => Frame(th)' = Frame(th)
  BY DEF SameFrames, Frame
<1> DEFINE Goal == /\ budget.shut \subseteq budget'.shut
                   /\ setup.loaded \subseteq linked' \cup budget'.shut
                   /\ setup.loaded \cap linked' \subseteq linked \cup budget'.shut
                   /\ pc'[th] \in CloseL => Frame(th)'.lib \in budget'.shut
<1>5. Goal
  <2>1. CASE Plain(th)
    BY <1>2, <1>3, <1>4, <2>1 DEF Plain
  <2>2. CASE \E l \in Lib : OpenCall(th, l)
    BY <1>2, <2>2, OpenStep DEF CloseL
  <2>3. CASE \E l \in Lib : CloseCall(th, l)
    <3>1. PICK l \in Lib : CloseCall(th, l)
      BY <2>3
    <3>2. PICK f \in FrameType : f.lib = l /\ local'[th].frames = On(f, local[th].frames)
      BY <3>1, CloseStep
    <3>3. local[th].frames \in Seq(FrameType)
      BY DEF TypeInv, LocalType
    <3>4. Frame(th)' = f
      BY <3>2, <3>3, OnNext DEF Frame
    <3>5. linked' = linked /\ budget'.shut = budget.shut \cup {l}
      BY <3>1, CloseStep
    <3> QED
      BY <1>2, <3>2, <3>4, <3>5
  <2>4. CASE OpenEnd(th) \/ CloseEnd(th)
    BY <1>2, <2>4, EndStep DEF CloseL
  <2>5. CASE Link(th)
    <3>1. linked' = linked \cup {Frame(th).lib} /\ budget'.shut = budget.shut /\ pc'[th] = "ctor"
      BY <2>5, InnerStep
    <3> QED
      BY <1>2, <3>1 DEF CloseL
  <2>6. CASE Linked(th) \/ Opened(th)
    <3>1. linked' = linked /\ budget'.shut = budget.shut
          /\ pc'[th] \in {"opened", "open_end", "post_rd", "post"}
      BY <2>6, InnerStep
    <3> QED
      BY <1>2, <3>1 DEF CloseL
  <2>7. CASE Unlink(th)
    <3>1. linked' = linked \ {Frame(th).lib} /\ budget'.shut = budget.shut /\ pc[th] = "unlink"
          /\ SameFrames(th)
      BY <2>7, InnerStep
    <3>2. Frame(th).lib \in budget.shut
      BY <1>3, <3>1 DEF CloseL
    <3> QED
      BY <1>2, <1>4, <3>1, <3>2
  <2>8. CASE WrLock(th)
    <3>1. linked' = linked /\ budget'.shut = budget.shut /\ pc[th] = "wrlock"
          /\ Frame(th)'.lib = Frame(th).lib
      BY <2>8, InnerStep
    <3> QED
      BY <1>2, <1>3, <3>1 DEF CloseL
  <2> QED
    BY <2>1, <2>2, <2>3, <2>4, <2>5, <2>6, <2>7, <2>8, NextPlain DEF LinkerStep
<1>6. ASSUME NEW u \in Thread, pc'[u] \in CloseL PROVE Frame(u)'.lib \in budget'.shut
  <2>1. CASE u = th
    BY <1>5, <1>6, <2>1
  <2>2. CASE u # th
    <3>1. pc'[u] = pc[u] /\ Frame(u)' = Frame(u)
      BY <1>1, <2>2 DEF Frame
    <3> QED
      BY <1>5, <1>6, <3>1 DEF ShutInv
  <2> QED
    BY <2>1, <2>2
<1>7. Refreshed /\ tree' = tree => Refreshed'
  <2>1. Refreshed' <=> setup'.loaded \cap linked' \subseteq tree' \cup budget'.shut
    BY DEF Refreshed
  <2>2. Refreshed <=> setup.loaded \cap linked \subseteq tree \cup budget.shut
    BY DEF Refreshed
  <2> QED
    BY <1>1, <1>5, <2>1, <2>2
<1>8. ShutInv' <=> /\ setup'.loaded \subseteq linked' \cup budget'.shut
                   /\ \A u \in Thread : pc'[u] \in CloseL => Frame(u)'.lib \in budget'.shut
  BY DEF ShutInv
<1> QED
  BY <1>1, <1>5, <1>6, <1>7, <1>8

\* What a refresh has taken in stays taken in.
TreeStep == tree' = tree \/ (tree' = linked /\ linked' = linked)

\* The tree changes only by a refresh, which makes it what the linker has.
LEMMA NextTree ==
  ASSUME NEW th \in Thread, Step(th)
  PROVE  TreeStep
<1> USE DEF elves, TreeStep
<1>1. ASSUME InitCall(th) PROVE TreeStep
  BY <1>1 DEF InitCall
<1>2. ASSUME InitLock(th) PROVE TreeStep
  BY <1>2 DEF InitLock
<1>3. ASSUME InitPart(th) PROVE TreeStep
  BY <1>3 DEF InitPart
<1>4. ASSUME InitEnd(th) PROVE TreeStep
  BY <1>4 DEF InitEnd
<1>5. ASSUME HookCall(th) PROVE TreeStep
  BY <1>5 DEF HookCall
<1>6. ASSUME HookReturn(th) PROVE TreeStep
  BY <1>6 DEF HookReturn
<1>7. ASSUME TmHook(th) PROVE TreeStep
  BY <1>7 DEF TmHook
<1>8. ASSUME OneShot(th) PROVE TreeStep
  BY <1>8 DEF OneShot
<1>9. ASSUME OneLocked(th) PROVE TreeStep
  BY <1>9 DEF OneLocked
<1>10. ASSUME OneRefresh(th) PROVE TreeStep
  BY <1>10 DEF OneRefresh
<1>11. ASSUME OneEnd(th) PROVE TreeStep
  BY <1>11 DEF OneEnd
<1>12. ASSUME RdLock(th) PROVE TreeStep
  BY <1>12 DEF RdLock
<1>13. ASSUME RdUnlock(th) PROVE TreeStep
  BY <1>13 DEF RdUnlock
<1>14. ASSUME TmInit(th) PROVE TreeStep
  BY <1>14 DEF TmInit
<1>15. ASSUME TmLocked(th) PROVE TreeStep
  BY <1>15 DEF TmLocked
<1>16. ASSUME TmStore(th) PROVE TreeStep
  BY <1>16 DEF TmStore
<1>17. ASSUME TmDone(th) PROVE TreeStep
  BY <1>17 DEF TmDone
<1>18. ASSUME DlInit(th) PROVE TreeStep
  BY <1>18 DEF DlInit
<1>19. ASSUME DlLocked(th) PROVE TreeStep
  BY <1>19 DEF DlLocked
<1>20. ASSUME MonHook(th) PROVE TreeStep
  BY <1>20 DEF MonHook
<1>21. ASSUME MonFail(th) PROVE TreeStep
  BY <1>21 DEF MonFail
<1>22. ASSUME MonDone(th) PROVE TreeStep
  BY <1>22 DEF MonDone
<1>23. ASSUME Uninit(th) PROVE TreeStep
  BY <1>23 DEF Uninit
<1>24. ASSUME DlEnd(th) PROVE TreeStep
  BY <1>24 DEF DlEnd
<1>25. ASSUME VisitEnd(th) PROVE TreeStep
  BY <1>25 DEF VisitEnd
<1>26. ASSUME Parse(th) PROVE TreeStep
  BY <1>26 DEF Parse
<1>27. ASSUME Parsed(th) PROVE TreeStep
  BY <1>27 DEF Parsed
<1>28. ASSUME Find(th) PROVE TreeStep
  BY <1>28 DEF Find
<1>29. ASSUME Store(th) PROVE TreeStep
  BY <1>29 DEF Store
<1>30. ASSUME Leave(th) PROVE TreeStep
  BY <1>30 DEF Leave
<1>31. ASSUME Clear(th) PROVE TreeStep
  BY <1>31 DEF Clear
<1>32. ASSUME Free(th) PROVE TreeStep
  BY <1>32 DEF Free
<1>33. ASSUME AddCb(th) PROVE TreeStep
  BY <1>33 DEF AddCb
<1>34. ASSUME Pre(th) PROVE TreeStep
  BY <1>34 DEF Pre
<1>35. ASSUME Post(th) PROVE TreeStep
  BY <1>35 DEF Post
<1>36. ASSUME Link(th) PROVE TreeStep
  BY <1>36 DEF Link
<1>37. ASSUME Linked(th) PROVE TreeStep
  BY <1>37 DEF Linked
<1>38. ASSUME Opened(th) PROVE TreeStep
  BY <1>38 DEF Opened
<1>39. ASSUME PostRdLock(th) PROVE TreeStep
  BY <1>39 DEF PostRdLock
<1>40. ASSUME PostRefresh(th) PROVE TreeStep
  BY <1>40 DEF PostRefresh
<1>41. ASSUME PostEnd(th) PROVE TreeStep
  BY <1>41 DEF PostEnd
<1>42. ASSUME OpenEnd(th) PROVE TreeStep
  BY <1>42 DEF OpenEnd
<1>43. ASSUME WrLock(th) PROVE TreeStep
  BY <1>43 DEF WrLock
<1>44. ASSUME Unlink(th) PROVE TreeStep
  BY <1>44 DEF Unlink
<1>45. ASSUME SyncRefresh(th) PROVE TreeStep
  BY <1>45 DEF SyncRefresh
<1>46. ASSUME CloseEnd(th) PROVE TreeStep
  BY <1>46 DEF CloseEnd
<1>47. ASSUME NEW l \in Lib, Visit(th, l) PROVE TreeStep
  BY <1>47 DEF Visit
<1>48. ASSUME NEW l \in Lib, OpenCall(th, l) PROVE TreeStep
  BY <1>48 DEF OpenCall
<1>49. ASSUME NEW l \in Lib, CloseCall(th, l) PROVE TreeStep
  BY <1>49 DEF CloseCall
<1>50. ASSUME NEW j \in 1..SlotMax, Claim(th, j) PROVE TreeStep
  BY <1>50 DEF Claim
<1>51. ASSUME NEW s \in Range(Signals), Handler(th, s) PROVE TreeStep
  BY <1>51 DEF Handler
<1>52. ASSUME NEW c \in Callbacks, AddCallback(th, c) PROVE TreeStep
  BY <1>52 DEF AddCallback
<1>53. ASSUME NEW c \in Callbacks, DelCallback(th, c) PROVE TreeStep
  BY <1>53 DEF DelCallback
<1> QED
  BY <1>1, <1>2, <1>3, <1>4, <1>5, <1>6, <1>7, <1>8, <1>9, <1>10, <1>11, <1>12, <1>13,
     <1>14, <1>15, <1>16, <1>17, <1>18, <1>19, <1>20, <1>21, <1>22, <1>23, <1>24, <1>25,
     <1>26, <1>27, <1>28, <1>29, <1>30, <1>31, <1>32, <1>33, <1>34, <1>35, <1>36, <1>37,
     <1>38, <1>39, <1>40, <1>41, <1>42, <1>43, <1>44, <1>45, <1>46, <1>47, <1>48, <1>49,
     <1>50, <1>51, <1>52, <1>53
     DEF Step

\* A refresh puts what was loaded at the start into the tree, and it stays.
LEMMA NextRefreshed ==
  ASSUME TypeInv, StackInv, ShutInv, NEW th \in Thread, Step(th)
  PROVE  /\ Refreshed => Refreshed'
         /\ tree' = linked /\ linked' = linked => Refreshed'
<1>1. tree' = linked /\ linked' = linked => Refreshed'
  BY DEF Refreshed
<1>2. TreeStep
  BY NextTree
<1>3. Refreshed /\ tree' = tree => Refreshed'
  BY NextShut
<1> QED
  BY <1>1, <1>2, <1>3 DEF TreeStep

-----------------------------------------------------------------------------
(* bh_core_init                                                            *)

\* Every step keeps the parts of bh_core_init before their users.
LEMMA NextCore ==
  ASSUME TypeInv, CoreInv, NEW th \in Thread, Step(th)
  PROVE  CoreInv'
<1>0. core \in [status : {"UNINIT", "OK"} \cup Parts, parts : SUBSET Parts,
                 lock : Thread \cup {None}]
  BY DEF TypeInv
<1>u. UNCHANGED <<core, listed>> => CoreInv'
  BY DEF CoreInv
<1> USE DEF inits, history
<1>1. ASSUME InitCall(th) PROVE CoreInv'
  BY <1>1, <1>u DEF InitCall
<1>2. ASSUME InitLock(th) PROVE CoreInv'
  <2>1. core'.status = core.status /\ core'.parts = core.parts /\ listed' = listed
    BY <1>2, <1>0 DEF InitLock
  <2> QED
    BY <2>1 DEF CoreInv
<1>3. ASSUME InitPart(th) PROVE CoreInv'
  <2> DEFINE part == PartSeq[CHOOSE i \in Missing : \A j \in Missing : i <= j]
  <2>1. part \in Parts /\ listed' = listed
    BY <1>3, NextPart DEF InitPart
  <2>2. core.status = "UNINIT"
        /\ \/ core' = [core EXCEPT !.parts = @ \cup {part}]
           \/ core' = [core EXCEPT !.status = part]
    BY <1>3 DEF InitPart
  <2>3. "OK" \notin Parts
    BY DEF Parts
  <2> HIDE DEF part
  <2>4. core'.status # "OK" /\ core.parts \subseteq core'.parts /\ core'.parts \subseteq Parts
    BY <1>0, <2>1, <2>2, <2>3
  <2> QED
    BY <2>1, <2>4 DEF CoreInv
<1>4. ASSUME InitEnd(th) PROVE CoreInv'
  <2>1. /\ core.status # "UNINIT" \/ Missing = {}
        /\ core'.status = IF core.status = "UNINIT" THEN "OK" ELSE core.status
        /\ core'.parts = core.parts /\ listed' = listed
    BY <1>4, <1>0 DEF InitEnd
  <2>2. ASSUME Missing = {} PROVE core.parts = Parts
    <3>1. DOMAIN PartSeq = {1, 2, 3, 4, 5, 6, 7}
      BY DEF PartSeq
    <3>2. \A i \in {1, 2, 3, 4, 5, 6, 7} : PartSeq[i] \in core.parts
      BY <2>2, <3>1 DEF Missing
    <3>3. \A x \in Parts : \E i \in {1, 2, 3, 4, 5, 6, 7} : x = PartSeq[i]
      BY DEF Parts, PartSeq
    <3> QED
      BY <1>0, <3>2, <3>3
  <2> QED
    BY <2>1, <2>2 DEF CoreInv
<1>5. ASSUME HookCall(th) PROVE CoreInv'
  <2>1. core' = core /\ core.status = "OK"
    BY <1>5 DEF HookCall
  <2> QED
    BY <2>1 DEF CoreInv
<1>6. ASSUME HookReturn(th) PROVE CoreInv'
  BY <1>6, <1>u DEF HookReturn
<1>7. ASSUME TmHook(th) PROVE CoreInv'
  BY <1>7, <1>u DEF TmHook
<1>8. ASSUME OneShot(th) PROVE CoreInv'
  BY <1>8, <1>u DEF OneShot
<1>9. ASSUME OneLocked(th) PROVE CoreInv'
  BY <1>9, <1>u DEF OneLocked
<1>10. ASSUME OneRefresh(th) PROVE CoreInv'
  BY <1>10, <1>u DEF OneRefresh
<1>11. ASSUME OneEnd(th) PROVE CoreInv'
  BY <1>11, <1>u DEF OneEnd
<1>12. ASSUME RdLock(th) PROVE CoreInv'
  BY <1>12, <1>u DEF RdLock
<1>13. ASSUME RdUnlock(th) PROVE CoreInv'
  BY <1>13, <1>u DEF RdUnlock
<1>14. ASSUME TmInit(th) PROVE CoreInv'
  BY <1>14, <1>u DEF TmInit
<1>15. ASSUME TmLocked(th) PROVE CoreInv'
  BY <1>15, <1>u DEF TmLocked
<1>16. ASSUME TmStore(th) PROVE CoreInv'
  BY <1>16, <1>u DEF TmStore
<1>17. ASSUME TmDone(th) PROVE CoreInv'
  BY <1>17, <1>u DEF TmDone
<1>18. ASSUME DlInit(th) PROVE CoreInv'
  BY <1>18, <1>u DEF DlInit
<1>19. ASSUME DlLocked(th) PROVE CoreInv'
  BY <1>19, <1>u DEF DlLocked
<1>20. ASSUME MonHook(th) PROVE CoreInv'
  BY <1>20, <1>u DEF MonHook
<1>21. ASSUME MonFail(th) PROVE CoreInv'
  BY <1>21, <1>u DEF MonFail
<1>22. ASSUME MonDone(th) PROVE CoreInv'
  BY <1>22, <1>u DEF MonDone
<1>23. ASSUME Uninit(th) PROVE CoreInv'
  BY <1>23, <1>u DEF Uninit
<1>24. ASSUME DlEnd(th) PROVE CoreInv'
  BY <1>24, <1>u DEF DlEnd
<1>25. ASSUME VisitEnd(th) PROVE CoreInv'
  BY <1>25, <1>u DEF VisitEnd
<1>26. ASSUME Parse(th) PROVE CoreInv'
  BY <1>26, <1>u DEF Parse
<1>27. ASSUME Parsed(th) PROVE CoreInv'
  BY <1>27, <1>u DEF Parsed
<1>28. ASSUME Find(th) PROVE CoreInv'
  BY <1>28, <1>u DEF Find
<1>29. ASSUME Store(th) PROVE CoreInv'
  BY <1>29, <1>u DEF Store
<1>30. ASSUME Leave(th) PROVE CoreInv'
  BY <1>30, <1>u DEF Leave
<1>31. ASSUME Clear(th) PROVE CoreInv'
  BY <1>31, <1>u DEF Clear
<1>32. ASSUME Free(th) PROVE CoreInv'
  BY <1>32, <1>u DEF Free
<1>33. ASSUME AddCb(th) PROVE CoreInv'
  BY <1>33, <1>u DEF AddCb
<1>34. ASSUME Pre(th) PROVE CoreInv'
  BY <1>34, <1>u DEF Pre
<1>35. ASSUME Post(th) PROVE CoreInv'
  BY <1>35, <1>u DEF Post
<1>36. ASSUME Link(th) PROVE CoreInv'
  BY <1>36, <1>u DEF Link
<1>37. ASSUME Linked(th) PROVE CoreInv'
  BY <1>37, <1>u DEF Linked
<1>38. ASSUME Opened(th) PROVE CoreInv'
  BY <1>38, <1>u DEF Opened
<1>39. ASSUME PostRdLock(th) PROVE CoreInv'
  BY <1>39, <1>u DEF PostRdLock
<1>40. ASSUME PostRefresh(th) PROVE CoreInv'
  BY <1>40, <1>u DEF PostRefresh
<1>41. ASSUME PostEnd(th) PROVE CoreInv'
  BY <1>41, <1>u DEF PostEnd
<1>42. ASSUME OpenEnd(th) PROVE CoreInv'
  BY <1>42, <1>u DEF OpenEnd
<1>43. ASSUME WrLock(th) PROVE CoreInv'
  BY <1>43, <1>u DEF WrLock
<1>44. ASSUME Unlink(th) PROVE CoreInv'
  BY <1>44, <1>u DEF Unlink
<1>45. ASSUME SyncRefresh(th) PROVE CoreInv'
  BY <1>45, <1>u DEF SyncRefresh
<1>46. ASSUME CloseEnd(th) PROVE CoreInv'
  BY <1>46, <1>u DEF CloseEnd
<1>47. ASSUME NEW l \in Lib, Visit(th, l) PROVE CoreInv'
  BY <1>47, <1>u DEF Visit
<1>48. ASSUME NEW l \in Lib, OpenCall(th, l) PROVE CoreInv'
  BY <1>48, <1>u DEF OpenCall
<1>49. ASSUME NEW l \in Lib, CloseCall(th, l) PROVE CoreInv'
  BY <1>49, <1>u DEF CloseCall
<1>50. ASSUME NEW j \in 1..SlotMax, Claim(th, j) PROVE CoreInv'
  BY <1>50, <1>u DEF Claim
<1>51. ASSUME NEW s \in Range(Signals), Handler(th, s) PROVE CoreInv'
  BY <1>51, <1>u DEF Handler
<1>52. ASSUME NEW c \in Callbacks, AddCallback(th, c) PROVE CoreInv'
  BY <1>52, <1>u DEF AddCallback
<1>53. ASSUME NEW c \in Callbacks, DelCallback(th, c) PROVE CoreInv'
  BY <1>53, <1>u DEF DelCallback
<1> QED
  BY <1>1, <1>2, <1>3, <1>4, <1>5, <1>6, <1>7, <1>8, <1>9, <1>10, <1>11, <1>12, <1>13,
     <1>14, <1>15, <1>16, <1>17, <1>18, <1>19, <1>20, <1>21, <1>22, <1>23, <1>24, <1>25,
     <1>26, <1>27, <1>28, <1>29, <1>30, <1>31, <1>32, <1>33, <1>34, <1>35, <1>36, <1>37,
     <1>38, <1>39, <1>40, <1>41, <1>42, <1>43, <1>44, <1>45, <1>46, <1>47, <1>48, <1>49,
     <1>50, <1>51, <1>52, <1>53
     DEF Step

-----------------------------------------------------------------------------
(* The start of the monitor                                                *)

\* Where a step goes, with what is on the stack.
LEMMA StackMoves ==
  ASSUME TypeInv, StackInv, NEW th \in Thread
  PROVE  /\ \A l : Goto(th, l) => pc'[th] = l /\ Range(stack'[th]) = Range(stack[th])
         /\ \A l, back \in Label : Gosub(th, l, back) =>
               pc'[th] = l /\ \A y : y \in Range(stack'[th]) <=> y = back \/ y \in Range(stack[th])
         /\ Return(th) /\ pc[th] \notin TopL =>
               /\ pc'[th] \in Range(stack[th]) /\ pc'[th] \in Backs
               /\ \A y : y \in Range(stack'[th]) => y \in Range(stack[th])
         /\ UNCHANGED <<pc, stack>> => pc'[th] = pc[th] /\ Range(stack'[th]) = Range(stack[th])
<1>T. pc \in [Thread -> Label] /\ stack \in [Thread -> Seq(Label)]
  BY DEF TypeInv
<1>1. ASSUME NEW l, Goto(th, l) PROVE pc'[th] = l /\ stack'[th] = stack[th]
  BY <1>1, Moves
<1>2. ASSUME NEW l \in Label, NEW back \in Label, Gosub(th, l, back)
      PROVE  pc'[th] = l /\ \A y : y \in Range(stack'[th]) <=> y = back \/ y \in Range(stack[th])
  <2>1. pc'[th] = l /\ stack'[th] = On(back, stack[th])
    BY <1>2, Moves
  <2>2. \A y : y \in Range(On(back, stack[th])) <=> y = back \/ y \in Range(stack[th])
    BY <1>T, PushPop
  <2> QED
    BY <2>1, <2>2
<1>3. ASSUME Return(th), pc[th] \notin TopL
      PROVE  /\ pc'[th] \in Range(stack[th]) /\ pc'[th] \in Backs
             /\ \A y : y \in Range(stack'[th]) => y \in Range(stack[th])
  <2>1. pc'[th] = Head(stack[th]) /\ stack'[th] = Tail(stack[th])
    BY <1>3, Moves
  <2>2. stack[th] # <<>> /\ Head(stack[th]) \in Backs
    BY <1>3, CanReturn
  <2>3. \A y : y \in Range(stack[th]) <=> y = Head(stack[th]) \/ y \in Range(Tail(stack[th]))
    BY <1>T, <2>2, TailRange
  <2> QED
    BY <2>1, <2>2, <2>3
<1>4. UNCHANGED <<pc, stack>> => pc'[th] = pc[th] /\ Range(stack'[th]) = Range(stack[th])
  OBVIOUS
<1>5. \A l : Goto(th, l) => pc'[th] = l /\ Range(stack'[th]) = Range(stack[th])
  BY <1>1
<1>6. \A l, back \in Label : Gosub(th, l, back) =>
         pc'[th] = l /\ \A y : y \in Range(stack'[th]) <=> y = back \/ y \in Range(stack[th])
  BY <1>2
<1> QED
  BY <1>3, <1>4, <1>5, <1>6

\* A thread that is starting the monitor, or hooks a function for it.
Starting(th) == pc[th] \in DlL \ {"dl_init"} \/ "mon" \in Range(stack[th])

\* A step that is not the first one of a start, nor the last.
Inside(th) == /\ dl'.lock = dl.lock /\ dl'.initing = dl.initing
              /\ Starting(th)' => Starting(th)

\* Only the monitor's start and its end change the start lock and initing.
LEMMA NextInside ==
  ASSUME TypeInv, StackInv, NEW th \in Thread, Step(th)
  PROVE  Inside(th) \/ DlInit(th) \/ DlEnd(th)
<1>s. /\ Starting(th)' <=> pc'[th] \in {"dl_locked", "mon", "uninit", "dl_end"}
                           \/ "mon" \in Range(stack'[th])
      /\ Starting(th) <=> pc[th] \in {"dl_locked", "mon", "uninit", "dl_end"}
                          \/ "mon" \in Range(stack[th])
  BY DEF Starting, DlL
<1>d. dl \in [inited : BOOLEAN, ok : BOOLEAN, initing : BOOLEAN, lock : Thread \cup {None}]
  BY DEF TypeInv
<1>g. \A l : Goto(th, l) => pc'[th] = l /\ Range(stack'[th]) = Range(stack[th])
  BY StackMoves
<1>c. \A l, back \in Label : Gosub(th, l, back) =>
         pc'[th] = l /\ \A y : y \in Range(stack'[th]) <=> y = back \/ y \in Range(stack[th])
  BY StackMoves
<1>t. Return(th) /\ pc[th] \notin TopL =>
         /\ pc'[th] \in Range(stack[th])
         /\ pc'[th] \in {"idle", "ctor", "hooked", "tm_store", "mon", "add_cb", "one_end",
                         "rdunlock", "post_end", "parsed"}
         /\ \A y : y \in Range(stack'[th]) => y \in Range(stack[th])
  BY StackMoves DEF Backs
<1>u. UNCHANGED <<pc, stack>> => pc'[th] = pc[th] /\ Range(stack'[th]) = Range(stack[th])
  BY StackMoves
<1>l. pc[th] \in {"parts", "tm_init", "tm_locked", "tm_done", "one_end", "rdunlock", "dl_init",
                  "dl_end", "visit", "free", "open_end", "close_end"} => pc[th] \notin TopL
  BY DEF TopL
<1>k. {"idle", "ctor", "hooked", "tm_store", "mon", "add_cb", "one_end", "rdunlock", "post_end",
       "parsed", "init", "tm_hook", "dl_init", "visit", "claim", "pre", "link", "wrlock", "unlink"}
         \subseteq Label
  BY DEF Label, TopL, InitL, TmL, HookL, DlL, VisitL, SectionL, LinkL
<1>i. Inside(th) <=> /\ dl'.lock = dl.lock /\ dl'.initing = dl.initing
                     /\ Starting(th)' => Starting(th)
  BY DEF Inside
<1> USE DEF inits, Call
<1>1. ASSUME InitCall(th) PROVE Inside(th)
  BY <1>1, <1>c, <1>k, <1>s, <1>i DEF InitCall
<1>2. ASSUME InitLock(th) PROVE Inside(th)
  BY <1>2, <1>g, <1>s, <1>i DEF InitLock
<1>3. ASSUME InitPart(th) PROVE Inside(th)
  BY <1>3, <1>u, <1>s, <1>i DEF InitPart
<1>4. ASSUME InitEnd(th) PROVE Inside(th)
  BY <1>4, <1>t, <1>l, <1>s, <1>i DEF InitEnd
<1>5. ASSUME HookCall(th) PROVE Inside(th)
  BY <1>5, <1>c, <1>k, <1>s, <1>i DEF HookCall
<1>6. ASSUME HookReturn(th) PROVE Inside(th)
  BY <1>6, <1>g, <1>s, <1>i DEF HookReturn
<1>7. ASSUME TmHook(th) PROVE Inside(th)
  BY <1>7, <1>g, <1>s, <1>i DEF TmHook
<1>8. ASSUME OneShot(th) PROVE Inside(th)
  BY <1>8, <1>g, <1>s, <1>i DEF OneShot
<1>9. ASSUME OneLocked(th) PROVE Inside(th)
  BY <1>9, <1>g, <1>s, <1>i DEF OneLocked
<1>10. ASSUME OneRefresh(th) PROVE Inside(th)
  BY <1>10, <1>c, <1>k, <1>s, <1>i DEF OneRefresh
<1>11. ASSUME OneEnd(th) PROVE Inside(th)
  BY <1>11, <1>t, <1>l, <1>s, <1>i DEF OneEnd
<1>12. ASSUME RdLock(th) PROVE Inside(th)
  BY <1>12, <1>c, <1>k, <1>s, <1>i DEF RdLock
<1>13. ASSUME RdUnlock(th) PROVE Inside(th)
  BY <1>13, <1>t, <1>l, <1>s, <1>i DEF RdUnlock
<1>14. ASSUME TmInit(th) PROVE Inside(th)
  BY <1>14, <1>g, <1>c, <1>k, <1>t, <1>l, <1>s, <1>i DEF TmInit, TmResult
<1>15. ASSUME TmLocked(th) PROVE Inside(th)
  BY <1>15, <1>g, <1>c, <1>k, <1>t, <1>l, <1>s, <1>i DEF TmLocked, TmResult
<1>16. ASSUME TmStore(th) PROVE Inside(th)
  BY <1>16, <1>g, <1>s, <1>i DEF TmStore
<1>17. ASSUME TmDone(th) PROVE Inside(th)
  BY <1>17, <1>g, <1>c, <1>k, <1>t, <1>l, <1>s, <1>i DEF TmDone, TmResult
<1>18. ASSUME DlLocked(th) PROVE Inside(th)
  BY <1>18, <1>d, <1>g, <1>s, <1>i DEF DlLocked
<1>19. ASSUME MonHook(th) PROVE Inside(th)
  BY <1>19, <1>c, <1>k, <1>s, <1>i DEF MonHook
<1>20. ASSUME MonFail(th) PROVE Inside(th)
  BY <1>20, <1>g, <1>s, <1>i DEF MonFail
<1>21. ASSUME MonDone(th) PROVE Inside(th)
  BY <1>21, <1>d, <1>g, <1>s, <1>i DEF MonDone
<1>22. ASSUME Uninit(th) PROVE Inside(th)
  BY <1>22, <1>g, <1>u, <1>s, <1>i DEF Uninit
<1>23. ASSUME VisitEnd(th) PROVE Inside(th)
  BY <1>23, <1>t, <1>l, <1>s, <1>i DEF VisitEnd
<1>24. ASSUME Parse(th) PROVE Inside(th)
  BY <1>24, <1>g, <1>c, <1>k, <1>s, <1>i DEF Parse
<1>25. ASSUME Parsed(th) PROVE Inside(th)
  BY <1>25, <1>g, <1>s, <1>i DEF Parsed
<1>26. ASSUME Find(th) PROVE Inside(th)
  BY <1>26, <1>g, <1>s, <1>i DEF Find
<1>27. ASSUME Store(th) PROVE Inside(th)
  <2>1. /\ pc[th] = "store" /\ dl' = dl
        /\ IF Len(local[th].sigs) = 1 THEN Goto(th, "section") ELSE Goto(th, "claim")
    BY <1>27 DEF Store, NextSignal
  <2> QED
    BY <2>1, <1>g, <1>s, <1>i
<1>28. ASSUME Leave(th) PROVE Inside(th)
  BY <1>28, <1>g, <1>s, <1>i DEF Leave
<1>29. ASSUME Clear(th) PROVE Inside(th)
  BY <1>29, <1>g, <1>s, <1>i DEF Clear
<1>30. ASSUME Free(th) PROVE Inside(th)
  <2>1. /\ pc[th] = "free" /\ dl' = dl
        /\ IF Len(local[th].sigs) = 1 THEN Return(th) ELSE Goto(th, "clear")
    BY <1>30 DEF Free, NextSignal
  <2> QED
    BY <2>1, <1>g, <1>t, <1>l, <1>s, <1>i
<1>31. ASSUME AddCb(th) PROVE Inside(th)
  BY <1>31, <1>g, <1>s, <1>i DEF AddCb
<1>32. ASSUME Pre(th) PROVE Inside(th)
  BY <1>32, <1>g, <1>s, <1>i DEF Pre, CallCb
<1>33. ASSUME Post(th) PROVE Inside(th)
  BY <1>33, <1>g, <1>s, <1>i DEF Post, CallCb
<1>34. ASSUME Link(th) PROVE Inside(th)
  BY <1>34, <1>g, <1>s, <1>i DEF Link
<1>35. ASSUME Linked(th) PROVE Inside(th)
  BY <1>35, <1>g, <1>s, <1>i DEF Linked
<1>36. ASSUME Opened(th) PROVE Inside(th)
  BY <1>36, <1>g, <1>s, <1>i DEF Opened
<1>37. ASSUME PostRdLock(th) PROVE Inside(th)
  BY <1>37, <1>g, <1>s, <1>i DEF PostRdLock
<1>38. ASSUME PostRefresh(th) PROVE Inside(th)
  BY <1>38, <1>c, <1>k, <1>s, <1>i DEF PostRefresh
<1>39. ASSUME PostEnd(th) PROVE Inside(th)
  BY <1>39, <1>g, <1>s, <1>i DEF PostEnd
<1>40. ASSUME OpenEnd(th) PROVE Inside(th)
  BY <1>40, <1>t, <1>l, <1>s, <1>i DEF OpenEnd
<1>41. ASSUME WrLock(th) PROVE Inside(th)
  BY <1>41, <1>g, <1>s, <1>i DEF WrLock
<1>42. ASSUME Unlink(th) PROVE Inside(th)
  BY <1>42, <1>g, <1>s, <1>i DEF Unlink
<1>43. ASSUME SyncRefresh(th) PROVE Inside(th)
  BY <1>43, <1>g, <1>s, <1>i DEF SyncRefresh
<1>44. ASSUME CloseEnd(th) PROVE Inside(th)
  BY <1>44, <1>t, <1>l, <1>s, <1>i DEF CloseEnd
<1>45. ASSUME NEW l \in Lib, Visit(th, l) PROVE Inside(th)
  BY <1>45, <1>g, <1>u, <1>s, <1>i DEF Visit
<1>46. ASSUME NEW l \in Lib, OpenCall(th, l) PROVE Inside(th)
  BY <1>46, <1>c, <1>k, <1>s, <1>i DEF OpenCall, LinkerCall
<1>47. ASSUME NEW l \in Lib, CloseCall(th, l) PROVE Inside(th)
  BY <1>47, <1>c, <1>k, <1>s, <1>i DEF CloseCall, LinkerCall
<1>48. ASSUME NEW j \in 1..SlotMax, Claim(th, j) PROVE Inside(th)
  BY <1>48, <1>g, <1>s, <1>i DEF Claim
<1>49. ASSUME NEW s \in Range(Signals), Handler(th, s) PROVE Inside(th)
  BY <1>49, <1>g, <1>s, <1>i DEF Handler
<1>50. ASSUME NEW c \in Callbacks, AddCallback(th, c) PROVE Inside(th)
  BY <1>50, <1>c, <1>k, <1>s, <1>i DEF AddCallback
<1>51. ASSUME NEW c \in Callbacks, DelCallback(th, c) PROVE Inside(th)
  BY <1>51, <1>u, <1>s, <1>i DEF DelCallback
<1> QED
  BY <1>1, <1>2, <1>3, <1>4, <1>5, <1>6, <1>7, <1>8, <1>9, <1>10, <1>11, <1>12, <1>13,
     <1>14, <1>15, <1>16, <1>17, <1>18, <1>19, <1>20, <1>21, <1>22, <1>23, <1>24, <1>25,
     <1>26, <1>27, <1>28, <1>29, <1>30, <1>31, <1>32, <1>33, <1>34, <1>35, <1>36, <1>37,
     <1>38, <1>39, <1>40, <1>41, <1>42, <1>43, <1>44, <1>45, <1>46, <1>47, <1>48, <1>49,
     <1>50, <1>51
     DEF Step

\* Every step keeps the monitor's start exclusive.
LEMMA NextDl ==
  ASSUME TypeInv, StackInv, DlInv, NEW th \in Thread, Step(th)
  PROVE  DlInv'
<1>s. /\ DlInv <=> \A u \in Thread : Starting(u) => dl.lock = u /\ dl.initing
      /\ DlInv' <=> \A u \in Thread : Starting(u)' => dl'.lock = u /\ dl'.initing
  BY DEF DlInv, Starting
<1>o. ASSUME NEW u \in Thread \ {th} PROVE Starting(u)' <=> Starting(u)
  <2>1. pc'[u] = pc[u] /\ stack'[u] = stack[u]
    BY StepOnly DEF Only
  <2> QED
    BY <2>1 DEF Starting
<1>d. dl \in [inited : BOOLEAN, ok : BOOLEAN, initing : BOOLEAN, lock : Thread \cup {None}]
  BY DEF TypeInv
<1>a. None \notin Thread
  BY StartupAssumption
<1>t. pc[th] \in DlL =>
         /\ "mon" \notin Range(stack[th]) /\ stack[th] \in Starts
         /\ Head(stack[th]) \in {"tm_store", "add_cb"} /\ "mon" \notin Range(Tail(stack[th]))
  <2>1. pc[th] \in DlL => stack[th] \in Starts
    BY DEF StackInv, Fits
  <2>2. \A s \in Starts : /\ "mon" \notin Range(s) /\ Head(s) \in {"tm_store", "add_cb"}
                         /\ "mon" \notin Range(Tail(s))
    <3>1. "mon" \notin Range(<<>>)
      BY DEF Range
    <3> QED
      BY <3>1, StackFacts
  <2> QED
    BY <2>1, <2>2
<1>r. ASSUME pc[th] \in DlL, Return(th) PROVE ~Starting(th)'
  <2>1. pc'[th] = Head(stack[th]) /\ stack'[th] = Tail(stack[th])
    BY <1>r, Moves
  <2>2. pc'[th] \in {"tm_store", "add_cb"} /\ "mon" \notin Range(stack'[th])
    BY <1>r, <1>t, <2>1
  <2> QED
    BY <2>2 DEF Starting, DlL
<1>1. CASE Inside(th)
  BY <1>1, <1>o, <1>s DEF Inside
<1>2. CASE DlInit(th)
  <2>1. CASE dl.inited
    <3>1. pc[th] = "dl_init" /\ Return(th) /\ dl' = dl
      BY <1>2, <2>1 DEF DlInit
    <3>2. ~Starting(th)'
      BY <1>r, <3>1 DEF DlL
    <3> QED
      BY <1>o, <1>s, <3>1, <3>2
  <2>2. CASE ~dl.inited
    <3>1. dl.lock = None /\ dl' = [dl EXCEPT !.lock = th, !.initing = TRUE]
      BY <1>2, <2>2 DEF DlInit
    <3>2. dl'.lock = th /\ dl'.initing
      BY <1>d, <3>1
    <3>3. \A u \in Thread : ~Starting(u)
      BY <1>a, <1>s, <3>1
    <3> QED
      BY <1>o, <1>s, <3>2, <3>3
  <2> QED
    BY <2>1, <2>2
<1>3. CASE DlEnd(th)
  <2>1. pc[th] = "dl_end" /\ Return(th)
    BY <1>3 DEF DlEnd
  <2>2. Starting(th) /\ ~Starting(th)'
    BY <1>r, <2>1 DEF DlL, Starting
  <2>3. \A u \in Thread \ {th} : ~Starting(u)
    BY <1>s, <2>2
  <2> QED
    BY <1>o, <1>s, <2>2, <2>3
<1> QED
  BY <1>1, <1>2, <1>3, NextInside

-----------------------------------------------------------------------------
(* A pass finds what was loaded                                            *)

\* Where each call returns to.
LEMMA ReturnsTo ==
  ASSUME TypeInv, StackInv, NEW th \in Thread, Return(th)
  PROVE  /\ pc[th] \in TmL => pc'[th] = "hooked"
         /\ pc[th] \in DlL => pc'[th] \in {"tm_store", "add_cb"}
         /\ pc[th] \in HookL => pc'[th] \in {"hooked", "mon"}
         /\ pc[th] \in InitL => pc'[th] = "idle"
         /\ pc[th] \in VisitL => pc'[th] \in {"one_end", "rdunlock", "post_end"}
         /\ pc[th] \in SectionL => pc'[th] = "parsed"
         /\ pc[th] \in LinkL => pc'[th] \in {"idle", "ctor"}
<1>0. /\ pc[th] \in Label /\ stack[th] \in Seq(Label) /\ Len(local[th].frames) \in Nat
      /\ Fits(pc[th], stack[th], Len(local[th].frames))
  BY DEF TypeInv, StackInv, LocalType
<1>1. pc'[th] = Head(stack[th])
  BY Moves
<1>2. CASE pc[th] \in TopL
  BY <1>2 DEF TopL, InitL, TmL, HookL, DlL, VisitL, SectionL, LinkL
<1>3. CASE pc[th] \notin TopL
  <2>1. /\ pc[th] \in TmL => Head(stack[th]) = "hooked"
        /\ pc[th] \in DlL => Head(stack[th]) \in {"tm_store", "add_cb"}
        /\ pc[th] \in HookL => Head(stack[th]) \in {"hooked", "mon"}
        /\ pc[th] \in InitL => Head(stack[th]) = "idle"
        /\ pc[th] \in VisitL => Head(stack[th]) \in {"one_end", "rdunlock", "post_end"}
        /\ pc[th] \in SectionL => Head(stack[th]) = "parsed"
        /\ pc[th] \in LinkL => Head(stack[th]) \in {"idle", "ctor"}
    BY <1>0, <1>3, ReturnFits
  <2> QED
    BY <1>1, <2>1
<1> QED
  BY <1>2, <1>3

\* What is asked of one thread.
Passing == {"rdlock", "rdunlock", "one_end"}
RefreshAt(th) ==
    /\ pc[th] \in Passing \/ (\E l \in Passing : l \in Range(stack[th])) => Refreshed
    /\ pc[th] \in {"tm_store", "tm_done", "dl_end"} /\ local[th].res => Refreshed
    /\ pc[th] = "mon" /\ local[th].todo # StubSeq => Refreshed
Started == one.done \/ dl.ok \/ tm.ok

\* After its step, the thread has refreshed wherever its label says so.
LEMMA NextRefreshAt ==
  ASSUME TypeInv, StackInv, ShutInv, RefreshInv, NEW th \in Thread, Step(th)
  PROVE  RefreshAt(th)' /\ (Started' => Refreshed')
<1> DEFINE Goal ==
      /\ pc'[th] \in Passing \/ (\E l \in Passing : l \in Range(stack'[th])) => Refreshed'
      /\ pc'[th] \in {"tm_store", "tm_done", "dl_end"} /\ local'[th].res => Refreshed'
      /\ pc'[th] = "mon" /\ local'[th].todo # StubSeq' => Refreshed'
      /\ one'.done \/ dl'.ok \/ tm'.ok => Refreshed'
<1>G. Goal => RefreshAt(th)' /\ (Started' => Refreshed')
  BY DEF RefreshAt, Started
<1>n. (Refreshed => Refreshed') /\ (tree' = linked /\ linked' = linked => Refreshed')
  BY NextRefreshed
<1>a. one.done \/ dl.ok \/ tm.ok => Refreshed'
  BY <1>n DEF RefreshInv
<1>b. pc[th] \in Passing \/ (\E l \in Passing : l \in Range(stack[th])) => Refreshed'
  <2>1. pc[th] \in Passing \/ (\E l \in Passing : l \in Range(stack[th])) =>
          {"rdlock", "rdunlock", "one_end"} \cap Labels(th) # {}
    BY DEF Passing, Labels
  <2> QED
    BY <1>n, <2>1 DEF RefreshInv
<1>c. pc[th] \in {"tm_store", "tm_done", "dl_end"} /\ local[th].res => Refreshed'
  BY <1>n DEF RefreshInv
<1>d. pc[th] = "mon" /\ local[th].todo # StubSeq => Refreshed'
  BY <1>n DEF RefreshInv
<1>T. /\ local \in [Thread -> LocalType]
      /\ dl \in [inited : BOOLEAN, ok : BOOLEAN, initing : BOOLEAN, lock : Thread \cup {None}]
      /\ tm \in [inited : BOOLEAN, ok : BOOLEAN, posts : BOOLEAN, lock : Thread \cup {None}]
      /\ one \in [done : BOOLEAN, lock : Thread \cup {None}]
      /\ local[th].res \in BOOLEAN
  BY DEF TypeInv, LocalType
<1>g. \A l : Goto(th, l) => pc'[th] = l /\ Range(stack'[th]) = Range(stack[th])
  BY StackMoves
<1>c2. \A l, back \in Label : Gosub(th, l, back) =>
         pc'[th] = l /\ \A y : y \in Range(stack'[th]) <=> y = back \/ y \in Range(stack[th])
  BY StackMoves
<1>t. Return(th) /\ pc[th] \notin TopL =>
         /\ pc'[th] \in Range(stack[th])
         /\ \A y : y \in Range(stack'[th]) => y \in Range(stack[th])
  BY StackMoves
<1>r. Return(th) =>
         /\ pc[th] \in TmL => pc'[th] = "hooked"
         /\ pc[th] \in DlL => pc'[th] \in {"tm_store", "add_cb"}
         /\ pc[th] \in HookL => pc'[th] \in {"hooked", "mon"}
         /\ pc[th] \in InitL => pc'[th] = "idle"
         /\ pc[th] \in VisitL => pc'[th] \in {"one_end", "rdunlock", "post_end"}
         /\ pc[th] \in SectionL => pc'[th] = "parsed"
         /\ pc[th] \in LinkL => pc'[th] \in {"idle", "ctor"}
  BY ReturnsTo
<1>u. UNCHANGED <<pc, stack>> => pc'[th] = pc[th] /\ Range(stack'[th]) = Range(stack[th])
  BY StackMoves
<1>q. StubSeq' = StubSeq /\ StubSeq # <<>>
  <2>1. setup' = setup
    BY StepOnly DEF Only
  <2> QED
    BY <2>1, StubSeqType DEF StubSeq
<1>l. /\ pc[th] \in {"parts", "tm_init", "tm_locked", "tm_done", "one_end", "rdunlock", "dl_init",
                      "dl_end", "visit", "free", "open_end", "close_end"} => pc[th] \notin TopL
      /\ "parts" \in InitL /\ {"tm_init", "tm_locked", "tm_done"} \subseteq TmL
      /\ {"dl_init", "dl_end"} \subseteq DlL /\ {"one_end", "rdunlock"} \subseteq HookL
      /\ "visit" \in VisitL /\ "free" \in SectionL /\ {"open_end", "close_end"} \subseteq LinkL
  BY DEF TopL, InitL, TmL, DlL, HookL, VisitL, SectionL, LinkL
<1>k. {"idle", "ctor", "hooked", "tm_store", "mon", "add_cb", "one_end", "rdunlock", "post_end",
       "parsed", "init", "tm_hook", "dl_init", "visit", "claim", "pre", "link", "wrlock", "unlink"}
         \subseteq Label
  BY DEF Label, TopL, InitL, TmL, HookL, DlL, VisitL, SectionL, LinkL
<1>p. Passing = {"rdlock", "rdunlock", "one_end"}
  BY DEF Passing
<1> USE DEF inits, Call, elves
<1>1. ASSUME InitCall(th) PROVE Goal
  BY <1>1, <1>c2, <1>k, <1>a, <1>b, <1>p DEF InitCall
<1>2. ASSUME InitLock(th) PROVE Goal
  BY <1>2, <1>g, <1>a, <1>b, <1>p DEF InitLock
<1>3. ASSUME InitPart(th) PROVE Goal
  BY <1>3, <1>u, <1>a, <1>b, <1>p DEF InitPart
<1>4. ASSUME InitEnd(th) PROVE Goal
  BY <1>4, <1>t, <1>r, <1>l, <1>a, <1>b, <1>p DEF InitEnd
<1>5. ASSUME HookCall(th) PROVE Goal
  BY <1>5, <1>c2, <1>k, <1>a, <1>b, <1>p DEF HookCall
<1>6. ASSUME HookReturn(th) PROVE Goal
  BY <1>6, <1>g, <1>a, <1>b, <1>p DEF HookReturn
<1>7. ASSUME TmHook(th) PROVE Goal
  BY <1>7, <1>g, <1>a, <1>b, <1>p DEF TmHook
<1>8. ASSUME OneShot(th) PROVE Goal
  BY <1>8, <1>g, <1>a, <1>b, <1>p, <1>T DEF OneShot
<1>9. ASSUME OneLocked(th) PROVE Goal
  BY <1>9, <1>g, <1>a, <1>b, <1>p, <1>T DEF OneLocked
<1>10. ASSUME OneRefresh(th) PROVE Goal
  <2>1. Refreshed'
    BY <1>10, <1>n DEF OneRefresh
  <2> QED
    BY <2>1
<1>11. ASSUME OneEnd(th) PROVE Goal
  <2>1. Refreshed'
    BY <1>11, <1>b, <1>p DEF OneEnd
  <2> QED
    BY <2>1
<1>12. ASSUME RdLock(th) PROVE Goal
  <2>1. Refreshed'
    BY <1>12, <1>b, <1>p DEF RdLock
  <2> QED
    BY <2>1
<1>13. ASSUME RdUnlock(th) PROVE Goal
  <2>1. Refreshed'
    BY <1>13, <1>b, <1>p DEF RdUnlock
  <2> QED
    BY <2>1
<1>14. ASSUME TmInit(th) PROVE Goal
  <2>1. CASE tm.inited /\ tm.ok
    BY <1>a, <2>1
  <2>2. CASE tm.inited /\ ~tm.ok
    BY <1>14, <2>2, <1>t, <1>r, <1>l, <1>a, <1>b, <1>p DEF TmInit, TmResult
  <2>3. CASE ~tm.inited
    BY <1>14, <2>3, <1>g, <1>a, <1>b, <1>p, <1>T DEF TmInit
  <2> QED
    BY <2>1, <2>2, <2>3
<1>15. ASSUME TmLocked(th) PROVE Goal
  <2>1. CASE tm.inited /\ tm.ok
    BY <1>a, <2>1
  <2>2. CASE tm.inited /\ ~tm.ok
    BY <1>15, <2>2, <1>t, <1>r, <1>l, <1>a, <1>b, <1>p, <1>T DEF TmLocked, TmResult
  <2>3. CASE ~tm.inited
    <3>1. Gosub(th, "dl_init", "tm_store") /\ one' = one /\ dl' = dl /\ tm'.ok = tm.ok
      BY <1>15, <2>3, <1>T DEF TmLocked
    <3> QED
      BY <3>1, <1>c2, <1>k, <1>a, <1>b, <1>p
  <2> QED
    BY <2>1, <2>2, <2>3
<1>16. ASSUME TmStore(th) PROVE Goal
  <2>1. /\ pc[th] = "tm_store" /\ Goto(th, "tm_done") /\ local' = local /\ one' = one /\ dl' = dl
        /\ tm'.ok \in {tm.ok, local[th].res}
    BY <1>16, <1>T DEF TmStore
  <2> QED
    BY <2>1, <1>g, <1>a, <1>b, <1>c, <1>p
<1>17. ASSUME TmDone(th) PROVE Goal
  <2>1. /\ pc[th] = "tm_done" /\ TmResult(th, local[th].res) /\ one' = one /\ dl' = dl
        /\ tm'.ok = local[th].res
    BY <1>17, <1>T DEF TmDone
  <2>2. CASE local[th].res
    BY <2>1, <2>2, <1>c
  <2>3. CASE ~local[th].res
    BY <2>1, <2>3, <1>t, <1>r, <1>l, <1>a, <1>b, <1>p DEF TmResult
  <2> QED
    BY <2>2, <2>3
<1>18. ASSUME DlInit(th) PROVE Goal
  <2>1. CASE dl.inited /\ dl.ok
    BY <1>a, <2>1
  <2>2. CASE dl.inited /\ ~dl.ok
    <3>1. /\ pc[th] = "dl_init" /\ Return(th) /\ Set(th, "res", dl.ok)
          /\ one' = one /\ dl' = dl /\ tm' = tm
      BY <1>18, <2>2 DEF DlInit
    <3>2. ~local'[th].res
      BY <1>T, <2>2, <3>1 DEF Set, LocalType
    <3>3. pc'[th] \in {"tm_store", "add_cb"}
      BY <1>r, <1>l, <3>1
    <3>4. (\E l \in Passing : l \in Range(stack'[th])) => Refreshed'
      BY <1>t, <1>l, <1>b, <3>1
    <3> QED
      BY <3>1, <3>2, <3>3, <3>4, <1>a, <1>p
  <2>3. CASE ~dl.inited
    <3>1. /\ Goto(th, "dl_locked") /\ one' = one /\ tm' = tm /\ dl'.ok = dl.ok
      BY <1>18, <2>3, <1>T DEF DlInit
    <3> QED
      BY <3>1, <1>g, <1>a, <1>b, <1>p
  <2> QED
    BY <1>T, <2>1, <2>2, <2>3
<1>19. ASSUME DlLocked(th) PROVE Goal
  <2>1. CASE dl.inited /\ dl.ok
    BY <1>a, <2>1
  <2>2. CASE dl.inited /\ ~dl.ok
    <3>1. Goto(th, "dl_end") /\ Set(th, "res", dl.ok) /\ one' = one /\ dl' = dl /\ tm' = tm
      BY <1>19, <2>2 DEF DlLocked
    <3>2. ~local'[th].res
      BY <1>T, <2>2, <3>1 DEF Set, LocalType
    <3> QED
      BY <3>1, <3>2, <1>g, <1>a, <1>b, <1>p
  <2>3. CASE ~dl.inited
    <3>1. /\ Goto(th, "mon") /\ Set(th, "todo", StubSeq) /\ one' = one /\ tm' = tm
          /\ dl'.ok = dl.ok
      BY <1>19, <2>3, <1>T DEF DlLocked
    <3>2. local'[th].todo = StubSeq'
      BY <1>T, <1>q, <3>1 DEF Set, LocalType
    <3> QED
      BY <3>1, <3>2, <1>g, <1>a, <1>b, <1>p
  <2> QED
    BY <1>T, <2>1, <2>2, <2>3
<1>20. ASSUME MonHook(th) PROVE Goal
  BY <1>20, <1>c2, <1>k, <1>a, <1>b, <1>p DEF MonHook
<1>21. ASSUME MonFail(th) PROVE Goal
  BY <1>21, <1>g, <1>a, <1>b, <1>p DEF MonFail
<1>22. ASSUME MonDone(th) PROVE Goal
  <2>1. Refreshed'
    BY <1>22, <1>d, <1>q DEF MonDone
  <2> QED
    BY <2>1
<1>23. ASSUME Uninit(th) PROVE Goal
  <2>1. CASE stubs = {}
    <3>1. /\ Goto(th, "dl_end") /\ one' = one /\ dl' = dl /\ tm' = tm
          /\ local' = [local EXCEPT ![th].res = FALSE, ![th].job = "user", ![th].todo = <<>>]
      BY <1>23, <2>1 DEF Uninit
    <3>2. local'[th].res = FALSE
      BY <3>1, <1>T DEF LocalType
    <3> QED
      BY <3>1, <3>2, <1>g, <1>a, <1>b, <1>p
  <2>2. CASE stubs # {}
    BY <1>23, <2>2, <1>u, <1>a, <1>b, <1>p DEF Uninit
  <2> QED
    BY <2>1, <2>2
<1>24. ASSUME DlEnd(th) PROVE Goal
  <2>1. /\ pc[th] = "dl_end" /\ Return(th) /\ local' = local /\ one' = one /\ tm' = tm
        /\ dl'.ok = dl.ok
    BY <1>24, <1>T DEF DlEnd
  <2> QED
    BY <2>1, <1>t, <1>r, <1>l, <1>a, <1>b, <1>c, <1>p
<1>25. ASSUME VisitEnd(th) PROVE Goal
  BY <1>25, <1>t, <1>r, <1>l, <1>a, <1>b, <1>p DEF VisitEnd
<1>26. ASSUME Parse(th) PROVE Goal
  BY <1>26, <1>g, <1>c2, <1>k, <1>a, <1>b, <1>p DEF Parse
<1>27. ASSUME Parsed(th) PROVE Goal
  BY <1>27, <1>g, <1>a, <1>b, <1>p DEF Parsed
<1>28. ASSUME Find(th) PROVE Goal
  BY <1>28, <1>g, <1>a, <1>b, <1>p DEF Find
<1>29. ASSUME Store(th) PROVE Goal
  <2>1. /\ pc[th] = "store" /\ one' = one /\ dl' = dl /\ tm' = tm
        /\ IF Len(local[th].sigs) = 1 THEN Goto(th, "section") ELSE Goto(th, "claim")
    BY <1>29 DEF Store, NextSignal
  <2> QED
    BY <2>1, <1>g, <1>a, <1>b, <1>p
<1>30. ASSUME Leave(th) PROVE Goal
  BY <1>30, <1>g, <1>a, <1>b, <1>p DEF Leave
<1>31. ASSUME Clear(th) PROVE Goal
  BY <1>31, <1>g, <1>a, <1>b, <1>p DEF Clear
<1>32. ASSUME Free(th) PROVE Goal
  <2>1. /\ pc[th] = "free" /\ one' = one /\ dl' = dl /\ tm' = tm
        /\ IF Len(local[th].sigs) = 1 THEN Return(th) ELSE Goto(th, "clear")
    BY <1>32 DEF Free, NextSignal
  <2> QED
    BY <2>1, <1>g, <1>t, <1>r, <1>l, <1>a, <1>b, <1>p
<1>33. ASSUME AddCb(th) PROVE Goal
  BY <1>33, <1>g, <1>a, <1>b, <1>p DEF AddCb
<1>34. ASSUME Pre(th) PROVE Goal
  BY <1>34, <1>g, <1>a, <1>b, <1>p DEF Pre, CallCb
<1>35. ASSUME Post(th) PROVE Goal
  BY <1>35, <1>g, <1>a, <1>b, <1>p DEF Post, CallCb
<1>36. ASSUME Link(th) PROVE Goal
  BY <1>36, <1>g, <1>a, <1>b, <1>p DEF Link
<1>37. ASSUME Linked(th) PROVE Goal
  BY <1>37, <1>g, <1>a, <1>b, <1>p DEF Linked
<1>38. ASSUME Opened(th) PROVE Goal
  BY <1>38, <1>g, <1>a, <1>b, <1>p DEF Opened
<1>39. ASSUME PostRdLock(th) PROVE Goal
  BY <1>39, <1>g, <1>a, <1>b, <1>p DEF PostRdLock
<1>40. ASSUME PostRefresh(th) PROVE Goal
  BY <1>40, <1>c2, <1>k, <1>a, <1>b, <1>p DEF PostRefresh
<1>41. ASSUME PostEnd(th) PROVE Goal
  BY <1>41, <1>g, <1>a, <1>b, <1>p DEF PostEnd
<1>42. ASSUME OpenEnd(th) PROVE Goal
  BY <1>42, <1>t, <1>r, <1>l, <1>a, <1>b, <1>p DEF OpenEnd
<1>43. ASSUME WrLock(th) PROVE Goal
  BY <1>43, <1>g, <1>a, <1>b, <1>p DEF WrLock
<1>44. ASSUME Unlink(th) PROVE Goal
  BY <1>44, <1>g, <1>a, <1>b, <1>p DEF Unlink
<1>45. ASSUME SyncRefresh(th) PROVE Goal
  BY <1>45, <1>g, <1>a, <1>b, <1>p DEF SyncRefresh
<1>46. ASSUME CloseEnd(th) PROVE Goal
  BY <1>46, <1>t, <1>r, <1>l, <1>a, <1>b, <1>p DEF CloseEnd
<1>47. ASSUME NEW l \in Lib, Visit(th, l) PROVE Goal
  BY <1>47, <1>g, <1>u, <1>a, <1>b, <1>p DEF Visit
<1>48. ASSUME NEW l \in Lib, OpenCall(th, l) PROVE Goal
  BY <1>48, <1>c2, <1>k, <1>a, <1>b, <1>p DEF OpenCall, LinkerCall
<1>49. ASSUME NEW l \in Lib, CloseCall(th, l) PROVE Goal
  BY <1>49, <1>c2, <1>k, <1>a, <1>b, <1>p DEF CloseCall, LinkerCall
<1>50. ASSUME NEW j \in 1..SlotMax, Claim(th, j) PROVE Goal
  BY <1>50, <1>g, <1>a, <1>b, <1>p DEF Claim
<1>51. ASSUME NEW s \in Range(Signals), Handler(th, s) PROVE Goal
  BY <1>51, <1>g, <1>a, <1>b, <1>p DEF Handler
<1>52. ASSUME NEW c \in Callbacks, AddCallback(th, c) PROVE Goal
  BY <1>52, <1>c2, <1>k, <1>a, <1>b, <1>p DEF AddCallback
<1>53. ASSUME NEW c \in Callbacks, DelCallback(th, c) PROVE Goal
  BY <1>53, <1>u, <1>a, <1>b, <1>p DEF DelCallback
<1> QED
  BY <1>G, <1>1, <1>2, <1>3, <1>4, <1>5, <1>6, <1>7, <1>8, <1>9, <1>10, <1>11, <1>12,
     <1>13, <1>14, <1>15, <1>16, <1>17, <1>18, <1>19, <1>20, <1>21, <1>22, <1>23, <1>24,
     <1>25, <1>26, <1>27, <1>28, <1>29, <1>30, <1>31, <1>32, <1>33, <1>34, <1>35, <1>36,
     <1>37, <1>38, <1>39, <1>40, <1>41, <1>42, <1>43, <1>44, <1>45, <1>46, <1>47, <1>48,
     <1>49, <1>50, <1>51, <1>52, <1>53
     DEF Step

\* Every step keeps RefreshInv.
LEMMA NextRefresh ==
  ASSUME TypeInv, StackInv, ShutInv, RefreshInv, NEW th \in Thread, Step(th)
  PROVE  RefreshInv'
<1>s. /\ RefreshInv <=> (Started => Refreshed) /\ \A u \in Thread : RefreshAt(u)
      /\ RefreshInv' <=> (Started' => Refreshed') /\ \A u \in Thread : RefreshAt(u)'
  <2>1. RefreshInv <=> (Started => Refreshed) /\ \A u \in Thread : RefreshAt(u)
    BY DEF RefreshInv, Started, RefreshAt, Passing, Labels
  <2>2. RefreshInv' <=> (Started' => Refreshed') /\ \A u \in Thread : RefreshAt(u)'
    BY DEF RefreshInv, Started, RefreshAt, Passing, Labels
  <2> QED
    BY <2>1, <2>2
<1>1. ASSUME NEW u \in Thread \ {th} PROVE RefreshAt(u)'
  <2>1. pc'[u] = pc[u] /\ stack'[u] = stack[u] /\ local'[u] = local[u] /\ setup' = setup
    BY StepOnly DEF Only
  <2>2. StubSeq' = StubSeq
    BY <2>1 DEF StubSeq
  <2>3. RefreshAt(u) /\ (Refreshed => Refreshed')
    BY <1>s, NextRefreshed
  <2> QED
    BY <2>1, <2>2, <2>3 DEF RefreshAt
<1> QED
  BY <1>1, <1>s, NextRefreshAt

-----------------------------------------------------------------------------
(* The invariant                                                           *)

\* Every step keeps the types.
LEMMA NextTypes ==
  ASSUME TypeInv, StackInv, SlotInv, NEW th \in Thread, Step(th)
  PROVE  TypeInv'
<1>1. PcStack' /\ LocalTyped' /\ BudgetTyped' /\ TableTyped' /\ StateTyped'
  BY NextPcStack, NextLocal, NextBudget, NextTable, NextState
<1> QED
  BY <1>1 DEF TypeInv, PcStack, LocalTyped, BudgetTyped, TableTyped, StateTyped

\* Every step keeps the stacks fitting their labels.
LEMMA NextStack ==
  ASSUME TypeInv, StackInv, DlInv, NEW th \in Thread, Step(th)
  PROVE  StackInv'
<1>1. Own(th)'
  BY NextOwn
<1>2. ASSUME NEW u \in Thread \ {th} PROVE Own(u)'
  <2>1. pc'[u] = pc[u] /\ stack'[u] = stack[u] /\ local'[u] = local[u]
    BY StepOnly DEF Only
  <2> QED
    BY <2>1 DEF Own, StackInv
<1> QED
  BY <1>1, <1>2 DEF StackInv, Own

\* Every step keeps bytesig's table in agreement with the labels.
LEMMA NextSlot ==
  ASSUME TypeInv, StackInv, SlotInv, NEW th \in Thread, Step(th)
  PROVE  SlotInv'
<1>1. SlotAt(th)'
  BY NextSlotOwn
<1>2. \A u \in Thread \ {th} : SlotAt(u)'
  BY OthersSlots
<1> QED
  BY <1>1, <1>2 DEF SlotInv

\* The invariant holds at the start.
LEMMA InitInv ==
  Init => IInv
<1> SUFFICES ASSUME Init PROVE IInv
  OBVIOUS
<1>0. \A y : y \notin Range(<<>>)
  BY DEF Range
<1>1. \A th \in Thread : pc[th] = "idle" /\ stack[th] = <<>> /\ local[th] = NoLocal
  BY DEF Init
<1>2. NoLocal \in LocalType /\ NoLocal.frames = <<>> /\ Len(NoLocal.frames) = 0
  BY DEF NoLocal, LocalType
<1>3. TypeInv
  <2>1. setup \in Scenarios /\ setup \in Scenario
    BY StartupAssumption DEF Init
  <2>2. pc \in [Thread -> Label] /\ stack \in [Thread -> Seq(Label)]
    BY DEF Init, Label, TopL
  <2>3. local \in [Thread -> LocalType]
    BY <1>2 DEF Init
  <2>4. core \in [status : {"UNINIT", "OK"} \cup Parts, parts : SUBSET Parts,
                  lock : Thread \cup {None}]
    BY <2>1 DEF Init, Scenario
  <2>5. /\ tm \in [inited : BOOLEAN, ok : BOOLEAN, posts : BOOLEAN, lock : Thread \cup {None}]
        /\ dl \in [inited : BOOLEAN, ok : BOOLEAN, initing : BOOLEAN, lock : Thread \cup {None}]
        /\ one \in [done : BOOLEAN, lock : Thread \cup {None}]
        /\ linker \in Thread \cup {None}
    BY DEF Init
  <2>6. slots \in [Range(Signals) -> [1..SlotMax -> [tid : Thread \cup {None},
                                                   jbuf : Thread \cup {None}]]]
    BY DEF Init
  <2>7. budget \in [calls : [Thread -> Nat], faults : Nat, shut : SUBSET Lib]
    BY <2>1 DEF Init, Scenario
  <2>8. linked \subseteq Lib /\ tree \subseteq Lib /\ listed \subseteq Thread
    BY <2>1 DEF Init, Scenario
  <2> QED
    BY <2>1, <2>2, <2>3, <2>4, <2>5, <2>6, <2>7, <2>8 DEF TypeInv
<1>4. StackInv
  BY <1>1, <1>2 DEF StackInv, Fits, TopL, InitL, TmL, HookL, DlL, LinkL, VisitL, SectionL
<1>5. SlotInv
  <2>1. \A s \in Range(Signals), j \in 1..SlotMax : slots[s][j].tid = None
    BY DEF Init
  <2>2. \A th \in Thread : th # None
    BY StartupAssumption
  <2>3. \A th \in Thread, s \in Range(Signals) : Free0(th, s)
    BY <2>1, <2>2 DEF Free0
  <2> QED
    BY <1>1, <2>3 DEF SlotInv, SlotAt, SectionL
<1>6. LinkerInv /\ LockOrder
  <2>1. linker = None /\ \A th \in Thread : th # None
    BY StartupAssumption DEF Init
  <2> QED
    BY <1>1, <1>2, <2>1 DEF LinkerInv, LockOrder
<1>7. CoreInv
  BY DEF Init, CoreInv
<1>8. ShutInv
  BY <1>1 DEF Init, ShutInv, CloseL
<1>9. DlInv
  BY <1>0, <1>1 DEF DlInv, DlL
<1>10. RefreshInv
  <2>1. \A th \in Thread : {"rdlock", "rdunlock", "one_end"} \cap Labels(th) = {}
    BY <1>0, <1>1 DEF Labels
  <2>2. ~one.done /\ ~dl.ok /\ ~tm.ok
    BY DEF Init
  <2> QED
    BY <1>1, <2>1, <2>2 DEF RefreshInv
<1> QED
  BY <1>3, <1>4, <1>5, <1>6, <1>7, <1>8, <1>9, <1>10 DEF IInv

\* Every step keeps the invariant.
LEMMA NextInv ==
  IInv /\ [Next]_vars => IInv'
<1> SUFFICES ASSUME IInv, [Next]_vars PROVE IInv'
  OBVIOUS
<1>0. /\ TypeInv /\ StackInv /\ SlotInv /\ LinkerInv /\ LockOrder /\ CoreInv /\ ShutInv /\ DlInv
      /\ RefreshInv
  BY DEF IInv
<1>1. ASSUME NEW th \in Thread, Step(th) PROVE IInv'
  <2>1. TypeInv' /\ StackInv'
    BY <1>0, <1>1, NextTypes, NextStack
  <2>2. SlotInv' /\ CoreInv' /\ ShutInv' /\ DlInv' /\ RefreshInv'
    BY <1>0, <1>1, NextSlot, NextCore, NextShut, NextDl, NextRefresh
  <2>3. LinkerInv'
    BY <1>0, <1>1, NextLinker
  <2>4. LockOrder'
    BY <1>0, <1>1, <2>1, <2>3, NextLockOrder
  <2> QED
    BY <2>1, <2>2, <2>3, <2>4 DEF IInv
<1>2. CASE UNCHANGED vars
  <2> USE <1>2 DEF vars, inits, monitor, locks, elves, history
  <2>1. TypeInv'
    BY <1>0 DEF TypeInv
  <2>2. StackInv'
    BY <1>0 DEF StackInv
  <2>3. SlotInv'
    BY SMTT(30), <1>0 DEF SlotInv, SlotAt, Free0, Claimed, Armed
  <2>4. LinkerInv' /\ LockOrder'
    BY <1>0 DEF LinkerInv, LockOrder
  <2>5. CoreInv' /\ ShutInv' /\ DlInv'
    BY <1>0 DEF CoreInv, ShutInv, DlInv, Frame
  <2>6. RefreshInv'
    BY <1>0 DEF RefreshInv, Refreshed, Labels, StubSeq
  <2> QED
    BY <2>1, <2>2, <2>3, <2>4, <2>5, <2>6 DEF IInv
<1> QED
  BY <1>1, <1>2 DEF Next, Finished

\* The invariant holds in every state of every start.
THEOREM Invariance == Spec => []IInv
<1>1. Init => IInv
  BY InitInv
<1>2. IInv /\ [Next]_vars => IInv'
  BY NextInv
<1> QED
  BY <1>1, <1>2, PTL DEF Spec

-----------------------------------------------------------------------------
(* What it gives                                                           *)

\* A fault in a protected section jumps back into the section it came from, whatever other
\* threads enter, leave or fault meanwhile: a thread in a section has one entry of the table
\* for every signal, with its own buffer, and a thread outside has none (bytesig_protect,
\* bytesig_unprotect, bytesig_handler).
THEOREM FaultsJumpHome == Spec => []JumpsHome
<1>1. TypeInv /\ SlotInv => JumpsHome
  <2> SUFFICES ASSUME TypeInv, SlotInv, NEW th \in Thread, NEW s \in Range(Signals)
         PROVE  LET mine == {j \in 1..SlotMax : slots[s][j].tid = th}
                IN /\ pc[th] = "section" =>
                        Cardinality(mine) = 1 /\ \A j \in mine : slots[s][j].jbuf = th
                   /\ pc[th] \notin {"claim", "store", "section", "clear", "free"} => mine = {}
    BY DEF JumpsHome
  <2> DEFINE mine == {j \in 1..SlotMax : slots[s][j].tid = th}
  <2>1. ASSUME pc[th] = "section"
        PROVE  Cardinality(mine) = 1 /\ \A j \in mine : slots[s][j].jbuf = th
    <3>1. Armed(th, s)
      BY <2>1 DEF SlotInv, SlotAt
    <3>2. PICK j \in 1..SlotMax : \A i \in 1..SlotMax : slots[s][i].tid = th <=> i = j
      BY <3>1 DEF Armed, Claimed
    <3>3. mine = {j}
      BY <3>2
    <3>4. Cardinality({j}) = 1
      BY FS_Singleton
    <3>5. \A i \in mine : slots[s][i].jbuf = th
      BY <3>1 DEF Armed
    <3> HIDE DEF mine
    <3> QED
      BY <3>3, <3>4, <3>5
  <2>2. ASSUME pc[th] \notin {"claim", "store", "section", "clear", "free"} PROVE mine = {}
    BY <2>2 DEF SlotInv, SlotAt, SectionL, Free0
  <2> QED
    BY <2>1, <2>2
<1> QED
  BY <1>1, Invariance, PTL DEF IInv

\* With a mutex of known layout no thread asks for the dlclose lock while it holds the
\* linker's lock, so that the two are always taken in one order; with an unknown layout, only
\* under a call of the linker that no proxy saw (bh_linker_is_in_lock).
THEOREM LocksInOrder == Spec => []LockOrder
<1>1. IInv => LockOrder
  BY DEF IInv
<1> QED
  BY <1>1, Invariance, PTL

\* A task is listed only when every part of the library is there, and every task makes its
\* pass over a tree that holds what was loaded before the start and is still loaded, however
\* the start of the monitor, of the first refresh, and of other calls are interleaved
\* (bh_core_init, oneshot_refreshed, bh_task_manager_init_dl_monitor).
THEOREM UseFollowsStart == Spec => []StartedBeforeUse
<1>1. IInv => StartedBeforeUse
  <2> SUFFICES ASSUME IInv, NEW th \in Thread
               PROVE  /\ th \in listed => core.parts = Parts
                      /\ "rdunlock" \in Range(stack[th]) => Refreshed
    BY DEF StartedBeforeUse, Refreshed
  <2>1. th \in listed => core.parts = Parts
    BY DEF IInv, CoreInv
  <2>2. "rdunlock" \in Range(stack[th]) => Refreshed
    BY DEF IInv, RefreshInv, Labels
  <2> QED
    BY <2>1, <2>2
<1> QED
  BY <1>1, Invariance, PTL

=====
