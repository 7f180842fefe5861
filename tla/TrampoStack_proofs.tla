-------------------------- MODULE TrampoStack_proofs --------------------------
(***************************************************************************)
(* Safety of TrampoStack for every number of callers, frames and nested    *)
(* calls: bytehook's frames are exactly the proxies entered through slots, *)
(* no function is entered again while its proxy runs, the previous         *)
(* function is an older one, and no thread enters the proxy of a task that *)
(* is gone.  What the hooking threads do meanwhile is taken from           *)
(* HookManager_proofs: a chain keeps its entries, and grows.               *)
(***************************************************************************)
EXTENDS TrampoStack, HookManager_proofs, FiniteSetTheorems, NaturalsInduction,
        SequenceTheorems

-----------------------------------------------------------------------------
(* The newest entry                                                        *)

\* A set of entry numbers has a greatest element.
LEMMA MaxEntry ==
  ASSUME NEW n \in Nat, NEW S \in SUBSET (1..n), S # {}
  PROVE  Max(S) \in S /\ \A y \in S : Max(S) >= y
<1> DEFINE T == {n - x : x \in S}
           Less == {ss \in Nat \X Nat : ss[1] < ss[2]}
<1>1. IsWellFoundedOn(Less, Nat) /\ T \subseteq Nat /\ T # {}
  <2>1. IsWellFoundedOn(Less, Nat)
    BY NatLessThanWellFounded DEF OpToRel
  <2>2. \A x \in S : n - x \in Nat
    OBVIOUS
  <2>3. T \subseteq Nat
    BY <2>2
  <2>4. T # {}
    OBVIOUS
  <2> QED
    BY <2>1, <2>3, <2>4
<1>2. PICK m \in T : \A y \in T : ~(<<y, m>> \in Less)
  <2> HIDE DEF T, Less
  <2> QED
    BY <1>1, WFMin
<1>3. PICK x \in S : m = n - x
  BY <1>2
<1>4. ASSUME NEW y \in S PROVE x >= y
  <2>1. n - y \in T /\ m \in Nat /\ n - y \in Nat
    BY <1>1, <1>2
  <2>2. ~(n - y < m)
    BY <1>2, <2>1
  <2> QED
    BY <1>3, <2>2
<1> QED
  BY <1>3, <1>4 DEF Max

-----------------------------------------------------------------------------
(* Frames and activations                                                  *)

\* The proxies entered through a slot, and how many of them are no deeper than k.
EnteredOf(s) == {k \in 1..Len(s) : s[k].entry # 0 /\ s[k].ra # "prev"}
Depth(s, k) == Cardinality(EnteredOf(s) \cap 1..k)

\* A proxy runs for the frame: it was entered with it, or called by the one that was.
RunsFor(a, fr) ==
    /\ fr.slot = a.slot /\ fr.chain = a.chain /\ a.entry <= fr.head
    /\ a.ra \in {"prev", fr.ra}

\* Every proxy of the native stack s runs for the frame on the top of fs when it
\* started.
StackOk(fs, s) ==
    /\ Len(fs) = Cardinality(EnteredOf(s))
    /\ \A k \in 1..Len(s) : s[k].entry # 0 =>
          Depth(s, k) \in 1..Len(fs) /\ RunsFor(s[k], fs[Depth(s, k)])

\* The entered proxies can be counted.
LEMMA EnteredFinite ==
  ASSUME NEW s \in Seq(Activation)
  PROVE  /\ IsFiniteSet(EnteredOf(s))
         /\ Cardinality(EnteredOf(s)) \in Nat
         /\ EnteredOf(s) \in SUBSET (1..Len(s))
<1>1. Len(s) \in Nat /\ IsFiniteSet(1..Len(s)) /\ EnteredOf(s) \in SUBSET (1..Len(s))
  BY FS_Interval DEF EnteredOf
<1> QED
  BY <1>1, FS_Subset, FS_CardinalityType

\* The depth of an activation is at most the number of entered proxies.
LEMMA DepthRange ==
  ASSUME NEW s \in Seq(Activation), NEW k \in Nat
  PROVE  /\ Depth(s, k) \in Nat /\ Depth(s, k) <= Cardinality(EnteredOf(s))
         /\ k = Len(s) => Depth(s, k) = Cardinality(EnteredOf(s))
<1>1. /\ IsFiniteSet(EnteredOf(s) \cap 1..k)
      /\ Cardinality(EnteredOf(s) \cap 1..k) <= Cardinality(EnteredOf(s))
  BY EnteredFinite, FS_Intersection
<1>2. k = Len(s) => EnteredOf(s) \cap 1..k = EnteredOf(s)
  BY EnteredFinite
<1> QED
  BY <1>1, <1>2, FS_CardinalityType DEF Depth

\* An activation on top counts if it was entered through a slot, and leaves the depth
\* of the others as it was.
LEMMA DepthAppend ==
  ASSUME NEW s \in Seq(Activation), NEW a \in Activation
  PROVE  LET z == Append(s, a)
             d == IF a.entry # 0 /\ a.ra # "prev" THEN 1 ELSE 0
         IN  /\ Cardinality(EnteredOf(z)) = Cardinality(EnteredOf(s)) + d
             /\ \A k \in 1..Len(s) : Depth(z, k) = Depth(s, k)
             /\ Depth(z, Len(z)) = Cardinality(EnteredOf(z))
<1> DEFINE z == Append(s, a)
           n == Len(s) + 1
           E == EnteredOf(s)
<1>1. z \in Seq(Activation) /\ Len(z) = n /\ n \in Nat /\ z[n] = a
      /\ \A k \in 1..Len(s) : z[k] = s[k]
  OBVIOUS
<1>2. EnteredOf(z) = IF a.entry # 0 /\ a.ra # "prev" THEN E \cup {n} ELSE E
  BY <1>1 DEF EnteredOf
<1>3. n \notin E
  BY DEF EnteredOf
<1>4. ASSUME NEW k \in 1..Len(s) PROVE EnteredOf(z) \cap 1..k = E \cap 1..k
  BY <1>2
<1>5. IsFiniteSet(E) /\ Cardinality(E) \in Nat
  BY EnteredFinite
<1> HIDE DEF z
<1>6. \A k \in 1..Len(s) : Depth(z, k) = Depth(s, k)
  BY <1>4 DEF Depth
<1>7. Depth(z, Len(z)) = Cardinality(EnteredOf(z))
  BY <1>1, DepthRange
<1> HIDE DEF E
<1>8. Cardinality(EnteredOf(z)) =
        Cardinality(E) + (IF a.entry # 0 /\ a.ra # "prev" THEN 1 ELSE 0)
  <2>1. Cardinality(E \cup {n}) = Cardinality(E) + 1
    BY <1>3, <1>5, FS_AddElement
  <2> QED
    BY <1>2, <1>5, <2>1
<1>9. E = EnteredOf(s)
  BY DEF E
<1> QED
  BY <1>6, <1>7, <1>8, <1>9 DEF z

\* What is left when the top is popped.
LEMMA PopFacts ==
  ASSUME NEW S, NEW s \in Seq(S), s # <<>>
  PROVE  /\ Pop(s) \in Seq(S) /\ Len(Pop(s)) = Len(s) - 1
         /\ \A k \in 1..Len(Pop(s)) : Pop(s)[k] = s[k]
<1>1. Len(s) \in Nat \ {0}
  OBVIOUS
<1>2. /\ SubSeq(s, 1, Len(s) - 1) \in Seq(S)
      /\ Len(SubSeq(s, 1, Len(s) - 1)) = Len(s) - 1
      /\ \A k \in 1..(Len(s) - 1) : SubSeq(s, 1, Len(s) - 1)[k] = s[k]
  <2> DEFINE n == Len(s) - 1
  <2>1. n \in Int /\ 1 \in Int /\ \A i \in 1..n : s[i] \in S
    BY <1>1
  <2>2. (IF 1 <= n THEN n - 1 + 1 ELSE 0) = n /\ n - 1 + 1 = n
    BY <1>1
  <2>3. \A i \in 1..n : 1 + i - 1 = i
    BY <2>1
  <2> HIDE DEF n
  <2>4. /\ SubSeq(s, 1, n) \in Seq(S) /\ Len(SubSeq(s, 1, n)) = n
        /\ \A k \in 1..n : SubSeq(s, 1, n)[k] = s[k]
    BY <2>1, <2>2, <2>3, SubSeqProperties
  <2> QED
    BY <2>4 DEF n
<1> QED
  BY <1>2 DEF Pop

\* What is below the top of the stack.
LEMMA DepthPop ==
  ASSUME NEW s \in Seq(Activation), s # <<>>
  PROVE  LET z == Pop(s)
             d == IF Top(s).entry # 0 /\ Top(s).ra # "prev" THEN 1 ELSE 0
         IN  /\ z \in Seq(Activation) /\ Len(z) = Len(s) - 1
             /\ Cardinality(EnteredOf(s)) = Cardinality(EnteredOf(z)) + d
             /\ \A k \in 1..Len(z) : z[k] = s[k] /\ Depth(z, k) = Depth(s, k)
<1> DEFINE z == Pop(s)
<1>1. /\ z \in Seq(Activation) /\ Len(z) = Len(s) - 1 /\ Top(s) \in Activation
      /\ \A k \in 1..Len(z) : z[k] = s[k]
  BY PopFacts DEF Top
<1>2. s = Append(z, Top(s))
  BY <1>1 DEF Top
<1> HIDE DEF z
<1>3. /\ Cardinality(EnteredOf(s)) = Cardinality(EnteredOf(z))
           + (IF Top(s).entry # 0 /\ Top(s).ra # "prev" THEN 1 ELSE 0)
      /\ \A k \in 1..Len(z) : Depth(s, k) = Depth(z, k)
  BY <1>1, <1>2, DepthAppend
<1> QED
  BY <1>1, <1>3 DEF z

\* bh_trampo_push_stack pushes a frame and enters the proxy.
LEMMA StackPush ==
  ASSUME NEW fs \in Seq(Frame), NEW s \in Seq(Activation), StackOk(fs, s),
         NEW fr \in Frame, NEW a \in Activation,
         a.entry # 0, a.ra # "prev", RunsFor(a, fr)
  PROVE  StackOk(Append(fs, fr), Append(s, a))
<1> DEFINE z == Append(s, a)
           gs == Append(fs, fr)
<1>1. /\ Len(z) = Len(s) + 1 /\ z[Len(z)] = a /\ \A k \in 1..Len(s) : z[k] = s[k]
      /\ Len(gs) = Len(fs) + 1 /\ gs[Len(gs)] = fr /\ \A k \in 1..Len(fs) : gs[k] = fs[k]
      /\ Len(fs) \in Nat /\ Len(s) \in Nat
  OBVIOUS
<1>2. /\ Cardinality(EnteredOf(z)) = Len(fs) + 1
      /\ \A k \in 1..Len(s) : Depth(z, k) = Depth(s, k)
      /\ Depth(z, Len(z)) = Len(fs) + 1
  BY DepthAppend DEF StackOk
<1> HIDE DEF z, gs
<1>3. ASSUME NEW k \in 1..Len(z), z[k].entry # 0
      PROVE  Depth(z, k) \in 1..Len(gs) /\ RunsFor(z[k], gs[Depth(z, k)])
  <2>1. CASE k = Len(z)
    BY <1>1, <1>2, <2>1
  <2>2. CASE k \in 1..Len(s)
    BY <1>1, <1>2, <1>3, <2>2 DEF StackOk
  <2> QED
    BY <1>1, <2>1, <2>2
<1>4. StackOk(gs, z)
  BY <1>1, <1>2, <1>3 DEF StackOk
<1> QED
  BY <1>4 DEF z, gs

\* An activation without a frame: of an original function, or of a previous one.
LEMMA StackCall ==
  ASSUME NEW fs \in Seq(Frame), NEW s \in Seq(Activation), StackOk(fs, s),
         NEW a \in Activation,
         a.entry # 0 => fs # <<>> /\ a.ra = "prev" /\ RunsFor(a, Top(fs))
  PROVE  StackOk(fs, Append(s, a))
<1> DEFINE z == Append(s, a)
<1>1. /\ Len(z) = Len(s) + 1 /\ z[Len(z)] = a /\ \A k \in 1..Len(s) : z[k] = s[k]
      /\ Len(fs) \in Nat /\ Len(s) \in Nat
  OBVIOUS
<1>2. /\ Cardinality(EnteredOf(z)) = Len(fs)
      /\ \A k \in 1..Len(s) : Depth(z, k) = Depth(s, k)
      /\ Depth(z, Len(z)) = Len(fs)
  BY DepthAppend, EnteredFinite DEF StackOk
<1> HIDE DEF z
<1>3. ASSUME NEW k \in 1..Len(z), z[k].entry # 0
      PROVE  Depth(z, k) \in 1..Len(fs) /\ RunsFor(z[k], fs[Depth(z, k)])
  <2>1. CASE k = Len(z)
    <3>1. fs # <<>> /\ RunsFor(a, Top(fs))
      BY <1>1, <1>3, <2>1
    <3>2. Len(fs) \in 1..Len(fs)
      BY <3>1
    <3> QED
      BY <1>1, <1>2, <2>1, <3>1, <3>2 DEF Top
  <2>2. CASE k \in 1..Len(s)
    BY <1>1, <1>2, <1>3, <2>2 DEF StackOk
  <2> QED
    BY <1>1, <2>1, <2>2
<1>4. StackOk(fs, z)
  BY <1>2, <1>3 DEF StackOk
<1> QED
  BY <1>4 DEF z

\* The proxy on the top runs for the frame on the top, so it pops its own frame, and
\* it alone does: bh_trampo_pop_stack.
LEMMA StackReturn ==
  ASSUME NEW fs \in Seq(Frame), NEW s \in Seq(Activation), StackOk(fs, s), s # <<>>
  PROVE  /\ Top(s).entry # 0 => fs # <<>> /\ RunsFor(Top(s), Top(fs))
         /\ StackOk(IF Top(s).entry # 0 /\ fs # <<>> /\ Top(fs).ra = Top(s).ra
                    THEN Pop(fs) ELSE fs, Pop(s))
<1> DEFINE z == Pop(s)
           n == Len(s)
<1>1. n \in 1..Len(s) /\ Top(s) = s[n] /\ Depth(s, n) = Cardinality(EnteredOf(s))
      /\ Len(fs) = Cardinality(EnteredOf(s)) /\ Len(fs) \in Nat
  BY DepthRange DEF StackOk, Top
<1>2. Top(s).entry # 0 => fs # <<>> /\ RunsFor(Top(s), Top(fs))
  BY <1>1 DEF StackOk, Top
<1>3. Top(s).entry # 0 => Top(fs).ra # "prev"
  <2> SUFFICES ASSUME Top(s).entry # 0 PROVE Top(fs).ra # "prev"
    OBVIOUS
  <2>1. Top(fs) \in Frame
    BY <1>2 DEF Top
  <2> QED
    BY <2>1, TrampoStackAssumption DEF Frame
<1>4. /\ Len(z) \in Nat /\ \A k \in 1..Len(z) : k \in 1..Len(s)
      /\ Cardinality(EnteredOf(s)) = Cardinality(EnteredOf(z))
           + (IF Top(s).entry # 0 /\ Top(s).ra # "prev" THEN 1 ELSE 0)
      /\ \A k \in 1..Len(z) : z[k] = s[k] /\ Depth(z, k) = Depth(s, k)
      /\ \A k \in 1..Len(z) : Depth(z, k) <= Cardinality(EnteredOf(z)) /\ Depth(z, k) \in Nat
  <2>1. /\ z \in Seq(Activation) /\ Len(z) = Len(s) - 1
        /\ Cardinality(EnteredOf(s)) = Cardinality(EnteredOf(z))
             + (IF Top(s).entry # 0 /\ Top(s).ra # "prev" THEN 1 ELSE 0)
        /\ \A k \in 1..Len(z) : z[k] = s[k] /\ Depth(z, k) = Depth(s, k)
    BY DepthPop
  <2> HIDE DEF z
  <2>2. ASSUME NEW k \in 1..Len(z)
        PROVE  Depth(z, k) <= Cardinality(EnteredOf(z)) /\ Depth(z, k) \in Nat
    <3>1. k \in Nat
      BY <2>1
    <3> QED
      BY <2>1, <3>1, DepthRange
  <2>3. Len(z) \in Nat /\ \A k \in 1..Len(z) : k \in 1..Len(s)
    BY <2>1
  <2> QED
    BY <2>1, <2>2, <2>3
<1>5. Cardinality(EnteredOf(z)) \in Nat
  <2>1. z \in Seq(Activation)
    BY DepthPop
  <2> QED
    BY <2>1, EnteredFinite
<1> HIDE DEF z
<1>6. CASE Top(s).entry # 0 /\ Top(fs).ra = Top(s).ra
  <2>1. /\ Pop(fs) \in Seq(Frame) /\ Len(Pop(fs)) = Len(fs) - 1
        /\ \A m \in 1..Len(Pop(fs)) : Pop(fs)[m] = fs[m]
    BY <1>2, <1>6, PopFacts
  <2>2. Len(Pop(fs)) = Cardinality(EnteredOf(z))
    BY <1>1, <1>3, <1>4, <1>5, <1>6, <2>1
  <2>3. StackOk(Pop(fs), z)
    BY <1>4, <2>1, <2>2 DEF StackOk
  <2> QED
    BY <1>2, <1>6, <2>3 DEF z
<1>7. CASE ~(Top(s).entry # 0 /\ Top(fs).ra = Top(s).ra)
  <2>1. Top(s).entry # 0 => Top(s).ra = "prev"
    BY <1>2, <1>7 DEF RunsFor
  <2>2. Len(fs) = Cardinality(EnteredOf(z))
    BY <1>1, <1>4, <1>5, <2>1
  <2>3. StackOk(fs, z)
    BY <1>4, <2>2 DEF StackOk
  <2> QED
    BY <1>2, <1>7, <2>3 DEF z
<1> QED
  BY <1>6, <1>7

-----------------------------------------------------------------------------
(* What the hooking threads leave to the callers                           *)

\* A chain stays, and keeps its entries.
LEMMA ChainGrows ==
  ASSUME TypeOK, CallInv, TreeInv, OrigInv, [Next]_vars,
         NEW g \in Got, NEW m \in ChainNos(g)
  PROVE  m \in ChainNos(g)' /\ Len(chains'[g][m].list) >= Len(chains[g][m].list)
<1>1. chains[g][m] \in Chain
  BY DEF TypeOK, ChainNos
<1>2. Len(chains[g][m].list) \in Nat
  BY <1>1, ChainList
<1>3. CASE chains' = chains
  BY <1>2, <1>3 DEF ChainNos
<1>4. ASSUME NEW h \in Got, NEW n \in Nat, NEW d, SetsChain(h, n, d),
             n \in ChainNos(h) => Len(d.list) >= Len(chains[h][n].list)
      PROVE  m \in ChainNos(g)' /\ Len(chains'[g][m].list) >= Len(chains[g][m].list)
  <2>1. CASE g # h
    BY <1>2, <1>4, <2>1 DEF SetsChain, ChainNos
  <2>2. CASE g = h /\ m # n
    BY <1>2, <1>4, <2>2 DEF SetsChain
  <2>3. CASE g = h /\ m = n
    BY <1>4, <2>3 DEF SetsChain
  <2> QED
    BY <2>1, <2>2, <2>3
<1>5. ASSUME NEW th \in Thread, NEW h \in Got, NEW n \in Nat, NEW b \in Chain,
             Adding(th, h), AddsTo(th, h, n, b)
      PROVE  m \in ChainNos(g)' /\ Len(chains'[g][m].list) >= Len(chains[g][m].list)
  <2> DEFINE d == HookAddFunc(b, FuncOf[TaskOf(th)], TaskOf(th))
  <2>1. Len(d.list) >= Len(b.list)
    BY <1>5, TaskFacts, ReEnableFacts, InsertFacts, ChainList DEF Adding
  <2>2. SetsChain(h, n, d)
    BY <1>5 DEF AddsTo
  <2>3. n \in ChainNos(h) => b = chains[h][n]
    BY <1>5 DEF AddsTo, Cur, ChainNos, TypeOK
  <2> HIDE DEF d
  <2> QED
    BY <1>4, <2>1, <2>2, <2>3
<1>6. ASSUME NEW h \in Got, AddsNone(h)
      PROVE  m \in ChainNos(g)' /\ Len(chains'[g][m].list) >= Len(chains[g][m].list)
  <2>1. Len(chains[h]) + 1 \in Nat /\ Len(chains[h]) + 1 \notin ChainNos(h)
    BY DEF ChainNos, TypeOK
  <2> QED
    BY <1>4, <1>6, <2>1 DEF AddsNone
<1>7. ASSUME NEW th \in Thread, NEW h \in Got, Removing(th, h), Dels(th, h)
      PROVE  m \in ChainNos(g)' /\ Len(chains'[g][m].list) >= Len(chains[g][m].list)
  <2> DEFINE d == HookDelFunc(Cur(h), FuncOf[TaskOf(th)])
  <2>1. hooks[h] \in Nat /\ Cur(h) \in Chain /\ SetsChain(h, hooks[h], d)
    BY <1>7, CurChain DEF Dels, TypeOK
  <2>2. Len(d.list) = Len(Cur(h).list) /\ Len(Cur(h).list) \in Nat
    BY <1>7, <2>1, TaskFacts, DelFuncFacts, ChainList DEF Removing
  <2>3. Len(d.list) >= Len(Cur(h).list)
    BY <2>2
  <2> HIDE DEF d
  <2> QED
    BY <1>4, <2>1, <2>3 DEF Cur
<1> QED
  BY <1>3, <1>5, <1>6, <1>7, ChainSteps

\* In manual mode a slot holds a function: there is no trampoline.
ManualGot == mode = "MANUAL" => \A g \in Got : got[g] \in Mutable

\* The steps of manual mode write functions only.
LEMMA ManualGotSteps ==
  ASSUME TypeOK, CallInv, PhaseInv, TreeInv, mode = "MANUAL", [Next]_vars, NEW x \in Got
  PROVE  got'[x] = got[x] \/ got'[x] \in Mutable
<1> DEFINE Goal == got'[x] = got[x] \/ got'[x] \in Mutable
<1> SUFFICES Goal
  OBVIOUS
<1>1. ASSUME NEW th \in Thread, NEW e \in Elf, HookRefused(th, e) PROVE Goal
  BY <1>1 DEF HookRefused, chainVars
<1>2. ASSUME NEW th \in Thread, NEW e \in Elf, FindFault(th, e) PROVE Goal
  BY <1>2 DEF FindFault, chainVars
<1>3. ASSUME NEW th \in Thread, NEW e \in Elf, HookCfi(th, e) PROVE Goal
  BY <1>3 DEF HookCfi, chainVars
<1>4. ASSUME NEW th \in Thread, NEW e \in Elf, UnhookRefused(th, e) PROVE Goal
  BY <1>4 DEF UnhookRefused, chainVars
<1>5. ASSUME NEW th \in Thread, NEW e \in Elf, FindSlots(th, e) PROVE Goal
  BY <1>5 DEF FindSlots, chainVars
<1>6. ASSUME NEW th \in Thread, NEW g \in Got, ReadFault(th, g) PROVE Goal
  BY <1>6 DEF ReadFault, chainVars
<1>7. ASSUME NEW th \in Thread, NEW g \in Got, AddFuncFound(th, g) PROVE Goal
  BY <1>7 DEF AddFuncFound, chainVars
<1>8. ASSUME NEW th \in Thread, NEW g \in Got, AddFuncRepeated(th, g) PROVE Goal
  BY <1>8 DEF AddFuncRepeated, chainVars
<1>9. ASSUME NEW th \in Thread, NEW g \in Got, AddFuncCreated(th, g) PROVE Goal
  BY <1>9 DEF AddFuncCreated, chainVars
<1>10. ASSUME NEW th \in Thread, NEW g \in Got, CreateFails(th, g) PROVE Goal
  BY <1>10 DEF CreateFails, chainVars
<1>11. ASSUME NEW th \in Thread, NEW g \in Got, AppendFails(th, g) PROVE Goal
  BY <1>11 DEF AppendFails, chainVars
<1>12. ASSUME NEW th \in Thread, NEW g \in Got, DelFuncNone(th, g) PROVE Goal
  BY <1>12 DEF DelFuncNone, chainVars
<1>13. ASSUME NEW th \in Thread, NEW g \in Got, DelFunc(th, g) PROVE Goal
  BY <1>13 DEF DelFunc, chainVars
<1>14. ASSUME NEW th \in Thread, NEW g \in Got, ManualHook(th, g) PROVE Goal
  <2>1. FuncOf[TaskOf(th)] \in Mutable
    BY <1>14, TaskFacts DEF ManualHook, HookSlot, Mutable
  <2>2. got' = [got EXCEPT ![g] = FuncOf[TaskOf(th)]]
    BY <1>14 DEF ManualHook
  <2> QED
    BY <2>1, <2>2 DEF TypeOK
<1>15. ASSUME NEW th \in Thread, NEW g \in Got, ManualHookFails(th, g) PROVE Goal
  BY <1>15 DEF ManualHookFails, chainVars
<1>16. ASSUME NEW th \in Thread, NEW g \in Got, ManualUnhook(th, g) PROVE Goal
  <2>1. TaskOf(th) \in Task /\ job[th].op = "unhook" /\ pc[th] # "idle"
    BY <1>16, TaskFacts DEF ManualUnhook, UnhookSlot
  <2>2. manual_orig[TaskOf(th)] \in Mutable
    BY <2>1 DEF PhaseInv, PhaseOk, TypeOK
  <2>3. got' \in {got, [got EXCEPT ![g] = manual_orig[TaskOf(th)]]}
    BY <1>16 DEF ManualUnhook
  <2> QED
    BY <2>2, <2>3 DEF TypeOK
<1>17. ASSUME NEW th \in Thread, Lock(th) PROVE Goal
  BY <1>17 DEF Lock, chainVars
<1>18. ASSUME NEW th \in Thread, Unlock(th) PROVE Goal
  BY <1>18 DEF Unlock, chainVars
<1>19. ASSUME NEW th \in Thread, Replace(th) PROVE Goal
  BY <1>19 DEF Replace, TreeInv, TreeOk
<1>20. ASSUME NEW th \in Thread, ReplaceFails(th) PROVE Goal
  BY <1>20 DEF ReplaceFails, chainVars
<1>21. ASSUME NEW th \in Thread, Restore(th) PROVE Goal
  BY <1>21 DEF Restore, TreeInv, TreeOk
<1>22. ASSUME NEW th \in Thread, Finish(th) PROVE Goal
  BY <1>22 DEF Finish, chainVars
<1>23. ASSUME NEW th \in Thread, NEW t \in Task, HookBegin(th, t) PROVE Goal
  BY <1>23 DEF HookBegin, chainVars
<1>24. ASSUME NEW th \in Thread, NEW t \in Task, UnhookBegin(th, t) PROVE Goal
  BY <1>24 DEF UnhookBegin, chainVars
<1>25. ASSUME NEW th \in Thread, NEW t \in Task, NEW e \in Elf, HookElfBegin(th, t, e) PROVE Goal
  BY <1>25 DEF HookElfBegin, chainVars
<1>26. CASE UNCHANGED vars
  BY <1>26 DEF vars
<1> HIDE DEF Goal
<1> QED
  BY <1>1, <1>2, <1>3, <1>4, <1>5, <1>6, <1>7, <1>8, <1>9, <1>10, <1>11, <1>12, <1>13,
     <1>14, <1>15, <1>16, <1>17, <1>18, <1>19, <1>20, <1>21, <1>22, <1>23, <1>24, <1>25,
     <1>26
     DEF Next, Progress, ElfStep, SlotStep, Quiet

\* An ELF is marked by a fault on reading or writing it only.
NoError == \A e \in Elf : ~error[e]

\* Without these faults no step marks an ELF.
LEMMA ErrorSteps ==
  ASSUME Faults \cap {"read", "set_got"} = {}, [Next]_vars
  PROVE  error' = error
<1> DEFINE Goal == error' = error
<1> SUFFICES Goal
  OBVIOUS
<1>1. ASSUME NEW th \in Thread, NEW e \in Elf, HookRefused(th, e) PROVE Goal
  BY <1>1 DEF HookRefused
<1>2. ASSUME NEW th \in Thread, NEW e \in Elf, FindFault(th, e) PROVE Goal
  BY <1>2 DEF FindFault
<1>3. ASSUME NEW th \in Thread, NEW e \in Elf, HookCfi(th, e) PROVE Goal
  BY <1>3 DEF HookCfi
<1>4. ASSUME NEW th \in Thread, NEW e \in Elf, UnhookRefused(th, e) PROVE Goal
  BY <1>4 DEF UnhookRefused
<1>5. ASSUME NEW th \in Thread, NEW e \in Elf, FindSlots(th, e) PROVE Goal
  BY <1>5 DEF FindSlots
<1>6. ASSUME NEW th \in Thread, NEW g \in Got, ReadFault(th, g) PROVE Goal
  BY <1>6 DEF ReadFault
<1>7. ASSUME NEW th \in Thread, NEW g \in Got, AddFuncFound(th, g) PROVE Goal
  BY <1>7 DEF AddFuncFound
<1>8. ASSUME NEW th \in Thread, NEW g \in Got, AddFuncRepeated(th, g) PROVE Goal
  BY <1>8 DEF AddFuncRepeated
<1>9. ASSUME NEW th \in Thread, NEW g \in Got, AddFuncCreated(th, g) PROVE Goal
  BY <1>9 DEF AddFuncCreated
<1>10. ASSUME NEW th \in Thread, NEW g \in Got, CreateFails(th, g) PROVE Goal
  BY <1>10 DEF CreateFails
<1>11. ASSUME NEW th \in Thread, NEW g \in Got, AppendFails(th, g) PROVE Goal
  BY <1>11 DEF AppendFails
<1>12. ASSUME NEW th \in Thread, NEW g \in Got, DelFuncNone(th, g) PROVE Goal
  BY <1>12 DEF DelFuncNone
<1>13. ASSUME NEW th \in Thread, NEW g \in Got, DelFunc(th, g) PROVE Goal
  BY <1>13 DEF DelFunc
<1>14. ASSUME NEW th \in Thread, NEW g \in Got, ManualHook(th, g) PROVE Goal
  BY <1>14 DEF ManualHook
<1>15. ASSUME NEW th \in Thread, NEW g \in Got, ManualHookFails(th, g) PROVE Goal
  BY <1>15 DEF ManualHookFails, ReplaceFailures, ErrorAfter
<1>16. ASSUME NEW th \in Thread, NEW g \in Got, ManualUnhook(th, g) PROVE Goal
  BY <1>16 DEF ManualUnhook, ReplaceFailures, ErrorAfter
<1>17. ASSUME NEW th \in Thread, Lock(th) PROVE Goal
  BY <1>17 DEF Lock
<1>18. ASSUME NEW th \in Thread, Unlock(th) PROVE Goal
  BY <1>18 DEF Unlock
<1>19. ASSUME NEW th \in Thread, Replace(th) PROVE Goal
  BY <1>19 DEF Replace
<1>20. ASSUME NEW th \in Thread, ReplaceFails(th) PROVE Goal
  BY <1>20 DEF ReplaceFails, ReplaceFailures, ErrorAfter
<1>21. ASSUME NEW th \in Thread, Restore(th) PROVE Goal
  BY <1>21 DEF Restore, ReplaceFailures, ErrorAfter
<1>22. ASSUME NEW th \in Thread, Finish(th) PROVE Goal
  BY <1>22 DEF Finish
<1>23. ASSUME NEW th \in Thread, NEW t \in Task, HookBegin(th, t) PROVE Goal
  BY <1>23 DEF HookBegin
<1>24. ASSUME NEW th \in Thread, NEW t \in Task, UnhookBegin(th, t) PROVE Goal
  BY <1>24 DEF UnhookBegin
<1>25. ASSUME NEW th \in Thread, NEW t \in Task, NEW e \in Elf, HookElfBegin(th, t, e) PROVE Goal
  BY <1>25 DEF HookElfBegin
<1>26. CASE UNCHANGED vars
  BY <1>26 DEF vars
<1> HIDE DEF Goal
<1> QED
  BY <1>1, <1>2, <1>3, <1>4, <1>5, <1>6, <1>7, <1>8, <1>9, <1>10, <1>11, <1>12, <1>13,
     <1>14, <1>15, <1>16, <1>17, <1>18, <1>19, <1>20, <1>21, <1>22, <1>23, <1>24, <1>25,
     <1>26
     DEF Next, Progress, ElfStep, SlotStep, Quiet

-----------------------------------------------------------------------------
(* The steps of the callers                                                *)

\* A frame is of a chain of its slot, and of entries the chain has.
FramesIn(fs) ==
    \A m \in 1..Len(fs) :
        /\ fs[m].chain \in ChainNos(fs[m].slot)
        /\ fs[m].head <= Len(chains[fs[m].slot][fs[m].chain].list)

StackInv ==
    /\ TrampoTypeOK
    /\ ManualGot
    /\ \A c \in Caller : StackOk(frames[c], native[c]) /\ FramesIn(frames[c])

\* What a slot holds is a function, or the trampoline of one of its chains.
LEMMA SlotChain ==
  ASSUME IInv, ManualGot, NEW g \in Got, got[g] \notin Mutable
  PROVE  got[g] \in ChainNos(g) /\ chains[g][got[g]] \in Chain /\ got[g] \in Nat
<1>1. OrigOf[g] \in Mutable
  BY HookManagerAssumption DEF Mutable
<1>2. mode = "AUTO"
  BY DEF IInv, TypeInv, TypeOK, ManualGot
<1>3. got[g] \in ChainNos(g)
  BY <1>1, <1>2 DEF IInv, OrigInv, OrigKept
<1> QED
  BY <1>3 DEF IInv, TypeInv, TypeOK, ChainNos

\* bh_trampo_push_stack enters an enabled entry.
LEMMA NewestEnabled ==
  ASSUME NEW ch \in Chain, Enabled(ch) # {}
  PROVE  Max(Enabled(ch)) \in Enabled(ch) /\ Max(Enabled(ch)) \in 1..Len(ch.list)
<1>1. Enabled(ch) \in SUBSET (1..Len(ch.list)) /\ Len(ch.list) \in Nat
  BY ChainList DEF Enabled
<1> QED
  BY <1>1, MaxEntry

\* bh_trampo_get_prev_func finds an enabled entry, older than one of the function.
LEMMA PrevEntryFacts ==
  ASSUME NEW fr \in Frame, NEW f
  PROVE  LET list == chains[fr.slot][fr.chain].list
             n == PrevEntry(fr, f)
         IN  /\ n \in 0..fr.head
             /\ n # 0 => /\ list[n].enabled
                         /\ \E i \in 1..fr.head : list[i].func = f /\ n < i
<1> DEFINE list == chains[fr.slot][fr.chain].list
           same == {i \in 1..fr.head : list[i].func = f}
           older == {i \in 1..fr.head : list[i].enabled /\ i < Max(same)}
<1>1. fr.head \in Nat /\ same \in SUBSET (1..fr.head) /\ older \in SUBSET (1..fr.head)
  BY DEF Frame
<1>2. PrevEntry(fr, f) = IF same = {} \/ older = {} THEN 0 ELSE Max(older)
  BY DEF PrevEntry
<1>3. CASE same = {} \/ older = {}
  <2>1. PrevEntry(fr, f) = 0
    BY <1>2, <1>3
  <2> QED
    BY <1>1, <2>1
<1>4. CASE same # {} /\ older # {}
  <2>1. Max(same) \in same /\ Max(older) \in older
    <3> HIDE DEF same, older
    <3> QED
      BY <1>1, <1>4, MaxEntry
  <2>2. /\ Max(older) \in 1..fr.head /\ list[Max(older)].enabled /\ Max(older) < Max(same)
        /\ Max(same) \in 1..fr.head /\ list[Max(same)].func = f
    BY <2>1
  <2>3. PrevEntry(fr, f) = Max(older)
    BY <1>2, <1>4
  <2> HIDE DEF same, older
  <2> QED
    BY <1>1, <2>2, <2>3
<1> QED
  BY <1>3, <1>4

\* The caller c changes its own stacks only.
Steps(c, fs, s) ==
    /\ fs \in Seq(Frame) /\ s \in Seq(Activation)
    /\ frames' = [frames EXCEPT ![c] = fs]
    /\ native' = [native EXCEPT ![c] = s]
    /\ UNCHANGED vars

\* What a caller must show of its own stacks.
LEMMA CallerFrame ==
  ASSUME StackInv, NEW c \in Caller, NEW fs, NEW s, Steps(c, fs, s),
         tls' \in [Caller -> BOOLEAN], Len(fs) <= MaxFrame, StackOk(fs, s), FramesIn(fs)
  PROVE  StackInv'
<1>1. TrampoTypeOK'
  BY DEF StackInv, TrampoTypeOK, Steps
<1>2. ManualGot'
  BY DEF StackInv, ManualGot, Steps, vars
<1>3. ASSUME NEW d \in Caller PROVE StackOk(frames[d], native[d])' /\ FramesIn(frames[d])'
  <2>1. CASE d = c
    <3>1. frames'[d] = fs /\ native'[d] = s
      BY <2>1 DEF StackInv, TrampoTypeOK, Steps
    <3> QED
      BY <3>1 DEF FramesIn, ChainNos, Steps, vars
  <2>2. CASE d # c
    <3>1. frames'[d] = frames[d] /\ native'[d] = native[d]
      BY <2>2 DEF StackInv, TrampoTypeOK, Steps
    <3> QED
      BY <3>1 DEF StackInv, FramesIn, ChainNos, Steps, vars
  <2> QED
    BY <2>1, <2>2
<1> QED
  BY <1>1, <1>2, <1>3 DEF StackInv

\* What each step does to the stacks of its caller.
LEMMA PushSteps ==
  ASSUME IInv, StackInv, NEW c \in Caller, NEW g \in Got, Push(c, g)
  PROVE  \E fr \in Frame, a \in Activation :
            /\ Steps(c, Append(frames[c], fr), Append(native[c], a))
            /\ a.entry # 0 /\ a.ra # "prev" /\ RunsFor(a, fr)
            /\ fr.orig \notin {frames[c][k].orig : k \in 1..Len(frames[c])}
            /\ Len(frames[c]) < MaxFrame
            /\ a.chain \in ChainNos(a.slot)
            /\ a.entry \in Enabled(chains[a.slot][a.chain])
            /\ fr.head = Len(chains[a.slot][a.chain].list)
<1> DEFINE n == got[g]
           ch == chains[g][n]
           fr == [slot |-> g, chain |-> n, head |-> Len(ch.list), orig |-> ch.orig,
                  ra |-> g]
           a == [slot |-> g, chain |-> n, entry |-> Max(Enabled(ch)), ra |-> g]
<1>1. n \in ChainNos(g) /\ ch \in Chain /\ n \in Nat
  BY SlotChain DEF Push, StackInv
<1>2. Max(Enabled(ch)) \in Enabled(ch) /\ Max(Enabled(ch)) \in 1..Len(ch.list)
  BY <1>1, NewestEnabled DEF Push
<1>3. Len(ch.list) \in Nat /\ ch.orig \in Orig \cup Nat
  BY <1>1, ChainList
<1>4. /\ frames' = [frames EXCEPT ![c] = Append(frames[c], fr)]
      /\ native' = [native EXCEPT ![c] = Append(native[c], a)]
      /\ UNCHANGED vars /\ ~Recursive(c, ch.orig) /\ Len(frames[c]) < MaxFrame
  BY DEF Push, Activate
<1>5. frames[c] \in Seq(Frame) /\ native[c] \in Seq(Activation)
  BY DEF StackInv, TrampoTypeOK
<1>6. fr.orig \notin {frames[c][k].orig : k \in 1..Len(frames[c])}
  BY <1>4 DEF Recursive
<1> HIDE DEF ch
<1>7. fr \in Frame /\ a \in Activation /\ RunsFor(a, fr) /\ a.entry # 0 /\ a.ra # "prev"
  BY <1>1, <1>2, <1>3, TrampoStackAssumption DEF Frame, Activation, RunsFor
<1>8. a.slot = g /\ a.chain = n /\ a.entry = Max(Enabled(ch)) /\ fr.head = Len(ch.list)
  OBVIOUS
<1>10. chains[a.slot][a.chain] = ch
  BY DEF ch
<1> HIDE DEF fr, a, n
<1>9. Steps(c, Append(frames[c], fr), Append(native[c], a))
  BY <1>4, <1>5, <1>7 DEF Steps
<1> QED
  <2>1. a.chain \in ChainNos(a.slot)
    BY <1>1, <1>8
  <2>2. a.entry \in Enabled(chains[a.slot][a.chain])
    BY <1>2, <1>8, <1>10
  <2>3. fr.head = Len(chains[a.slot][a.chain].list)
    BY <1>8, <1>10
  <2>4. fr.orig \notin {frames[c][k].orig : k \in 1..Len(frames[c])}
    BY <1>6
  <2> QED
    BY <1>4, <1>7, <1>9, <2>1, <2>2, <2>3, <2>4, Zenon

\* ... a call of an original function,
LEMMA PlainSteps ==
  ASSUME IInv, StackInv, NEW c \in Caller, NEW g \in Got, CallPlain(c, g) \/ PushNone(c, g)
  PROVE  \E a \in Activation :
            a.entry = 0 /\ a.ra # "prev" /\ Steps(c, frames[c], Append(native[c], a))
<1>1. PICK n \in Nat : native' = [native EXCEPT ![c] = Append(native[c], Original(g, n, g))]
  <2>1. got[g] \notin Mutable => got[g] \in Nat
    BY DEF IInv, TypeInv, TypeOK
  <2> QED
    BY <2>1 DEF CallPlain, PushNone, Activate
<1>2. UNCHANGED <<vars, frames>>
  BY DEF CallPlain, PushNone
<1>3. frames[c] \in Seq(Frame) /\ native[c] \in Seq(Activation)
      /\ frames = [frames EXCEPT ![c] = frames[c]]
  BY DEF StackInv, TrampoTypeOK
<1>4. /\ Original(g, n, g) \in Activation /\ Original(g, n, g).entry = 0
      /\ Original(g, n, g).ra # "prev"
  BY TrampoStackAssumption DEF Activation, Original
<1> DEFINE a == Original(g, n, g)
<1> HIDE DEF a
<1>5. Append(native[c], a) \in Seq(Activation) /\ a \in Activation
  BY <1>3, <1>4 DEF a
<1>6. Steps(c, frames[c], Append(native[c], a))
  BY <1>1, <1>2, <1>3, <1>5 DEF Steps, a
<1> QED
  BY <1>4, <1>5, <1>6 DEF a

\* ... a call from the proxy on the top, which runs for the frame on the top,
LEMMA CallPrevSteps ==
  ASSUME IInv, StackInv, NEW c \in Caller, CallPrev(c)
  PROVE  LET o == Top(native[c])
             fr == Top(frames[c])
         IN  /\ native[c] # <<>> /\ frames[c] # <<>>
             /\ o \in Activation /\ fr \in Frame /\ RunsFor(o, fr) /\ o.entry # 0
             /\ fr.chain \in ChainNos(fr.slot)
             /\ fr.head <= Len(chains[fr.slot][fr.chain].list)
             /\ \E a \in Activation :
                   /\ Steps(c, frames[c], Append(native[c], a))
                   /\ a.ra = "prev" /\ a.entry # 0 => RunsFor(a, fr)
                   /\ a.ra = "prev" /\ a.slot = fr.slot /\ a.chain = fr.chain
                   /\ a.entry = PrevEntry(fr, chains[o.slot][o.chain].list[o.entry].func)
<1> DEFINE o == Top(native[c])
           fr == Top(frames[c])
           f == chains[o.slot][o.chain].list[o.entry].func
           a == [slot |-> fr.slot, chain |-> fr.chain, entry |-> PrevEntry(fr, f),
                 ra |-> "prev"]
<1>1. /\ frames[c] \in Seq(Frame) /\ native[c] \in Seq(Activation)
      /\ native[c] # <<>> /\ frames[c] # <<>> /\ o.entry # 0
      /\ frames = [frames EXCEPT ![c] = frames[c]]
  BY DEF StackInv, TrampoTypeOK, CallPrev
<1>2. o \in Activation /\ fr \in Frame
  BY <1>1 DEF Top
<1>3. RunsFor(o, fr)
  BY <1>1, StackReturn DEF StackInv
<1>4. fr.chain \in ChainNos(fr.slot) /\ fr.head <= Len(chains[fr.slot][fr.chain].list)
  <2>1. Len(frames[c]) \in 1..Len(frames[c])
    BY <1>1
  <2> QED
    BY <2>1 DEF StackInv, FramesIn, Top
<1>5. /\ native' = [native EXCEPT ![c] = Append(native[c], a)]
      /\ UNCHANGED <<vars, frames>>
  BY DEF CallPrev, Activate
<1> HIDE DEF o, fr, f
<1>6. PrevEntry(fr, f) \in 0..fr.head /\ fr.head \in Nat
  BY <1>2, PrevEntryFacts DEF Frame
<1>7. a \in Activation /\ RunsFor(a, fr)
  BY <1>2, <1>6 DEF Frame, Activation, RunsFor
<1>8. a.ra = "prev" /\ a.slot = fr.slot /\ a.chain = fr.chain /\ a.entry = PrevEntry(fr, f)
  OBVIOUS
<1> HIDE DEF a
<1>9. Steps(c, frames[c], Append(native[c], a))
  BY <1>1, <1>5, <1>7 DEF Steps
<1> QED
  BY <1>1, <1>2, <1>3, <1>4, <1>7, <1>8, <1>9 DEF o, fr, f

\* ... a return.
LEMMA ReturnSteps ==
  ASSUME StackInv, NEW c \in Caller, Return(c)
  PROVE  /\ native[c] # <<>>
         /\ \/ Steps(c, frames[c], Pop(native[c])) /\ StackOk(frames[c], Pop(native[c]))
            \/ /\ frames[c] # <<>> /\ Steps(c, Pop(frames[c]), Pop(native[c]))
               /\ StackOk(Pop(frames[c]), Pop(native[c]))
<1> DEFINE fs == frames[c]
           s == native[c]
           pops == Top(s).entry # 0 /\ fs # <<>> /\ Top(fs).ra = Top(s).ra
<1>1. /\ fs \in Seq(Frame) /\ s \in Seq(Activation) /\ s # <<>> /\ StackOk(fs, s)
      /\ frames = [frames EXCEPT ![c] = fs]
  BY DEF StackInv, TrampoTypeOK, Return
<1>2. /\ native' = [native EXCEPT ![c] = Pop(s)]
      /\ frames' = IF pops THEN [frames EXCEPT ![c] = Pop(fs)] ELSE frames
      /\ UNCHANGED vars
  BY <1>1 DEF Return, PopStack
<1>3. StackOk(IF pops THEN Pop(fs) ELSE fs, Pop(s))
  BY <1>1, StackReturn
<1>4. Pop(s) \in Seq(Activation)
  BY <1>1, PopFacts
<1>5. pops => fs # <<>> /\ Pop(fs) \in Seq(Frame)
  BY <1>1, PopFacts
<1> HIDE DEF pops
<1> QED
  BY <1>1, <1>2, <1>3, <1>4, <1>5 DEF Steps

-----------------------------------------------------------------------------
(* The invariant                                                           *)

\* A step of a caller keeps the stacks matching.
LEMMA StackKept ==
  ASSUME IInv, StackInv, NEW c \in Caller, CallerStep(c)
  PROVE  StackInv'
<1>1. /\ frames[c] \in Seq(Frame) /\ native[c] \in Seq(Activation)
      /\ StackOk(frames[c], native[c]) /\ FramesIn(frames[c]) /\ Len(frames[c]) <= MaxFrame
      /\ Len(frames[c]) \in Nat
  BY DEF StackInv, TrampoTypeOK
<1>2. tls' \in [Caller -> BOOLEAN]
  BY DEF StackInv, TrampoTypeOK, CallerStep, CallPlain, PushNone, Push, CallPrev, Return,
         Exit
<1>3. ASSUME NEW g \in Got, Push(c, g) PROVE StackInv'
  <2>1. PICK fr \in Frame, a \in Activation :
            /\ Steps(c, Append(frames[c], fr), Append(native[c], a))
            /\ a.entry # 0 /\ a.ra # "prev" /\ RunsFor(a, fr)
            /\ Len(frames[c]) < MaxFrame
            /\ a.chain \in ChainNos(a.slot)
            /\ fr.head = Len(chains[a.slot][a.chain].list)
    BY <1>3, PushSteps
  <2> DEFINE fs == Append(frames[c], fr)
             s == Append(native[c], a)
  <2>2. StackOk(fs, s)
    BY <1>1, <2>1, StackPush
  <2>3. /\ Len(fs) = Len(frames[c]) + 1 /\ fs[Len(fs)] = fr
        /\ \A m \in 1..Len(frames[c]) : fs[m] = frames[c][m]
    BY <1>1
  <2> HIDE DEF fs, s
  <2>4. fr.slot = a.slot /\ fr.chain = a.chain /\ fr.head \in Nat
    BY <2>1 DEF RunsFor, Frame
  <2>5. FramesIn(fs)
    <3> SUFFICES ASSUME NEW m \in 1..Len(fs)
                 PROVE  /\ fs[m].chain \in ChainNos(fs[m].slot)
                        /\ fs[m].head <= Len(chains[fs[m].slot][fs[m].chain].list)
      BY DEF FramesIn
    <3>1. CASE m = Len(fs)
      <4>1. fs[m] = fr
        BY <2>3, <3>1
      <4>2. fr.chain \in ChainNos(fr.slot) /\ fr.head <= Len(chains[fr.slot][fr.chain].list)
        BY <2>1, <2>4
      <4> QED
        BY <4>1, <4>2
    <3>2. CASE m \in 1..Len(frames[c])
      BY <1>1, <2>3, <3>2 DEF FramesIn
    <3> QED
      BY <1>1, <2>3, <3>1, <3>2
  <2>6. Len(fs) <= MaxFrame
    BY <1>1, <2>1, <2>3, TrampoStackAssumption
  <2>7. Steps(c, fs, s)
    BY <2>1 DEF fs, s
  <2> QED
    BY <1>2, <2>2, <2>5, <2>6, <2>7, CallerFrame
<1>4. ASSUME NEW g \in Got, CallPlain(c, g) \/ PushNone(c, g) PROVE StackInv'
  <2>1. PICK a \in Activation :
            a.entry = 0 /\ Steps(c, frames[c], Append(native[c], a))
    BY <1>4, PlainSteps
  <2>2. StackOk(frames[c], Append(native[c], a))
    BY <1>1, <2>1, StackCall
  <2> QED
    BY <1>1, <1>2, <2>1, <2>2, CallerFrame
<1>5. CASE CallPrev(c)
  <2>1. PICK a \in Activation :
            /\ Steps(c, frames[c], Append(native[c], a))
            /\ a.entry # 0 => RunsFor(a, Top(frames[c]))
            /\ a.ra = "prev"
    BY <1>5, CallPrevSteps
  <2>2. frames[c] # <<>>
    BY <1>5, CallPrevSteps
  <2>3. StackOk(frames[c], Append(native[c], a))
    BY <1>1, <2>1, <2>2, StackCall
  <2> QED
    BY <1>1, <1>2, <2>1, <2>3, CallerFrame
<1>6. CASE Return(c)
  <2>1. CASE /\ Steps(c, frames[c], Pop(native[c]))
             /\ StackOk(frames[c], Pop(native[c]))
    BY <1>1, <1>2, <2>1, CallerFrame
  <2>2. CASE /\ frames[c] # <<>> /\ Steps(c, Pop(frames[c]), Pop(native[c]))
             /\ StackOk(Pop(frames[c]), Pop(native[c]))
    <3>1. /\ Len(Pop(frames[c])) = Len(frames[c]) - 1
          /\ \A k \in 1..Len(Pop(frames[c])) : Pop(frames[c])[k] = frames[c][k]
      BY <1>1, <2>2, PopFacts
    <3>2. FramesIn(Pop(frames[c]))
      BY SMTT(30), <1>1, <3>1 DEF FramesIn
    <3>3. Len(Pop(frames[c])) <= MaxFrame
      BY <1>1, <3>1, TrampoStackAssumption
    <3> QED
      BY <1>2, <2>2, <3>2, <3>3, CallerFrame
  <2> QED
    BY <1>6, <2>1, <2>2, ReturnSteps
<1>7. CASE Exit(c)
  <2>1. Steps(c, <<>>, <<>>)
    BY <1>7 DEF Exit, Steps, StackInv, TrampoTypeOK
  <2>2. StackOk(<<>>, <<>>) /\ FramesIn(<<>>)
    BY FS_EmptySet DEF StackOk, EnteredOf, FramesIn
  <2>3. Len(<<>>) <= MaxFrame
    BY TrampoStackAssumption
  <2> QED
    BY <1>2, <2>1, <2>2, <2>3, CallerFrame
<1> QED
  BY <1>3, <1>4, <1>5, <1>6, <1>7 DEF CallerStep

\* They match at the start.
LEMMA StackInvInit ==
  ASSUME TrampoInit
  PROVE  StackInv
<1>1. IInv
  BY InitInv DEF TrampoInit
<1>2. ManualGot
  BY HookManagerAssumption DEF ManualGot, TrampoInit, Init, Mutable
<1>3. StackOk(<<>>, <<>>) /\ FramesIn(<<>>)
  BY FS_EmptySet DEF StackOk, EnteredOf, FramesIn
<1>4. TrampoTypeOK
  BY TrampoStackAssumption DEF TrampoTypeOK, TrampoInit
<1> QED
  BY <1>2, <1>3, <1>4 DEF StackInv, TrampoInit

\* The hooking threads leave the stacks alone and the chains longer.
LEMMA HookStep ==
  ASSUME IInv, StackInv, [Next]_vars, UNCHANGED trampoVars
  PROVE  StackInv'
<1>1. TrampoTypeOK'
  BY DEF StackInv, TrampoTypeOK, trampoVars
<1>2. ManualGot'
  BY NextMode, ManualGotSteps DEF StackInv, ManualGot, IInv, TypeInv
<1>3. ASSUME NEW c \in Caller PROVE StackOk(frames[c], native[c])' /\ FramesIn(frames[c])'
  <2>1. frames'[c] = frames[c] /\ native'[c] = native[c]
    BY DEF trampoVars
  <2>2. StackOk(frames[c], native[c])'
    BY <2>1 DEF StackInv
  <2>3. ASSUME NEW m \in 1..Len(frames[c])
        PROVE  /\ frames[c][m].chain \in ChainNos(frames[c][m].slot)'
               /\ frames[c][m].head <= Len(chains'[frames[c][m].slot][frames[c][m].chain].list)
    <3>1. frames[c][m] \in Frame
      BY DEF StackInv, TrampoTypeOK
    <3>2. PICK g \in Got, n \in Nat : g = frames[c][m].slot /\ n = frames[c][m].chain
      BY <3>1 DEF Frame
    <3>3. n \in ChainNos(g) /\ frames[c][m].head <= Len(chains[g][n].list)
      BY <3>2 DEF StackInv, FramesIn
    <3>4. n \in ChainNos(g)' /\ Len(chains'[g][n].list) >= Len(chains[g][n].list)
      BY <3>3, ChainGrows DEF IInv, TypeInv
    <3>5. chains[g][n] \in Chain
      BY <3>3 DEF IInv, TypeInv, TypeOK, ChainNos
    <3>6. chains'[g][n] \in Chain
      BY <3>4, ChainsType DEF IInv, TypeInv, ChainNos
    <3>7. /\ Len(chains[g][n].list) \in Nat /\ Len(chains'[g][n].list) \in Nat
          /\ frames[c][m].head \in Nat
      BY <3>1, <3>5, <3>6, ChainList DEF Frame
    <3>8. frames[c][m].head <= Len(chains'[g][n].list)
      <4>1. \A h, k, l \in Nat : h <= k /\ l >= k => h <= l
        OBVIOUS
      <4> QED
        BY <3>3, <3>4, <3>7, <4>1, Zenon
    <3>9. frames'[c][m].slot = g
      BY <2>1, <3>2
    <3> QED
      BY <3>2, <3>4, <3>8, <3>9 DEF ChainNos
  <2> QED
    BY <2>1, <2>2, <2>3 DEF FramesIn
<1> QED
  BY <1>1, <1>2, <1>3 DEF StackInv

\* Every behaviour of TrampoStack is one of HookManager.
THEOREM HooksBelow == TrampoSpec => Spec
<1>1. TrampoInit => Init
  BY DEF TrampoInit
<1>2. [TrampoNext]_allVars => [Next]_vars
  BY DEF TrampoNext, allVars, CallerStep, CallPlain, PushNone, Push, CallPrev, Return, Exit
<1> QED
  BY <1>1, <1>2, PTL DEF TrampoSpec, Spec

\* The stacks match in every state.
THEOREM StackInvariance == TrampoSpec => [](IInv /\ StackInv)
<1>1. TrampoInit => StackInv
  BY StackInvInit
<1>2. IInv /\ StackInv /\ [TrampoNext]_allVars => StackInv'
  <2> SUFFICES ASSUME IInv, StackInv, [TrampoNext]_allVars PROVE StackInv'
    OBVIOUS
  <2>1. CASE Next /\ UNCHANGED trampoVars
    BY <2>1, HookStep
  <2>2. ASSUME NEW c \in Caller, CallerStep(c) PROVE StackInv'
    BY <2>2, StackKept
  <2>3. CASE UNCHANGED allVars
    BY <2>3, HookStep DEF allVars
  <2> QED
    BY <2>1, <2>2, <2>3 DEF TrampoNext
<1> QED
  BY <1>1, <1>2, HooksBelow, Invariance, PTL DEF TrampoSpec

-----------------------------------------------------------------------------
(* The properties                                                          *)

\* A stack of frames never grows over BH_TRAMPO_STACK_FRAME_MAX, and frames and
\* activations are what they should be.
THEOREM TrampoTypesKept == TrampoSpec => []TrampoTypeOK
<1>1. StackInv => TrampoTypeOK
  BY DEF StackInv
<1> QED
  BY <1>1, StackInvariance, PTL

\* bytehook's frames are exactly the proxies entered through slots, in order: every
\* proxy pops its own frame and no other (bh_trampo_push_stack and
\* bh_trampo_pop_stack), whatever is hooked and unhooked while they run.
THEOREM FramesAlwaysMatch == TrampoSpec => []FramesMatch
<1>1. StackInv => FramesMatch
  <2> SUFFICES ASSUME StackInv, NEW c \in Caller
               PROVE  /\ Len(frames[c]) = Cardinality(Entered(c))
                      /\ \A k \in Entered(c) :
                            LET fr == frames[c][Cardinality(Entered(c) \cap 1..k)]
                            IN  fr.slot = native[c][k].slot /\ fr.chain = native[c][k].chain
    BY DEF FramesMatch
  <2>1. Entered(c) = EnteredOf(native[c]) /\ StackOk(frames[c], native[c])
    BY DEF Entered, EnteredOf, StackInv
  <2>2. \A k \in Entered(c) : k \in 1..Len(native[c]) /\ native[c][k].entry # 0
    BY DEF Entered
  <2>3. \A k \in Entered(c) : RunsFor(native[c][k], frames[c][Depth(native[c], k)])
    BY <2>1, <2>2 DEF StackOk
  <2> QED
    BY <2>1, <2>3 DEF StackOk, RunsFor, Depth
<1> QED
  BY <1>1, StackInvariance, PTL

\* While a proxy of a function runs, its thread does not enter a proxy of the function
\* through a slot again (the recursion check of bh_trampo_push_stack).
THEOREM NeverReentered == TrampoSpec => []NoReentry
<1>1. TrampoInit => NoReentry
  BY DEF TrampoInit, NoReentry
<1>2. IInv /\ StackInv /\ NoReentry /\ [TrampoNext]_allVars => NoReentry'
  <2> SUFFICES ASSUME IInv, StackInv, NoReentry, [TrampoNext]_allVars,
                      NEW d \in Caller, NEW j \in 1..Len(frames'[d]),
                      NEW k \in 1..Len(frames'[d]),
                      frames'[d][j].orig = frames'[d][k].orig
               PROVE  j = k
    BY DEF NoReentry
  <2>1. frames[d] \in Seq(Frame) /\ native[d] \in Seq(Activation) /\ Len(frames[d]) \in Nat
    BY DEF StackInv, TrampoTypeOK
  <2>2. CASE frames'[d] = frames[d]
    BY <2>2 DEF NoReentry
  <2>3. ASSUME NEW c \in Caller, NEW fs, NEW s, Steps(c, fs, s), d # c PROVE j = k
    BY <2>2, <2>3 DEF Steps, StackInv, TrampoTypeOK
  <2>4. ASSUME NEW c \in Caller, NEW fs, NEW s, Steps(c, fs, s) PROVE frames'[c] = fs
    BY <2>4 DEF Steps, StackInv, TrampoTypeOK
  <2>5. ASSUME NEW c \in Caller, NEW g \in Got, Push(c, g) PROVE j = k
    <3>1. PICK fr \in Frame, a \in Activation :
            /\ Steps(c, Append(frames[c], fr), Append(native[c], a))
            /\ fr.orig \notin {frames[c][m].orig : m \in 1..Len(frames[c])}
      BY <2>5, PushSteps
    <3>2. CASE c = d
      <4>1. frames'[d] = Append(frames[d], fr)
        BY <2>4, <3>1, <3>2
      <4>2. /\ Len(frames'[d]) = Len(frames[d]) + 1
            /\ frames'[d][Len(frames[d]) + 1] = fr
            /\ \A m \in 1..Len(frames[d]) : frames'[d][m] = frames[d][m]
        BY <2>1, <4>1
      <4>3. \A m \in 1..Len(frames[d]) : frames[d][m].orig # fr.orig
        BY <3>1, <3>2
      <4>4. CASE j \in 1..Len(frames[d]) /\ k \in 1..Len(frames[d])
        BY <4>2, <4>4 DEF NoReentry
      <4>5. CASE j = Len(frames[d]) + 1 /\ k \in 1..Len(frames[d])
        BY <4>2, <4>3, <4>5
      <4>6. CASE k = Len(frames[d]) + 1 /\ j \in 1..Len(frames[d])
        BY <4>2, <4>3, <4>6
      <4> QED
        BY <2>1, <4>2, <4>4, <4>5, <4>6
    <3> QED
      BY <2>3, <3>1, <3>2
  <2>6. ASSUME NEW c \in Caller, Return(c) PROVE j = k
    <3>1. CASE Steps(c, frames[c], Pop(native[c]))
      BY <2>2, <2>3, <2>4, <3>1
    <3>2. CASE frames[c] # <<>> /\ Steps(c, Pop(frames[c]), Pop(native[c]))
      <4>1. CASE c = d
        <5>1. frames'[d] = Pop(frames[d]) /\ frames[d] # <<>>
          BY <2>4, <3>2, <4>1
        <5>2. /\ Len(Pop(frames[d])) = Len(frames[d]) - 1
              /\ \A m \in 1..Len(Pop(frames[d])) : Pop(frames[d])[m] = frames[d][m]
          BY <2>1, <5>1, PopFacts
        <5> QED
          BY <2>1, <5>1, <5>2 DEF NoReentry
      <4> QED
        BY <2>3, <3>2, <4>1
    <3> QED
      BY <2>6, <3>1, <3>2, ReturnSteps
  <2>7. ASSUME NEW c \in Caller, Exit(c) PROVE j = k
    BY <2>2, <2>7 DEF Exit, StackInv, TrampoTypeOK
  <2>8. ASSUME NEW c \in Caller, NEW g \in Got, CallPlain(c, g) \/ PushNone(c, g)
        PROVE  j = k
    BY <2>2, <2>8 DEF CallPlain, PushNone
  <2>9. ASSUME NEW c \in Caller, CallPrev(c) PROVE j = k
    BY <2>2, <2>9 DEF CallPrev
  <2>10. CASE UNCHANGED trampoVars \/ UNCHANGED allVars
    BY <2>2, <2>10 DEF allVars, trampoVars
  <2> QED
    BY <2>5, <2>6, <2>7, <2>8, <2>9, <2>10 DEF TrampoNext, CallerStep
<1> QED
  BY <1>1, <1>2, StackInvariance, PTL DEF TrampoSpec

\* The entry that BYTEHOOK_CALL_PREV leads to is older than the running one, when the
\* proxy has one entry in the chain.
LEMMA PrevOlder ==
  ASSUME IInv, NEW o \in Activation, NEW fr \in Frame, RunsFor(o, fr), o.entry # 0,
         fr.chain \in ChainNos(fr.slot),
         fr.head <= Len(chains[fr.slot][fr.chain].list),
         \A t \in Task : Unshared(t)
  PROVE  PrevEntry(fr, chains[o.slot][o.chain].list[o.entry].func) < o.entry
<1> DEFINE f == chains[o.slot][o.chain].list[o.entry].func
<1>1. PICK g \in Got, n \in Nat :
         /\ n \in ChainNos(g)
         /\ g = fr.slot /\ n = fr.chain /\ g = o.slot /\ n = o.chain
         /\ fr.head <= Len(chains[g][n].list) /\ o.entry <= fr.head
         /\ o.entry \in Nat /\ fr.head \in Nat
  BY DEF RunsFor, Frame, Activation
<1> DEFINE ch == chains[g][n]
<1>2. ch \in Chain /\ EntriesOk(g, ch)
  BY <1>1 DEF IInv, TypeInv, TypeOK, ChainNos, EntryInv
<1>3. Len(ch.list) \in Nat /\ \A i \in 1..Len(ch.list) : ch.list[i].task \in Task
  BY <1>2, ChainList DEF Entry
<1> HIDE DEF ch
<1>4. ASSUME NEW i \in 1..fr.head, ch.list[i].func = f PROVE i = o.entry
  <2>1. i \in 1..Len(ch.list) /\ o.entry \in 1..Len(ch.list) /\ f = ch.list[o.entry].func
    BY <1>1, <1>3 DEF ch
  <2>2. /\ ch.list[i].func = FuncOf[ch.list[i].task]
        /\ f = FuncOf[ch.list[o.entry].task]
    BY <1>2, <2>1 DEF EntriesOk
  <2>3. ch.list[i].task = ch.list[o.entry].task
    BY <1>3, <1>4, <2>1, <2>2 DEF Unshared
  <2> QED
    BY <1>2, <2>1, <2>3 DEF EntriesOk
<1>5. chains[fr.slot][fr.chain] = ch
  BY <1>1 DEF ch
<1> HIDE DEF f
<1>6. /\ PrevEntry(fr, f) \in 0..fr.head
      /\ PrevEntry(fr, f) # 0 =>
           \E i \in 1..fr.head : ch.list[i].func = f /\ PrevEntry(fr, f) < i
  BY <1>5, PrevEntryFacts
<1>7. PrevEntry(fr, f) < o.entry
  <2>1. CASE PrevEntry(fr, f) = 0
    BY <1>1, <2>1
  <2>2. CASE PrevEntry(fr, f) # 0
    BY <1>4, <1>6, <2>2
  <2> QED
    BY <2>1, <2>2
<1> QED
  BY <1>7 DEF f

\* BYTEHOOK_CALL_PREV never goes back to a newer proxy, so no proxy runs twice in one
\* call, if no two tasks have the same proxy.  (A proxy that two tasks share has two
\* entries in a chain, and bh_trampo_get_prev_func goes on from the newer one.)
THEOREM PrevAlwaysOlder ==
  ASSUME \A t \in Task : Unshared(t)
  PROVE  TrampoSpec => []PrevIsOlder
<1>1. TrampoInit => PrevIsOlder
  BY DEF TrampoInit, PrevIsOlder
<1>2. IInv /\ StackInv /\ PrevIsOlder /\ [TrampoNext]_allVars => PrevIsOlder'
  <2> SUFFICES ASSUME IInv, StackInv, PrevIsOlder, [TrampoNext]_allVars,
                      NEW d \in Caller, NEW k \in 2..Len(native'[d]),
                      native'[d][k].ra = "prev"
               PROVE  native'[d][k].entry < native'[d][k - 1].entry
    BY DEF PrevIsOlder
  <2>1. native[d] \in Seq(Activation) /\ Len(native[d]) \in Nat
    BY DEF StackInv, TrampoTypeOK
  <2> DEFINE Older == native'[d][k].entry < native'[d][k - 1].entry
  <2>2. CASE native'[d] = native[d]
    BY <2>2 DEF PrevIsOlder
  <2>3. ASSUME NEW c \in Caller, NEW fs, NEW s, Steps(c, fs, s), d # c PROVE Older
    BY <2>2, <2>3 DEF Steps, StackInv, TrampoTypeOK
  <2>4. ASSUME NEW c \in Caller, NEW fs, NEW s, Steps(c, fs, s) PROVE native'[c] = s
    BY <2>4 DEF Steps, StackInv, TrampoTypeOK
  <2>5. ASSUME NEW a \in Activation, native'[d] = Append(native[d], a),
               a.ra = "prev" => native[d] # <<>> /\ a.entry < Top(native[d]).entry
        PROVE  Older
    <3>1. /\ Len(native'[d]) = Len(native[d]) + 1
          /\ native'[d][Len(native[d]) + 1] = a
          /\ \A m \in 1..Len(native[d]) : native'[d][m] = native[d][m]
      BY <2>1, <2>5
    <3>2. CASE k = Len(native[d]) + 1
      <4>1. native'[d][k] = a /\ native'[d][k - 1] = Top(native[d])
        BY <2>1, <3>1, <3>2 DEF Top
      <4> QED
        BY <2>5, <4>1
    <3>3. CASE k \in 2..Len(native[d])
      <4>1. native'[d][k] = native[d][k] /\ native'[d][k - 1] = native[d][k - 1]
        BY SMTT(30), <2>1, <3>1, <3>3
      <4> QED
        BY <3>3, <4>1 DEF PrevIsOlder
    <3> QED
      BY <2>1, <3>1, <3>2, <3>3
  <2> HIDE DEF Older
  <2>6. ASSUME NEW c \in Caller, NEW g \in Got, Push(c, g) PROVE Older
    <3>1. PICK fr \in Frame, a \in Activation :
            Steps(c, Append(frames[c], fr), Append(native[c], a)) /\ a.ra # "prev"
      BY <2>6, PushSteps
    <3> QED
      BY <2>3, <2>4, <2>5, <3>1
  <2>7. ASSUME NEW c \in Caller, NEW g \in Got, CallPlain(c, g) \/ PushNone(c, g)
        PROVE  Older
    <3>1. PICK a \in Activation :
            Steps(c, frames[c], Append(native[c], a)) /\ a.ra # "prev"
      BY <2>7, PlainSteps
    <3> QED
      BY <2>3, <2>4, <2>5, <3>1
  <2>8. ASSUME NEW c \in Caller, CallPrev(c) PROVE Older
    <3>1. PICK a \in Activation :
            /\ Steps(c, frames[c], Append(native[c], a))
            /\ a.entry = PrevEntry(Top(frames[c]),
                 chains[Top(native[c]).slot][Top(native[c]).chain].list[Top(native[c]).entry].func)
      BY <2>8, CallPrevSteps
    <3>2. a.entry < Top(native[c]).entry /\ native[c] # <<>>
      BY <2>8, <3>1, CallPrevSteps, PrevOlder
    <3> QED
      BY <2>3, <2>4, <2>5, <3>1, <3>2
  <2>9. ASSUME NEW c \in Caller, Return(c) PROVE Older
    <3>1. PICK fs : Steps(c, fs, Pop(native[c]))
      BY <2>9, ReturnSteps
    <3>2. CASE c = d
      <4>1. native'[d] = Pop(native[d]) /\ native[d] # <<>>
        BY <2>4, <2>9, <3>1, <3>2, ReturnSteps
      <4>2. /\ Len(native'[d]) = Len(native[d]) - 1
            /\ \A m \in 1..Len(native'[d]) : native'[d][m] = native[d][m]
        <5>1. /\ Len(Pop(native[d])) = Len(native[d]) - 1
              /\ \A m \in 1..Len(Pop(native[d])) : Pop(native[d])[m] = native[d][m]
          BY <2>1, <4>1, PopFacts
        <5> QED
          BY <4>1, <5>1
      <4>3. /\ k \in 2..Len(native[d]) /\ native'[d][k] = native[d][k]
            /\ native'[d][k - 1] = native[d][k - 1]
        BY <2>1, <4>2
      <4> QED
        BY <4>3 DEF PrevIsOlder, Older
    <3> QED
      BY <2>3, <3>1, <3>2
  <2>10. CASE UNCHANGED trampoVars \/ UNCHANGED allVars \/ \E c \in Caller : Exit(c)
    <3>1. native' = native
      BY <2>10 DEF allVars, trampoVars, Exit
    <3> QED
      BY <2>2, <3>1 DEF Older
  <2> QED
    BY <2>6, <2>7, <2>8, <2>9, <2>10 DEF TrampoNext, CallerStep, Older
<1> QED
  BY <1>1, <1>2, StackInvariance, PTL DEF TrampoSpec

\* Without faults on reading or writing an ELF, no ELF is marked.
LEMMA NeverInError ==
  ASSUME Faults \cap {"read", "set_got"} = {}
  PROVE  Spec => []NoError
<1>1. Init => NoError
  BY DEF Init, NoError
<1>2. NoError /\ [Next]_vars => NoError'
  BY ErrorSteps DEF NoError
<1> QED
  BY <1>1, <1>2, PTL DEF Spec

\* An enabled entry is of a task that is not gone.
LEMMA EnabledAlive ==
  ASSUME IInv, NoError, NEW g \in Got, NEW n \in ChainNos(g), NEW i \in Enabled(chains[g][n])
  PROVE  phase[chains[g][n].list[i].task] # "gone"
<1>1. i \in 1..Len(chains[g][n].list)
  BY DEF Enabled
<1>2. chains[g][n] \in Chain
  BY DEF IInv, TypeInv, TypeOK, ChainNos
<1>3. chains[g][n].list[i].task \in Task
  BY <1>1, <1>2, ChainList DEF Entry
<1>4. PICK e \in ScopeOf[chains[g][n].list[i].task] : g \in GotsOf[e]
  BY <1>1 DEF IInv, EntryInv, EntriesOk
<1>5. e \in Elf
  BY <1>3, HookManagerAssumption
<1> QED
  BY <1>4, <1>5 DEF IInv, GoneSilent, NoError

\* No thread enters the proxy of a task after bh_core_unhook destroyed it, through a
\* slot or from another proxy, if no ELF is in error (bh_hook_manager_unhook skips such
\* an ELF).
THEOREM NeverCalledAfterUnhook ==
  ASSUME Faults \cap {"read", "set_got"} = {}
  PROVE  TrampoSpec => NoCallAfterUnhook
<1> DEFINE Alive == \A c \in Caller :
             Len(native'[c]) > Len(native[c]) /\ Top(native'[c]).entry # 0 =>
                 LET a == Top(native'[c])
                 IN  phase[chains[a.slot][a.chain].list[a.entry].task] # "gone"
<1>1. IInv /\ StackInv /\ NoError /\ [TrampoNext]_allVars => [Alive]_allVars
  <2> SUFFICES ASSUME IInv, StackInv, NoError, [TrampoNext]_allVars, NEW d \in Caller,
                      Len(native'[d]) > Len(native[d]), Top(native'[d]).entry # 0,
                      NEW a, a = Top(native'[d])
               PROVE  phase[chains[a.slot][a.chain].list[a.entry].task] # "gone"
    OBVIOUS
  <2>1. native[d] \in Seq(Activation) /\ Len(native[d]) \in Nat
    BY DEF StackInv, TrampoTypeOK
  <2>2. native'[d] # native[d]
    BY <2>1
  <2>3. ASSUME NEW c \in Caller, NEW fs, NEW s, Steps(c, fs, s)
        PROVE  c = d /\ native'[d] = s
    BY <2>2, <2>3 DEF Steps, StackInv, TrampoTypeOK
  <2>4. ASSUME NEW b \in Activation, native'[d] = Append(native[d], b) PROVE a = b
    BY <2>1, <2>4 DEF Top
  <2> DEFINE OfLiving == phase[chains[a.slot][a.chain].list[a.entry].task] # "gone"
  <2>5. ASSUME NEW c \in Caller, NEW g \in Got, Push(c, g) PROVE OfLiving
    <3>1. PICK fr \in Frame, b \in Activation :
            /\ Steps(c, Append(frames[c], fr), Append(native[c], b))
            /\ b.chain \in ChainNos(b.slot)
            /\ b.entry \in Enabled(chains[b.slot][b.chain])
      BY <2>5, PushSteps
    <3>2. a = b /\ b.slot \in Got
      BY <2>3, <2>4, <3>1 DEF Activation
    <3> QED
      BY <3>1, <3>2, EnabledAlive
  <2>6. ASSUME NEW c \in Caller, NEW g \in Got, CallPlain(c, g) \/ PushNone(c, g)
        PROVE  FALSE
    <3>1. PICK b \in Activation : b.entry = 0 /\ Steps(c, frames[c], Append(native[c], b))
      BY <2>6, PlainSteps
    <3> QED
      BY <2>3, <2>4, <3>1
  <2>7. ASSUME NEW c \in Caller, CallPrev(c) PROVE OfLiving
    <3> DEFINE o == Top(native[c])
               f == chains[o.slot][o.chain].list[o.entry].func
    <3>0. PICK fr \in Frame : fr = Top(frames[c])
      BY <2>7, CallPrevSteps
    <3>1. PICK b \in Activation :
            /\ Steps(c, frames[c], Append(native[c], b))
            /\ fr.chain \in ChainNos(fr.slot)
            /\ fr.head <= Len(chains[fr.slot][fr.chain].list)
            /\ b.slot = fr.slot /\ b.chain = fr.chain /\ b.entry = PrevEntry(fr, f)
      BY <2>7, <3>0, CallPrevSteps
    <3> HIDE DEF f
    <3>2. a = b /\ b.entry # 0
      BY <2>3, <2>4, <3>1
    <3>3. PICK g \in Got, n \in Nat : n \in ChainNos(g) /\ g = fr.slot /\ n = fr.chain
      BY <3>1 DEF Frame
    <3>4. chains[g][n] \in Chain
      BY <3>3 DEF IInv, TypeInv, TypeOK, ChainNos
    <3>5. Len(chains[g][n].list) \in Nat /\ fr.head \in Nat
      BY <3>4, ChainList DEF Frame
    <3>6. b.entry \in 0..fr.head /\ chains[g][n].list[b.entry].enabled
      BY SMTT(30), <3>1, <3>2, <3>3, PrevEntryFacts
    <3>7. b.entry \in Enabled(chains[g][n])
      BY <3>1, <3>2, <3>3, <3>5, <3>6 DEF Enabled
    <3> QED
      BY <3>1, <3>2, <3>3, <3>7, EnabledAlive
  <2>8. ASSUME NEW c \in Caller, Return(c) PROVE FALSE
    <3>1. PICK fs : Steps(c, fs, Pop(native[c]))
      BY <2>8, ReturnSteps
    <3>2. native'[d] = Pop(native[d]) /\ native[d] # <<>>
      BY <2>3, <2>8, <3>1, ReturnSteps
    <3> QED
      BY <2>1, <3>2, PopFacts
  <2>9. ASSUME UNCHANGED trampoVars \/ UNCHANGED allVars \/ \E c \in Caller : Exit(c)
        PROVE  FALSE
    BY <2>2, <2>9 DEF allVars, trampoVars, Exit
  <2> QED
    BY <2>5, <2>6, <2>7, <2>8, <2>9 DEF TrampoNext, CallerStep
<1>2. TrampoSpec => []NoError
  BY HooksBelow, NeverInError, PTL
<1> QED
  BY <1>1, <1>2, StackInvariance, PTL DEF TrampoSpec, NoCallAfterUnhook

=============================================================================
