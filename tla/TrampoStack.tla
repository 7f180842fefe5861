----------------------------- MODULE TrampoStack -----------------------------
(***************************************************************************)
(* Calls through hooked slots in automatic mode: bh_trampo.c and the       *)
(* BYTEHOOK_CALL_PREV and BYTEHOOK_POP_STACK macros of bytehook.h, composed*)
(* with HookManager, whose threads hook and unhook meanwhile.              *)
(*                                                                         *)
(* A caller thread has its native stack of activations and, in thread-local*)
(* storage, bytehook's own stack of frames.  The trampoline in a slot runs *)
(* bh_trampo_push_stack, which picks the newest enabled proxy or the       *)
(* original function.  A proxy may call the previous function of the chain,*)
(* call other slots, and pops its frame when it returns.  Proxies are      *)
(* written as bytehook.h asks: they pop the stack once, when they return.  *)
(***************************************************************************)
EXTENDS HookManager, FiniteSetsExt

CONSTANTS
    Caller,      \* the threads that call through the slots
    MaxFrame,    \* BH_TRAMPO_STACK_FRAME_MAX
    MaxDepth,    \* bound: activations on a native stack
    StackMayFail \* may bh_trampo_stack_create fail?

ASSUME TrampoStackAssumption ==
    /\ MaxFrame \in Nat \ {0} /\ MaxDepth \in Nat
    /\ StackMayFail \in BOOLEAN
    /\ "prev" \notin Got

VARIABLES
    tls,         \* does the thread have its bh_trampo_stack_t?
    frames,      \* stack->frames[0 .. frames_cnt - 1]
    native       \* the native stack, innermost activation last

trampoVars == <<tls, frames, native>>
allVars == <<vars, trampoVars>>

\* A frame keeps the head of the list as it was: newer entries are not seen,
\* later changes of an entry are.  The return address is that of the call site,
\* identified by its slot, or "prev" for a call by BYTEHOOK_CALL_PREV.
Frame == [slot : Got, chain : Nat, head : Nat, orig : Orig \cup Nat, ra : Got]

\* An activation of an entry of a chain, or (entry 0) of an original function.
Activation == [slot : Got, chain : Nat, entry : Nat, ra : Got \cup {"prev"}]

TrampoTypeOK ==
    /\ tls \in [Caller -> BOOLEAN]
    /\ frames \in [Caller -> Seq(Frame)]
    /\ native \in [Caller -> Seq(Activation)]
    /\ \A c \in Caller : Len(frames[c]) <= MaxFrame

TrampoInit ==
    /\ Init
    /\ tls = [c \in Caller |-> FALSE]
    /\ frames = [c \in Caller |-> <<>>]
    /\ native = [c \in Caller |-> <<>>]

Top(s) == s[Len(s)]
Pop(s) == SubSeq(s, 1, Len(s) - 1)

Activate(c, a) == native' = [native EXCEPT ![c] = Append(@, a)]
Original(g, n, ra) == [slot |-> g, chain |-> n, entry |-> 0, ra |-> ra]

\* bh_trampo_push_stack: is a frame for the same original function on the stack?
Recursive(c, o) == \E k \in 1..Len(frames[c]) : frames[c][k].orig = o

-----------------------------------------------------------------------------

\* A call through a slot that is not hooked.
CallPlain(c, g) ==
    /\ Len(native[c]) < MaxDepth
    /\ got[g] \in Orig
    /\ Activate(c, Original(g, 0, g))
    /\ UNCHANGED <<vars, tls, frames>>

\* bh_trampo_push_stack ends with the original function: the thread's stack
\* cannot be made, the call is recursive, no entry is enabled, or no frame is left.
PushNone(c, g) ==
    LET n == got[g] ch == chains[g][n]
    IN  /\ Len(native[c]) < MaxDepth
        /\ n \notin Mutable
        /\ \/ ~tls[c] /\ StackMayFail /\ UNCHANGED tls
           \/ /\ Recursive(c, ch.orig) \/ Enabled(ch) = {} \/ Len(frames[c]) >= MaxFrame
              /\ tls' = [tls EXCEPT ![c] = TRUE]
        /\ Activate(c, Original(g, n, g))
        /\ UNCHANGED <<vars, frames>>

\* Mutant: the recursion check is left out.
PushUnchecked(c, g) ==
    LET n == got[g] ch == chains[g][n]
    IN  /\ Len(native[c]) < MaxDepth
        /\ n \notin Mutable
        /\ Enabled(ch) # {} /\ Len(frames[c]) < MaxFrame
        /\ tls' = [tls EXCEPT ![c] = TRUE]
        /\ frames' = [frames EXCEPT ![c] = Append(@,
             [slot |-> g, chain |-> n, head |-> Len(ch.list), orig |-> ch.orig,
              ra |-> g])]
        /\ Activate(c, [slot |-> g, chain |-> n, entry |-> Max(Enabled(ch)),
                        ra |-> g])
        /\ UNCHANGED vars

\* Mutant: one frame too many.
PushOffByOne(c, g) ==
    LET n == got[g] ch == chains[g][n]
    IN  /\ Len(native[c]) < MaxDepth
        /\ n \notin Mutable
        /\ ~Recursive(c, ch.orig)
        /\ Enabled(ch) # {} /\ Len(frames[c]) <= MaxFrame
        /\ tls' = [tls EXCEPT ![c] = TRUE]
        /\ frames' = [frames EXCEPT ![c] = Append(@,
             [slot |-> g, chain |-> n, head |-> Len(ch.list), orig |-> ch.orig,
              ra |-> g])]
        /\ Activate(c, [slot |-> g, chain |-> n, entry |-> Max(Enabled(ch)),
                        ra |-> g])
        /\ UNCHANGED vars

\* bh_trampo_push_stack enters the newest enabled proxy with a new frame.
Push(c, g) ==
    LET n == got[g] ch == chains[g][n]
    IN  /\ Len(native[c]) < MaxDepth
        /\ n \notin Mutable
        /\ ~Recursive(c, ch.orig)
        /\ Enabled(ch) # {} /\ Len(frames[c]) < MaxFrame
        /\ tls' = [tls EXCEPT ![c] = TRUE]
        /\ frames' = [frames EXCEPT ![c] = Append(@,
             [slot |-> g, chain |-> n, head |-> Len(ch.list), orig |-> ch.orig,
              ra |-> g])]
        /\ Activate(c, [slot |-> g, chain |-> n, entry |-> Max(Enabled(ch)),
                        ra |-> g])
        /\ UNCHANGED vars

\* Mutants: the search starts at the head of the list again; disabled entries
\* are called too.
PrevEntryFromHead(fr, f) ==
    LET list == chains[fr.slot][fr.chain].list
        any == {i \in 1..fr.head : list[i].enabled}
    IN  IF any = {} THEN 0 ELSE Max(any)

PrevEntryAny(fr, f) ==
    LET list == chains[fr.slot][fr.chain].list
        same == {i \in 1..fr.head : list[i].func = f}
    IN  IF same = {} THEN 0 ELSE Max(same) - 1

\* bh_trampo_get_prev_func: the first entry of the function, then the next one
\* that is enabled; 0 stands for the original function.
PrevEntry(fr, f) ==
    LET list == chains[fr.slot][fr.chain].list
        same == {i \in 1..fr.head : list[i].func = f}
        older == {i \in 1..fr.head : list[i].enabled /\ i < Max(same)}
    IN  IF same = {} \/ older = {} THEN 0 ELSE Max(older)

\* BYTEHOOK_CALL_PREV in the running proxy: the thread's top frame decides.
CallPrev(c) ==
    LET a == Top(native[c]) fr == Top(frames[c])
    IN  /\ Len(native[c]) \in 1..(MaxDepth - 1)
        /\ a.entry # 0
        /\ frames[c] # <<>>
        /\ Activate(c, [slot |-> fr.slot, chain |-> fr.chain,
                        entry |-> PrevEntry(fr, chains[a.slot][a.chain].list[a.entry].func),
                        ra |-> "prev"])
        /\ UNCHANGED <<vars, tls, frames>>

\* Mutant: every proxy that returns pops a frame.
PopStackAlways(c, ra) ==
    frames' = [frames EXCEPT ![c] = IF @ = <<>> THEN @ ELSE Pop(@)]

\* bh_trampo_pop_stack
PopStack(c, ra) ==
    frames' = [frames EXCEPT ![c] = IF @ # <<>> /\ Top(@).ra = ra THEN Pop(@) ELSE @]

\* The innermost activation returns; a proxy pops the stack.
Return(c) ==
    LET a == Top(native[c])
    IN  /\ native[c] # <<>>
        /\ native' = [native EXCEPT ![c] = Pop(@)]
        /\ IF a.entry # 0 THEN PopStack(c, a.ra) ELSE UNCHANGED frames
        /\ UNCHANGED <<vars, tls>>

\* The thread ends (bh_trampo_stack_destroy); another one takes its place.
Exit(c) ==
    /\ tls[c] /\ native[c] = <<>>
    /\ tls' = [tls EXCEPT ![c] = FALSE]
    /\ frames' = [frames EXCEPT ![c] = <<>>]
    /\ UNCHANGED <<vars, native>>

CallerStep(c) ==
    \/ \E g \in Got : CallPlain(c, g) \/ PushNone(c, g) \/ Push(c, g)
    \/ CallPrev(c)
    \/ Return(c)
    \/ Exit(c)

TrampoNext ==
    \/ Next /\ UNCHANGED trampoVars
    \/ \E c \in Caller : CallerStep(c)

TrampoSpec == TrampoInit /\ [][TrampoNext]_allVars

-----------------------------------------------------------------------------
(* Properties                                                              *)

\* The positions of the proxies that were entered through a slot.
Entered(c) == {k \in 1..Len(native[c]) : native[c][k].entry # 0 /\ native[c][k].ra # "prev"}

\* bytehook's frames are exactly the proxies entered through slots, in order, so
\* every proxy, however deep, pops its own frame and no other
\* (bh_trampo_push_stack against bh_trampo_pop_stack).
FramesMatch ==
    \A c \in Caller :
        /\ Len(frames[c]) = Cardinality(Entered(c))
        /\ \A k \in Entered(c) :
              LET fr == frames[c][Cardinality(Entered(c) \cap 1..k)]
              IN  fr.slot = native[c][k].slot /\ fr.chain = native[c][k].chain

\* While a proxy of a function runs, further calls of the function by its thread
\* reach the original (bh_trampo_push_stack's recursion check): no two frames are
\* for one function.
NoReentry ==
    \A c \in Caller : \A j, k \in 1..Len(frames[c]) :
        frames[c][j].orig = frames[c][k].orig => j = k

\* BYTEHOOK_CALL_PREV leads to an older entry ("find and return the next enabled
\* hook-function in the hook-chain"), so no proxy runs twice in one call.
PrevIsOlder ==
    \A c \in Caller : \A k \in 2..Len(native[c]) :
        native[c][k].ra = "prev" => native[c][k].entry < native[c][k - 1].entry

\* No thread enters the proxy of a task after its unhook returned, through a slot
\* or from another proxy, though it may still be inside one it entered before.
NoCallAfterUnhook ==
    [][\A c \in Caller :
          Len(native'[c]) > Len(native[c]) /\ Top(native'[c]).entry # 0 =>
              LET a == Top(native'[c])
              IN  phase[chains[a.slot][a.chain].list[a.entry].task] # "gone"]_allVars

=============================================================================
