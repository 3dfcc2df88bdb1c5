-------------------------- MODULE PluginCallProofs --------------------------
(***************************************************************************)
(* Proofs about PluginCall, for any bound on the stack, any guest and any  *)
(* set of trapping runtime exports: types, the input register, who owns    *)
(* which block, what the calls return and which blocks they lose.          *)
(***************************************************************************)
EXTENDS CallRefinement, HostFunctionsProofs, SequenceTheorems

(* What an activation looks like when it starts.                           *)
LEMMA FrameType ==
  ASSUME NEW kind \in CallKinds \cup Shapes, NEW o \in Ptr, NEW d \in Bytes
  PROVE  Frame(kind, o, d) \in Frames
  BY KernelAssumption DEF Frame, Frames, Ptr

(* Starting an activation, when there is room for it.                      *)
LEMMA PushType ==
  ASSUME TypeOK, Room, NEW f \in Frames
  PROVE  Append(stack, f) \in Seq(Frames) /\ Len(Append(stack, f)) <= MaxFrames
  BY CallAssumption DEF TypeOK, Room

(* The step starts activation f.  Of those below, it may change only what  *)
(* final says, and clears that.                                            *)
Alike(f, g) ==
  /\ f.kind = g.kind /\ f.block = g.block /\ f.arg = g.arg
  /\ f.wrote = g.wrote /\ f.out = g.out /\ f.said = g.said
  /\ f.final => g.final

Grows(f) ==
  /\ stack' \in Seq(Frames) /\ Len(stack') = Len(stack) + 1
  /\ stack'[Len(stack) + 1] = f
  /\ \A i \in Active : stack'[i] \in Frames /\ Alike(stack'[i], stack[i])

LEMMA PushGrows ==
  ASSUME TypeOK, NEW f \in Frames, stack' = Append(stack, f)
  PROVE  Grows(f)
<1>1. \A i \in Active : stack[i] \in Frames
  BY ElementOfSeq DEF TypeOK, Active
<1> QED
  BY <1>1, AppendProperties DEF TypeOK, Active, Grows, Alike

LEMMA EnterGrows ==
  ASSUME TypeOK, stack # <<>>, NEW shape \in Shapes, Enter(shape)
  PROVE  /\ Grows(Frame(shape, Null, Empty))
         /\ ~stack'[Len(stack)].final
         /\ Len(stack') <= MaxFrames
<1> DEFINE n == Len(stack)
           t == [Top EXCEPT !.final = FALSE]
           s == [stack EXCEPT ![n] = t]
           f == Frame(shape, Null, Empty)
<1>1. /\ n \in Nat \ {0} /\ Top = stack[n]
      /\ \A i \in Active : stack[i] \in Frames
  BY EmptySeq, ElementOfSeq DEF TypeOK, Active, Top
<1>2. t \in Frames /\ Alike(t, stack[n]) /\ ~t.final
  <2>1. n \in Active
    BY <1>1 DEF Active
  <2>2. Top \in Frames
    BY <1>1, <2>1
  <2> QED
    BY <1>1, <2>2 DEF Frames, Alike
<1>3. f \in Frames
  BY KernelAssumption DEF Frame, Frames, Ptr
<1>4. stack' = Append(s, f)
  BY DEF Enter, WithTop
<1> HIDE DEF t, f
<1>5. /\ s \in Seq(Frames) /\ Len(s) = n
      /\ \A i \in Active : s[i] = IF i = n THEN t ELSE stack[i]
  BY <1>1, <1>2, ExceptSeq DEF TypeOK, Active
<1>6. \A i \in Active : s[i] \in Frames /\ Alike(s[i], stack[i])
  BY <1>1, <1>2, <1>5 DEF Alike
<1> HIDE DEF s
<1>7. /\ stack' \in Seq(Frames) /\ Len(stack') = n + 1
      /\ stack'[n + 1] = f
      /\ \A i \in Active : stack'[i] = s[i]
  BY <1>3, <1>4, <1>5, AppendProperties DEF Active
<1>8. Grows(f)
  BY <1>6, <1>7 DEF Grows
<1>9. ~stack'[n].final
  BY <1>1, <1>2, <1>5, <1>7 DEF Active
<1>10. Len(stack') <= MaxFrames
  BY <1>1, <1>7, CallAssumption DEF Enter, Room
<1> QED
  BY <1>8, <1>9, <1>10 DEF f

(* Ending an activation.                                                   *)
LEMMA PopType ==
  ASSUME TypeOK, stack # <<>>
  PROVE  /\ Top \in Frames
         /\ Pop \in Seq(Frames) /\ Len(Pop) = Len(stack) - 1
         /\ \A i \in 1..Len(Pop) : Pop[i] = stack[i]
<1>1. Len(stack) \in Nat \ {0}
  BY EmptySeq DEF TypeOK
<1>2. \A i \in 1..Len(stack) - 1 : stack[i] \in Frames
  BY <1>1, ElementOfSeq DEF TypeOK
<1>3. Top \in Frames
  BY <1>1, ElementOfSeq DEF TypeOK, Top
<1> DEFINE n == Len(stack) - 1
<1>4. 1 \in Int /\ n \in Int /\ \A i \in 1..n : stack[i] \in Frames
  BY <1>1, <1>2
<1>5. /\ Pop \in Seq(Frames)
      /\ Len(Pop) = IF 1 <= n THEN n - 1 + 1 ELSE 0
      /\ \A i \in 1..(n - 1 + 1) : Pop[i] = stack[1 + i - 1]
  <2> HIDE DEF n
  <2>1. Pop = SubSeq(stack, 1, n)
    BY DEF Pop, n
  <2> QED
    BY <1>4, <2>1, SubSeqProperties
<1>6. Len(Pop) = n
  <2>1. n \in Nat
    BY <1>1
  <2> HIDE DEF n
  <2>2. CASE 1 <= n
    BY <1>5, <2>1, <2>2
  <2>3. CASE n = 0
    BY <1>5, <2>1, <2>3
  <2> QED
    BY <2>1, <2>2, <2>3
<1>7. ASSUME NEW i \in 1..Len(Pop)
      PROVE  Pop[i] = stack[i]
  <2>1. i \in 1..(n - 1 + 1) /\ 1 + i - 1 = i
    BY <1>1, <1>6
  <2> QED
    BY <2>1, <1>5
<1> QED
  BY <1>3, <1>5, <1>6, <1>7

(* The outcome of a call.                                                  *)
LEMMA OutcomeType ==
  ASSUME NEW s \in {"none", "ok", "error", "panic"}, NEW d \in Bytes
  PROVE  Outcome(s, d) \in Results
  BY DEF Outcome, Results

LEMMA EmptyIsBytes == Empty \in Bytes
  BY KernelAssumption

(* What memory_free leaves, and what memory_new adds, are blocks.          *)
LEMMA FreeType ==
  ASSUME NEW L \in SUBSET Offsets, NEW o, NEW K \in MemoryFree(L, o)
  PROVE  K \in SUBSET Offsets
  BY FreedBlock

-----------------------------------------------------------------------------
(* Type correctness, action by action.                                     *)
StackTypeOK == stack \in Seq(Frames) /\ Len(stack) <= MaxFrames

LEMMA PopStackType ==
  ASSUME TypeOK, stack # <<>>, stack' = Pop
  PROVE  StackTypeOK'
<1>1. Len(Pop) <= MaxFrames
  BY PopType, LenProperties, CallAssumption DEF TypeOK
<1> QED
  BY <1>1, PopType DEF StackTypeOK

LEMMA RunType ==
  ASSUME TypeOK, Room, NEW kind \in CallKinds, NEW o \in Ptr, NEW d \in Bytes,
         Run(kind, o, d)
  PROVE  StackTypeOK' /\ result' \in Results
  BY FrameType, PushType, OutcomeType, EmptyIsBytes DEF Run, StackTypeOK

LEMMA RefuseType ==
  ASSUME TypeOK, Refuse
  PROVE  StackTypeOK' /\ result' \in Results
  BY OutcomeType, EmptyIsBytes DEF Refuse, StackTypeOK, TypeOK

LEMMA CallInOutType ==
  ASSUME TypeOK, NEW d \in Bytes, CallInOut(d)
  PROVE  TypeOK'
<1> USE DEF TypeOK
<1>1. CASE Refuse /\ UNCHANGED <<live, mem, input>>
  BY <1>1, RefuseType DEF CallInOut, HostTypeOK, StackTypeOK
<1>2. ASSUME NEW o \in MemoryNew(live, d),
             mem' = Write(mem, o, d),
             \/ /\ live' \in MemoryFree(Grant(live, o), o)
                /\ Refuse /\ UNCHANGED input
             \/ /\ live' = Grant(live, o)
                /\ input' = o
                /\ Refuse \/ Run("in_out", o, d)
      PROVE  TypeOK'
  <2>1. o \in Ptr /\ mem' \in [Offsets -> Payload]
        /\ Grant(live, o) \in SUBSET Offsets
    BY <1>2, NewBlock DEF HostTypeOK
  <2>2. live' \in SUBSET Offsets /\ input' \in Ptr
    BY <1>2, <2>1, FreeType
  <2>3. HostTypeOK'
    BY <2>1, <2>2 DEF CallInOut, HostTypeOK
  <2>4. StackTypeOK' /\ result' \in Results
    BY <1>2, <2>1, RefuseType, RunType DEF CallInOut, MayCall, CallKinds, ReadsOutput
  <2> QED
    BY <2>2, <2>3, <2>4 DEF CallInOut, StackTypeOK
<1> QED
  BY <1>1, <1>2 DEF CallInOut

LEMMA CallInType ==
  ASSUME TypeOK, NEW d \in Bytes, CallIn(d)
  PROVE  TypeOK'
<1> USE DEF TypeOK
<1>1. CASE Refuse /\ UNCHANGED <<live, mem, input>>
  BY <1>1, RefuseType DEF CallIn, HostTypeOK, StackTypeOK
<1>2. ASSUME NEW o \in MemoryNew(live, d),
             mem' = Write(mem, o, d), live' = Grant(live, o),
             \/ Refuse /\ UNCHANGED input
             \/ input' = o /\ (Refuse \/ Run("in", o, d))
      PROVE  TypeOK'
  <2>1. o \in Ptr /\ HostTypeOK'
    BY <1>2, NewBlock DEF HostTypeOK, CallIn
  <2>2. StackTypeOK' /\ result' \in Results
    BY <1>2, <2>1, RefuseType, RunType DEF CallIn, MayCall, CallKinds
  <2> QED
    BY <1>2, <2>1, <2>2 DEF CallIn, StackTypeOK
<1> QED
  BY <1>1, <1>2 DEF CallIn

LEMMA CallNoInputType ==
  ASSUME TypeOK, CallOut \/ CallBare
  PROVE  TypeOK'
<1>1. StackTypeOK' /\ result' \in Results
  BY RefuseType, RunType, EmptyIsBytes
     DEF CallOut, CallBare, MayCall, CallKinds, ReadsOutput, Ptr
<1> QED
  BY <1>1 DEF CallOut, CallBare, TypeOK, HostTypeOK, StackTypeOK

LEMMA OutputSetType ==
  ASSUME TypeOK, NEW o \in Ptr, OutputSet(o)
  PROVE  TypeOK'
<1> USE DEF TypeOK
<1> DEFINE f == [Top EXCEPT !.wrote = TRUE, !.out = o,
                            !.said = MemoryBytes(mem, o), !.final = TRUE]
<1>1. MemoryBytes(mem, o) \in Bytes
  BY BytesOfHandle DEF HostTypeOK
<1>2. f \in Frames
  BY <1>1, PopType DEF OutputSet, GuestRuns, Frames
<1>3. Len(stack) \in 1..Len(stack)
  BY EmptySeq DEF OutputSet, GuestRuns
<1>4. stack' = [stack EXCEPT ![Len(stack)] = f]
  BY DEF OutputSet, WithTop
<1>5. StackTypeOK'
  BY <1>2, <1>3, <1>4, ExceptSeq DEF StackTypeOK
<1>6. HostTypeOK'
  BY DEF OutputSet, HostTypeOK
<1> QED
  BY <1>5, <1>6 DEF OutputSet, StackTypeOK

LEMMA HostEnterType ==
  ASSUME TypeOK, NEW shape \in Shapes, NEW h \in Arg, HostEnter(shape, h)
  PROVE  TypeOK'
<1> USE DEF TypeOK
<1>1. stack # <<>> /\ (stack' = stack \/ Enter(shape))
  BY DEF HostEnter, GuestRuns
<1>2. StackTypeOK'
  BY <1>1, EnterGrows DEF Grows, StackTypeOK
<1>3. HostTypeOK'
  <2>1. ASSUME NEW L \in SUBSET live, Answer({h}, L, Null, Empty),
               UNCHANGED pluginVars
        PROVE  HostTypeOK'
    BY <2>1, KernelAssumption DEF Answer, Grant, Write, HostTypeOK
  <2>2. \/ UNCHANGED <<live, mem, owned>>
        \/ Answer({h}, live, Null, Empty)
        \/ Answer({h}, live \ {h}, Null, Empty)
    BY DEF HostEnter
  <2>3. UNCHANGED pluginVars
    BY DEF HostEnter
  <2>4. live \ {h} \in SUBSET live /\ live \in SUBSET live
    OBVIOUS
  <2> QED
    BY <2>1, <2>2, <2>3, <2>4 DEF HostTypeOK
<1> QED
  BY <1>2, <1>3 DEF HostEnter, StackTypeOK

LEMMA HostExitType ==
  ASSUME TypeOK, NEW d \in Bytes, HostExit(d)
  PROVE  TypeOK'
<1> USE DEF TypeOK
<1>1. StackTypeOK'
  BY PopStackType DEF HostExit, HostRuns
<1>2. HostTypeOK'
  <2>1. ASSUME NEW o \in MemoryNew(live, d), Answer({}, live, o, d),
               UNCHANGED pluginVars
        PROVE  HostTypeOK'
    <3>1. /\ o \in Ptr /\ Grant(live, o) \in SUBSET Offsets
          /\ Write(mem, o, d) \in [Offsets -> Payload]
      BY NewBlock DEF HostTypeOK
    <3> QED
      BY <2>1, <3>1 DEF Answer, Grant, Ptr, HostTypeOK
  <2> QED
    BY <2>1 DEF HostExit, HostTypeOK
<1> QED
  BY <1>1, <1>2 DEF HostExit, StackTypeOK

LEMMA ReturnType ==
  ASSUME TypeOK, ReturnOutput \/ ReturnNothing \/ GuestTraps
  PROVE  TypeOK'
<1> USE DEF TypeOK
<1>1. StackTypeOK'
  BY PopStackType DEF ReturnOutput, ReturnNothing, GuestTraps, GuestRuns
<1>2. HostTypeOK'
  BY FreeType DEF ReturnOutput, ReturnNothing, GuestTraps, HostTypeOK
<1>3. result' \in Results
  BY OutcomeType, EmptyIsBytes, KernelAssumption
     DEF ReturnOutput, ReturnNothing, GuestTraps
<1> QED
  BY <1>1, <1>2, <1>3 DEF ReturnOutput, ReturnNothing, GuestTraps, StackTypeOK

LEMMA PanicType ==
  ASSUME TypeOK, Panic
  PROVE  TypeOK'
<1>1. <<>> \in Seq(Frames) /\ Len(<<>>) <= MaxFrames
  BY EmptySeq, CallAssumption
<1> QED
  BY <1>1, OutcomeType, EmptyIsBytes DEF Panic, TypeOK, HostTypeOK

LEMMA InitType == Init => TypeOK
<1>1. HostInit => HostTypeOK
  BY HostInitInv DEF HostInv
<1>2. <<>> \in Seq(Frames) /\ Len(<<>>) <= MaxFrames
  BY EmptySeq, CallAssumption
<1> QED
  BY <1>1, <1>2, OutcomeType, EmptyIsBytes DEF Init, TypeOK, Ptr

(* The calls keep their state well typed and the stack within its bound.   *)
THEOREM TypeCorrect == Spec => []TypeOK
<1>1. TypeOK /\ [Next]_vars => TypeOK'
  <2> SUFFICES ASSUME TypeOK, [Next]_vars PROVE TypeOK'
    OBVIOUS
  <2>1. ASSUME NEW d \in Bytes, CallInOut(d) \/ CallIn(d) \/ HostExit(d)
        PROVE  TypeOK'
    BY <2>1, CallInOutType, CallInType, HostExitType
  <2>2. CASE CallOut \/ CallBare
    BY <2>2, CallNoInputType
  <2>3. CASE GuestActs
    BY <2>3, GuestStepType DEF GuestActs, TypeOK, callVars
  <2>4. ASSUME NEW o \in Ptr, OutputSet(o)
        PROVE  TypeOK'
    BY <2>4, OutputSetType
  <2>5. ASSUME NEW shape \in Shapes, NEW h \in Arg, HostEnter(shape, h)
        PROVE  TypeOK'
    BY <2>5, HostEnterType
  <2>6. CASE ReturnOutput \/ ReturnNothing \/ GuestTraps \/ Panic
    BY <2>6, ReturnType, PanicType
  <2>7. CASE StorePoisoned \/ UNCHANGED vars
    BY <2>7 DEF StorePoisoned, vars, TypeOK, HostTypeOK
  <2> QED
    BY <2>1, <2>2, <2>3, <2>4, <2>5, <2>6, <2>7 DEF Next, OtherSteps
<1> QED
  BY <1>1, InitType, PTL DEF Spec

-----------------------------------------------------------------------------
(* The call at the bottom of the stack, while no other can start.          *)
Bottom ==
  MaxFrames <= 2 /\ stack # <<>> =>
    /\ stack[1].kind \in CallKinds
    /\ stack[1].kind \in {"in_out", "in"} => input = stack[1].block

(* With two frames, the second is a host function, so no call can start.   *)
LEMMA CallsAlone ==
  ASSUME TypeOK, Bottom, MayCall, MaxFrames <= 2
  PROVE  stack = <<>>
<1> SUFFICES ASSUME stack # <<>> PROVE FALSE
  OBVIOUS
<1>1. Len(stack) \in Nat \ {0} /\ Len(stack) < MaxFrames
  BY EmptySeq DEF TypeOK, MayCall, Room
<1>2. Len(stack) = 1
  <2> DEFINE n == Len(stack)
  <2>1. n \in Nat \ {0} /\ n < MaxFrames /\ MaxFrames \in Nat /\ MaxFrames <= 2
    BY <1>1, CallAssumption
  <2> HIDE DEF n
  <2>2. n = 1
    BY <2>1
  <2> QED
    BY <2>2 DEF n
<1>3. stack[1].kind \in Shapes /\ stack[1].kind \in CallKinds
  BY <1>2 DEF Bottom, MayCall, HostRuns, Top
<1> QED
  BY <1>3 DEF Shapes, CallKinds, ReadsOutput

LEMMA StartKeepsBottom ==
  ASSUME TypeOK, Bottom, MayCall, NEW kind \in CallKinds, NEW o \in Ptr,
         NEW d \in Bytes, Refuse \/ Run(kind, o, d),
         kind \in {"in_out", "in"} /\ Run(kind, o, d) => input' = o
  PROVE  Bottom'
<1> SUFFICES ASSUME MaxFrames <= 2 PROVE Bottom'
  BY DEF Bottom
<1>1. stack = <<>>
  BY CallsAlone
<1>2. CASE Refuse
  BY <1>1, <1>2 DEF Refuse, Bottom
<1>3. CASE Run(kind, o, d)
  <2>1. stack' = Append(<<>>, Frame(kind, o, d))
    BY <1>1, <1>3 DEF Run
  <2>2. stack'[1] = Frame(kind, o, d)
    BY <2>1
  <2>3. stack'[1].kind = kind /\ stack'[1].block = o
    BY <2>2 DEF Frame
  <2> QED
    BY <1>3, <2>3 DEF Bottom
<1> QED
  BY <1>2, <1>3

(* A step that keeps the register and the first activation's argument.     *)
LEMMA StayKeepsBottom ==
  ASSUME Bottom, input' = input,
         stack' # <<>> => /\ stack # <<>>
                          /\ stack'[1].kind = stack[1].kind
                          /\ stack'[1].block = stack[1].block
  PROVE  Bottom'
  BY DEF Bottom

LEMMA PopKeepsBottom ==
  ASSUME TypeOK, Bottom, input' = input, stack # <<>>, stack' = Pop
  PROVE  Bottom'
<1>1. stack' # <<>> => stack'[1] = stack[1]
  <2> SUFFICES ASSUME stack' # <<>> PROVE stack'[1] = stack[1]
    OBVIOUS
  <2>1. Len(stack') \in Nat \ {0} /\ \A i \in 1..Len(stack') : stack'[i] = stack[i]
    BY PopType, EmptySeq
  <2> QED
    BY <2>1
<1> QED
  BY <1>1, StayKeepsBottom

LEMMA OutputSetKeepsBottom ==
  ASSUME TypeOK, Bottom, NEW o \in Ptr, OutputSet(o)
  PROVE  Bottom'
<1> DEFINE n == Len(stack)
           f == [Top EXCEPT !.wrote = TRUE, !.out = o,
                            !.said = MemoryBytes(mem, o), !.final = TRUE]
<1>1. /\ stack # <<>> /\ n \in Nat \ {0} /\ Top = stack[n] /\ Top \in Frames
  BY EmptySeq, PopType DEF OutputSet, GuestRuns, TypeOK, Top
<1>2. f.block = Top.block /\ f.kind = Top.kind
  BY <1>1 DEF Frames
<1>3. stack' = [stack EXCEPT ![n] = f]
  BY DEF OutputSet, WithTop
<1>4. 1 \in DOMAIN stack
  BY <1>1, LenProperties DEF TypeOK
<1>5. stack'[1] = IF n = 1 THEN f ELSE stack[1]
  <2> HIDE DEF n, f
  <2> QED
    BY <1>3, <1>4
<1>6. stack'[1].kind = stack[1].kind /\ stack'[1].block = stack[1].block
  <2> HIDE DEF f
  <2> QED
    BY <1>1, <1>2, <1>5
<1> QED
  BY <1>1, <1>6, StayKeepsBottom DEF OutputSet

LEMMA HostEnterKeepsBottom ==
  ASSUME TypeOK, Bottom, NEW shape \in Shapes, NEW h \in Arg, HostEnter(shape, h)
  PROVE  Bottom'
<1>1. stack # <<>> /\ (stack' = stack \/ Enter(shape))
  BY DEF HostEnter, GuestRuns
<1>2. 1 \in Active
  BY <1>1, EmptySeq DEF TypeOK, Active
<1>3. stack'[1].kind = stack[1].kind /\ stack'[1].block = stack[1].block
  BY <1>1, <1>2, EnterGrows DEF Grows, Alike
<1> QED
  BY <1>1, <1>3, StayKeepsBottom DEF HostEnter

(* Unless a host function calls back into the plugin, the input register   *)
(* names the argument of the running call all the time.                    *)
THEOREM InputRegisterNamesArgument == Spec => []InputRegister
<1>1. Init => Bottom
  BY DEF Init, Bottom
<1>2. TypeOK /\ Bottom /\ [Next]_vars => Bottom'
  <2> SUFFICES ASSUME TypeOK, Bottom, [Next]_vars PROVE Bottom'
    OBVIOUS
  <2>1. ASSUME NEW d \in Bytes, CallInOut(d) \/ CallIn(d)
        PROVE  Bottom'
    <3>1. MayCall
      BY <2>1 DEF CallInOut, CallIn
    <3>2. \/ Refuse
          \/ \E o \in MemoryNew(live, d) :
               input' = o /\ (Run("in_out", o, d) \/ Run("in", o, d))
      BY <2>1 DEF CallInOut, CallIn
    <3>3. \A o \in MemoryNew(live, d) : o \in Ptr
      BY NewBlock DEF TypeOK, HostTypeOK
    <3>4. "in_out" \in CallKinds /\ "in" \in CallKinds /\ Null \in Ptr
      BY DEF CallKinds, ReadsOutput, Ptr
    <3>5. CASE Refuse
      <4>1. MaxFrames <= 2 => stack' = <<>>
        BY <3>1, <3>5, CallsAlone DEF Refuse
      <4> QED
        BY <4>1 DEF Bottom
    <3>6. ASSUME NEW o \in MemoryNew(live, d), input' = o,
                 Run("in_out", o, d) \/ Run("in", o, d)
          PROVE  Bottom'
      BY <3>1, <3>3, <3>4, <3>6, StartKeepsBottom
    <3> QED
      BY <3>2, <3>5, <3>6
  <2>2. CASE CallOut \/ CallBare
    <3>1. Refuse \/ Run("out", Null, Empty) \/ Run("bare", Null, Empty)
      BY <2>2 DEF CallOut, CallBare
    <3>2. MayCall /\ "out" \in CallKinds /\ "bare" \in CallKinds /\ Null \in Ptr
      BY <2>2 DEF CallOut, CallBare, CallKinds, ReadsOutput, Ptr
    <3> QED
      BY <3>1, <3>2, EmptyIsBytes, StartKeepsBottom
  <2>3. CASE GuestActs \/ StorePoisoned \/ UNCHANGED vars
    BY <2>3, StayKeepsBottom DEF GuestActs, StorePoisoned, callVars, vars
  <2>4. ASSUME NEW o \in Ptr, OutputSet(o)
        PROVE  Bottom'
    BY <2>4, OutputSetKeepsBottom
  <2>5. ASSUME NEW shape \in Shapes, NEW h \in Arg, HostEnter(shape, h)
        PROVE  Bottom'
    BY <2>5, HostEnterKeepsBottom
  <2>6. CASE ReturnOutput \/ ReturnNothing \/ GuestTraps
             \/ \E d \in Bytes : HostExit(d)
    BY <2>6, PopKeepsBottom
       DEF ReturnOutput, ReturnNothing, GuestTraps, HostExit, GuestRuns, HostRuns
  <2>7. CASE Panic
    BY <2>7 DEF Panic, Bottom
  <2> QED
    BY <2>1, <2>2, <2>3, <2>4, <2>5, <2>6, <2>7 DEF Next, OtherSteps
<1>3. Bottom => InputRegister
  BY DEF Bottom, InputRegister
<1> QED
  BY <1>1, <1>2, <1>3, TypeCorrect, PTL DEF Spec

-----------------------------------------------------------------------------
(* Guests that set their output last are guests, so what holds for all of  *)
(* them holds for these.                                                   *)
LEMMA LastImpliesNext == LastSpec => Spec
<1>1. [LastNext]_vars => [Next]_vars
  BY DEF LastNext, Next
<1> QED
  BY <1>1, PTL DEF LastSpec, Spec

(* What a guest set last is in the register until it calls a host function *)
(* of the program: only then another guest can run and set an output.      *)
OutputRegister ==
  \A i \in Active : stack[i].final =>
    /\ i = Len(stack) /\ GuestRuns
    /\ stack[i].wrote /\ stack[i].out = output

LEMMA FinalIsRegister ==
  ASSUME TypeOK, OutputRegister, GuestRuns, Top.final
  PROVE  Top.wrote /\ Top.out = output
<1>1. Len(stack) \in Active /\ Top = stack[Len(stack)]
  BY EmptySeq DEF GuestRuns, Active, Top, TypeOK
<1> QED
  BY <1>1 DEF OutputRegister

LEMMA NoFinalBelow ==
  ASSUME \A i \in 1..Len(stack') : ~stack'[i].final
  PROVE  OutputRegister'
  BY DEF OutputRegister, Active

LEMMA GrowsRegister ==
  ASSUME TypeOK, OutputRegister, NEW f \in Frames, Grows(f), ~f.final,
         \A i \in Active : stack'[i].final => i # Len(stack) \/ ~GuestRuns
  PROVE  OutputRegister'
<1>1. /\ Len(stack) \in Nat /\ Len(stack') = Len(stack) + 1
      /\ \A i \in Active : Alike(stack'[i], stack[i])
      /\ stack'[Len(stack) + 1] = f
  BY LenProperties DEF TypeOK, Grows
<1>2. \A i \in Active : ~stack'[i].final
  BY <1>1 DEF OutputRegister, Alike
<1>3. \A i \in 1..Len(stack') : i \in Active \/ i = Len(stack) + 1
  BY <1>1 DEF Active
<1> QED
  BY <1>1, <1>2, <1>3, NoFinalBelow

LEMMA RunRegister ==
  ASSUME TypeOK, OutputRegister, MayCall, output' = output,
         NEW kind \in CallKinds, NEW o \in Ptr, NEW d \in Bytes,
         Refuse \/ Run(kind, o, d)
  PROVE  OutputRegister'
<1>1. CASE Refuse
  BY <1>1 DEF Refuse, OutputRegister, Active, GuestRuns, Top
<1>2. CASE Run(kind, o, d)
  <2> DEFINE f == Frame(kind, o, d)
  <2>1. f \in Frames /\ ~f.final
    BY FrameType DEF Frame
  <2>2. stack' = Append(stack, f)
    BY <1>2 DEF Run
  <2>3. ~GuestRuns
    BY DEF MayCall, HostRuns, GuestRuns, Shapes, CallKinds, ReadsOutput
  <2> HIDE DEF f
  <2> QED
    BY <2>1, <2>2, <2>3, PushGrows, GrowsRegister
<1> QED
  BY <1>1, <1>2

LEMMA OutputSetRegister ==
  ASSUME TypeOK, OutputRegister, NEW o \in Ptr, OutputSet(o)
  PROVE  OutputRegister'
<1> DEFINE n == Len(stack)
           f == [Top EXCEPT !.wrote = TRUE, !.out = o,
                            !.said = MemoryBytes(mem, o), !.final = TRUE]
<1>1. n \in Active /\ Top \in Frames /\ Top.kind \in CallKinds
  BY EmptySeq, PopType DEF OutputSet, GuestRuns, TypeOK, Active
<1>2. f.wrote = TRUE /\ f.out = o /\ f.kind \in CallKinds
  BY <1>1 DEF Frames
<1>3. stack' = [stack EXCEPT ![n] = f] /\ output' = o
  BY DEF OutputSet, WithTop
<1> HIDE DEF f
<1>4. /\ Len(stack') = n /\ stack'[n] = f
      /\ \A i \in Active : i # n => ~stack'[i].final
  BY <1>1, <1>3 DEF Active, TypeOK, OutputRegister
<1>5. GuestRuns'
  <2>1. stack' # <<>>
    BY <1>1, <1>4, EmptySeq DEF Active
  <2> QED
    BY <1>2, <1>4, <2>1 DEF GuestRuns, Top
<1> QED
  BY <1>2, <1>3, <1>4, <1>5 DEF OutputRegister, Active

LEMMA PopRegister ==
  ASSUME TypeOK, OutputRegister, stack # <<>>, stack' = Pop
  PROVE  OutputRegister'
<1>1. /\ Len(stack) \in Nat /\ Len(stack') = Len(stack) - 1
      /\ \A i \in 1..Len(stack') : stack'[i] = stack[i]
  BY PopType, LenProperties DEF TypeOK
<1>2. \A i \in 1..Len(stack') : i \in Active /\ i # Len(stack)
  BY <1>1 DEF Active
<1> QED
  BY <1>1, <1>2, NoFinalBelow DEF OutputRegister

(* Whatever the guest does, its output is in the register from the moment  *)
(* it set it until it calls a host function of the program.                *)
LEMMA OutputRegisterIsOwn == Spec => []OutputRegister
<1>1. Init => OutputRegister
  BY DEF Init, OutputRegister, Active
<1>2. TypeOK /\ OutputRegister /\ [Next]_vars => OutputRegister'
  <2> SUFFICES ASSUME TypeOK, OutputRegister, [Next]_vars PROVE OutputRegister'
    OBVIOUS
  <2>1. ASSUME NEW d \in Bytes, CallInOut(d) \/ CallIn(d)
        PROVE  OutputRegister'
    <3>1. MayCall /\ output' = output
      BY <2>1 DEF CallInOut, CallIn
    <3>2. \/ Refuse
          \/ \E o \in MemoryNew(live, d) : Run("in_out", o, d) \/ Run("in", o, d)
      BY <2>1 DEF CallInOut, CallIn
    <3>3. \A o \in MemoryNew(live, d) : o \in Ptr
      BY NewBlock DEF TypeOK, HostTypeOK
    <3>4. "in_out" \in CallKinds /\ "in" \in CallKinds /\ Null \in Ptr
      BY DEF CallKinds, ReadsOutput, Ptr
    <3>5. CASE Refuse
      BY <3>1, <3>4, <3>5, RunRegister
    <3>6. ASSUME NEW o \in MemoryNew(live, d), Run("in_out", o, d) \/ Run("in", o, d)
          PROVE  OutputRegister'
      BY <3>1, <3>3, <3>4, <3>6, RunRegister
    <3> QED
      BY <3>2, <3>5, <3>6
  <2>2. CASE CallOut \/ CallBare
    <3>1. /\ MayCall /\ output' = output
          /\ Refuse \/ Run("out", Null, Empty) \/ Run("bare", Null, Empty)
      BY <2>2 DEF CallOut, CallBare
    <3>2. "out" \in CallKinds /\ "bare" \in CallKinds /\ Null \in Ptr
      BY DEF CallKinds, ReadsOutput, Ptr
    <3> QED
      BY <3>1, <3>2, EmptyIsBytes, RunRegister
  <2>3. ASSUME NEW o \in Ptr, OutputSet(o)
        PROVE  OutputRegister'
    BY <2>3, OutputSetRegister
  <2>4. ASSUME NEW shape \in Shapes, NEW h \in Arg, HostEnter(shape, h)
        PROVE  OutputRegister'
    <3>1. CASE stack' = stack
      BY <2>4, <3>1 DEF HostEnter, OutputRegister, Active, GuestRuns, Top
    <3>2. CASE Enter(shape)
      <4> DEFINE f == Frame(shape, Null, Empty)
      <4>1. f \in Frames /\ ~f.final
        BY FrameType, EmptyIsBytes DEF Frame, Ptr
      <4>2. Grows(f) /\ ~stack'[Len(stack)].final
        BY <2>4, <3>2, EnterGrows DEF HostEnter, GuestRuns
      <4> HIDE DEF f
      <4> QED
        BY <4>1, <4>2, GrowsRegister
    <3> QED
      BY <2>4, <3>1, <3>2 DEF HostEnter
  <2>5. CASE ReturnOutput \/ ReturnNothing \/ GuestTraps
             \/ \E d \in Bytes : HostExit(d)
    BY <2>5, PopRegister
       DEF ReturnOutput, ReturnNothing, GuestTraps, HostExit, GuestRuns, HostRuns
  <2>6. CASE Panic
    BY <2>6 DEF Panic, OutputRegister, Active
  <2>7. CASE GuestActs \/ StorePoisoned \/ UNCHANGED vars
    BY <2>7 DEF GuestActs, StorePoisoned, callVars, vars,
                OutputRegister, Active, GuestRuns, Top
  <2> QED
    BY <2>1, <2>2, <2>3, <2>4, <2>5, <2>6, <2>7 DEF Next, OtherSteps
<1> QED
  BY <1>1, <1>2, TypeCorrect, PTL DEF Spec

-----------------------------------------------------------------------------
(* The blocks of running calls.  InputsIntact, OutputsIntact and           *)
(* CallsKeepGuestBlocks are not inductive alone; Ownership is, with        *)
(* TypeOK: live blocks are divided between the guest and the inputs and    *)
(* outputs of the calls on the stack, so whoever frees or writes its own   *)
(* block leaves all others alone.  The one step that may break it is a     *)
(* call that ends and frees an output register that is not its guest's,    *)
(* which OutputRegister rules out for guests that set their output last.   *)

(* The step leaves alone what activation f holds.                          *)
Spares(f) ==
  \A o \in {f.block, f.out} \cap Held : o \in Held' /\ mem'[o] = mem[o]

LEMMA SparedIsSound ==
  ASSUME HostTypeOK, NEW f \in Frames, Sound(Held, mem, f), Spares(f)
  PROVE  Sound(Held', mem', f)
  BY DEF Sound, Keeps, Spares, MemoryBytes, Frames

(* The steps that change the memory and leave the stack as it is.          *)
LEMMA StaySteps ==
  ASSUME TypeOK, Disciplined, Ownership, stack' = stack, GuestBlocksKept',
         \A i \in Active : Spares(stack[i])
  PROVE  Ownership'
<1>1. \A i \in Active : stack[i] \in Frames
  BY ElementOfSeq DEF TypeOK, Active
<1>2. \A i \in Active : Sound(Held', mem', stack[i])
  BY <1>1, SparedIsSound DEF TypeOK, Ownership
<1> QED
  BY <1>2 DEF Ownership, Active

(* The steps that end an activation and spare the others.                  *)
LEMMA PopSteps ==
  ASSUME TypeOK, Disciplined, Ownership, stack # <<>>, stack' = Pop,
         GuestBlocksKept',
         \A i \in 1..(Len(stack) - 1) : Spares(stack[i])
  PROVE  Ownership'
<1>1. /\ Len(stack') = Len(stack) - 1
      /\ \A i \in 1..Len(stack') : stack'[i] = stack[i]
  BY PopType
<1>2. \A i \in 1..Len(stack') : i \in Active /\ stack[i] \in Frames
  BY <1>1, ElementOfSeq, EmptySeq DEF TypeOK, Active
<1>3. \A i \in 1..Len(stack') : Sound(Held', mem', stack'[i])
  BY <1>1, <1>2, SparedIsSound DEF TypeOK, Ownership
<1>4. \A i, j \in 1..Len(stack') : i # j => Apart(stack'[i], stack'[j])
  BY <1>1, <1>2 DEF Ownership
<1> QED
  BY <1>3, <1>4 DEF Ownership, Active

(* The steps that start activation f, which holds nothing another holds.   *)
LEMMA PushSteps ==
  ASSUME TypeOK, Disciplined, Ownership, GuestBlocksKept',
         NEW f \in Frames, Grows(f), Sound(Held', mem', f),
         \A i \in Active : Spares(stack[i]) /\ Apart(stack[i], f)
  PROVE  Ownership'
<1>1. /\ Len(stack) \in Nat /\ Len(stack') = Len(stack) + 1
      /\ \A i \in Active : Alike(stack'[i], stack[i]) /\ stack[i] \in Frames
      /\ stack'[Len(stack) + 1] = f
  BY ElementOfSeq, LenProperties DEF TypeOK, Active, Grows
<1>2. \A i \in 1..Len(stack') : i \in Active \/ i = Len(stack) + 1
  BY <1>1 DEF Active
<1>3. \A i \in Active : Sound(Held', mem', stack'[i])
  <2> TAKE i \in Active
  <2>1. Sound(Held', mem', stack[i])
    BY <1>1, SparedIsSound DEF TypeOK, Ownership
  <2> QED
    BY <1>1, <2>1 DEF Alike, Sound, Keeps
<1>4. \A i \in 1..Len(stack') : Sound(Held', mem', stack'[i])
  BY <1>1, <1>2, <1>3
<1>5. \A i, j \in 1..Len(stack') : i # j => Apart(stack'[i], stack'[j])
  <2>1. \A i \in Active : /\ stack'[i].block = stack[i].block
                          /\ stack'[i].out = stack[i].out
    BY <1>1 DEF Alike
  <2>2. \A i, j \in Active : i # j => Apart(stack'[i], stack'[j])
    BY <2>1 DEF Ownership, Apart
  <2>3. \A i \in Active : Apart(stack'[i], f) /\ Apart(f, stack'[i])
    BY <2>1 DEF Apart
  <2> QED
    BY <1>1, <1>2, <2>2, <2>3
<1> QED
  BY <1>4, <1>5 DEF Ownership, Active

-----------------------------------------------------------------------------
(* Steps that touch only what the guest owns spare every activation.       *)
LEMMA UntouchedSpares ==
  ASSUME Untouched, NEW f
  PROVE  Spares(f)
  BY DEF Untouched, Spares, Held

LEMMA NothingChanges ==
  ASSUME UNCHANGED <<live, mem, owned>>
  PROVE  Untouched /\ (GuestBlocksKept => GuestBlocksKept')
  BY DEF Untouched, GuestBlocksKept

(* An activation without a block is sound, and apart from any other.       *)
LEMMA BareFrame ==
  ASSUME NEW kind \in CallKinds \cup Shapes, NEW f, NEW H, NEW m
  PROVE  /\ Frame(kind, Null, Empty) \in Frames
         /\ Sound(H, m, Frame(kind, Null, Empty))
         /\ Apart(f, Frame(kind, Null, Empty))
<1>1. Frame(kind, Null, Empty) \in Frames
  BY FrameType, EmptyIsBytes DEF Ptr
<1> QED
  BY <1>1 DEF Frame, Sound, Keeps, Apart, MemoryBytes

(* Starting or ending an activation without touching the memory.           *)
LEMMA PushBare ==
  ASSUME TypeOK, Disciplined, Ownership, Untouched, GuestBlocksKept',
         NEW kind \in CallKinds \cup Shapes,
         Grows(Frame(kind, Null, Empty))
  PROVE  Ownership'
  BY PushSteps, BareFrame, UntouchedSpares

LEMMA PopUntouched ==
  ASSUME TypeOK, Disciplined, Ownership, Untouched, GuestBlocksKept',
         stack # <<>>, stack' = Pop
  PROVE  Ownership'
  BY PopSteps, UntouchedSpares

LEMMA StayUntouched ==
  ASSUME TypeOK, Disciplined, Ownership, Untouched, GuestBlocksKept', stack' = stack
  PROVE  Ownership'
  BY StaySteps, UntouchedSpares

-----------------------------------------------------------------------------
(* Ownership, action by action.                                            *)
LEMMA GuestActsOwn ==
  ASSUME TypeOK, Disciplined, Ownership, GuestActs
  PROVE  Ownership'
<1>1. HostInv /\ Disciplined
  BY DEF TypeOK, Ownership, HostInv
<1>2. Untouched /\ GuestBlocksKept'
  BY <1>1, GuestStepUntouched, GuestStepInv DEF GuestActs, HostInv
<1> QED
  BY <1>2, StayUntouched DEF GuestActs, callVars

(* A block from memory_new is nobody's before and the new call's after.    *)
LEMMA NewInput ==
  ASSUME TypeOK, Disciplined, Ownership, NEW kind \in CallKinds, NEW d \in Bytes,
         NEW o \in MemoryNew(live, d), mem' = Write(mem, o, d),
         owned' = owned,
         live' = Grant(live, o) \/ live' \in MemoryFree(Grant(live, o), o)
  PROVE  /\ Untouched /\ GuestBlocksKept'
         /\ Frame(kind, o, d) \in Frames
         /\ live' = Grant(live, o) => Sound(Held', mem', Frame(kind, o, d))
         /\ \A i \in Active : Apart(stack[i], Frame(kind, o, d))
<1>1. /\ o \in Ptr /\ o \notin live
      /\ owned \subseteq live /\ live \subseteq Offsets
      /\ mem \in [Offsets -> Payload]
  BY NewBlock DEF TypeOK, HostTypeOK, Ownership, GuestBlocksKept
<1>2. live \subseteq live'
  BY <1>1 DEF Grant, MemoryFree
<1>3. Untouched /\ GuestBlocksKept'
  BY <1>1, <1>2 DEF Untouched, GuestBlocksKept, Write
<1>4. Frame(kind, o, d) \in Frames
  BY <1>1, FrameType
<1>5. ASSUME live' = Grant(live, o)
      PROVE  Sound(Held', mem', Frame(kind, o, d))
  <2>1. CASE o = Null
    <3>1. d = Empty
      BY <2>1, KernelAssumption DEF MemoryNew
    <3> QED
      BY <2>1, <3>1 DEF Sound, Keeps, Frame, MemoryBytes
  <2>2. CASE o # Null
    <3>1. o \in Held' /\ mem'[o] = d
      BY <1>1, <1>5, <2>2 DEF Held, Grant, Write, Ptr
    <3> QED
      BY <2>2, <3>1 DEF Sound, Keeps, Frame, MemoryBytes
  <2> QED
    BY <2>1, <2>2
<1>6. ASSUME NEW i \in Active
      PROVE  Apart(stack[i], Frame(kind, o, d))
  BY <1>1 DEF Ownership, Sound, Keeps, Held, Apart, Frame
<1> QED
  BY <1>3, <1>4, <1>5, <1>6

LEMMA CallInOutOwn ==
  ASSUME TypeOK, Disciplined, Ownership, NEW d \in Bytes, CallInOut(d)
  PROVE  Ownership'
<1>1. CASE Refuse /\ UNCHANGED <<live, mem, input>>
  BY <1>1, NothingChanges, StayUntouched DEF CallInOut, Refuse, Ownership
<1>2. ASSUME NEW o \in MemoryNew(live, d),
             mem' = Write(mem, o, d),
             \/ live' \in MemoryFree(Grant(live, o), o) /\ Refuse
             \/ live' = Grant(live, o) /\ (Refuse \/ Run("in_out", o, d))
      PROVE  Ownership'
  <2> DEFINE f == Frame("in_out", o, d)
  <2>1. /\ Untouched /\ GuestBlocksKept' /\ f \in Frames
        /\ live' = Grant(live, o) => Sound(Held', mem', f)
        /\ \A i \in Active : Apart(stack[i], f)
    BY <1>2, NewInput DEF CallInOut, CallKinds, ReadsOutput
  <2>2. CASE Refuse
    BY <2>1, <2>2, StayUntouched DEF Refuse
  <2>3. CASE live' = Grant(live, o) /\ Run("in_out", o, d)
    <3>1. stack' = Append(stack, f)
      BY <2>3 DEF Run
    <3> HIDE DEF f
    <3> QED
      BY <2>1, <2>3, <3>1, PushGrows, PushSteps, UntouchedSpares
  <2> QED
    BY <1>2, <2>2, <2>3
<1> QED
  BY <1>1, <1>2 DEF CallInOut

LEMMA CallInOwn ==
  ASSUME TypeOK, Disciplined, Ownership, NEW d \in Bytes, CallIn(d)
  PROVE  Ownership'
<1>1. CASE Refuse /\ UNCHANGED <<live, mem, input>>
  BY <1>1, NothingChanges, StayUntouched DEF CallIn, Refuse, Ownership
<1>2. ASSUME NEW o \in MemoryNew(live, d),
             mem' = Write(mem, o, d), live' = Grant(live, o),
             Refuse \/ Run("in", o, d)
      PROVE  Ownership'
  <2> DEFINE f == Frame("in", o, d)
  <2>1. /\ Untouched /\ GuestBlocksKept' /\ f \in Frames
        /\ Sound(Held', mem', f)
        /\ \A i \in Active : Apart(stack[i], f)
    BY <1>2, NewInput DEF CallIn, CallKinds
  <2>2. CASE Refuse
    BY <2>1, <2>2, StayUntouched DEF Refuse
  <2>3. CASE Run("in", o, d)
    <3>1. stack' = Append(stack, f)
      BY <2>3 DEF Run
    <3> HIDE DEF f
    <3> QED
      BY <2>1, <3>1, PushGrows, PushSteps, UntouchedSpares
  <2> QED
    BY <1>2, <2>2, <2>3
<1> QED
  BY <1>1, <1>2 DEF CallIn

LEMMA CallNoInputOwn ==
  ASSUME TypeOK, Disciplined, Ownership, CallOut \/ CallBare
  PROVE  Ownership'
<1>1. Untouched /\ GuestBlocksKept'
  BY NothingChanges DEF CallOut, CallBare, Ownership
<1>2. CASE Refuse
  BY <1>1, <1>2, StayUntouched DEF Refuse
<1>3. ASSUME NEW kind \in {"out", "bare"}, Run(kind, Null, Empty)
      PROVE  Ownership'
  <2>1. kind \in CallKinds /\ stack' = Append(stack, Frame(kind, Null, Empty))
    BY <1>3 DEF Run, CallKinds, ReadsOutput
  <2>2. Grows(Frame(kind, Null, Empty))
    BY <2>1, FrameType, EmptyIsBytes, PushGrows DEF Ptr
  <2> QED
    BY <1>1, <2>1, <2>2, PushBare
<1> QED
  BY <1>2, <1>3 DEF CallOut, CallBare

(* The output passes from the guest to its activation; the one set before  *)
(* goes back.                                                              *)
LEMMA OutputSetOwn ==
  ASSUME TypeOK, Disciplined, Ownership, NEW o \in Ptr, OutputSet(o)
  PROVE  Ownership'
<1> DEFINE n == Len(stack)
           f == [Top EXCEPT !.wrote = TRUE, !.out = o,
                            !.said = MemoryBytes(mem, o), !.final = TRUE]
<1>1. /\ n \in Active /\ Top = stack[n] /\ Top \in Frames
      /\ \A i \in Active : stack[i] \in Frames
  BY EmptySeq, ElementOfSeq DEF OutputSet, GuestRuns, TypeOK, Active, Top
<1>2. /\ live' = live /\ mem' = mem
      /\ owned' = (owned \cup (IF Top.wrote THEN {Top.out} \cap live ELSE {})) \ {o}
      /\ o \in owned \cup {Null}
  BY DEF OutputSet, Arg
<1>3. owned \subseteq live /\ GuestBlocksKept'
  BY <1>2 DEF Ownership, GuestBlocksKept
<1>4. /\ f.block = Top.block /\ f.arg = Top.arg
      /\ f.wrote = TRUE /\ f.out = o /\ f.said = MemoryBytes(mem, o)
  BY <1>1 DEF Frames
<1>5. /\ Len(stack') = n /\ stack'[n] = f
      /\ \A i \in Active : i # n => stack'[i] = stack[i]
  <2>1. stack' = [stack EXCEPT ![n] = f]
    BY DEF OutputSet, WithTop
  <2> HIDE DEF f
  <2> QED
    BY <1>1, <2>1 DEF Active, TypeOK
<1>6. Sound(Held, mem, Top)
  BY <1>1 DEF Ownership
<1>7. Sound(Held', mem', f)
  <2>1. Keeps(Held', mem', o, MemoryBytes(mem, o))
    BY <1>2, <1>3 DEF Keeps, Held, GuestBlocksKept
  <2>2. Keeps(Held', mem', Top.block, Top.arg)
    BY <1>2, <1>6 DEF Sound, Keeps, Held
  <2>3. Top.block = o => Top.block = Null
    BY <1>2, <1>6 DEF Sound, Keeps, Held
  <2> HIDE DEF f
  <2> QED
    BY <1>4, <2>1, <2>2, <2>3 DEF Sound
<1>8. ASSUME NEW i \in Active, i # n
      PROVE  /\ Sound(Held', mem', stack[i])
             /\ Apart(stack[i], f) /\ Apart(f, stack[i])
  <2>1. Sound(Held, mem, stack[i]) /\ Apart(stack[i], Top)
    BY <1>1, <1>8 DEF Ownership
  <2>2. stack[i] \in Frames
    BY <1>1
  <2>3. \A b \in {stack[i].block, stack[i].out} :
             b # Null => b \in Held /\ b # o /\ b # Top.out
    <3>1. /\ stack[i].block \in Held \cup {Null}
          /\ stack[i].out \in Held \cup {Null}
      BY <2>1 DEF Sound, Keeps
    <3>2. \A b \in {stack[i].block, stack[i].out} : b = Top.out => b = Null
      BY <2>1 DEF Apart
    <3> QED
      BY <1>2, <3>1, <3>2 DEF Held
  <2>4. Spares(stack[i])
    BY <1>2, <2>3, KernelAssumption DEF Spares, Held, TypeOK, HostTypeOK
  <2>5. Sound(Held', mem', stack[i])
    BY <2>1, <2>2, <2>4, SparedIsSound DEF TypeOK
  <2>6. Apart(stack[i], f) /\ Apart(f, stack[i])
    <3> HIDE DEF f
    <3> QED
      BY <1>4, <2>1, <2>3 DEF Apart
  <2> QED
    BY <2>5, <2>6
<1>9. \A i \in Active : Sound(Held', mem', stack'[i])
  BY <1>5, <1>7, <1>8
<1>10. \A i, j \in Active : i # j => Apart(stack'[i], stack'[j])
  <2> HIDE DEF f
  <2> QED
    BY <1>5, <1>8 DEF Ownership
<1> QED
  BY <1>3, <1>5, <1>9, <1>10 DEF Ownership, Active

(* fetch_in takes a block the guest owned; the activation holds none.      *)
LEMMA HostEnterOwn ==
  ASSUME TypeOK, Disciplined, Ownership, NEW shape \in Shapes, NEW h \in Arg,
         HostEnter(shape, h)
  PROVE  Ownership'
<1>1. ASSUME NEW L, L = live \/ L = live \ {h}, Answer({h}, L, Null, Empty)
      PROVE  Untouched /\ GuestBlocksKept'
  <2>1. /\ h \in owned \cup {Null} /\ owned \subseteq live
        /\ live \subseteq Offsets /\ Null \notin Offsets
    BY KernelAssumption
       DEF Arg, Ownership, GuestBlocksKept, TypeOK, HostTypeOK
  <2>2. live' = L /\ mem' = mem /\ owned' = owned \ {h}
    BY <1>1 DEF Answer, Grant, Write
  <2> QED
    BY <1>1, <2>1, <2>2 DEF Untouched, GuestBlocksKept
<1>2. CASE UNCHANGED <<live, mem, owned>> /\ Enter(shape)
  BY <1>2, NothingChanges, PushBare, EnterGrows DEF HostEnter, GuestRuns, Ownership
<1>3. CASE Answer({h}, live, Null, Empty) /\ stack' = stack
  BY <1>1, <1>3, StayUntouched
<1>4. CASE Answer({h}, live \ {h}, Null, Empty) /\ Enter(shape)
  BY <1>1, <1>4, PushBare, EnterGrows DEF HostEnter, GuestRuns
<1> QED
  BY <1>2, <1>3, <1>4 DEF HostEnter

(* store_out hands the guest a block that was nobody's.                    *)
LEMMA HostExitOwn ==
  ASSUME TypeOK, Disciplined, Ownership, NEW d \in Bytes, HostExit(d)
  PROVE  Ownership'
<1>1. ASSUME NEW o \in MemoryNew(live, d), Answer({}, live, o, d)
      PROVE  Untouched /\ GuestBlocksKept'
  <2>1. /\ o \in Ptr /\ o \notin live /\ owned \subseteq live
        /\ live \subseteq Offsets /\ mem \in [Offsets -> Payload]
    BY NewBlock DEF TypeOK, HostTypeOK, Ownership, GuestBlocksKept
  <2> QED
    BY <1>1, <2>1 DEF Answer, Grant, Write, Untouched, GuestBlocksKept
<1>2. CASE UNCHANGED <<live, mem, owned>>
  BY <1>2, NothingChanges, PopUntouched DEF HostExit, HostRuns, Ownership
<1> QED
  BY <1>1, <1>2, PopUntouched DEF HostExit, HostRuns

(* The call frees what the output register names.  That is nobody else's   *)
(* if it is what this guest set, or offset 0.                              *)
LEMMA ReturnOutputOwn ==
  ASSUME TypeOK, Disciplined, Ownership, ReturnOutput,
         live' = live \/ output \in {Null, Top.out}
  PROVE  Ownership'
<1> DEFINE n == Len(stack)
<1>1. /\ n \in Active /\ Top = stack[n] /\ n \in Nat
      /\ \A i \in Active : stack[i] \in Frames
  BY EmptySeq, ElementOfSeq DEF ReturnOutput, GuestRuns, TypeOK, Active, Top
<1>2. /\ live \ {output} \subseteq live' /\ mem' = mem /\ owned' = owned
      /\ stack # <<>> /\ stack' = Pop
  BY FreedBlock DEF ReturnOutput, GuestRuns
<1>3. CASE live' = live \/ output = Null
  <2>1. live \subseteq live'
    BY <1>2, <1>3, KernelAssumption DEF TypeOK, HostTypeOK
  <2>2. Untouched /\ GuestBlocksKept'
    BY <1>2, <2>1 DEF Untouched, Ownership, GuestBlocksKept
  <2> QED
    BY <1>2, <2>2, PopUntouched
<1>4. CASE output = Top.out /\ output # Null
  <2>1. output \in Held
    BY <1>1, <1>4 DEF Ownership, Sound, Keeps
  <2>2. GuestBlocksKept'
    BY <1>2, <2>1 DEF Ownership, GuestBlocksKept, Held
  <2>3. ASSUME NEW i \in 1..(n - 1)
        PROVE  Spares(stack[i])
    <3>1. i \in Active /\ i # n
      BY <1>1 DEF Active
    <3>2. Apart(stack[i], Top)
      BY <1>1, <3>1 DEF Ownership
    <3> QED
      BY <1>2, <1>4, <3>2 DEF Apart, Spares, Held
  <2> QED
    BY <1>2, <2>2, <2>3, PopSteps
<1> QED
  BY <1>3, <1>4

(* A call that may harm others is one that reads an output not its own.    *)
LEMMA ReturnOwnsOrStale ==
  ASSUME TypeOK, Disciplined, Ownership, OutputRegister, ReturnOutput
  PROVE  Ownership' \/ FreesStaleOutput
<1>1. Returned /\ Top.kind \in ReadsOutput
  BY PopType, LenProperties DEF ReturnOutput, Returned, GuestRuns, TypeOK
<1>2. Len(stack) \in Active /\ Top = stack[Len(stack)]
  BY EmptySeq DEF ReturnOutput, GuestRuns, Active, Top, TypeOK
<1>3. Top.final => Top.out = output
  BY <1>2 DEF OutputRegister
<1>4. live' = live \/ live' = live \ {output}
  BY DEF ReturnOutput, MemoryFree
<1> QED
  BY <1>1, <1>3, <1>4, ReturnOutputOwn DEF FreesStaleOutput

LEMMA OtherReturnsOwn ==
  ASSUME TypeOK, Disciplined, Ownership, ReturnNothing \/ GuestTraps
  PROVE  Ownership'
<1>1. Untouched /\ GuestBlocksKept'
  BY NothingChanges DEF ReturnNothing, GuestTraps, Ownership
<1> QED
  BY <1>1, PopUntouched DEF ReturnNothing, GuestTraps, GuestRuns

LEMMA PanicOwn ==
  ASSUME TypeOK, Disciplined, Ownership, Panic
  PROVE  Ownership'
<1>1. GuestBlocksKept' /\ stack' = <<>>
  BY NothingChanges DEF Panic, Ownership
<1> QED
  BY <1>1 DEF Ownership, Active

-----------------------------------------------------------------------------
LEMMA OtherStepsOwn ==
  ASSUME TypeOK, Disciplined, Ownership, OtherSteps
  PROVE  Ownership'
<1>1. ASSUME NEW d \in Bytes, CallInOut(d) \/ CallIn(d) \/ HostExit(d)
      PROVE  Ownership'
  BY <1>1, CallInOutOwn, CallInOwn, HostExitOwn
<1>2. CASE CallOut \/ CallBare
  BY <1>2, CallNoInputOwn
<1>3. CASE GuestActs
  BY <1>3, GuestActsOwn
<1>4. ASSUME NEW o \in Ptr, OutputSet(o)
      PROVE  Ownership'
  BY <1>4, OutputSetOwn
<1>5. ASSUME NEW shape \in Shapes, NEW h \in Arg, HostEnter(shape, h)
      PROVE  Ownership'
  BY <1>5, HostEnterOwn
<1>6. CASE ReturnNothing \/ GuestTraps \/ Panic
  BY <1>6, OtherReturnsOwn, PanicOwn
<1>7. CASE StorePoisoned
  BY <1>7, NothingChanges, StayUntouched DEF StorePoisoned, vars, Ownership
<1> QED
  BY <1>1, <1>2, <1>3, <1>4, <1>5, <1>6, <1>7 DEF OtherSteps

-----------------------------------------------------------------------------
(* Whatever guests do about their outputs, while they use only their own   *)
(* handles the host does harm in one kind of step alone: the end of a call *)
(* that reads an output its guest did not set, or set before it called a   *)
(* host function.  All other steps keep the blocks divided between the     *)
(* guest and the running calls, at any depth of nesting.                   *)
THEOREM HarmIsExplained == Spec => HarmIsStaleOutput
<1>1. TypeOK /\ OutputRegister /\ [Next]_vars
        => [Ownership => Ownership' \/ FreesStaleOutput]_vars
  <2> SUFFICES ASSUME TypeOK, OutputRegister, Next, Ownership
               PROVE  Ownership' \/ FreesStaleOutput
    OBVIOUS
  <2>1. CASE ~Disciplined
    BY <2>1 DEF Ownership
  <2>2. CASE Disciplined /\ OtherSteps
    BY <2>2, OtherStepsOwn
  <2>3. CASE Disciplined /\ ReturnOutput
    BY <2>3, ReturnOwnsOrStale
  <2> QED
    BY <2>1, <2>2, <2>3 DEF Next
<1> QED
  BY <1>1, TypeCorrect, OutputRegisterIsOwn, PTL DEF Spec, HarmIsStaleOutput

(* With guests that set their output last there is no such step: the live  *)
(* blocks are divided between the guest and the calls that are running.    *)
THEOREM OwnershipHolds == LastSpec => []Ownership
<1>1. Init => Ownership
  BY DEF Init, HostInit, Ownership, GuestBlocksKept, Active
<1>2. TypeOK /\ OutputRegister /\ Ownership /\ [LastNext]_vars => Ownership'
  <2> SUFFICES ASSUME TypeOK, OutputRegister, Ownership, [LastNext]_vars, Disciplined
               PROVE  Ownership'
    BY DEF Ownership
  <2>1. CASE OtherSteps
    BY <2>1, OtherStepsOwn
  <2>2. CASE GuestRuns /\ Top.final /\ ReturnOutput
    <3>1. Top.out = output
      BY <2>2, FinalIsRegister
    <3> QED
      BY <2>2, <3>1, ReturnOutputOwn
  <2>3. CASE UNCHANGED vars
    BY <2>3, NothingChanges, StayUntouched DEF vars, Ownership
  <2> QED
    BY <2>1, <2>2, <2>3 DEF LastNext
<1> QED
  BY <1>1, <1>2, LastImpliesNext, TypeCorrect, OutputRegisterIsOwn, PTL DEF LastSpec

(* The input of every running call stays allocated and unchanged until the *)
(* call ends, however deeply calls and host functions nest and whatever    *)
(* runtime exports trap, provided guests behave.                           *)
THEOREM InputsStayIntact == LastSpec => []InputsIntact
<1>1. TypeOK /\ Ownership => InputsIntact
  BY DEF Ownership, InputsIntact, Sound, Keeps, Held
<1> QED
  BY <1>1, TypeCorrect, LastImpliesNext, OwnershipHolds, PTL

(* The same for an output the guest has set.                               *)
THEOREM OutputsStayIntact == LastSpec => []OutputsIntact
<1>1. TypeOK /\ Ownership => OutputsIntact
  BY DEF Ownership, OutputsIntact, Sound, Keeps, Held
<1> QED
  BY <1>1, TypeCorrect, LastImpliesNext, OwnershipHolds, PTL

(* No call frees a block that is still the guest's.                        *)
THEOREM CallsKeepBlocks == LastSpec => []CallsKeepGuestBlocks
<1>1. Ownership => CallsKeepGuestBlocks
  BY DEF Ownership, CallsKeepGuestBlocks
<1> QED
  BY <1>1, OwnershipHolds, PTL

(* A call that reads the output returns what its own guest put there, even *)
(* if calls were nested in it before, which used the same register.        *)
THEOREM OwnOutputIsReturned == LastSpec => ReturnsOwnOutput
<1> DEFINE Right == Disciplined /\ Returned /\ Top.kind \in ReadsOutput
                      /\ result'.status = "ok" => result'.value = Top.said
<1>1. TypeOK /\ OutputRegister /\ Ownership /\ [LastNext]_vars => [Right]_vars
  <2> SUFFICES ASSUME TypeOK, OutputRegister, Ownership, LastNext,
                      Disciplined, Returned, Top.kind \in ReadsOutput,
                      result'.status = "ok"
               PROVE  result'.value = Top.said
    OBVIOUS
  <2>1. stack' # stack /\ \A f : stack' # Append(stack, f)
    BY AppendProperties, LenProperties DEF Returned, TypeOK
  <2>2. ~HostRuns
    BY DEF HostRuns, ReadsOutput, Shapes
  <2>3. ASSUME NEW d \in Bytes
        PROVE  ~CallInOut(d) /\ ~CallIn(d) /\ ~HostExit(d)
    BY <2>1, <2>2 DEF CallInOut, CallIn, HostExit, Refuse, Run
  <2>4. ~CallOut /\ ~CallBare
    BY <2>1 DEF CallOut, CallBare, Refuse, Run
  <2>5. ~GuestActs /\ ~StorePoisoned
    BY <2>1 DEF GuestActs, StorePoisoned, callVars, vars
  <2>6. \A o \in Ptr : ~OutputSet(o)
    BY LenProperties DEF Returned, OutputSet, WithTop, TypeOK
  <2>7. \A shape \in Shapes, h \in Arg : ~HostEnter(shape, h)
    <3>1. \A shape \in Shapes : ~Enter(shape)
      BY EnterGrows, LenProperties DEF Grows, Returned, GuestRuns, TypeOK
    <3> QED
      BY <2>1, <3>1 DEF HostEnter
  <2>8. ~ReturnNothing /\ ~GuestTraps /\ ~Panic
    BY DEF ReturnNothing, GuestTraps, Panic, Outcome
  <2>9. CASE GuestRuns /\ Top.final /\ ReturnOutput
    <3>1. result'.value = MemoryBytes(mem, output)
      BY <2>9 DEF ReturnOutput, Outcome
    <3>2. Top.wrote /\ Top.out = output
      BY <2>9, FinalIsRegister
    <3>3. Sound(Held, mem, Top)
      BY <2>9, EmptySeq DEF Ownership, Active, Top, ReturnOutput, GuestRuns, TypeOK
    <3> QED
      BY <3>1, <3>2, <3>3 DEF Sound, Keeps
  <2> QED
    BY <2>3, <2>4, <2>5, <2>6, <2>7, <2>8, <2>9 DEF LastNext, OtherSteps
<1> QED
  BY <1>1, LastImpliesNext, TypeCorrect, OutputRegisterIsOwn, OwnershipHolds, PTL
     DEF LastSpec, ReturnsOwnOutput

-----------------------------------------------------------------------------
(* What is not in the input register is not freed with an output: no       *)
(* activation has set as output the block of the register.                 *)
InputApart ==
  Disciplined => /\ input \in Held \cup {Null}
             /\ \A i \in Active : stack[i].out = input => input = Null

(* A step that leaves the register, and the stack, or ends or starts an    *)
(* activation without an output.                                           *)
LEMMA InputKept ==
  ASSUME TypeOK, Disciplined, InputApart, input' = input,
         input # Null => input \in Held',
         \A i \in 1..Len(stack') :
           stack'[i].out = Null \/ (i \in Active /\ stack'[i].out = stack[i].out)
  PROVE  InputApart'
  BY DEF InputApart, Active

(* ... and the block the register names stays when the step spares it.     *)
LEMMA UntouchedInput ==
  ASSUME Disciplined, InputApart, Untouched
  PROVE  input # Null => input \in Held'
  BY DEF InputApart, Untouched, Held

LEMMA PushShape ==
  ASSUME TypeOK, NEW f \in Frames, f.out = Null, Grows(f)
  PROVE  \A i \in 1..Len(stack') :
           stack'[i].out = Null \/ (i \in Active /\ stack'[i].out = stack[i].out)
<1>1. /\ Len(stack) \in Nat /\ Len(stack') = Len(stack) + 1
      /\ \A i \in Active : stack'[i].out = stack[i].out
      /\ stack'[Len(stack) + 1] = f
  BY LenProperties DEF TypeOK, Active, Grows, Alike
<1>2. \A i \in 1..Len(stack') : i \in Active \/ i = Len(stack) + 1
  BY <1>1 DEF Active
<1> QED
  BY <1>1, <1>2

LEMMA PopShape ==
  ASSUME TypeOK, stack # <<>>, stack' = Pop
  PROVE  \A i \in 1..Len(stack') : i \in Active /\ stack'[i] = stack[i]
<1>1. /\ Len(stack') = Len(stack) - 1 /\ Len(stack) \in Nat
      /\ \A i \in 1..Len(stack') : stack'[i] = stack[i]
  BY PopType, LenProperties DEF TypeOK
<1> QED
  BY <1>1 DEF Active

LEMMA FrameOut ==
  ASSUME NEW kind, NEW o, NEW d
  PROVE  Frame(kind, o, d).out = Null
  BY DEF Frame

(* A call that sets its input: the block is new, so it is nobody's output. *)
LEMMA NewInputApart ==
  ASSUME TypeOK, Disciplined, Ownership, InputApart, NEW d \in Bytes,
         NEW kind \in CallKinds, NEW o \in MemoryNew(live, d),
         live' = Grant(live, o), owned' = owned, input' = o,
         stack' = stack \/ stack' = Append(stack, Frame(kind, o, d))
  PROVE  InputApart'
<1>1. /\ o \in Ptr /\ o \notin live
      /\ owned \subseteq live /\ live \subseteq Offsets
  BY NewBlock DEF TypeOK, HostTypeOK, Ownership, GuestBlocksKept
<1>2. o \in Held' \cup {Null}
  BY <1>1 DEF Held, Grant, Ptr
<1>3. \A i \in Active : stack[i].out = o => o = Null
  BY <1>1 DEF Ownership, Sound, Keeps, Held
<1>4. Frame(kind, o, d) \in Frames
  BY <1>1, FrameType
<1>5. \A i \in 1..Len(stack') :
        stack'[i].out = Null \/ (i \in Active /\ stack'[i].out = stack[i].out)
  BY <1>4, PushGrows, PushShape, FrameOut DEF Active
<1> QED
  BY <1>2, <1>3, <1>5 DEF InputApart, Active

LEMMA CallInputApart ==
  ASSUME TypeOK, Disciplined, Ownership, InputApart, NEW d \in Bytes,
         CallInOut(d) \/ CallIn(d)
  PROVE  InputApart'
<1>1. CASE Refuse /\ UNCHANGED <<live, mem, input, owned>>
  BY <1>1, NothingChanges, UntouchedInput, InputKept DEF Refuse, Active
<1>2. ASSUME NEW o \in MemoryNew(live, d), UNCHANGED owned, Refuse,
             mem' = Write(mem, o, d), UNCHANGED input,
             live' \in MemoryFree(Grant(live, o), o) \/ live' = Grant(live, o)
      PROVE  InputApart'
  <2>1. Untouched
    BY <1>2, NewInput DEF CallKinds
  <2> QED
    BY <1>2, <2>1, UntouchedInput, InputKept DEF Refuse, Active
<1>3. ASSUME NEW o \in MemoryNew(live, d), UNCHANGED owned,
             live' = Grant(live, o), input' = o,
             Refuse \/ Run("in_out", o, d) \/ Run("in", o, d)
      PROVE  InputApart'
  BY <1>3, NewInputApart DEF Refuse, Run, CallKinds, ReadsOutput
<1>4. CASE CallInOut(d)
  BY <1>1, <1>2, <1>3, <1>4 DEF CallInOut
<1>5. CASE CallIn(d)
  BY <1>1, <1>2, <1>3, <1>5 DEF CallIn
<1> QED
  BY <1>4, <1>5

LEMMA OutputSetApart ==
  ASSUME TypeOK, Disciplined, Ownership, InputApart, NEW o \in Ptr, OutputSet(o)
  PROVE  InputApart'
<1> DEFINE n == Len(stack)
           f == [Top EXCEPT !.wrote = TRUE, !.out = o,
                            !.said = MemoryBytes(mem, o), !.final = TRUE]
<1>1. /\ n \in Active /\ Top = stack[n] /\ Top \in Frames
  BY EmptySeq, ElementOfSeq DEF OutputSet, GuestRuns, TypeOK, Active, Top
<1>2. /\ live' = live /\ input' = input
      /\ owned' = (owned \cup (IF Top.wrote THEN {Top.out} \cap live ELSE {})) \ {o}
      /\ o \in owned \cup {Null}
  BY DEF OutputSet, Arg
<1>3. f.out = o
  BY <1>1 DEF Frames
<1>4. /\ Len(stack') = n /\ stack'[n] = f
      /\ \A i \in Active : i # n => stack'[i] = stack[i]
  <2>1. stack' = [stack EXCEPT ![n] = f]
    BY DEF OutputSet, WithTop
  <2> HIDE DEF f
  <2> QED
    BY <1>1, <2>1 DEF Active, TypeOK
<1>5. input' \in Held' \cup {Null}
  BY <1>1, <1>2 DEF InputApart, Held
<1>6. o = input => input = Null
  BY <1>2 DEF InputApart, Held
<1> HIDE DEF f
<1>7. \A i \in Active : stack'[i].out = input => input = Null
  BY <1>3, <1>4, <1>6 DEF InputApart
<1> QED
  BY <1>2, <1>4, <1>5, <1>7 DEF InputApart, Active

LEMMA HostEnterApart ==
  ASSUME TypeOK, Disciplined, Ownership, InputApart,
         NEW shape \in Shapes, NEW h \in Arg, HostEnter(shape, h)
  PROVE  InputApart'
<1>1. \/ UNCHANGED <<live, mem, owned>>
      \/ Answer({h}, live, Null, Empty)
      \/ Answer({h}, live \ {h}, Null, Empty)
  BY DEF HostEnter
<1>2. h \in owned \cup {Null}
  BY DEF Arg
<1>3. input # Null => input \in Held'
  BY <1>1, <1>2 DEF Answer, Grant, InputApart, Held
<1>4. Frame(shape, Null, Empty) \in Frames
  BY FrameType, EmptyIsBytes DEF Ptr
<1>5. stack' = stack \/ Grows(Frame(shape, Null, Empty))
  BY EnterGrows DEF HostEnter, GuestRuns
<1>6. \A i \in 1..Len(stack') :
        stack'[i].out = Null \/ (i \in Active /\ stack'[i].out = stack[i].out)
  BY <1>4, <1>5, PushShape, FrameOut DEF Active
<1> QED
  BY <1>3, <1>6, InputKept DEF HostEnter

LEMMA HostExitApart ==
  ASSUME TypeOK, Disciplined, Ownership, InputApart, NEW d \in Bytes, HostExit(d)
  PROVE  InputApart'
<1>1. ASSUME NEW o \in MemoryNew(live, d), Answer({}, live, o, d)
      PROVE  input # Null => input \in Held'
  <2>1. o \notin live
    BY NewBlock DEF TypeOK, HostTypeOK
  <2> QED
    BY <1>1, <2>1 DEF Answer, Grant, InputApart, Held
<1>2. input # Null => input \in Held'
  BY <1>1 DEF HostExit, InputApart, Held
<1> QED
  BY <1>2, PopShape, InputKept DEF HostExit, HostRuns

LEMMA ReturnApart ==
  ASSUME TypeOK, Disciplined, Ownership, InputApart,
         \/ ReturnOutput /\ Top.out = output
         \/ ReturnNothing \/ GuestTraps
  PROVE  InputApart'
<1>1. stack # <<>> /\ stack' = Pop /\ input' = input
  BY DEF ReturnOutput, ReturnNothing, GuestTraps, GuestRuns
<1>2. ASSUME ReturnOutput, Top.out = output, input # Null
      PROVE  input \in Held'
  <2>1. Len(stack) \in Active
    BY <1>1, EmptySeq DEF Active, TypeOK
  <2>2. output # input
    BY <1>2, <2>1 DEF InputApart, Top
  <2>3. live \ {output} \subseteq live' /\ owned' = owned
    BY <1>2, FreedBlock DEF ReturnOutput
  <2> QED
    BY <1>2, <2>2, <2>3 DEF InputApart, Held
<1>3. input # Null => input \in Held'
  BY <1>2 DEF ReturnNothing, GuestTraps, InputApart, Held
<1>4. \A i \in 1..Len(stack') : i \in Active /\ stack'[i].out = stack[i].out
  BY <1>1, PopShape
<1> QED
  BY <1>1, <1>3, <1>4, InputKept

(* The block the input register names is never freed by the host, nor      *)
(* another guest's: a call that sets no input reads an earlier call's, and *)
(* nothing else.                                                           *)
THEOREM InputDoesNotDangle == LastSpec => []InputNeverDangles
<1>1. Init => InputApart
  BY DEF Init, InputApart, Active
<1>2. TypeOK /\ OutputRegister /\ Ownership /\ InputApart /\ [LastNext]_vars
        => InputApart'
  <2> SUFFICES ASSUME TypeOK, OutputRegister, Ownership, InputApart,
                      [LastNext]_vars, Disciplined
               PROVE  InputApart'
    BY DEF InputApart
  <2>1. ASSUME NEW d \in Bytes, CallInOut(d) \/ CallIn(d) \/ HostExit(d)
        PROVE  InputApart'
    BY <2>1, CallInputApart, HostExitApart
  <2>2. CASE CallOut \/ CallBare
    <3>1. Untouched /\ input' = input
      BY <2>2, NothingChanges DEF CallOut, CallBare
    <3>2. \/ stack' = stack
          \/ \E kind \in CallKinds : stack' = Append(stack, Frame(kind, Null, Empty))
      BY <2>2 DEF CallOut, CallBare, Refuse, Run, CallKinds, ReadsOutput
    <3>3. \A kind \in CallKinds : Frame(kind, Null, Empty) \in Frames
      BY FrameType, EmptyIsBytes DEF Ptr
    <3>4. \A i \in 1..Len(stack') :
            stack'[i].out = Null \/ (i \in Active /\ stack'[i].out = stack[i].out)
      BY <3>2, <3>3, PushGrows, PushShape, FrameOut DEF Active
    <3> QED
      BY <3>1, <3>4, UntouchedInput, InputKept
  <2>3. CASE GuestActs
    <3>1. HostInv /\ Disciplined
      BY DEF TypeOK, Ownership, HostInv
    <3>2. Untouched /\ stack' = stack /\ input' = input
      BY <2>3, <3>1, GuestStepUntouched DEF GuestActs, callVars
    <3> QED
      BY <3>2, UntouchedInput, InputKept DEF Active
  <2>4. ASSUME NEW o \in Ptr, OutputSet(o)
        PROVE  InputApart'
    BY <2>4, OutputSetApart
  <2>5. ASSUME NEW shape \in Shapes, NEW h \in Arg, HostEnter(shape, h)
        PROVE  InputApart'
    BY <2>5, HostEnterApart
  <2>6. CASE (GuestRuns /\ Top.final /\ ReturnOutput) \/ ReturnNothing \/ GuestTraps
    BY <2>6, FinalIsRegister, ReturnApart
  <2>7. CASE Panic
    BY <2>7 DEF Panic, InputApart, Held, Active
  <2>8. CASE StorePoisoned \/ UNCHANGED vars
    BY <2>8 DEF StorePoisoned, vars, InputApart, Held, Active
  <2> QED
    BY <2>1, <2>2, <2>3, <2>4, <2>5, <2>6, <2>7, <2>8 DEF LastNext, OtherSteps
<1>3. InputApart => InputNeverDangles
  BY DEF InputApart, InputNeverDangles
<1> QED
  BY <1>1, <1>2, <1>3, LastImpliesNext, TypeCorrect, OutputRegisterIsOwn,
     OwnershipHolds, PTL DEF LastSpec

-----------------------------------------------------------------------------
(* How blocks get lost.  What the activations of a stack hold:             *)
Claimed(s) == UNION {{s[i].block, s[i].out} : i \in 1..Len(s)}

(* Host functions hold nothing between fetch_in and store_out.             *)
HostsHoldNothing ==
  \A i \in Active : stack[i].kind \in Shapes =>
    stack[i].block = Null /\ stack[i].out = Null

LEMMA PushClaims ==
  ASSUME TypeOK, NEW f \in Frames, Grows(f)
  PROVE  /\ Claimed(stack) \subseteq Claimed(stack')
         /\ {f.block, f.out} \subseteq Claimed(stack')
<1>1. /\ Len(stack) \in Nat /\ Len(stack') = Len(stack) + 1
      /\ \A i \in 1..Len(stack) :
           /\ i \in 1..Len(stack')
           /\ stack'[i].block = stack[i].block /\ stack'[i].out = stack[i].out
      /\ stack'[Len(stack) + 1] = f /\ Len(stack) + 1 \in 1..Len(stack')
  BY LenProperties DEF TypeOK, Active, Grows, Alike
<1> QED
  BY <1>1 DEF Claimed

LEMMA PopClaims ==
  ASSUME TypeOK, stack # <<>>, stack' = Pop
  PROVE  Claimed(stack) \subseteq Claimed(stack') \cup {Top.block, Top.out}
<1>1. /\ Len(stack') = Len(stack) - 1 /\ Len(stack) \in Nat
      /\ \A i \in 1..Len(stack') : stack'[i] = stack[i]
  BY PopType, LenProperties DEF TypeOK
<1>2. \A i \in 1..Len(stack) : i \in 1..Len(stack') \/ i = Len(stack)
  BY <1>1
<1> QED
  BY <1>1, <1>2 DEF Claimed, Top

(* A step that lets no activation go loses only what the guest gives up,   *)
(* or what it allocates for nobody.                                        *)
LEMMA NewlyLost ==
  ASSUME Claimed(stack) \subseteq Claimed(stack'), NEW o \in Lost' \ Lost
  PROVE  /\ o \in live' \ owned' /\ o \notin Claimed(stack')
         /\ o \notin live \ owned
  BY DEF Lost, Claimed, Active

LEMMA HostFramesInvariant == Spec => []HostsHoldNothing
<1>1. Init => HostsHoldNothing
  BY DEF Init, HostsHoldNothing, Active
<1>2. TypeOK /\ HostsHoldNothing /\ [Next]_vars => HostsHoldNothing'
  <2> SUFFICES ASSUME TypeOK, HostsHoldNothing, [Next]_vars
               PROVE  HostsHoldNothing'
    OBVIOUS
  <2>1. ASSUME stack' = stack
        PROVE  HostsHoldNothing'
    BY <2>1 DEF HostsHoldNothing, Active
  <2>2. ASSUME stack # <<>>, stack' = Pop
        PROVE  HostsHoldNothing'
    BY <2>2, PopShape DEF HostsHoldNothing, Active
  <2>3. ASSUME NEW f \in Frames, Grows(f),
               f.kind \in Shapes => f.block = Null /\ f.out = Null
        PROVE  HostsHoldNothing'
    <3>1. /\ Len(stack) \in Nat /\ Len(stack') = Len(stack) + 1
          /\ \A i \in Active : /\ stack'[i].kind = stack[i].kind
                              /\ stack'[i].block = stack[i].block
                              /\ stack'[i].out = stack[i].out
          /\ stack'[Len(stack) + 1] = f
      BY <2>3, LenProperties DEF TypeOK, Active, Grows, Alike
    <3>2. \A i \in 1..Len(stack') : i \in Active \/ i = Len(stack) + 1
      BY <3>1 DEF Active
    <3> QED
      BY <2>3, <3>1, <3>2 DEF HostsHoldNothing, Active
  <2>4. ASSUME NEW kind \in CallKinds, NEW o \in Ptr, NEW d \in Bytes,
               Refuse \/ Run(kind, o, d)
        PROVE  HostsHoldNothing'
    <3> DEFINE f == Frame(kind, o, d)
    <3>1. f \in Frames /\ f.kind = kind
      BY FrameType DEF Frame
    <3>2. kind \notin Shapes
      BY DEF CallKinds, ReadsOutput, Shapes
    <3>3. stack' = stack \/ stack' = Append(stack, f)
      BY <2>4 DEF Refuse, Run
    <3> HIDE DEF f
    <3> QED
      BY <2>1, <2>3, <3>1, <3>2, <3>3, PushGrows
  <2>5. ASSUME NEW d \in Bytes, CallInOut(d) \/ CallIn(d)
        PROVE  HostsHoldNothing'
    <3>1. \/ stack' = stack
          \/ \E o \in MemoryNew(live, d) : Run("in_out", o, d) \/ Run("in", o, d)
      BY <2>5 DEF CallInOut, CallIn, Refuse
    <3>2. \A o \in MemoryNew(live, d) : o \in Ptr
      BY NewBlock DEF TypeOK, HostTypeOK
    <3> QED
      BY <2>1, <2>4, <3>1, <3>2 DEF CallKinds, ReadsOutput
  <2>6. CASE CallOut \/ CallBare
    BY <2>4, <2>6, EmptyIsBytes DEF CallOut, CallBare, CallKinds, ReadsOutput, Ptr
  <2>7. ASSUME NEW o \in Ptr, OutputSet(o)
        PROVE  HostsHoldNothing'
    <3> DEFINE n == Len(stack)
               f == [Top EXCEPT !.wrote = TRUE, !.out = o,
                                !.said = MemoryBytes(mem, o), !.final = TRUE]
    <3>1. /\ n \in Active /\ Top = stack[n] /\ Top \in Frames
          /\ Top.kind \notin Shapes
      BY <2>7, EmptySeq, ElementOfSeq
         DEF OutputSet, GuestRuns, TypeOK, Active, Top, CallKinds, ReadsOutput, Shapes
    <3>2. f.kind = Top.kind
      BY <3>1 DEF Frames
    <3>3. stack' = [stack EXCEPT ![n] = f]
      BY <2>7 DEF OutputSet, WithTop
    <3> HIDE DEF f
    <3> QED
      BY <3>1, <3>2, <3>3 DEF HostsHoldNothing, Active, TypeOK
  <2>8. ASSUME NEW shape \in Shapes, NEW h \in Arg, HostEnter(shape, h)
        PROVE  HostsHoldNothing'
    <3> DEFINE f == Frame(shape, Null, Empty)
    <3>1. f \in Frames /\ f.block = Null /\ f.out = Null
      BY FrameType, EmptyIsBytes DEF Frame, Ptr
    <3>2. stack' = stack \/ Grows(f)
      BY <2>8, EnterGrows DEF HostEnter, GuestRuns
    <3> HIDE DEF f
    <3> QED
      BY <2>1, <2>3, <3>1, <3>2
  <2>9. ASSUME NEW d \in Bytes, HostExit(d)
        PROVE  HostsHoldNothing'
    BY <2>2, <2>9 DEF HostExit, HostRuns
  <2>10. CASE ReturnOutput \/ ReturnNothing \/ GuestTraps
    BY <2>2, <2>10 DEF ReturnOutput, ReturnNothing, GuestTraps, GuestRuns
  <2>11. CASE Panic
    BY <2>11 DEF Panic, HostsHoldNothing, Active
  <2>12. CASE GuestActs \/ StorePoisoned \/ UNCHANGED vars
    BY <2>1, <2>12 DEF GuestActs, callVars, StorePoisoned, vars
  <2> QED
    BY <2>5, <2>6, <2>7, <2>8, <2>9, <2>10, <2>11, <2>12 DEF Next, OtherSteps
<1> QED
  BY <1>1, <1>2, TypeCorrect, PTL DEF Spec

(* Steps after which nothing live is without an owner that had one.        *)
LEMMA NothingLost ==
  ASSUME Claimed(stack) \subseteq Claimed(stack'),
         \A o \in live' \ owned' : o \in live \ owned \/ o \in Claimed(stack')
  PROVE  Lost' \subseteq Lost
  BY NewlyLost

(* The input of a refused call is lost, that of a call that runs is not.   *)
LEMMA CallLoss ==
  ASSUME TypeOK, Ownership, Disciplined, Trapping = {}, NEW d \in Bytes,
         CallInOut(d) \/ CallIn(d), NEW b \in Lost' \ Lost
  PROVE  LossCause(b)
<1>1. \/ Refuse /\ UNCHANGED <<live, owned>>
      \/ \E o \in MemoryNew(live, d) :
           /\ live' = Grant(live, o) /\ owned' = owned
           /\ Refuse \/ Run("in_out", o, d) \/ Run("in", o, d)
  BY DEF CallInOut, CallIn
<1>2. CASE Refuse
  <2>1. b \in live' \ owned' /\ b \notin live \ owned
    BY <1>2, NewlyLost DEF Refuse
  <2>2. b \notin live
    BY <1>1, <2>1
  <2> QED
    BY <1>2, <2>2 DEF Refuse, Outcome, LossCause
<1>3. ASSUME NEW o \in MemoryNew(live, d), NEW kind \in {"in_out", "in"},
             live' = Grant(live, o), owned' = owned, Run(kind, o, d)
      PROVE  FALSE
  <2> DEFINE f == Frame(kind, o, d)
  <2>1. f \in Frames /\ f.block = o
    BY FrameType, NewBlock DEF TypeOK, HostTypeOK, Frame, CallKinds, ReadsOutput
  <2>2. Claimed(stack) \subseteq Claimed(stack') /\ o \in Claimed(stack')
    <3>1. stack' = Append(stack, f)
      BY <1>3 DEF Run
    <3> HIDE DEF f
    <3> QED
      BY <2>1, <3>1, PushGrows, PushClaims
  <2> QED
    BY <1>3, <2>2, NothingLost DEF Grant
<1> QED
  BY <1>1, <1>2, <1>3

(* The guest's own calls lose what the handlers could not read.            *)
LEMMA GuestLoss ==
  ASSUME TypeOK, Ownership, Disciplined, Trapping = {}, GuestActs, NEW b \in Lost' \ Lost
  PROVE  LossCause(b)
<1>1. GivesUpUnreadable /\ stack' = stack
  BY GuestStepGivesUp DEF GuestActs, callVars, TypeOK, Ownership, HostInv
<1>2. b \in live' \ owned' /\ b \notin live \ owned
  BY <1>1, NewlyLost
<1> QED
  BY <1>1, <1>2 DEF GivesUpUnreadable, LossCause

(* The output set before is the guest's again, so output_set loses nothing *)
LEMMA OutputSetLoss ==
  ASSUME TypeOK, Ownership, Disciplined, NEW o \in Ptr, OutputSet(o)
  PROVE  Lost' \subseteq Lost
<1> DEFINE n == Len(stack)
           f == [Top EXCEPT !.wrote = TRUE, !.out = o,
                            !.said = MemoryBytes(mem, o), !.final = TRUE]
<1>1. /\ n \in Active /\ Top = stack[n] /\ Top \in Frames
  BY EmptySeq, ElementOfSeq DEF OutputSet, GuestRuns, TypeOK, Active, Top
<1>2. /\ live' = live
      /\ owned' = (owned \cup (IF Top.wrote THEN {Top.out} \cap live ELSE {})) \ {o}
  BY DEF OutputSet
<1>3. f.block = Top.block /\ f.out = o
  BY <1>1 DEF Frames
<1>4. /\ Len(stack') = n /\ stack'[n] = f
      /\ \A i \in Active : i # n => stack'[i] = stack[i]
  <2>1. stack' = [stack EXCEPT ![n] = f]
    BY DEF OutputSet, WithTop
  <2> HIDE DEF f
  <2> QED
    BY <1>1, <2>1 DEF Active, TypeOK
<1>5. Top.wrote \/ Top.out = Null
  BY <1>1 DEF Ownership, Sound
<1> HIDE DEF f
<1>6. Claimed(stack) \subseteq Claimed(stack') \cup {Top.out}
  BY <1>1, <1>3, <1>4 DEF Claimed, Active
<1>7. o \in Claimed(stack')
  BY <1>1, <1>3, <1>4 DEF Claimed, Active
<1>8. ASSUME NEW b \in Lost'
      PROVE  b \in Lost
  <2>1. b \in live /\ b \notin owned' /\ b \notin Claimed(stack')
    BY <1>2, <1>8 DEF Lost, Claimed, Active
  <2>2. b # o /\ b # Null
    BY <1>7, <2>1, KernelAssumption DEF TypeOK, HostTypeOK
  <2>3. b \notin owned /\ b # Top.out
    BY <1>2, <1>5, <2>1, <2>2
  <2> QED
    BY <1>6, <2>1, <2>3 DEF Lost, Claimed, Active
<1> QED
  BY <1>8

(* fetch_in loses an argument it cannot read, and frees any other.         *)
LEMMA HostEnterLoss ==
  ASSUME TypeOK, Ownership, Disciplined, Trapping = {},
         NEW shape \in Shapes, NEW h \in Arg, HostEnter(shape, h),
         NEW b \in Lost' \ Lost
  PROVE  LossCause(b)
<1> DEFINE f == Frame(shape, Null, Empty)
<1>1. Claimed(stack) \subseteq Claimed(stack')
  <2>1. f \in Frames
    BY FrameType, EmptyIsBytes DEF Ptr
  <2>2. stack' = stack \/ Grows(f)
    BY EnterGrows DEF HostEnter, GuestRuns
  <2> HIDE DEF f
  <2> QED
    BY <2>1, <2>2, PushClaims
<1>2. b \in live' \ owned' /\ b \notin live \ owned
  BY <1>1, NewlyLost
<1>3. CASE Unusable(h) /\ Answer({h}, live, Null, Empty)
  <2>1. Drops({h}, live)
    BY <1>3, UnusableDrops DEF TypeOK
  <2>2. b \in {h} \cap live
    BY <1>2, <1>3 DEF Answer, Grant
  <2>3. mem[b] \notin Text
    BY <2>1, <2>2 DEF Drops, Ownership
  <2> QED
    BY <2>3 DEF LossCause
<1>4. CASE UNCHANGED <<live, owned>>
  BY <1>2, <1>4
<1>5. CASE Answer({h}, live \ {h}, Null, Empty)
  BY <1>2, <1>5 DEF Answer, Grant
<1> QED
  BY <1>3, <1>4, <1>5 DEF HostEnter

(* The host function's answer is the guest's.                              *)
LEMMA HostExitLoss ==
  ASSUME TypeOK, HostsHoldNothing, NEW d \in Bytes, HostExit(d)
  PROVE  Lost' \subseteq Lost
<1>1. /\ stack # <<>> /\ stack' = Pop
      /\ Top.block = Null /\ Top.out = Null
  BY EmptySeq DEF HostExit, HostRuns, HostsHoldNothing, Active, Top, TypeOK
<1>2. Claimed(stack) \subseteq Claimed(stack') \cup {Null}
  BY <1>1, PopClaims
<1>3. live' \ owned' \subseteq live \ owned
  BY DEF HostExit, Answer, Grant
<1> QED
  BY <1>2, <1>3, KernelAssumption DEF Lost, Claimed, Active, TypeOK, HostTypeOK

(* A call that ends lets its input go, and its output unless it was read.  *)
LEMMA ReturnLoss ==
  ASSUME TypeOK, Disciplined, Trapping = {},
         ReturnOutput \/ ReturnNothing \/ GuestTraps, NEW b \in Lost' \ Lost
  PROVE  LossCause(b)
<1>1. GuestRuns /\ stack # <<>> /\ stack' = Pop /\ owned' = owned
  BY DEF ReturnOutput, ReturnNothing, GuestTraps, GuestRuns
<1>2. Returned
  BY <1>1, PopType, LenProperties DEF Returned, TypeOK
<1>3. live' \subseteq live
  BY DEF ReturnOutput, ReturnNothing, GuestTraps, MemoryFree
<1>4. b \in live' /\ b \in {Top.block, Top.out}
  BY <1>1, <1>3, PopClaims DEF Lost, Claimed, Active
<1>5. CASE b = Top.block
  BY <1>2, <1>5 DEF LossCause
<1>6. CASE ReturnOutput /\ b = Top.out
  <2>1. \/ result' = Outcome("error", Empty)
        \/ live' \in MemoryFree(live, output)
    BY <1>6 DEF ReturnOutput
  <2> QED
    BY <1>2, <1>4, <1>6, <2>1 DEF LossCause, Outcome, MemoryFree
<1>7. CASE (ReturnNothing \/ GuestTraps) /\ b = Top.out
  BY <1>2, <1>7 DEF LossCause, ReturnNothing, GuestTraps, Outcome
<1> QED
  BY <1>4, <1>5, <1>6, <1>7

(* While blocks have one owner each and the runtime does not trap, a block *)
(* is lost in the ways LossCauses lists and in no other, at any depth of   *)
(* nesting: what a step takes from the guest or from a call it frees, or   *)
(* hands on, in all other cases.                                           *)
THEOREM LossesAreExplained == Spec => LossCauses
<1>1. TypeOK /\ HostsHoldNothing /\ [Next]_vars => [LossesExplained]_vars
  <2> SUFFICES ASSUME TypeOK, HostsHoldNothing, Next, Ownership, Disciplined,
                      Trapping = {}, NEW b \in Lost' \ Lost
               PROVE  LossCause(b)
    BY DEF LossesExplained
  <2>1. ASSUME NEW d \in Bytes, CallInOut(d) \/ CallIn(d) \/ HostExit(d)
        PROVE  LossCause(b)
    BY <2>1, CallLoss, HostExitLoss
  <2>2. CASE CallOut \/ CallBare
    <3>1. \/ stack' = stack
          \/ \E kind \in CallKinds : stack' = Append(stack, Frame(kind, Null, Empty))
      BY <2>2 DEF CallOut, CallBare, Refuse, Run, CallKinds, ReadsOutput
    <3>2. \A kind \in CallKinds : Frame(kind, Null, Empty) \in Frames
      BY FrameType, EmptyIsBytes DEF Ptr
    <3>3. Claimed(stack) \subseteq Claimed(stack')
      BY <3>1, <3>2, PushGrows, PushClaims
    <3> QED
      BY <2>2, <3>3, NewlyLost DEF CallOut, CallBare
  <2>3. CASE GuestActs
    BY <2>3, GuestLoss
  <2>4. ASSUME NEW o \in Ptr, OutputSet(o)
        PROVE  LossCause(b)
    BY <2>4, OutputSetLoss
  <2>5. ASSUME NEW shape \in Shapes, NEW h \in Arg, HostEnter(shape, h)
        PROVE  LossCause(b)
    BY <2>5, HostEnterLoss
  <2>6. CASE ReturnOutput \/ ReturnNothing \/ GuestTraps
    BY <2>6, ReturnLoss
  <2>7. CASE Panic
    BY <2>7 DEF Panic, LossCause
  <2>8. CASE StorePoisoned
    BY <2>8 DEF StorePoisoned, vars, Lost, Active
  <2> QED
    BY <2>1, <2>2, <2>3, <2>4, <2>5, <2>6, <2>7, <2>8 DEF Next, OtherSteps
<1> QED
  BY <1>1, TypeCorrect, HostFramesInvariant, PTL DEF Spec, LossCauses

-----------------------------------------------------------------------------
(* What a sequence of activations looks like to the program.               *)
SeenCalls(s)  == [i \in 1..Len(s) |-> Visible(s[i])]
Visibles == {Visible(f) : f \in Frames}

LEMMA SeenSeq ==
  ASSUME NEW s \in Seq(Frames)
  PROVE  /\ SeenCalls(s) \in Seq(Visibles) /\ Len(SeenCalls(s)) = Len(s)
         /\ \A i \in 1..Len(s) : SeenCalls(s)[i] = Visible(s[i])
<1>1. Len(s) \in Nat /\ \A i \in 1..Len(s) : Visible(s[i]) \in Visibles
  BY ElementOfSeq, LenProperties DEF Visibles
<1>2. SeenCalls(s) \in [1..Len(s) -> Visibles]
  BY <1>1 DEF SeenCalls
<1>3. SeenCalls(s) \in Seq(Visibles) /\ Len(SeenCalls(s)) = Len(s)
  BY <1>1, <1>2
<1> QED
  BY <1>3 DEF SeenCalls

LEMMA SeenGrows ==
  ASSUME TypeOK, NEW f \in Frames, Grows(f)
  PROVE  SeenCalls(stack') = Append(SeenCalls(stack), Visible(f))
<1> DEFINE n == Len(stack)
           b == Append(SeenCalls(stack), Visible(f))
<1>1. /\ stack' \in Seq(Frames) /\ Len(stack') = n + 1 /\ n \in Nat
      /\ stack'[n + 1] = f
      /\ \A i \in 1..n : Visible(stack'[i]) = Visible(stack[i])
  BY LenProperties DEF TypeOK, Grows, Alike, Active, Visible
<1>2. /\ b \in Seq(Visibles) /\ Len(b) = n + 1
      /\ b[n + 1] = Visible(f)
      /\ \A i \in 1..n : b[i] = Visible(stack[i])
  <2>1. Visible(f) \in Visibles
    BY DEF Visibles
  <2> QED
    BY <2>1, SeenSeq, AppendProperties DEF TypeOK
<1> DEFINE t == stack'
           a == SeenCalls(t)
<1>3. /\ a \in Seq(Visibles) /\ Len(a) = n + 1
      /\ \A i \in 1..(n + 1) : a[i] = Visible(t[i])
  <2> HIDE DEF t
  <2>1. t \in Seq(Frames) /\ Len(t) = n + 1
    BY <1>1 DEF t
  <2> QED
    BY <2>1, SeenSeq
<1>4. \A i \in 1..(n + 1) : i \in 1..n \/ i = n + 1
  BY <1>1
<1> HIDE DEF a, b, n
<1>5. \A i \in 1..Len(a) : a[i] = b[i]
  BY <1>1, <1>2, <1>3, <1>4
<1>6. a = b
  BY <1>2, <1>3, <1>5, SeqEqual
<1> QED
  BY <1>6 DEF a, b

LEMMA SeenPop ==
  ASSUME TypeOK, stack # <<>>
  PROVE  SeenCalls(Pop) = SubSeq(SeenCalls(stack), 1, Len(SeenCalls(stack)) - 1)
<1> DEFINE n == Len(stack) - 1
           b == SubSeq(SeenCalls(stack), 1, n)
<1>1. /\ Pop \in Seq(Frames) /\ Len(Pop) = n /\ n \in Nat
      /\ \A i \in 1..n : Pop[i] = stack[i] /\ i \in 1..Len(stack)
  BY PopType, EmptySeq DEF TypeOK
<1>2. /\ SeenCalls(stack) \in Seq(Visibles) /\ Len(SeenCalls(stack)) = n + 1
      /\ \A i \in 1..n : SeenCalls(stack)[i] = Visible(stack[i])
  BY <1>1, SeenSeq, LenProperties DEF TypeOK
<1>3. /\ SeenCalls(Pop) \in Seq(Visibles) /\ Len(SeenCalls(Pop)) = n
      /\ \A i \in 1..n : SeenCalls(Pop)[i] = Visible(stack[i])
  BY <1>1, SeenSeq
<1> HIDE DEF n
<1>4. \A i \in 1..n : SeenCalls(stack)[i] \in Visibles
  BY <1>2, <1>3, ElementOfSeq
<1>5. /\ b \in Seq(Visibles)
      /\ Len(b) = IF 1 <= n THEN n - 1 + 1 ELSE 0
      /\ \A i \in 1..(n - 1 + 1) : b[i] = SeenCalls(stack)[1 + i - 1]
  BY <1>1, <1>4, SubSeqProperties
<1> HIDE DEF b
<1>6. Len(b) = n
  BY <1>1, <1>5
<1>7. \A i \in 1..n : b[i] = SeenCalls(stack)[i]
  <2> TAKE i \in 1..n
  <2>1. i \in 1..(n - 1 + 1) /\ 1 + i - 1 = i
    BY <1>1
  <2> QED
    BY <1>5, <2>1
<1>8. SeenCalls(Pop) = b
  BY <1>2, <1>3, <1>5, <1>6, <1>7, SeqEqual
<1>9. n = Len(SeenCalls(stack)) - 1
  BY <1>1, <1>2
<1> QED
  BY <1>8, <1>9 DEF b

LEMMA SeenSet ==
  ASSUME NEW s \in Seq(Frames), NEW n \in 1..Len(s), NEW f \in Frames
  PROVE  SeenCalls([s EXCEPT ![n] = f]) = [SeenCalls(s) EXCEPT ![n] = Visible(f)]
<1> DEFINE a == [s EXCEPT ![n] = f]
           b == [SeenCalls(s) EXCEPT ![n] = Visible(f)]
<1>1. /\ a \in Seq(Frames) /\ Len(a) = Len(s)
      /\ \A i \in 1..Len(s) : a[i] = IF i = n THEN f ELSE s[i]
  BY ExceptSeq
<1>2. /\ b \in Seq(Visibles) /\ Len(b) = Len(s)
      /\ \A i \in 1..Len(s) : b[i] = IF i = n THEN Visible(f) ELSE Visible(s[i])
  <2>1. Visible(f) \in Visibles
    BY DEF Visibles
  <2>2. n \in 1..Len(SeenCalls(s))
    BY SeenSeq
  <2> QED
    BY <2>1, <2>2, SeenSeq, ExceptSeq
<1>3. /\ SeenCalls(a) \in Seq(Visibles) /\ Len(SeenCalls(a)) = Len(s)
      /\ \A i \in 1..Len(s) : SeenCalls(a)[i] = Visible(a[i])
  BY <1>1, SeenSeq
<1> HIDE DEF a, b
<1>4. \A i \in 1..Len(SeenCalls(a)) : SeenCalls(a)[i] = b[i]
  BY <1>1, <1>2, <1>3
<1>5. SeenCalls(a) = b
  BY <1>2, <1>3, <1>4, SeqEqual
<1> QED
  BY <1>5 DEF a, b

-----------------------------------------------------------------------------
(* The activation that runs, seen by the program.                          *)
LEMMA TopSeen ==
  ASSUME TypeOK
  PROVE  /\ VisibleCalls = SeenCalls(stack)
         /\ Len(VisibleCalls) = Len(stack)
         /\ VisibleCalls = <<>> <=> stack = <<>>
         /\ stack # <<>> => CR!Last = Visible(Top) /\ Top \in Frames
         /\ CR!Guest <=> GuestRuns
         /\ CR!Host <=> HostRuns
<1>1. VisibleCalls = SeenCalls(stack)
  BY DEF VisibleCalls, SeenCalls
<1>2. /\ VisibleCalls \in Seq(Visibles) /\ Len(VisibleCalls) = Len(stack)
      /\ \A i \in 1..Len(stack) : VisibleCalls[i] = Visible(stack[i])
  BY <1>1, SeenSeq DEF TypeOK
<1>3. VisibleCalls = <<>> <=> stack = <<>>
  BY <1>2, EmptySeq DEF TypeOK
<1>4. ASSUME stack # <<>>
      PROVE  CR!Last = Visible(Top) /\ Top \in Frames
  <2>1. Len(stack) \in 1..Len(stack)
    BY <1>4, EmptySeq DEF TypeOK
  <2> QED
    BY <1>2, <2>1, PopType, <1>4 DEF CR!Last, Top
<1>5. stack # <<>> => CR!Last.kind = Top.kind
  BY <1>4 DEF Visible
<1> QED
  BY <1>1, <1>2, <1>3, <1>4, <1>5 DEF CR!Guest, CR!Host, GuestRuns, HostRuns

LEMMA SeenFrame ==
  ASSUME NEW kind, NEW o, NEW d
  PROVE  Visible(Frame(kind, o, d)) = CR!Activation(kind)
  BY DEF Visible, Frame, CR!Activation

LEMMA SeenPush ==
  ASSUME TypeOK, NEW kind \in CallKinds \cup Shapes, NEW o \in Ptr, NEW d \in Bytes,
         Grows(Frame(kind, o, d))
  PROVE  VisibleCalls' = Append(VisibleCalls, CR!Activation(kind))
<1>1. Frame(kind, o, d) \in Frames
  BY FrameType
<1>2. SeenCalls(stack') = Append(SeenCalls(stack), Visible(Frame(kind, o, d)))
  BY <1>1, SeenGrows
<1> QED
  BY <1>2, SeenFrame DEF VisibleCalls, SeenCalls

LEMMA SeenPopped ==
  ASSUME TypeOK, stack # <<>>, stack' = Pop
  PROVE  CR!Ends
<1>1. SeenCalls(stack') = SubSeq(SeenCalls(stack), 1, Len(SeenCalls(stack)) - 1)
  BY SeenPop
<1> QED
  BY <1>1 DEF CR!Ends, VisibleCalls, SeenCalls

(* A call starts or is refused.                                            *)
LEMMA CallsImplement ==
  ASSUME TypeOK, MayCall, UNCHANGED poisoned, NEW kind \in CallKinds,
         NEW o \in Ptr, NEW d \in Bytes, Refuse \/ Run(kind, o, d)
  PROVE  CR!Next
<1>1. ~poisoned /\ (VisibleCalls = <<>> \/ CR!Host)
  BY TopSeen DEF MayCall
<1>2. CASE Refuse
  <2>1. VisibleCalls' = VisibleCalls
    BY <1>2 DEF Refuse, VisibleCalls
  <2> QED
    BY <1>1, <1>2, <2>1
       DEF Refuse, Outcome, CR!Next, CR!Refuse, CR!Failed, CR!Outcome
<1>3. CASE Run(kind, o, d)
  <2>1. VisibleCalls' = Append(VisibleCalls, CR!Activation(kind))
    BY <1>3, FrameType, PushGrows, SeenPush DEF Run
  <2>2. CR!Call(kind)
    BY <1>1, <1>3, <2>1 DEF Run, Outcome, CR!Call, CR!Outcome
  <2> QED
    BY <2>2 DEF CR!Next
<1> QED
  BY <1>2, <1>3

LEMMA ArgumentCalls ==
  ASSUME TypeOK, NEW d \in Bytes, CallInOut(d) \/ CallIn(d)
  PROVE  CR!Next
<1>1. MayCall /\ UNCHANGED poisoned
  BY DEF CallInOut, CallIn
<1>2. \/ Refuse
      \/ \E o \in MemoryNew(live, d) : Run("in_out", o, d) \/ Run("in", o, d)
  BY DEF CallInOut, CallIn
<1>3. \A o \in MemoryNew(live, d) : o \in Ptr
  BY NewBlock DEF TypeOK, HostTypeOK
<1>4. "in_out" \in CallKinds /\ "in" \in CallKinds /\ Null \in Ptr
  BY DEF CallKinds, ReadsOutput, Ptr
<1>5. CASE Refuse
  BY <1>1, <1>4, <1>5, CallsImplement
<1>6. ASSUME NEW o \in MemoryNew(live, d), Run("in_out", o, d) \/ Run("in", o, d)
      PROVE  CR!Next
  BY <1>1, <1>3, <1>4, <1>6, CallsImplement
<1> QED
  BY <1>2, <1>5, <1>6

LEMMA OtherCalls ==
  ASSUME TypeOK, CallOut \/ CallBare
  PROVE  CR!Next
  BY CallsImplement, EmptyIsBytes
     DEF CallOut, CallBare, CallKinds, ReadsOutput, Ptr

LEMMA OutputSetSays ==
  ASSUME TypeOK, NEW o \in Ptr, OutputSet(o)
  PROVE  CR!Next
<1> DEFINE n == Len(stack)
           d == MemoryBytes(mem, o)
           f == [Top EXCEPT !.wrote = TRUE, !.out = o, !.said = d, !.final = TRUE]
<1>1. GuestRuns /\ n \in 1..n /\ Top = stack[n] /\ Top \in Frames
  BY EmptySeq, ElementOfSeq DEF OutputSet, GuestRuns, TypeOK, Top
<1>2. d \in Bytes
  BY BytesOfHandle DEF TypeOK, HostTypeOK
<1>3. f \in Frames /\ f.kind = Top.kind /\ f.wrote = TRUE /\ f.said = d
  BY <1>1, <1>2 DEF Frames
<1>4. Visible(f) = [kind |-> Top.kind, said |-> {d}]
  <2> HIDE DEF f
  <2> QED
    BY <1>3 DEF Visible
<1>5. stack' = [stack EXCEPT ![n] = f]
  BY DEF OutputSet, WithTop
<1>6. SeenCalls(stack') = [SeenCalls(stack) EXCEPT ![n] = [kind |-> Top.kind, said |-> {d}]]
  <2> HIDE DEF n, d, f
  <2>1. stack \in Seq(Frames) /\ n \in 1..Len(stack) /\ f \in Frames
    BY <1>1, <1>3 DEF TypeOK, n
  <2>2. SeenCalls([stack EXCEPT ![n] = f]) = [SeenCalls(stack) EXCEPT ![n] = Visible(f)]
    BY <2>1, SeenSet
  <2> QED
    BY <1>4, <1>5, <2>2
<1>7. /\ CR!Guest /\ Len(VisibleCalls) = n /\ CR!Last.kind = Top.kind
      /\ VisibleCalls = SeenCalls(stack)
  BY <1>1, TopSeen DEF GuestRuns, Visible
<1>8. VisibleCalls' = SeenCalls(stack')
  BY DEF VisibleCalls, SeenCalls
<1>9. CR!Say(d)
  BY <1>6, <1>7, <1>8 DEF CR!Say, OutputSet
<1> QED
  BY <1>2, <1>9 DEF CR!Next

LEMMA HostFunctionCalls ==
  ASSUME TypeOK, NEW shape \in Shapes, NEW h \in Arg, HostEnter(shape, h)
  PROVE  [CR!Next]_(CR!callVars)
<1>1. CASE stack' = stack
  BY <1>1 DEF HostEnter, CR!callVars, VisibleCalls
<1>2. CASE Enter(shape)
  <2>1. VisibleCalls' = Append(VisibleCalls, CR!Activation(shape))
    BY <1>2, EnterGrows, SeenPush, EmptyIsBytes DEF HostEnter, GuestRuns, Ptr
  <2>2. CR!Ask(shape)
    BY <2>1, TopSeen DEF HostEnter, CR!Ask
  <2> QED
    BY <2>2 DEF CR!Next
<1> QED
  BY <1>1, <1>2 DEF HostEnter

LEMMA HostFunctionReturns ==
  ASSUME TypeOK, NEW d \in Bytes, HostExit(d)
  PROVE  CR!Next
<1>1. CR!Host /\ CR!Ends
  BY TopSeen, SeenPopped DEF HostExit, HostRuns
<1> QED
  BY <1>1 DEF HostExit, CR!Answered, CR!Next

(* A call that reads the output returns what its guest said: here the      *)
(* blocks of the running calls have to be intact.                          *)
LEMMA ReturnsImplement ==
  ASSUME TypeOK, OutputRegister, Ownership, Disciplined,
         (Top.final /\ ReturnOutput) \/ ReturnNothing \/ GuestTraps
  PROVE  CR!Next
<1>1. /\ GuestRuns /\ stack # <<>> /\ stack' = Pop /\ UNCHANGED poisoned
  BY DEF ReturnOutput, ReturnNothing, GuestTraps, GuestRuns
<1>2. /\ CR!Guest /\ CR!Ends /\ CR!Last = Visible(Top)
  BY <1>1, TopSeen, SeenPopped
<1>3. CR!Last.kind = Top.kind /\ (Top.wrote => CR!Last.said = {Top.said})
  BY <1>2 DEF Visible
<1>4. CASE result' = Outcome("error", Empty)
  BY <1>1, <1>2, <1>4 DEF Outcome, CR!Next, CR!Fail, CR!Failed, CR!Outcome
<1>5. CASE ReturnNothing
  BY <1>1, <1>2, <1>3, <1>5
     DEF ReturnNothing, Outcome, CR!Next, CR!Return, CR!Outcome
<1>6. CASE Top.final /\ ReturnOutput /\ result' # Outcome("error", Empty)
  <2>1. /\ Top.kind \in ReadsOutput /\ Top.wrote /\ Top.out = output
        /\ MemoryBytes(mem, output) \in Text
        /\ result' = Outcome("ok", MemoryBytes(mem, output))
    BY <1>1, <1>6, FinalIsRegister DEF ReturnOutput
  <2>2. Sound(Held, mem, Top)
    BY <1>1, EmptySeq DEF Ownership, Active, Top, TypeOK
  <2>3. MemoryBytes(mem, output) = Top.said
    BY <2>1, <2>2 DEF Sound, Keeps
  <2>4. Top.said \in CR!Last.said \cap Text
    BY <1>3, <2>1, <2>3
  <2> QED
    BY <1>1, <1>2, <1>3, <2>1, <2>3, <2>4
       DEF Outcome, CR!Next, CR!Return, CR!Outcome
<1> QED
  BY <1>4, <1>5, <1>6 DEF GuestTraps

LEMMA PanicImplements ==
  ASSUME TypeOK, Panic
  PROVE  CR!Next
<1>1. VisibleCalls # <<>>
  BY TopSeen DEF Panic
<1>2. VisibleCalls' = <<>>
  <2>1. <<>> \in Seq(Frames) /\ Len(<<>>) = 0
    BY EmptySeq
  <2>2. SeenCalls(<<>>) \in Seq(Visibles) /\ Len(SeenCalls(<<>>)) = 0
    BY <2>1, SeenSeq
  <2>3. SeenCalls(<<>>) = <<>>
    BY <2>2, EmptySeq
  <2>4. VisibleCalls' = SeenCalls(<<>>)
    BY DEF Panic, VisibleCalls, SeenCalls
  <2> QED
    BY <2>3, <2>4
<1> QED
  BY <1>1, <1>2 DEF Panic, Outcome, CR!Crash, CR!Next, CR!Outcome

(* With guests that use their own handles and set their output last, calls *)
(* end as if each had a memory and an output of its own, however deeply    *)
(* they nest and whatever traps.                                           *)
THEOREM CallsImplementResults ==
  Disciplined /\ LastSpec => ImplementsCallResults
<1>1. Init => CR!Init
  <2> SUFFICES ASSUME Init PROVE CR!Init
    OBVIOUS
  <2>1. <<>> \in Seq(Frames) /\ Len(<<>>) = 0
    BY EmptySeq
  <2>2. SeenCalls(<<>>) \in Seq(Visibles) /\ Len(SeenCalls(<<>>)) = 0
    BY <2>1, SeenSeq
  <2>3. VisibleCalls = <<>>
    BY <2>2, EmptySeq DEF Init, VisibleCalls, SeenCalls
  <2> QED
    BY <2>3 DEF Init, CR!Init, Outcome, CR!Outcome
<1>2. Disciplined /\ TypeOK /\ OutputRegister /\ Ownership /\ [LastNext]_vars
        => [CR!Next]_(CR!callVars)
  <2> SUFFICES ASSUME Disciplined, TypeOK, OutputRegister, Ownership, [LastNext]_vars
               PROVE  [CR!Next]_(CR!callVars)
    OBVIOUS
  <2>1. ASSUME NEW d \in Bytes, CallInOut(d) \/ CallIn(d) \/ HostExit(d)
        PROVE  CR!Next
    BY <2>1, ArgumentCalls, HostFunctionReturns
  <2>2. CASE CallOut \/ CallBare
    BY <2>2, OtherCalls
  <2>3. CASE GuestActs
    BY <2>3 DEF GuestActs, callVars, CR!callVars, VisibleCalls
  <2>4. ASSUME NEW o \in Ptr, OutputSet(o)
        PROVE  CR!Next
    BY <2>4, OutputSetSays
  <2>5. ASSUME NEW shape \in Shapes, NEW h \in Arg, HostEnter(shape, h)
        PROVE  [CR!Next]_(CR!callVars)
    BY <2>5, HostFunctionCalls
  <2>6. CASE (GuestRuns /\ Top.final /\ ReturnOutput) \/ ReturnNothing
             \/ GuestTraps \/ Panic
    BY <2>6, ReturnsImplement, PanicImplements
  <2>7. CASE StorePoisoned \/ UNCHANGED vars
    BY <2>7 DEF StorePoisoned, vars, CR!callVars, VisibleCalls
  <2> QED
    BY <2>1, <2>2, <2>3, <2>4, <2>5, <2>6, <2>7 DEF LastNext, OtherSteps
<1>3. Disciplined => []Disciplined
  OBVIOUS
<1> QED
  BY <1>1, <1>2, <1>3, LastImpliesNext, TypeCorrect, OutputRegisterIsOwn,
     OwnershipHolds, PTL DEF LastSpec, ImplementsCallResults, CR!Spec
=============================================================================
