------------------------ MODULE HostFunctionsProofs ------------------------
(***************************************************************************)
(* Proofs about HostFunctions, for any guest and any set of trapping       *)
(* runtime exports.  The inductive invariant is the type invariant with    *)
(* GuestBlocksKept: a handler frees only blocks it was passed, and what it *)
(* was passed leaves owned in the same step.  The last part is about       *)
(* VarRequests: the host functions implement the table of VarStore.        *)
(***************************************************************************)
EXTENDS VarRequests, TLAPS

(* What memory_new may return for the bytes d is the null handle for the   *)
(* empty byte string and a block that is not live otherwise, so writing d  *)
(* there keeps the memory well typed (kernel.rs, memory_new).              *)
LEMMA NewBlock ==
  ASSUME NEW L \in SUBSET Offsets, NEW d \in Bytes, NEW o \in MemoryNew(L, d),
         NEW m \in [Offsets -> Payload]
  PROVE  /\ o \in Ptr /\ o \notin L
         /\ Grant(L, o) \in SUBSET Offsets
         /\ Write(m, o, d) \in [Offsets -> Payload]
         /\ o # Null => d \in Payload
  BY KernelAssumption DEF MemoryNew, Grant, Write, Ptr, Payload

(* What a handle names is a byte string (kernel.rs, memory_bytes).         *)
LEMMA BytesOfHandle ==
  ASSUME NEW m \in [Offsets -> Payload], NEW o \in Ptr
  PROVE  MemoryBytes(m, o) \in Bytes
  BY KernelAssumption DEF MemoryBytes, Ptr, Payload

(* memory_free removes at most the block it is given.                      *)
LEMMA FreedBlock ==
  ASSUME NEW L, NEW o, NEW K \in MemoryFree(L, o)
  PROVE  K \subseteq L /\ L \ {o} \subseteq K
  BY DEF MemoryFree

(* The guest passes handles, disciplined or not.                           *)
LEMMA ArgIsPtr == HostTypeOK => Arg \subseteq Ptr
  BY DEF HostTypeOK, Arg, Ptr

-----------------------------------------------------------------------------
HostInv == HostTypeOK /\ GuestBlocksKept

(* A handler that took args leaves of them only what is not text, if the   *)
(* guest owned them and nothing traps.                                     *)
Drops(args, L) ==
  GuestBlocksKept /\ Disciplined /\ Trapping = {} =>
    \A o \in args \cap L : mem[o] \notin Text

(* What the handlers have in common: they take args, free nothing else,    *)
(* and answer with the null handle or a block that was free.               *)
Handled(args, ret) ==
  \E L \in SUBSET live, d \in Bytes :
    /\ live \ args \subseteq L /\ Drops(args, L)
    /\ ret \in MemoryNew(L, d)
    /\ Answer(args, L, ret, d)

VarsTypeOK == pluginVars \in [Text -> Bytes \cup {Absent}]

(* Returning without an answer is answering with the null handle.          *)
LEMMA NoAnswer ==
  ASSUME NEW args, NEW L \in SUBSET live, live \ args \subseteq L,
         Drops(args, L), Answer(args, L, Null, Empty)
  PROVE  Handled(args, Null)
  BY KernelAssumption DEF Handled, MemoryNew

(* Without traps, a handle the guest owns is found.                        *)
LEMMA OwnedIsFound ==
  ASSUME HostInv, Disciplined, Trapping = {}, NEW h \in Arg
  PROVE  ~CanMiss(live, h)
  BY DEF HostInv, GuestBlocksKept, Arg, CanMiss

(* Giving up on a handle that is of no use leaves only what is not text.   *)
LEMMA UnusableDrops ==
  ASSUME HostTypeOK, NEW h \in Arg, Unusable(h)
  PROVE  Drops({h}, live)
  BY OwnedIsFound, KernelAssumption DEF Drops, Unusable, MemoryBytes, HostInv,
     HostTypeOK

(* Kernel::log takes the text and nothing else.                            *)
LEMMA LogHandled ==
  ASSUME HostTypeOK, NEW text \in Arg, Log(text)
  PROVE  Handled({text}, Null) /\ VarsTypeOK'
<1>1. VarsTypeOK'
  BY DEF HostTypeOK, VarsTypeOK, Log
<1>2. CASE Unusable(text) /\ Answer({text}, live, Null, Empty)
  BY <1>1, <1>2, UnusableDrops, NoAnswer
<1>3. ASSUME NEW L \in MemoryFree(live, text), Answer({text}, L, Null, Empty)
      PROVE  Handled({text}, Null)
  <2>1. L \in SUBSET live /\ live \ {text} \subseteq L
    BY FreedBlock
  <2>2. Drops({text}, L)
    BY DEF Drops, MemoryFree
  <2> QED
    BY <1>3, <2>1, <2>2, NoAnswer
<1> QED
  BY <1>1, <1>2, <1>3 DEF Log

(* config_get and var_get take the key and nothing else, whichever branch  *)
(* they return from.                                                       *)
LEMMA LookupHandled ==
  ASSUME HostTypeOK, NEW table \in [Text -> Bytes \cup {Absent}],
         NEW key \in Arg, NEW ret, Lookup(table, key, ret)
  PROVE  Handled({key}, ret)
<1>1. CASE Unusable(key) /\ ret = Null /\ Answer({key}, live, Null, Empty)
  BY <1>1, UnusableDrops, NoAnswer
<1>2. CASE /\ Readable(key)
           /\ \E L \in MemoryFree(live, key) :
                LET d == table[MemoryBytes(mem, key)]
                IN  \/ /\ d = Absent \/ AllocFails(L, d)
                       /\ ret = Null /\ Answer({key}, L, Null, Empty)
                    \/ /\ d # Absent
                       /\ ret \in MemoryNew(L, d)
                       /\ Answer({key}, L, ret, d)
  <2> DEFINE d == table[MemoryBytes(mem, key)]
  <2>1. PICK L \in MemoryFree(live, key) :
             \/ ret = Null /\ Answer({key}, L, Null, Empty)
             \/ d # Absent /\ ret \in MemoryNew(L, d) /\ Answer({key}, L, ret, d)
    BY <1>2
  <2>2. L \in SUBSET live /\ live \ {key} \subseteq L
    BY <2>1, FreedBlock
  <2>3. Drops({key}, L)
    BY <2>1 DEF Drops, MemoryFree
  <2>4. d \in Bytes \cup {Absent}
    BY <1>2 DEF Readable
  <2>5. CASE ret = Null /\ Answer({key}, L, Null, Empty)
    BY <2>5, <2>2, <2>3, NoAnswer
  <2>6. CASE d # Absent /\ ret \in MemoryNew(L, d) /\ Answer({key}, L, ret, d)
    BY <2>6, <2>2, <2>3, <2>4 DEF Handled
  <2> QED
    BY <2>1, <2>5, <2>6
<1> QED
  BY <1>1, <1>2 DEF Lookup

(* var_set takes the key and the value, also when they are one block.      *)
LEMMA VarSetHandled ==
  ASSUME HostTypeOK, NEW key \in Arg, NEW value \in Arg, VarSet(key, value)
  PROVE  Handled({key, value}, Null) /\ VarsTypeOK'
<1> DEFINE args == {key, value}
           Done(L) == Answer(args, L, Null, Empty)
<1>1. VarsTypeOK'
  <2>1. MemoryBytes(mem, value) \in Bytes
    BY BytesOfHandle, ArgIsPtr DEF HostTypeOK
  <2> QED
    BY <2>1 DEF VarSet, VarsTypeOK, HostTypeOK
<1>2. \A K : K \in MemoryFree(live, value) =>
               K \in SUBSET live /\ live \ args \subseteq K
  BY FreedBlock
<1>3. CASE \/ CanMiss(live, key) /\ CanMiss(live, value) /\ Done(live)
           \/ CanFind(live, key) /\ CanMiss(live, value) /\ Done(live)
  <2>1. Drops(args, live)
    BY <1>3, OwnedIsFound DEF Drops, HostInv
  <2> QED
    BY <1>1, <1>3, <2>1, NoAnswer
<1>4. CASE CanMiss(live, key) /\ \E L \in MemoryFree(live, value) : Done(L)
  <2>1. PICK L \in MemoryFree(live, value) : Done(L)
    BY <1>4
  <2>2. Drops(args, L)
    BY <1>4, OwnedIsFound DEF Drops, HostInv
  <2> QED
    BY <1>1, <1>2, <2>1, <2>2, NoAnswer
<1>5. CASE /\ MemoryBytes(mem, key) \notin Text
           /\ \E L \in MemoryFree(live, value) : Done(L)
  <2>1. PICK L \in MemoryFree(live, value) : Done(L)
    BY <1>5
  <2>2. Drops(args, L)
    BY <1>5, KernelAssumption DEF Drops, MemoryFree, MemoryBytes
  <2> QED
    BY <1>1, <1>2, <2>1, <2>2, NoAnswer
<1>6. ASSUME NEW L \in MemoryFree(live, key)
      PROVE  /\ CanMiss(L, value) /\ Done(L) => Handled(args, Null)
             /\ \A K \in MemoryFree(L, value) : Done(K) => Handled(args, Null)
  <2>1. L \in SUBSET live /\ live \ args \subseteq L
    BY FreedBlock
  <2>2. CanMiss(L, value) => Drops(args, L)
    BY DEF Drops, MemoryFree, CanMiss
  <2>3. ASSUME NEW K \in MemoryFree(L, value)
        PROVE  K \in SUBSET live /\ live \ args \subseteq K /\ Drops(args, K)
    <3>1. K \in SUBSET live /\ live \ args \subseteq K
      BY <2>1, FreedBlock
    <3>2. Drops(args, K)
      BY DEF Drops, MemoryFree
    <3> QED
      BY <3>1, <3>2
  <2> QED
    BY <2>1, <2>2, <2>3, NoAnswer
<1> QED
  BY <1>1, <1>3, <1>4, <1>5, <1>6 DEF VarSet

(* Every step of the guest is one of its own memory operations or a        *)
(* handler's.                                                              *)
LEMMA GuestStepCases ==
  ASSUME HostTypeOK, GuestStep
  PROVE  \/ \E o \in Offsets, e \in Payload : GuestAlloc(o, e) \/ GuestStore(o, e)
         \/ \E o \in Offsets : GuestFree(o)
         \/ \E args \in SUBSET Arg : \E ret : Handled(args, ret) /\ VarsTypeOK'
<1>1. ASSUME NEW h \in Arg, Log(h)
      PROVE  \E args \in SUBSET Arg : \E ret : Handled(args, ret) /\ VarsTypeOK'
  BY <1>1, LogHandled
<1>2. ASSUME NEW h \in Arg, NEW ret \in Ptr, ConfigGet(h, ret)
      PROVE  \E args \in SUBSET Arg : \E r : Handled(args, r) /\ VarsTypeOK'
  <2>1. Config \in [Text -> Bytes \cup {Absent}]
    BY HostAssumption, KernelAssumption
  <2>2. Handled({h}, ret)
    BY <1>2, <2>1, LookupHandled DEF ConfigGet
  <2>3. VarsTypeOK'
    BY <1>2 DEF ConfigGet, VarsTypeOK, HostTypeOK
  <2> QED
    BY <2>2, <2>3
<1>3. ASSUME NEW h \in Arg, NEW ret \in Ptr, VarGet(h, ret)
      PROVE  \E args \in SUBSET Arg : \E r : Handled(args, r) /\ VarsTypeOK'
  <2>1. Handled({h}, ret)
    BY <1>3, LookupHandled DEF VarGet, HostTypeOK
  <2>2. VarsTypeOK'
    BY <1>3 DEF VarGet, VarsTypeOK, HostTypeOK
  <2> QED
    BY <2>1, <2>2
<1>4. ASSUME NEW h \in Arg, NEW v \in Arg, VarSet(h, v)
      PROVE  \E args \in SUBSET Arg : \E ret : Handled(args, ret) /\ VarsTypeOK'
  <2>1. Handled({h, v}, Null) /\ VarsTypeOK'
    BY <1>4, VarSetHandled
  <2>2. {h, v} \in SUBSET Arg
    OBVIOUS
  <2> QED
    BY <2>1, <2>2
<1> QED
  BY <1>1, <1>2, <1>3, <1>4 DEF GuestStep

(* A handler keeps the types.                                              *)
LEMMA HandledType ==
  ASSUME HostTypeOK, NEW args, NEW ret, Handled(args, ret), VarsTypeOK'
  PROVE  HostTypeOK'
<1>1. PICK L \in SUBSET live, d \in Bytes :
           ret \in MemoryNew(L, d) /\ Answer(args, L, ret, d)
  BY DEF Handled
<1>2. L \in SUBSET Offsets
  BY DEF HostTypeOK
<1>3. live' \in SUBSET Offsets /\ mem' \in [Offsets -> Payload]
  BY <1>1, <1>2, NewBlock DEF Answer, HostTypeOK
<1>4. owned' \in SUBSET Offsets
  BY <1>1, <1>2, NewBlock DEF Answer, HostTypeOK, Grant, Ptr
<1> QED
  BY <1>3, <1>4 DEF HostTypeOK, VarsTypeOK

(* A handler keeps the blocks of the guest.                                *)
LEMMA HandledKeeps ==
  ASSUME GuestBlocksKept, NEW args, NEW ret, Handled(args, ret)
  PROVE  GuestBlocksKept'
  BY DEF Handled, Answer, Grant, GuestBlocksKept

-----------------------------------------------------------------------------
LEMMA HostInitInv == HostInit => HostInv
  BY KernelAssumption DEF HostInit, HostInv, HostTypeOK, GuestBlocksKept, Payload

(* Every step of the guest keeps the types.                                *)
LEMMA GuestStepType ==
  ASSUME HostTypeOK, GuestStep
  PROVE  HostTypeOK'
<1>1. ASSUME NEW o \in Offsets, NEW e \in Payload, GuestAlloc(o, e)
      PROVE  HostTypeOK'
  BY <1>1 DEF GuestAlloc, HostTypeOK
<1>2. ASSUME NEW o \in Offsets, NEW e \in Payload, GuestStore(o, e)
      PROVE  HostTypeOK'
  BY <1>2 DEF GuestStore, HostTypeOK
<1>3. ASSUME NEW o \in Offsets, GuestFree(o)
      PROVE  HostTypeOK'
  BY <1>3 DEF GuestFree, HostTypeOK
<1> QED
  BY <1>1, <1>2, <1>3, HandledType, GuestStepCases

(* Every step of the guest keeps its blocks.                               *)
LEMMA GuestStepInv ==
  ASSUME HostInv, GuestStep
  PROVE  HostInv'
<1> USE DEF HostInv
<1>1. HostTypeOK'
  BY GuestStepType
<1>2. ASSUME NEW o \in Offsets, NEW e \in Payload,
             GuestAlloc(o, e) \/ GuestStore(o, e) \/ GuestFree(o)
      PROVE  GuestBlocksKept'
  BY <1>2 DEF GuestAlloc, GuestStore, GuestFree, GuestBlocksKept
<1>3. Payload # {}
  BY KernelAssumption DEF Payload
<1> QED
  BY <1>1, <1>2, <1>3, HandledKeeps, GuestStepCases

LEMMA HostInvariant == HostSpec => []HostInv
<1>1. HostInv /\ [GuestStep]_hostVars => HostInv'
  <2>1. HostInv /\ UNCHANGED hostVars => HostInv'
    BY DEF HostInv, HostTypeOK, GuestBlocksKept, hostVars
  <2> QED
    BY <2>1, GuestStepInv
<1> QED
  BY <1>1, HostInitInv, PTL DEF HostSpec

(* The host functions keep their state well typed, with any guest.         *)
THEOREM HostTypeCorrect == HostSpec => []HostTypeOK
  BY HostInvariant, PTL DEF HostInv

(* log, config_get, var_get and var_set never free a block the guest has   *)
(* not passed to them, however the guest behaves and whichever runtime     *)
(* exports trap.                                                           *)
THEOREM GuestBlocksAreKept == HostSpec => []GuestBlocksKept
  BY HostInvariant, PTL DEF HostInv

-----------------------------------------------------------------------------
(* What a handler of a disciplined guest may touch: everything live that   *)
(* the guest does not own stays live, unowned and as it is.  The blocks of *)
(* the calls that are running are such blocks (PluginCallProofs).          *)
Untouched ==
  \A o \in live \ owned : o \in live' \ owned' /\ mem'[o] = mem[o]

LEMMA HandledUntouched ==
  ASSUME HostInv, Disciplined, NEW args \in SUBSET Arg, NEW ret,
         Handled(args, ret)
  PROVE  Untouched
<1>1. PICK L \in SUBSET live, d \in Bytes :
           /\ live \ args \subseteq L
           /\ ret \in MemoryNew(L, d)
           /\ Answer(args, L, ret, d)
  BY DEF Handled
<1>2. args \subseteq owned \cup {Null} /\ L \in SUBSET Offsets
  BY DEF Arg, HostInv, HostTypeOK
<1>3. ret \in Ptr /\ ret \notin L
  BY <1>1, <1>2, NewBlock DEF HostInv, HostTypeOK
<1>4. ASSUME NEW o \in live \ owned
      PROVE  o \in L /\ o # ret /\ o \in Offsets
  BY <1>1, <1>2, <1>3, <1>4, KernelAssumption DEF HostInv, HostTypeOK
<1> QED
  BY <1>1, <1>4 DEF Untouched, Answer, Grant, Write, HostInv, HostTypeOK

LEMMA GuestStepUntouched ==
  ASSUME HostInv, Disciplined, GuestStep
  PROVE  Untouched
<1> USE DEF HostInv, HostTypeOK, Untouched
<1>1. ASSUME NEW o \in Offsets, NEW e \in Payload, GuestAlloc(o, e)
      PROVE  Untouched
  BY <1>1 DEF GuestAlloc
<1>2. ASSUME NEW o \in Offsets, NEW e \in Payload, GuestStore(o, e)
      PROVE  Untouched
  <2>1. o \in owned
    BY <1>2, KernelAssumption DEF GuestStore, Arg
  <2> QED
    BY <1>2, <2>1 DEF GuestStore
<1>3. ASSUME NEW o \in Offsets, GuestFree(o)
      PROVE  Untouched
  <2>1. o \in owned
    BY <1>3, KernelAssumption DEF GuestFree, Arg
  <2> QED
    BY <1>3, <2>1 DEF GuestFree
<1> QED
  BY <1>1, <1>2, <1>3, HandledUntouched, GuestStepCases

(* What a step leaves live without an owner had none before, or is not     *)
(* text.                                                                   *)
GivesUpUnreadable ==
  \A o \in live' \ owned' : o \in live \ owned \/ mem[o] \notin Text

LEMMA HandledGivesUp ==
  ASSUME HostInv, Disciplined, Trapping = {}, NEW args, NEW ret,
         Handled(args, ret)
  PROVE  GivesUpUnreadable
<1>1. PICK L \in SUBSET live, d \in Bytes :
           /\ live \ args \subseteq L /\ Drops(args, L)
           /\ ret \in MemoryNew(L, d)
           /\ Answer(args, L, ret, d)
  BY DEF Handled
<1>2. ASSUME NEW o \in live' \ owned'
      PROVE  o \in live \ owned \/ mem[o] \notin Text
  <2>1. o \in L /\ o \notin owned \ args
    BY <1>1, <1>2 DEF Answer, Grant
  <2> QED
    BY <1>1, <2>1 DEF Drops, HostInv
<1> QED
  BY <1>2 DEF GivesUpUnreadable

LEMMA GuestStepGivesUp ==
  ASSUME HostInv, Disciplined, Trapping = {}, GuestStep
  PROVE  GivesUpUnreadable
<1>1. ASSUME NEW o \in Offsets, NEW e \in Payload,
             GuestAlloc(o, e) \/ GuestStore(o, e)
      PROVE  GivesUpUnreadable
  BY <1>1 DEF GuestAlloc, GuestStore, GivesUpUnreadable
<1>2. ASSUME NEW o \in Offsets, GuestFree(o)
      PROVE  GivesUpUnreadable
  BY <1>2 DEF GuestFree, GivesUpUnreadable
<1> QED
  BY <1>1, <1>2, HandledGivesUp, GuestStepCases DEF HostInv

(* A handler of a disciplined guest loses no readable block.               *)
LEMMA HandledLost ==
  ASSUME HostInv, Disciplined, Trapping = {}, LostBlocksAreUnreadable,
         NEW args \in SUBSET Arg, NEW ret, Handled(args, ret)
  PROVE  LostBlocksAreUnreadable'
<1>1. PICK L \in SUBSET live, d \in Bytes :
           /\ live \ args \subseteq L /\ Drops(args, L)
           /\ ret \in MemoryNew(L, d)
           /\ Answer(args, L, ret, d)
  BY DEF Handled
<1>2. ret \in Ptr /\ ret \notin L
  BY <1>1, NewBlock DEF HostInv, HostTypeOK
<1>3. ASSUME NEW o \in live' \ owned'
      PROVE  mem'[o] \notin Text
  <2>1. o \in L /\ o # ret /\ o \notin owned \ args /\ o \in Offsets
    BY <1>1, <1>2, <1>3 DEF Answer, Grant, HostInv, HostTypeOK
  <2>2. mem'[o] = mem[o]
    BY <1>1, <1>2, <2>1 DEF Answer, Write, HostInv, HostTypeOK
  <2>3. CASE o \in args
    BY <1>1, <2>1, <2>2, <2>3 DEF Drops, HostInv
  <2>4. CASE o \notin owned
    BY <2>1, <2>2, <2>4 DEF LostBlocksAreUnreadable
  <2> QED
    BY <2>1, <2>3, <2>4
<1> QED
  BY <1>3 DEF LostBlocksAreUnreadable

LEMMA GuestStepLost ==
  ASSUME HostInv, Disciplined, Trapping = {}, LostBlocksAreUnreadable, GuestStep
  PROVE  LostBlocksAreUnreadable'
<1> USE DEF HostInv, HostTypeOK, LostBlocksAreUnreadable
<1>1. ASSUME NEW o \in Offsets, NEW e \in Payload, GuestAlloc(o, e)
      PROVE  LostBlocksAreUnreadable'
  BY <1>1 DEF GuestAlloc
<1>2. ASSUME NEW o \in Offsets, NEW e \in Payload, GuestStore(o, e)
      PROVE  LostBlocksAreUnreadable'
  <2>1. o \in owned
    BY <1>2, KernelAssumption DEF GuestStore, Arg
  <2> QED
    BY <1>2, <2>1 DEF GuestStore
<1>3. ASSUME NEW o \in Offsets, GuestFree(o)
      PROVE  LostBlocksAreUnreadable'
  BY <1>3 DEF GuestFree
<1> QED
  BY <1>1, <1>2, <1>3, HandledLost, GuestStepCases

(* With a well-behaved guest and a runtime that does not trap, the         *)
(* handlers free every block they take, unless they took it as text and it *)
(* is not UTF-8.                                                           *)
THEOREM OnlyUnreadableBlocksAreLost == HostSpec => []LostBlocksAreUnreadable
<1>1. HostInit => LostBlocksAreUnreadable
  BY DEF HostInit, LostBlocksAreUnreadable
<1>2. HostInv /\ LostBlocksAreUnreadable /\ [GuestStep]_hostVars
        => LostBlocksAreUnreadable'
  <2>1. LostBlocksAreUnreadable /\ UNCHANGED hostVars => LostBlocksAreUnreadable'
    BY DEF LostBlocksAreUnreadable, hostVars
  <2>2. ~(Disciplined /\ Trapping = {}) => LostBlocksAreUnreadable'
    BY DEF LostBlocksAreUnreadable
  <2> QED
    BY <2>1, <2>2, GuestStepLost
<1> QED
  BY <1>1, <1>2, HostInvariant, PTL DEF HostSpec

-----------------------------------------------------------------------------
(* VarRequests refines VarStore.  With types, a request of the guest is a  *)
(* step of the table and everything else a stuttering step.                *)

LEMMA VisibleUnchanged == UNCHANGED pluginVars => UNCHANGED VisibleVars
  BY DEF VisibleVars

(* What the guest asks for is a request of the table.                      *)
LEMMA AskedIsRequest ==
  ASSUME HostTypeOK, NEW h \in Arg, NEW v \in Arg
  PROVE  /\ AskedGet(h) \in VS!Requests \cup {VS!Unusable}
         /\ AskedSet(h, v) \in VS!Requests \cup {VS!Unusable}
         /\ Readable(h) => AskedGet(h) \in VS!Requests
         /\ Readable(h) /\ CanFind(live, v) => AskedSet(h, v) \in VS!Requests
<1>1. Seen(MemoryBytes(mem, v)) \in Payload \cup {Absent}
  BY BytesOfHandle, ArgIsPtr DEF Seen, Payload, HostTypeOK
<1>2. Readable(h) => MemoryBytes(mem, h) \in Text
  BY DEF Readable
<1> QED
  BY <1>1, <1>2 DEF AskedGet, AskedSet, VS!Requests

(* A request that need not succeed may be answered with "not found".       *)
LEMMA MayFail ==
  ASSUME NEW r \in VS!Requests \cup {VS!Unusable}, request' = r, ~r.sure,
         reply' = Absent, UNCHANGED VisibleVars
  PROVE  VS!Next
  BY DEF VS!Next, VS!Serve, VS!Fail

(* A handle that reads as text is of no use only when "length" trapped.    *)
LEMMA UselessText ==
  ASSUME NEW h, Readable(h), Unusable(h)
  PROVE  "length" \in Trapping
  BY DEF Readable, Unusable, CanFind, CanMiss

(* var_get: what it answers with is the value of the key it was asked for, *)
(* unless the key cannot be read or memory_new fails.                      *)
LEMMA GetRefines ==
  ASSUME HostTypeOK, NEW h \in Arg, NEW ret \in Ptr, GetRequest(h, ret)
  PROVE  VS!Next
<1> DEFINE k == MemoryBytes(mem, h)
           d == pluginVars[k]
           r == AskedGet(h)
<1>1. /\ UNCHANGED VisibleVars /\ request' = r
      /\ ret = Null => reply' = Absent
      /\ ret # Null => reply' = mem'[ret]
  BY VisibleUnchanged DEF GetRequest, VarGet
<1>2. r \in VS!Requests \cup {VS!Unusable}
  BY AskedIsRequest
<1>3. CASE ~Readable(h)
  <2>1. ~r.sure
    BY <1>3 DEF AskedGet, VS!Unusable
  <2>2. ret = Null
    BY <1>3 DEF GetRequest, VarGet, Lookup
  <2> HIDE DEF r
  <2> QED
    BY <1>1, <1>2, <2>1, <2>2, MayFail
<1>4. CASE Readable(h)
  <2>1. /\ r \in VS!Requests /\ r.op = "get" /\ r.key = k /\ k \in Text
        /\ r.sure => /\ Trapping \cap {"length", "alloc"} = {}
                     /\ \A L \in MemoryFree(live, h) : L # Offsets
    BY <1>4, AskedIsRequest DEF AskedGet, Readable
  <2>2. CASE Unusable(h) /\ ret = Null
    <3>1. ~r.sure
      BY <1>4, <2>1, <2>2, UselessText
    <3> HIDE DEF r
    <3> QED
      BY <1>1, <1>2, <2>2, <3>1, MayFail
  <2>3. ASSUME NEW L \in MemoryFree(live, h), AllocFails(L, d), ret = Null
        PROVE  VS!Next
    <3>1. ~r.sure
      BY <2>1, <2>3 DEF AllocFails
    <3> HIDE DEF r
    <3> QED
      BY <1>1, <1>2, <2>3, <3>1, MayFail
  <2>4. ASSUME reply' = VisibleVars[k]
        PROVE  VS!Next
    <3> HIDE DEF r, k
    <3> QED
      BY <1>1, <2>1, <2>4 DEF VS!Next, VS!Serve, VS!Get
  <2>5. VisibleVars[k] = Seen(d)
    BY <2>1 DEF VisibleVars
  <2>6. CASE d = Absent /\ ret = Null
    BY <1>1, <2>4, <2>5, <2>6, KernelAssumption, HostAssumption DEF Seen
  <2>7. ASSUME NEW L \in MemoryFree(live, h), d # Absent,
               ret \in MemoryNew(L, d), Answer({h}, L, ret, d)
        PROVE  VS!Next
    <3>1. d \in Bytes
      BY <2>1, <2>7 DEF HostTypeOK
    <3>2. CASE d = Empty
      BY <1>1, <2>4, <2>5, <2>7, <3>2 DEF MemoryNew, Seen
    <3>3. CASE d # Empty
      <4>1. ret \in Offsets /\ ret # Null
        BY <2>7, <3>3, KernelAssumption DEF MemoryNew
      <4>2. mem'[ret] = d
        BY <2>7, <4>1 DEF Answer, Write, HostTypeOK
      <4> QED
        BY <1>1, <2>4, <2>5, <3>3, <4>1, <4>2 DEF Seen
    <3> QED
      BY <3>2, <3>3
  <2>8. \/ Unusable(h) /\ ret = Null
        \/ \E L \in MemoryFree(live, h) :
             \/ d = Absent /\ ret = Null
             \/ AllocFails(L, d) /\ ret = Null
             \/ d # Absent /\ ret \in MemoryNew(L, d) /\ Answer({h}, L, ret, d)
    BY DEF GetRequest, VarGet, Lookup
  <2> QED
    BY <2>2, <2>3, <2>6, <2>7, <2>8
<1> QED
  BY <1>3, <1>4

(* var_set: the table changes at the key that was passed, to the value     *)
(* that was passed, unless one of the two cannot be read.                  *)
LEMMA SetRefines ==
  ASSUME HostTypeOK, NEW h \in Arg, NEW v \in Arg, SetRequest(h, v)
  PROVE  VS!Next
<1> DEFINE k == MemoryBytes(mem, h)
           d == MemoryBytes(mem, v)
           r == AskedSet(h, v)
<1>1. reply' = Absent /\ request' = r
  BY DEF SetRequest
<1>2. r \in VS!Requests \cup {VS!Unusable}
  BY AskedIsRequest
<1>3. CASE UNCHANGED pluginVars /\ ~r.sure
  <2> HIDE DEF r
  <2> QED
    BY <1>1, <1>2, <1>3, VisibleUnchanged, MayFail
<1>4. CASE /\ Readable(h) /\ CanFind(live, v)
           /\ pluginVars' = [pluginVars EXCEPT ![k] = d]
  <2>1. /\ r \in VS!Requests /\ r.op = "set" /\ r.key = k /\ r.value = Seen(d)
        /\ k \in Text
    BY <1>4, AskedIsRequest DEF AskedSet, Readable
  <2>2. VisibleVars' = [VisibleVars EXCEPT ![k] = Seen(d)]
    <3> HIDE DEF d, k
    <3> QED
      BY <1>4, <2>1 DEF VisibleVars, HostTypeOK
  <2> HIDE DEF r, k, d
  <2> QED
    BY <1>1, <2>1, <2>2 DEF VS!Next, VS!Serve, VS!Set
<1>5. CASE UNCHANGED pluginVars /\ ~(Readable(h) /\ CanFind(live, v))
  <2>1. ~r.sure
    BY <1>5 DEF AskedSet, VS!Unusable
  <2> QED
    BY <1>3, <1>5, <2>1
<1>6. CASE UNCHANGED pluginVars /\ Readable(h) /\ CanFind(live, v)
  <2>1. r.sure => "length" \notin Trapping /\ (h = v => h = Null)
    BY <1>6 DEF AskedSet
  <2>2. \/ CanMiss(live, h) \/ CanMiss(live, v)
        \/ \E L \in MemoryFree(live, h) : CanMiss(L, v)
        \/ pluginVars' = [pluginVars EXCEPT ![k] = d]
    BY <1>6 DEF SetRequest, VarSet, Readable
  <2>3. ASSUME CanMiss(live, h) \/ CanMiss(live, v)
        PROVE  "length" \in Trapping
    BY <1>6, <2>3 DEF Readable, CanFind, CanMiss
  <2>4. ASSUME NEW L \in MemoryFree(live, h), CanMiss(L, v)
        PROVE  "length" \in Trapping \/ (h = v /\ h # Null)
    BY <1>6, <2>4 DEF CanFind, CanMiss, MemoryFree
  <2>5. CASE pluginVars' = [pluginVars EXCEPT ![k] = d]
    BY <1>4, <1>6, <2>5
  <2> HIDE DEF r, k, d
  <2> QED
    BY <1>3, <1>6, <2>1, <2>2, <2>3, <2>4, <2>5
<1>7. \/ UNCHANGED pluginVars
      \/ /\ Readable(h) /\ CanFind(live, v)
         /\ pluginVars' = [pluginVars EXCEPT ![k] = d]
  BY DEF SetRequest, VarSet
<1> QED
  BY <1>4, <1>5, <1>6, <1>7

(* A request is a step of the guest.                                       *)
LEMMA RequestIsGuestStep == [RequestNext]_requestVars => [GuestStep]_hostVars
  BY DEF RequestNext, GetRequest, SetRequest, OtherStep, GuestStep, requestVars,
     hostVars

LEMMA RequestInvariant == RequestSpec => []HostInv
<1>1. RequestInit => HostInv
  BY HostInitInv DEF RequestInit
<1>2. HostInv /\ [RequestNext]_requestVars => HostInv'
  <2>1. HostInv /\ UNCHANGED hostVars => HostInv'
    BY DEF HostInv, HostTypeOK, GuestBlocksKept, hostVars
  <2> QED
    BY <2>1, GuestStepInv, RequestIsGuestStep
<1> QED
  BY <1>1, <1>2, PTL DEF RequestSpec

(* What the guest reads with var_get is what it last set under the key it  *)
(* passes: each request reads or writes the variable the guest named, with *)
(* the value it passed, and fails only for a reason (kernel.rs, var_get    *)
(* and var_set), whatever the guest does with its memory and whichever     *)
(* runtime exports trap.                                                   *)
THEOREM RequestsImplementVarStore == RequestSpec => ImplementsVarStore
<1>1. RequestInit => VS!Init
  BY KernelAssumption, HostAssumption DEF RequestInit, HostInit, VS!Init,
     VisibleVars, Seen
<1>2. HostInv /\ [RequestNext]_requestVars => [VS!Next]_(VS!storeVars)
  <2> SUFFICES ASSUME HostInv, [RequestNext]_requestVars
               PROVE  [VS!Next]_(VS!storeVars)
    OBVIOUS
  <2>1. ASSUME NEW h \in Arg, NEW ret \in Ptr, GetRequest(h, ret)
        PROVE  VS!Next
    BY <2>1, GetRefines DEF HostInv
  <2>2. ASSUME NEW h \in Arg, NEW v \in Arg, SetRequest(h, v)
        PROVE  VS!Next
    BY <2>2, SetRefines DEF HostInv
  <2>3. CASE OtherStep
    <3>1. UNCHANGED <<pluginVars, request, reply>>
      BY <2>3 DEF OtherStep, GuestAlloc, GuestStore, GuestFree, Log, ConfigGet
    <3> QED
      BY <3>1, VisibleUnchanged DEF VS!storeVars
  <2>4. CASE UNCHANGED requestVars
    BY <2>4, VisibleUnchanged DEF VS!storeVars, requestVars
  <2> QED
    BY <2>1, <2>2, <2>3, <2>4 DEF RequestNext
<1> QED
  BY <1>1, <1>2, RequestInvariant, PTL DEF RequestSpec, ImplementsVarStore, VS!Spec

(* The invariant of the host functions holds for the requests as well: the *)
(* answers are a history, and leave every block of the guest alone.        *)
THEOREM RequestsKeepGuestBlocks == RequestSpec => []GuestBlocksKept
  BY RequestInvariant, PTL DEF HostInv
=============================================================================
