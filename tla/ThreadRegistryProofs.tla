------------------------ MODULE ThreadRegistryProofs ------------------------
(***************************************************************************)
(* Proofs about ThreadRegistry, for any number of threads, plugins and     *)
(* contexts and any depth of nested calls.  The invariant ties the phase   *)
(* of a plugin to the maps: what is alive is where it was made, what runs  *)
(* is alive, and the owners of a kernel are known.                         *)
(***************************************************************************)
EXTENDS ThreadRegistry, SequenceTheorems, TLAPS

(* What is in a map was made on the map's thread, what runs is alive.      *)
Placed ==
  \A t \in Threads, p \in Plugins :
    /\ p \in kernelMap[t] => home[p] = t /\ phase[p] # "none"
    /\ p \in pluginMap[t] => home[p] = t /\ phase[p] \in {"ready", "dropped"}
    /\ p \in Running(t) => phase[p] = "ready" /\ p \in kernelMap[t] \cap pluginMap[t]

(* What is alive is in the maps of its thread.                             *)
Alive ==
  \A p \in Plugins :
    /\ phase[p] \in Making \cup {"ready"} => home[p] \in Threads /\ p \in kernelMap[home[p]]
    /\ phase[p] = "ready" => p \in pluginMap[home[p]]

(* The store owns kernels only while its context lives.                    *)
Owners ==
  \A p \in Plugins :
    /\ p \in shared => context[p] \notin closed
    /\ phase[p] \in Making => context[p] \notin closed
    /\ phase[p] = "linking" => p \in shared

RegistryInv == TypeOK /\ Placed /\ Alive /\ Owners /\ StraysExplained

-----------------------------------------------------------------------------
(* The calls of a thread after one started and after one ended.            *)
LEMMA CallsAppend ==
  ASSUME NEW s \in Seq(Plugins), NEW p \in Plugins
  PROVE  /\ Append(s, p) \in Seq(Plugins)
         /\ \A j \in 1..Len(Append(s, p)) :
              Append(s, p)[j] = p \/ (j \in 1..Len(s) /\ Append(s, p)[j] = s[j])
<1>1. /\ Append(s, p) \in Seq(Plugins) /\ Len(s) \in Nat
      /\ Len(Append(s, p)) = Len(s) + 1 /\ Append(s, p)[Len(s) + 1] = p
      /\ \A j \in 1..Len(s) : Append(s, p)[j] = s[j]
  BY AppendProperties, LenProperties
<1>2. \A j \in 1..(Len(s) + 1) : j \in 1..Len(s) \/ j = Len(s) + 1
  BY <1>1
<1> QED
  BY <1>1, <1>2

LEMMA CallsPop ==
  ASSUME NEW s \in Seq(Plugins), s # <<>>
  PROVE  /\ SubSeq(s, 1, Len(s) - 1) \in Seq(Plugins)
         /\ \A j \in 1..Len(SubSeq(s, 1, Len(s) - 1)) :
              j \in 1..Len(s) /\ SubSeq(s, 1, Len(s) - 1)[j] = s[j]
<1> DEFINE n == Len(s) - 1
           q == SubSeq(s, 1, n)
<1>1. n \in Nat /\ \A i \in 1..n : i \in 1..Len(s) /\ s[i] \in Plugins
  BY EmptySeq, ElementOfSeq
<1> HIDE DEF n
<1>2. /\ q \in Seq(Plugins) /\ Len(q) = IF 1 <= n THEN n - 1 + 1 ELSE 0
      /\ \A i \in 1..(n - 1 + 1) : q[i] = s[1 + i - 1]
  BY <1>1, SubSeqProperties
<1> HIDE DEF q
<1>3. Len(q) = n
  BY <1>1, <1>2
<1>4. \A j \in 1..Len(q) : q[j] = s[j]
  <2> TAKE j \in 1..Len(q)
  <2>1. j \in 1..(n - 1 + 1) /\ 1 + j - 1 = j
    BY <1>1, <1>3
  <2> QED
    BY <1>2, <2>1
<1> QED
  BY <1>1, <1>2, <1>3, <1>4 DEF n, q

(* A plugin that starts or goes on being made is not running anywhere.     *)
LEMMA OnlyReadyRuns ==
  ASSUME RegistryInv, NEW p \in Plugins, phase[p] # "ready", NEW t \in Threads
  PROVE  p \notin Running(t)
  BY DEF RegistryInv, Placed

LEMMA RunningType ==
  ASSUME TypeOK, NEW t \in Threads
  PROVE  Running(t) \subseteq Plugins
<1>1. calls[t] \in Seq(Plugins)
  BY DEF TypeOK
<1> QED
  BY <1>1, ElementOfSeq DEF Running

LEMMA SameCalls ==
  ASSUME calls' = calls, NEW t
  PROVE  Running(t)' = Running(t)
  BY DEF Running

-----------------------------------------------------------------------------
(* The invariant, action by action.                                        *)
LEMMA InitInv == Init => RegistryInv
<1> SUFFICES ASSUME Init PROVE RegistryInv
  OBVIOUS
<1>1. TypeOK
  BY EmptySeq DEF Init, TypeOK, Phases
<1>2. ASSUME NEW t \in Threads
      PROVE  Running(t) = {}
  <2>1. calls[t] = <<>> /\ Len(<<>>) = 0
    BY EmptySeq DEF Init
  <2>2. 1..Len(calls[t]) = {}
    BY <2>1
  <2> QED
    BY <2>2 DEF Running
<1> QED
  BY <1>1, <1>2 DEF Init, RegistryInv, Placed, Alive, Owners, StraysExplained,
                    Making, Gone

LEMMA PanicInv ==
  ASSUME RegistryInv, NEW t \in Threads, Panics(t)
  PROVE  RegistryInv'
<1>1. TypeOK'
  BY DEF RegistryInv, TypeOK, Panics
<1> QED
  BY <1>1, SameCalls DEF RegistryInv, Panics, Placed, Alive, Owners, StraysExplained

LEMMA CreateInv ==
  ASSUME RegistryInv, NEW t \in Threads, NEW p \in Plugins, Create(t, p)
  PROVE  RegistryInv'
<1> USE DEF RegistryInv, Create, Goto, Add
<1>1. TypeOK'
  BY DEF TypeOK, Phases
<1>2. Placed'
  BY SameCalls, OnlyReadyRuns DEF TypeOK, Placed
<1>3. Alive'
  BY DEF TypeOK, Alive, Making
<1>4. Owners'
  BY DEF TypeOK, Owners, Making
<1>5. StraysExplained'
  BY DEF TypeOK, StraysExplained, Gone, Placed
<1> QED
  BY <1>1, <1>2, <1>3, <1>4, <1>5

LEMMA LoadFailsInv ==
  ASSUME RegistryInv, NEW t \in Threads, NEW p \in Plugins, LoadFails(t, p)
  PROVE  RegistryInv'
<1> USE DEF RegistryInv, LoadFails, Goto, Free, Del, made
<1>1. TypeOK'
  BY DEF TypeOK, Phases
<1>2. Placed'
  BY SameCalls, OnlyReadyRuns DEF TypeOK, Placed
<1>3. Alive'
  BY DEF TypeOK, Alive, Making
<1>4. Owners'
  BY DEF TypeOK, Owners, Making
<1>5. StraysExplained'
  BY DEF TypeOK, StraysExplained, Gone, Placed
<1> QED
  BY <1>1, <1>2, <1>3, <1>4, <1>5

LEMMA HostEnvInv ==
  ASSUME RegistryInv, NEW t \in Threads, NEW p \in Plugins, HostEnv(t, p)
  PROVE  RegistryInv'
<1> USE DEF RegistryInv, HostEnv, Goto
<1>1. TypeOK'
  BY DEF TypeOK, Phases
<1>2. Placed'
  BY SameCalls, OnlyReadyRuns DEF TypeOK, Placed
<1>3. Alive'
  BY DEF TypeOK, Alive, Making
<1>4. Owners'
  BY DEF TypeOK, Owners, Making
<1>5. StraysExplained'
  BY DEF TypeOK, StraysExplained, Gone, Placed
<1> QED
  BY <1>1, <1>2, <1>3, <1>4, <1>5

LEMMA LinkFailsInv ==
  ASSUME RegistryInv, NEW t \in Threads, NEW p \in Plugins, LinkFails(t, p)
  PROVE  RegistryInv'
<1>1. CASE Borrowed(t)
  BY <1>1, PanicInv DEF LinkFails
<1>2. CASE ~Borrowed(t)
  <2>0. /\ phase[p] = "linking" /\ home[p] = t
        /\ phase' = [phase EXCEPT ![p] = "failed"]
        /\ last' = [last EXCEPT ![p] = t]
        /\ UNCHANGED <<context, home, shared, closed, freed, kernelMap,
                       pluginMap, calls, dead>>
    BY <1>2 DEF LinkFails, Goto, made
  <2> USE <2>0 DEF RegistryInv
  <2>1. TypeOK'
    BY DEF TypeOK, Phases
  <2>2. Placed'
    BY SameCalls, OnlyReadyRuns DEF TypeOK, Placed
  <2>3. Alive'
    BY DEF TypeOK, Alive, Making
  <2>4. Owners'
    BY DEF TypeOK, Owners, Making
  <2>5. StraysExplained'
    BY DEF TypeOK, StraysExplained, Gone, Placed, Owners
  <2> QED
    BY <2>1, <2>2, <2>3, <2>4, <2>5
<1> QED
  BY <1>1, <1>2

LEMMA RegisterInv ==
  ASSUME RegistryInv, NEW t \in Threads, NEW p \in Plugins, Register(t, p)
  PROVE  RegistryInv'
<1>1. CASE Borrowed(t)
  BY <1>1, PanicInv DEF Register
<1>2. CASE ~Borrowed(t)
  <2>0. /\ phase[p] = "linking" /\ home[p] = t
        /\ phase' = [phase EXCEPT ![p] = "ready"]
        /\ pluginMap' = [pluginMap EXCEPT ![t] = @ \cup {p}]
        /\ UNCHANGED <<context, home, last, shared, closed, freed, kernelMap,
                       calls, dead>>
    BY <1>2 DEF Register, Goto, Add, made
  <2> USE <2>0 DEF RegistryInv
  <2>1. TypeOK'
    BY DEF TypeOK, Phases
  <2>2. Placed'
    BY SameCalls, OnlyReadyRuns DEF TypeOK, Placed
  <2>3. Alive'
    BY DEF TypeOK, Alive, Making
  <2>4. Owners'
    BY DEF TypeOK, Owners, Making
  <2>5. StraysExplained'
    BY DEF TypeOK, StraysExplained, Gone, Placed
  <2> QED
    BY <2>1, <2>2, <2>3, <2>4, <2>5
<1> QED
  BY <1>1, <1>2

(* Calls change nothing but the stacks of calls.                           *)
LEMMA CallsInv ==
  ASSUME RegistryInv, TypeOK', Placed', UNCHANGED made,
         UNCHANGED <<phase, last, freed, kernelMap, pluginMap, dead>>
  PROVE  RegistryInv'
  BY DEF RegistryInv, Alive, Owners, StraysExplained, made

LEMMA CallInv ==
  ASSUME RegistryInv, NEW t \in Threads, NEW p \in Plugins, Call(t, p)
  PROVE  RegistryInv'
<1>1. CASE calls' = calls
  <2>1. TypeOK' /\ Placed'
    BY <1>1, SameCalls DEF RegistryInv, Call, made, TypeOK, Placed
  <2> QED
    BY <2>1, CallsInv DEF Call
<1>2. CASE calls' = [calls EXCEPT ![t] = Append(@, p)]
           /\ p \in kernelMap[t] \cap pluginMap[t]
  <2>1. calls[t] \in Seq(Plugins) /\ calls \in [Threads -> Seq(Plugins)]
    BY DEF RegistryInv, TypeOK
  <2>2. TypeOK'
    BY <1>2, <2>1, CallsAppend DEF RegistryInv, Call, made, TypeOK
  <2>3. calls'[t] = Append(calls[t], p) /\ \A u \in Threads \ {t} : calls'[u] = calls[u]
    BY <1>2, <2>1
  <2>4. Running(t)' \subseteq Running(t) \cup {p}
    <3>1. \A j \in 1..Len(calls'[t]) :
            calls'[t][j] = p \/ (j \in 1..Len(calls[t]) /\ calls'[t][j] = calls[t][j])
      BY <2>1, <2>3, CallsAppend
    <3> QED
      BY <3>1 DEF Running
  <2>5. \A u \in Threads \ {t} : Running(u)' = Running(u)
    BY <2>3 DEF Running
  <2>6. Placed'
    BY <1>2, <2>4, <2>5 DEF RegistryInv, Placed, Call, made
  <2> QED
    BY <2>2, <2>6, CallsInv DEF Call
<1> QED
  BY <1>1, <1>2 DEF Call, HasRuntime

LEMMA ReturnInv ==
  ASSUME RegistryInv, NEW t \in Threads, Return(t)
  PROVE  RegistryInv'
<1>1. calls[t] \in Seq(Plugins) /\ calls \in [Threads -> Seq(Plugins)]
      /\ calls[t] # <<>>
  BY DEF RegistryInv, TypeOK, Return, Borrowed
<1>2. /\ calls'[t] = SubSeq(calls[t], 1, Len(calls[t]) - 1)
      /\ \A u \in Threads \ {t} : calls'[u] = calls[u]
      /\ calls' \in [Threads -> Seq(Plugins)]
  BY <1>1, CallsPop DEF Return
<1>3. TypeOK'
  BY <1>2 DEF RegistryInv, Return, made, TypeOK
<1>4. \A u \in Threads : Running(u)' \subseteq Running(u)
  <2>1. \A j \in 1..Len(calls'[t]) :
          j \in 1..Len(calls[t]) /\ calls'[t][j] = calls[t][j]
    BY <1>1, <1>2, CallsPop
  <2>2. Running(t)' \subseteq Running(t)
    BY <2>1 DEF Running
  <2>3. \A u \in Threads \ {t} : Running(u)' = Running(u)
    BY <1>2 DEF Running
  <2> QED
    BY <2>2, <2>3
<1>5. Placed'
  BY <1>4 DEF RegistryInv, Placed, Return, made
<1> QED
  BY <1>3, <1>5, CallsInv DEF Return

LEMMA DropPluginInv ==
  ASSUME RegistryInv, NEW t \in Threads, NEW p \in Plugins, DropPlugin(t, p)
  PROVE  RegistryInv'
<1>1. CASE Borrowed(t)
  BY <1>1, PanicInv DEF DropPlugin
<1>2. CASE ~Borrowed(t)
  <2>0. /\ phase[p] = "ready" /\ \A u \in Threads : p \notin Running(u)
        /\ phase' = [phase EXCEPT ![p] = "dropped"]
        /\ last' = [last EXCEPT ![p] = t]
        /\ pluginMap' = [pluginMap EXCEPT ![t] = @ \ {p}]
        /\ kernelMap' = [kernelMap EXCEPT ![t] = @ \ ({p} \ shared)]
        /\ freed' = [q \in Plugins |-> IF q \in {p} \ shared THEN t ELSE freed[q]]
        /\ UNCHANGED <<context, home, shared, closed, calls, dead>>
    BY <1>2 DEF DropPlugin, Goto, Free, Del, made
  <2> USE <2>0 DEF RegistryInv
  <2>1. TypeOK'
    BY DEF TypeOK, Phases
  <2>2. Placed'
    BY SameCalls DEF TypeOK, Placed
  <2>3. Alive'
    BY DEF TypeOK, Alive, Making
  <2>4. Owners'
    BY DEF TypeOK, Owners, Making
  <2>5. StraysExplained'
    BY DEF TypeOK, StraysExplained, Gone, Placed, Owners
  <2> QED
    BY <2>1, <2>2, <2>3, <2>4, <2>5
<1> QED
  BY <1>1, <1>2

LEMMA DropContextInv ==
  ASSUME RegistryInv, NEW t \in Threads, NEW c \in Contexts, DropContext(t, c)
  PROVE  RegistryInv'
<1> USE DEF RegistryInv, DropContext, Free, Del
<1>1. TypeOK'
  BY DEF TypeOK
<1>2. Placed'
  BY SameCalls DEF TypeOK, Placed, Gone
<1>3. Alive'
  BY DEF TypeOK, Alive, Making, Gone
<1>4. Owners'
  BY DEF TypeOK, Owners, Making
<1>5. StraysExplained'
  BY DEF TypeOK, StraysExplained, Gone, Placed, Owners
<1> QED
  BY <1>1, <1>2, <1>3, <1>4, <1>5

LEMMA RegistryInvariant == Spec => []RegistryInv
<1>1. RegistryInv /\ [Next]_vars => RegistryInv'
  <2> SUFFICES ASSUME RegistryInv, [Next]_vars PROVE RegistryInv'
    OBVIOUS
  <2>1. ASSUME NEW t \in Threads, NEW p \in Plugins,
               \/ Create(t, p) \/ LoadFails(t, p) \/ HostEnv(t, p)
               \/ LinkFails(t, p) \/ Register(t, p)
               \/ Call(t, p) \/ DropPlugin(t, p)
        PROVE  RegistryInv'
    BY <2>1, CreateInv, LoadFailsInv, HostEnvInv, LinkFailsInv, RegisterInv,
       CallInv, DropPluginInv
  <2>2. ASSUME NEW t \in Threads, Return(t)
        PROVE  RegistryInv'
    BY <2>2, ReturnInv
  <2>3. ASSUME NEW t \in Threads, NEW c \in Contexts, DropContext(t, c)
        PROVE  RegistryInv'
    BY <2>3, DropContextInv
  <2>4. CASE UNCHANGED vars
    BY <2>4, SameCalls
       DEF vars, RegistryInv, TypeOK, Placed, Alive, Owners, StraysExplained
  <2> QED
    BY <2>1, <2>2, <2>3, <2>4 DEF Next
<1> QED
  BY <1>1, InitInv, PTL DEF Spec

-----------------------------------------------------------------------------
(* The maps and the plugins keep their types.                              *)
THEOREM RegistryTypeCorrect == Spec => []TypeOK
  BY RegistryInvariant, PTL DEF RegistryInv

(* A guest runs on the thread that made its plugin, and neither its        *)
(* instances nor its kernel are taken from the maps while it runs.         *)
THEOREM GuestsStayAtHome == Spec => []GuestsAtHome
<1>1. RegistryInv => GuestsAtHome
  BY RunningType DEF RegistryInv, Placed, GuestsAtHome
<1> QED
  BY <1>1, RegistryInvariant, PTL

(* A plugin stays callable on its thread for as long as it exists.         *)
THEOREM StaysCallableAtHome == Spec => []CallableAtHome
<1>1. RegistryInv => CallableAtHome
  BY DEF RegistryInv, Alive, CallableAtHome
<1> QED
  BY <1>1, RegistryInvariant, PTL

(* What remains in the maps of plugins that are gone was dropped on        *)
(* another thread, or waits for its context.                               *)
THEOREM StraysAreExplained == Spec => []StraysExplained
  BY RegistryInvariant, PTL DEF RegistryInv

(* No step changes a map of plugins that a running call borrows.           *)
THEOREM BorrowedMapsAreFrozen == Spec => FrozenWhileBorrowed
<1> DEFINE Frozen == \A t \in Threads : Borrowed(t) => pluginMap'[t] = pluginMap[t]
<1>1. RegistryInv /\ [Next]_vars => [Frozen]_vars
  <2> SUFFICES ASSUME RegistryInv, Next PROVE Frozen
    OBVIOUS
  <2>1. pluginMap \in [Threads -> SUBSET Plugins]
    BY DEF RegistryInv, TypeOK
  <2>2. ASSUME NEW t \in Threads, NEW p \in Plugins,
               \/ Create(t, p) \/ LoadFails(t, p) \/ HostEnv(t, p)
               \/ LinkFails(t, p) \/ Call(t, p)
        PROVE  Frozen
    BY <2>2 DEF Create, LoadFails, HostEnv, LinkFails, Panics, Call
  <2>3. ASSUME NEW t \in Threads, NEW p \in Plugins, Register(t, p)
        PROVE  Frozen
    BY <2>1, <2>3 DEF Register, Panics, Add
  <2>4. ASSUME NEW t \in Threads, NEW p \in Plugins, DropPlugin(t, p)
        PROVE  Frozen
    BY <2>1, <2>4 DEF DropPlugin, Panics, Del
  <2>5. ASSUME NEW t \in Threads,
               Return(t) \/ \E c \in Contexts : DropContext(t, c)
        PROVE  Frozen
    BY <2>5 DEF Return, DropContext
  <2> QED
    BY <2>2, <2>3, <2>4, <2>5 DEF Next
<1> QED
  BY <1>1, RegistryInvariant, PTL DEF Spec, FrozenWhileBorrowed
=============================================================================
