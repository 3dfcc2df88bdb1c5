--------------------------- MODULE ThreadRegistry ---------------------------
(***************************************************************************)
(* The instances of plugins on wasm32, where a wasmer Instance cannot      *)
(* leave its thread: Plugin and Kernel are shared between threads but keep *)
(* their instances in a thread-local map, under the plugin's id            *)
(* (THREAD_LOCAL_MAP, with_instances, with_runtime and the two Drop        *)
(* implementations of src/plugin.rs and src/plugin/kernel.rs).             *)
(*                                                                         *)
(* A map of plugins is borrowed for as long as a call runs on its thread;  *)
(* changing it then panics.  A kernel has two owners, its plugin and, once *)
(* host_env was called, the store: it is dropped by whichever goes last.   *)
(***************************************************************************)
EXTENDS Naturals, Sequences

CONSTANTS
  Threads,
  Plugins,    \* ids, each for one attempt to make a plugin
  Contexts,
  NoThread,
  MaxCalls    \* bound on the nested calls of a thread

ASSUME RegistryAssumption == NoThread \notin Threads /\ MaxCalls \in Nat

VARIABLES
  context,    \* rigid: the context each plugin is made in
  phase,      \* how far each plugin is
  home,       \* the thread that makes or made it
  last,       \* the thread it was dropped on
  shared,     \* the plugins whose kernel the store owns too
  closed,     \* the contexts that were dropped
  freed,      \* the thread that dropped the kernel of each plugin
  kernelMap,  \* kernel.rs: THREAD_LOCAL_MAP of each thread
  pluginMap,  \* plugin.rs: THREAD_LOCAL_MAP of each thread
  calls,      \* the calls running on each thread, the innermost last
  dead        \* the threads that panicked, which aborts on wasm32

made == <<context, home, shared, closed>>
vars == <<context, phase, home, last, shared, closed, freed, kernelMap,
          pluginMap, calls, dead>>

Phases == {"none", "loading", "linking", "ready", "failed", "dropped"}
Making == {"loading", "linking"}
Gone   == {"failed", "dropped"}

TypeOK ==
  /\ context \in [Plugins -> Contexts] /\ phase \in [Plugins -> Phases]
  /\ home \in [Plugins -> Threads \cup {NoThread}]
  /\ last \in [Plugins -> Threads \cup {NoThread}]
  /\ freed \in [Plugins -> Threads \cup {NoThread}]
  /\ shared \subseteq Plugins /\ closed \subseteq Contexts
  /\ kernelMap \in [Threads -> SUBSET Plugins]
  /\ pluginMap \in [Threads -> SUBSET Plugins]
  /\ calls \in [Threads -> Seq(Plugins)]
  /\ dead \subseteq Threads

Init ==
  /\ context \in [Plugins -> Contexts]
  /\ phase = [p \in Plugins |-> "none"]
  /\ home = [p \in Plugins |-> NoThread] /\ last = home /\ freed = home
  /\ shared = {} /\ closed = {} /\ dead = {}
  /\ kernelMap = [t \in Threads |-> {}] /\ pluginMap = kernelMap
  /\ calls = [t \in Threads |-> <<>>]

-----------------------------------------------------------------------------
Running(t) == {calls[t][j] : j \in 1..Len(calls[t])}
Borrowed(t) == calls[t] # <<>>

(* A running call keeps the store of its context locked.                   *)
Unlocked(c) == \A t \in Threads : \A p \in Running(t) : context[p] # c

Goto(p, x)     == phase' = [phase EXCEPT ![p] = x]
Add(map, t, p) == [map EXCEPT ![t] = @ \cup {p}]
Del(map, t, S) == [map EXCEPT ![t] = @ \ S]

(* Kernel::drop of the plugins S, on thread t                              *)
Free(t, S) ==
  /\ kernelMap' = Del(kernelMap, t, S)
  /\ freed' = [p \in Plugins |-> IF p \in S THEN t ELSE freed[p]]

(* borrow_mut of a map that is borrowed                                    *)
Panics(t) ==
  /\ dead' = dead \cup {t}
  /\ UNCHANGED <<context, phase, home, last, shared, closed, freed, kernelMap,
                 pluginMap, calls>>

-----------------------------------------------------------------------------
(* Plugin::new on thread t, perhaps called from a host function.           *)

(* Kernel::new                                                             *)
Create(t, p) ==
  /\ t \notin dead /\ phase[p] = "none"
  /\ context[p] \notin closed /\ Unlocked(context[p])
  /\ Goto(p, "loading") /\ home' = [home EXCEPT ![p] = t]
  /\ kernelMap' = Add(kernelMap, t, p)
  /\ UNCHANGED <<context, last, shared, closed, freed, pluginMap, calls, dead>>

(* Faulty Kernel: has no Drop.                                             *)
LoadFailsKept(t, p) ==
  /\ t \notin dead /\ phase[p] = "loading" /\ home[p] = t
  /\ Goto(p, "failed") /\ last' = [last EXCEPT ![p] = t]
  /\ freed' = [freed EXCEPT ![p] = t]
  /\ UNCHANGED made /\ UNCHANGED <<kernelMap, pluginMap, calls, dead>>

(* Loading fails or is cancelled: only the kernel is dropped.              *)
LoadFails(t, p) ==
  /\ t \notin dead /\ phase[p] = "loading" /\ home[p] = t
  /\ Goto(p, "failed") /\ last' = [last EXCEPT ![p] = t]
  /\ Free(t, {p})
  /\ UNCHANGED made /\ UNCHANGED <<pluginMap, calls, dead>>

(* host_env gives the kernel to the functions it puts into the store.      *)
HostEnv(t, p) ==
  /\ t \notin dead /\ phase[p] = "loading" /\ home[p] = t
  /\ Unlocked(context[p])
  /\ Goto(p, "linking") /\ shared' = shared \cup {p}
  /\ UNCHANGED <<context, home, last, closed, freed, kernelMap, pluginMap, calls, dead>>

(* Linking fails: the plugin, which is in no map yet, is dropped.          *)
LinkFails(t, p) ==
  /\ t \notin dead /\ phase[p] = "linking" /\ home[p] = t
  /\ IF Borrowed(t) THEN Panics(t)
     ELSE /\ Goto(p, "failed") /\ last' = [last EXCEPT ![p] = t]
          /\ UNCHANGED made /\ UNCHANGED <<freed, kernelMap, pluginMap, calls, dead>>

(* Faulty map: can be changed while it is borrowed.                        *)
RegisterUnchecked(t, p) ==
  /\ t \notin dead /\ phase[p] = "linking" /\ home[p] = t
  /\ Goto(p, "ready") /\ pluginMap' = Add(pluginMap, t, p)
  /\ UNCHANGED made /\ UNCHANGED <<last, freed, kernelMap, calls, dead>>

(* The instances go into the map, and Plugin::new returns.                 *)
Register(t, p) ==
  /\ t \notin dead /\ phase[p] = "linking" /\ home[p] = t
  /\ IF Borrowed(t) THEN Panics(t)
     ELSE /\ Goto(p, "ready") /\ pluginMap' = Add(pluginMap, t, p)
          /\ UNCHANGED made /\ UNCHANGED <<last, freed, kernelMap, calls, dead>>

-----------------------------------------------------------------------------
(* Faulty registry: one map for all threads.                               *)
CallAnywhere(t, p) ==
  /\ t \notin dead /\ phase[p] = "ready" /\ context[p] \notin closed
  /\ Len(calls[t]) < MaxCalls
  /\ \E u \in Threads : p \in pluginMap[u]
  /\ calls' = [calls EXCEPT ![t] = Append(@, p)]
  /\ UNCHANGED made /\ UNCHANGED <<phase, last, freed, kernelMap, pluginMap, dead>>

(* with_runtime finds a kernel on the thread that made it only.            *)
HasRuntime(t, p) == p \in kernelMap[t]

(* The program holds the store of p's context: it takes the lock, or it is *)
(* in a host function of a call in this context.  The guest runs if the    *)
(* plugin's kernel and instances are in the maps of this thread; otherwise *)
(* the call is an error and changes nothing.                               *)
Call(t, p) ==
  /\ t \notin dead /\ phase[p] = "ready" /\ context[p] \notin closed
  /\ Len(calls[t]) < MaxCalls
  /\ \A u \in Threads \ {t} : \A q \in Running(u) : context[q] # context[p]
  /\ calls' = IF HasRuntime(t, p) /\ p \in pluginMap[t]
              THEN [calls EXCEPT ![t] = Append(@, p)] ELSE calls
  /\ UNCHANGED made /\ UNCHANGED <<phase, last, freed, kernelMap, pluginMap, dead>>

Return(t) ==
  /\ t \notin dead /\ Borrowed(t)
  /\ calls' = [calls EXCEPT ![t] = SubSeq(@, 1, Len(@) - 1)]
  /\ UNCHANGED made /\ UNCHANGED <<phase, last, freed, kernelMap, pluginMap, dead>>

(* The last Arc of a plugin is dropped on thread t, which no call borrows: *)
(* the entry of this thread is removed, if there is one.                   *)
DropPlugin(t, p) ==
  /\ t \notin dead /\ phase[p] = "ready"
  /\ \A u \in Threads : p \notin Running(u)
  /\ IF Borrowed(t) THEN Panics(t)
     ELSE /\ Goto(p, "dropped") /\ last' = [last EXCEPT ![p] = t]
          /\ pluginMap' = Del(pluginMap, t, {p})
          /\ Free(t, {p} \ shared)
          /\ UNCHANGED made /\ UNCHANGED <<calls, dead>>

(* Faulty drop of a store: takes the kernels of live plugins with it.      *)
DropContextAll(t, c) ==
  /\ t \notin dead /\ c \notin closed /\ Unlocked(c)
  /\ \A p \in Plugins : context[p] = c => phase[p] \notin Making
  /\ closed' = closed \cup {c}
  /\ shared' = {p \in shared : context[p] # c}
  /\ Free(t, {p \in shared : context[p] = c})
  /\ UNCHANGED <<context, phase, home, last, pluginMap, calls, dead>>

(* The last Arc of a context is dropped, and with its store the functions  *)
(* of host_env: the kernels of plugins that are gone have no owner left.   *)
DropContext(t, c) ==
  /\ t \notin dead /\ c \notin closed /\ Unlocked(c)
  /\ \A p \in Plugins : context[p] = c => phase[p] \notin Making
  /\ closed' = closed \cup {c}
  /\ shared' = {p \in shared : context[p] # c}
  /\ Free(t, {p \in shared : context[p] = c /\ phase[p] \in Gone})
  /\ UNCHANGED <<context, phase, home, last, pluginMap, calls, dead>>

Next == \E t \in Threads :
          \/ \E p \in Plugins : \/ Create(t, p) \/ LoadFails(t, p) \/ HostEnv(t, p)
                                \/ LinkFails(t, p) \/ Register(t, p)
                                \/ Call(t, p) \/ DropPlugin(t, p)
          \/ Return(t)
          \/ \E c \in Contexts : DropContext(t, c)

Spec == Init /\ [][Next]_vars
-----------------------------------------------------------------------------
(* README: "calls on the wrong thread simply fail with an error".  A guest *)
(* runs on the thread that made its plugin only, and its instances stay    *)
(* where the call found them until it ends, whatever host functions do.    *)
GuestsAtHome ==
  \A t \in Threads : \A p \in Running(t) :
    home[p] = t /\ p \in kernelMap[t] \cap pluginMap[t]

(* A plugin can be called on its thread for as long as it exists, whatever *)
(* other threads drop.                                                     *)
CallableAtHome ==
  \A p \in Plugins :
    phase[p] = "ready" => p \in kernelMap[home[p]] \cap pluginMap[home[p]]

(* The map a running call borrows is not changed under it.                 *)
FrozenWhileBorrowed ==
  [][\A t \in Threads : Borrowed(t) => pluginMap'[t] = pluginMap[t]]_vars

(* What a plugin that is gone leaves in the maps, and why: its instances   *)
(* only if it was dropped on another thread, its kernel only while its     *)
(* context lives or if the last owner was dropped on another thread.       *)
StraysExplained ==
  \A t \in Threads, p \in Plugins : phase[p] \in Gone =>
    /\ p \in pluginMap[t] => t = home[p] /\ last[p] # t
    /\ p \in kernelMap[t] => \/ p \in shared /\ context[p] \notin closed
                             \/ freed[p] \in Threads \ {t}
=============================================================================
