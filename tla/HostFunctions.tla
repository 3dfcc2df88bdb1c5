---------------------------- MODULE HostFunctions ----------------------------
(***************************************************************************)
(* The extism host environment of one plugin: the functions of             *)
(* src/plugin/kernel.rs that Plugin::host_env links into the guest under   *)
(* "extism:host/env", over the kernel memory and the plugin's variables.   *)
(*                                                                         *)
(* The store is borrowed exclusively while guest code runs, so a handler   *)
(* is one atomic step.  The other actor is the guest, external code that   *)
(* calls the runtime's exports and these handlers in any order.            *)
(***************************************************************************)
EXTENDS Kernel

CONSTANTS
  Absent,       \* "no such key"
  Config,       \* the manifest's config table
  Imports,      \* the handlers the guest's import section names
  Disciplined   \* TRUE: the guest uses only handles it owns

ASSUME HostAssumption ==
  /\ Absent \notin Bytes
  /\ Config \in [Text -> Text \cup {Absent}]
  /\ Imports \subseteq {"log", "config_get", "var_get", "var_set"}
  /\ Disciplined \in BOOLEAN

VARIABLES
  live,         \* blocks allocated in the kernel memory
  mem,          \* contents of the kernel memory
  pluginVars,   \* the PluginVars of the plugin
  owned         \* history: blocks the guest has to free or to hand over

hostVars == <<live, mem, pluginVars, owned>>

HostTypeOK ==
  /\ live \in SUBSET Offsets
  /\ mem \in [Offsets -> Payload]
  /\ pluginVars \in [Text -> Bytes \cup {Absent}]
  /\ owned \in SUBSET Offsets

HostInit ==
  /\ live = {}
  /\ mem = [o \in Offsets |-> Zero]
  /\ pluginVars = [k \in Text |-> Absent]
  /\ owned = {}

(* The handles the guest may pass to a host function or to the runtime.    *)
Arg == IF Disciplined THEN owned \cup {Null} ELSE Ptr

-----------------------------------------------------------------------------
(* The guest and the runtime's own exports, which host_env hands to it     *)
(* (kernel.exports()).                                                     *)

GuestAlloc(o, d) ==
  /\ o \notin live
  /\ live' = live \cup {o}
  /\ mem' = [mem EXCEPT ![o] = d]
  /\ owned' = owned \cup {o}
  /\ UNCHANGED pluginVars

GuestStore(o, d) ==
  /\ o \in live \cap Arg
  /\ mem' = [mem EXCEPT ![o] = d]
  /\ UNCHANGED <<live, pluginVars, owned>>

GuestFree(o) ==
  /\ o \in live \cap Arg
  /\ live' = live \ {o}
  /\ owned' = owned \ {o}
  /\ UNCHANGED <<mem, pluginVars>>

-----------------------------------------------------------------------------
(* A handler takes the handles args from the guest, leaves the blocks L    *)
(* live, and answers with handle ret for d.                                *)
Answer(args, L, ret, d) ==
  /\ live' = Grant(L, ret)
  /\ mem' = Write(mem, ret, d)
  /\ owned' = Grant(owned \ args, ret)

Readable(o) == CanFind(live, o) /\ MemoryBytes(mem, o) \in Text

(* memory_handle or memory_string fails: the handler gives up at once.     *)
Unusable(o) ==
  CanMiss(live, o) \/ (CanFind(live, o) /\ MemoryBytes(mem, o) \notin Text)

(* log_warn .. log_trace: Kernel::log frees the text once it was emitted.  *)
Log(text) ==
  /\ "log" \in Imports
  /\ \/ Unusable(text) /\ Answer({text}, live, Null, Empty)
     \/ /\ Readable(text)
        /\ \E L \in MemoryFree(live, text) : Answer({text}, L, Null, Empty)
  /\ UNCHANGED pluginVars

(* Faulty config_get and var_get: "handle" is freed at the end, when the   *)
(* name is already bound to the answer instead of the key.                 *)
LookupFreesAnswer(table, key, ret) ==
  /\ Readable(key)
  /\ LET d == table[MemoryBytes(mem, key)]
     IN  /\ d # Absent
         /\ ret \in MemoryNew(live, d)
         /\ live' \in MemoryFree(Grant(live, ret), ret)
         /\ mem' = Write(mem, ret, d)
         /\ owned' = Grant(owned \ {key}, ret)

(* config_get and var_get: read the key, free it, then copy the value into *)
(* a new block.  Every failure answers with offset 0.                      *)
Lookup(table, key, ret) ==
  \/ Unusable(key) /\ ret = Null /\ Answer({key}, live, Null, Empty)
  \/ /\ Readable(key)
     /\ \E L \in MemoryFree(live, key) :
          LET d == table[MemoryBytes(mem, key)]
          IN  \/ /\ d = Absent \/ AllocFails(L, d)
                 /\ ret = Null /\ Answer({key}, L, Null, Empty)
              \/ /\ d # Absent
                 /\ ret \in MemoryNew(L, d)
                 /\ Answer({key}, L, ret, d)

ConfigGet(key, ret) ==
  /\ "config_get" \in Imports
  /\ Lookup(Config, key, ret)
  /\ UNCHANGED pluginVars

VarGet(key, ret) ==
  /\ "var_get" \in Imports
  /\ Lookup(pluginVars, key, ret)
  /\ UNCHANGED pluginVars

(* Faulty var_set: after it freed the key it looks the key up again, not   *)
(* the value.                                                              *)
VarSetFindsKey(key, value) ==
  LET Done(L) == Answer({key, value}, L, Null, Empty) IN
  /\ "var_set" \in Imports
  /\ Readable(key) /\ CanFind(live, value)
  /\ \E L \in MemoryFree(live, key) :
       \/ CanMiss(L, key) /\ Done(L) /\ UNCHANGED pluginVars
       \/ /\ CanFind(L, key)
          /\ \E K \in MemoryFree(L, key) : Done(K)
          /\ pluginVars' = [pluginVars EXCEPT ![MemoryBytes(mem, key)] =
                                                 MemoryBytes(mem, key)]

(* var_set looks the value up again after it freed the key.                *)
VarSet(key, value) ==
  LET k == MemoryBytes(mem, key)
      Done(L) == Answer({key, value}, L, Null, Empty)
  IN
  /\ "var_set" \in Imports
  /\ \/ /\ CanMiss(live, key) /\ CanMiss(live, value)
        /\ Done(live) /\ UNCHANGED pluginVars
     \/ /\ CanMiss(live, key) /\ CanFind(live, value)
        /\ \E L \in MemoryFree(live, value) : Done(L)
        /\ UNCHANGED pluginVars
     \/ /\ CanFind(live, key) /\ CanMiss(live, value)
        /\ Done(live) /\ UNCHANGED pluginVars
     \/ /\ CanFind(live, key) /\ CanFind(live, value) /\ k \notin Text
        /\ \E L \in MemoryFree(live, value) : Done(L)
        /\ UNCHANGED pluginVars
     \/ /\ Readable(key) /\ CanFind(live, value)
        /\ \E L \in MemoryFree(live, key) :
             \/ CanMiss(L, value) /\ Done(L) /\ UNCHANGED pluginVars
             \/ /\ CanFind(L, value)
                /\ \E K \in MemoryFree(L, value) : Done(K)
                /\ pluginVars' = [pluginVars EXCEPT ![k] = MemoryBytes(mem, value)]

GuestStep ==
  \/ \E o \in Offsets, d \in Payload : GuestAlloc(o, d) \/ GuestStore(o, d)
  \/ \E o \in Offsets : GuestFree(o)
  \/ \E h \in Arg : Log(h)
  \/ \E h \in Arg, ret \in Ptr : ConfigGet(h, ret) \/ VarGet(h, ret)
  \/ \E h \in Arg, v \in Arg : VarSet(h, v)

HostSpec == HostInit /\ [][GuestStep]_hostVars

-----------------------------------------------------------------------------
(* The host frees a block only if the guest passed it in: what the guest   *)
(* still owns stays allocated, whatever order requests come in.            *)
GuestBlocksKept == owned \subseteq live

(* With well-behaved guests a block is lost, live without an owner, only   *)
(* when it was passed as text and is not UTF-8: the handlers free every    *)
(* other handle they take.                                                 *)
LostBlocksAreUnreadable ==
  Disciplined /\ Trapping = {} => \A o \in live \ owned : mem[o] \notin Text

(* kernel.rs, config_get: "this function takes ownership of the handle     *)
(* passed in, the caller should not free this value".  Whatever is live    *)
(* and not the guest's was taken and leaked.                               *)
NothingLeaks == live \subseteq owned

(* kernel.rs, var_set: "if the value offset is 0 then the provided key     *)
(* will be removed".  A removed key is one get_var answers None for; no    *)
(* other block holds an empty value.                                       *)
RemovedNotEmptied == \A k \in Text : pluginVars[k] # Empty
=============================================================================
