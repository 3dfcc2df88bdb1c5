---------------------------- MODULE VarRequests ----------------------------
(***************************************************************************)
(* The host functions seen through what the guest asks and the answers it  *)
(* gets, and the refinement of VarStore.                                   *)
(***************************************************************************)
EXTENDS HostFunctions

VARIABLES
  request,   \* history: the last var_get or var_set, as the guest means it
  reply      \* history: the value var_get answered with, as the guest reads it

requestVars == <<live, mem, pluginVars, owned, request, reply>>

(* An empty value is answered with offset 0, just like a key that is not   *)
(* there, so the guest cannot tell them apart.                             *)
Seen(d) == IF d = Empty THEN Absent ELSE d

VisibleVars == [k \in Text |-> Seen(pluginVars[k])]

VS == INSTANCE VarStore WITH
        Keys <- Text, Values <- Payload, Missing <- Absent, store <- VisibleVars

RequestInit == HostInit /\ request = VS!Unusable /\ reply = Absent

(* What the guest asks for is what its handles name before the handler     *)
(* runs.  A var_get has to succeed if the runtime does not trap and the    *)
(* block of the key, which is freed first, or another leaves room; a       *)
(* var_set if the runtime finds the value, which it does not when key and  *)
(* value are one block.                                                    *)
AskedGet(h) ==
  IF Readable(h)
  THEN [op |-> "get", key |-> MemoryBytes(mem, h), value |-> Absent,
        sure |-> /\ Trapping \cap {"length", "alloc"} = {}
                 /\ \A L \in MemoryFree(live, h) : L # Offsets]
  ELSE VS!Unusable

AskedSet(h, v) ==
  IF Readable(h) /\ CanFind(live, v)
  THEN [op |-> "set", key |-> MemoryBytes(mem, h),
        value |-> Seen(MemoryBytes(mem, v)),
        sure |-> "length" \notin Trapping /\ (h = v => h = Null)]
  ELSE VS!Unusable

(* Offset 0 means "not found" to the guest.                                *)
GetRequest(h, ret) ==
  /\ VarGet(h, ret)
  /\ request' = AskedGet(h)
  /\ reply' = IF ret = Null THEN Absent ELSE mem'[ret]

SetRequest(h, v) ==
  /\ VarSet(h, v)
  /\ request' = AskedSet(h, v)
  /\ reply' = Absent

OtherStep ==
  /\ \/ \E o \in Offsets, d \in Payload : GuestAlloc(o, d) \/ GuestStore(o, d)
     \/ \E o \in Offsets : GuestFree(o)
     \/ \E h \in Arg : Log(h)
     \/ \E h \in Arg, ret \in Ptr : ConfigGet(h, ret)
  /\ UNCHANGED <<request, reply>>

RequestNext ==
  \/ \E h \in Arg, ret \in Ptr : GetRequest(h, ret)
  \/ \E h \in Arg, v \in Arg : SetRequest(h, v)
  \/ OtherStep

RequestSpec == RequestInit /\ [][RequestNext]_requestVars

-----------------------------------------------------------------------------
(* For the guest, var_get and var_set behave like the documented table of  *)
(* variables, removal included: each request reads or writes the variable  *)
(* the guest named, with the value it passed, and fails only for a reason, *)
(* however blocks are reused in between.                                   *)
ImplementsVarStore == VS!Spec
=============================================================================
