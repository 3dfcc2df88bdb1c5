------------------------------- MODULE Kernel -------------------------------
(***************************************************************************)
(* The memory operations of src/plugin/kernel.rs, as operators over a set  *)
(* L of live blocks and a memory m.                                        *)
(*                                                                         *)
(* Each plugin owns one instance of the extism runtime module, a block     *)
(* allocator inside a WebAssembly memory.  The runtime is an external      *)
(* module: the operators say what kernel.rs relies on.  A handle is the    *)
(* offset of a block, Null is offset 0.  Lengths are abstracted to "empty  *)
(* or not": the null handle is the only one of length 0, and what a block  *)
(* holds is one member of Payload.  The bytes of a freed block stay in     *)
(* memory until the runtime hands the block out again.                     *)
(***************************************************************************)

CONSTANTS
  Offsets,   \* the blocks the runtime's memory has room for
  Null,      \* offset 0, the handle of the empty byte string
  Bytes,     \* byte strings
  Empty,     \* the empty byte string
  Text,      \* the byte strings that are valid UTF-8
  Zero,      \* what memory holds before anything is written to it
  Trapping   \* runtime exports whose call may trap, such as under metering

(* memory_alloc treats a trap of "alloc" and a refusal alike, such as one  *)
(* because no free block is large enough.                                  *)
Exports == {"length", "alloc", "free", "input_set", "output_offset"}

ASSUME KernelAssumption ==
  /\ Null \notin Offsets
  /\ Text \subseteq Bytes
  /\ Empty \in Text
  /\ Zero \in Text \ {Empty}
  /\ Trapping \subseteq Exports

Ptr     == Offsets \cup {Null}
Payload == Bytes \ {Empty}

(* memory_handle(o) may be Some(handle): offset 0 is always a handle, any  *)
(* other offset only if the runtime reports a length for it.               *)
CanFind(L, o) == o = Null \/ o \in L

(* memory_handle(o) may be None.  A trap in "length" is swallowed by       *)
(* unwrap_or_default and reads as length 0.                                *)
CanMiss(L, o) == o # Null /\ (o \notin L \/ "length" \in Trapping)

(* memory_bytes: reads the range of a handle, whether or not it is live.   *)
MemoryBytes(m, o) == IF o = Null THEN Empty ELSE m[o]

(* memory_free: the live blocks it may leave.  Freeing offset 0 or a block *)
(* that is not live does nothing.  When the call traps the block stays.    *)
MemoryFree(L, o) == {L \ {o}} \cup (IF "free" \in Trapping THEN {L} ELSE {})

(* Faulty memory_new: without the early return for empty data.             *)
MemoryNewAnyLength(L, d) == Offsets \ L

(* memory_new: the handles it may return for d.                            *)
MemoryNew(L, d) == IF d = Empty THEN {Null} ELSE Offsets \ L

(* memory_new may fail with OutOfMemory, unless nothing is to be stored.   *)
AllocFails(L, d) == d # Empty /\ ("alloc" \in Trapping \/ L = Offsets)

(* Faulty memory_new: allocates, but does not copy the data in.            *)
WriteSkipped(m, o, d) == m

(* The effect of memory_new returning o for d.                             *)
Grant(L, o)    == L \cup ({o} \ {Null})
Write(m, o, d) == IF o = Null THEN m ELSE [m EXCEPT ![o] = d]
=============================================================================
