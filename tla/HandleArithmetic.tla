-------------------------- MODULE HandleArithmetic --------------------------
(***************************************************************************)
(* Offsets and lengths of kernel memory with their width: the handles of   *)
(* src/plugin/kernel.rs are pairs of u64, the runtime's functions take and *)
(* return i64, and memory_bytes adds offset and length without a check.    *)
(* Kernel abstracts from all of this; here a block is the range of bytes   *)
(* it occupies, and what is in it is left out.                             *)
(*                                                                         *)
(* A word has Bits bits.  The memory is far smaller than that (2^32 bytes  *)
(* against 2^64), but a guest sets its output register to any two words.   *)
(***************************************************************************)
EXTENDS Integers

CONSTANTS
  Bits,      \* width of an offset or a length, 64 in fact
  MaxSize    \* bound on the size of the memory, 2^32 in fact

Modulus == 2^Bits
Half    == 2^(Bits - 1)
Word    == 0..(Modulus - 1)

ASSUME HandleAssumption ==
  /\ Bits \in Nat \ {0} /\ MaxSize \in Nat
  /\ Modulus \in Nat /\ Half \in Nat /\ Modulus = 2 * Half
  /\ MaxSize < Modulus

VARIABLES
  checked,  \* rigid: built with overflow checks
  size,     \* bytes of memory
  blocks,   \* the allocated ranges: <<offset, length>>
  output,   \* the output register, two i64
  read      \* what memory_bytes has just returned, a range of bytes

vars == <<checked, size, blocks, output, read>>

Signed == -Half..(Half - 1)
Blocks == (1..MaxSize) \X (1..MaxSize)
Reads  == [status : {"none", "ok", "error", "panic"}, from : Word, to : Word]
Outcome(status, a, b) == [status |-> status, from |-> a, to |-> b]
Nothing == Outcome("none", 0, 0)

TypeOK ==
  /\ checked \in BOOLEAN /\ size \in 0..MaxSize /\ blocks \subseteq Blocks
  /\ output \in Signed \X Signed
  /\ read \in Reads

Init ==
  /\ checked \in BOOLEAN /\ size = 0 /\ blocks = {} /\ output = <<0, 0>>
  /\ read = Nothing

-----------------------------------------------------------------------------
(* Faulty cast: takes what is negative as an i64 for zero.                 *)
ToUClamped(x) == IF x < 0 THEN 0 ELSE x

(* x as i64, x as u64                                                      *)
ToI(x) == IF x < Half THEN x ELSE x - Modulus
ToU(x) == IF x < 0 THEN x + Modulus ELSE x

(* Faulty range: from the offset to the length.                            *)
PlusNothing(o, n) == n

(* offset + length without overflow checks                                 *)
Plus(o, n) == IF o + n < Modulus THEN o + n ELSE o + n - Modulus

Lesser(a, b) == IF a < b THEN a ELSE b

(* copy_range_to_vec reads what of the range is in the memory, or fails if *)
(* some of it is not.                                                      *)
CopyRange(a, b) ==
  (IF a < Lesser(b, size) THEN {Outcome("ok", a, Lesser(b, size))}
                          ELSE {Outcome("ok", a, a)})
    \cup (IF b <= size /\ a <= b THEN {} ELSE {Outcome("error", a, a)})

MemoryBytes(o, n) ==
  IF checked /\ o + n >= Modulus THEN {Outcome("panic", o, o)}
                                 ELSE CopyRange(o, Plus(o, n))

-----------------------------------------------------------------------------
(* The runtime's alloc: a range of no other block, growing the memory if   *)
(* need be.                                                                *)
Apart(o, n) == \A b \in blocks : o + n <= b[1] \/ b[1] + b[2] <= o

(* memory_alloc, or the guest's own                                        *)
Alloc(o, n) ==
  /\ o + n <= MaxSize /\ Apart(o, n)
  /\ blocks' = blocks \cup {<<o, n>>}
  /\ size' = IF size < o + n THEN o + n ELSE size
  /\ read' = Nothing /\ UNCHANGED <<checked, output>>

Without(o) == {b \in blocks : b[1] # o}

(* The guest frees any offset or sets its output to any two words.         *)
Free(o) ==
  /\ blocks' = Without(o) /\ read' = Nothing
  /\ UNCHANGED <<checked, size, output>>

OutputSet(o, n) ==
  /\ output' = <<ToI(o), ToI(n)>> /\ read' = Nothing
  /\ UNCHANGED <<checked, size, blocks>>

(* get_output, memory_get and memory_free at the end of a call.            *)
ReadOutput ==
  /\ read' \in MemoryBytes(ToU(output[1]), ToU(output[2]))
  /\ blocks' = IF read'.status = "ok" THEN Without(ToU(output[1])) ELSE blocks
  /\ UNCHANGED <<checked, size, output>>

(* fetch_in for an argument of a host function, which arrives as i64:      *)
(* memory_handle asks the runtime for the block's length.                  *)
FetchIn(x) ==
  LET o == ToU(x) IN
  /\ \/ /\ o = 0 /\ read' \in MemoryBytes(0, 0)
     \/ /\ o # 0 /\ \A b \in blocks : b[1] # o
        /\ read' = Outcome("error", o, o)
     \/ \E b \in blocks : b[1] = o /\ read' \in MemoryBytes(b[1], b[2])
  /\ blocks' = IF read'.status = "ok" THEN Without(o) ELSE blocks
  /\ UNCHANGED <<checked, size, output>>

Next ==
  \/ \E o, n \in 1..MaxSize : Alloc(o, n)
  \/ \E o \in Word : Free(o)
  \/ \E o, n \in Word : OutputSet(o, n)
  \/ ReadOutput
  \/ \E x \in Signed : FetchIn(x)

Spec == Init /\ [][Next]_vars
-----------------------------------------------------------------------------
(* A handle that names a block is read as that block, no byte more or      *)
(* less, whether it comes from memory_handle or through the register.      *)
BlocksReadExactly ==
  [][\A b \in blocks :
       /\ ReadOutput /\ output = <<ToI(b[1]), ToI(b[2])>>
            => read' = Outcome("ok", b[1], b[1] + b[2])
       /\ FetchIn(ToI(b[1])) => read' = Outcome("ok", b[1], b[1] + b[2])]_vars

(* Whatever two words a guest puts into the register, no byte outside the  *)
(* memory and none outside the range they name is read, with the casts to  *)
(* i64 and back in between; the sum that wraps around yields nothing, and  *)
(* panics only where overflow is checked.                                  *)
NothingElseRead ==
  [][\A o, n \in Word :
       output = <<ToI(o), ToI(n)>> /\ ReadOutput =>
         /\ read'.status = "ok" =>
              /\ read'.to <= size \/ read'.to = read'.from
              /\ read'.from = o /\ read'.to - o <= n
              /\ o + n >= Modulus => read'.to = o
         /\ read'.status = "panic" => checked /\ o + n >= Modulus]_vars
=============================================================================
