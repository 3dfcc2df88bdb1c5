----------------------- MODULE HandleArithmeticProofs -----------------------
(***************************************************************************)
(* Proofs about HandleArithmetic for words of any width and a memory of    *)
(* any size that fits a word: the 64 bits and 2^32 bytes of the program    *)
(* are out of a model checker's reach.  Nothing but Modulus = 2 * Half is  *)
(* used of the width.                                                      *)
(***************************************************************************)
EXTENDS HandleArithmetic, TLAPS

LEMMA WordSize == Half \in Nat /\ Modulus \in Nat /\ Modulus = 2 * Half /\ Half >= 1
  BY HandleAssumption

(* The casts are inverses of each other.                                   *)
LEMMA Casts ==
  /\ \A x \in Word : ToI(x) \in Signed /\ ToU(ToI(x)) = x
  /\ \A x \in Signed : ToU(x) \in Word
<1>1. ASSUME NEW x \in Word
      PROVE  ToI(x) \in Signed /\ ToU(ToI(x)) = x
  <2>1. x \in Int /\ 0 <= x /\ x < Modulus
    BY WordSize DEF Word
  <2>2. CASE x < Half
    BY <2>1, <2>2, WordSize DEF ToI, ToU, Signed
  <2>3. CASE x >= Half
    BY <2>1, <2>3, WordSize DEF ToI, ToU, Signed
  <2> QED
    BY <2>1, <2>2, <2>3, WordSize
<1>2. ASSUME NEW x \in Signed
      PROVE  ToU(x) \in Word
  <2>1. x \in Int /\ -Half <= x /\ x < Half
    BY WordSize DEF Signed
  <2> QED
    BY <2>1, WordSize DEF ToU, Word
<1> QED
  BY <1>1, <1>2

(* The unchecked sum of two words: it wraps around to less than either.    *)
LEMMA Sums ==
  ASSUME NEW o \in Word, NEW n \in Word
  PROVE  /\ o \in Int /\ n \in Int /\ 0 <= o /\ 0 <= n
         /\ Plus(o, n) \in Word /\ Plus(o, n) \in Int
         /\ o + n < Modulus => Plus(o, n) = o + n
         /\ o + n >= Modulus => Plus(o, n) < o
<1>1. /\ o \in Int /\ 0 <= o /\ o < Modulus
      /\ n \in Int /\ 0 <= n /\ n < Modulus
  BY WordSize DEF Word
<1>2. CASE o + n < Modulus
  BY <1>1, <1>2, WordSize DEF Plus, Word
<1>3. CASE o + n >= Modulus
  BY <1>1, <1>3, WordSize DEF Plus, Word
<1> QED
  BY <1>1, <1>2, <1>3, WordSize

LEMMA Fields ==
  ASSUME NEW st \in {"ok", "error", "panic"}, NEW a \in Word, NEW b \in Word
  PROVE  /\ Outcome(st, a, b) \in Reads /\ Outcome(st, a, b).status = st
         /\ Outcome(st, a, b).from = a /\ Outcome(st, a, b).to = b
  BY DEF Outcome, Reads

(* What copy_range_to_vec returns for a range of words.                    *)
LEMMA Copied ==
  ASSUME TypeOK, NEW a \in Word, NEW b \in Word, NEW r \in CopyRange(a, b)
  PROVE  /\ r \in Reads /\ r.from = a /\ r.status \in {"ok", "error"}
         /\ r.to = a \/ (r.status = "ok" /\ a < r.to /\ r.to <= b /\ r.to <= size)
         /\ a < b /\ b <= size => r = Outcome("ok", a, b)
<1>1. /\ a \in Int /\ b \in Int /\ size \in Int /\ 0 <= a /\ 0 <= b /\ 0 <= size
      /\ a < Modulus /\ b < Modulus
  BY WordSize, HandleAssumption DEF Word, TypeOK
<1> DEFINE m == Lesser(b, size)
<1>2. /\ m \in Int /\ 0 <= m /\ m <= b /\ m <= size /\ m < Modulus
      /\ b <= size => m = b
  <2>1. m = IF b < size THEN b ELSE size
    BY DEF Lesser
  <2> HIDE DEF m
  <2> QED
    BY <1>1, <2>1, WordSize
<1>4. \/ r = Outcome("ok", a, m) /\ a < m
      \/ r = Outcome("ok", a, a) /\ ~(a < m)
      \/ r = Outcome("error", a, a) /\ ~(b <= size /\ a <= b)
  BY DEF CopyRange
<1> HIDE DEF m
<1>3. m \in Word
  BY <1>2, WordSize DEF Word
<1>5. CASE r = Outcome("ok", a, m) /\ a < m
  BY <1>1, <1>2, <1>3, <1>5, Fields
<1>6. CASE r = Outcome("ok", a, a) /\ ~(a < m)
  BY <1>1, <1>2, <1>3, <1>6, Fields
<1>7. CASE r = Outcome("error", a, a) /\ ~(b <= size /\ a <= b)
  BY <1>1, <1>2, <1>3, <1>7, Fields
<1> QED
  BY <1>4, <1>5, <1>6, <1>7

(* What memory_bytes returns for a handle of two words.                    *)
LEMMA BytesRead ==
  ASSUME TypeOK, NEW o \in Word, NEW n \in Word, NEW r \in MemoryBytes(o, n)
  PROVE  /\ r \in Reads /\ r.from = o /\ r.to \in Int
         /\ r.status = "ok" => /\ r.to <= size \/ r.to = o
                               /\ r.to - o <= n
                               /\ o + n >= Modulus => r.to = o
         /\ r.status = "panic" => checked /\ o + n >= Modulus
         /\ n > 0 /\ o + n <= size => r = Outcome("ok", o, o + n)
<1>1. size \in Int /\ size < Modulus /\ o \in Int /\ n \in Int /\ 0 <= n
  BY WordSize, HandleAssumption DEF TypeOK, Word
<1>2. CASE checked /\ o + n >= Modulus
  <2>1. r = Outcome("panic", o, o)
    BY <1>2 DEF MemoryBytes
  <2> QED
    BY <1>1, <1>2, <2>1, WordSize DEF Outcome, Reads
<1>3. CASE ~(checked /\ o + n >= Modulus)
  <2>1. r \in CopyRange(o, Plus(o, n))
    BY <1>3 DEF MemoryBytes
  <2>2. /\ r \in Reads /\ r.from = o /\ r.status \in {"ok", "error"}
        /\ \/ r.to = o
           \/ r.status = "ok" /\ o < r.to /\ r.to <= Plus(o, n) /\ r.to <= size
        /\ o < Plus(o, n) /\ Plus(o, n) <= size => r = Outcome("ok", o, Plus(o, n))
    BY <2>1, Sums, Copied
  <2>3. r.to \in Int
    BY <2>2, WordSize DEF Reads, Word
  <2>4. /\ o + n < Modulus => Plus(o, n) = o + n
        /\ o + n >= Modulus => Plus(o, n) < o
        /\ Plus(o, n) \in Int
    BY Sums
  <2>5. CASE o + n < Modulus
    BY <1>1, <2>2, <2>3, <2>4, <2>5, WordSize
  <2>6. CASE o + n >= Modulus
    BY <1>1, <2>2, <2>3, <2>4, <2>6, WordSize
  <2> QED
    BY <1>1, <2>5, <2>6, WordSize
<1> QED
  BY <1>2, <1>3

-----------------------------------------------------------------------------
(* The runtime allocates within the memory and apart from other blocks.    *)
BlocksApart ==
  /\ \A b \in blocks : b[1] + b[2] <= size
  /\ \A b, c \in blocks : b = c \/ b[1] + b[2] <= c[1] \/ c[1] + c[2] <= b[1]

(* A block of the memory: two words whose sum stays within the memory.     *)
LEMMA BlockFits ==
  ASSUME TypeOK, BlocksApart, NEW b \in blocks
  PROVE  /\ b = <<b[1], b[2]>> /\ b[1] \in Word /\ b[2] \in Word
         /\ b[1] \in Nat \ {0} /\ b[2] \in Nat \ {0}
         /\ b[1] + b[2] <= size
<1>1. b \in (1..MaxSize) \X (1..MaxSize)
  BY DEF TypeOK, Blocks
<1>2. b = <<b[1], b[2]>> /\ b[1] \in 1..MaxSize /\ b[2] \in 1..MaxSize
  BY <1>1
<1>3. b[1] + b[2] <= size
  BY DEF BlocksApart
<1> QED
  BY <1>2, <1>3, WordSize, HandleAssumption DEF Word

LEMMA BlockRead ==
  ASSUME TypeOK, BlocksApart, NEW b \in blocks, NEW r \in MemoryBytes(b[1], b[2])
  PROVE  r = Outcome("ok", b[1], b[1] + b[2])
  BY BlockFits, BytesRead

LEMMA OutputWords ==
  ASSUME TypeOK
  PROVE  ToU(output[1]) \in Word /\ ToU(output[2]) \in Word
  BY Casts DEF TypeOK

LEMMA NothingType == Nothing \in Reads
  BY WordSize DEF Nothing, Outcome, Reads, Word

LEMMA TypeStep ==
  ASSUME TypeOK, BlocksApart, [Next]_vars
  PROVE  TypeOK'
<1>1. ASSUME NEW o \in 1..MaxSize, NEW n \in 1..MaxSize, Alloc(o, n)
      PROVE  TypeOK'
  <2>1. blocks' \subseteq Blocks
    BY <1>1 DEF Alloc, TypeOK, Blocks
  <2>2. size' \in 0..MaxSize
    BY <1>1, HandleAssumption DEF Alloc, TypeOK
  <2> QED
    BY <1>1, <2>1, <2>2, NothingType DEF Alloc, TypeOK
<1>2. ASSUME NEW o \in Word, Free(o)
      PROVE  TypeOK'
  BY <1>2, NothingType DEF Free, Without, TypeOK
<1>3. ASSUME NEW o \in Word, NEW n \in Word, OutputSet(o, n)
      PROVE  TypeOK'
  BY <1>3, Casts, NothingType DEF OutputSet, TypeOK
<1>4. CASE ReadOutput
  <2>1. read' \in Reads
    BY <1>4, OutputWords, BytesRead DEF ReadOutput
  <2> QED
    BY <1>4, <2>1 DEF ReadOutput, Without, TypeOK
<1>5. ASSUME NEW x \in Signed, FetchIn(x)
      PROVE  TypeOK'
  <2>1. ToU(x) \in Word /\ 0 \in Word
    BY Casts, WordSize DEF Word
  <2>2. read' \in MemoryBytes(0, 0) => read' \in Reads
    BY <2>1, BytesRead
  <2>3. read' = Outcome("error", ToU(x), ToU(x)) => read' \in Reads
    BY <2>1, Fields
  <2>4. ASSUME NEW b \in blocks, read' \in MemoryBytes(b[1], b[2])
        PROVE  read' \in Reads
    BY <2>4, BlockFits, BytesRead
  <2>5. read' \in Reads
    BY <1>5, <2>2, <2>3, <2>4 DEF FetchIn
  <2> QED
    BY <1>5, <2>5 DEF FetchIn, Without, TypeOK
<1>6. CASE UNCHANGED vars
  BY <1>6 DEF vars, TypeOK
<1> QED
  BY <1>1, <1>2, <1>3, <1>4, <1>5, <1>6 DEF Next

LEMMA ApartStep ==
  ASSUME TypeOK, BlocksApart, [Next]_vars
  PROVE  BlocksApart'
<1>1. ASSUME NEW o \in 1..MaxSize, NEW n \in 1..MaxSize, Alloc(o, n)
      PROVE  BlocksApart'
  <2> DEFINE c == <<o, n>>
  <2>1. /\ blocks' = blocks \cup {c} /\ c[1] = o /\ c[2] = n
        /\ size' = IF size < o + n THEN o + n ELSE size
        /\ \A b \in blocks : o + n <= b[1] \/ b[1] + b[2] <= o
    BY <1>1 DEF Alloc, Apart
  <2>2. o + n \in Int /\ size \in Int /\ size <= size' /\ o + n <= size' /\ size' \in Int
    BY <2>1, HandleAssumption DEF TypeOK
  <2>3. \A b \in blocks : b[1] + b[2] \in Int /\ b[1] + b[2] <= size
    BY BlockFits
  <2> HIDE DEF c
  <2>4. \A b \in blocks' : b[1] + b[2] <= size'
    BY <2>1, <2>2, <2>3
  <2>5. \A b, d \in blocks' : b = d \/ b[1] + b[2] <= d[1] \/ d[1] + d[2] <= b[1]
    BY <2>1 DEF BlocksApart
  <2> QED
    BY <2>4, <2>5 DEF BlocksApart
<1>2. ASSUME blocks' \subseteq blocks, size' = size
      PROVE  BlocksApart'
  BY <1>2 DEF BlocksApart
<1>3. ASSUME NEW o \in Word, Free(o)
      PROVE  BlocksApart'
  BY <1>2, <1>3 DEF Free, Without
<1>4. ASSUME NEW o \in Word, NEW n \in Word, OutputSet(o, n)
      PROVE  BlocksApart'
  BY <1>2, <1>4 DEF OutputSet
<1>5. CASE ReadOutput
  BY <1>2, <1>5 DEF ReadOutput, Without
<1>6. ASSUME NEW x \in Signed, FetchIn(x)
      PROVE  BlocksApart'
  BY <1>2, <1>6 DEF FetchIn, Without
<1>7. CASE UNCHANGED vars
  BY <1>2, <1>7 DEF vars
<1> QED
  BY <1>1, <1>3, <1>4, <1>5, <1>6, <1>7 DEF Next

LEMMA HandleInit == Init => TypeOK /\ BlocksApart
  BY WordSize, HandleAssumption, NothingType
     DEF Init, TypeOK, BlocksApart, Signed

LEMMA HandleInvariant == Spec => [](TypeOK /\ BlocksApart)
  BY HandleInit, TypeStep, ApartStep, PTL DEF Spec

-----------------------------------------------------------------------------
(* Handles and results are words of their width.                           *)
THEOREM HandleTypeCorrect == Spec => []TypeOK
  BY HandleInvariant, PTL

(* A handle that names a block is read as that block, although it passes   *)
(* through two i64 and an unchecked sum.                                   *)
THEOREM BlocksAreReadExactly == Spec => BlocksReadExactly
<1> DEFINE Exact == \A b \in blocks :
             /\ ReadOutput /\ output = <<ToI(b[1]), ToI(b[2])>>
                  => read' = Outcome("ok", b[1], b[1] + b[2])
             /\ FetchIn(ToI(b[1])) => read' = Outcome("ok", b[1], b[1] + b[2])
<1>1. TypeOK /\ BlocksApart => Exact
  <2> SUFFICES ASSUME TypeOK, BlocksApart, NEW b \in blocks
               PROVE  /\ ReadOutput /\ output = <<ToI(b[1]), ToI(b[2])>>
                           => read' = Outcome("ok", b[1], b[1] + b[2])
                      /\ FetchIn(ToI(b[1]))
                           => read' = Outcome("ok", b[1], b[1] + b[2])
    OBVIOUS
  <2>1. /\ ToU(ToI(b[1])) = b[1] /\ ToU(ToI(b[2])) = b[2]
        /\ b[1] \in Nat \ {0} /\ b[2] \in Nat \ {0}
    BY BlockFits, Casts
  <2>2. ASSUME ReadOutput, output = <<ToI(b[1]), ToI(b[2])>>
        PROVE  read' = Outcome("ok", b[1], b[1] + b[2])
    <3>1. output[1] = ToI(b[1]) /\ output[2] = ToI(b[2])
      BY <2>2
    <3>2. read' \in MemoryBytes(b[1], b[2])
      BY <2>1, <2>2, <3>1 DEF ReadOutput
    <3> QED
      BY <3>2, BlockRead
  <2>3. ASSUME FetchIn(ToI(b[1]))
        PROVE  read' = Outcome("ok", b[1], b[1] + b[2])
    <3>1. PICK c \in blocks : c[1] = b[1] /\ read' \in MemoryBytes(c[1], c[2])
      BY <2>1, <2>3 DEF FetchIn
    <3>2. c[1] + c[2] > b[1] /\ b[1] + b[2] > c[1]
      BY <3>1, BlockFits
    <3>3. c[1] + c[2] \in Int /\ b[1] + b[2] \in Int /\ b[1] \in Int /\ c[1] \in Int
      BY BlockFits
    <3>4. c = b
      BY <3>2, <3>3 DEF BlocksApart
    <3> QED
      BY <3>1, <3>4, BlockRead
  <2> QED
    BY <2>2, <2>3
<1> QED
  BY <1>1, HandleInvariant, PTL DEF BlocksReadExactly

(* Whatever two words a guest puts into the register, nothing outside the  *)
(* memory or outside the range they name is read.                          *)
THEOREM NothingElseIsRead == Spec => NothingElseRead
<1> DEFINE Within(o, n) ==
             /\ read'.status = "ok" =>
                  /\ read'.to <= size \/ read'.to = read'.from
                  /\ read'.from = o /\ read'.to - o <= n
                  /\ o + n >= Modulus => read'.to = o
             /\ read'.status = "panic" => checked /\ o + n >= Modulus
           Named == \A o, n \in Word :
             output = <<ToI(o), ToI(n)>> /\ ReadOutput => Within(o, n)
<1>1. TypeOK => Named
  <2> SUFFICES ASSUME TypeOK, NEW o \in Word, NEW n \in Word,
                      output = <<ToI(o), ToI(n)>>, ReadOutput
               PROVE  Within(o, n)
    OBVIOUS
  <2>1. ToU(output[1]) = o /\ ToU(output[2]) = n
    BY Casts
  <2>2. read' \in MemoryBytes(o, n)
    BY <2>1 DEF ReadOutput
  <2> QED
    BY <2>2, BytesRead
<1> QED
  BY <1>1, HandleInvariant, PTL DEF NothingElseRead
=============================================================================
