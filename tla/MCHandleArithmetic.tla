------------------------- MODULE MCHandleArithmetic -------------------------
(* Words of three bits and a memory of up to four bytes: four blocks fit,  *)
(* and offsets, lengths and sums are small, negative or overflow.          *)
EXTENDS HandleArithmetic
=============================================================================
