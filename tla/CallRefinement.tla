--------------------------- MODULE CallRefinement ---------------------------
(***************************************************************************)
(* PluginCall implements CallResults: the kernel's memory and its two      *)
(* registers, which all calls of a plugin share, do not show.              *)
(***************************************************************************)
EXTENDS PluginCall

(* Of an activation, the program sees its kind and what its guest has set  *)
(* as output so far; where in memory that is, it does not.                 *)
Visible(f) == [kind |-> f.kind, said |-> IF f.wrote THEN {f.said} ELSE {}]

VisibleCalls == [i \in 1..Len(stack) |-> Visible(stack[i])]

CR == INSTANCE CallResults WITH
        Values <- Bytes, Nothing <- Empty, calls <- VisibleCalls, down <- poisoned

(* If guests use their own handles and set their output last (LastSpec),   *)
(* any nest of calls and host functions ends as if every call had a memory *)
(* of its own.                                                             *)
ImplementsCallResults == CR!Spec

(* call_out and call set no input, so their guest finds that of an earlier *)
(* call in the register.  The host has not freed it and the guest does not *)
(* own it, so what input_load reads is not somebody else's block.          *)
InputNeverDangles == Disciplined => input \in Held \cup {Null}
=============================================================================
