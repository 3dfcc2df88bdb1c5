---------------------------- MODULE CallResults ----------------------------
(***************************************************************************)
(* What the signatures of Plugin::call_in_out, call_in, call_out and call  *)
(* (src/plugin.rs) lead a program to expect, with no memory and no         *)
(* registers: calls and host functions nest, each call has an output of    *)
(* its own, and a call that reads it ends with what its guest said last,   *)
(* or with an error.                                                       *)
(***************************************************************************)
EXTENDS Naturals, Sequences

CONSTANTS
  CallKinds,    \* the ways to call a plugin
  ReadsOutput,  \* those with a result
  Shapes,       \* the ways host functions are called
  Values,       \* what a guest may say
  Text,         \* what a result can be
  Nothing       \* what a call without a result returns

VARIABLES
  calls,    \* the activations, the running one last
  result,   \* how the call that ended last ended
  down      \* no call can start any more

callVars == <<calls, result, down>>

Activation(kind) == [kind |-> kind, said |-> {}]
Outcome(status, d) == [status |-> status, value |-> d]
Failed == Outcome("error", Nothing)

Init == calls = <<>> /\ result = Outcome("none", Nothing) /\ down = FALSE

Last  == calls[Len(calls)]
Guest == calls # <<>> /\ Last.kind \in CallKinds
Host  == calls # <<>> /\ Last.kind \in Shapes
Ends  == calls' = SubSeq(calls, 1, Len(calls) - 1)

Call(kind) ==
  /\ ~down /\ (calls = <<>> \/ Host)
  /\ calls' = Append(calls, Activation(kind))
  /\ result' = Outcome("none", Nothing)
  /\ UNCHANGED down

Refuse ==
  /\ ~down /\ (calls = <<>> \/ Host)
  /\ result' = Failed
  /\ UNCHANGED <<calls, down>>

Say(d) ==
  /\ Guest
  /\ calls' = [calls EXCEPT ![Len(calls)] = [kind |-> Last.kind, said |-> {d}]]
  /\ UNCHANGED <<result, down>>

Ask(shape) ==
  /\ Guest
  /\ calls' = Append(calls, Activation(shape))
  /\ UNCHANGED <<result, down>>

Answered == Host /\ Ends /\ UNCHANGED <<result, down>>

Return ==
  /\ Guest /\ Ends
  /\ \/ Last.kind \notin ReadsOutput /\ result' = Outcome("ok", Nothing)
     \/ Last.kind \in ReadsOutput
          /\ \E d \in Last.said \cap Text : result' = Outcome("ok", d)
  /\ UNCHANGED down

Fail == Guest /\ Ends /\ result' = Failed /\ UNCHANGED down

Crash ==
  /\ calls # <<>>
  /\ calls' = <<>> /\ down' = TRUE /\ result' = Outcome("panic", Nothing)

Next ==
  \/ \E kind \in CallKinds : Call(kind)
  \/ Refuse
  \/ \E d \in Values : Say(d)
  \/ \E shape \in Shapes : Ask(shape)
  \/ Answered \/ Return \/ Fail \/ Crash

Spec == Init /\ [][Next]_callVars
=============================================================================
