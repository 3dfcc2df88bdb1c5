------------------------------ MODULE VarStore ------------------------------
(***************************************************************************)
(* What var_get and var_set promise a guest (the doc comments of           *)
(* src/plugin/kernel.rs): a table of variables.  A read answers with what  *)
(* the table has under the key that was asked for; a write stores the      *)
(* value that was passed under the key that was passed, or removes it when *)
(* there is no value.  A request that fails has no effect and answers with *)
(* "not found", and only one with a reason to fail may do so.              *)
(***************************************************************************)
CONSTANTS
  Keys,
  Values,
  Missing

VARIABLES
  store,     \* the variables
  request,   \* what was asked last
  reply      \* the answer to it, Missing for a write

storeVars == <<store, request, reply>>

(* A request; sure: nothing can go wrong with it.                          *)
Requests == [op : {"get", "set"}, key : Keys, value : Values \cup {Missing},
             sure : BOOLEAN]

(* A request whose arguments cannot be read.                               *)
Unusable == [op |-> "none", key |-> Missing, value |-> Missing, sure |-> FALSE]

Init ==
  /\ store = [k \in Keys |-> Missing]
  /\ request = Unusable
  /\ reply = Missing

Get(r) ==
  /\ r.op = "get"
  /\ reply' = store[r.key]
  /\ UNCHANGED store

Set(r) ==
  /\ r.op = "set"
  /\ store' = [store EXCEPT ![r.key] = r.value]
  /\ reply' = Missing

Fail ==
  /\ reply' = Missing
  /\ UNCHANGED store

Serve(r) ==
  /\ request' = r
  /\ \/ r \in Requests /\ (Get(r) \/ Set(r))
     \/ ~r.sure /\ Fail

Next == \E r \in Requests \cup {Unusable} : Serve(r)

Spec == Init /\ [][Next]_storeVars
=============================================================================
