----------------------------- MODULE PluginCall -----------------------------
(***************************************************************************)
(* Calls into one plugin: Plugin::call_in_out, call_in, call_out and call  *)
(* (src/plugin.rs), the functions of src/function.rs that the embedding    *)
(* program exports to the guest, and the guest that runs in between.       *)
(*                                                                         *)
(* A call holds the context's store from start to end, so at any time one  *)
(* stack of activations is running: a call made by the program, a host     *)
(* function called by that guest, a call back into the plugin made by that *)
(* host function, and so on.  All of them share the kernel's memory and    *)
(* its two registers, the input and the output handle.  Host values are    *)
(* taken to be String, so decoding fails exactly for bytes not in Text.    *)
(***************************************************************************)
EXTENDS HostFunctions, Naturals, Sequences

CONSTANT
  MaxFrames   \* bound on the activations on the stack

ASSUME CallAssumption == MaxFrames \in Nat \ {0}

VARIABLES
  stack,      \* the activations, the running one last
  input,      \* the kernel's input register
  output,     \* the kernel's output register
  hasMain,    \* rigid: the plugin has a module named "main"
  poisoned,   \* the context's store lock is poisoned
  result      \* what the call that ended last returned

callVars == <<stack, input, output, hasMain, poisoned, result>>
vars == <<live, mem, pluginVars, owned, stack, input, output, hasMain,
          poisoned, result>>

ReadsOutput == {"in_out", "out"}
CallKinds   == ReadsOutput \cup {"in", "bare"}
Shapes      == {"InOut", "In", "Out", "Bare"}   \* of host functions

(* An activation.  Of a call: its input block and what it holds, and, once *)
(* the guest has set the output, the output block and what it held then;   *)
(* final: the guest has called no host function of the program since.      *)
Frames == [kind : CallKinds \cup Shapes, block : Ptr, arg : Bytes,
           wrote : BOOLEAN, out : Ptr, said : Bytes, final : BOOLEAN]

Frame(kind, o, d) == [kind |-> kind, block |-> o, arg |-> d, wrote |-> FALSE,
                      out |-> Null, said |-> Empty, final |-> FALSE]

Results == [status : {"none", "ok", "error", "panic"}, value : Bytes]
Outcome(status, d) == [status |-> status, value |-> d]

TypeOK ==
  /\ HostTypeOK
  /\ stack \in Seq(Frames) /\ Len(stack) <= MaxFrames
  /\ input \in Ptr /\ output \in Ptr
  /\ hasMain \in BOOLEAN /\ poisoned \in BOOLEAN
  /\ result \in Results

Init ==
  /\ HostInit
  /\ stack = <<>>
  /\ input = Null /\ output = Null
  /\ hasMain \in BOOLEAN /\ poisoned = FALSE
  /\ result = Outcome("none", Empty)

Top == stack[Len(stack)]
Pop == SubSeq(stack, 1, Len(stack) - 1)

(* The top activation with f in place of it.                               *)
WithTop(f) == [stack EXCEPT ![Len(stack)] = f]

GuestRuns == stack # <<>> /\ Top.kind \in CallKinds
HostRuns  == stack # <<>> /\ Top.kind \in Shapes
Room      == Len(stack) < MaxFrames

(* Code of the program may call the plugin: it holds the store, either     *)
(* from Context::store or as the argument of a host function.              *)
MayCall == ~poisoned /\ (stack = <<>> \/ HostRuns) /\ Room

-----------------------------------------------------------------------------
(* Starting a call.  Run: main's export is called.  Refuse: the function   *)
(* returns an error; this includes a name main does not export.            *)

Run(kind, o, d) ==
  /\ hasMain
  /\ stack' = Append(stack, Frame(kind, o, d))
  /\ result' = Outcome("none", Empty)

Refuse ==
  /\ result' = Outcome("error", Empty)
  /\ UNCHANGED stack

(* Faulty call_in_out: frees the input also when input_set succeeded.      *)
CallInOutFreesInput(d) ==
  /\ MayCall
  /\ \E o \in MemoryNew(live, d) :
       /\ mem' = Write(mem, o, d)
       /\ live' \in MemoryFree(Grant(live, o), o)
       /\ input' = o
       /\ Run("in_out", o, d)
  /\ UNCHANGED <<pluginVars, owned, output, hasMain, poisoned>>

(* call_in_out: the input is set before the module is looked up.           *)
CallInOut(d) ==
  /\ MayCall
  /\ \/ AllocFails(live, d) /\ Refuse /\ UNCHANGED <<live, mem, input>>
     \/ \E o \in MemoryNew(live, d) :
          /\ mem' = Write(mem, o, d)
          /\ \/ /\ "input_set" \in Trapping
                /\ live' \in MemoryFree(Grant(live, o), o)
                /\ Refuse /\ UNCHANGED input
             \/ /\ live' = Grant(live, o)
                /\ input' = o
                /\ Refuse \/ Run("in_out", o, d)
  /\ UNCHANGED <<pluginVars, owned, output, hasMain, poisoned>>

(* Faulty call_in: does not set the input.                                 *)
CallInUnset(d) ==
  /\ MayCall
  /\ \E o \in MemoryNew(live, d) :
       /\ mem' = Write(mem, o, d)
       /\ live' = Grant(live, o)
       /\ Run("in", o, d)
  /\ UNCHANGED <<pluginVars, owned, input, output, hasMain, poisoned>>

(* call_in: the input is set after the module was found, and nothing frees *)
(* it when that fails.                                                     *)
CallIn(d) ==
  /\ MayCall
  /\ \/ AllocFails(live, d) /\ Refuse /\ UNCHANGED <<live, mem, input>>
     \/ \E o \in MemoryNew(live, d) :
          /\ mem' = Write(mem, o, d)
          /\ live' = Grant(live, o)
          /\ \/ /\ ~hasMain \/ "input_set" \in Trapping
                /\ Refuse /\ UNCHANGED input
             \/ /\ hasMain
                /\ input' = o
                /\ Refuse \/ Run("in", o, d)
  /\ UNCHANGED <<pluginVars, owned, output, hasMain, poisoned>>

(* call_out and call: the input register keeps what it held.               *)
CallOut ==
  /\ MayCall
  /\ Refuse \/ Run("out", Null, Empty)
  /\ UNCHANGED <<live, mem, pluginVars, owned, input, output, hasMain, poisoned>>

CallBare ==
  /\ MayCall
  /\ Refuse \/ Run("bare", Null, Empty)
  /\ UNCHANGED <<live, mem, pluginVars, owned, input, output, hasMain, poisoned>>

-----------------------------------------------------------------------------
(* While the guest runs.                                                   *)

GuestActs == GuestRuns /\ GuestStep /\ UNCHANGED callVars

(* The guest sets the output and with it hands the block over; a block set *)
(* before in this call is the guest's again.                               *)
OutputSet(o) ==
  /\ GuestRuns
  /\ o \in Arg
  /\ output' = o
  /\ stack' = WithTop([Top EXCEPT !.wrote = TRUE, !.out = o,
                                  !.said = MemoryBytes(mem, o), !.final = TRUE])
  /\ owned' = (owned \cup (IF Top.wrote THEN {Top.out} \cap live ELSE {})) \ {o}
  /\ UNCHANGED <<live, mem, pluginVars, input, hasMain, poisoned, result>>

(* The guest calls a host function of the program.  fetch_in takes the     *)
(* argument, if there is one; if that fails the guest gets 0 at once.      *)
Enter(shape) ==
  /\ Room
  /\ stack' = Append(WithTop([Top EXCEPT !.final = FALSE]),
                     Frame(shape, Null, Empty))

HostEnter(shape, h) ==
  /\ GuestRuns
  /\ \/ /\ shape \in {"Out", "Bare"}
        /\ Enter(shape)
        /\ UNCHANGED <<live, mem, owned>>
     \/ /\ shape \in {"InOut", "In"}
        /\ \/ /\ Unusable(h) \/ "free" \in Trapping
              /\ Answer({h}, live, Null, Empty)
              /\ UNCHANGED stack
           \/ /\ Readable(h)
              /\ Answer({h}, live \ {h}, Null, Empty)
              /\ Enter(shape)
  /\ UNCHANGED <<pluginVars, input, output, hasMain, poisoned, result>>

(* The host function returns d; store_out copies it for the guest.  If the *)
(* function or store_out fails the guest gets 0.                           *)
HostExit(d) ==
  /\ HostRuns
  /\ stack' = Pop
  /\ \/ UNCHANGED <<live, mem, owned>>
     \/ /\ Top.kind \in {"InOut", "Out"}
        /\ \E o \in MemoryNew(live, d) : Answer({}, live, o, d)
  /\ UNCHANGED <<pluginVars, input, output, hasMain, poisoned, result>>

-----------------------------------------------------------------------------
(* Ending a call.                                                          *)

(* Faulty call_out: reads get_input instead of get_output.                 *)
ReturnInput ==
  /\ GuestRuns /\ Top.kind \in ReadsOutput
  /\ stack' = Pop
  /\ MemoryBytes(mem, input) \in Text
  /\ result' = Outcome("ok", MemoryBytes(mem, input))
  /\ live' \in MemoryFree(live, input)
  /\ UNCHANGED <<mem, pluginVars, owned, input, output, hasMain, poisoned>>

(* Faulty call_out: does not free the output it read.                      *)
ReturnOutputKept ==
  /\ GuestRuns /\ Top.kind \in ReadsOutput
  /\ stack' = Pop
  /\ MemoryBytes(mem, output) \in Text
  /\ result' = Outcome("ok", MemoryBytes(mem, output))
  /\ UNCHANGED <<live, mem, pluginVars, owned, input, output, hasMain, poisoned>>

(* The guest returned 0 from a call_in_out or call_out: the host decodes   *)
(* whatever the output register names and frees it.                        *)
ReturnOutput ==
  /\ GuestRuns /\ Top.kind \in ReadsOutput
  /\ stack' = Pop
  /\ LET d == MemoryBytes(mem, output) IN
     \/ /\ d \notin Text \/ "output_offset" \in Trapping
        /\ result' = Outcome("error", Empty)
        /\ UNCHANGED live
     \/ /\ d \in Text
        /\ result' = Outcome("ok", d)
        /\ live' \in MemoryFree(live, output)
  /\ UNCHANGED <<mem, pluginVars, owned, input, output, hasMain, poisoned>>

(* Faulty call: frees the output register like the calls that read it.     *)
ReturnNothingFrees ==
  /\ GuestRuns /\ Top.kind \notin ReadsOutput
  /\ stack' = Pop
  /\ result' = Outcome("ok", Empty)
  /\ live' \in MemoryFree(live, output)
  /\ UNCHANGED <<mem, pluginVars, owned, input, output, hasMain, poisoned>>

(* The guest returned 0 from a call_in or call.                            *)
ReturnNothing ==
  /\ GuestRuns /\ Top.kind \notin ReadsOutput
  /\ stack' = Pop
  /\ result' = Outcome("ok", Empty)
  /\ UNCHANGED <<live, mem, pluginVars, owned, input, output, hasMain, poisoned>>

(* The guest trapped: the call returns PluginRunError::Runtime.            *)
GuestTraps ==
  /\ GuestRuns
  /\ stack' = Pop
  /\ result' = Outcome("error", Empty)
  /\ UNCHANGED <<live, mem, pluginVars, owned, input, output, hasMain, poisoned>>

(* todo!(): the guest returned non-zero, or called http_request,           *)
(* http_status_code or http_headers; or a host function of the program     *)
(* panics.  The panic unwinds every activation and drops the guard of the  *)
(* store, which poisons the lock.                                          *)
Panic ==
  /\ stack # <<>>
  /\ stack' = <<>>
  /\ poisoned' = TRUE
  /\ result' = Outcome("panic", Empty)
  /\ UNCHANGED <<live, mem, pluginVars, owned, input, output, hasMain>>

(* Context::store unwraps the lock: once poisoned, no call starts again.   *)
StorePoisoned ==
  /\ poisoned
  /\ UNCHANGED vars

-----------------------------------------------------------------------------
OtherSteps ==
  \/ \E d \in Bytes : CallInOut(d) \/ CallIn(d)
  \/ CallOut \/ CallBare
  \/ GuestActs
  \/ \E o \in Ptr : OutputSet(o)
  \/ \E shape \in Shapes, h \in Arg : HostEnter(shape, h)
  \/ \E d \in Bytes : HostExit(d)
  \/ ReturnNothing \/ GuestTraps \/ Panic
  \/ StorePoisoned

(* Any guest.  The host asks nothing of it before it reads the output.     *)
Next == OtherSteps \/ ReturnOutput

Spec == Init /\ [][Next]_vars

(* Guests that set the output in each call that reads it, at any time.     *)
OnceNext == OtherSteps \/ (GuestRuns /\ Top.wrote /\ ReturnOutput)

(* Guests that set the output last, after any call of a host function of   *)
(* the program, as those do whose exports return it to extism's PDK.       *)
LastNext == OtherSteps \/ (GuestRuns /\ Top.final /\ ReturnOutput)

LastSpec == Init /\ [][LastNext]_vars
-----------------------------------------------------------------------------
Active == 1..Len(stack)

(* The argument of every running call stays allocated and unchanged until  *)
(* the call ends, whatever the guest, its host functions and the calls     *)
(* nested in it allocate and free meanwhile.                               *)
InputsIntact ==
  Disciplined => \A i \in Active :
                   /\ stack[i].block \in live \cup {Null}
                   /\ MemoryBytes(mem, stack[i].block) = stack[i].arg

(* The same for the output, from the moment the guest set it.              *)
OutputsIntact ==
  Disciplined => \A i \in Active : stack[i].wrote =>
                   /\ stack[i].out \in live \cup {Null}
                   /\ MemoryBytes(mem, stack[i].out) = stack[i].said

(* Every live block has at most one owner: the guest, the input of one     *)
(* running call or the output of one running call.  This is why a call     *)
(* can end, whatever is still running below it, without harm to the rest.  *)
Held == live \ owned

Keeps(H, m, o, d) == o \in H \cup {Null} /\ MemoryBytes(m, o) = d

Sound(H, m, f) ==
  /\ Keeps(H, m, f.block, f.arg)
  /\ IF f.wrote THEN Keeps(H, m, f.out, f.said) ELSE f.out = Null
  /\ f.block = f.out => f.block = Null

Apart(f, g) == {f.block, f.out} \cap {g.block, g.out} \subseteq {Null}

Ownership ==
  Disciplined =>
    /\ GuestBlocksKept
    /\ \A i \in Active : Sound(Held, mem, stack[i])
    /\ \A i, j \in Active : i # j => Apart(stack[i], stack[j])

(* The host never frees a block the guest still owns: call_in_out and      *)
(* call_out free what the output register names, and that has to be the    *)
(* block this guest handed over.                                           *)
CallsKeepGuestBlocks == Disciplined => GuestBlocksKept

Returned == Len(stack') < Len(stack) /\ GuestRuns

(* call_in_out and call_out free what the output register names, which is  *)
(* not what this call's guest set: it set nothing, or called a host        *)
(* function since, and the calls nested in that used the register.         *)
FreesStaleOutput ==
  /\ Returned /\ Top.kind \in ReadsOutput /\ ~Top.final
  /\ output \notin {Null, Top.out}
  /\ live' = live \ {output}

(* With guests that use only their own handles, this is the only step of   *)
(* the host by which a block can lose its one owner, whatever guests do    *)
(* about their outputs.                                                    *)
HarmIsStaleOutput == [][Ownership => Ownership' \/ FreesStaleOutput]_vars

(* Without nested calls, the input register names the argument of the      *)
(* running call for as long as it runs, host functions included.           *)
InputRegister ==
  MaxFrames <= 2 /\ stack # <<>> /\ stack[1].kind \in {"in_out", "in"}
    => input = stack[1].block

(* A call that reads the output returns what its own guest put there, not  *)
(* what an earlier or a nested call left behind.                           *)
ReturnsOwnOutput ==
  [][Disciplined /\ Returned /\ Top.kind \in ReadsOutput /\ result'.status = "ok"
       => result'.value = Top.said]_vars

(* Live blocks that nobody is left to free.                                *)
Lost == live \ (owned \cup UNION {{stack[i].block, stack[i].out} : i \in Active})

(* Blocks get lost in five ways only: the input of a call that ended, the  *)
(* output of a call that failed or does not read it, an output the         *)
(* register no longer names, bytes that are not UTF-8 where text is        *)
(* expected, and the input of a call that was refused.  An output the host *)
(* read never is.                                                          *)
LossCause(o) ==
  \/ Returned /\ o = Top.block
  \/ Returned /\ o = Top.out
              /\ \/ Top.kind \notin ReadsOutput \/ result'.status # "ok"
                 \/ o # output
  \/ poisoned'
  \/ mem[o] \notin Text
  \/ o \notin live /\ result'.status = "error"

LossesExplained == Ownership /\ Disciplined /\ Trapping = {}
                     => \A o \in Lost' \ Lost : LossCause(o)
LossCauses == [][LossesExplained]_vars
=============================================================================
