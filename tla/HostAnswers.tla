---------------------------- MODULE HostAnswers ----------------------------
(***************************************************************************)
(* PluginCall with a history variable: the blocks var_get answered with    *)
(* that the guest has neither freed nor handed over since.                 *)
(***************************************************************************)
EXTENDS PluginCall

VARIABLE answers

answerVars == <<live, mem, pluginVars, owned, stack, input, output, hasMain,
                poisoned, result, answers>>

AnswerInit == Init /\ answers = {}

AnswerNext ==
  \/ /\ GuestRuns
     /\ \E h \in Arg, ret \in Offsets :
          /\ VarGet(h, ret)
          /\ answers' = (answers \cap owned') \cup {ret}
     /\ UNCHANGED callVars
  \/ OnceNext /\ answers' = answers \cap owned'

AnswerSpec == AnswerInit /\ [][AnswerNext]_answerVars

(* kernel.rs, var_get: "the return value will need to be freed".  It is    *)
(* the guest's until the guest frees it or hands it over, so nobody else   *)
(* may free it.                                                            *)
AnswersKept == answers \subseteq live
=============================================================================
