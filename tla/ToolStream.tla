----------------------------- MODULE ToolStream ------------------------------
(***************************************************************************)
(* What one harness stream comes to, with no event, block or index in      *)
(* sight: what a chat run takes as one step.  The agent makes calls, some  *)
(* at a time.  If the harness can run them all it does, in any order, and  *)
(* the agent makes no other call before it has every result; if one of     *)
(* them is for the backend the stream ends there.  A stream ends finished  *)
(* with nothing awaited, or pending with all of what is awaited and        *)
(* nothing else, or with an error; it ends once.  At its end it may be     *)
(* told that code has run, but only if it has.                             *)
(*                                                                         *)
(* AguiTranslate is shown to implement this module.                        *)
(***************************************************************************)

CONSTANTS
  Call,     \* tool calls
  Inline,   \* those the harness leaves to the backend
  Code      \* those that run code

VARIABLES
  awaited,  \* calls the agent waits for
  ran,      \* code has run
  outcome,  \* how the stream ended
  pending,  \* calls it was reported to end with
  told      \* code was reported to have run

vars == <<awaited, ran, outcome, pending, told>>

Init == awaited = {} /\ ran = FALSE /\ outcome = "none" /\ pending = {} /\ told = FALSE

Left == awaited \cap Inline # {}

Make ==
  /\ awaited = {}
  /\ awaited' \subseteq Call /\ awaited' # {}
  /\ UNCHANGED <<ran, outcome, pending, told>>

Get(c) ==
  /\ ~Left
  /\ awaited' = awaited \ {c}
  /\ ran' = (ran \/ c \in Code)
  /\ UNCHANGED <<outcome, pending, told>>

End ==
  /\ awaited = {} \/ Left
  /\ outcome' = IF awaited = {} THEN "finished" ELSE "pending_tools"
  /\ pending' = awaited
  /\ told' \in {FALSE, ran}
  /\ UNCHANGED <<awaited, ran>>

Fail ==
  /\ outcome' = "error"
  /\ UNCHANGED <<awaited, ran, pending, told>>

Next ==
  /\ outcome = "none"
  /\ Make \/ (\E c \in awaited : Get(c)) \/ End \/ Fail

Spec == Init /\ [][Next]_vars
===============================================================================
