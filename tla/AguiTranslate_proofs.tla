------------------------- MODULE AguiTranslate_proofs -------------------------
(***************************************************************************)
(* Theorems about AguiTranslate, for streams of any length.                *)
(***************************************************************************)
EXTENDS AguiTranslate, TLAPS

USE BoundsAssumption, BlocksAssumption

-----------------------------------------------------------------------------
\* The assistant's message that is being sent, or was the last one sent.
Shown == (turn = "assistant" /\ speaking) \/ turn = "end" \/ (turn = "user" /\ ~speaking)

\* current_message_tools holds the calls of that message, each at its index,
\* and nothing else; tool_call_ids_by_index holds them too.
Mirrors ==
  Shown =>
    /\ Len(blocks) <= MaxBlocks
    /\ \A k \in Index : currentTools[k] =
         IF k + 1 \in DOMAIN blocks /\ blocks[k + 1] # Text THEN blocks[k + 1] ELSE None
    /\ \A k \in Index : currentTools[k] # None => callIds[k] = currentTools[k]
    /\ \A k \in DOMAIN blocks : blocks[k] # Text => blocks[k].idx = k - 1

\* What the harness sends: inside a message, blocks one after another; in a
\* user message only results, while the translator knows no current tool.
Grammar ==
  /\ speaking => message >= 1
  /\ open => speaking /\ blocks # <<>>
  /\ turn = "end" => ~speaking
  /\ turn = "user" /\ speaking => currentTools = NoTools /\ blocks \in Seq(Call)

\* What is due is what the last message left, if it stopped for its calls.
DueIsLast ==
  /\ turn = "assistant" => due = {}
  /\ turn = "end" => due = IF stopReason = "tool_use" THEN CallsOf(blocks) ELSE {}
  /\ turn = "user" /\ ~speaking => due = CallsOf(blocks)
  /\ \A c \in due : callIds[c.idx] = c

Ended ==
  /\ outcome \in {"finished", "pending_tools"} => turn = "end"
  /\ outcome = "pending_tools" => stopReason = "tool_use"
  /\ outcome = "finished" => ~LeavesTools

TInv == TypeOK /\ Mirrors /\ Grammar /\ DueIsLast /\ Ended

LEMMA IndexNat == \A k \in Index : k \in Nat /\ k < MaxBlocks
  BY DEF Index

LEMMA TInvInit == Init => TInv
  <1> SUFFICES ASSUME Init PROVE TInv
    OBVIOUS
  <1>1. NoTools \in [Index -> Call \cup {None}]
    BY DEF NoTools
  <1>2. TypeOK
    <2>1. blocks \in Seq(Call \cup {Text}) 
      BY DEF Init
    <2>2. due \subseteq Call /\ started \subseteq Call /\ ended \subseteq Call
          /\ results \subseteq Call /\ strayed \subseteq Call /\ credited \subseteq Call
      BY DEF Init
    <2>3. message \in 0..MaxMessages
      BY DEF Init
    <2> QED
      BY <1>1, <2>1, <2>2, <2>3, Zenon DEF Init, TypeOK
  <1>3. Mirrors
    BY DEF Init, Mirrors, Shown
  <1>4. Grammar /\ DueIsLast /\ Ended
    BY DEF Init, Grammar, DueIsLast, Ended
  <1> QED
    BY <1>2, <1>3, <1>4 DEF TInv

LEMMA PendingCalls ==
  ASSUME TypeOK, Mirrors, Shown
  PROVE  Pending = CallsOf(blocks)
  <1>1. \A k \in DOMAIN blocks : k - 1 \in Index /\ k = (k - 1) + 1
    BY DEF TypeOK, Index, Mirrors
  <1>2. ASSUME NEW c \in CallsOf(blocks) PROVE c \in Pending
    <2>1. PICK k \in DOMAIN blocks : c = blocks[k] /\ c # Text
      BY <1>2 DEF CallsOf
    <2>2. currentTools[k - 1] = c
      BY <1>1, <2>1 DEF Mirrors
    <2>3. c # None
      BY <2>1 DEF TypeOK
    <2> QED
      BY <1>1, <2>1, <2>2, <2>3 DEF Pending
  <1>3. ASSUME NEW c \in Pending PROVE c \in CallsOf(blocks)
    <2>1. PICK k \in Index : c = currentTools[k] /\ c # None
      BY <1>3 DEF Pending
    <2> QED
      BY <2>1 DEF Mirrors, CallsOf
  <1> QED
    BY <1>2, <1>3

LEMMA StepMessageStart ==
  ASSUME TInv, MessageStart
  PROVE  TInv'
  <1>0. /\ blocks' = <<>> /\ speaking' = TRUE /\ message' = message + 1
        /\ currentTools' = NoTools /\ turn \in {"assistant", "user"} /\ outcome = "none"
        /\ ~speaking /\ UNCHANGED <<turn, open, due, stopReason, callIds, textOpen, codeDone, outcome>>
        /\ UNCHANGED <<started, ended, results, strayed, credited>>
    BY DEF MessageStart, ToolsOfNewMessage, events
  <1>1. TypeOK'
    <2>1. NoTools \in [Index -> Call \cup {None}] /\ <<>> \in Seq(Call \cup {Text})
      BY DEF NoTools
    <2>2. message' \in 0..MaxMessages
      BY DEF MessageStart, TInv, TypeOK
    <2> QED
      BY <1>0, <2>1, <2>2, Zenon DEF TInv, TypeOK
  <1>2. Mirrors'
    BY <1>0 DEF Mirrors, NoTools
  <1>3. Grammar'
    <2>1. <<>> \in Seq(Call) /\ message' >= 1
      BY <1>0 DEF TInv, TypeOK
    <2> QED
      BY <1>0, <2>1, Zenon DEF Grammar, TInv
  <1>4. DueIsLast' /\ Ended'
    BY <1>0 DEF DueIsLast, Ended, TInv
  <1> QED
    BY <1>1, <1>2, <1>3, <1>4 DEF TInv

LEMMA StepNewBlock ==
  ASSUME TInv, TextDelta \/ \E n \in Name : ToolUseStart(n)
  PROVE  TInv'
  <1>0. /\ turn = "assistant" /\ speaking /\ Len(blocks) < MaxBlocks /\ outcome = "none"
        /\ UNCHANGED <<turn, speaking, message, due, stopReason, outcome, codeDone>>
        /\ UNCHANGED <<ended, results, strayed, credited>> /\ open' = TRUE
    BY DEF TextDelta, ToolUseStart, FlagOfStart, NewBlock, events
  <1>1. Len(blocks) \in Nat /\ Len(blocks) \in Index /\ message \in 1..MaxMessages
    BY <1>0 DEF TInv, TypeOK, Grammar, Index
  <1>2. PICK b \in Call \cup {Text} :
          /\ blocks' = Append(blocks, b)
          /\ \/ b = Text /\ UNCHANGED <<currentTools, callIds, started>> /\ textOpen' = TRUE
             \/ /\ b # Text /\ b.idx = Len(blocks)
                /\ currentTools' = [currentTools EXCEPT ![Len(blocks)] = b]
                /\ callIds' = [callIds EXCEPT ![Len(blocks)] = b]
                /\ started' = started \cup {b} /\ UNCHANGED textOpen
    <2>1. CASE TextDelta
      BY <2>1 DEF TextDelta, NewBlock, tools, events
    <2>2. CASE \E n \in Name : ToolUseStart(n)
      <3>1. PICK n \in Name : ToolUseStart(n)
        BY <2>2
      <3>2. [message |-> message, idx |-> Len(blocks), name |-> n] \in Call
        BY <1>1 DEF Call
      <3> QED
        BY <3>1, <3>2 DEF ToolUseStart, NewBlock
    <2> QED
      BY <2>1, <2>2
  <1>3. /\ blocks' \in Seq(Call \cup {Text}) /\ Len(blocks') = Len(blocks) + 1
        /\ DOMAIN blocks' = DOMAIN blocks \cup {Len(blocks) + 1}
        /\ \A k \in DOMAIN blocks : blocks'[k] = blocks[k]
        /\ blocks'[Len(blocks) + 1] = b
        /\ DOMAIN blocks = 1..Len(blocks)
    BY <1>2 DEF TInv, TypeOK
  <1>4. TypeOK'
    <2>1. currentTools' \in [Index -> Call \cup {None}] /\ callIds' \in [Index -> Call \cup {None}]
          /\ started' \subseteq Call
      BY <1>1, <1>2 DEF TInv, TypeOK
    <2>2. textOpen' \in BOOLEAN
      BY <1>2, Zenon DEF TInv, TypeOK
    <2> QED
      BY <1>0, <1>3, <2>1, <2>2, Zenon DEF TInv, TypeOK
  <1>5. Mirrors'
    <2>1. Shown
      BY <1>0 DEF Shown
    <2>2. CASE b = Text
      BY <1>0, <1>1, <1>2, <1>3, <2>1, <2>2 DEF Mirrors, Index, TInv
    <2>3. CASE b # Text
      <3>1. \A k \in Index : /\ currentTools'[k] = IF k = Len(blocks) THEN b ELSE currentTools[k]
                            /\ callIds'[k] = IF k = Len(blocks) THEN b ELSE callIds[k]
        BY <1>2, <2>3 DEF TInv, TypeOK
      <3>2. Len(blocks') <= MaxBlocks
        BY <1>0, <1>1, <1>3
      <3>3. \A k \in DOMAIN blocks' : blocks'[k] # Text => blocks'[k].idx = k - 1
        BY <1>1, <1>2, <1>3, <2>1, <2>3 DEF Mirrors, TInv
      <3>4. ASSUME NEW k \in Index
            PROVE  /\ currentTools'[k] =
                        IF k + 1 \in DOMAIN blocks' /\ blocks'[k + 1] # Text
                          THEN blocks'[k + 1] ELSE None
                   /\ currentTools'[k] # None => callIds'[k] = currentTools'[k]
        <4>1. CASE k = Len(blocks)
          BY <1>3, <2>3, <3>1, <4>1
        <4>2. CASE k # Len(blocks)
          <5>1. k + 1 \in DOMAIN blocks' <=> k + 1 \in DOMAIN blocks
            BY <1>1, <1>3, <4>2 DEF Index
          <5> QED
            BY <1>3, <2>1, <3>1, <4>2, <5>1 DEF Mirrors, TInv
        <4> QED
          BY <4>1, <4>2
      <3> QED
        BY <3>1, <3>2, <3>3, <3>4 DEF Mirrors
    <2> QED
      BY <2>2, <2>3
  <1>6. Grammar' /\ DueIsLast' /\ Ended'
    BY <1>0, <1>3 DEF Grammar, DueIsLast, Ended, TInv, TypeOK
  <1> QED
    BY <1>4, <1>5, <1>6 DEF TInv

LEMMA StepResult ==
  ASSUME TInv, NEW c \in due, NEW j \in ResultIndex, ToolResultDelta(c, j)
  PROVE  TInv' /\ c \in Call /\ results' = results \cup {c}
               /\ (j = c.idx => credited' = credited \cup {c})
               /\ \/ UNCHANGED codeDone
                  \/ /\ codeDone'
                     /\ \E k \in Index : callIds[k] # None /\ callIds[k].name = "code_interpreter"
  <1>0. /\ turn = "user" /\ speaking /\ outcome = "none" /\ open' = TRUE
        /\ UNCHANGED <<turn, speaking, message, stopReason, currentTools, callIds, outcome>>
        /\ UNCHANGED <<textOpen, started, ended>>
        /\ blocks' = Append(blocks, c) /\ due' = due \ {c} /\ results' = results \cup {c}
    BY DEF ToolResultDelta, tools
  <1>1. c \in Call /\ c.idx \in Index
    BY DEF TInv, TypeOK, Call
  <1>2. CreditedTo(c.idx) = c
    BY <1>0, <1>1 DEF CreditedTo, TInv, DueIsLast
  <1>3. j = c.idx => credited' = credited \cup {c}
    BY <1>2 DEF ToolResultDelta
  <1>a. \/ UNCHANGED codeDone
        \/ codeDone' /\ \E k \in Index : callIds[k] # None /\ callIds[k].name = "code_interpreter"
    <2>1. codeDone' = (codeDone \/ (CreditedTo(j) # None /\ CreditedTo(j).name = "code_interpreter"))
      BY DEF ToolResultDelta
    <2>2. CreditedTo(j) # None => j \in Index /\ CreditedTo(j) = callIds[j]
      BY DEF CreditedTo
    <2>3. codeDone \in BOOLEAN
      BY DEF TInv, TypeOK
    <2> QED
      BY <2>1, <2>2, <2>3, Zenon
  <1>4. /\ blocks \in Seq(Call)
        /\ blocks' \in Seq(Call) /\ blocks' \in Seq(Call \cup {Text}) /\ blocks' # <<>>
    BY <1>0, <1>1 DEF TInv, Grammar
  <1>5. TypeOK'
    <2>1. codeDone' \in BOOLEAN
      BY Zenon DEF ToolResultDelta, TInv, TypeOK
    <2>2. /\ results' \subseteq Call /\ strayed' \subseteq Call /\ credited' \subseteq Call
          /\ due' \subseteq Call
      BY <1>0, <1>1 DEF ToolResultDelta, TInv, TypeOK
    <2> QED
      BY <1>0, <1>4, <2>1, <2>2, Zenon DEF TInv, TypeOK
  <1>6. Mirrors' /\ Grammar' /\ DueIsLast' /\ Ended'
    BY <1>0, <1>4 DEF Mirrors, Grammar, DueIsLast, Ended, Shown, TInv
  <1> QED
    BY <1>0, <1>1, <1>3, <1>a, <1>5, <1>6 DEF TInv

LEMMA StepBlockStop ==
  ASSUME TInv, ContentBlockStop
  PROVE  TInv'
  <1>0. /\ outcome = "none" /\ open' = FALSE
        /\ UNCHANGED <<turn, speaking, message, blocks, due, stopReason, currentTools, callIds>>
        /\ UNCHANGED <<codeDone, outcome, started, results, strayed, credited>>
    BY DEF ContentBlockStop, tools
  <1>1. PICK k \in OpenIndex :
          \/ StopsTool(k) /\ ended' = ended \cup {currentTools[k]} /\ UNCHANGED textOpen
          \/ ~StopsTool(k) /\ textOpen' = FALSE /\ UNCHANGED ended
    BY DEF ContentBlockStop
  <1>2. ended' \subseteq Call /\ textOpen' \in BOOLEAN
    BY <1>1, Zenon DEF StopsTool, TInv, TypeOK
  <1>3. TypeOK'
    BY <1>0, <1>2, Zenon DEF TInv, TypeOK
  <1>4. Mirrors' /\ Grammar' /\ DueIsLast' /\ Ended'
    BY <1>0 DEF Mirrors, Grammar, DueIsLast, Ended, Shown, TInv, CallsOf
  <1> QED
    BY <1>3, <1>4 DEF TInv

LEMMA StepMessageStop ==
  ASSUME TInv, NEW reason \in {"tool_use", "end_turn", "max_tokens"}, MessageStop(reason)
  PROVE  TInv'
  <1>0. /\ outcome = "none" /\ speaking /\ speaking' = FALSE /\ stopReason' = reason /\ ~open
        /\ UNCHANGED <<message, blocks, open, currentTools, callIds, textOpen, codeDone, outcome>>
        /\ UNCHANGED <<started, ended, results, strayed, credited>>
    BY DEF MessageStop, tools, events
  <1>1. CASE AssistantStop(reason)
    <2>1. /\ turn = "assistant" /\ Shown /\ CallsOf(blocks) \subseteq Call
          /\ \/ turn' = "user" /\ due' = CallsOf(blocks)
             \/ turn' = "end" /\ due' = IF reason = "tool_use" THEN CallsOf(blocks) ELSE {}
      BY <1>0, <1>1 DEF AssistantStop, Shown, CallsOf, TInv, TypeOK
    <2>2. TypeOK'
      BY <1>0, <2>1, Zenon DEF TInv, TypeOK
    <2>3. Mirrors' /\ Grammar' /\ Ended'
      BY <1>0, <2>1 DEF Mirrors, Grammar, Ended, Shown, TInv
    <2>4. ASSUME NEW c \in CallsOf(blocks) PROVE callIds[c.idx] = c
      <3>1. PICK k \in DOMAIN blocks : c = blocks[k] /\ c # Text
        BY <2>4 DEF CallsOf
      <3>2. c \in Call /\ c.idx = k - 1 /\ c.idx \in Index /\ k = c.idx + 1 /\ c # None
        BY <2>1, <3>1 DEF TInv, Mirrors, Call
      <3> QED
        BY <2>1, <3>1, <3>2 DEF TInv, Mirrors
    <2>5. DueIsLast'
      BY <1>0, <2>1, <2>4 DEF DueIsLast, CallsOf
    <2> QED
      BY <2>2, <2>3, <2>5 DEF TInv
  <1>2. CASE UserStop
    <2>1. turn = "user" /\ due = {} /\ turn' = "assistant" /\ due' = due
      BY <1>2 DEF UserStop
    <2>2. TypeOK'
      BY <1>0, <2>1, Zenon DEF TInv, TypeOK
    <2> QED
      BY <1>0, <2>1, <2>2 DEF Mirrors, Grammar, DueIsLast, Ended, Shown, TInv
  <1> QED
    BY <1>1, <1>2 DEF MessageStop

LEMMA StepEnds ==
  ASSUME TInv, RuntimeClientError \/ StreamEnd
  PROVE  TInv'
  <1>0. UNCHANGED <<turn, speaking, message, blocks, open, due, stopReason, currentTools, callIds,
                    codeDone, started, ended, results, strayed, credited>>
    BY DEF RuntimeClientError, StreamEnd, stream, tools, events
  <1>1. outcome' \in {"finished", "pending_tools", "error"} /\ textOpen' \in BOOLEAN
    BY Zenon DEF RuntimeClientError, StreamEnd, TInv, TypeOK
  <1>2. TypeOK'
    BY <1>0, <1>1, Zenon DEF TInv, TypeOK
  <1>3. Mirrors' /\ Grammar' /\ DueIsLast'
    BY <1>0 DEF Mirrors, Grammar, DueIsLast, Shown, CallsOf, TInv
  <1>4. Ended'
    BY <1>0 DEF RuntimeClientError, StreamEnd, Ended, LeavesTools, Pending
  <1> QED
    BY <1>2, <1>3, <1>4 DEF TInv

LEMMA TInvStep ==
  TInv /\ [Next]_vars => TInv'
  <1> SUFFICES ASSUME TInv, [Next]_vars PROVE TInv'
    OBVIOUS
  <1>1. CASE UNCHANGED vars
    <2>1. UNCHANGED <<turn, speaking, message, blocks, open, due, stopReason, currentTools,
                      callIds, textOpen, codeDone, outcome, started, ended, results, strayed, credited>>
      BY <1>1 DEF vars, stream, tools, events
    <2>2. TypeOK'
      BY <2>1, Zenon DEF TInv, TypeOK
    <2>3. Mirrors' /\ Grammar' /\ DueIsLast'
      BY <2>1 DEF TInv, Mirrors, Grammar, DueIsLast, Shown, CallsOf
    <2>4. Ended'
      BY <2>1 DEF TInv, Ended, LeavesTools, Pending
    <2> QED
      BY <2>2, <2>3, <2>4 DEF TInv
  <1> QED
    BY <1>1, StepMessageStart, StepNewBlock, StepResult, StepBlockStop, StepMessageStop, StepEnds
    DEF Next

\* Every variable keeps its type, in streams of any length.
THEOREM TypeCorrect ==
  Spec => []TypeOK
  <1>1. TInv => TypeOK
    BY DEF TInv
  <1>2. Spec => []TInv
    BY TInvInit, TInvStep, PTL DEF Spec
  <1> QED
    BY <1>1, <1>2, PTL

\* What translate_stream reports pending is what the agent waits for.
THEOREM PendingIsWaitingHolds ==
  Spec => []PendingIsWaiting
  <1>1. TInv => PendingIsWaiting
    <2> SUFFICES ASSUME TInv PROVE PendingIsWaiting
      OBVIOUS
    <2>1. turn = "end" => Pending = CallsOf(blocks)
      BY PendingCalls DEF TInv, Shown
    <2> QED
      BY <2>1 DEF PendingIsWaiting, TInv, Ended, DueIsLast, LeavesTools
  <1>2. Spec => []TInv
    BY TInvInit, TInvStep, PTL DEF Spec
  <1> QED
    BY <1>1, <1>2, PTL

-----------------------------------------------------------------------------
\* ResultsReachTheirCall of AguiTranslate: tool_call_ids_by_index outlives the
\* message it was filled from, and still holds a call when its result comes at its
\* index (agui_translate.py:88, 109-121).
THEOREM ResultsReachHolds ==
  Spec => []ResultsReachTheirCall
  <1>1. Init => ResultsReachTheirCall
    BY DEF Init, ResultsReachTheirCall
  <1>2. TInv /\ ResultsReachTheirCall /\ [Next]_vars => ResultsReachTheirCall'
    <2> SUFFICES ASSUME TInv, ResultsReachTheirCall, [Next]_vars PROVE ResultsReachTheirCall'
      OBVIOUS
    <2>1. CASE \E c \in due, j \in ResultIndex : ToolResultDelta(c, j)
      <3>1. PICK c \in due, j \in ResultIndex : ToolResultDelta(c, j)
        BY <2>1
      <3>2. results' = results \cup {c} /\ (j = c.idx => credited' = credited \cup {c})
        BY <3>1, StepResult
      <3>3. /\ strayed' = IF j = c.idx THEN strayed ELSE strayed \cup {c}
            /\ credited \subseteq credited'
        BY <3>1 DEF ToolResultDelta
      <3> QED
        BY <3>2, <3>3 DEF ResultsReachTheirCall
    <2>2. CASE UNCHANGED <<results, strayed, credited>>
      BY <2>2 DEF ResultsReachTheirCall
    <2> QED
      BY <2>1, <2>2 DEF Next, vars, MessageStart, TextDelta, ToolUseStart, ContentBlockStop,
         MessageStop, RuntimeClientError, StreamEnd, events
  <1> QED
    BY <1>1, <1>2, TInvInit, TInvStep, PTL DEF Spec

-----------------------------------------------------------------------------
\* The code interpreter's result came.
CodeRan == \E c \in results : c.name = "code_interpreter"

CodeIsDue == turn = "user" /\ \E c \in due : c.name = "code_interpreter"

\* A call in tool_call_ids_by_index has its result, or is about to: only in a
\* user message may a result be taken for one whose own is still to come.
Heard ==
  \A k \in Index : callIds[k] # None =>
    \/ callIds[k] \in results \/ callIds[k] \in due \/ turn = "end"
    \/ turn = "assistant" /\ speaking /\ callIds[k] \in CallsOf(blocks)

FlagInv == Heard /\ (codeDone => CodeRan \/ CodeIsDue)

LEMMA FlagResult ==
  ASSUME TInv, FlagInv, NEW c \in due, NEW j \in ResultIndex, ToolResultDelta(c, j)
  PROVE  FlagInv'
  <1>1. /\ turn = "user" /\ turn' = "user" /\ due' = due \ {c} /\ callIds' = callIds
        /\ results' = results \cup {c}
    BY DEF ToolResultDelta, tools
  <1>2. Heard'
    BY <1>1 DEF FlagInv, Heard
  <1>3. codeDone' => \/ codeDone
                    \/ \E k \in Index : callIds[k] # None /\ callIds[k].name = "code_interpreter"
    BY StepResult
  <1>4. codeDone' => CodeRan \/ CodeIsDue
    BY <1>1, <1>3 DEF FlagInv, Heard, CodeRan, CodeIsDue
  <1>5. CodeRan \/ CodeIsDue => CodeRan' \/ CodeIsDue'
    BY <1>1 DEF CodeRan, CodeIsDue
  <1> QED
    BY <1>2, <1>4, <1>5 DEF FlagInv

LEMMA FlagNewBlock ==
  ASSUME TInv, FlagInv, TextDelta \/ \E n \in Name : ToolUseStart(n)
  PROVE  FlagInv'
  <1>0. /\ turn = "assistant" /\ speaking /\ UNCHANGED <<turn, speaking, due, results, codeDone>>
        /\ Len(blocks) < MaxBlocks
    BY DEF TextDelta, ToolUseStart, FlagOfStart, NewBlock, events
  <1>a. Len(blocks) \in Nat /\ blocks \in Seq(Call \cup {Text})
    BY DEF TInv, TypeOK
  <1>1. PICK b \in Call \cup {Text} :
          /\ blocks' = Append(blocks, b)
          /\ \/ UNCHANGED callIds
             \/ b # Text /\ callIds' = [callIds EXCEPT ![Len(blocks)] = b]
    <2>1. CASE TextDelta
      BY <2>1 DEF TextDelta, NewBlock, tools
    <2>2. CASE \E n \in Name : ToolUseStart(n)
      <3>1. PICK n \in Name : ToolUseStart(n)
        BY <2>2
      <3>2. Len(blocks) \in Index /\ message \in 1..MaxMessages
        BY <1>0, <1>a DEF TInv, TypeOK, Grammar, Index
      <3>3. [message |-> message, idx |-> Len(blocks), name |-> n] \in Call
        BY <3>2 DEF Call
      <3> QED
        BY <3>1, <3>3 DEF ToolUseStart, NewBlock
    <2> QED
      BY <2>1, <2>2
  <1>2. /\ DOMAIN blocks' = DOMAIN blocks \cup {Len(blocks) + 1}
        /\ \A k \in DOMAIN blocks : blocks'[k] = blocks[k]
        /\ blocks'[Len(blocks) + 1] = b
    BY <1>a, <1>1
  <1>3. CallsOf(blocks) \subseteq CallsOf(blocks') /\ (b # Text => b \in CallsOf(blocks'))
    BY <1>2 DEF CallsOf
  <1>4. \A k \in Index : callIds'[k] = callIds[k] \/ (callIds'[k] = b /\ b # Text)
    BY <1>1 DEF TInv, TypeOK
  <1>5. ASSUME NEW k \in Index, callIds'[k] # None
        PROVE  \/ callIds'[k] \in results' \/ callIds'[k] \in due' \/ turn' = "end"
               \/ turn' = "assistant" /\ speaking' /\ callIds'[k] \in CallsOf(blocks')
    BY <1>0, <1>3, <1>4, <1>5 DEF FlagInv, Heard
  <1> QED
    BY <1>0, <1>5 DEF FlagInv, Heard, CodeRan, CodeIsDue

LEMMA FlagMessage ==
  ASSUME TInv, FlagInv,
         MessageStart \/ \E reason \in {"tool_use", "end_turn", "max_tokens"} : MessageStop(reason)
  PROVE  FlagInv'
  <1>1. CASE MessageStart
    <2>1. /\ ~speaking /\ turn \in {"assistant", "user"}
          /\ UNCHANGED <<turn, due, callIds, results, codeDone>>
      BY <1>1 DEF MessageStart, events
    <2> QED
      BY <2>1 DEF FlagInv, Heard, CodeRan, CodeIsDue
  <1>2. ASSUME NEW reason \in {"tool_use", "end_turn", "max_tokens"}, MessageStop(reason)
        PROVE  FlagInv'
    <2>0. speaking /\ UNCHANGED <<callIds, results, codeDone>>
      BY <1>2 DEF MessageStop, tools, events
    <2>1. CASE AssistantStop(reason)
      <3>1. /\ turn = "assistant"
            /\ \/ turn' = "user" /\ due' = CallsOf(blocks)
               \/ turn' = "end"
        BY <2>1 DEF AssistantStop
      <3>2. codeDone => CodeRan
        BY <3>1 DEF FlagInv, CodeIsDue
      <3>3. due = {}
        BY <3>1 DEF TInv, DueIsLast
      <3> QED
        BY <2>0, <3>1, <3>2, <3>3 DEF FlagInv, Heard, CodeRan
    <2>2. CASE UserStop
      <3>1. turn = "user" /\ due = {} /\ turn' = "assistant" /\ due' = due
        BY <2>2 DEF UserStop
      <3>2. codeDone => CodeRan
        BY <3>1 DEF FlagInv, CodeIsDue
      <3> QED
        BY <2>0, <3>1, <3>2 DEF FlagInv, Heard, CodeRan
    <2> QED
      BY <1>2, <2>1, <2>2 DEF MessageStop
  <1> QED
    BY <1>1, <1>2

LEMMA FlagQuiet ==
  ASSUME FlagInv, ContentBlockStop \/ RuntimeClientError \/ StreamEnd \/ UNCHANGED vars
  PROVE  FlagInv'
  <1>1. UNCHANGED <<turn, speaking, blocks, due, callIds, results, codeDone>>
    BY DEF ContentBlockStop, RuntimeClientError, StreamEnd, vars, stream, tools, events
  <1> QED
    BY <1>1 DEF FlagInv, Heard, CodeRan, CodeIsDue, CallsOf

LEMMA FlagStep ==
  TInv /\ FlagInv /\ [Next]_vars => FlagInv'
  BY FlagResult, FlagNewBlock, FlagMessage, FlagQuiet DEF Next

LEMMA FlagInit == Init => FlagInv
  <1> SUFFICES ASSUME Init PROVE FlagInv
    OBVIOUS
  <1>1. \A k \in Index : callIds[k] = None
    BY DEF Init, NoTools
  <1> QED
    BY <1>1 DEF Init, FlagInv, Heard

\* FlagIsTrue of AguiTranslate: at whatever index results come, a stream that ends
\* with the flag set had a result of the code interpreter, for a result can only be
\* taken for a call of this stream whose own result comes before the agent speaks
\* again (agui_translate.py:61-67, 109-116).
THEOREM FlagIsTrueHolds ==
  Spec => []FlagIsTrue
  <1>1. TInv /\ FlagInv => FlagIsTrue
    BY DEF TInv, Ended, FlagInv, CodeIsDue, CodeRan, FlagIsTrue
  <1> QED
    BY <1>1, FlagInit, FlagStep, TInvInit, TInvStep, PTL DEF Spec

-----------------------------------------------------------------------------
\* The calls of the message that is being sent, or was last, lie before its
\* end: the next one is new.
Older ==
  /\ ended \subseteq started
  /\ \A c \in started : c.message < message \/ (c.message = message /\ Shown /\ c.idx < Len(blocks))

Sending == IF open /\ turn = "assistant" THEN {blocks[Len(blocks)]} ELSE {}

\* EventsNest, its two parts apart.
Nest ==
  /\ outcome \in {"none", "error"} =>
       started \ ended = Sending \ {Text} /\ (textOpen <=> Text \in Sending)
  /\ outcome \in {"finished", "pending_tools"} => started = ended /\ ~textOpen

NInv == Older /\ Nest

LEMMA NestNewBlock ==
  ASSUME TInv, NInv, TextDelta \/ \E n \in Name : ToolUseStart(n)
  PROVE  NInv'
  <1>b. /\ turn = "assistant" /\ speaking /\ ~open /\ outcome = "none"
        /\ UNCHANGED <<turn, speaking, message, outcome, ended>> /\ open' = TRUE
    BY DEF TextDelta, ToolUseStart, NewBlock, events
  <1>0. /\ turn = "assistant" /\ speaking /\ ~open /\ outcome = "none"
        /\ UNCHANGED <<turn, speaking, message, outcome, ended>> /\ open' = TRUE
        /\ blocks \in Seq(Call \cup {Text}) /\ Len(blocks) \in Nat /\ Shown'
        /\ Sending = {}
    BY <1>b DEF TInv, TypeOK, Shown, Sending
  <1>a. started = ended /\ ~textOpen
    BY <1>0 DEF NInv, Nest, Older
  <1>1. CASE TextDelta
    <2>1. blocks' = Append(blocks, Text) /\ UNCHANGED started
      BY <1>1 DEF TextDelta, NewBlock, events
    <2>2. textOpen'
      BY <1>1 DEF TextDelta
    <2>3. Len(blocks') = Len(blocks) + 1 /\ blocks'[Len(blocks')] = Text
      BY <1>0, <1>a, <2>1
    <2>4. Sending' = {Text}
      BY <1>0, <1>a, <2>3 DEF Sending
    <2>5. Older'
      BY <1>0, <1>a, <2>1, <2>3 DEF NInv, Older, TInv, TypeOK, Call, Index
    <2>6. Nest'
      BY <1>0, <1>a, <2>1, <2>2, <2>4, Zenon DEF Nest
    <2> QED
      BY <2>5, <2>6 DEF NInv
  <1>2. ASSUME NEW n \in Name, ToolUseStart(n) PROVE NInv'
    <2>1. PICK c : c = [message |-> message, idx |-> Len(blocks), name |-> n]
      OBVIOUS
    <2>2. blocks' = Append(blocks, c) /\ started' = started \cup {c} /\ UNCHANGED textOpen
      BY <1>2, <2>1 DEF ToolUseStart, NewBlock
    <2>3. /\ message \in 1..MaxMessages /\ Len(blocks) \in Index
          /\ c \in Call /\ c.message = message /\ c.idx = Len(blocks) /\ c # Text
      BY <1>0, <1>a, <1>2, <2>1 DEF ToolUseStart, NewBlock, TInv, TypeOK, Grammar, Call, Index
    <2>4. Len(blocks') = Len(blocks) + 1 /\ blocks'[Len(blocks')] = c
      BY <1>0, <1>a, <2>2, <2>3
    <2>5. Sending' = {c}
      BY <1>0, <1>a, <2>4 DEF Sending
    <2>6. c \notin started
      BY <1>0, <1>a, <2>3 DEF NInv, Older
    <2>7. Older'
      BY <1>0, <1>a, <2>2, <2>3, <2>4 DEF NInv, Older, TInv, TypeOK, Call, Index
    <2>8. started' \ ended' = {c} /\ ~textOpen'
      BY <1>0, <1>a, <2>2, <2>6
    <2>9. Nest'
      BY <1>0, <1>a, <2>3, <2>5, <2>8, Zenon DEF Nest
    <2> QED
      BY <2>7, <2>9 DEF NInv
  <1> QED
    BY <1>1, <1>2

LEMMA NestBlockStop ==
  ASSUME TInv, NInv, ContentBlockStop
  PROVE  NInv'
  <1>0. /\ outcome = "none" /\ open /\ open' = FALSE /\ speaking
        /\ UNCHANGED <<turn, speaking, message, blocks, outcome, started>>
        /\ Len(blocks) \in Nat /\ Len(blocks) >= 1 /\ Len(blocks) \in DOMAIN blocks
        /\ Sending' = {}
    BY DEF ContentBlockStop, TInv, TypeOK, Grammar, Sending
  <1> DEFINE b == blocks[Len(blocks)]
  <1>1. PICK k \in OpenIndex :
          \/ StopsTool(k) /\ ended' = ended \cup {currentTools[k]} /\ UNCHANGED textOpen
          \/ ~StopsTool(k) /\ textOpen' = FALSE /\ UNCHANGED ended
    BY DEF ContentBlockStop
  <1>2. CASE turn = "assistant"
    <2>1. k = Len(blocks) - 1 /\ k \in Index /\ k + 1 = Len(blocks)
      BY <1>0, <1>2 DEF OpenIndex, TInv, Mirrors, Shown, Index
    <2>2. currentTools[k] = IF b # Text THEN b ELSE None
      BY <1>0, <1>2, <2>1 DEF TInv, Mirrors, Shown
    <2>3. Sending = {b} /\ (b # Text => b \in Call /\ b # None)
      BY <1>0, <1>2 DEF Sending, TInv, TypeOK
    <2>4. CASE b = Text
      <3>1. ~StopsTool(k)
        BY <2>1, <2>2, <2>4 DEF StopsTool
      <3>2. ~textOpen' /\ ended' = ended
        BY <1>1, <3>1
      <3>3. started \ ended = {}
        BY <1>0, <2>3, <2>4 DEF NInv, Nest
      <3> QED
        BY <1>0, <3>2, <3>3 DEF NInv, Nest, Older, Shown
    <2>5. CASE b # Text
      <3>1. StopsTool(k) /\ currentTools[k] = b
        BY <2>1, <2>2, <2>3, <2>5 DEF StopsTool
      <3>2. ended' = ended \cup {b} /\ textOpen' = textOpen
        BY <1>1, <3>1
      <3>3. started \ ended = {b} /\ ~textOpen
        BY <1>0, <2>3, <2>5 DEF NInv, Nest
      <3>4. Older'
        BY <1>0, <3>2, <3>3 DEF NInv, Older, Shown
      <3>5. started' \ ended' = {} /\ ~textOpen'
        BY <1>0, <3>2, <3>3
      <3> QED
        BY <1>0, <3>4, <3>5, Zenon DEF NInv, Nest
    <2> QED
      BY <2>4, <2>5
  <1>3. CASE turn # "assistant"
    <2>1. turn = "user" /\ currentTools = NoTools /\ b \in Call
      BY <1>0, <1>3 DEF TInv, TypeOK, Grammar
    <2>2. ~StopsTool(k)
      BY <2>1 DEF StopsTool, NoTools
    <2>3. ~textOpen' /\ ended' = ended
      BY <1>1, <2>2
    <2>4. started \ ended = {}
      BY <1>0, <1>3 DEF NInv, Nest, Sending
    <2> QED
      BY <1>0, <2>3, <2>4 DEF NInv, Nest, Older, Shown
  <1> QED
    BY <1>2, <1>3

LEMMA NestMessage ==
  ASSUME TInv, NInv,
         MessageStart \/ \E reason \in {"tool_use", "end_turn", "max_tokens"} : MessageStop(reason)
  PROVE  NInv'
  <1>0. /\ ~open /\ outcome = "none" /\ UNCHANGED <<open, textOpen, outcome, started, ended>>
    BY DEF MessageStart, MessageStop, events, TInv, Grammar
  <1>1. Nest'
    BY <1>0 DEF NInv, Nest, Sending
  <1>2. CASE MessageStart
    <2>1. message' = message + 1 /\ message \in Nat /\ started \subseteq Call
      BY <1>2 DEF MessageStart, TInv, TypeOK
    <2>2. \A c \in started : c.message < message'
      BY <2>1 DEF NInv, Older, Call
    <2> QED
      BY <1>0, <1>1, <2>2 DEF NInv, Older
  <1>3. ASSUME NEW reason \in {"tool_use", "end_turn", "max_tokens"}, MessageStop(reason)
        PROVE  NInv'
    <2>1. /\ speaking /\ speaking' = FALSE /\ UNCHANGED <<message, blocks>>
          /\ AssistantStop(reason) \/ UserStop
      BY <1>3 DEF MessageStop
    <2>2. \/ turn = "assistant" /\ turn' \in {"user", "end"}
          \/ turn = "user" /\ turn' = "assistant"
      BY <2>1 DEF AssistantStop, UserStop
    <2>3. Older'
      BY <1>0, <2>1, <2>2 DEF NInv, Older, Shown
    <2> QED
      BY <1>1, <2>3 DEF NInv
  <1> QED
    BY <1>2, <1>3

LEMMA NestQuiet ==
  ASSUME TInv, NInv,
         \/ \E c \in due, j \in ResultIndex : ToolResultDelta(c, j)
         \/ RuntimeClientError \/ StreamEnd \/ UNCHANGED vars
  PROVE  NInv'
  <1>1. CASE \E c \in due, j \in ResultIndex : ToolResultDelta(c, j)
    <2>1. /\ turn = "user" /\ speaking /\ outcome = "none"
          /\ UNCHANGED <<turn, speaking, message, textOpen, outcome, started, ended>>
      BY <1>1 DEF ToolResultDelta
    <2> QED
      BY <2>1 DEF NInv, Older, Nest, Shown, Sending
  <1>2. CASE RuntimeClientError \/ UNCHANGED vars
    <2>1. /\ UNCHANGED <<turn, speaking, message, blocks, open, textOpen, started, ended>>
          /\ (outcome' = "error" /\ outcome = "none") \/ UNCHANGED outcome
      BY <1>2 DEF RuntimeClientError, vars, stream, events
    <2> QED
      BY <2>1 DEF NInv, Older, Nest, Shown, Sending
  <1>3. CASE StreamEnd
    <2>1. /\ UNCHANGED <<turn, speaking, message, blocks, started, ended>>
          /\ ~speaking /\ outcome = "none" /\ outcome' \in {"finished", "pending_tools"}
      BY <1>3 DEF StreamEnd, stream, events
    <2>2. textOpen' = FALSE
      BY <1>3 DEF StreamEnd
    <2>3. started \ ended = {}
      BY <2>1 DEF NInv, Nest, Sending, TInv, Grammar
    <2>4. started' = ended'
      BY <2>1, <2>3 DEF NInv, Older
    <2>5. Nest'
      BY <2>1, <2>2, <2>4, Zenon DEF Nest
    <2>6. Older'
      BY <2>1 DEF NInv, Older, Shown
    <2> QED
      BY <2>5, <2>6 DEF NInv
  <1> QED
    BY <1>1, <1>2, <1>3

\* A client sees a call or a text open exactly while the harness sends it, and
\* nothing is left open at the end of a stream.
THEOREM EventsNestHolds ==
  Spec => []EventsNest
  <1>1. Init => NInv
    BY DEF Init, NInv, Older, Nest, Sending
  <1>2. TInv /\ NInv /\ [Next]_vars => NInv'
    BY NestNewBlock, NestBlockStop, NestMessage, NestQuiet DEF Next
  <1>3. NInv => EventsNest
    BY DEF NInv, Nest, EventsNest, Sending
  <1> QED
    BY <1>1, <1>2, <1>3, TInvInit, TInvStep, PTL DEF Spec


-----------------------------------------------------------------------------
\* Whom the harness leaves the calls to: it gets the results only of calls that it
\* runs, and with one among them that it does not run the stream is over.
Taken ==
  /\ turn = "user" => \A c \in due : c.name # "inline"
  /\ turn = "end" /\ due # {} => \E c \in due : c.name = "inline"

TakenInv == TInv /\ FlagInv /\ Taken

Told == outcome \in {"finished", "pending_tools"} /\ codeDone

ReportedPending == IF outcome = "pending_tools" THEN Pending ELSE {}

LEMMA CallsAreCalls == ASSUME TypeOK PROVE CallsOf(blocks) \subseteq Call
  BY DEF TypeOK, CallsOf

\* The events that say nothing of calls.
LEMMA QuietStream ==
  ASSUME TakenInv, MessageStart \/ TextDelta \/ (\E n \in Name : ToolUseStart(n)) \/ ContentBlockStop \/ UNCHANGED vars
  PROVE  Taken' /\ UNCHANGED ToolCalls!vars
  <1>1. UNCHANGED <<turn, due, codeDone, outcome, results>>
    BY DEF MessageStart, TextDelta, ToolUseStart, FlagOfStart, NewBlock, ContentBlockStop, vars,
           stream, events
  <1>2. outcome = "none" \/ UNCHANGED currentTools
    BY DEF MessageStart, TextDelta, ToolUseStart, NewBlock, ContentBlockStop, vars, tools
  <1>3. Taken'
    BY <1>1 DEF TakenInv, Taken
  <1>4. ReportedPending' = ReportedPending
    BY <1>1, <1>2 DEF ReportedPending, Pending
  <1>5. UNCHANGED <<CodeRan, Told>>
    BY <1>1 DEF CodeRan, Told
  <1> QED
    BY <1>1, <1>3, <1>4, <1>5, Zenon DEF ToolCalls!vars, ReportedPending, CodeRan, Told

LEMMA ResultStream ==
  ASSUME TakenInv, NEW c \in due, NEW j \in ResultIndex, ToolResultDelta(c, j)
  PROVE  Taken' /\ outcome = "none" /\ ToolCalls!Get(c)
  <1>1. /\ turn = "user" /\ outcome = "none" /\ due' = due \ {c}
        /\ UNCHANGED <<turn, outcome>>
    BY DEF ToolResultDelta
  <1>2. results' = results \cup {c} /\ c \in Call
    BY StepResult DEF TakenInv
  <1>4. Taken'
    BY <1>1 DEF TakenInv, Taken
  <1>5. due \cap {d \in Call : d.name = "inline"} = {}
    BY <1>1 DEF TakenInv, Taken
  <1>6. CodeRan' = (CodeRan \/ c \in {d \in Call : d.name = "code_interpreter"})
    BY <1>2, Zenon DEF CodeRan
  <1>7. ReportedPending' = ReportedPending /\ Told' = Told
    BY <1>1 DEF ReportedPending, Told
  <1>8. ~ToolCalls!Left
    BY <1>5 DEF ToolCalls!Left
  <1> QED
    BY <1>1, <1>4, <1>6, <1>7, <1>8, Zenon DEF ToolCalls!Get, ReportedPending, CodeRan, Told

LEMMA StopStream ==
  ASSUME TakenInv, NEW reason \in {"tool_use", "end_turn", "max_tokens"}, MessageStop(reason)
  PROVE  Taken' /\ outcome = "none" /\ (ToolCalls!Make \/ UNCHANGED ToolCalls!vars)
  <1>1. outcome = "none" /\ UNCHANGED <<codeDone, outcome, blocks, results>>
    BY DEF MessageStop, events
  <1>2. UNCHANGED <<ReportedPending, CodeRan, Told>>
    BY <1>1 DEF ReportedPending, CodeRan, Told
  <1>3. CASE AssistantStop(reason) /\ reason = "tool_use"
    <2>1. /\ due = {} /\ due' = CallsOf(blocks) /\ due' # {} /\ due' \subseteq Call
          /\ \/ turn' = "user" /\ \A c \in due' : c.name # "inline"
             \/ turn' = "end" /\ \E c \in due' : c.name = "inline"
      BY <1>3, CallsAreCalls DEF AssistantStop, TakenInv, TInv, DueIsLast
    <2>2. Taken'
      BY <2>1 DEF Taken
    <2>4. ToolCalls!Make
      BY <1>1, <1>2, <2>1, Zenon DEF ToolCalls!Make, ReportedPending, CodeRan, Told
    <2> QED
      BY <1>1, <2>2, <2>4, Zenon
  <1>4. CASE AssistantStop(reason) /\ reason # "tool_use"
    <2>1. due = {} /\ due' = {} /\ turn' = "end"
      BY <1>4 DEF AssistantStop, TakenInv, TInv, DueIsLast
    <2>2. Taken'
      BY <2>1 DEF Taken
    <2>3. UNCHANGED ToolCalls!vars
      BY <1>1, <1>2, <2>1, Zenon DEF ToolCalls!vars, ReportedPending, CodeRan, Told
    <2> QED
      BY <1>1, <2>2, <2>3
  <1>5. CASE UserStop
    <2>1. due' = due /\ turn' = "assistant"
      BY <1>5 DEF UserStop
    <2>2. Taken'
      BY <2>1 DEF Taken
    <2>3. UNCHANGED ToolCalls!vars
      BY <1>1, <1>2, <2>1, Zenon DEF ToolCalls!vars, ReportedPending, CodeRan, Told
    <2> QED
      BY <1>1, <2>2, <2>3
  <1> QED
    BY <1>3, <1>4, <1>5 DEF MessageStop

LEMMA EndStream ==
  ASSUME TakenInv, StreamEnd
  PROVE  Taken' /\ outcome = "none" /\ ToolCalls!End
  <1>1. /\ outcome = "none" /\ turn = "end" /\ UNCHANGED <<turn, due, codeDone, currentTools>>
        /\ outcome' = IF LeavesTools THEN "pending_tools" ELSE "finished"
    BY DEF StreamEnd, stream, tools
  <1>2. due = IF stopReason = "tool_use" THEN Pending ELSE {}
    BY <1>1, PendingCalls DEF TakenInv, TInv, DueIsLast, Shown
  <1>3. LeavesTools <=> due # {}
    BY <1>2 DEF LeavesTools
  <1>4. due = {} \/ due \cap {c \in Call : c.name = "inline"} # {}
    BY <1>1 DEF TakenInv, TInv, TypeOK, Taken
  <1>5. ReportedPending' = due
    BY <1>1, <1>2, <1>3 DEF ReportedPending, Pending, LeavesTools
  <1>6. Taken'
    BY <1>1 DEF TakenInv, Taken
  <1>7. codeDone => CodeRan
    BY <1>1 DEF TakenInv, FlagInv, CodeIsDue
  <1>8. CodeRan' = CodeRan /\ Told' \in {FALSE, CodeRan}
    <2>1. UNCHANGED results /\ outcome' \in {"finished", "pending_tools"}
      BY <1>1 DEF StreamEnd, events
    <2>2. CodeRan' = CodeRan
      BY <2>1 DEF CodeRan
    <2>3. Told' = codeDone
      BY <1>1, <2>1 DEF Told, TakenInv, TInv, TypeOK
    <2>4. codeDone \in BOOLEAN /\ CodeRan \in BOOLEAN
      BY DEF CodeRan, TakenInv, TInv, TypeOK
    <2> QED
      BY <1>7, <2>2, <2>3, <2>4, Zenon
  <1>9. (due = {} \/ ToolCalls!Left) /\ outcome' = IF due = {} THEN "finished" ELSE "pending_tools"
    BY <1>1, <1>3, <1>4 DEF ToolCalls!Left
  <1> QED
    BY <1>1, <1>5, <1>6, <1>8, <1>9, Zenon DEF ToolCalls!End, ReportedPending, CodeRan, Told

LEMMA ErrorStream ==
  ASSUME TakenInv, RuntimeClientError
  PROVE  Taken' /\ outcome = "none" /\ ToolCalls!Fail
  <1>1. outcome = "none" /\ outcome' = "error" /\ UNCHANGED <<turn, due, results>>
    BY DEF RuntimeClientError, stream, events
  <1>2. UNCHANGED <<ReportedPending, CodeRan, Told>>
    BY <1>1 DEF ReportedPending, CodeRan, Told
  <1>3. Taken'
    BY <1>1 DEF TakenInv, Taken
  <1> QED
    BY <1>1, <1>2, <1>3, Zenon DEF ToolCalls!Fail, ReportedPending, CodeRan, Told

\* ImplementsToolStream of AguiTranslate: whatever the messages, the blocks, the order
\* of the results and the index they come at, the batch that translate_stream reports
\* is what the agent waits for, and it reports that code ran only of a stream in which
\* it did (agui_translate.py:41-169).
THEOREM ImplementsToolStreamHolds ==
  Spec => ImplementsToolStream
  <1>1. ASSUME Init PROVE Taken /\ ToolCalls!Init
    BY <1>1 DEF Init, Taken, ToolCalls!Init
  <1>2. ASSUME TakenInv, [Next]_vars
        PROVE  Taken' /\ [ToolCalls!Next]_(ToolCalls!vars)
    <2>1. CASE MessageStart \/ TextDelta \/ (\E n \in Name : ToolUseStart(n)) \/ ContentBlockStop \/ UNCHANGED vars
      BY <1>2, <2>1, QuietStream
    <2>2. CASE \E c \in due, j \in ResultIndex : ToolResultDelta(c, j)
      BY <1>2, <2>2, ResultStream DEF ToolCalls!Next
    <2>3. CASE \E reason \in {"tool_use", "end_turn", "max_tokens"} : MessageStop(reason)
      BY <1>2, <2>3, StopStream DEF ToolCalls!Next
    <2>4. CASE StreamEnd \/ RuntimeClientError
      BY <1>2, <2>4, EndStream, ErrorStream DEF ToolCalls!Next
    <2> QED
      BY <1>2, <2>1, <2>2, <2>3, <2>4 DEF Next
  <1>3. TakenInv /\ [Next]_vars => TakenInv'
    BY <1>2, TInvStep, FlagStep DEF TakenInv
  <1>4. Init => TakenInv
    BY <1>1, TInvInit, FlagInit DEF TakenInv
  <1> QED
    BY <1>1, <1>2, <1>3, <1>4, PTL DEF Spec, ImplementsToolStream, ToolCalls!Spec
===============================================================================
