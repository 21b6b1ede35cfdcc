---------------------------- MODULE AguiTranslate -----------------------------
(***************************************************************************)
(* translate_stream (backend/agui_translate.py): from the events of one    *)
(* harness stream to the events of a chat run and one outcome.             *)
(*                                                                         *)
(* The harness is outside the repository.  It is modelled by the grammar   *)
(* that the translator's docstring describes: assistant messages of text   *)
(* and toolUse blocks; after a message whose calls the harness can all run *)
(* itself, a user message with their results; the end of the stream after  *)
(* any other message, or an error anywhere.  The blocks of an assistant    *)
(* message are numbered from 0 (agui_translate.py:17); what contentBlock-  *)
(* Index the harness gives a toolResult, that of its call or one of the    *)
(* user message's own, nothing in the repository tells, and here it may be *)
(* any.  Each action is one event and the branch of the loop that handles  *)
(* it; a second delta of a block and the token counts change nothing that  *)
(* is kept here.                                                           *)
(***************************************************************************)
EXTENDS Integers, Sequences

CONSTANTS
  MaxMessages,  \* bound: messages in the stream
  MaxBlocks,    \* bound: content blocks in a message
  Text,         \* a text block
  None          \* no call

Index == 0..(MaxBlocks - 1)
Name == {"code_interpreter", "gateway", "inline"}
ResultIndex == 0..MaxBlocks  \* the last is one that no call has
Call == [message : 1..MaxMessages, idx : Index, name : Name]

ASSUME BoundsAssumption == MaxMessages \in Nat /\ MaxBlocks \in Nat
ASSUME BlocksAssumption == Text \notin Call /\ None \notin Call

VARIABLES
  turn,           \* harness: whose message is being sent or comes next
  speaking,       \* harness: inside a message
  message,        \* harness: number of the message
  blocks,         \* harness: the blocks of the last message: texts and calls,
                  \* or the calls whose results it carries
  open,           \* harness: the last block has not stopped
  due,            \* harness: calls without a result, once their message stopped
  stopReason,     \* stop_reason
  currentTools,   \* current_message_tools
  callIds,        \* tool_call_ids_by_index
  textOpen,       \* text_message_id is not None
  codeDone,       \* code_interpreter_completed
  outcome,        \* of the dict yielded last
  started, ended, \* calls with a TOOL_CALL_START, with a TOOL_CALL_END
  results,        \* calls whose result came
  strayed,        \* those of them whose result came at another index than the call
  credited        \* those of them whose result was taken for theirs

stream == <<turn, speaking, message, blocks, open, due>>
tools == <<currentTools, callIds>>
events == <<started, ended, results, strayed, credited>>
vars == <<stream, stopReason, tools, textOpen, codeDone, outcome, events>>

TypeOK ==
  /\ turn \in {"assistant", "user", "end"} /\ speaking \in BOOLEAN
  /\ message \in 0..MaxMessages
  /\ blocks \in Seq(Call \cup {Text})
  /\ open \in BOOLEAN /\ due \subseteq Call
  /\ stopReason \in {"none", "tool_use", "end_turn", "max_tokens"}
  /\ currentTools \in [Index -> Call \cup {None}]
  /\ callIds \in [Index -> Call \cup {None}]
  /\ textOpen \in BOOLEAN /\ codeDone \in BOOLEAN
  /\ outcome \in {"none", "finished", "pending_tools", "error"}
  /\ started \subseteq Call /\ ended \subseteq Call
  /\ results \subseteq Call /\ strayed \subseteq Call /\ credited \subseteq Call

NoTools == [k \in Index |-> None]

Init ==
  /\ turn = "assistant" /\ speaking = FALSE /\ message = 0
  /\ blocks = <<>> /\ open = FALSE /\ due = {}
  /\ stopReason = "none" /\ currentTools = NoTools /\ callIds = NoTools
  /\ textOpen = FALSE /\ codeDone = FALSE /\ outcome = "none"
  /\ started = {} /\ ended = {}
  /\ results = {} /\ strayed = {} /\ credited = {}

-----------------------------------------------------------------------------
\* Mutant: the tools of the message before stay.
ToolsOfMessageBefore == currentTools

ToolsOfNewMessage == NoTools

MessageStart ==
  /\ outcome = "none" /\ ~speaking
  /\ turn \in {"assistant", "user"} /\ message < MaxMessages
  /\ speaking' = TRUE /\ message' = message + 1 /\ blocks' = <<>>
  /\ currentTools' = ToolsOfNewMessage
  /\ UNCHANGED <<turn, open, due, stopReason, callIds, textOpen, codeDone, outcome, events>>

\* A block of the assistant begins.
NewBlock(b) ==
  /\ outcome = "none" /\ speaking /\ turn = "assistant"
  /\ ~open /\ Len(blocks) < MaxBlocks
  /\ blocks' = Append(blocks, b) /\ open' = TRUE
  /\ UNCHANGED <<turn, speaking, message, due>>

\* The first delta of a text block, which has no start of its own.
TextDelta ==
  /\ NewBlock(Text)
  /\ textOpen' = TRUE
  /\ UNCHANGED <<stopReason, tools, codeDone, outcome, events>>

\* Mutant: a call counts from its start.
FlagOnceCalled(name) == codeDone \/ name = "code_interpreter"

FlagOfStart(name) == codeDone

ToolUseStart(name) ==
  LET k == Len(blocks)
      c == [message |-> message, idx |-> k, name |-> name]
  IN  /\ NewBlock(c)
      /\ currentTools' = [currentTools EXCEPT ![k] = c]
      /\ callIds' = [callIds EXCEPT ![k] = c]
      /\ codeDone' = FlagOfStart(name)
      /\ started' = started \cup {c}
      /\ UNCHANGED <<stopReason, textOpen, outcome, ended, results, strayed, credited>>

\* Mutant: looked up in the message the result is in.
CreditedToMessage(k) == IF k \in Index THEN currentTools[k] ELSE None

CreditedTo(k) == IF k \in Index THEN callIds[k] ELSE None

\* A result that the harness got itself, in any order and at any index.
ToolResultDelta(c, k) ==
  LET to == CreditedTo(k)
  IN  /\ outcome = "none" /\ speaking /\ turn = "user" /\ ~open
      /\ c \in due
      /\ blocks' = Append(blocks, c) /\ open' = TRUE /\ due' = due \ {c}
      /\ codeDone' = (codeDone \/ (to # None /\ to.name = "code_interpreter"))
      /\ results' = results \cup {c}
      /\ strayed' = IF k = c.idx THEN strayed ELSE strayed \cup {c}
      /\ credited' = IF to = c THEN credited \cup {c} ELSE credited
      /\ UNCHANGED <<turn, speaking, message, stopReason, tools, textOpen, outcome, started, ended>>

\* Mutant: every block is taken for a tool's.
StopsAlways(k) == k \in Index

StopsTool(k) == k \in Index /\ currentTools[k] # None

OpenIndex == IF turn = "user" THEN ResultIndex ELSE {Len(blocks) - 1}

ContentBlockStop ==
  \E k \in OpenIndex :
      /\ outcome = "none" /\ open
      /\ open' = FALSE
      /\ \/ StopsTool(k) /\ ended' = ended \cup {currentTools[k]} /\ UNCHANGED textOpen
         \/ ~StopsTool(k) /\ textOpen' = FALSE /\ UNCHANGED ended
      /\ UNCHANGED <<turn, speaking, message, blocks, due, stopReason, tools, codeDone, outcome,
                     started, results, strayed, credited>>

CallsOf(bs) == {bs[k] : k \in DOMAIN bs} \ {Text}

\* After a tool_use the harness runs the calls, unless one is an inline
\* function: then it leaves them all, and the stream ends.
AssistantStop(reason) ==
  LET calls == CallsOf(blocks)
  IN  /\ turn = "assistant" /\ blocks # <<>>
      /\ reason = "tool_use" => calls # {}
      /\ reason = "end_turn" => calls = {}
      /\ \/ /\ reason = "tool_use" /\ \A c \in calls : c.name # "inline"
            /\ turn' = "user"
         \/ /\ reason # "tool_use" \/ \E c \in calls : c.name = "inline"
            /\ turn' = "end"
      /\ due' = IF reason = "tool_use" THEN calls ELSE {}

UserStop == turn = "user" /\ due = {} /\ turn' = "assistant" /\ UNCHANGED due

MessageStop(reason) ==
  /\ outcome = "none" /\ speaking /\ ~open
  /\ AssistantStop(reason) \/ UserStop
  /\ speaking' = FALSE /\ stopReason' = reason
  /\ UNCHANGED <<message, blocks, open, tools, textOpen, codeDone, outcome, events>>

RuntimeClientError ==
  /\ outcome = "none"
  /\ outcome' = "error"
  /\ UNCHANGED <<stream, stopReason, tools, textOpen, codeDone, events>>

Pending == {currentTools[k] : k \in Index} \ {None}

LeavesTools == stopReason = "tool_use" /\ Pending # {}

StreamEnd ==
  /\ outcome = "none" /\ ~speaking /\ turn = "end"
  /\ textOpen' = FALSE
  /\ outcome' = IF LeavesTools THEN "pending_tools" ELSE "finished"
  /\ UNCHANGED <<stream, stopReason, tools, codeDone, events>>

Next ==
  \/ MessageStart \/ TextDelta \/ (\E n \in Name : ToolUseStart(n))
  \/ (\E c \in due, k \in ResultIndex : ToolResultDelta(c, k)) \/ ContentBlockStop
  \/ (\E reason \in {"tool_use", "end_turn", "max_tokens"} : MessageStop(reason))
  \/ RuntimeClientError \/ StreamEnd

Spec == Init /\ [][Next]_vars

-----------------------------------------------------------------------------
\* What is reported pending is what the agent waits for: the calls of the last
\* message, the ones the harness would have run itself included, and none that
\* has its result; and nothing waits behind a stream reported finished.
PendingIsWaiting ==
  /\ outcome = "pending_tools" => Pending = due
  /\ outcome = "finished" => due = {}

\* A result that comes at the index of its call is taken for that call's, whatever
\* other results came astray: callIds outlives the message it was filled from, and
\* no later call has taken the index.  Of a result that comes at another index it
\* says nothing.
ResultsReachTheirCall == results \ strayed \subseteq credited

\* The client sees a call or a text open exactly while the harness sends it, and
\* nothing is left open when the stream ends without an error.
EventsNest ==
  LET last == blocks[Len(blocks)]
      sending == IF open /\ turn = "assistant" THEN {last} ELSE {}
  IN  /\ outcome \in {"none", "error"} =>
           /\ started \ ended = sending \ {Text}
           /\ textOpen <=> Text \in sending
      /\ outcome \in {"finished", "pending_tools"} => started = ended /\ ~textOpen

\* The gate is never told that code ran in a stream in which it did not: wherever
\* the harness puts its results, a stream that ends with the flag set had a result
\* of the code interpreter.  (That a stream with such a result ends with the flag
\* set follows from ResultsReachTheirCall if the result did not stray, and need not
\* be so if it did.)
FlagIsTrue ==
  outcome \in {"finished", "pending_tools"} /\ codeDone =>
    \E c \in results : c.name = "code_interpreter"

\* The events of a stream, and what is kept of them, implement a stream of tool
\* calls: what a chat run takes as one step, its batch is what the agent waits for
\* and its flag says nothing untrue, whatever the events came in and at whatever
\* index.
ToolCalls == INSTANCE ToolStream WITH
  Inline  <- {c \in Call : c.name = "inline"},
  Code    <- {c \in Call : c.name = "code_interpreter"},
  awaited <- due,
  ran     <- \E c \in results : c.name = "code_interpreter",
  pending <- IF outcome = "pending_tools" THEN Pending ELSE {},
  told    <- outcome \in {"finished", "pending_tools"} /\ codeDone

ImplementsToolStream == ToolCalls!Spec
===============================================================================
