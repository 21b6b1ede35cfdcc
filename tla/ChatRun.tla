------------------------------- MODULE ChatRun -------------------------------
(***************************************************************************)
(* What a chat run promises to the agent and to the broker, with no        *)
(* request, dictionary or event in sight.  A run is at work, or it waits   *)
(* for the broker's answer to one call, or it is over.  It opens one       *)
(* stream after another; a call is answered only when the next stream      *)
(* opens, and never again, and a run that waits goes on only with the      *)
(* answer it waits for.  A submitted comparison is accepted if and only if *)
(* code has run in its run by then.  Whatever is at work or waits may be   *)
(* lost at any time.                                                       *)
(*                                                                         *)
(* AguiRuns is shown to implement this module.                             *)
(***************************************************************************)
EXTENDS Naturals

CONSTANTS Run,
  Call,      \* tool calls: run, stream, pos and name
  Auto,      \* names of the tools that are answered without the broker
  Judged     \* those of Auto whose answer is a verdict on what was submitted

VARIABLES
  working,   \* runs that are at work
  waiting,   \* calls that wait for the broker
  streams,   \* streams opened for each run
  answers,   \* which stream each answer to a call went into
  ran,       \* runs in which code has run
  verdicts   \* the verdicts given

vars == <<working, waiting, streams, answers, ran, verdicts>>

Init ==
  /\ working = {} /\ waiting = {}
  /\ streams = [r \in Run |-> 0]
  /\ answers = {} /\ ran = {} /\ verdicts = {}

OpenStream(r, calls) ==
  /\ streams' = [streams EXCEPT ![r] = @ + 1]
  /\ answers' = answers \cup {[call |-> c, stream |-> streams[r] + 1] : c \in calls}

\* The calls of the last stream of a run: for the run itself, or for the broker.
LastCalls(r) == {c \in Call : c.run = r /\ c.stream = streams[r]}
OwnCalls(r) == {c \in LastCalls(r) : c.name \in Auto}

Start(r) ==
  /\ streams[r] = 0
  /\ working' = working \cup {r}
  /\ OpenStream(r, {})
  /\ UNCHANGED <<waiting, ran, verdicts>>

\* A stream ends, code having run in it or not.
Code(r, code) == ran' = ran \cup IF code THEN {r} ELSE {}

Judge(calls) ==
  verdicts' = verdicts \cup
    {[call |-> c, accepted |-> c.name = "submit" /\ c.run \in ran'] :
       c \in {c \in calls : c.name \in Judged}}

\* The run answers calls of that stream itself, or has none to answer, and
\* goes on.
Continue(r, code, calls) ==
  /\ Code(r, code) /\ Judge(calls)
  /\ OpenStream(r, calls)
  /\ UNCHANGED <<working, waiting>>

\* It puts one call of that stream to the broker.
Ask(r, code, c) ==
  /\ Code(r, code)
  /\ working' = working \ {r}
  /\ waiting' = waiting \cup {c}
  /\ UNCHANGED <<streams, answers, verdicts>>

\* It is done.
Finish(r, code) ==
  /\ Code(r, code)
  /\ working' = working \ {r}
  /\ UNCHANGED <<waiting, streams, answers, verdicts>>

\* The broker's answer.
Answer(c) ==
  /\ waiting' = waiting \ {c}
  /\ working' = working \cup {c.run}
  /\ OpenStream(c.run, {c})
  /\ UNCHANGED <<ran, verdicts>>

\* A failure, a client that goes away, a restart.
Lose ==
  /\ working' \subseteq working /\ waiting' \subseteq waiting
  /\ UNCHANGED <<streams, answers, ran, verdicts>>

Next ==
  \/ \E r \in Run : Start(r)
  \/ \E r \in working, code \in BOOLEAN :
       \/ Finish(r, code)
       \/ \E c \in LastCalls(r) \ OwnCalls(r) : Ask(r, code, c)
       \/ \E calls \in SUBSET OwnCalls(r) : Continue(r, code, calls)
  \/ \E c \in waiting : Answer(c)
  \/ Lose

Spec == Init /\ [][Next]_vars
==============================================================================
