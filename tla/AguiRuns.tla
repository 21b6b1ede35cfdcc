------------------------------ MODULE AguiRuns -------------------------------
(***************************************************************************)
(* Chat runs in the backend (backend/main.py): a request of /agui starts a *)
(* run or resumes a paused one, drains one harness stream after another,   *)
(* answers the inline functions it can and pauses on the one a broker must *)
(* answer.  Requests run concurrently and share two dictionaries keyed by  *)
(* run; they end, or an exception, a client that goes away or a restart of *)
(* the backend cuts them short.                                            *)
(*                                                                         *)
(* A stream is one step here: how its events become an outcome is the      *)
(* business of agui_translate.py.  The harness is outside the repository:  *)
(* a stream may end in any way the translator knows.                       *)
(***************************************************************************)
EXTENDS Integers, Sequences, FiniteSets

CONSTANTS
  Run,         \* run ids, fresh for each turn
  Request,     \* requests of /agui
  Batch,       \* what a stream may leave pending: sequences of tool names
  MaxStreams,  \* bound: harness streams of one run
  Faults,      \* whether requests are cut short and the backend restarts
  None         \* no paused entry

AutoNames == {"credentials", "submit", "malformed"}   \* answered by the backend itself
Name == AutoNames \cup {"confirm", "other"}           \* "other": run by the harness itself

ASSUME BatchAssumption == Batch \subseteq Seq(Name) \ {<<>>}
ASSUME StreamsAssumption == MaxStreams \in Nat
ASSUME CutAssumption == Faults \in BOOLEAN

VARIABLES
  pausedRuns,  \* _paused_runs: the call each paused run waits for
  codeRuns,    \* _code_interpreter_completed_runs
  request,     \* the requests
  sent,        \* the terminal events each request has sent
  streams,     \* harness streams opened for each run
  answers,     \* history: which stream each answer to a call went into
  ranCode,     \* history: runs whose code interpreter completed
  verdicts     \* history: what each submit_underwriting_result was told

dicts == <<pausedRuns, codeRuns>>
harness == <<streams, answers>>
vars == <<dicts, request, sent, harness, ranCode, verdicts>>

\* A toolUse block, by its place.
ToolUse == [run : Run, stream : 1..MaxStreams, pos : Nat, name : Name]

ASSUME NoneAssumption == None \notin ToolUse

Idle == [pc |-> "idle"]

RequestState ==
  [pc : {"answer", "drain", "ask", "pop", "done", "cut"},
   run : Run, retries : 0..1, call : ToolUse \cup {None}]

TypeOK ==
  /\ pausedRuns \in [Run -> ToolUse \cup {None}]
  /\ codeRuns \subseteq Run
  /\ request \in [Request -> RequestState \cup {Idle}]
  /\ sent \in [Request -> Seq({"finished", "interrupt", "unknown", "error"})]
  /\ streams \in [Run -> 0..MaxStreams]
  /\ answers \subseteq [call : ToolUse, stream : 1..MaxStreams]
  /\ ranCode \subseteq Run
  /\ verdicts \subseteq [call : ToolUse, accepted : BOOLEAN, ran : BOOLEAN]

Init ==
  /\ pausedRuns = [r \in Run |-> None]
  /\ codeRuns = {}
  /\ request = [q \in Request |-> Idle]
  /\ sent = [q \in Request |-> <<>>]
  /\ streams = [r \in Run |-> 0]
  /\ answers = {} /\ ranCode = {} /\ verdicts = {}

-----------------------------------------------------------------------------
Send(q, events) == sent' = [sent EXCEPT ![q] = @ \o events]

Goto(q, pc) == request' = [request EXCEPT ![q].pc = pc]

\* harness_client: a new stream for the run, with a message that answers calls.
OpenStream(r, calls) ==
  /\ streams[r] < MaxStreams
  /\ streams' = [streams EXCEPT ![r] = @ + 1]
  /\ answers' = answers \cup {[call |-> c, stream |-> streams'[r]] : c \in calls}

Begin(q, r, pc, call) ==
  request' = [request EXCEPT ![q] =
    [pc |-> pc, run |-> r, retries |-> 1, call |-> call]]

\* /agui with a message: the client draws a new run id for each.
Turn(q, r) ==
  /\ request[q] = Idle
  /\ streams[r] = 0
  /\ OpenStream(r, {})
  /\ Begin(q, r, "drain", None)
  /\ UNCHANGED <<dicts, sent, ranCode, verdicts>>

\* Mutant: _paused_runs.get.
KeepPaused(r) == UNCHANGED pausedRuns

\* _paused_runs.pop
TakePaused(r) == pausedRuns' = [pausedRuns EXCEPT ![r] = None]

\* /agui with a resume: of any run, whether or not the client was asked about it
\* and however often it has answered.
Resume(q, r) ==
  /\ request[q] = Idle
  /\ \/ /\ pausedRuns[r] = None
        /\ Begin(q, r, "done", None)
        /\ Send(q, <<"unknown">>)
        /\ UNCHANGED pausedRuns
     \/ /\ pausedRuns[r] # None
        /\ Begin(q, r, "answer", pausedRuns[r])
        /\ TakePaused(r)
        /\ UNCHANGED sent
  /\ UNCHANGED <<codeRuns, harness, ranCode, verdicts>>

\* The token was minted, or the change declined: either way the agent is told.
Answer(q) ==
  /\ request[q].pc = "answer"
  /\ OpenStream(request[q].run, {request[q].call})
  /\ Goto(q, "drain")
  /\ UNCHANGED <<dicts, sent, ranCode, verdicts>>

-----------------------------------------------------------------------------
\* _drain_and_resolve: one action for each outcome of translate_stream.
Ran(q, code) == IF code THEN {request[q].run} ELSE {}

\* Mutant: each stream starts without the flag.
FlagOfStream(q, code) == (codeRuns \ {request[q].run}) \cup Ran(q, code)

Flagged(q, code) == codeRuns \cup Ran(q, code)

\* Mutant: the flag stays.
KeepFlag(q) == UNCHANGED codeRuns

DropFlag(q) == codeRuns' = codeRuns \ {request[q].run}

\* Mutant: the run is reported finished as well.
ErrorAndFinished == <<"error", "finished">>

ErrorEvents == <<"error">>

StreamError(q) ==
  /\ request[q].pc = "drain"
  /\ Send(q, ErrorEvents)
  /\ DropFlag(q)
  /\ Goto(q, "done")
  /\ UNCHANGED <<pausedRuns, harness, ranCode, verdicts>>

\* Figures in prose, in a run whose code interpreter never completed.
Unverified(q, code, figures) == figures /\ request[q].run \notin Flagged(q, code)

\* One corrective retry.
Corrects(q, code, figures) == Unverified(q, code, figures) /\ request[q].retries > 0

StreamFinished(q, code, figures) ==
  LET r == request[q].run
      correct == Corrects(q, code, figures)
  IN  /\ request[q].pc = "drain"
      /\ codeRuns' = Flagged(q, code)
      /\ ranCode' = ranCode \cup Ran(q, code)
      /\ \/ /\ correct
            /\ OpenStream(r, {})
            /\ request' = [request EXCEPT ![q].retries = @ - 1]
            /\ UNCHANGED sent
         \/ /\ ~correct
            /\ Send(q, <<"finished">>)
            /\ Goto(q, "pop")
            /\ UNCHANGED harness
      /\ UNCHANGED <<pausedRuns, verdicts>>

\* After the RUN_FINISHED event, which the client may not live to read.
PopFlag(q) ==
  /\ request[q].pc = "pop"
  /\ DropFlag(q)
  /\ Goto(q, "done")
  /\ UNCHANGED <<pausedRuns, sent, harness, ranCode, verdicts>>

Calls(r, b) ==
  {[run |-> r, stream |-> streams[r], pos |-> k, name |-> b[k]] : k \in DOMAIN b}

AutoCalls(calls) == {c \in calls : c.name \in AutoNames}

FirstCall(calls) == CHOOSE c \in calls : \A d \in calls : c.pos <= d.pos

\* Mutant: a mixed batch pauses too.
PausesMixed(calls) == calls \ AutoCalls(calls) # {}

Pauses(calls) == AutoCalls(calls) = {}

\* The gate on submit_underwriting_result.
Verdict(c, flagged, ran) ==
  [call |-> c, accepted |-> c.name = "submit" /\ c.run \in flagged, ran |-> c.run \in ran]

StreamPending(q, code, b) ==
  LET r == request[q].run
      calls == Calls(r, b)
      auto == AutoCalls(calls)
      first == FirstCall(calls \ auto)
  IN  /\ request[q].pc = "drain"
      /\ streams[r] < MaxStreams
      /\ codeRuns' = Flagged(q, code)
      /\ ranCode' = ranCode \cup Ran(q, code)
      /\ verdicts' = verdicts \cup {Verdict(c, codeRuns', ranCode') :
                                      c \in {c \in auto : c.name # "credentials"}}
      /\ pausedRuns' = IF Pauses(calls) THEN [pausedRuns EXCEPT ![r] = first] ELSE pausedRuns
      /\ \/ /\ auto # {}
            /\ OpenStream(r, auto)
            /\ UNCHANGED request
         \/ /\ auto = {}
            /\ request' = [request EXCEPT ![q].pc = "ask", ![q].call = first]
            /\ UNCHANGED harness
      /\ UNCHANGED sent

\* The question is worded from the prices of confirm_listing_change; any other
\* call has none, and formatting None raises.
Ask(q) ==
  /\ request[q].pc = "ask"
  /\ \/ request[q].call.name = "confirm" /\ Send(q, <<"interrupt">>) /\ Goto(q, "done")
     \/ request[q].call.name # "confirm" /\ Goto(q, "cut") /\ UNCHANGED sent
  /\ UNCHANGED <<dicts, harness, ranCode, verdicts>>

-----------------------------------------------------------------------------
InProgress(q) == request[q].pc \in {"answer", "drain", "ask", "pop"}

\* An exception in a call, or a client that closed the connection.
Cut(q) ==
  /\ Faults /\ InProgress(q)
  /\ Goto(q, "cut")
  /\ UNCHANGED <<dicts, sent, harness, ranCode, verdicts>>

\* Both dictionaries are in memory.
Restart ==
  /\ Faults
  /\ pausedRuns' = [r \in Run |-> None]
  /\ codeRuns' = {}
  /\ request' = [q \in Request |->
       IF InProgress(q) THEN [request[q] EXCEPT !.pc = "cut"] ELSE request[q]]
  /\ UNCHANGED <<sent, harness, ranCode, verdicts>>

Step(q) ==
  \/ Answer(q) \/ StreamError(q) \/ PopFlag(q) \/ Ask(q)
  \/ \E code \in BOOLEAN : \/ \E figures \in BOOLEAN : StreamFinished(q, code, figures)
                          \/ \E b \in Batch : StreamPending(q, code, b)

Next ==
  \/ \E q \in Request : \/ \E r \in Run : Turn(q, r) \/ Resume(q, r)
                        \/ Step(q) \/ Cut(q)
  \/ Restart

Spec == Init /\ [][Next]_vars

-----------------------------------------------------------------------------
\* _paused_runs.pop hands an answer on once: however often a client repeats its
\* resume, and whatever else is answered, no call gets two answers.
AnsweredOnce == \A a, b \in answers : a.call = b.call => a = b

\* A comparison is accepted if and only if some stream of its run has reported a
\* completed code interpreter, this one or an earlier one (main.py:53-62).  The
\* comment at the gate itself and the error that the model is sent are narrower,
\* "earlier in THIS SAME stream" and "this turn" (main.py:189-191, 203-205); what
\* the code does is the former.
GateIsExact ==
  \A v \in verdicts : v.call.name = "submit" => (v.accepted <=> v.ran)

\* A client that reads to the end sees one terminal event, and a stream that is
\* cut short never had more.
OneTerminal ==
  \A q \in Request :
    /\ Len(sent[q]) <= 1
    /\ request[q].pc \in {"pop", "done"} => Len(sent[q]) = 1

\* "Popped when the run truly finishes to avoid unbounded growth": a flag
\* belongs to a run that is in progress or paused, or one that was cut short.
FlagsBounded ==
  \A r \in codeRuns :
    \/ pausedRuns[r] # None
    \/ \E q \in Request : request[q].pc \notin {"idle", "done"} /\ request[q].run = r

\* A paused run is one whose broker has been asked for the very call the run
\* waits for, or is about to be, or would have been but for a fault: the answer
\* goes where the question came from.
PausedIsAsked ==
  \A r \in Run : pausedRuns[r] # None =>
    \E q \in Request : /\ request[q] # Idle /\ request[q].call = pausedRuns[r]
                       /\ request[q].pc \in {"ask", "cut"} \/ sent[q] = <<"interrupt">>

\* Requests, dictionaries and harness implement chat runs: a run is at work while
\* a request drains its stream, and a call waits while it is in _paused_runs or
\* held by the request that took it from there.
Left(r, n, b) == {[run |-> r, stream |-> n, pos |-> k, name |-> b[k]] : k \in DOMAIN b}
Made == UNION {Left(r, n, b) : r \in Run, n \in 1..MaxStreams, b \in Batch}

Working == {request[q].run : q \in {q \in Request : request[q].pc = "drain"}}

Waiting ==
  {pausedRuns[r] : r \in {r \in Run : pausedRuns[r] # None}}
    \cup {request[q].call : q \in {q \in Request : request[q].pc = "answer"}}

Judgements == {[call |-> v.call, accepted |-> v.accepted] : v \in verdicts}

Chat == INSTANCE ChatRun WITH
  Call     <- Made,
  Auto     <- AutoNames,
  Judged   <- AutoNames \ {"credentials"},
  working  <- Working,
  waiting  <- Waiting,
  ran      <- ranCode,
  verdicts <- Judgements

ImplementsChat == Chat!Spec
==============================================================================
