--------------------------- MODULE AguiRuns_proofs ----------------------------
(***************************************************************************)
(* Theorems about AguiRuns, for any number of runs, requests and streams   *)
(* and any batches, with and without faults.                               *)
(***************************************************************************)
EXTENDS AguiRuns, TLAPS

USE BatchAssumption, StreamsAssumption, CutAssumption, NoneAssumption

-----------------------------------------------------------------------------
\* A request that works on its run: it alone may open streams or touch the flag.
Works(q) == request[q].pc \in {"answer", "drain", "pop"}

\* Nobody works on a paused run, and two requests never work on one run.
OneWorker ==
  /\ \A q, p \in Request : Works(q) /\ Works(p) /\ request[q].run = request[p].run => q = p
  /\ \A q \in Request : Works(q) => pausedRuns[request[q].run] = None

\* A request that goes on, or was cut short, is of a run that has a stream.
Begun(q) == request[q].pc \notin {"idle", "done"}

Started == \A q \in Request : Begun(q) => streams[request[q].run] >= 1

\* A call that waits for its answer was made in the last stream of its run.
LastCall(r, c) == c \in ToolUse /\ c.run = r /\ c.stream = streams[r]

Waits ==
  /\ \A r \in Run : pausedRuns[r] # None => LastCall(r, pausedRuns[r])
  /\ \A q \in Request :
       request[q].pc = "answer" => LastCall(request[q].run, request[q].call)

TInv == TypeOK /\ OneWorker /\ Started /\ Waits

LEMMA TInvInit == Init => TInv
  BY DEF Init, TInv, TypeOK, OneWorker, Started, Begun, Waits, Works, Idle

\* What opening a stream does.
LEMMA OpenStreamType ==
  ASSUME TypeOK, NEW r \in Run, NEW calls \in SUBSET ToolUse, OpenStream(r, calls)
  PROVE  /\ streams' \in [Run -> 0..MaxStreams]
         /\ streams'[r] = streams[r] + 1 /\ streams'[r] \in 1..MaxStreams
         /\ \A s \in Run : s # r => streams'[s] = streams[s]
         /\ answers' \subseteq [call : ToolUse, stream : 1..MaxStreams]
  BY DEF OpenStream, TypeOK

LEMMA RequestTypes ==
  ASSUME TypeOK, NEW q \in Request
  PROVE  /\ request[q] # Idle => request[q] \in RequestState /\ request[q].run \in Run
         /\ request[q].pc # "idle" => request[q] # Idle
  BY DEF TypeOK, Idle, RequestState

LEMMA StepTurn ==
  ASSUME TInv, NEW q \in Request, NEW r \in Run, Turn(q, r)
  PROVE  TInv'
  <1>1. /\ streams' \in [Run -> 0..MaxStreams]
        /\ streams'[r] = 1 /\ \A s \in Run : s # r => streams'[s] = streams[s]
        /\ answers' \subseteq [call : ToolUse, stream : 1..MaxStreams]
    BY OpenStreamType DEF Turn, TInv, TypeOK
  <1>2. /\ request' \in [Request -> RequestState \cup {Idle}]
        /\ request'[q].pc = "drain" /\ request'[q].run = r
        /\ \A p \in Request : p # q => request'[p] = request[p]
    BY DEF Turn, Begin, TInv, TypeOK, RequestState
  <1>3. \A p \in Request : p # q => ~Begun(p) \/ request[p].run # r
    BY DEF Turn, TInv, Started, Begun
  <1>4. pausedRuns[r] = None
    BY DEF Turn, TInv, Waits, LastCall, ToolUse
  <1>5. TypeOK'
    BY <1>1, <1>2 DEF Turn, dicts, TInv, TypeOK
  <1>6. OneWorker'
    BY <1>2, <1>3, <1>4 DEF Turn, dicts, OneWorker, Works, Begun, TInv, Idle
  <1>7. Started'
    <2>1. \A p \in Request : Begun(p)' => p = q \/ (Begun(p) /\ request'[p] = request[p])
      BY <1>2 DEF Begun
    <2> QED
      BY <1>1, <1>2, <1>3, <2>1, RequestTypes DEF Started, Begun, TInv
  <1>8. Waits'
    <2>1. \A s \in Run : pausedRuns'[s] # None => s # r /\ LastCall(s, pausedRuns[s])
      BY <1>4 DEF Turn, dicts, TInv, Waits
    <2>2. \A p \in Request : request'[p].pc = "answer" =>
            /\ request'[p] = request[p] /\ request[p].run \in Run /\ request[p].run # r
            /\ LastCall(request[p].run, request[p].call)
      BY <1>2, <1>3, RequestTypes DEF TInv, Waits, Begun
    <2> QED
      BY <1>1, <2>1, <2>2 DEF Turn, dicts, Waits, LastCall
  <1> QED
    BY <1>5, <1>6, <1>7, <1>8 DEF TInv

\* A request takes a step, and nothing that its run shares changes.
LEMMA AloneStep ==
  ASSUME TInv, NEW q \in Request, Begun(q), request'[q] \in RequestState,
         request'[q].run = request[q].run, request'[q].pc # "answer",
         Works(q)' => Works(q),
         \A p \in Request : p # q => request'[p] = request[p],
         UNCHANGED <<pausedRuns, streams>>
  PROVE  OneWorker' /\ Started' /\ Waits'
  <1>1. OneWorker'
    BY DEF TInv, OneWorker, Works
  <1>2. Started'
    BY DEF TInv, Started, Begun, TypeOK
  <1>3. Waits'
    BY DEF TInv, Waits, LastCall
  <1> QED
    BY <1>1, <1>2, <1>3

\* A request opens the next stream of its run.
LEMMA NextStream ==
  ASSUME TInv, NEW q \in Request, Works(q), request'[q] \in RequestState,
         request'[q].run = request[q].run, request'[q].pc = "drain",
         \A p \in Request : p # q => request'[p] = request[p],
         NEW calls \in SUBSET ToolUse, OpenStream(request[q].run, calls), UNCHANGED pausedRuns
  PROVE  OneWorker' /\ Started' /\ Waits'
  <1>0. request[q] # Idle /\ request[q].run \in Run
    BY RequestTypes DEF TInv, Works
  <1>1. /\ streams'[request[q].run] = streams[request[q].run] + 1
        /\ \A s \in Run : s # request[q].run => streams'[s] = streams[s]
        /\ \A s \in Run : streams[s] \in Nat
    BY <1>0, OpenStreamType DEF TInv, TypeOK
  <1>2. OneWorker'
    BY DEF TInv, OneWorker, Works
  <1>3. Started'
    <2>1. \A p \in Request : p # q /\ Begun(p)' => Begun(p) /\ request'[p] = request[p]
      BY DEF Begun
    <2> QED
      BY <1>0, <1>1, <2>1, RequestTypes DEF TInv, Started, Begun
  <1>4. Waits'
    <2>1. \A s \in Run : pausedRuns[s] # None => s # request[q].run
      BY DEF TInv, OneWorker
    <2>2. \A p \in Request : request'[p].pc = "answer" =>
            /\ request'[p] = request[p] /\ request[p].run # request[q].run
            /\ request[p].run \in Run
      BY RequestTypes DEF TInv, OneWorker, Works
    <2> QED
      BY <1>1, <2>1, <2>2 DEF TInv, Waits, LastCall
  <1> QED
    BY <1>2, <1>3, <1>4

LEMMA GotoMoves ==
  ASSUME TypeOK, NEW q \in Request, request[q] # Idle,
         NEW pc \in {"answer", "drain", "ask", "pop", "done", "cut"}, Goto(q, pc)
  PROVE  /\ request' \in [Request -> RequestState \cup {Idle}]
         /\ request'[q] \in RequestState /\ request'[q].pc = pc
         /\ request'[q].run = request[q].run /\ request'[q].call = request[q].call
         /\ \A p \in Request : p # q => request'[p] = request[p]
  BY DEF Goto, TypeOK, RequestState

LEMMA SendType ==
  ASSUME TypeOK, NEW q \in Request,
         NEW events \in Seq({"finished", "interrupt", "unknown", "error"}), Send(q, events)
  PROVE  sent' \in [Request -> Seq({"finished", "interrupt", "unknown", "error"})]
  BY DEF Send, TypeOK

LEMMA StepResume ==
  ASSUME TInv, NEW q \in Request, NEW r \in Run, Resume(q, r)
  PROVE  TInv'
  <1>0. request[q] = Idle /\ UNCHANGED <<codeRuns, streams, answers, ranCode, verdicts>>
    BY DEF Resume, harness
  <1>2. CASE Begin(q, r, "done", None) /\ Send(q, <<"unknown">>) /\ UNCHANGED pausedRuns
    <2>1. /\ request' \in [Request -> RequestState \cup {Idle}]
          /\ request'[q].pc = "done" /\ request'[q].run = r
          /\ \A p \in Request : p # q => request'[p] = request[p]
      BY <1>2 DEF Begin, TInv, TypeOK, RequestState
    <2>2. sent' \in [Request -> Seq({"finished", "interrupt", "unknown", "error"})]
      <3>1. <<"unknown">> \in Seq({"finished", "interrupt", "unknown", "error"})
        OBVIOUS
      <3> QED
        BY <1>2, <3>1, SendType DEF TInv
    <2>3. TypeOK'
      BY <1>0, <1>2, <2>1, <2>2 DEF TInv, TypeOK
    <2>4. OneWorker' /\ Started' /\ Waits'
      BY <1>0, <1>2, <2>1 DEF TInv, OneWorker, Works, Started, Begun, Waits, LastCall
    <2> QED
      BY <2>3, <2>4 DEF TInv
  <1>3. CASE /\ pausedRuns[r] # None /\ Begin(q, r, "answer", pausedRuns[r])
             /\ TakePaused(r) /\ UNCHANGED sent
    <2>0. pausedRuns[r] \in ToolUse /\ streams[r] >= 1
      BY <1>3 DEF TInv, TypeOK, Waits, LastCall, ToolUse
    <2>1. /\ request' \in [Request -> RequestState \cup {Idle}]
          /\ request'[q].pc = "answer" /\ request'[q].run = r
          /\ request'[q].call = pausedRuns[r]
          /\ \A p \in Request : p # q => request'[p] = request[p]
      BY <1>3, <2>0 DEF Begin, TInv, TypeOK, RequestState
    <2>2. /\ pausedRuns' \in [Run -> ToolUse \cup {None}] /\ pausedRuns'[r] = None
          /\ \A s \in Run : s # r => pausedRuns'[s] = pausedRuns[s]
      BY <1>3 DEF TakePaused, TInv, TypeOK
    <2>3. TypeOK'
      BY <1>0, <1>3, <2>1, <2>2 DEF TInv, TypeOK
    <2>4. OneWorker'
      BY <1>3, <2>1, <2>2, RequestTypes DEF TInv, OneWorker, Works
    <2>5. Started' /\ Waits'
      BY <1>0, <1>3, <2>0, <2>1, <2>2, RequestTypes DEF TInv, Started, Begun, Waits, LastCall
    <2> QED
      BY <2>3, <2>4, <2>5 DEF TInv
  <1> QED
    BY <1>2, <1>3 DEF Resume

LEMMA StepAnswer ==
  ASSUME TInv, NEW q \in Request, Answer(q)
  PROVE  TInv'
  <1>0. /\ Works(q) /\ request[q] # Idle /\ request[q].run \in Run
        /\ {request[q].call} \in SUBSET ToolUse /\ OpenStream(request[q].run, {request[q].call})
    BY RequestTypes DEF Answer, Works, TInv, Waits, LastCall
  <1>1. /\ request' \in [Request -> RequestState \cup {Idle}]
        /\ request'[q] \in RequestState /\ request'[q].pc = "drain"
        /\ request'[q].run = request[q].run
        /\ \A p \in Request : p # q => request'[p] = request[p]
    BY <1>0, GotoMoves DEF Answer, TInv
  <1>2. TypeOK'
    BY <1>0, <1>1, OpenStreamType DEF Answer, dicts, TInv, TypeOK
  <1>3. OneWorker' /\ Started' /\ Waits'
    BY <1>0, <1>1, NextStream DEF Answer, dicts
  <1> QED
    BY <1>2, <1>3 DEF TInv

LEMMA FlagTypes ==
  ASSUME TypeOK, NEW q \in Request, request[q].run \in Run, NEW code
  PROVE  Flagged(q, code) \subseteq Run /\ Ran(q, code) \subseteq Run
  BY DEF Flagged, Ran, TypeOK

LEMMA StepFinished ==
  ASSUME TInv, NEW q \in Request, NEW code \in BOOLEAN, NEW figures \in BOOLEAN,
         StreamFinished(q, code, figures)
  PROVE  TInv'
  <1>0. /\ request[q].pc = "drain" /\ Works(q) /\ request[q] # Idle
        /\ request[q] \in RequestState /\ request[q].run \in Run
        /\ codeRuns' \subseteq Run /\ ranCode' \subseteq Run /\ UNCHANGED <<pausedRuns, verdicts>>
    BY RequestTypes, FlagTypes DEF StreamFinished, Works, TInv, TypeOK
  <1>1. CASE /\ Corrects(q, code, figures) /\ OpenStream(request[q].run, {})
             /\ request' = [request EXCEPT ![q].retries = @ - 1] /\ UNCHANGED sent
    <2>1. request[q].retries - 1 \in 0..1
      BY <1>0, <1>1 DEF Corrects, RequestState
    <2>2. /\ request' \in [Request -> RequestState \cup {Idle}]
          /\ request'[q] \in RequestState /\ request'[q].pc = "drain"
          /\ request'[q].run = request[q].run
          /\ \A p \in Request : p # q => request'[p] = request[p]
      BY <1>0, <1>1, <2>1 DEF TInv, TypeOK, RequestState
    <2>3. TypeOK'
      BY <1>0, <1>1, <2>2, OpenStreamType DEF TInv, TypeOK
    <2>4. OneWorker' /\ Started' /\ Waits'
      <3>1. {} \in SUBSET ToolUse /\ UNCHANGED pausedRuns
        BY <1>0
      <3> QED
        BY <1>0, <1>1, <2>2, <3>1, NextStream
    <2> QED
      BY <2>3, <2>4 DEF TInv
  <1>2. CASE Send(q, <<"finished">>) /\ Goto(q, "pop") /\ UNCHANGED harness
    <2>1. /\ request' \in [Request -> RequestState \cup {Idle}]
          /\ request'[q] \in RequestState /\ request'[q].pc = "pop"
          /\ request'[q].run = request[q].run
          /\ \A p \in Request : p # q => request'[p] = request[p]
      BY <1>0, <1>2, GotoMoves DEF TInv
    <2>2. sent' \in [Request -> Seq({"finished", "interrupt", "unknown", "error"})]
      <3>1. <<"finished">> \in Seq({"finished", "interrupt", "unknown", "error"})
        OBVIOUS
      <3> QED
        BY <1>2, <3>1, SendType DEF TInv
    <2>3. TypeOK'
      BY <1>0, <1>2, <2>1, <2>2 DEF harness, TInv, TypeOK
    <2>4. OneWorker' /\ Started' /\ Waits'
      BY <1>0, <1>2, <2>1, AloneStep DEF harness, Works, Begun
    <2> QED
      BY <2>3, <2>4 DEF TInv
  <1> QED
    BY <1>1, <1>2 DEF StreamFinished

\* The last steps of a request: what becomes of its run is settled.
LEMMA StepEnds ==
  ASSUME TInv, NEW q \in Request, StreamError(q) \/ PopFlag(q) \/ Ask(q) \/ Cut(q)
  PROVE  TInv'
  <1>0. /\ request[q] # Idle /\ Begun(q)
        /\ UNCHANGED <<pausedRuns, streams, answers, ranCode, verdicts>>
        /\ UNCHANGED codeRuns \/ DropFlag(q)
        /\ \E pc \in {"done", "cut"} : Goto(q, pc)
        /\ UNCHANGED sent \/ \E e \in {"error", "interrupt"} : Send(q, <<e>>)
    BY RequestTypes DEF StreamError, PopFlag, Ask, Cut, InProgress, ErrorEvents, dicts, harness,
                        TInv, Begun
  <1>1. /\ request' \in [Request -> RequestState \cup {Idle}]
        /\ request'[q] \in RequestState /\ request'[q].pc \in {"done", "cut"}
        /\ request'[q].run = request[q].run
        /\ \A p \in Request : p # q => request'[p] = request[p]
    BY <1>0, GotoMoves DEF TInv
  <1>2. sent' \in [Request -> Seq({"finished", "interrupt", "unknown", "error"})]
    <2>1. \A e \in {"error", "interrupt"} :
            <<e>> \in Seq({"finished", "interrupt", "unknown", "error"})
      OBVIOUS
    <2> QED
      BY <1>0, <2>1, SendType DEF TInv, TypeOK
  <1>3. codeRuns' \subseteq Run
    BY <1>0 DEF DropFlag, TInv, TypeOK
  <1>4. TypeOK'
    BY <1>0, <1>1, <1>2, <1>3 DEF TInv, TypeOK
  <1>5. OneWorker' /\ Started' /\ Waits'
    BY <1>0, <1>1, AloneStep DEF Works
  <1> QED
    BY <1>4, <1>5 DEF TInv

LEMMA StepRestart ==
  ASSUME TInv, Restart
  PROVE  TInv'
  <1>0. /\ UNCHANGED <<sent, streams, answers, ranCode, verdicts>>
        /\ pausedRuns' = [r \in Run |-> None] /\ codeRuns' = {}
    BY DEF Restart, harness
  <1>1. \A q \in Request : request'[q] =
          IF InProgress(q) THEN [request[q] EXCEPT !.pc = "cut"] ELSE request[q]
    BY DEF Restart
  <1>2. ASSUME NEW q \in Request
        PROVE  /\ request[q] = Idle => request'[q] = Idle
               /\ request[q] # Idle => /\ request'[q] \in RequestState
                                      /\ request'[q].run = request[q].run
               /\ request'[q].pc \notin {"answer", "drain", "pop"}
               /\ Begun(q)' => Begun(q)
    <2>1. CASE InProgress(q)
      <3>1. request[q] # Idle /\ request[q] \in RequestState
        BY <2>1, RequestTypes DEF InProgress, TInv, Idle
      <3>2. request'[q] = [request[q] EXCEPT !.pc = "cut"]
        BY <1>1, <2>1
      <3> QED
        BY <2>1, <3>1, <3>2 DEF RequestState, Begun, InProgress
    <2>2. CASE ~InProgress(q)
      <3>1. request'[q] = request[q]
        BY <1>1, <2>2
      <3> QED
        BY <2>2, <3>1, RequestTypes DEF InProgress, TInv, Begun
    <2> QED
      BY <2>1, <2>2
  <1>3. request' \in [Request -> RequestState \cup {Idle}]
    BY <1>2 DEF Restart
  <1>4. TypeOK'
    BY <1>0, <1>3 DEF TInv, TypeOK
  <1>5. OneWorker' /\ Waits'
    BY <1>0, <1>2 DEF TInv, OneWorker, Works, Waits, Idle
  <1>6. Started'
    BY <1>0, <1>2, RequestTypes DEF TInv, Started, Begun
  <1> QED
    BY <1>4, <1>5, <1>6 DEF TInv
-----------------------------------------------------------------------------
\* What a stream leaves pending are calls of that stream, and there is a first.
LEMMA CallsAreLast ==
  ASSUME TypeOK, NEW r \in Run, streams[r] >= 1, NEW b \in Batch
  PROVE  /\ Calls(r, b) \in SUBSET ToolUse
         /\ \A c \in Calls(r, b) : LastCall(r, c)
         /\ FirstCall(Calls(r, b)) \in Calls(r, b)
  <1>1. b \in Seq(Name) /\ Len(b) >= 1 /\ DOMAIN b = 1..Len(b)
    OBVIOUS
  <1>2. streams[r] \in 1..MaxStreams
    BY DEF TypeOK
  <1>3. \A k \in DOMAIN b :
          [run |-> r, stream |-> streams[r], pos |-> k, name |-> b[k]] \in ToolUse
    BY <1>1, <1>2 DEF ToolUse
  <1>4. \A c \in Calls(r, b) : LastCall(r, c)
    BY <1>3 DEF Calls, LastCall
  <1>5. FirstCall(Calls(r, b)) \in Calls(r, b)
    <2> DEFINE one == [run |-> r, stream |-> streams[r], pos |-> 1, name |-> b[1]]
    <2>1. one \in Calls(r, b)
      BY <1>1 DEF Calls
    <2>2. \A d \in Calls(r, b) : one.pos <= d.pos
      BY <1>1 DEF Calls
    <2> HIDE DEF one
    <2> QED
      BY <2>1, <2>2 DEF FirstCall
  <1> QED
    BY <1>4, <1>5 DEF LastCall

LEMMA StepPending ==
  ASSUME TInv, NEW q \in Request, NEW code \in BOOLEAN, NEW b \in Batch,
         StreamPending(q, code, b)
  PROVE  TInv'
  <1> DEFINE r == request[q].run
             calls == Calls(r, b)
             auto == AutoCalls(calls)
             first == FirstCall(calls \ auto)
  <1>0. /\ request[q].pc = "drain" /\ Works(q) /\ request[q] # Idle
        /\ request[q] \in RequestState /\ r \in Run /\ streams[r] >= 1
        /\ codeRuns' \subseteq Run /\ ranCode' \subseteq Run /\ UNCHANGED sent
    BY RequestTypes, FlagTypes DEF StreamPending, Works, TInv, TypeOK, Started, Begun
  <1>1. calls \in SUBSET ToolUse /\ \A c \in calls : LastCall(r, c)
    BY <1>0, CallsAreLast DEF TInv
  <1>2. verdicts' \subseteq [call : ToolUse, accepted : BOOLEAN, ran : BOOLEAN]
    <2>1. \A c \in calls : Verdict(c, codeRuns', ranCode')
                              \in [call : ToolUse, accepted : BOOLEAN, ran : BOOLEAN]
      BY <1>1 DEF Verdict
    <2>2. verdicts' = verdicts \cup {Verdict(c, codeRuns', ranCode') :
                                       c \in {c \in auto : c.name # "credentials"}}
      BY DEF StreamPending
    <2> QED
      BY <2>1, <2>2 DEF AutoCalls, TInv, TypeOK
  <1>3. CASE auto # {} /\ OpenStream(r, auto) /\ UNCHANGED request
    <2>1. UNCHANGED pausedRuns
      BY <1>3 DEF StreamPending, Pauses
    <2>2. auto \in SUBSET ToolUse
      BY <1>1 DEF AutoCalls
    <2> HIDE DEF auto
    <2>3. TypeOK'
      BY <1>0, <1>2, <1>3, <2>1, <2>2, OpenStreamType DEF TInv, TypeOK
    <2>4. OneWorker' /\ Started' /\ Waits'
      BY <1>0, <1>3, <2>1, <2>2, NextStream
    <2> QED
      BY <2>3, <2>4 DEF TInv
  <1>4. CASE /\ auto = {} /\ UNCHANGED harness
             /\ request' = [request EXCEPT ![q].pc = "ask", ![q].call = first]
    <2>1. calls \ auto = calls
      BY <1>4
    <2>2. first \in ToolUse /\ LastCall(r, first)
      BY <1>0, <1>1, <2>1, CallsAreLast DEF TInv
    <2>3. pausedRuns' = [pausedRuns EXCEPT ![r] = first]
      BY <1>4 DEF StreamPending, Pauses
    <2> HIDE DEF first, auto, calls
    <2>4. /\ pausedRuns' \in [Run -> ToolUse \cup {None}] /\ pausedRuns'[r] = first
          /\ \A s \in Run : s # r => pausedRuns'[s] = pausedRuns[s]
      BY <1>0, <2>2, <2>3 DEF TInv, TypeOK
    <2>5. /\ request' \in [Request -> RequestState \cup {Idle}]
          /\ request'[q] \in RequestState /\ request'[q].pc = "ask"
          /\ request'[q].run = request[q].run
          /\ \A p \in Request : p # q => request'[p] = request[p]
      BY <1>0, <1>4, <2>2 DEF TInv, TypeOK, RequestState
    <2>6. TypeOK'
      BY <1>0, <1>2, <1>4, <2>4, <2>5 DEF harness, TInv, TypeOK
    <2>7. OneWorker'
      <3>1. ASSUME NEW p \in Request, Works(p)'
            PROVE  p # q /\ Works(p) /\ request'[p].run = request[p].run /\ request[p].run # r
        BY <1>0, <2>5, <3>1 DEF Works, TInv, OneWorker
      <3>2. \A p \in Request : Works(p)' => pausedRuns'[request'[p].run] = None
        BY <2>4, <3>1, RequestTypes DEF TInv, OneWorker, Works
      <3>3. ASSUME NEW p \in Request, NEW s \in Request, Works(p)', Works(s)',
                   request'[p].run = request'[s].run
            PROVE  p = s
        <4>1. Works(p) /\ Works(s) /\ request[p].run = request[s].run
          BY <3>1, <3>3
        <4> QED
          BY <4>1 DEF TInv, OneWorker
      <3> QED
        BY <3>2, <3>3 DEF OneWorker, Works
    <2>8. Started'
      BY <1>0, <1>4, <2>5 DEF harness, TInv, Started, Begun
    <2>9. Waits'
      BY <1>4, <2>2, <2>4, <2>5 DEF harness, TInv, Waits, LastCall
    <2> QED
      BY <2>6, <2>7, <2>8, <2>9 DEF TInv
  <1> QED
    BY <1>3, <1>4 DEF StreamPending

LEMMA TInvStep == TInv /\ [Next]_vars => TInv'
  <1> SUFFICES ASSUME TInv, [Next]_vars PROVE TInv'
    OBVIOUS
  <1>1. CASE UNCHANGED vars
    BY <1>1 DEF vars, dicts, harness, TInv, TypeOK, OneWorker, Works, Started, Begun, Waits, LastCall
  <1>2. ASSUME NEW q \in Request, NEW r \in Run, Turn(q, r) \/ Resume(q, r)
        PROVE  TInv'
    BY <1>2, StepTurn, StepResume
  <1>3. ASSUME NEW q \in Request, Step(q) \/ Cut(q)
        PROVE  TInv'
    <2>1. CASE Answer(q)
      BY <2>1, StepAnswer
    <2>2. CASE StreamError(q) \/ PopFlag(q) \/ Ask(q) \/ Cut(q)
      BY <2>2, StepEnds
    <2>3. ASSUME NEW code \in BOOLEAN, NEW figures \in BOOLEAN,
                 StreamFinished(q, code, figures)
          PROVE  TInv'
      BY <2>3, StepFinished
    <2>4. ASSUME NEW code \in BOOLEAN, NEW b \in Batch, StreamPending(q, code, b)
          PROVE  TInv'
      BY <2>4, StepPending
    <2> QED
      BY <1>3, <2>1, <2>2, <2>3, <2>4 DEF Step
  <1> QED
    BY <1>1, <1>2, <1>3, StepRestart DEF Next

\* TypeOK of AguiRuns: the dictionaries, requests and history stay in their types
\* (a call is answered with the name, the run and the place it was made with).
THEOREM TypeCorrect == Spec => []TypeOK
  <1>1. TInv => TypeOK
    BY DEF TInv
  <1> QED
    BY <1>1, TInvInit, TInvStep, PTL DEF Spec

-----------------------------------------------------------------------------
\* An answer goes into a later stream than its call was made in.
Later ==
  \A a \in answers : /\ a.call.stream < a.stream
                     /\ a.stream <= streams[a.call.run]

\* Only calls of the last stream are answered, all of them in the next one.
LEMMA AnswersAreLast ==
  ASSUME TInv, Next
  PROVE  \/ UNCHANGED harness
         \/ \E r \in Run, calls \in SUBSET ToolUse :
              (\A c \in calls : LastCall(r, c)) /\ OpenStream(r, calls)
  <1>1. ASSUME NEW q \in Request, NEW r \in Run, Turn(q, r)
        PROVE  OpenStream(r, {})
    BY <1>1 DEF Turn
  <1>2. ASSUME NEW q \in Request, Answer(q)
        PROVE  /\ request[q].run \in Run /\ {request[q].call} \in SUBSET ToolUse
               /\ LastCall(request[q].run, request[q].call)
               /\ OpenStream(request[q].run, {request[q].call})
    BY <1>2, RequestTypes DEF Answer, TInv, Waits, LastCall
  <1>3. ASSUME NEW q \in Request, NEW code \in BOOLEAN, NEW figures \in BOOLEAN,
               StreamFinished(q, code, figures)
        PROVE  /\ request[q].run \in Run
               /\ UNCHANGED harness \/ OpenStream(request[q].run, {})
    BY <1>3, RequestTypes DEF StreamFinished, TInv
  <1>4. ASSUME NEW q \in Request, NEW code \in BOOLEAN, NEW b \in Batch,
               StreamPending(q, code, b)
        PROVE  LET auto == AutoCalls(Calls(request[q].run, b))
               IN  /\ request[q].run \in Run /\ auto \in SUBSET ToolUse
                   /\ \A c \in auto : LastCall(request[q].run, c)
                   /\ UNCHANGED harness \/ OpenStream(request[q].run, auto)
    <2>1. request[q].run \in Run /\ streams[request[q].run] >= 1
      BY <1>4, RequestTypes DEF StreamPending, TInv, Started, Begun
    <2> QED
      BY <1>4, <2>1, CallsAreLast DEF StreamPending, AutoCalls, TInv
  <1>5. ASSUME NEW q \in Request,
               \/ StreamError(q) \/ PopFlag(q) \/ Ask(q) \/ Cut(q)
               \/ \E r \in Run : Resume(q, r)
        PROVE  UNCHANGED harness
    BY <1>5 DEF StreamError, PopFlag, Ask, Cut, Resume
  <1>6. {} \in SUBSET ToolUse
    OBVIOUS
  <1>7. Restart => UNCHANGED harness
    BY DEF Restart
  <1>8. ASSUME NEW q \in Request, Step(q)
        PROVE  \/ UNCHANGED harness
               \/ \E r \in Run, calls \in SUBSET ToolUse :
                    (\A c \in calls : LastCall(r, c)) /\ OpenStream(r, calls)
    BY <1>2, <1>3, <1>4, <1>5, <1>6, <1>8 DEF Step
  <1> QED
    BY <1>1, <1>5, <1>6, <1>7, <1>8 DEF Next

LEMMA LaterStep == TInv /\ Later /\ AnsweredOnce /\ [Next]_vars => (Later /\ AnsweredOnce)'
  <1> SUFFICES ASSUME TInv, Later, AnsweredOnce, [Next]_vars
               PROVE  (Later /\ AnsweredOnce)'
    OBVIOUS
  <1>1. CASE UNCHANGED harness
    BY <1>1 DEF harness, Later, AnsweredOnce
  <1>2. ASSUME NEW r \in Run, NEW calls \in SUBSET ToolUse, OpenStream(r, calls),
               \A c \in calls : LastCall(r, c)
        PROVE  (Later /\ AnsweredOnce)'
    <2>1. /\ streams'[r] = streams[r] + 1 /\ streams[r] \in Nat
          /\ \A s \in Run : s # r => streams'[s] = streams[s]
          /\ answers' = answers \cup {[call |-> c, stream |-> streams'[r]] : c \in calls}
          /\ \A s \in Run : streams[s] \in Nat
      BY <1>2, OpenStreamType DEF OpenStream, TInv, TypeOK
    <2>2. \A a \in answers :
            /\ a.call.run \in Run /\ a.stream \in Nat /\ a.call.stream \in Nat
            /\ a.call.stream < a.stream /\ a.stream <= streams[a.call.run]
      BY DEF TInv, TypeOK, ToolUse, Later
    <2>3. \A c \in calls : c.run = r /\ c.stream = streams[r]
      BY <1>2 DEF LastCall
    <2>4. Later'
      BY <2>1, <2>2, <2>3 DEF Later
    <2>5. ASSUME NEW a \in answers, NEW c \in calls
          PROVE  a.call # c
      BY <2>1, <2>2, <2>3
    <2>6. AnsweredOnce'
      BY <2>1, <2>5 DEF AnsweredOnce
    <2> QED
      BY <2>4, <2>6
  <1>3. UNCHANGED vars => UNCHANGED harness
    BY DEF vars
  <1> QED
    BY <1>1, <1>2, <1>3, AnswersAreLast

LEMMA LaterHolds == Spec => [](Later /\ AnsweredOnce)
  <1>1. Init => Later /\ AnsweredOnce
    BY DEF Init, Later, AnsweredOnce
  <1> QED
    BY <1>1, LaterStep, TInvInit, TInvStep, PTL DEF Spec

\* AnsweredOnce of AguiRuns: an answer advances the run past the stream of its
\* call, and only calls of the last stream are ever answered.
THEOREM AnsweredOnceHolds == Spec => []AnsweredOnce
  BY LaterHolds, PTL

-----------------------------------------------------------------------------
\* The flag of a run that can still go on is the truth about it.
Alive ==
  {r \in Run : \/ pausedRuns[r] # None
               \/ \E q \in Request : request[q].pc \in {"answer", "drain"} /\ request[q].run = r}

Truthful ==
  /\ \A r \in Alive : (r \in codeRuns <=> r \in ranCode)
  /\ \A r \in Run : streams[r] = 0 => r \notin codeRuns /\ r \notin ranCode

\* What a step of a request does to the flags, and that no step makes another
\* run go on.
LEMMA FlagStep ==
  ASSUME TInv, Truthful, NEW q \in Request, request[q].pc = "drain", NEW code \in BOOLEAN,
         codeRuns' = Flagged(q, code), ranCode' = ranCode \cup Ran(q, code),
         \A r \in Run : streams'[r] # 0 \/ (r # request[q].run /\ streams[r] = 0),
         \A r \in Run : r # request[q].run => (r \in Alive' => r \in Alive)
  PROVE  Truthful' /\ (request[q].run \in codeRuns' <=> request[q].run \in ranCode')
  <1>1. request[q].run \in Alive /\ request[q].run \in Run
    BY RequestTypes DEF Alive, TInv
  <1>2. \A r \in Run : r # request[q].run => /\ (r \in codeRuns' <=> r \in codeRuns)
                                            /\ (r \in ranCode' <=> r \in ranCode)
    BY DEF Flagged, Ran
  <1>3. request[q].run \in codeRuns' <=> request[q].run \in ranCode'
    BY <1>1 DEF Flagged, Ran, Truthful
  <1>4. ASSUME NEW r \in Run, r \in Alive'
        PROVE  r \in codeRuns' <=> r \in ranCode'
    <2>1. CASE r = request[q].run
      BY <1>3, <2>1
    <2>2. CASE r # request[q].run
      BY <1>2, <1>4, <2>2 DEF Truthful
    <2> QED
      BY <2>1, <2>2
  <1>5. ASSUME NEW r \in Run, streams'[r] = 0
        PROVE  r \notin codeRuns' /\ r \notin ranCode'
    BY <1>2, <1>5 DEF Truthful
  <1> QED
    BY <1>3, <1>4, <1>5 DEF Truthful, Alive

\* A run no longer goes on: its flag may go.
LEMMA DropStep ==
  ASSUME TInv, Truthful, NEW q \in Request, request[q].pc \in {"drain", "pop"},
         DropFlag(q), request' = [request EXCEPT ![q].pc = "done"],
         UNCHANGED <<pausedRuns, streams, ranCode>>
  PROVE  Truthful'
  <1>1. request[q].run \in Run /\ streams[request[q].run] >= 1 /\ Works(q)
    BY RequestTypes DEF TInv, Started, Begun, Works
  <1>2. request[q].run \notin Alive' /\ \A r \in Alive' : r \in Alive
    BY <1>1 DEF Alive, TInv, TypeOK, OneWorker, Works
  <1>3. \A r \in Run : r # request[q].run => (r \in codeRuns' <=> r \in codeRuns)
    BY DEF DropFlag
  <1>4. ASSUME NEW r \in Alive'
        PROVE  r \in codeRuns' <=> r \in ranCode'
    <2>1. r \in Run /\ r # request[q].run /\ r \in Alive
      BY <1>2 DEF Alive
    <2> QED
      BY <1>3, <2>1 DEF Truthful
  <1>5. ASSUME NEW r \in Run, streams'[r] = 0
        PROVE  r \notin codeRuns' /\ r \notin ranCode'
    BY <1>5 DEF Truthful, DropFlag
  <1> QED
    BY <1>4, <1>5 DEF Truthful

\* Nothing becomes of the flags, and no run is revived.
LEMMA QuietStep ==
  ASSUME Truthful, UNCHANGED <<codeRuns, ranCode>>, \A r \in Run : r \in Alive' => r \in Alive,
         \A r \in Run : streams'[r] = 0 => streams[r] = 0
  PROVE  Truthful'
  BY DEF Truthful, Alive

LEMMA PendingFlag ==
  ASSUME TInv, Truthful, NEW q \in Request, NEW code \in BOOLEAN, NEW b \in Batch,
         StreamPending(q, code, b)
  PROVE  Truthful' /\ (request[q].run \in codeRuns' <=> request[q].run \in ranCode')
  <1>1. /\ request[q] # Idle /\ request[q].pc = "drain" /\ request[q].run \in Run
        /\ streams[request[q].run] >= 1 /\ TypeOK
    BY RequestTypes DEF StreamPending, TInv, Started, Begun
  <1>2. /\ request'[q].run = request[q].run
        /\ \A p \in Request : p # q => request'[p] = request[p]
    BY <1>1 DEF StreamPending, TypeOK, RequestState
  <1>3. \A r \in Run : r # request[q].run => pausedRuns'[r] = pausedRuns[r]
    BY <1>1 DEF StreamPending, TypeOK
  <1>4. \A r \in Run : r # request[q].run => (r \in Alive' => r \in Alive)
    BY <1>2, <1>3 DEF Alive
  <1>5. AutoCalls(Calls(request[q].run, b)) \in SUBSET ToolUse
    BY <1>1, CallsAreLast DEF AutoCalls
  <1>6. \A r \in Run : streams'[r] # 0 \/ (r # request[q].run /\ streams[r] = 0)
    <2>1. UNCHANGED harness \/ OpenStream(request[q].run, AutoCalls(Calls(request[q].run, b)))
      BY DEF StreamPending
    <2>2. \A r \in Run : streams[r] \in Nat
      BY <1>1 DEF TypeOK
    <2> QED
      BY <1>1, <1>5, <2>1, <2>2, OpenStreamType DEF harness
  <1> QED
    BY <1>1, <1>4, <1>6, FlagStep DEF StreamPending

LEMMA TruthfulStep ==
  ASSUME TInv, Truthful, [Next]_vars
  PROVE  Truthful'
  <1>0. TypeOK /\ \A r \in Run : streams[r] \in Nat
    BY DEF TInv, TypeOK
  <1>1. ASSUME NEW q \in Request, NEW r \in Run, Turn(q, r)
        PROVE  Truthful'
    <2>1. /\ r \notin codeRuns /\ r \notin ranCode
          /\ streams'[r] = 1 /\ \A s \in Run : s # r => streams'[s] = streams[s]
          /\ UNCHANGED <<codeRuns, ranCode, pausedRuns>>
      BY <1>0, <1>1, OpenStreamType DEF Turn, Truthful, dicts
    <2>2. request'[q].run = r /\ \A p \in Request : p # q => request'[p] = request[p]
      BY <1>0, <1>1 DEF Turn, Begin, TypeOK
    <2>3. \A s \in Alive' : s = r \/ s \in Alive
      BY <2>1, <2>2 DEF Alive
    <2> QED
      BY <2>1, <2>3 DEF Truthful, Alive
  <1>2. ASSUME NEW q \in Request, NEW r \in Run, Resume(q, r)
        PROVE  Truthful'
    <2>1. /\ \A p \in Request : p # q => request'[p] = request[p]
          /\ request'[q].run = r
          /\ request'[q].pc = "done" \/ pausedRuns[r] # None
          /\ UNCHANGED <<codeRuns, ranCode, streams>>
          /\ \A s \in Run : pausedRuns'[s] # None => pausedRuns[s] # None
      BY <1>0, <1>2 DEF Resume, Begin, TakePaused, harness, TypeOK
    <2>2. \A s \in Run : s \in Alive' => s \in Alive
      BY <2>1 DEF Alive
    <2> QED
      BY <2>1, <2>2, QuietStep
  <1>3. ASSUME NEW q \in Request, Answer(q)
        PROVE  Truthful'
    <2>1. request[q] # Idle /\ request[q].run \in Run /\ {request[q].call} \in SUBSET ToolUse
      BY <1>0, <1>3, RequestTypes DEF Answer, TInv, Waits, LastCall
    <2>2. /\ request' = [request EXCEPT ![q].pc = "drain"]
          /\ UNCHANGED <<codeRuns, ranCode, pausedRuns>>
          /\ \A s \in Run : streams'[s] = 0 => streams[s] = 0
      BY <1>0, <1>3, <2>1, OpenStreamType DEF Answer, Goto, dicts
    <2>3. \A s \in Run : s \in Alive' => s \in Alive
      BY <1>0, <1>3, <2>2 DEF Alive, Answer, TypeOK
    <2> QED
      BY <2>2, <2>3, QuietStep
  <1>4. ASSUME NEW q \in Request, StreamError(q) \/ PopFlag(q)
        PROVE  Truthful'
    BY <1>4, DropStep DEF StreamError, PopFlag, harness, Goto
  <1>5. ASSUME NEW q \in Request, Ask(q) \/ Cut(q)
        PROVE  Truthful'
    <2>1. /\ \E pc \in {"done", "cut"} : request' = [request EXCEPT ![q].pc = pc]
          /\ UNCHANGED <<codeRuns, ranCode, pausedRuns, streams>>
      BY <1>5 DEF Ask, Cut, Goto, dicts, harness
    <2>2. \A s \in Run : s \in Alive' => s \in Alive
      BY <1>0, <2>1 DEF Alive, TypeOK
    <2> QED
      BY <2>1, <2>2, QuietStep
  <1>6. ASSUME NEW q \in Request, NEW code \in BOOLEAN, NEW figures \in BOOLEAN,
               StreamFinished(q, code, figures)
        PROVE  Truthful'
    <2>1. /\ request[q] # Idle /\ request[q].pc = "drain" /\ request[q].run \in Run
          /\ streams[request[q].run] >= 1 /\ UNCHANGED pausedRuns
      BY <1>6, RequestTypes DEF StreamFinished, TInv, Started, Begun
    <2>2. /\ request'[q].run = request[q].run
          /\ \A p \in Request : p # q => request'[p] = request[p]
      BY <1>0, <1>6, <2>1 DEF StreamFinished, Goto, TypeOK, RequestState
    <2>3. \A r \in Run : r # request[q].run => (r \in Alive' => r \in Alive)
      BY <2>1, <2>2 DEF Alive
    <2>4. {} \in SUBSET ToolUse
      OBVIOUS
    <2>5. \A r \in Run : streams'[r] # 0 \/ (r # request[q].run /\ streams[r] = 0)
      BY <1>0, <1>6, <2>1, <2>4, OpenStreamType DEF StreamFinished, harness
    <2> QED
      BY <1>6, <2>1, <2>3, <2>5, FlagStep DEF StreamFinished
  <1>7. ASSUME NEW q \in Request, NEW code \in BOOLEAN, NEW b \in Batch,
               StreamPending(q, code, b)
        PROVE  Truthful'
    BY <1>7, PendingFlag
  <1>8. Restart => Truthful'
    <2>1. Restart => Alive' = {} /\ UNCHANGED <<streams, ranCode>> /\ codeRuns' = {}
      BY DEF Restart, harness, Alive, InProgress
    <2> QED
      BY <2>1 DEF Truthful
  <1>9. UNCHANGED vars => Truthful'
    BY DEF vars, dicts, harness, Truthful, Alive
  <1> QED
    BY <1>1, <1>2, <1>3, <1>4, <1>5, <1>6, <1>7, <1>8, <1>9 DEF Next, Step

\* GateIsExact of AguiRuns: whatever the interleaving of requests, cuts and
\* restarts, submit_underwriting_result is accepted just if a stream of its run has
\* reported a completed code interpreter, not only this stream (main.py:53-62).
THEOREM GateIsExactHolds == Spec => []GateIsExact
  <1>1. Init => Truthful /\ GateIsExact
    BY DEF Init, Truthful, GateIsExact, Alive
  <1>2. TInv /\ Truthful /\ GateIsExact /\ [Next]_vars => (Truthful /\ GateIsExact)'
    <2> SUFFICES ASSUME TInv, Truthful, GateIsExact, [Next]_vars
                 PROVE  GateIsExact'
      BY TruthfulStep
    <2>1. CASE UNCHANGED verdicts
      BY <2>1 DEF GateIsExact
    <2>2. ASSUME NEW q \in Request, NEW code \in BOOLEAN, NEW b \in Batch,
                 StreamPending(q, code, b)
          PROVE  GateIsExact'
      <3>1. request[q].run \in codeRuns' <=> request[q].run \in ranCode'
        BY <2>2, PendingFlag
      <3>2. ASSUME NEW v \in verdicts', v \notin verdicts, v.call.name = "submit"
            PROVE  v.accepted <=> v.ran
        <4>1. PICK c \in Calls(request[q].run, b) : v = Verdict(c, codeRuns', ranCode')
          BY <2>2, <3>2 DEF StreamPending, AutoCalls
        <4>2. c.run = request[q].run
          BY DEF Calls
        <4>3. /\ v.call = c
              /\ v.accepted <=> (c.name = "submit" /\ c.run \in codeRuns')
              /\ v.ran <=> (c.run \in ranCode')
          BY <4>1 DEF Verdict
        <4> QED
          BY <3>1, <3>2, <4>2, <4>3
      <3> QED
        BY <3>2 DEF GateIsExact
    <2>3. \/ UNCHANGED verdicts
          \/ \E q \in Request, code \in BOOLEAN, b \in Batch : StreamPending(q, code, b)
      BY DEF vars, Next, Step, Turn, Resume, Answer, StreamError, PopFlag, Ask, Cut,
             StreamFinished, Restart
    <2> QED
      BY <2>1, <2>2, <2>3
  <1> QED
    BY <1>1, <1>2, TInvInit, TInvStep, PTL DEF Spec

-----------------------------------------------------------------------------
\* A request that goes on has sent nothing yet.
SentRightly(q) ==
  /\ request[q].pc \in {"idle", "answer", "drain", "ask"} => sent[q] = <<>>
  /\ request[q].pc \in {"pop", "done"} => Len(sent[q]) = 1
  /\ Len(sent[q]) <= 1

SentWhenOver == \A q \in Request : SentRightly(q)

\* The terminal event of a request is its last step but one.
LEMMA SentStep ==
  ASSUME TypeOK, SentWhenOver, NEW q \in Request,
         request'[q].pc \in {"answer", "drain", "ask", "pop", "done", "cut"},
         \A p \in Request : p # q => request'[p] = request[p],
         \/ /\ UNCHANGED sent
            /\ \/ request'[q].pc = "cut"
               \/ /\ request'[q].pc \in {"answer", "drain", "ask"}
                  /\ request[q].pc \in {"idle", "answer", "drain", "ask"}
               \/ request'[q].pc \in {"pop", "done"} /\ request[q].pc \in {"pop", "done"}
         \/ /\ request[q].pc \in {"idle", "drain", "ask"} /\ request'[q].pc \in {"pop", "done"}
            /\ \E e \in {"finished", "interrupt", "unknown", "error"} : Send(q, <<e>>)
  PROVE  SentWhenOver'
  <1>1. CASE UNCHANGED sent
    <2>1. ASSUME NEW p \in Request, p # q
          PROVE  SentRightly(p)'
      BY <1>1, <2>1 DEF SentWhenOver, SentRightly
    <2>2. SentRightly(q)'
      <3>1. SentRightly(q) /\ sent'[q] = sent[q]
        BY <1>1 DEF SentWhenOver
      <3>2. \/ request'[q].pc = "cut"
            \/ /\ request'[q].pc \in {"answer", "drain", "ask"}
               /\ request[q].pc \in {"idle", "answer", "drain", "ask"}
            \/ request'[q].pc \in {"pop", "done"} /\ request[q].pc \in {"pop", "done"}
            \/ /\ request[q].pc \in {"idle", "drain", "ask"}
               /\ \E e \in {"finished", "interrupt", "unknown", "error"} : Send(q, <<e>>)
        OBVIOUS
      <3>3. ASSUME NEW e, Send(q, <<e>>), request[q].pc \in {"idle", "drain", "ask"}
            PROVE  FALSE
        <4>1. sent[q] = <<>> /\ sent'[q] = <<e>>
          BY <3>1, <3>3 DEF SentRightly, Send, TypeOK
        <4> QED
          BY <3>1, <4>1
      <3> QED
        BY <3>1, <3>2, <3>3 DEF SentRightly
    <2> QED
      BY <2>1, <2>2 DEF SentWhenOver
  <1>2. ASSUME NEW e \in {"finished", "interrupt", "unknown", "error"}, Send(q, <<e>>),
               request[q].pc \in {"idle", "drain", "ask"}, request'[q].pc \in {"pop", "done"}
        PROVE  SentWhenOver'
    <2>1. <<>> \o <<e>> = <<e>> /\ Len(<<e>>) = 1
      OBVIOUS
    <2>2. sent'[q] = <<e>> /\ \A p \in Request : p # q => sent'[p] = sent[p]
      BY <1>2, <2>1 DEF Send, SentWhenOver, SentRightly, TypeOK
    <2>3. SentRightly(q)'
      BY <1>2, <2>1, <2>2 DEF SentRightly
    <2>4. ASSUME NEW p \in Request, p # q
          PROVE  SentRightly(p)'
      BY <2>2, <2>4 DEF SentWhenOver, SentRightly
    <2> QED
      BY <2>3, <2>4 DEF SentWhenOver
  <1> QED
    BY <1>1, <1>2

LEMMA SentWhenOverStep == TInv /\ SentWhenOver /\ [Next]_vars => SentWhenOver'
  <1> SUFFICES ASSUME TInv, SentWhenOver, [Next]_vars PROVE SentWhenOver'
    OBVIOUS
  <1>0. TypeOK
    BY DEF TInv
  <1>1. ASSUME NEW q \in Request, NEW r \in Run, Turn(q, r) \/ Resume(q, r)
        PROVE  SentWhenOver'
    <2>1. /\ request[q].pc = "idle"
          /\ \A p \in Request : p # q => request'[p] = request[p]
          /\ \/ request'[q].pc \in {"drain", "answer"} /\ UNCHANGED sent
             \/ request'[q].pc = "done" /\ Send(q, <<"unknown">>)
      BY <1>0, <1>1 DEF Turn, Resume, Begin, Idle, TypeOK
    <2> QED
      BY <1>0, <2>1, SentStep
  <1>2. ASSUME NEW q \in Request,
               Answer(q) \/ StreamError(q) \/ PopFlag(q) \/ Ask(q) \/ Cut(q)
        PROVE  SentWhenOver'
    <2>1. PICK pc \in {"drain", "done", "cut"} :
            /\ Goto(q, pc)
            /\ \/ pc = "drain" /\ request[q].pc = "answer" /\ UNCHANGED sent
               \/ pc = "done" /\ request[q].pc = "pop" /\ UNCHANGED sent
               \/ pc = "cut" /\ UNCHANGED sent
               \/ /\ pc = "done" /\ request[q].pc \in {"drain", "ask"}
                  /\ \E e \in {"error", "interrupt"} : Send(q, <<e>>)
      BY <1>2 DEF Answer, StreamError, PopFlag, Ask, Cut, ErrorEvents
    <2>2. request'[q].pc = pc /\ \A p \in Request : p # q => request'[p] = request[p]
      BY <1>0, <2>1 DEF Goto, TypeOK
    <2> QED
      BY <1>0, <2>1, <2>2, SentStep
  <1>3. ASSUME NEW q \in Request, NEW code \in BOOLEAN, NEW figures \in BOOLEAN,
               StreamFinished(q, code, figures)
        PROVE  SentWhenOver'
    <2>1. /\ request[q].pc = "drain" /\ request[q] \in RequestState
          /\ \A p \in Request : p # q => request'[p] = request[p]
      BY <1>0, <1>3, RequestTypes DEF StreamFinished, Goto, TypeOK
    <2>2. \/ request'[q].pc = "drain" /\ UNCHANGED sent
          \/ request'[q].pc = "pop" /\ Send(q, <<"finished">>)
      BY <1>0, <1>3, <2>1 DEF StreamFinished, Goto, TypeOK, RequestState
    <2> QED
      BY <1>0, <2>1, <2>2, SentStep
  <1>4. ASSUME NEW q \in Request, NEW code \in BOOLEAN, NEW b \in Batch,
               StreamPending(q, code, b)
        PROVE  SentWhenOver'
    <2>1. /\ request[q].pc = "drain" /\ request[q] \in RequestState /\ UNCHANGED sent
          /\ \A p \in Request : p # q => request'[p] = request[p]
      BY <1>0, <1>4, RequestTypes DEF StreamPending, TypeOK
    <2>2. request'[q].pc \in {"drain", "ask"}
      BY <1>0, <1>4, <2>1 DEF StreamPending, TypeOK, RequestState
    <2> QED
      BY <1>0, <2>1, <2>2, SentStep
  <1>5. Restart => SentWhenOver'
    <2>1. Restart => /\ UNCHANGED sent
                     /\ \A q \in Request : request'[q] = request[q] \/ request'[q].pc = "cut"
      BY <1>0 DEF Restart, TypeOK, InProgress, Idle, RequestState
    <2> QED
      BY <2>1 DEF SentWhenOver, SentRightly
  <1>6. UNCHANGED vars => SentWhenOver'
    BY DEF vars, SentWhenOver, SentRightly
  <1>7. ASSUME NEW q \in Request, Step(q)
        PROVE  SentWhenOver'
    BY <1>2, <1>3, <1>4, <1>7 DEF Step
  <1> QED
    BY <1>1, <1>2, <1>5, <1>6, <1>7 DEF Next

\* OneTerminal of AguiRuns: no path through _drain_and_resolve sends a client a
\* second terminal event, and only a request that was cut short sends none.
THEOREM OneTerminalHolds == Spec => []OneTerminal
  <1>1. Init => SentWhenOver
    BY DEF Init, SentWhenOver, SentRightly, Idle
  <1>2. SentWhenOver => OneTerminal
    BY DEF SentWhenOver, SentRightly, OneTerminal
  <1> QED
    BY <1>1, <1>2, SentWhenOverStep, TInvInit, TInvStep, PTL DEF Spec

-----------------------------------------------------------------------------
\* Who keeps the flag of a run: the run's pause, a request that works on it, or
\* one that was cut short.
Held(r) ==
  \/ pausedRuns[r] # None
  \/ \E q \in Request : (Works(q) \/ request[q].pc = "cut") /\ request[q].run = r

FlagsHeld == \A r \in codeRuns : Held(r)

\* A flag is held on where its holder is not the request that steps.
LEMMA HeldByOthers ==
  ASSUME NEW q \in Request, NEW r \in Run, Held(r),
         \A p \in Request : p # q => request'[p] = request[p],
         (~Works(q) /\ request[q].pc # "cut") \/ request[q].run # r,
         pausedRuns'[r] = pausedRuns[r]
  PROVE  Held(r)'
  BY DEF Held, Works

LEMMA FlagsHeldStep == TInv /\ FlagsHeld /\ [Next]_vars => FlagsHeld'
  <1> SUFFICES ASSUME TInv, FlagsHeld, [Next]_vars, NEW r \in codeRuns' PROVE Held(r)'
    BY DEF FlagsHeld
  <1>0. TypeOK /\ codeRuns \subseteq Run
    BY DEF TInv, TypeOK
  <1>1. ASSUME NEW q \in Request, NEW s \in Run, Turn(q, s) \/ Resume(q, s)
        PROVE  Held(r)'
    <2>1. /\ r \in Run /\ Held(r) /\ ~Works(q) /\ request[q].pc # "cut"
          /\ \A p \in Request : p # q => request'[p] = request[p]
      BY <1>0, <1>1 DEF Turn, Resume, Begin, dicts, FlagsHeld, Works, Idle, TypeOK
    <2>2. \/ pausedRuns'[r] = pausedRuns[r]
          \/ Works(q)' /\ request'[q].run = r
      BY <1>0, <1>1, <2>1 DEF Turn, Resume, Begin, TakePaused, dicts, TypeOK, Works
    <2> QED
      BY <2>1, <2>2, HeldByOthers DEF Held
  <1>2. ASSUME NEW q \in Request,
               Answer(q) \/ StreamError(q) \/ PopFlag(q) \/ Ask(q) \/ Cut(q)
        PROVE  Held(r)'
    <2>1. PICK pc \in {"drain", "done", "cut"} : Goto(q, pc)
      BY <1>2 DEF Answer, StreamError, PopFlag, Ask, Cut
    <2>2. /\ request[q] # Idle /\ request'[q].pc = pc /\ request'[q].run = request[q].run
          /\ \A p \in Request : p # q => request'[p] = request[p]
      BY <1>0, <1>2, <2>1, RequestTypes, GotoMoves
         DEF Answer, StreamError, PopFlag, Ask, Cut, InProgress
    <2>3. r \in codeRuns /\ pausedRuns' = pausedRuns /\ Held(r)
      BY <1>2 DEF Answer, StreamError, PopFlag, Ask, Cut, DropFlag, dicts, FlagsHeld
    <2>4. \/ pc \in {"drain", "cut"}
          \/ request[q].run # r
          \/ ~Works(q) /\ request[q].pc # "cut"
      <3>1. CASE Answer(q) \/ Cut(q)
        <4>1. Goto(q, "drain") \/ Goto(q, "cut")
          BY <3>1 DEF Answer, Cut
        <4> QED
          BY <1>0, <2>2, <4>1, GotoMoves
      <3>2. CASE StreamError(q) \/ PopFlag(q)
        BY <3>2 DEF StreamError, PopFlag, DropFlag
      <3>3. CASE Ask(q)
        BY <3>3 DEF Ask, Works
      <3> QED
        BY <1>2, <3>1, <3>2, <3>3
    <2>5. CASE pc \in {"drain", "cut"} /\ request[q].run = r
      BY <2>2, <2>5 DEF Held, Works
    <2> QED
      BY <1>0, <2>2, <2>3, <2>4, <2>5, HeldByOthers
  <1>3. ASSUME NEW q \in Request, NEW code \in BOOLEAN, NEW figures \in BOOLEAN,
               StreamFinished(q, code, figures)
        PROVE  Held(r)'
    <2>1. /\ request[q].pc = "drain" /\ request[q] \in RequestState
          /\ UNCHANGED pausedRuns /\ codeRuns' \subseteq codeRuns \cup {request[q].run}
          /\ \A p \in Request : p # q => request'[p] = request[p]
      BY <1>0, <1>3, RequestTypes DEF StreamFinished, Flagged, Ran, Goto, TypeOK
    <2>2. Works(q)' /\ request'[q].run = request[q].run
      BY <1>0, <1>3, <2>1 DEF StreamFinished, Goto, Works, TypeOK, RequestState
    <2>3. r = request[q].run \/ (r \in codeRuns /\ Held(r))
      BY <2>1 DEF FlagsHeld
    <2> QED
      BY <1>0, <2>1, <2>2, <2>3, HeldByOthers DEF Held
  <1>4. ASSUME NEW q \in Request, NEW code \in BOOLEAN, NEW b \in Batch,
               StreamPending(q, code, b)
        PROVE  Held(r)'
    <2>1. /\ request[q].pc = "drain" /\ request[q] \in RequestState /\ request[q].run \in Run
          /\ codeRuns' \subseteq codeRuns \cup {request[q].run}
          /\ \A p \in Request : p # q => request'[p] = request[p]
      BY <1>0, <1>4, RequestTypes DEF StreamPending, Flagged, Ran, TypeOK
    <2>2. \A s \in Run : s # request[q].run => pausedRuns'[s] = pausedRuns[s]
      BY <1>0, <1>4 DEF StreamPending, TypeOK
    <2>3. \/ Works(q)' /\ request'[q].run = request[q].run
          \/ pausedRuns'[request[q].run] # None
      <3> DEFINE calls == Calls(request[q].run, b)
      <3>1. CASE AutoCalls(calls) # {}
        BY <1>4, <2>1, <3>1 DEF StreamPending, Works
      <3>2. CASE AutoCalls(calls) = {}
        <4>1. calls \ AutoCalls(calls) = calls
          BY <3>2
        <4>2. FirstCall(calls) \in ToolUse
          BY <1>0, <2>1, CallsAreLast DEF TInv, Started, Begun
        <4>3. pausedRuns' = [pausedRuns EXCEPT ![request[q].run] = FirstCall(calls)]
          BY <1>4, <3>2, <4>1 DEF StreamPending, Pauses
        <4> QED
          BY <1>0, <2>1, <4>2, <4>3 DEF TypeOK
      <3> QED
        BY <3>1, <3>2
    <2>4. r = request[q].run \/ (r \in codeRuns /\ Held(r))
      BY <2>1 DEF FlagsHeld
    <2> QED
      BY <1>0, <2>1, <2>2, <2>3, <2>4, HeldByOthers DEF Held
  <1>5. ASSUME NEW q \in Request, Step(q)
        PROVE  Held(r)'
    BY <1>2, <1>3, <1>4, <1>5 DEF Step
  <1>6. ~Restart
    BY DEF Restart
  <1>7. UNCHANGED vars => Held(r)'
    BY DEF vars, dicts, FlagsHeld, Held, Works
  <1> QED
    BY <1>1, <1>2, <1>5, <1>6, <1>7 DEF Next

\* FlagsBounded of AguiRuns: no request that ends properly leaves the flag of a run
\* behind that nobody can go on with (main.py:142, 173).
THEOREM FlagsBoundedHolds == Spec => []FlagsBounded
  <1>1. Init => FlagsHeld
    BY DEF Init, FlagsHeld
  <1>2. FlagsHeld => FlagsBounded
    BY DEF FlagsHeld, Held, FlagsBounded, Works
  <1> QED
    BY <1>1, <1>2, FlagsHeldStep, TInvInit, TInvStep, PTL DEF Spec

-----------------------------------------------------------------------------
\* Who was asked, or would have been, about a call.
AsksAbout(q, c) ==
  /\ request[q] # Idle /\ request[q].call = c
  /\ request[q].pc \in {"ask", "cut"} \/ sent[q] = <<"interrupt">>

LEMMA AskedMeans ==
  PausedIsAsked <=> \A r \in Run : pausedRuns[r] # None => \E q \in Request : AsksAbout(q, pausedRuns[r])
  BY DEF PausedIsAsked, AsksAbout

\* A question stays asked.
LEMMA StaysAsked ==
  ASSUME TInv, SentWhenOver, Next, NEW p \in Request, NEW c, AsksAbout(p, c)
  PROVE  AsksAbout(p, c)'
  <1>0. TypeOK /\ SentRightly(p) /\ request[p] \in RequestState
    BY DEF TInv, TypeOK, SentWhenOver, AsksAbout
  <1>1. request[p].pc \in {"ask", "cut", "pop", "done"}
    <2>1. sent[p] = <<"interrupt">> => sent[p] # <<>>
      OBVIOUS
    <2> QED
      BY <1>0, <2>1 DEF AsksAbout, SentRightly, RequestState
  <1>2. ASSUME NEW q \in Request,
               (q # p /\ (Step(q) \/ Cut(q))) \/ \E r \in Run : Turn(q, r) \/ Resume(q, r)
        PROVE  AsksAbout(p, c)'
    <2>1. q # p
      BY <1>2 DEF Turn, Resume, AsksAbout
    <2>2. request'[p] = request[p] /\ sent'[p] = sent[p]
      BY <1>0, <1>2, <2>1
         DEF Step, Answer, StreamError, PopFlag, Ask, Cut, StreamFinished, StreamPending, Turn,
             Resume, Begin, Goto, Send, ErrorEvents, TypeOK
    <2> QED
      BY <2>2 DEF AsksAbout
  <1>3. CASE PopFlag(p)
    <2>1. request[p].pc = "pop" /\ sent'[p] = sent[p] /\ Goto(p, "done")
      BY <1>3 DEF PopFlag
    <2> QED
      BY <1>0, <2>1, GotoMoves DEF AsksAbout, TypeOK, Idle, RequestState
  <1>4. CASE Ask(p)
    <2>1. request[p].pc = "ask" /\ sent[p] = <<>>
      BY <1>0, <1>4 DEF Ask, SentRightly
    <2>2. CASE Send(p, <<"interrupt">>) /\ Goto(p, "done")
      <3>1. <<>> \o <<"interrupt">> = <<"interrupt">>
        OBVIOUS
      <3> QED
        BY <1>0, <2>1, <2>2, <3>1, GotoMoves DEF AsksAbout, Send, TypeOK, Idle, RequestState
    <2>3. CASE Goto(p, "cut")
      BY <1>0, <2>3, GotoMoves DEF AsksAbout, Idle, RequestState
    <2> QED
      BY <1>4, <2>2, <2>3 DEF Ask
  <1>5. CASE Cut(p)
    BY <1>0, <1>5, GotoMoves DEF Cut, AsksAbout, Idle, RequestState
  <1>6. CASE Restart
    <2>1. request'[p] = IF InProgress(p) THEN [request[p] EXCEPT !.pc = "cut"] ELSE request[p]
      BY <1>6 DEF Restart
    <2> QED
      BY <1>0, <1>6, <2>1 DEF Restart, AsksAbout, Idle, RequestState
  <1>7. ~Answer(p) /\ ~StreamError(p)
        /\ \A code \in BOOLEAN : /\ \A figures \in BOOLEAN : ~StreamFinished(p, code, figures)
                               /\ \A b \in Batch : ~StreamPending(p, code, b)
    BY <1>1 DEF Answer, StreamError, StreamFinished, StreamPending
  <1> QED
    BY <1>2, <1>3, <1>4, <1>5, <1>6, <1>7 DEF Next, Step

\* A run that is paused anew is asked about by the request that paused it.
LEMMA PausesAsk ==
  ASSUME TInv, Next, NEW r \in Run, pausedRuns'[r] # None, pausedRuns'[r] # pausedRuns[r]
  PROVE  \E q \in Request : AsksAbout(q, pausedRuns[r])'
  <1>0. TypeOK
    BY DEF TInv
  <1>1. PICK q \in Request, code \in BOOLEAN, b \in Batch : StreamPending(q, code, b)
    BY <1>0 DEF Next, Step, Turn, Resume, TakePaused, Answer, StreamError, PopFlag, Ask, Cut,
                StreamFinished, Restart, dicts, TypeOK
  <1>2. request[q].pc = "drain" /\ request[q] \in RequestState
    BY <1>0, <1>1, RequestTypes DEF StreamPending
  <1> DEFINE calls == Calls(request[q].run, b)
  <1>3. CASE AutoCalls(calls) # {}
    BY <1>1, <1>3 DEF StreamPending, Pauses
  <1>4. CASE AutoCalls(calls) = {}
    <2>1. calls \ AutoCalls(calls) = calls
      BY <1>4
    <2>2. pausedRuns' = [pausedRuns EXCEPT ![request[q].run] = FirstCall(calls)]
      BY <1>1, <1>4, <2>1 DEF StreamPending, Pauses
    <2>3. pausedRuns'[r] = FirstCall(calls)
      BY <1>0, <2>2 DEF TypeOK
    <2>4. request' = [request EXCEPT ![q].pc = "ask", ![q].call = FirstCall(calls)]
      BY <1>1, <1>4, <2>1 DEF StreamPending
    <2> HIDE DEF calls
    <2>5. request'[q].pc = "ask" /\ request'[q].call = FirstCall(calls)
      BY <1>0, <1>2, <2>4 DEF TypeOK, RequestState
    <2> QED
      BY <2>3, <2>5 DEF AsksAbout, Idle
  <1> QED
    BY <1>3, <1>4

\* PausedIsAsked of AguiRuns: whatever is repeated, cut or restarted, a run waits
\* only for an answer to a question that was put, or would have been but for a
\* fault (main.py:243-268).
THEOREM PausedIsAskedHolds == Spec => []PausedIsAsked
  <1>1. Init => SentWhenOver /\ PausedIsAsked
    BY DEF Init, SentWhenOver, SentRightly, Idle, PausedIsAsked
  <1>2. TInv /\ SentWhenOver /\ PausedIsAsked /\ [Next]_vars => PausedIsAsked'
    <2> SUFFICES ASSUME TInv, SentWhenOver, PausedIsAsked, [Next]_vars PROVE PausedIsAsked'
      OBVIOUS
    <2>1. CASE UNCHANGED vars
      BY <2>1 DEF vars, dicts, PausedIsAsked
    <2>2. ASSUME Next, NEW r \in Run, pausedRuns'[r] # None
          PROVE  \E q \in Request : AsksAbout(q, pausedRuns[r])'
      <3>1. CASE pausedRuns'[r] = pausedRuns[r]
        <4>1. PICK q \in Request : AsksAbout(q, pausedRuns[r])
          BY <2>2, <3>1, AskedMeans
        <4>2. PICK c : c = pausedRuns[r]
          OBVIOUS
        <4>3. AsksAbout(q, c)'
          BY <2>2, <4>1, <4>2, StaysAsked
        <4> QED
          BY <3>1, <4>2, <4>3 DEF AsksAbout
      <3> QED
        BY <2>2, <3>1, PausesAsk
    <2>3. ASSUME Next PROVE PausedIsAsked'
      BY <2>2, <2>3 DEF PausedIsAsked, AsksAbout
    <2> QED
      BY <2>1, <2>3
  <1> QED
    BY <1>1, <1>2, SentWhenOverStep, TInvInit, TInvStep, PTL DEF Spec


-----------------------------------------------------------------------------
\* What a step of one request does to the runs at work and the calls that wait.
LEMMA WorkingMoves ==
  ASSUME TInv, NEW q \in Request, \A p \in Request : p # q => request'[p] = request[p]
  PROVE  /\ request[q].pc # "drain" /\ request'[q].pc = "drain"
              => Working' = Working \cup {request'[q].run}
         /\ request[q].pc = "drain" /\ request'[q].pc # "drain"
              => Working' = Working \ {request[q].run}
         /\ request[q].pc = "drain" /\ request'[q].pc = "drain" /\ request'[q].run = request[q].run
              => Working' = Working
         /\ request[q].pc # "drain" /\ request'[q].pc # "drain" => Working' = Working
  <1>1. \A p \in Request : /\ p # q /\ request[p].pc = "drain" /\ request[q].pc = "drain"
                           => request[p].run # request[q].run
    BY DEF TInv, OneWorker, Works
  <1> QED
    BY <1>1 DEF Working

LEMMA WaitingStays ==
  ASSUME NEW q \in Request, \A p \in Request : p # q => request'[p] = request[p],
         UNCHANGED pausedRuns, request[q].pc # "answer", request'[q].pc # "answer"
  PROVE  Waiting' = Waiting
  BY DEF Waiting

\* A call waits once: in the dictionary or with the one request that took it.
LEMMA WaitsOnce ==
  ASSUME TInv, NEW q \in Request, request[q].pc = "answer"
  PROVE  /\ request[q].call \in Waiting /\ request[q].call.run = request[q].run
         /\ \A r \in Run : pausedRuns[r] # None => pausedRuns[r] # request[q].call
         /\ \A p \in Request : p # q /\ request[p].pc = "answer" => request[p].call # request[q].call
  <1>1. LastCall(request[q].run, request[q].call) /\ Works(q)
    BY DEF TInv, Waits, Works
  <1>2. \A r \in Run : pausedRuns[r] # None => pausedRuns[r].run = r
    BY DEF TInv, Waits, LastCall
  <1>3. \A p \in Request : request[p].pc = "answer" => request[p].call.run = request[p].run /\ Works(p)
    BY DEF TInv, Waits, LastCall, Works
  <1>4. pausedRuns[request[q].run] = None
    BY <1>1 DEF TInv, OneWorker
  <1>5. \A r \in Run : pausedRuns[r] # None => pausedRuns[r] # request[q].call
    BY <1>1, <1>2, <1>4 DEF LastCall
  <1>6. \A p \in Request : p # q /\ request[p].pc = "answer" => request[p].call # request[q].call
    BY <1>1, <1>3 DEF TInv, OneWorker
  <1> QED
    BY <1>1, <1>5, <1>6 DEF Waiting, LastCall

LEMMA OpenChat ==
  ASSUME TypeOK, NEW r \in Run, NEW calls, OpenStream(r, calls)
  PROVE  Chat!OpenStream(r, calls) /\ streams'[r] = streams[r] + 1
  <1>1. streams \in [Run -> 0..MaxStreams]
    BY DEF TypeOK
  <1>2. streams'[r] = streams[r] + 1
    BY <1>1 DEF OpenStream
  <1> QED
    BY <1>2 DEF OpenStream, Chat!OpenStream

\* A turn starts a run.
LEMMA TurnStarts ==
  ASSUME TInv, NEW q \in Request, NEW r \in Run, Turn(q, r)
  PROVE  Chat!Start(r)
  <1>1. /\ request'[q].pc = "drain" /\ request'[q].run = r /\ request[q].pc = "idle"
        /\ \A p \in Request : p # q => request'[p] = request[p]
    BY DEF Turn, Begin, TInv, TypeOK, Idle
  <1>2. Working' = Working \cup {r}
    BY <1>1, WorkingMoves
  <1>3. Waiting' = Waiting
    BY <1>1, WaitingStays DEF Turn, dicts
  <1>4. Chat!OpenStream(r, {})
    BY OpenChat DEF Turn, TInv
  <1> QED
    BY <1>2, <1>3, <1>4 DEF Turn, Judgements, Chat!Start

\* A resume only moves the call that waits.
LEMMA ResumeMoves ==
  ASSUME TInv, NEW q \in Request, NEW r \in Run, Resume(q, r)
  PROVE  UNCHANGED Chat!vars
  <1>0. request[q].pc = "idle" /\ UNCHANGED <<streams, answers, ranCode, verdicts>>
    BY DEF Resume, harness, Idle
  <1>1. CASE Begin(q, r, "done", None) /\ UNCHANGED pausedRuns
    <2>1. request'[q].pc = "done" /\ \A p \in Request : p # q => request'[p] = request[p]
      BY <1>1 DEF Begin, TInv, TypeOK
    <2>2. Working' = Working
      BY <1>0, <2>1, WorkingMoves
    <2>3. Waiting' = Waiting
      BY <1>0, <1>1, <2>1, WaitingStays
    <2> QED
      BY <1>0, <2>2, <2>3 DEF Judgements, Chat!vars
  <1>2. CASE pausedRuns[r] # None /\ Begin(q, r, "answer", pausedRuns[r]) /\ TakePaused(r)
    <2>1. /\ request'[q].pc = "answer" /\ request'[q].call = pausedRuns[r]
          /\ \A p \in Request : p # q => request'[p] = request[p]
      BY <1>2 DEF Begin, TInv, TypeOK
    <2>2. pausedRuns'[r] = None /\ \A s \in Run : s # r => pausedRuns'[s] = pausedRuns[s]
      BY <1>2 DEF TakePaused, TInv, TypeOK
    <2>3. Working' = Working
      BY <1>0, <2>1, WorkingMoves
    <2>4. Waiting' = Waiting
      <3>1. ASSUME NEW c PROVE c \in Waiting' <=> c \in Waiting
        <4>1. c \in Waiting' <=> \/ \E s \in Run : s # r /\ pausedRuns[s] # None /\ c = pausedRuns[s]
                                \/ c = pausedRuns[r]
                                \/ \E p \in Request : p # q /\ request[p].pc = "answer" /\ c = request[p].call
          BY <2>1, <2>2 DEF Waiting
        <4>2. c \in Waiting <=> \/ \E s \in Run : s # r /\ pausedRuns[s] # None /\ c = pausedRuns[s]
                               \/ c = pausedRuns[r]
                               \/ \E p \in Request : p # q /\ request[p].pc = "answer" /\ c = request[p].call
          BY <1>0, <1>2 DEF Waiting
        <4> QED
          BY <4>1, <4>2
      <3> QED
        BY <3>1
    <2> QED
      BY <1>0, <2>3, <2>4 DEF Judgements, Chat!vars
  <1> QED
    BY <1>1, <1>2 DEF Resume

\* What waited is answered, and its run goes on with the answer.
LEMMA AnswerAnswers ==
  ASSUME TInv, NEW q \in Request, Answer(q)
  PROVE  request[q].call \in Waiting /\ Chat!Answer(request[q].call)
  <1>0. /\ request[q].pc = "answer" /\ request[q] # Idle /\ request[q].run \in Run
        /\ OpenStream(request[q].run, {request[q].call}) /\ UNCHANGED <<pausedRuns, ranCode, verdicts>>
    BY RequestTypes DEF Answer, TInv, dicts
  <1>1. /\ request'[q].pc = "drain" /\ request'[q].run = request[q].run
        /\ \A p \in Request : p # q => request'[p] = request[p]
    BY <1>0, GotoMoves DEF Answer, TInv
  <1>2. Working' = Working \cup {request[q].run}
    BY <1>0, <1>1, WorkingMoves
  <1>3. Waiting' = Waiting \ {request[q].call}
    <2>1. ASSUME NEW c PROVE c \in Waiting' <=> c \in Waiting /\ c # request[q].call
      <3>1. c \in Waiting' <=> \/ \E s \in Run : pausedRuns[s] # None /\ c = pausedRuns[s]
                              \/ \E p \in Request : p # q /\ request[p].pc = "answer" /\ c = request[p].call
        BY <1>0, <1>1 DEF Waiting
      <3>2. c \in Waiting <=> \/ \E s \in Run : pausedRuns[s] # None /\ c = pausedRuns[s]
                             \/ c = request[q].call
                             \/ \E p \in Request : p # q /\ request[p].pc = "answer" /\ c = request[p].call
        BY <1>0 DEF Waiting
      <3>3. /\ \A s \in Run : pausedRuns[s] # None => pausedRuns[s] # request[q].call
            /\ \A p \in Request : p # q /\ request[p].pc = "answer" => request[p].call # request[q].call
        BY <1>0, WaitsOnce
      <3> QED
        BY <3>1, <3>2, <3>3
    <2> QED
      BY <2>1
  <1>4. Chat!OpenStream(request[q].run, {request[q].call})
    BY <1>0, OpenChat DEF TInv
  <1> QED
    BY <1>0, <1>2, <1>3, <1>4, WaitsOnce DEF Judgements, Chat!Answer

\* A stream that ends in no call: the run is done, or corrects itself in one more.
LEMMA FinishedChat ==
  ASSUME TInv, NEW q \in Request, NEW code \in BOOLEAN, NEW figures \in BOOLEAN,
         StreamFinished(q, code, figures)
  PROVE  /\ request[q].run \in Working
         /\ Chat!Finish(request[q].run, code) \/ Chat!Continue(request[q].run, code, {})
  <1>0. /\ request[q].pc = "drain" /\ request[q] # Idle /\ request[q].run \in Run
        /\ request[q] \in RequestState /\ UNCHANGED <<pausedRuns, verdicts>>
        /\ ranCode' = ranCode \cup IF code THEN {request[q].run} ELSE {}
    BY RequestTypes DEF StreamFinished, Ran, TInv
  <1>1. request[q].run \in Working
    BY <1>0 DEF Working
  <1>2. CASE OpenStream(request[q].run, {}) /\ request' = [request EXCEPT ![q].retries = @ - 1]
    <2>1. /\ request'[q].pc = "drain" /\ request'[q].run = request[q].run
          /\ \A p \in Request : p # q => request'[p] = request[p]
      BY <1>0, <1>2 DEF TInv, TypeOK, RequestState
    <2>2. Working' = Working
      BY <1>0, <2>1, WorkingMoves
    <2>3. Waiting' = Waiting
      BY <1>0, <2>1, WaitingStays
    <2>4. Chat!OpenStream(request[q].run, {})
      BY <1>0, <1>2, OpenChat DEF TInv
    <2>5. Chat!Judge({})
      BY <1>0 DEF Chat!Judge, Judgements
    <2> QED
      BY <1>0, <1>1, <2>2, <2>3, <2>4, <2>5 DEF Chat!Continue, Chat!Code
  <1>3. CASE Goto(q, "pop") /\ UNCHANGED harness
    <2>1. /\ request'[q].pc = "pop" /\ \A p \in Request : p # q => request'[p] = request[p]
      BY <1>0, <1>3, GotoMoves DEF TInv
    <2>2. Working' = Working \ {request[q].run}
      BY <1>0, <2>1, WorkingMoves
    <2>3. Waiting' = Waiting
      BY <1>0, <2>1, WaitingStays
    <2> QED
      BY <1>0, <1>1, <1>3, <2>2, <2>3 DEF harness, Judgements, Chat!Finish, Chat!Code
  <1> QED
    BY <1>1, <1>2, <1>3 DEF StreamFinished

\* A stream that leaves calls: the run answers those it can and goes on, or puts
\* the first to the broker.
LEMMA CallsAreMade ==
  ASSUME TypeOK, NEW r \in Run, streams[r] >= 1, NEW b \in Batch
  PROVE  Calls(r, b) \subseteq Chat!LastCalls(r)
  <1>1. streams[r] \in 1..MaxStreams
    BY DEF TypeOK
  <1>2. Calls(r, b) = Left(r, streams[r], b)
    BY DEF Calls, Left
  <1>3. Left(r, streams[r], b) \subseteq Made
    BY <1>1 DEF Made
  <1> QED
    BY <1>2, <1>3 DEF Calls, Chat!LastCalls

LEMMA PendingJudges ==
  ASSUME TInv, Truthful, NEW q \in Request, NEW code \in BOOLEAN, NEW b \in Batch,
         StreamPending(q, code, b)
  PROVE  Chat!Judge(AutoCalls(Calls(request[q].run, b)))
  <1> DEFINE auto == AutoCalls(Calls(request[q].run, b))
             judged == {c \in auto : c.name # "credentials"}
             Tell(v) == [call |-> v.call, accepted |-> v.accepted]
  <1>1. request[q].run \in codeRuns' <=> request[q].run \in ranCode'
    BY PendingFlag
  <1>2. \A c \in judged : c.run = request[q].run /\ c.name \in AutoNames
    BY DEF AutoCalls, Calls
  <1>3. verdicts' = verdicts \cup {Verdict(c, codeRuns', ranCode') : c \in judged}
    BY DEF StreamPending
  <1>4. judged = {c \in auto : c.name \in AutoNames \ {"credentials"}}
    BY <1>2
  <1> HIDE DEF auto, judged
  <1>5. \A c \in judged : Tell(Verdict(c, codeRuns', ranCode')) =
                            [call |-> c, accepted |-> c.name = "submit" /\ c.run \in ranCode']
    BY <1>1, <1>2 DEF Verdict
  <1>6. Judgements = {Tell(v) : v \in verdicts} /\ Judgements' = {Tell(v) : v \in verdicts'}
    BY DEF Judgements
  <1> HIDE DEF Tell
  <1>7. Judgements' = Judgements \cup {Tell(Verdict(c, codeRuns', ranCode')) : c \in judged}
    BY <1>3, <1>6
  <1>8. {Tell(Verdict(c, codeRuns', ranCode')) : c \in judged} =
          {[call |-> c, accepted |-> c.name = "submit" /\ c.run \in ranCode'] : c \in judged}
    BY <1>5
  <1> QED
    BY <1>4, <1>7, <1>8 DEF Chat!Judge, auto

LEMMA PendingChat ==
  ASSUME TInv, Truthful, NEW q \in Request, NEW code \in BOOLEAN, NEW b \in Batch,
         StreamPending(q, code, b)
  PROVE  /\ request[q].run \in Working
         /\ \/ \E calls \in SUBSET Chat!OwnCalls(request[q].run) :
                 Chat!Continue(request[q].run, code, calls)
            \/ \E c \in Chat!LastCalls(request[q].run) \ Chat!OwnCalls(request[q].run) :
                 Chat!Ask(request[q].run, code, c)
  <1> DEFINE r == request[q].run
             calls == Calls(r, b)
             auto == AutoCalls(calls)
             first == FirstCall(calls \ auto)
  <1>0. /\ request[q].pc = "drain" /\ request[q] # Idle /\ r \in Run /\ streams[r] >= 1
        /\ request[q] \in RequestState /\ r \in Working
        /\ ranCode' = ranCode \cup IF code THEN {r} ELSE {}
    BY RequestTypes DEF StreamPending, Ran, TInv, Started, Begun, Working
  <1>1. calls \subseteq Chat!LastCalls(r)
    BY <1>0, CallsAreMade DEF TInv
  <1>2. auto \subseteq Chat!OwnCalls(r)
    BY <1>1 DEF AutoCalls, Chat!OwnCalls
  <1>3. CASE auto # {} /\ OpenStream(r, auto) /\ UNCHANGED request
    <2>1. UNCHANGED pausedRuns
      BY <1>3 DEF StreamPending, Pauses
    <2>2. Chat!OpenStream(r, auto)
      BY <1>0, <1>3, OpenChat DEF TInv
    <2>3. Chat!Judge(auto)
      BY PendingJudges
    <2>4. Working' = Working /\ Waiting' = Waiting
      BY <1>3, <2>1 DEF Working, Waiting
    <2>5. Chat!Continue(r, code, auto)
      BY <1>0, <2>2, <2>3, <2>4 DEF Chat!Continue, Chat!Code
    <2> QED
      BY <1>0, <1>2, <2>5
  <1>4. CASE /\ auto = {} /\ UNCHANGED harness
             /\ request' = [request EXCEPT ![q].pc = "ask", ![q].call = first]
    <2>1. calls \ auto = calls
      BY <1>4
    <2>2. first \in calls /\ LastCall(r, first)
      BY <1>0, <2>1, CallsAreLast DEF TInv
    <2>3. first \in Chat!LastCalls(r) \ Chat!OwnCalls(r)
      BY <1>1, <1>4, <2>2 DEF AutoCalls, Chat!OwnCalls
    <2>4. pausedRuns' = [pausedRuns EXCEPT ![r] = first]
      BY <1>4 DEF StreamPending, Pauses
    <2>5. Judgements' = Judgements
      <3>1. verdicts' = verdicts
        BY <1>4 DEF StreamPending
      <3> QED
        BY <3>1 DEF Judgements
    <2> HIDE DEF first, auto, calls
    <2>6. pausedRuns'[r] = first /\ \A s \in Run : s # r => pausedRuns'[s] = pausedRuns[s]
      BY <1>0, <2>4 DEF TInv, TypeOK
    <2>7. /\ request'[q].pc = "ask" /\ request'[q].call = first
          /\ \A p \in Request : p # q => request'[p] = request[p]
      BY <1>0, <1>4 DEF TInv, TypeOK, RequestState
    <2>8. Working' = Working \ {r}
      BY <1>0, <2>7, WorkingMoves
    <2>9. pausedRuns[r] = None /\ first # None
      BY <1>0, <2>2, NoneAssumption DEF TInv, OneWorker, Works, LastCall
    <2>10. Waiting' = Waiting \cup {first}
      <3>1. ASSUME NEW c PROVE c \in Waiting' <=> c \in Waiting \/ c = first
        <4>1. c \in Waiting' <=> \/ \E s \in Run : s # r /\ pausedRuns[s] # None /\ c = pausedRuns[s]
                                \/ c = first
                                \/ \E p \in Request : p # q /\ request[p].pc = "answer" /\ c = request[p].call
          BY <1>0, <2>6, <2>7, <2>9 DEF Waiting
        <4>2. c \in Waiting <=> \/ \E s \in Run : s # r /\ pausedRuns[s] # None /\ c = pausedRuns[s]
                               \/ \E p \in Request : p # q /\ request[p].pc = "answer" /\ c = request[p].call
          BY <1>0, <2>9 DEF Waiting
        <4> QED
          BY <4>1, <4>2
      <3> QED
        BY <3>1
    <2>11. Chat!Ask(r, code, first)
      BY <1>0, <1>4, <2>5, <2>8, <2>10 DEF harness, Chat!Ask, Chat!Code
    <2> QED
      BY <1>0, <2>3, <2>11
  <1> QED
    BY <1>3, <1>4 DEF StreamPending

\* What ends a request otherwise loses what it worked on, if anything.
LEMMA EndsLose ==
  ASSUME TInv, NEW q \in Request, StreamError(q) \/ PopFlag(q) \/ Ask(q) \/ Cut(q)
  PROVE  Chat!Lose
  <1>1. /\ request[q] # Idle /\ UNCHANGED <<pausedRuns, streams, answers, ranCode, verdicts>>
        /\ \E pc \in {"done", "cut"} : Goto(q, pc)
    BY RequestTypes DEF StreamError, PopFlag, Ask, Cut, InProgress, dicts, harness, TInv
  <1>2. /\ request'[q].pc \in {"done", "cut"}
        /\ \A p \in Request : p # q => request'[p] = request[p]
    BY <1>1, GotoMoves DEF TInv
  <1> QED
    BY <1>1, <1>2 DEF Working, Waiting, Judgements, Chat!Lose

LEMMA RestartLoses == ASSUME TInv, Restart PROVE Chat!Lose
  <1>1. \A q \in Request : request'[q].pc \notin {"drain", "answer"}
    <2>1. ASSUME NEW q \in Request PROVE request'[q].pc \notin {"drain", "answer"}
      <3>1. CASE InProgress(q)
        <4>1. request[q] \in RequestState
          BY <3>1, RequestTypes DEF InProgress, TInv, Idle
        <4>2. request'[q] = [request[q] EXCEPT !.pc = "cut"]
          BY <3>1 DEF Restart
        <4> QED
          BY <4>1, <4>2 DEF RequestState
      <3>2. CASE ~InProgress(q)
        BY <3>2 DEF Restart, InProgress
      <3> QED
        BY <3>1, <3>2
    <2> QED
      BY <2>1
  <1>2. Working' = {} /\ Waiting' = {}
    BY <1>1 DEF Restart, Working, Waiting
  <1> QED
    BY <1>2 DEF Restart, harness, Judgements, Chat!Lose

LEMMA StepChat ==
  ASSUME TInv, Truthful, [Next]_vars
  PROVE  [Chat!Next]_(Chat!vars)
  <1>1. ASSUME NEW q \in Request, NEW r \in Run, Turn(q, r) \/ Resume(q, r)
        PROVE  [Chat!Next]_(Chat!vars)
    BY <1>1, TurnStarts, ResumeMoves DEF Chat!Next
  <1>2. ASSUME NEW q \in Request, Answer(q)
        PROVE  Chat!Next
    BY <1>2, AnswerAnswers DEF Chat!Next
  <1>3. ASSUME NEW q \in Request, NEW code \in BOOLEAN, NEW figures \in BOOLEAN,
               StreamFinished(q, code, figures)
        PROVE  Chat!Next
    BY <1>3, FinishedChat DEF Chat!Next
  <1>4. ASSUME NEW q \in Request, NEW code \in BOOLEAN, NEW b \in Batch, StreamPending(q, code, b)
        PROVE  Chat!Next
    BY <1>4, PendingChat DEF Chat!Next
  <1>5. ASSUME NEW q \in Request, StreamError(q) \/ PopFlag(q) \/ Ask(q) \/ Cut(q)
        PROVE  Chat!Next
    BY <1>5, EndsLose DEF Chat!Next
  <1>6. CASE Restart
    BY <1>6, RestartLoses DEF Chat!Next
  <1>7. CASE UNCHANGED vars
    BY <1>7 DEF vars, dicts, harness, Working, Waiting, Judgements, Chat!vars
  <1> QED
    BY <1>1, <1>2, <1>3, <1>4, <1>5, <1>6, <1>7 DEF Next, Step

\* Requests, dictionaries and harness implement chat runs, for any number of
\* requests and runs and any batches: a call is answered when the next stream of
\* its run opens and never again, a run that waits for the broker goes on with the
\* answer to that call alone, and a comparison is accepted if and only if code has
\* run in its run, whatever is cut short or forgotten meanwhile.
THEOREM ImplementsChatHolds == Spec => ImplementsChat
  <1>1. Init => Chat!Init /\ Truthful
    BY DEF Init, Idle, Working, Waiting, Judgements, Chat!Init, Truthful, Alive
  <1>2. TInv /\ Truthful /\ [Next]_vars => Truthful' /\ [Chat!Next]_(Chat!vars)
    BY TruthfulStep, StepChat
  <1> QED
    BY <1>1, <1>2, TInvInit, TInvStep, PTL DEF Spec, ImplementsChat, Chat!Spec


-----------------------------------------------------------------------------
\* What the comment on _paused_runs says (main.py:49), and the dialog rests on, for
\* agents that keep to their prompt: what a stream leaves pending has a call the
\* backend answers itself, or starts with confirm_listing_change.
ConfirmsFirst == \A b \in Batch : b[1] = "confirm" \/ \E k \in DOMAIN b : b[k] \in AutoNames

\* Then a run waits only for a confirmation; and without faults no request dies,
\* so whoever waits has been asked or is about to be.
PausedAsPrompted ==
  /\ \A r \in Run : pausedRuns[r] # None => pausedRuns[r].name = "confirm"
  /\ ~Faults =>
       /\ \A q \in Request : request[q].pc # "cut"
       /\ \A r \in Run : pausedRuns[r] # None =>
            \E q \in Request : /\ request[q] # Idle /\ request[q].call = pausedRuns[r]
                               /\ request[q].pc = "ask" \/ sent[q] = <<"interrupt">>

AsksConfirm ==
  /\ \A r \in Run : pausedRuns[r] # None => pausedRuns[r].name = "confirm"
  /\ \A q \in Request : request[q].pc = "ask" => request[q].call.name = "confirm"
  /\ ~Faults => \A q \in Request : request[q].pc # "cut"

\* The first call of a batch is its first element.
LEMMA FirstIsFirst ==
  ASSUME TypeOK, NEW r \in Run, streams[r] >= 1, NEW b \in Batch
  PROVE  FirstCall(Calls(r, b)).name = b[1]
  <1>1. b \in Seq(Name) /\ Len(b) >= 1 /\ DOMAIN b = 1..Len(b)
    BY BatchAssumption
  <1>2. FirstCall(Calls(r, b)) \in Calls(r, b)
    BY CallsAreLast
  <1> DEFINE one == [run |-> r, stream |-> streams[r], pos |-> 1, name |-> b[1]]
  <1>3. one \in Calls(r, b) /\ \A d \in Calls(r, b) : one.pos <= d.pos
    BY <1>1 DEF Calls
  <1>4. PICK k \in DOMAIN b : FirstCall(Calls(r, b)) =
          [run |-> r, stream |-> streams[r], pos |-> k, name |-> b[k]]
    BY <1>2 DEF Calls
  <1>5. \A d \in Calls(r, b) : FirstCall(Calls(r, b)).pos <= d.pos
    <2> HIDE DEF one
    <2> QED
      BY <1>3 DEF FirstCall
  <1>6. k <= 1
    BY <1>3, <1>4, <1>5
  <1>7. k = 1
    BY <1>1, <1>6
  <1> QED
    BY <1>4, <1>7

LEMMA AsksConfirmStep == TInv /\ ConfirmsFirst /\ AsksConfirm /\ [Next]_vars => AsksConfirm'
  <1> SUFFICES ASSUME TInv, ConfirmsFirst, AsksConfirm, [Next]_vars PROVE AsksConfirm'
    OBVIOUS
  <1>0. TypeOK
    BY DEF TInv
  <1>1. CASE UNCHANGED vars
    BY <1>1 DEF vars, dicts, AsksConfirm
  \* A request moves to a place other than "ask", and nothing is paused.
  <1>2. ASSUME NEW q \in Request, \A p \in Request : p # q => request'[p] = request[p],
               request'[q].pc # "ask",
               Faults \/ request'[q].pc # "cut",
               \A r \in Run : pausedRuns'[r] # None => pausedRuns'[r] = pausedRuns[r]
        PROVE  AsksConfirm'
    BY <1>2 DEF AsksConfirm
  <1>3. ASSUME NEW q \in Request, NEW r \in Run, Turn(q, r) PROVE AsksConfirm'
    <2>1. /\ \A p \in Request : p # q => request'[p] = request[p]
          /\ request'[q].pc = "drain" /\ UNCHANGED pausedRuns
      BY <1>0, <1>3 DEF Turn, Begin, dicts, TypeOK
    <2> QED
      BY <1>2, <2>1
  <1>4. ASSUME NEW q \in Request, NEW r \in Run, Resume(q, r) PROVE AsksConfirm'
    <2>1. /\ \A p \in Request : p # q => request'[p] = request[p]
          /\ request'[q].pc \in {"done", "answer"}
      BY <1>0, <1>4 DEF Resume, Begin, TypeOK
    <2>2. \A s \in Run : pausedRuns'[s] # None => pausedRuns'[s] = pausedRuns[s]
      BY <1>0, <1>4 DEF Resume, TakePaused, TypeOK
    <2> QED
      BY <1>2, <2>1, <2>2
  <1>5. ASSUME NEW q \in Request, Answer(q) \/ StreamError(q) \/ PopFlag(q) PROVE AsksConfirm'
    <2>1. request[q] # Idle /\ UNCHANGED pausedRuns /\ \E pc \in {"drain", "done"} : Goto(q, pc)
      BY <1>5 DEF Answer, StreamError, PopFlag, dicts, Idle
    <2>2. request'[q].pc \in {"drain", "done"} /\ \A p \in Request : p # q => request'[p] = request[p]
      BY <1>0, <2>1, GotoMoves
    <2> QED
      BY <1>2, <2>1, <2>2
  <1>6. ASSUME NEW q \in Request, Ask(q) PROVE AsksConfirm'
    <2>1. request[q] # Idle /\ UNCHANGED pausedRuns /\ Goto(q, "done")
      BY <1>6 DEF Ask, AsksConfirm, dicts, Idle
    <2>2. request'[q].pc = "done" /\ \A p \in Request : p # q => request'[p] = request[p]
      BY <1>0, <2>1, GotoMoves
    <2> QED
      BY <1>2, <2>1, <2>2
  <1>7. ASSUME NEW q \in Request, NEW code \in BOOLEAN, NEW figures \in BOOLEAN, StreamFinished(q, code, figures)
        PROVE  AsksConfirm'
    <2>1. /\ request[q].pc = "drain" /\ request[q] # Idle /\ request[q] \in RequestState
          /\ UNCHANGED pausedRuns
      BY <1>0, <1>7, RequestTypes DEF StreamFinished
    <2>2. CASE Goto(q, "pop")
      <3>1. request'[q].pc = "pop" /\ \A p \in Request : p # q => request'[p] = request[p]
        BY <1>0, <2>1, <2>2, GotoMoves
      <3> QED
        BY <1>2, <2>1, <3>1
    <2>3. CASE request' = [request EXCEPT ![q].retries = @ - 1]
      <3>1. request'[q].pc = "drain" /\ \A p \in Request : p # q => request'[p] = request[p]
        BY <1>0, <2>1, <2>3 DEF TypeOK, RequestState
      <3> QED
        BY <1>2, <2>1, <3>1
    <2> QED
      BY <1>7, <2>2, <2>3 DEF StreamFinished
  <1>8. ASSUME NEW q \in Request, NEW code \in BOOLEAN, NEW b \in Batch, StreamPending(q, code, b)
        PROVE  AsksConfirm'
    <2> DEFINE calls == Calls(request[q].run, b)
    <2>1. /\ request[q].pc = "drain" /\ request[q] # Idle /\ request[q] \in RequestState
          /\ request[q].run \in Run /\ streams[request[q].run] >= 1
      BY <1>0, <1>8, RequestTypes DEF StreamPending, TInv, Started, Begun
    <2>2. CASE AutoCalls(calls) # {}
      BY <1>8, <2>2 DEF StreamPending, Pauses, AsksConfirm
    <2>3. CASE AutoCalls(calls) = {}
      <3>1. b[1] = "confirm"
        <4>1. ASSUME NEW k \in DOMAIN b PROVE b[k] \notin AutoNames
          <5> DEFINE c == [run |-> request[q].run, stream |-> streams[request[q].run],
                           pos |-> k, name |-> b[k]]
          <5>1. c \in calls /\ c.name = b[k]
            BY DEF Calls
          <5> HIDE DEF c, calls
          <5> QED
            BY <2>3, <5>1 DEF AutoCalls
        <4> QED
          BY <4>1 DEF ConfirmsFirst
      <3>2. calls \ AutoCalls(calls) = calls /\ FirstCall(calls).name = "confirm"
        BY <1>0, <2>1, <2>3, <3>1, FirstIsFirst
      <3>3. PICK first : first = FirstCall(calls)
        OBVIOUS
      <3>4. /\ pausedRuns' = [pausedRuns EXCEPT ![request[q].run] = first]
            /\ request' = [request EXCEPT ![q].pc = "ask", ![q].call = first]
        BY <1>8, <2>3, <3>2, <3>3 DEF StreamPending, Pauses
      <3> HIDE DEF calls
      <3>5. /\ \A r \in Run : pausedRuns'[r] = pausedRuns[r] \/ pausedRuns'[r] = first
            /\ request'[q].pc = "ask" /\ request'[q].call = first
            /\ \A p \in Request : p # q => request'[p] = request[p]
        BY <1>0, <2>1, <3>4 DEF TypeOK, RequestState
      <3> QED
        BY <3>2, <3>3, <3>5 DEF AsksConfirm
    <2> QED
      BY <2>2, <2>3
  <1>9. ASSUME NEW q \in Request, Cut(q) PROVE AsksConfirm'
    <2>1. request[q] # Idle /\ UNCHANGED pausedRuns /\ Goto(q, "cut") /\ Faults
      BY <1>9 DEF Cut, InProgress, dicts, Idle
    <2>2. request'[q].pc = "cut" /\ \A p \in Request : p # q => request'[p] = request[p]
      BY <1>0, <2>1, GotoMoves
    <2> QED
      BY <1>2, <2>1, <2>2
  <1>10. CASE Restart
    <2>1. ASSUME NEW q \in Request PROVE request'[q].pc # "ask"
      <3>1. request'[q] = IF InProgress(q) THEN [request[q] EXCEPT !.pc = "cut"] ELSE request[q]
        BY <1>10 DEF Restart
      <3>2. InProgress(q) => request[q] \in RequestState
        BY <1>0, RequestTypes DEF InProgress, Idle
      <3> QED
        BY <3>1, <3>2 DEF InProgress, RequestState
    <2>2. pausedRuns' = [r \in Run |-> None] /\ Faults
      BY <1>10 DEF Restart
    <2> QED
      BY <2>1, <2>2 DEF AsksConfirm
  <1> QED
    BY <1>1, <1>3, <1>4, <1>5, <1>6, <1>7, <1>8, <1>9, <1>10 DEF Next, Step

\* PausedAsPrompted: what the runs that are paused on anything else, or on a
\* question nobody put, have in common is a batch that no prompt asks for.
THEOREM PausedAsPromptedHolds == Spec => [](ConfirmsFirst => PausedAsPrompted)
  <1>1. Init => AsksConfirm
    BY DEF Init, AsksConfirm, Idle
  <1>2. ASSUME AsksConfirm, PausedIsAsked PROVE PausedAsPrompted
    BY <1>2 DEF AsksConfirm, PausedIsAsked, PausedAsPrompted
  <1>3. CASE ConfirmsFirst
    <2>1. TInv /\ AsksConfirm /\ [Next]_vars => AsksConfirm'
      BY <1>3, AsksConfirmStep
    <2> QED
      BY <1>1, <1>2, <2>1, TInvInit, TInvStep, PausedIsAskedHolds, PTL DEF Spec
  <1>4. CASE ~ConfirmsFirst
    <2>1. ConfirmsFirst => PausedAsPrompted
      BY <1>4
    <2> QED
      BY <2>1, PTL
  <1> QED
    BY <1>3, <1>4
===============================================================================
