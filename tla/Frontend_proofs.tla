---------------------------- MODULE Frontend_proofs ----------------------------
(***************************************************************************)
(* Theorems about the browser tab on top of the chat runs, for any number  *)
(* of sign-ins, keys, runs and requests, with and without faults.          *)
(***************************************************************************)
EXTENDS Frontend, AguiRuns_proofs

\* A sequence of one event, at most and at least.
LEMMA OneEvent ==
  ASSUME NEW S, NEW s \in Seq(S), Len(s) <= 1, s # <<>>
  PROVE  \E e \in S : s = <<e>>
  <1>1. Len(s) \in Nat
    OBVIOUS
  <1>2. Len(s) # 0
    BY <1>1
  <1>3. Len(s) = 1
    BY <1>1, <1>2
  <1>4. s[1] \in S
    BY <1>3
  <1>5. s = <<s[1]>>
    BY <1>3
  <1> QED
    BY <1>4, <1>5

USE LoginsAssumption, KeysAssumption

-----------------------------------------------------------------------------
\* A request that has not been sent is nobody's.
NobodysYet == \A q \in Request : request[q] = Idle => by[q] = 0 /\ reader[q] = "none"

AppTInv == TInv /\ AppTypeOK /\ NobodysYet

LEMMA AppTInvInit == AppInit => AppTInv
  <1> SUFFICES ASSUME AppInit PROVE AppTInv
    OBVIOUS
  <1>1. TInv /\ TypeOK
    BY TInvInit DEF AppInit, TInv
  <1>2. AppTypeOK
    <2>1. 1 \in Session /\ 1 \in 1..MaxKeys /\ 0 \in 0..MaxKeys
      BY DEF Session
    <2>2. running \in BOOLEAN /\ clean \in BOOLEAN
      BY Zenon DEF AppInit
    <2>3. /\ by \in [Request -> {0} \cup Session]
          /\ reader \in [Request -> {"none", "open", "told", "closed"}]
      BY DEF AppInit
    <2>4. /\ session \in Session /\ token \in Token \cup {None}
          /\ runId \in Run \cup {None} /\ dialog \in ToolUse \cup {None}
          /\ screen \subseteq Run /\ published \in 1..MaxKeys /\ jwks \in 0..MaxKeys
          /\ warned \subseteq Run \cup {None} /\ passed \subseteq Run
      BY <2>1, Zenon DEF AppInit
    <2> QED
      BY <1>1, <2>2, <2>3, <2>4, Zenon DEF AppTypeOK
  <1> QED
    BY <1>1, <1>2 DEF AppTInv, NobodysYet, AppInit

\* The new request and the new run, where there are any left.
LEMMA NewOnes ==
  /\ Unsent # {} => NewRequest \in Request /\ request[NewRequest] = Idle
  /\ Unused # {} => /\ NewRun \in Run
                    /\ \A q \in Request : request[q] # Idle => request[q].run # NewRun
  BY DEF Unsent, NewRequest, Unused, NewRun

LEMMA KeyInUseType == AppTypeOK => KeyInUse \in 1..MaxKeys /\ KeyInUse \in 0..MaxKeys
  BY DEF AppTypeOK, KeyInUse

\* A step that sends a request begins one of AguiRuns.
LEMMA Sends ==
  ASSUME AppTInv, SendMessage \/ AnswerDialog, ~UNCHANGED vars
  PROVE  \E q \in Request, r \in Run :
           /\ request[q] = Idle /\ Read(q)
           /\ \/ SendMessage /\ Turn(q, r) /\ runId' = r
              \/ AnswerDialog /\ Resume(q, r) /\ UNCHANGED runId /\ r \in {runId, NewRun}
           /\ (r = runId /\ runId # None) \/ \A p \in Request : request[p] # Idle => request[p].run # r
  <1>1. CASE SendMessage
    <2>1. /\ NewRequest \in Request /\ request[NewRequest] = Idle /\ NewRun \in Run
          /\ \A q \in Request : request[q] # Idle => request[q].run # NewRun
      BY <1>1, NewOnes DEF SendMessage
    <2>2. /\ runId' = NewRun
          /\ \/ Turn(NewRequest, runId') /\ Read(NewRequest)
             \/ UNCHANGED vars
      BY <1>1 DEF SendMessage, Refused
    <2>3. PICK r : r = NewRun
      OBVIOUS
    <2>4. PICK q : q = NewRequest
      OBVIOUS
    <2>5. runId' = r /\ Turn(q, r) /\ Read(q)
      BY <2>2, <2>3, <2>4
    <2> QED
      BY <1>1, <2>1, <2>3, <2>4, <2>5
  <1>2. CASE AnswerDialog
    <2> DEFINE run == IF runId = None THEN NewRun ELSE runId
    <2>1. NewRequest \in Request /\ request[NewRequest] = Idle
      BY <1>2, NewOnes DEF AnswerDialog
    <2>2. run \in Run /\ run \in {runId, NewRun}
      BY <1>2, NewOnes DEF AnswerDialog, AppTInv, AppTypeOK
    <2>3. (run = runId /\ runId # None) \/ \A p \in Request : request[p] # Idle => request[p].run # run
      BY <1>2, NewOnes DEF AnswerDialog
    <2>4. /\ UNCHANGED runId
          /\ (Resume(NewRequest, run) /\ Read(NewRequest)) \/ UNCHANGED vars
      BY <1>2 DEF AnswerDialog, Refused
    <2> QED
      BY <1>2, <2>1, <2>2, <2>3, <2>4
  <1> QED
    BY <1>1, <1>2

\* What a tab does otherwise leaves the backend alone.
LEMMA RunsStep == AppTInv /\ [AppNext]_appVars => [Next]_vars
  <1> SUFFICES ASSUME AppTInv, [AppNext]_appVars PROVE [Next]_vars
    OBVIOUS
  <1>1. CASE SendMessage \/ AnswerDialog
    <2>1. ASSUME NEW q \in Request, NEW r \in Run, Turn(q, r) \/ Resume(q, r)
          PROVE  Next
      BY <2>1 DEF Next
    <2> QED
      BY <1>1, <2>1, Sends
  <1>2. CASE Backend
    BY <1>2 DEF Backend, Behind, Next
  <1>3. ASSUME NEW q \in Request, Show(q) \/ Deliver(q) \/ BrokenOff(q) \/ ConnectionLost(q)
        PROVE  UNCHANGED vars
    BY <1>3 DEF Show, Deliver, BrokenOff, ConnectionLost, Reject
  <1>4. CASE LogIn \/ LogOut \/ CacheAges \/ Rotate \/ UNCHANGED appVars
    BY <1>4 DEF LogIn, LogOut, CacheAges, Rotate, appVars
  <1> QED
    BY <1>1, <1>2, <1>3, <1>4 DEF AppNext

-----------------------------------------------------------------------------
\* The backend goes on with requests it has, and ends none twice.
Goes(p) ==
  /\ request[p] = Idle => request'[p] = Idle
  /\ request[p] # Idle => request'[p] # Idle /\ request'[p].run = request[p].run
  /\ request[p] # Idle /\ request[p].pc = "done" => UNCHANGED <<request[p], sent[p]>>

LEMMA BackendGoes ==
  ASSUME TInv, Backend
  PROVE  \A p \in Request : Goes(p)
  <1>1. CASE Restart
    <2>1. ASSUME NEW p \in Request, InProgress(p)
          PROVE  Goes(p)
      <3>1. request[p] \in RequestState /\ request[p] # Idle
        BY <2>1 DEF InProgress, TInv, TypeOK, Idle
      <3>2. request'[p] = [request[p] EXCEPT !.pc = "cut"]
        BY <1>1, <2>1 DEF Restart
      <3> QED
        BY <2>1, <3>1, <3>2 DEF Goes, RequestState, InProgress, Idle
    <2>2. ASSUME NEW p \in Request, ~InProgress(p)
          PROVE  Goes(p)
      BY <1>1, <2>2 DEF Restart, Goes
    <2> QED
      BY <2>1, <2>2
  <1>2. ASSUME NEW q \in Request, Step(q) \/ Cut(q)
        PROVE  \A p \in Request : Goes(p)
    <2>0. request[q].pc \in {"answer", "drain", "ask", "pop"}
      BY <1>2 DEF Step, Answer, StreamError, PopFlag, Ask, StreamFinished, StreamPending,
                  Cut, InProgress
    <2>1. request[q] # Idle /\ request[q] \in RequestState
      BY <2>0, RequestTypes DEF TInv
    <2>2. \/ \E pc \in {"answer", "drain", "ask", "pop", "done", "cut"} : Goto(q, pc)
          \/ request' = [request EXCEPT ![q].retries = @ - 1]
          \/ UNCHANGED request
          \/ \E c : request' = [request EXCEPT ![q].pc = "ask", ![q].call = c]
      BY <1>2 DEF Step, Answer, StreamError, PopFlag, Ask, StreamFinished, StreamPending, Cut
    <2>3. /\ \A p \in Request : p # q => request'[p] = request[p]
          /\ request'[q].run = request[q].run /\ request'[q] # Idle
      BY <2>1, <2>2 DEF Goto, TInv, TypeOK, RequestState, Idle
    <2>4. \A p \in Request : p # q => sent'[p] = sent[p]
      BY <1>2 DEF Step, Answer, StreamError, PopFlag, Ask, StreamFinished, StreamPending, Cut,
                  Send, TInv, TypeOK
    <2> QED
      BY <2>0, <2>1, <2>3, <2>4 DEF Goes
  <1> QED
    BY <1>1, <1>2 DEF Backend, Behind

\* The types of what each group of actions changes.
LEMMA TabTypes ==
  ASSUME AppTInv, [AppNext]_appVars
  PROVE  /\ session' \in Session /\ token' \in Token \cup {None}
         /\ runId' \in Run \cup {None} /\ dialog' \in ToolUse \cup {None}
         /\ screen' \subseteq Run
         /\ by' \in [Request -> {0} \cup Session]
         /\ reader' \in [Request -> {"none", "open", "told", "closed"}]
         /\ published' \in 1..MaxKeys /\ jwks' \in 0..MaxKeys
  <1>0. AppTypeOK /\ KeyInUse \in 1..MaxKeys /\ KeyInUse \in 0..MaxKeys
    BY KeyInUseType DEF AppTInv
  <1> USE DEF AppTypeOK
  <1>1. CASE LogIn
    BY <1>0, <1>1 DEF LogIn, Fetch, readers, Token
  <1>2. CASE LogOut
    BY <1>0, <1>2 DEF LogOut, ForgetRunId, ClearScreen, readers, keys, Session
  <1>3. CASE SendMessage \/ AnswerDialog
    <2>1. jwks' \in 0..MaxKeys
      BY <1>0, <1>3 DEF SendMessage, AnswerDialog, Accepted, Refused, FetchFails, Fetch
    <2>2. runId' \in Run \cup {None} /\ dialog' \in ToolUse \cup {None}
      BY <1>0, <1>3, NewOnes DEF SendMessage, AnswerDialog, CloseDialog
    <2>3. /\ by' \in [Request -> {0} \cup Session]
          /\ reader' \in [Request -> {"none", "open", "told", "closed"}]
      BY <1>0, <1>3 DEF SendMessage, AnswerDialog, Refused, Read, readers
    <2> QED
      BY <1>0, <1>3, <2>1, <2>2, <2>3 DEF SendMessage, AnswerDialog
  <1>4. ASSUME NEW q \in Request, Show(q)
        PROVE  /\ screen' \subseteq Run
               /\ UNCHANGED <<session, token, runId, dialog, by, reader, published, jwks>>
    <2>1. request[q].run \in Run
      BY <1>4, RequestTypes DEF Show, AppTInv, TInv, NobodysYet
    <2> QED
      BY <1>0, <1>4, <2>1 DEF Show, readers, keys
  <1>5. ASSUME NEW q \in Request, Deliver(q)
        PROVE  /\ dialog' \in ToolUse \cup {None}
               /\ reader' \in [Request -> {"none", "open", "told", "closed"}]
               /\ UNCHANGED <<session, token, runId, screen, by, published, jwks>>
    <2>1. request[q].call \in ToolUse \cup {None}
      BY <1>5, RequestTypes DEF Deliver, AppTInv, TInv, NobodysYet, RequestState
    <2>2. dialog' \in ToolUse \cup {None}
      BY <1>0, <1>5, <2>1 DEF Deliver, Outcome, CloseDialog
    <2> QED
      BY <1>0, <1>5, <2>2 DEF Deliver, keys
  <1>6. ASSUME NEW q \in Request, BrokenOff(q) \/ ConnectionLost(q)
        PROVE  /\ reader' \in [Request -> {"none", "open", "told", "closed"}]
               /\ UNCHANGED <<session, token, runId, dialog, screen, by, published, jwks>>
    BY <1>0, <1>6 DEF BrokenOff, ConnectionLost, Reject, keys
  <1>7. CASE Backend \/ UNCHANGED appVars
    BY <1>0, <1>7 DEF Backend, Behind, appVars, tab, readers, keys
  <1>8. CASE CacheAges
    BY <1>0, <1>8 DEF CacheAges, tab, readers
  <1>9. CASE Rotate
    BY <1>0, <1>9 DEF Rotate, tab, readers
  <1> QED
    BY <1>0, <1>1, <1>2, <1>3, <1>4, <1>5, <1>6, <1>7, <1>8, <1>9 DEF AppNext

LEMMA MarkTypes ==
  ASSUME AppTypeOK, [AppNext]_appVars
  PROVE  warned' \subseteq Run \cup {None} /\ passed' \subseteq Run
  <1> USE DEF AppTypeOK
  <1>1. CASE SendMessage
    <2>1. runId' \in Run /\ (dialog # None => dialog.run \in Run)
      BY <1>1, NewOnes DEF SendMessage, ToolUse
    <2> QED
      BY <1>1, <2>1 DEF SendMessage, Refused
  <1>2. CASE AnswerDialog
    BY <1>2 DEF AnswerDialog, Refused
  <1>3. ASSUME NEW q \in Request, Show(q) \/ Deliver(q) \/ BrokenOff(q) \/ ConnectionLost(q)
        PROVE  warned' \in {warned, warned \cup {runId}} /\ passed' = passed
    BY <1>3 DEF Show, Deliver, BrokenOff, ConnectionLost, Reject
  <1>4. CASE LogIn \/ LogOut \/ CacheAges \/ Rotate \/ Backend \/ UNCHANGED appVars
    BY <1>4 DEF LogIn, LogOut, CacheAges, Rotate, Backend, Behind, appVars, tab
  <1> QED
    BY <1>1, <1>2, <1>3, <1>4 DEF AppNext

\* What becomes of a request, and whose it is.
LEMMA RequestsKeep ==
  ASSUME AppTInv, [AppNext]_appVars
  PROVE  \/ UNCHANGED <<request, sent, by>>
         \/ Backend /\ (\A p \in Request : Goes(p)) /\ UNCHANGED <<by, session, runId>>
         \/ \E q \in Request, r \in Run :
              /\ request[q] = Idle /\ Read(q)
              /\ \/ SendMessage /\ Turn(q, r) /\ runId' = r
                 \/ AnswerDialog /\ Resume(q, r) /\ UNCHANGED runId /\ r \in {runId, NewRun}
              /\ (r = runId /\ runId # None) \/ \A p \in Request : request[p] # Idle => request[p].run # r
  <1>1. CASE SendMessage \/ AnswerDialog
    <2>1. UNCHANGED vars => UNCHANGED <<request, sent>>
      BY DEF vars
    <2>2. \/ UNCHANGED <<vars, readers>>
          \/ \E q \in Request, r \in Run : Turn(q, r) \/ Resume(q, r)
      BY <1>1, NewOnes DEF SendMessage, AnswerDialog, Refused, AppTInv, AppTypeOK
    <2>3. ASSUME NEW q \in Request, NEW r \in Run, Turn(q, r) \/ Resume(q, r)
          PROVE  ~UNCHANGED vars
      BY <2>3 DEF Turn, Resume, Begin, vars, AppTInv, AppTypeOK, TypeOK, Idle
    <2> QED
      BY <1>1, <2>1, <2>2, <2>3, Sends DEF readers
  <1>2. CASE Backend
    BY <1>2, BackendGoes DEF Backend, Behind, readers, tab, AppTInv
  <1>3. ASSUME NEW q \in Request, Show(q) \/ Deliver(q) \/ BrokenOff(q) \/ ConnectionLost(q)
        PROVE  UNCHANGED <<request, sent, by>>
    BY <1>3 DEF Show, Deliver, BrokenOff, ConnectionLost, Reject, vars, readers
  <1>4. CASE LogIn \/ LogOut \/ CacheAges \/ Rotate \/ UNCHANGED appVars
    BY <1>4 DEF LogIn, LogOut, CacheAges, Rotate, appVars, vars, readers
  <1> QED
    BY <1>1, <1>2, <1>3, <1>4 DEF AppNext

\* The request that a step sends is no longer idle.
LEMMA SentRequest ==
  ASSUME TypeOK, NEW q \in Request, NEW r \in Run, Turn(q, r) \/ Resume(q, r)
  PROVE  /\ request'[q] # Idle /\ request'[q].run = r
         /\ \A p \in Request : p # q => request'[p] = request[p] /\ sent'[p] = sent[p]
  BY DEF Turn, Resume, Begin, Send, TypeOK, Idle

\* Nobody reads an answer to a request that was not sent.
LEMMA NobodyStep ==
  ASSUME AppTInv, [AppNext]_appVars
  PROVE  NobodysYet'
  <1>1. CASE UNCHANGED <<request, sent, by>>
    <2>1. ASSUME NEW q \in Request, request[q] = Idle
          PROVE  reader'[q] = "none"
      <3>1. reader[q] = "none"
        BY <2>1 DEF AppTInv, NobodysYet
      <3>2. ASSUME SendMessage \/ AnswerDialog PROVE reader'[q] = reader[q]
        <4>1. \/ UNCHANGED readers
              \/ NewRequest \in Request /\ request[NewRequest] = Idle /\ Read(NewRequest)
          BY <3>2, NewOnes DEF SendMessage, AnswerDialog, Refused
        <4>2. ASSUME NEW p \in Request, request[p] = Idle, Read(p) PROVE FALSE
          BY <1>1, <4>2 DEF Read, AppTInv, AppTypeOK, NobodysYet, Session
        <4> QED
          BY <4>1, <4>2 DEF readers
      <3>3. ASSUME NEW p \in Request, Deliver(p) \/ BrokenOff(p) \/ ConnectionLost(p)
            PROVE  reader'[q] = reader[q]
        <4>1. reader[p] # "none" /\ \E new : reader' = [reader EXCEPT ![p] = new]
          BY <3>3 DEF Deliver, BrokenOff, ConnectionLost, Reject
        <4> QED
          BY <3>1, <4>1 DEF AppTInv, AppTypeOK
      <3>4. ASSUME \/ LogIn \/ LogOut \/ CacheAges \/ Rotate \/ Backend
                   \/ UNCHANGED appVars \/ \E p \in Request : Show(p)
            PROVE  UNCHANGED reader
        BY <3>4 DEF LogIn, LogOut, CacheAges, Rotate, Backend, Behind, Show, appVars, readers
      <3> QED
        BY <3>1, <3>2, <3>3, <3>4 DEF AppNext
    <2> QED
      BY <1>1, <2>1 DEF AppTInv, NobodysYet
  <1>2. CASE Backend /\ \A p \in Request : Goes(p)
    BY <1>2 DEF Backend, Behind, readers, Goes, AppTInv, NobodysYet
  <1>3. ASSUME NEW q \in Request, NEW r \in Run, Read(q), Turn(q, r) \/ Resume(q, r)
        PROVE  NobodysYet'
    <2>1. \A p \in Request : p # q => by'[p] = by[p] /\ reader'[p] = reader[p]
      BY <1>3 DEF Read, AppTInv, AppTypeOK
    <2> QED
      BY <1>3, <2>1, SentRequest DEF AppTInv, TInv, NobodysYet
  <1> QED
    BY <1>1, <1>2, <1>3, RequestsKeep

LEMMA AppTInvStep == AppTInv /\ [AppNext]_appVars => AppTInv'
  <1> SUFFICES ASSUME AppTInv, [AppNext]_appVars PROVE AppTInv'
    OBVIOUS
  <1>1. TInv' /\ TypeOK'
    BY RunsStep, TInvStep DEF AppTInv, TInv
  <1>2. running' \in BOOLEAN /\ clean' \in BOOLEAN
    <2>1. running \in BOOLEAN /\ clean \in BOOLEAN
      BY Zenon DEF AppTInv, AppTypeOK
    <2>2. ASSUME NEW q \in Request, Show(q) \/ Deliver(q) \/ BrokenOff(q) \/ ConnectionLost(q)
          PROVE  running' \in BOOLEAN /\ clean' \in BOOLEAN
      BY <2>1, <2>2, Zenon DEF Show, Deliver, BrokenOff, ConnectionLost, Reject, Release
    <2>3. CASE SendMessage \/ AnswerDialog
      BY <2>1, <2>3, Zenon DEF SendMessage, AnswerDialog, Refused
    <2>4. CASE \/ LogIn \/ LogOut \/ CacheAges \/ Rotate \/ Backend
               \/ UNCHANGED appVars
      BY <2>1, <2>4, Zenon DEF LogIn, LogOut, CacheAges, Rotate, Backend, Behind, appVars, tab
    <2> QED
      BY <2>2, <2>3, <2>4, Zenon DEF AppNext
  <1>3. AppTypeOK'
    BY <1>1, <1>2, TabTypes, MarkTypes, Zenon DEF AppTInv, AppTypeOK
  <1> QED
    BY <1>1, <1>3, NobodyStep DEF AppTInv

\* AppTypeOK of Frontend: the tab, its readers and the cached keys stay in their
\* types; what an outcome puts on the dialog is a call (App.jsx:98).
THEOREM AppTypeCorrect == AppSpec => []AppTypeOK
  <1>1. AppTInv => AppTypeOK
    BY DEF AppTInv
  <1> QED
    BY <1>1, AppTInvInit, AppTInvStep, PTL DEF AppSpec

\* With a real front end the backend is still one of AguiRuns, so that what is
\* proved of it for any clients holds (main.py:282-327).
THEOREM AppImplementsRuns == AppSpec => Spec
  <1>1. AppInit => Init
    BY DEF AppInit
  <1> QED
    BY <1>1, AppTInvInit, AppTInvStep, RunsStep, PTL DEF AppSpec, Spec

\* ImplementsChat of AguiRuns: with this client too, whatever it repeats, signs
\* out of or leaves open, a chat run works, waits for one answer, or is over.
THEOREM AppImplementsChat == AppSpec => ImplementsChat
  BY AppImplementsRuns, ImplementsChatHolds

\* And what the backend promises to any client it keeps with this one
\* (main.py:116-327).
THEOREM AppKeepsRuns ==
  AppSpec => [](/\ AnsweredOnce /\ OneTerminal
                /\ FlagsBounded /\ PausedIsAsked)
  BY AppImplementsRuns, AnsweredOnceHolds, OneTerminalHolds,
     FlagsBoundedHolds, PausedIsAskedHolds, PTL

-----------------------------------------------------------------------------
\* A request that its run took: a turn, or an answer that the run waited for.
Took(q) == request[q] # Idle /\ sent[q] # <<"unknown">>

\* What the current run took came from the current session.
Current == runId # None => \A q \in Request : Took(q) /\ request[q].run = runId => by[q] = session

\* A request for an unknown run does nothing else.
UnknownIsOver == \A q \in Request : request[q] # Idle /\ ~Took(q) => request[q].pc = "done"

OInv == AppTInv /\ SentWhenOver /\ UnknownIsOver /\ Current /\ OwnAnswer

LEMMA OwnAnswerTook ==
  OwnAnswer <=> \A p, q \in Request :
                  Took(p) /\ Took(q) /\ request[p].run = request[q].run => by[p] = by[q]
  BY DEF OwnAnswer, Took

\* In a step of the backend no request is taken that was not.
LEMMA TakesNone ==
  ASSUME AppTInv, SentWhenOver, UnknownIsOver, Backend, NEW p \in Request, Took(p)'
  PROVE  Took(p) /\ request'[p].run = request[p].run
  <1>1. Goes(p)
    BY BackendGoes DEF AppTInv
  <1> QED
    BY <1>1 DEF Goes, Took, UnknownIsOver

\* What the backend sends for a request that goes on is never "unknown".
LEMMA StaysKnown ==
  ASSUME AppTInv, SentWhenOver, UnknownIsOver, Backend
  PROVE  UnknownIsOver'
  <1>0. TInv /\ TypeOK /\ \A p \in Request : Goes(p)
    BY BackendGoes DEF AppTInv, TInv
  <1>1. ASSUME NEW p \in Request, request'[p] # Idle, sent'[p] = <<"unknown">>
        PROVE  request'[p].pc = "done"
    <2>1. request[p] # Idle
      BY <1>0, <1>1 DEF Goes
    <2>2. sent[p] # <<"unknown">> =>
            /\ sent[p] = <<>>
            /\ \E e \in {"finished", "interrupt", "error"} : sent'[p] = Append(sent[p], e)
      <3>1. CASE Restart
        BY <1>1, <3>1 DEF Restart
      <3>2. ASSUME NEW q \in Request, Step(q) \/ Cut(q), sent[p] # <<"unknown">>
            PROVE  /\ sent[p] = <<>>
                   /\ \E e \in {"finished", "interrupt", "error"} : sent'[p] = Append(sent[p], e)
        <4>1. /\ request[q].pc \in {"drain", "ask"}
              /\ \E e \in {"finished", "interrupt", "error"} : Send(q, <<e>>)
          BY <1>1, <3>2 DEF Step, Answer, StreamError, PopFlag, Ask, StreamFinished, StreamPending,
                            Cut, ErrorEvents
        <4>2. p = q /\ sent[p] = <<>>
          BY <1>0, <1>1, <3>2, <4>1 DEF Send, TypeOK, SentWhenOver, SentRightly
        <4>3. PICK e \in {"finished", "interrupt", "error"} : Send(q, <<e>>)
          BY <4>1
        <4>4. sent'[p] = Append(sent[p], e)
          <5>1. sent'[p] = sent[p] \o <<e>>
            BY <1>0, <4>2, <4>3 DEF Send, TypeOK
          <5>2. <<>> \o <<e>> = Append(<<>>, e)
            OBVIOUS
          <5> QED
            BY <4>2, <5>1, <5>2
        <4> QED
          BY <4>2, <4>4
      <3> QED
        BY <3>1, <3>2 DEF Backend, Behind
    <2>3. ASSUME NEW e \in {"finished", "interrupt", "error"}
          PROVE  Append(<<>>, e) # <<"unknown">>
      OBVIOUS
    <2>4. sent[p] = <<"unknown">>
      BY <1>1, <2>2, <2>3
    <2>5. request[p].pc = "done"
      BY <2>1, <2>4 DEF UnknownIsOver, Took
    <2> QED
      BY <1>0, <2>1, <2>5 DEF Goes
  <1> QED
    BY <1>1 DEF UnknownIsOver, Took

\* Where no request is sent, the run id changes only to none or to a new run.
LEMMA RunIdMoves ==
  ASSUME AppTInv, [AppNext]_appVars
  PROVE  \/ UNCHANGED <<runId, session>>
         \/ runId' = None
         \/ /\ UNCHANGED session
            /\ \A q \in Request : request[q] # Idle => request[q].run # runId'
  <1>1. CASE SendMessage
    BY <1>1, NewOnes DEF SendMessage
  <1>2. CASE LogOut
    BY <1>2 DEF LogOut, ForgetRunId
  <1>3. ASSUME NEW q \in Request, Show(q) \/ Deliver(q) \/ BrokenOff(q) \/ ConnectionLost(q)
        PROVE  UNCHANGED <<runId, session>>
    BY <1>3 DEF Show, Deliver, BrokenOff, ConnectionLost, Reject
  <1>4. CASE \/ LogIn \/ AnswerDialog \/ CacheAges \/ Rotate \/ Backend
             \/ UNCHANGED appVars
    BY <1>4 DEF LogIn, AnswerDialog, CacheAges, Rotate, Backend, Behind, appVars, tab
  <1> QED
    BY <1>1, <1>2, <1>3, <1>4 DEF AppNext

\* What a run takes from the tab comes from the session whose run it is.
LEMMA SendKeeps ==
  ASSUME OInv, NEW q \in Request, NEW r \in Run, request[q] = Idle, Read(q),
         \/ Turn(q, r) /\ runId' = r
         \/ Resume(q, r) /\ UNCHANGED runId /\ r \in {runId, NewRun},
         UNCHANGED session,
         (r = runId /\ runId # None) \/ \A p \in Request : request[p] # Idle => request[p].run # r
  PROVE  UnknownIsOver' /\ Current' /\ OwnAnswer'
  <1>0. TypeOK /\ AppTypeOK /\ TInv
    BY DEF OInv, AppTInv, TInv
  <1>1. /\ request'[q] # Idle /\ request'[q].run = r
        /\ \A p \in Request : p # q => request'[p] = request[p] /\ sent'[p] = sent[p]
    BY <1>0, SentRequest
  <1>2. by'[q] = session /\ \A p \in Request : p # q => by'[p] = by[p]
    BY <1>0 DEF Read, AppTypeOK
  <1>3. \A p \in Request : p # q => (Took(p)' <=> Took(p)) /\ request'[p] = request[p]
    BY <1>1 DEF Took
  <1>4. \A p \in Request : p # q /\ Took(p) /\ request[p].run = r => by[p] = session
    <2>1. CASE r = runId /\ runId # None
      BY <2>1 DEF OInv, Current
    <2>2. CASE \A p \in Request : request[p] # Idle => request[p].run # r
      BY <2>2 DEF Took
    <2> QED
      BY <2>1, <2>2
  <1>5. UnknownIsOver'
    <2>1. sent[q] = <<>> /\ <<>> # <<"unknown">>
      BY <1>0 DEF OInv, SentWhenOver, SentRightly, Idle
    <2>2. Turn(q, r) => sent'[q] = <<>>
      BY <2>1 DEF Turn
    <2>3. Resume(q, r) => request'[q].pc = "done" \/ sent'[q] = <<>>
      BY <1>0, <2>1 DEF Resume, Begin, TypeOK
    <2>4. ~Took(q)' => request'[q].pc = "done"
      BY <1>1, <2>1, <2>2, <2>3 DEF Took
    <2> QED
      BY <1>1, <1>3, <2>4 DEF UnknownIsOver, OInv
  <1>6. OwnAnswer'
    BY <1>1, <1>2, <1>3, <1>4, OwnAnswerTook DEF OInv, OwnAnswer, Took
  <1>7. Current'
    BY <1>1, <1>2, <1>3, <1>4 DEF OInv, Current
  <1> QED
    BY <1>5, <1>6, <1>7

LEMMA OInvStep == OInv /\ [AppNext]_appVars => OInv'
  <1> SUFFICES ASSUME OInv, [AppNext]_appVars PROVE OInv'
    OBVIOUS
  <1>0. AppTInv /\ TInv /\ AppTInv' /\ SentWhenOver'
    BY AppTInvStep, RunsStep, SentWhenOverStep DEF OInv, AppTInv
  <1>1. CASE UNCHANGED <<request, sent, by>>
    <2>1. UnknownIsOver' /\ OwnAnswer'
      BY <1>1 DEF OInv, UnknownIsOver, Took, OwnAnswer
    <2>2. Current'
      BY <1>0, <1>1, RunIdMoves DEF OInv, Current, Took
    <2> QED
      BY <1>0, <2>1, <2>2 DEF OInv
  <1>2. CASE Backend /\ UNCHANGED <<by, session, runId>>
    <2>1. \A p \in Request : Took(p)' => Took(p) /\ request'[p].run = request[p].run
      BY <1>0, <1>2, TakesNone DEF OInv
    <2>2. OwnAnswer'
      BY <1>2, <2>1 DEF OInv, OwnAnswer, Took
    <2>3. Current'
      BY <1>2, <2>1 DEF OInv, Current
    <2> QED
      BY <1>0, <1>2, <2>2, <2>3, StaysKnown DEF OInv
  <1>3. ASSUME NEW q \in Request, NEW r \in Run, request[q] = Idle, Read(q),
               \/ SendMessage /\ Turn(q, r) /\ runId' = r
               \/ AnswerDialog /\ Resume(q, r) /\ UNCHANGED runId /\ r \in {runId, NewRun},
               (r = runId /\ runId # None) \/ \A p \in Request : request[p] # Idle => request[p].run # r
        PROVE  OInv'
    <2>1. UNCHANGED session
      BY <1>3 DEF SendMessage, AnswerDialog
    <2> QED
      BY <1>0, <1>3, <2>1, SendKeeps DEF OInv
  <1> QED
    BY <1>0, <1>1, <1>2, <1>3, RequestsKeep

\* OwnAnswer of Frontend: a run id is used by one session, from the message that
\* draws it to the sign-out that forgets it (App.jsx:123, 149).
THEOREM OwnAnswerHolds == AppSpec => []OwnAnswer
  <1>1. AppInit => OInv
    BY AppTInvInit DEF AppInit, Init, OInv, SentWhenOver, SentRightly, Idle, UnknownIsOver, Current,
                       OwnAnswer
  <1>2. OInv => OwnAnswer
    BY DEF OInv
  <1> QED
    BY <1>1, <1>2, OInvStep, PTL DEF AppSpec

-----------------------------------------------------------------------------
\* A tab whose last sign-out left nothing open reads one stream or none, of its
\* own session, and is busy just while it does.
ReadsOne ==
  \/ ~running /\ \A q \in Request : reader[q] # "open"
  \/ running /\ \E q \in Request : /\ by[q] = session /\ reader[q] = "open"
                                  /\ \A p \in Request : reader[p] = "open" => p = q

BInv == clean => ReadsOne

\* Any tab that is busy reads a stream of its own session.
Busy == running => \E q \in Request : by[q] = session /\ reader[q] = "open"

LEMMA BusyIsTrueFollows == BInv /\ Busy => BusyIsTrue
  BY Zenon DEF BInv, ReadsOne, Busy, BusyIsTrue

\* A stream is opened by a tab that was not busy.
LEMMA BusySends ==
  ASSUME AppTInv, BInv, SendMessage \/ AnswerDialog, clean'
  PROVE  ReadsOne'
  <1>1. ~running /\ clean /\ UNCHANGED session
    BY Zenon DEF SendMessage, AnswerDialog, MaySend
  <1>2. \A q \in Request : reader[q] # "open"
    BY <1>1, Zenon DEF BInv, ReadsOne
  <1>3. \/ NewRequest \in Request /\ Read(NewRequest) /\ running'
        \/ UNCHANGED readers /\ ~running'
    BY NewOnes, Zenon DEF SendMessage, AnswerDialog, Refused
  <1>4. CASE UNCHANGED readers /\ ~running'
    <2>1. reader' = reader
      BY <1>4 DEF readers
    <2> QED
      BY <1>2, <1>4, <2>1, Zenon DEF ReadsOne
  <1>5. CASE NewRequest \in Request /\ Read(NewRequest) /\ running'
    <2>1. PICK q \in Request : q = NewRequest
      BY <1>5, Zenon
    <2>2. /\ by'[q] = session /\ reader'[q] = "open"
          /\ \A p \in Request : reader'[p] = "open" => p = q
      BY <1>2, <1>5, <2>1 DEF Read, AppTInv, AppTypeOK
    <2> QED
      BY <1>1, <1>5, <2>2, Zenon DEF ReadsOne
  <1> QED
    BY <1>3, <1>4, <1>5, Zenon

\* A stream that ends was the only one.
LEMMA BusyEnds ==
  ASSUME AppTInv, BInv, NEW q \in Request, reader[q] # "none",
         NEW how \in {"told", "closed"}, reader' = [reader EXCEPT ![q] = how],
         ~running', clean', clean, ~(running /\ reader[q] = "told"),
         reader[q] \in {"open", "told"}
  PROVE  ReadsOne'
  <1>1. \A p \in Request : reader[p] = "open" => p = q
    BY Zenon DEF BInv, ReadsOne
  <1>2. \A p \in Request : reader'[p] # "open"
    BY <1>1 DEF AppTInv, AppTypeOK
  <1> QED
    BY <1>2, Zenon DEF ReadsOne

LEMMA BInvStep == AppTInv /\ BInv /\ [AppNext]_appVars => BInv'
  <1> SUFFICES ASSUME AppTInv, BInv, [AppNext]_appVars, clean' PROVE ReadsOne'
    BY Zenon DEF BInv
  <1>1. CASE SendMessage \/ AnswerDialog
    BY <1>1, BusySends
  <1>2. CASE LogOut
    <2>1. ~running' /\ reader' = reader /\ \A q \in Request : reader[q] # "open"
      BY <1>2, Zenon DEF LogOut, readers
    <2> QED
      BY <2>1, Zenon DEF ReadsOne
  <1>3. ASSUME NEW q \in Request, Deliver(q)
        PROVE  ReadsOne'
    <2>1. /\ reader[q] = "open" /\ reader' = [reader EXCEPT ![q] = "told"]
          /\ ~running' /\ clean
      BY <1>3, Zenon DEF Deliver
    <2> QED
      BY <2>1, BusyEnds
  <1>4. ASSUME NEW q \in Request, BrokenOff(q) \/ ConnectionLost(q)
        PROVE  ReadsOne'
    <2>1. /\ reader[q] \in {"open", "told"} /\ reader' = [reader EXCEPT ![q] = "closed"]
          /\ ~running' /\ clean /\ ~(running /\ reader[q] = "told")
      BY <1>4, Zenon DEF BrokenOff, ConnectionLost, Reject, Release
    <2> QED
      BY <2>1, BusyEnds
  <1>5. CASE \/ LogIn \/ CacheAges \/ Rotate \/ Backend
             \/ UNCHANGED appVars \/ \E q \in Request : Show(q)
    <2>1. UNCHANGED <<running, session, by, reader, clean>>
      BY <1>5, Zenon DEF LogIn, CacheAges, Rotate, Backend, Behind, Show, appVars, tab, readers
    <2> QED
      BY <2>1, Zenon DEF BInv, ReadsOne
  <1> QED
    BY <1>1, <1>2, <1>3, <1>4, <1>5, Zenon DEF AppNext

LEMMA BusyStep == AppTInv /\ Busy /\ [AppNext]_appVars => Busy'
  <1> SUFFICES ASSUME AppTInv, Busy, [AppNext]_appVars, running'
               PROVE  \E q \in Request : by'[q] = session' /\ reader'[q] = "open"
    BY Zenon DEF Busy
  <1>1. CASE SendMessage \/ AnswerDialog
    <2>1. UNCHANGED session /\ NewRequest \in Request /\ Read(NewRequest)
      BY <1>1, NewOnes, Zenon DEF SendMessage, AnswerDialog, Refused
    <2>2. PICK q \in Request : q = NewRequest
      BY <2>1, Zenon
    <2>3. by'[q] = session /\ reader'[q] = "open"
      BY <2>1, <2>2 DEF Read, AppTInv, AppTypeOK
    <2> QED
      BY <2>1, <2>3, Zenon
  <1>2. CASE \/ LogIn \/ CacheAges \/ Rotate \/ Backend
             \/ UNCHANGED appVars \/ \E q \in Request : Show(q)
    <2>1. UNCHANGED <<running, session, by, reader>>
      BY <1>2, Zenon DEF LogIn, CacheAges, Rotate, Backend, Behind, Show, appVars, tab, readers
    <2> QED
      BY <2>1, Zenon DEF Busy
  <1>3. CASE LogOut \/ \E q \in Request : Deliver(q) \/ BrokenOff(q) \/ ConnectionLost(q)
    BY <1>3, Zenon DEF LogOut, Deliver, BrokenOff, ConnectionLost, Reject, Release
  <1> QED
    BY <1>1, <1>2, <1>3, Zenon DEF AppNext

\* BusyIsTrue of Frontend: the input is disabled only from the fetch to the
\* terminal event or the failure; and throughout, if no stream was open at the last
\* sign-out and none failed late since (App.jsx:148, 158, 165, 174).
THEOREM BusyIsTrueHolds == AppSpec => []BusyIsTrue
  <1>1. AppInit => BInv /\ Busy
    BY Zenon DEF AppInit, BInv, ReadsOne, Busy
  <1> QED
    BY <1>1, BusyIsTrueFollows, AppTInvInit, AppTInvStep, BInvStep, BusyStep, PTL DEF AppSpec

\* A request stays with its run and its session.
LEMMA OwnersStay ==
  ASSUME AppTInv, [AppNext]_appVars, NEW q \in Request, by[q] # 0
  PROVE  by'[q] = by[q] /\ request'[q].run = request[q].run
  <1>0. request[q] # Idle
    BY DEF AppTInv, NobodysYet
  <1>1. CASE UNCHANGED <<request, sent, by>>
    BY <1>1
  <1>2. CASE (\A p \in Request : Goes(p)) /\ UNCHANGED <<by, session, runId>>
    BY <1>0, <1>2 DEF Goes
  <1>3. ASSUME NEW p \in Request, NEW r \in Run, request[p] = Idle, Read(p),
               Turn(p, r) \/ Resume(p, r)
        PROVE  by'[q] = by[q] /\ request'[q].run = request[q].run
    <2>1. p # q
      BY <1>0, <1>3
    <2>2. by'[q] = by[q]
      BY <1>3, <2>1 DEF Read, AppTInv, AppTypeOK
    <2> QED
      BY <1>3, <2>1, <2>2, SentRequest DEF AppTInv, TInv
  <1> QED
    BY <1>1, <1>2, <1>3, RequestsKeep

LEMMA OwnScreenStep == AppTInv /\ BInv /\ OwnScreen /\ [AppNext]_appVars => OwnScreen'
  <1> SUFFICES ASSUME AppTInv, BInv, OwnScreen, [AppNext]_appVars, clean', NEW r \in screen'
               PROVE  \E q \in Request : by'[q] = session' /\ request'[q].run = r
    BY Zenon DEF OwnScreen
  <1>0. session # 0
    BY DEF AppTInv, AppTypeOK, Session
  <1>1. CASE LogOut
    BY <1>1, Zenon DEF LogOut, ClearScreen
  <1>2. ASSUME UNCHANGED session, clean, NEW q \in Request, by[q] = session, request[q].run = r
        PROVE  by'[q] = session' /\ request'[q].run = r
    BY <1>0, <1>2, OwnersStay
  <1>3. ASSUME NEW q \in Request, Show(q)
        PROVE  /\ UNCHANGED session /\ clean
               /\ \E p \in Request : by[p] = session /\ request[p].run = r
    <2>1. /\ UNCHANGED session /\ clean /\ reader[q] = "open"
          /\ r \in screen \/ r = request[q].run
      BY <1>3 DEF Show
    <2>2. by[q] = session
      BY <2>1, Zenon DEF BInv, ReadsOne
    <2>3. r \in screen => \E p \in Request : by[p] = session /\ request[p].run = r
      BY <2>1, Zenon DEF OwnScreen
    <2> QED
      BY <2>1, <2>2, <2>3, Zenon
  <1>4. ASSUME NEW q \in Request, Deliver(q) \/ BrokenOff(q) \/ ConnectionLost(q)
        PROVE  UNCHANGED <<session, screen>> /\ clean
    BY <1>4, Zenon DEF Deliver, BrokenOff, ConnectionLost, Reject
  <1>5. CASE \/ LogIn \/ SendMessage \/ AnswerDialog \/ CacheAges \/ Rotate
             \/ Backend \/ UNCHANGED appVars
    <2>1. UNCHANGED <<session, screen>> /\ clean
      BY <1>5, Zenon DEF LogIn, SendMessage, AnswerDialog, CacheAges, Rotate, Backend, Behind,
                         appVars, tab
    <2>2. \E p \in Request : by[p] = session /\ request[p].run = r
      BY <2>1, Zenon DEF OwnScreen
    <2> QED
      BY <1>2, <2>1, <2>2, Zenon
  <1>6. ASSUME UNCHANGED <<session, screen>>, clean
        PROVE  \E q \in Request : by'[q] = session' /\ request'[q].run = r
    <2>1. \E p \in Request : by[p] = session /\ request[p].run = r
      BY <1>6, Zenon DEF OwnScreen
    <2> QED
      BY <1>2, <1>6, <2>1, Zenon
  <1> QED
    BY <1>1, <1>2, <1>3, <1>4, <1>5, <1>6, Zenon DEF AppNext

\* OwnScreen of Frontend: with no stream left open by the last sign-out, the
\* screen shows runs of the present session alone (App.jsx:116-119).
THEOREM OwnScreenHolds == AppSpec => []OwnScreen
  <1>1. AppInit => BInv /\ OwnScreen
    BY Zenon DEF AppInit, BInv, ReadsOne, OwnScreen
  <1> QED
    BY <1>1, AppTInvInit, AppTInvStep, BInvStep, OwnScreenStep, PTL DEF AppSpec

-----------------------------------------------------------------------------
\* A question that can be answered: its run waits for that very call, or forgot
\* it in a restart, and nobody works on the run.
Answerable(c) ==
  /\ LastCall(c.run, c)
  /\ pausedRuns[c.run] \in {c, None}
  /\ \A q \in Request : Works(q) => request[q].run # c.run

\* A run that asks nothing more.
Over(r) ==
  /\ pausedRuns[r] = None
  /\ \A q \in Request : request[q].pc \in {"answer", "drain"} => request[q].run # r

\* A dialog is of the tab's run and the tab is not busy, or a message was sent over it.
DialogTrue ==
  dialog # None =>
    /\ Answerable(dialog) /\ runId \in Run
    /\ IF runId = dialog.run THEN ~running ELSE dialog.run \in passed

\* What the stream that is read has told, or is about to tell, of the tab's run.
StreamTrue ==
  \A q \in Request : reader[q] = "open" =>
    /\ request[q].run = runId
    /\ request[q].pc = "ask" \/ sent[q] = <<"interrupt">> =>
         Answerable(request[q].call) /\ request[q].call.run = runId
    /\ sent[q] \in {<<"finished">>, <<"unknown">>} => Over(runId) \/ runId \in warned

\* A run of this session is of no other.
OwnRuns ==
  /\ runId # None => \A q \in Request : request[q] # Idle /\ request[q].run = runId => by[q] = session
  /\ \A p, q \in Request :
       by[q] = session /\ request[p] # Idle /\ request[p].run = request[q].run => by[p] = session

\* What still works for this session is read, or was lost with an error.
ReadOn ==
  \A q \in Request :
    by[q] = session /\ request[q].pc \in {"answer", "drain"} =>
      reader[q] = "open" \/ request[q].run \in warned

\* The screen tells that the run waits, or will, or that something broke; or a
\* message was sent over its question.
TellsOf(r) ==
  \/ pausedRuns[r] \in {None, dialog}
  \/ \E p \in Request : reader[p] = "open" /\ request[p].run = r
  \/ r \in warned \cup passed

NothingLost == \A q \in Request : by[q] = session => TellsOf(request[q].run)

\* Sessions are drawn one after another.
Past == \A q \in Request : by[q] <= session

-----------------------------------------------------------------------------
\* A step of one request, and what it leaves alone.
Moves(q) ==
  /\ Step(q) \/ Cut(q)
  /\ request[q] # Idle /\ request[q] \in RequestState /\ request[q].run \in Run
  /\ request[q].pc \in {"answer", "drain", "ask", "pop"}
  /\ request'[q].run = request[q].run /\ request'[q] \in RequestState
  /\ \A p \in Request : p # q => request'[p] = request[p] /\ sent'[p] = sent[p]
  /\ \A r \in Run : r # request[q].run =>
       streams'[r] = streams[r] /\ pausedRuns'[r] = pausedRuns[r]

\* A step of the backend is of one request and its run, or a restart.
LEMMA OneMoves ==
  ASSUME TInv, Backend, ~Restart
  PROVE  \E q \in Request : Moves(q)
  <1>1. PICK q \in Request : Step(q) \/ Cut(q)
    BY DEF Backend
  <1>2. request[q].pc \in {"answer", "drain", "ask", "pop"}
    BY <1>1 DEF Step, Answer, StreamError, PopFlag, Ask, StreamFinished, StreamPending,
                Cut, InProgress
  <1>3. request[q] # Idle /\ request[q] \in RequestState /\ request[q].run \in Run
    BY <1>2, RequestTypes DEF TInv
  <1>4. \/ \E pc \in {"answer", "drain", "ask", "pop", "done", "cut"} : Goto(q, pc)
        \/ request' = [request EXCEPT ![q].retries = @ - 1]
        \/ UNCHANGED request
        \/ \E c : request' = [request EXCEPT ![q].pc = "ask", ![q].call = c]
    BY <1>1 DEF Step, Answer, StreamError, PopFlag, Ask, StreamFinished, StreamPending, Cut
  <1>5. /\ \A p \in Request : p # q => request'[p] = request[p]
        /\ request'[q].run = request[q].run /\ request'[q] # Idle
    BY <1>3, <1>4 DEF Goto, TInv, TypeOK, RequestState, Idle
  <1>6. request'[q] \in RequestState
    <2>1. TypeOK'
      <3>1. Next
        BY <1>1 DEF Next
      <3> QED
        BY <3>1, TInvStep DEF TInv
    <2> QED
      BY <1>5, <2>1 DEF TypeOK
  <1>7. \A p \in Request : p # q => sent'[p] = sent[p]
    BY <1>1 DEF Step, Answer, StreamError, PopFlag, Ask, StreamFinished, StreamPending, Cut,
                Send, TInv, TypeOK
  <1>8. \A r \in Run : r # request[q].run => streams'[r] = streams[r]
    <2>1. UNCHANGED streams \/ \E calls : OpenStream(request[q].run, calls)
      BY <1>1 DEF Step, Answer, StreamError, PopFlag, Ask, StreamFinished, StreamPending, Cut, harness
    <2> QED
      BY <2>1 DEF OpenStream, TInv, TypeOK
  <1>9. \A r \in Run : r # request[q].run => pausedRuns'[r] = pausedRuns[r]
    <2>1. UNCHANGED pausedRuns \/ \E c : pausedRuns' = [pausedRuns EXCEPT ![request[q].run] = c]
      BY <1>1 DEF Step, Answer, StreamError, PopFlag, Ask, StreamFinished, StreamPending, Cut, dicts
    <2> QED
      BY <2>1 DEF TInv, TypeOK
  <1> QED
    BY <1>1, <1>2, <1>3, <1>5, <1>6, <1>7, <1>8, <1>9 DEF Moves

\* A run on which no request goes on opens no stream and is not paused.
LEMMA Rests ==
  ASSUME TInv, Backend, NEW r \in Run,
         \A q \in Request : request[q].pc \in {"answer", "drain"} => request[q].run # r
  PROVE  /\ streams'[r] = streams[r] /\ pausedRuns'[r] \in {pausedRuns[r], None}
         /\ \A q \in Request : request'[q].pc \in {"answer", "drain"} => request'[q].run # r
         /\ \A q \in Request : Works(q)' /\ request'[q].run = r => Works(q) /\ request[q].run = r
  <1>0. TypeOK
    BY DEF TInv
  <1>1. CASE Restart
    <2>1. streams' = streams /\ pausedRuns'[r] = None
      BY <1>1 DEF Restart, harness
    <2>2. ASSUME NEW q \in Request
          PROVE  request'[q].pc \notin {"answer", "drain", "pop"}
      <3>1. CASE InProgress(q)
        <4>1. request[q] \in RequestState
          BY <3>1, <1>0, RequestTypes DEF InProgress
        <4>2. request'[q] = [request[q] EXCEPT !.pc = "cut"]
          BY <1>1, <3>1 DEF Restart
        <4> QED
          BY <4>1, <4>2 DEF RequestState
      <3>2. CASE ~InProgress(q)
        <4>1. request'[q] = request[q]
          BY <1>1, <3>2 DEF Restart
        <4> QED
          BY <3>2, <4>1 DEF InProgress
      <3> QED
        BY <3>1, <3>2
    <2> QED
      BY <2>1, <2>2 DEF Works
  <1>2. CASE ~Restart
    <2>1. PICK q \in Request : Moves(q)
      BY <1>2, OneMoves
    <2> USE DEF Moves
    <2>2. CASE request[q].run # r
      BY <2>1, <2>2 DEF Works
    <2>3. CASE request[q].run = r
      <3>1. request[q].pc \in {"ask", "pop"}
        BY <2>1, <2>3
      <3>2. PopFlag(q) \/ Ask(q) \/ Cut(q)
        BY <2>1, <3>1 DEF Step, Answer, StreamError, StreamFinished, StreamPending
      <3>3. UNCHANGED <<streams, pausedRuns>> /\ \E pc \in {"done", "cut"} : Goto(q, pc)
        BY <3>2 DEF PopFlag, Ask, Cut, dicts, harness
      <3>4. request'[q].pc \in {"done", "cut"}
        BY <1>0, <2>1, <3>3 DEF Goto, TypeOK, RequestState
      <3> QED
        BY <2>1, <3>3, <3>4 DEF Works
    <2> QED
      BY <2>2, <2>3
  <1> QED
    BY <1>1, <1>2

\* What a request that worked on its run leaves when it asks or ends.
LEMMA AsksOrEnds ==
  ASSUME TInv, SentWhenOver, Backend, NEW q \in Request, request[q] # Idle
  PROVE  /\ request'[q].pc = "ask" \/ sent'[q] = <<"interrupt">> =>
              \/ /\ request[q].pc = "ask" \/ sent[q] = <<"interrupt">>
                 /\ request'[q].call = request[q].call
              \/ Answerable(request[q].call)' /\ request'[q].call.run = request[q].run
         /\ sent'[q] \in {<<"finished">>, <<"unknown">>} =>
              sent'[q] = sent[q] \/ Over(request[q].run)'
  <1> DEFINE r == request[q].run
             Told == /\ request'[q].pc = "ask" \/ sent'[q] = <<"interrupt">> =>
                             \/ /\ request[q].pc = "ask" \/ sent[q] = <<"interrupt">>
                                /\ request'[q].call = request[q].call
                             \/ Answerable(request[q].call)' /\ request'[q].call.run = r
                     /\ sent'[q] \in {<<"finished">>, <<"unknown">>} =>
                             sent'[q] = sent[q] \/ Over(r)'
  <1>0. TypeOK /\ TInv'
    <2>1. [Next]_vars
      BY DEF Backend, Next
    <2> QED
      BY <2>1, TInvStep DEF TInv
  <1>1. CASE Restart
    <2>1. sent' = sent
      BY <1>1 DEF Restart
    <2>2. CASE InProgress(q)
      <3>1. request[q] \in RequestState
        BY RequestTypes, <1>0
      <3>2. request'[q] = [request[q] EXCEPT !.pc = "cut"]
        BY <1>1, <2>2 DEF Restart
      <3> QED
        BY <2>1, <3>1, <3>2 DEF RequestState
    <2>3. CASE ~InProgress(q)
      <3>1. request'[q] = request[q]
        BY <1>1, <2>3 DEF Restart
      <3> QED
        BY <2>1, <3>1
    <2> QED
      BY <2>2, <2>3
  <1>2. CASE ~Restart
    <2>1. PICK p \in Request : Moves(p)
      BY <1>2, OneMoves
    <2> USE DEF Moves
    <2>2. CASE p # q
      BY <2>1, <2>2
    <2>3. CASE p = q
      <3>0. /\ request[q] \in RequestState /\ r \in Run /\ request'[q].run = r
            /\ request[q].pc \in {"answer", "drain", "ask"} => sent[q] = <<>>
            /\ \A o \in Request : o # q => request'[o] = request[o]
        BY <2>1, <2>3 DEF SentWhenOver, SentRightly
      <3>1. CASE Answer(q) \/ PopFlag(q) \/ Cut(q)
        <4>1. sent' = sent /\ \E pc \in {"drain", "done", "cut"} : Goto(q, pc)
          BY <3>1 DEF Answer, PopFlag, Cut
        <4>2. request'[q].pc # "ask" /\ request'[q].call = request[q].call
          BY <1>0, <3>0, <4>1, GotoMoves
        <4> QED
          BY <4>1, <4>2
      <3>2. CASE Ask(q)
        <4>1. /\ request[q].pc = "ask" /\ \E pc \in {"done", "cut"} : Goto(q, pc)
              /\ UNCHANGED sent \/ Send(q, <<"interrupt">>)
          BY <3>2 DEF Ask
        <4>2. request'[q].call = request[q].call
          BY <1>0, <3>0, <4>1, GotoMoves
        <4>3. sent'[q] = sent[q] \/ sent'[q] = <<"interrupt">>
          <5>1. <<>> \o <<"interrupt">> = <<"interrupt">>
            OBVIOUS
          <5> QED
            BY <1>0, <3>0, <4>1, <5>1 DEF Send, TypeOK
        <4> QED
          BY <4>1, <4>2, <4>3
      <3>3. CASE StreamError(q)
        <4>1. request[q].pc = "drain" /\ Goto(q, "done") /\ Send(q, <<"error">>)
          BY <3>3 DEF StreamError, ErrorEvents
        <4>2. sent'[q] = <<"error">>
          <5>1. <<>> \o <<"error">> = <<"error">>
            OBVIOUS
          <5> QED
            BY <1>0, <3>0, <4>1, <5>1 DEF Send, TypeOK
        <4> QED
          BY <1>0, <3>0, <4>1, <4>2, GotoMoves
      <3>4. ASSUME NEW code \in BOOLEAN, NEW figures \in BOOLEAN, StreamFinished(q, code, figures)
            PROVE  Told
        <4>0. request[q].pc = "drain" /\ Works(q) /\ pausedRuns' = pausedRuns
          BY <3>4 DEF StreamFinished, Works
        <4>1. CASE UNCHANGED sent /\ request' = [request EXCEPT ![q].retries = @ - 1]
          BY <1>0, <3>0, <4>0, <4>1 DEF TypeOK, RequestState
        <4>2. CASE Send(q, <<"finished">>) /\ Goto(q, "pop")
          <5>1. <<>> \o <<"finished">> = <<"finished">>
            OBVIOUS
          <5>2. sent'[q] = <<"finished">> /\ request'[q].pc = "pop"
            BY <1>0, <3>0, <4>0, <4>2, <5>1, GotoMoves DEF Send, TypeOK
          <5>3. Over(r)'
            BY <3>0, <4>0, <5>2 DEF Over, TInv, OneWorker, Works
          <5> QED
            BY <5>2, <5>3
        <4> QED
          BY <3>4, <4>1, <4>2 DEF StreamFinished
      <3>5. ASSUME NEW code \in BOOLEAN, NEW b \in Batch, StreamPending(q, code, b)
            PROVE  Told
        <4> DEFINE calls == Calls(r, b)
                   first == FirstCall(calls \ AutoCalls(calls))
        <4>0. request[q].pc = "drain" /\ Works(q) /\ sent' = sent
          BY <3>5 DEF StreamPending, Works
        <4>1. CASE UNCHANGED request
          BY <3>0, <4>0, <4>1
        <4>2. CASE /\ AutoCalls(calls) = {} /\ UNCHANGED harness
                   /\ request' = [request EXCEPT ![q].pc = "ask", ![q].call = first]
          <5>1. calls \ AutoCalls(calls) = calls
            BY <4>2
          <5>2. pausedRuns' = [pausedRuns EXCEPT ![r] = first]
            BY <3>5, <4>2 DEF StreamPending, Pauses
          <5>3. streams[r] >= 1
            BY <4>0, <3>0 DEF TInv, Started, Begun
          <5>4. LastCall(r, FirstCall(calls))
            BY <1>0, <3>0, <5>3, CallsAreLast
          <5>5. LastCall(r, first)
            BY <5>1, <5>4
          <5> HIDE DEF first
          <5>6. request'[q].pc = "ask" /\ request'[q].call = first /\ pausedRuns'[r] = first
            BY <1>0, <3>0, <4>2, <5>2 DEF TypeOK, RequestState
          <5>7. streams' = streams /\ first.run = r
            BY <4>2, <5>5 DEF harness, LastCall
          <5>8. \A o \in Request : Works(o)' => request'[o].run # r
            BY <3>0, <4>0, <5>6 DEF TInv, OneWorker, Works
          <5>9. PICK c : c = first
            OBVIOUS
          <5>10. Answerable(c)'
            BY <5>5, <5>6, <5>7, <5>8, <5>9 DEF Answerable, LastCall
          <5> QED
            BY <4>0, <3>0, <5>6, <5>7, <5>9, <5>10 DEF Answerable, LastCall
        <4> QED
          BY <3>5, <4>1, <4>2 DEF StreamPending
      <3>6. Told
        BY <2>1, <2>3, <3>1, <3>2, <3>3, <3>4, <3>5 DEF Step
      <3> QED
        BY <3>6
    <2> QED
      BY <2>2, <2>3
  <1> QED
    BY <1>1, <1>2

\* Nothing that has ended, or asks, goes on again.
LEMMA GoesOn ==
  ASSUME TInv, Backend, NEW q \in Request, request[q] # Idle, request'[q].pc \in {"answer", "drain"}
  PROVE  request[q].pc \in {"answer", "drain"}
  <1>0. request[q] \in RequestState /\ TypeOK
    BY RequestTypes DEF TInv
  <1>1. CASE Restart
    <2>1. request'[q] = IF InProgress(q) THEN [request[q] EXCEPT !.pc = "cut"] ELSE request[q]
      BY <1>1 DEF Restart
    <2> QED
      BY <1>0, <2>1 DEF RequestState
  <1>2. CASE ~Restart
    <2>1. PICK p \in Request : Moves(p)
      BY <1>2, OneMoves
    <2> USE DEF Moves
    <2>2. CASE p = q /\ request[q].pc \in {"ask", "pop"}
      <3>1. PopFlag(q) \/ Ask(q) \/ Cut(q)
        BY <2>1, <2>2 DEF Step, Answer, StreamError, StreamFinished, StreamPending
      <3>2. \E pc \in {"done", "cut"} : Goto(q, pc)
        BY <3>1 DEF PopFlag, Ask, Cut
      <3> QED
        BY <1>0, <3>2, GotoMoves
    <2> QED
      BY <2>1, <2>2
  <1> QED
    BY <1>1, <1>2

\* Neither a question nor its end is undone by the backend.
LEMMA AnswerableStays ==
  ASSUME TInv, Backend, NEW c, Answerable(c)
  PROVE  Answerable(c)'
  <1>1. c \in ToolUse /\ c.run \in Run
    BY DEF Answerable, LastCall, ToolUse
  <1>2. \A q \in Request : request[q].pc \in {"answer", "drain"} => request[q].run # c.run
    BY DEF Answerable, Works
  <1>3. /\ streams'[c.run] = streams[c.run] /\ pausedRuns'[c.run] \in {pausedRuns[c.run], None}
        /\ \A q \in Request : Works(q)' /\ request'[q].run = c.run => Works(q) /\ request[q].run = c.run
    BY <1>1, <1>2, Rests
  <1> QED
    BY <1>3 DEF Answerable, LastCall

LEMMA OverStays ==
  ASSUME TInv, Backend, NEW r \in Run, Over(r)
  PROVE  Over(r)'
  <1>1. \A q \in Request : request[q].pc \in {"answer", "drain"} => request[q].run # r
    BY DEF Over
  <1>2. /\ pausedRuns'[r] \in {pausedRuns[r], None}
        /\ \A q \in Request : request'[q].pc \in {"answer", "drain"} => request'[q].run # r
    BY <1>1, Rests
  <1> QED
    BY <1>2 DEF Over

\* What a clean tab shows is true of the backend.
TabTrue == DialogTrue /\ StreamTrue /\ OwnRuns /\ ReadOn /\ NothingLost

DInv == OInv /\ BInv /\ Past /\ (clean => TabTrue)

\* The backend tells what it does before the tab acts on anything else.
LEMMA BackendKeepsTab ==
  ASSUME DInv, Backend, TabTrue
  PROVE  TabTrue'
  <1>0. /\ AppTInv /\ TInv /\ SentWhenOver /\ AppTypeOK /\ TypeOK
        /\ \A q \in Request : Goes(q)
    BY BackendGoes DEF DInv, OInv, AppTInv, TInv
  <1>1. UNCHANGED <<session, runId, running, dialog, warned, passed, by, reader>>
    BY DEF Backend, Behind, tab, readers
  <1>2. \A q \in Request : reader[q] = "open" \/ by[q] = session =>
          /\ request[q] # Idle /\ request'[q] # Idle
          /\ request[q].run \in Run /\ request'[q].run = request[q].run
    BY <1>0, RequestTypes DEF AppTInv, NobodysYet, AppTypeOK, Session, Goes
  <1>3. DialogTrue'
    <2>1. PICK c : c = dialog
      OBVIOUS
    <2>2. dialog # None => Answerable(c)'
      BY <1>0, <2>1, AnswerableStays DEF TabTrue, DialogTrue
    <2>3. dialog # None => Answerable(dialog)'
      BY <1>1, <2>1, <2>2 DEF Answerable
    <2>4. dialog # None =>
            runId \in Run /\ IF runId = dialog.run THEN ~running ELSE dialog.run \in passed
      BY Zenon DEF TabTrue, DialogTrue
    <2> QED
      BY <1>1, <2>3, <2>4, Zenon DEF DialogTrue
  <1>4. StreamTrue'
    <2> SUFFICES ASSUME NEW q \in Request, reader'[q] = "open"
                 PROVE  /\ request'[q].run = runId'
                        /\ request'[q].pc = "ask" \/ sent'[q] = <<"interrupt">> =>
                             Answerable(request[q].call)' /\ request'[q].call.run = runId'
                        /\ sent'[q] \in {<<"finished">>, <<"unknown">>} =>
                             Over(runId)' \/ runId' \in warned'
      BY DEF StreamTrue
    <2>1. /\ reader[q] = "open" /\ request[q] # Idle /\ request[q].run \in Run
          /\ request'[q].run = request[q].run /\ request[q].run = runId /\ runId' = runId
      BY <1>1, <1>2 DEF TabTrue, StreamTrue
    <2>2. ASSUME request'[q].pc = "ask" \/ sent'[q] = <<"interrupt">>
          PROVE  Answerable(request[q].call)' /\ request'[q].call.run = runId'
      <3>1. CASE /\ request[q].pc = "ask" \/ sent[q] = <<"interrupt">>
                 /\ request'[q].call = request[q].call
        <4>1. PICK c : c = request[q].call
          OBVIOUS
        <4>2. Answerable(c) /\ c.run = runId
          BY <2>1, <3>1, <4>1 DEF TabTrue, StreamTrue
        <4>3. Answerable(c)'
          BY <1>0, <4>2, AnswerableStays
        <4> QED
          BY <2>1, <3>1, <4>1, <4>2, <4>3 DEF Answerable
      <3> QED
        BY <1>0, <2>1, <2>2, <3>1, AsksOrEnds
    <2>3. ASSUME sent'[q] \in {<<"finished">>, <<"unknown">>}, runId \notin warned
          PROVE  Over(runId)'
      <3>1. PICK r \in Run : r = runId
        BY <2>1
      <3>2. CASE sent'[q] = sent[q]
        <4>1. Over(r)
          BY <2>1, <2>3, <3>1, <3>2 DEF TabTrue, StreamTrue
        <4>2. Over(r)'
          BY <1>0, <4>1, OverStays
        <4> QED
          BY <2>1, <3>1, <4>2 DEF Over
      <3>3. CASE Over(request[q].run)'
        BY <2>1, <3>3 DEF Over
      <3> QED
        BY <1>0, <2>1, <2>3, <3>2, <3>3, AsksOrEnds
    <2> QED
      BY <1>1, <2>1, <2>2, <2>3
  <1>5. OwnRuns'
    <2>1. \A q \in Request : request'[q] # Idle => request[q] # Idle /\ request'[q].run = request[q].run
      BY <1>0 DEF Goes
    <2> QED
      BY <1>1, <1>2, <2>1 DEF TabTrue, OwnRuns
  <1>6. ReadOn'
    BY <1>0, <1>1, <1>2, GoesOn DEF TabTrue, ReadOn
  <1>7. NothingLost'
    <2> SUFFICES ASSUME NEW q \in Request, by[q] = session
                 PROVE  TellsOf(request[q].run)'
      BY <1>1 DEF NothingLost
    <2>1. PICK r \in Run : r = request[q].run
      BY <1>2
    <2>2. request'[q].run = r /\ TellsOf(r)
      BY <1>2, <2>1 DEF TabTrue, NothingLost
    <2>3. CASE \A p \in Request : request[p].pc \in {"answer", "drain"} => request[p].run # r
      <3>1. pausedRuns'[r] \in {pausedRuns[r], None}
        BY <1>0, <2>3, Rests
      <3> QED
        BY <1>1, <1>2, <2>2, <3>1 DEF TellsOf
    <2>4. ASSUME NEW p \in Request, request[p].pc \in {"answer", "drain"}, request[p].run = r
          PROVE  TellsOf(r)'
      <3>1. by[p] = session
        BY <1>0, <2>1, <2>4, RequestTypes DEF TabTrue, OwnRuns
      <3>2. reader[p] = "open" \/ r \in warned
        BY <2>4, <3>1 DEF TabTrue, ReadOn
      <3>3. request'[p].run = r
        BY <1>2, <2>4, <3>1
      <3> QED
        BY <1>1, <2>4, <3>2, <3>3 DEF TellsOf
    <2>5. TellsOf(r)'
      BY <2>2, <2>3, <2>4, <1>1, <1>2 DEF TellsOf
    <2> QED
      BY <2>2, <2>5 DEF TellsOf
  <1> QED
    BY <1>3, <1>4, <1>5, <1>6, <1>7, Zenon DEF TabTrue

\* A message or an answer is sent by a tab that reads nothing.  A message leaves the
\* dialog where it is; an answer goes to the tab's run, whose question that is if no
\* message was sent over it.
LEMMA SendKeepsTab ==
  ASSUME DInv, SendMessage \/ AnswerDialog, clean'
  PROVE  TabTrue'
  <1>0. /\ AppTInv /\ TInv /\ SentWhenOver /\ AppTypeOK /\ TypeOK
    BY DEF DInv, OInv, AppTInv, TInv
  <1>1. clean /\ TabTrue /\ ~running /\ UNCHANGED session
    BY Zenon DEF DInv, SendMessage, AnswerDialog, MaySend
  <1>2. \A q \in Request : reader[q] # "open"
    BY <1>1, Zenon DEF DInv, BInv, ReadsOne
  <1>3. AnswerDialog => /\ runId \in Run /\ runId # None /\ runId' = runId
                        /\ dialog' = None /\ passed' = passed /\ dialog # None
    BY <1>1, RunAssumption DEF AnswerDialog, CloseDialog, TabTrue, DialogTrue
  <1>4. SendMessage => /\ runId' \in Run /\ streams[runId'] = 0 /\ dialog' = dialog
                       /\ passed \subseteq passed' /\ (dialog # None => dialog.run \in passed')
                       /\ \A q \in Request : request[q] # Idle => request[q].run # runId'
    BY DEF SendMessage, Unused, NewRun
  <1>5. dialog # None =>
          \/ dialog' = dialog /\ dialog.run \in passed'
          \/ dialog' = None /\ (runId' = dialog.run \/ dialog.run \in passed')
    <2>1. AnswerDialog => runId = dialog.run \/ dialog.run \in passed
      BY <1>1 DEF AnswerDialog, TabTrue, DialogTrue
    <2> QED
      BY <1>3, <1>4, <2>1
  <1>6. dialog' # None => /\ SendMessage /\ dialog' = dialog /\ Answerable(dialog)
                          /\ dialog.run # runId' /\ dialog.run \in Run
    <2>1. SendMessage /\ dialog # None => Answerable(dialog)
      BY <1>1 DEF TabTrue, DialogTrue
    <2>2. SendMessage /\ dialog # None => dialog.run # runId' /\ dialog.run \in Run
      BY <1>4, <2>1 DEF Answerable, LastCall, ToolUse
    <2> QED
      BY <1>3, <1>4, <2>1, <2>2
  <1>7. ASSUME NEW r \in Run, r # runId', TellsOf(r), pausedRuns'[r] = pausedRuns[r],
               warned \subseteq warned'
        PROVE  pausedRuns'[r] \in {None, dialog'} \/ r \in warned' \cup passed'
    <2>1. pausedRuns[r] \in {None, dialog} \/ r \in warned' \cup passed
      BY <1>2, <1>7 DEF TellsOf
    <2>2. pausedRuns[r] # None => pausedRuns[r].run = r
      BY <1>0 DEF TInv, Waits, LastCall
    <2>3. passed \subseteq passed'
      BY <1>3, <1>4
    <2> QED
      BY <1>5, <1>7, <2>1, <2>2, <2>3
  <1>8. ASSUME NEW r \in Run, r = runId', Refused(r)
        PROVE  TabTrue'
    <2>1. /\ UNCHANGED <<pausedRuns, request, sent, streams, by, reader>>
          /\ warned' = warned \cup {r} /\ ~running'
      BY <1>8, Zenon DEF Refused, vars, dicts, harness, readers
    <2>2. StreamTrue'
      BY <1>2, <2>1 DEF StreamTrue
    <2>3. OwnRuns'
      BY <1>1, <1>3, <1>4, <2>1 DEF TabTrue, OwnRuns
    <2>4. DialogTrue'
      BY <1>4, <1>5, <1>6, <1>8, <2>1 DEF DialogTrue, Answerable, LastCall, Works
    <2>5. ReadOn'
      BY <1>1, <2>1 DEF TabTrue, ReadOn
    <2>6. NothingLost'
      <3> SUFFICES ASSUME NEW p \in Request, by[p] = session PROVE TellsOf(request[p].run)'
        BY <1>1, <2>1 DEF NothingLost
      <3>1. request[p] # Idle
        BY <1>0 DEF AppTInv, NobodysYet, AppTypeOK, Session
      <3>2. request[p].run \in Run /\ TellsOf(request[p].run)
        BY <1>0, <1>1, <3>1, RequestTypes DEF TabTrue, NothingLost
      <3>3. CASE request[p].run = r
        BY <2>1, <3>3 DEF TellsOf
      <3>4. CASE request[p].run # r
        BY <1>7, <1>8, <2>1, <3>2, <3>4 DEF TellsOf
      <3> QED
        BY <3>3, <3>4
    <2> QED
      BY <2>2, <2>3, <2>4, <2>5, <2>6, Zenon DEF TabTrue
  <1>9. ASSUME NEW q \in Request, NEW r \in Run, request[q] = Idle, Read(q), runId' = r,
               UNCHANGED warned,
               (SendMessage /\ Turn(q, r)) \/ (AnswerDialog /\ Resume(q, r))
        PROVE  TabTrue'
    <2>1. /\ request'[q] # Idle /\ request'[q].run = r
          /\ \A p \in Request : p # q => request'[p] = request[p] /\ sent'[p] = sent[p]
      BY <1>0, <1>9, SentRequest
    <2>2. /\ by'[q] = session /\ reader'[q] = "open"
          /\ \A p \in Request : p # q => by'[p] = by[p] /\ reader'[p] = reader[p]
      BY <1>0, <1>9 DEF Read, AppTypeOK
    <2>3. sent[q] = <<>>
      BY <1>0, <1>9 DEF SentWhenOver, SentRightly, Idle
    <2>4. /\ request'[q].pc \in {"drain", "answer", "done"}
          /\ \/ sent'[q] = <<>>
             \/ /\ sent'[q] = <<"unknown">> /\ request'[q].pc = "done" /\ pausedRuns' = pausedRuns
                /\ pausedRuns[r] = None /\ Resume(q, r)
      <3>1. <<>> \o <<"unknown">> = <<"unknown">>
        OBVIOUS
      <3> QED
        BY <1>0, <1>9, <2>3, <3>1 DEF Turn, Resume, Begin, Send, TypeOK
    <2>5. \A s \in Run : s # r => pausedRuns'[s] = pausedRuns[s] /\ streams'[s] = streams[s]
      BY <1>0, <1>9 DEF Turn, OpenStream, Resume, TakePaused, TypeOK, dicts, harness
    <2>6. \A p \in Request : p # q /\ request[p] # Idle /\ request[p].run = r =>
            by[p] = session /\ AnswerDialog
      <3>1. CASE SendMessage
        BY <1>4, <1>9, <3>1
      <3>2. CASE AnswerDialog
        BY <1>1, <1>3, <1>9, <3>2 DEF TabTrue, OwnRuns
      <3> QED
        BY <3>1, <3>2
    <2>7. DialogTrue'
      <3> SUFFICES ASSUME dialog' # None PROVE DialogTrue'
        BY DEF DialogTrue
      <3>1. PICK c : c = dialog
        OBVIOUS
      <3>2. /\ SendMessage /\ dialog' = c /\ Answerable(c) /\ c.run # r /\ c.run \in Run
            /\ c.run \in passed'
        BY <1>5, <1>6, <1>9, <3>1
      <3>3. Answerable(c)'
        BY <2>1, <2>5, <3>2 DEF Answerable, LastCall, Works
      <3> QED
        BY <1>9, <3>2, <3>3 DEF DialogTrue, Answerable
    <2>8. StreamTrue'
      <3>1. \A p \in Request : reader'[p] = "open" => p = q
        BY <1>2, <2>2
      <3>2. ~(request'[q].pc = "ask" \/ sent'[q] = <<"interrupt">>)
        BY <2>4
      <3>3. ASSUME sent'[q] \in {<<"finished">>, <<"unknown">>}, runId' \notin warned'
            PROVE  Over(runId)'
        <4>1. request'[q].pc = "done" /\ pausedRuns' = pausedRuns /\ pausedRuns[r] = None
          <5>1. sent'[q] # <<>>
            BY <3>3
          <5> QED
            BY <2>4, <5>1
        <4>2. ASSUME NEW p \in Request, request'[p].pc \in {"answer", "drain"}, request'[p].run = r
              PROVE  FALSE
          <5>1. p # q /\ request'[p] = request[p]
            BY <2>1, <4>1, <4>2
          <5>2. by[p] = session
            BY <1>0, <2>6, <4>2, <5>1 DEF Idle
          <5>3. request[p].run \in warned
            BY <1>1, <1>2, <4>2, <5>1, <5>2 DEF TabTrue, ReadOn
          <5> QED
            BY <1>9, <3>3, <4>2, <5>1, <5>3
        <4> QED
          BY <1>9, <4>1, <4>2 DEF Over
      <3> QED
        BY <1>9, <2>1, <3>1, <3>2, <3>3 DEF StreamTrue
    <2>9. OwnRuns'
      BY <1>1, <1>9, <2>1, <2>2, <2>6 DEF TabTrue, OwnRuns
    <2>10. ReadOn'
      BY <1>1, <1>2, <1>9, <2>1, <2>2 DEF TabTrue, ReadOn
    <2>11. NothingLost'
      <3> SUFFICES ASSUME NEW p \in Request, by'[p] = session PROVE TellsOf(request[p].run)'
        BY <1>1 DEF NothingLost
      <3>1. CASE request'[p].run = r
        BY <2>1, <2>2, <3>1 DEF TellsOf
      <3>2. CASE request'[p].run # r
        <4>1. p # q /\ request'[p] = request[p] /\ by[p] = session
          BY <2>1, <2>2, <3>2
        <4>2. request[p] # Idle /\ request[p].run \in Run
          BY <1>0, <4>1, RequestTypes DEF AppTInv, NobodysYet, AppTypeOK, Session
        <4>3. TellsOf(request[p].run)
          BY <1>1, <4>1 DEF TabTrue, NothingLost
        <4> QED
          BY <1>7, <1>9, <2>5, <3>2, <4>1, <4>2, <4>3 DEF TellsOf
      <3> QED
        BY <3>1, <3>2
    <2> QED
      BY <2>7, <2>8, <2>9, <2>10, <2>11, Zenon DEF TabTrue
  <1>10. CASE SendMessage
    <2>1. /\ NewRequest \in Request /\ request[NewRequest] = Idle
          /\ \/ Turn(NewRequest, runId') /\ Read(NewRequest) /\ UNCHANGED warned
             \/ Refused(runId')
      BY <1>10, NewOnes, Zenon DEF SendMessage
    <2>2. PICK q \in Request : q = NewRequest
      BY <2>1
    <2>3. PICK r \in Run : r = runId'
      BY <1>4, <1>10
    <2>4. \/ Turn(q, r) /\ Read(q) /\ UNCHANGED warned
          \/ Refused(r)
      BY <2>1, <2>2, <2>3
    <2> QED
      BY <1>8, <1>9, <1>10, <2>1, <2>2, <2>3, <2>4
  <1>11. CASE AnswerDialog
    <2>1. NewRequest \in Request /\ request[NewRequest] = Idle
      BY <1>11, NewOnes DEF AnswerDialog
    <2>2. \/ /\ Resume(NewRequest, IF runId = None THEN NewRun ELSE runId)
             /\ Read(NewRequest) /\ UNCHANGED warned
          \/ Refused(runId)
      BY <1>11, Zenon DEF AnswerDialog
    <2>3. PICK q \in Request : q = NewRequest
      BY <2>1
    <2>4. PICK r \in Run : r = runId
      BY <1>3, <1>11
    <2>5. \/ Resume(q, r) /\ Read(q) /\ UNCHANGED warned
          \/ Refused(r)
      BY <1>3, <1>11, <2>2, <2>3, <2>4
    <2> QED
      BY <1>3, <1>8, <1>9, <1>11, <2>1, <2>3, <2>4, <2>5
  <1> QED
    BY <1>10, <1>11

\* What a stream tells is true of the tab's run.
LEMMA DeliverKeepsTab ==
  ASSUME DInv, NEW q \in Request, Deliver(q), TabTrue, clean
  PROVE  TabTrue'
  <1>0. /\ AppTInv /\ TInv /\ SentWhenOver /\ AppTypeOK /\ TypeOK
    BY DEF DInv, OInv, AppTInv, TInv
  <1>1. /\ reader[q] = "open" /\ sent[q] # <<>> /\ ~running' /\ reader' = [reader EXCEPT ![q] = "told"]
        /\ UNCHANGED <<pausedRuns, request, sent, streams, session, runId, by>>
        /\ passed' = passed
        /\ \/ sent[q] = <<"error">> /\ warned' = warned \cup {runId} /\ UNCHANGED dialog
           \/ sent[q] # <<"error">> /\ Outcome(q) /\ UNCHANGED warned
    BY Zenon DEF Deliver, vars, dicts, harness
  <1>2. running /\ \A p \in Request : reader[p] = "open" => p = q
    BY <1>1, Zenon DEF DInv, BInv, ReadsOne
  <1>3. /\ dialog # None => /\ Answerable(dialog) /\ runId \in Run
                           /\ dialog.run # runId /\ dialog.run \in passed
        /\ request[q].run = runId
    BY <1>1, <1>2 DEF TabTrue, DialogTrue, StreamTrue
  <1>4. /\ reader'[q] = "told" /\ \A p \in Request : reader'[p] # "open"
        /\ \A p \in Request : p # q => reader'[p] = reader[p]
    BY <1>0, <1>1, <1>2 DEF AppTypeOK
  <1>5. sent[q] \in {<<"finished">>, <<"interrupt">>, <<"unknown">>, <<"error">>}
    <2>1. sent[q] \in Seq({"finished", "interrupt", "unknown", "error"}) /\ Len(sent[q]) <= 1
      BY <1>0 DEF TypeOK, SentWhenOver, SentRightly
    <2> QED
      BY <1>1, <2>1, OneEvent
  <1>6. StreamTrue' /\ OwnRuns'
    BY <1>1, <1>4 DEF TabTrue, OwnRuns, StreamTrue
  <1>7. ReadOn'
    <2>1. request[q].pc \notin {"answer", "drain"}
      BY <1>0, <1>1 DEF SentWhenOver, SentRightly
    <2> QED
      BY <1>1, <1>4, <2>1 DEF TabTrue, ReadOn
  <1>8. ASSUME NEW p \in Request, by[p] = session, request[p].run # runId
        PROVE  TellsOf(request[p].run)'
    <2>1. request[p] # Idle
      BY <1>0, <1>8 DEF AppTInv, NobodysYet, AppTypeOK, Session
    <2>2. PICK r \in Run : r = request[p].run
      BY <1>0, <2>1, RequestTypes
    <2>3. pausedRuns[r] \in {None, dialog} \/ r \in warned \cup passed
      BY <1>2, <1>3, <1>8, <2>2 DEF TabTrue, NothingLost, TellsOf
    <2>4. pausedRuns[r] # None => pausedRuns[r].run = r
      BY <1>0 DEF TInv, Waits, LastCall
    <2>5. pausedRuns[r] = None \/ r \in warned \cup passed
      BY <1>3, <2>3, <2>4
    <2>6. warned \subseteq warned'
      BY <1>1
    <2> QED
      BY <1>1, <2>2, <2>5, <2>6 DEF TellsOf
  <1>9. CASE sent[q] = <<"error">>
    <2>1. runId \in warned' /\ dialog' = dialog
      BY <1>1, <1>9
    <2>2. NothingLost'
      BY <1>1, <1>8, <2>1 DEF NothingLost, TellsOf
    <2>3. DialogTrue'
      BY <1>1, <1>3, <2>1 DEF DialogTrue, Answerable, LastCall, Works
    <2> QED
      BY <1>6, <1>7, <2>2, <2>3, Zenon DEF TabTrue
  <1>10. CASE sent[q] # <<"error">>
    <2>0. Outcome(q) /\ UNCHANGED warned
      BY <1>1, <1>10
    <2>1. CASE sent[q] = <<"interrupt">>
      <3>1. dialog' = request[q].call /\ Answerable(request[q].call) /\ request[q].call.run = runId
        BY <1>1, <2>0, <2>1 DEF Outcome, TabTrue, StreamTrue
      <3>2. DialogTrue'
        BY <1>1, <3>1 DEF DialogTrue, Answerable, LastCall, ToolUse, Works
      <3>3. pausedRuns[runId] \in {None, dialog'}
        BY <3>1 DEF Answerable
      <3>4. NothingLost'
        BY <1>1, <1>8, <3>3 DEF NothingLost, TellsOf
      <3> QED
        BY <1>6, <1>7, <3>2, <3>4, Zenon DEF TabTrue
    <2>2. CASE sent[q] \in {<<"finished">>, <<"unknown">>}
      <3>1. dialog' = None /\ (pausedRuns[runId] = None \/ runId \in warned)
        BY <1>1, <2>0, <2>2 DEF Outcome, CloseDialog, TabTrue, StreamTrue, Over
      <3>2. NothingLost' /\ DialogTrue'
        BY <1>1, <1>8, <2>0, <3>1 DEF NothingLost, TellsOf, DialogTrue
      <3> QED
        BY <1>6, <1>7, <3>2, Zenon DEF TabTrue
    <2> QED
      BY <1>5, <1>10, <2>1, <2>2
  <1> QED
    BY <1>9, <1>10

LEMMA DInvStep == DInv /\ [AppNext]_appVars => DInv'
  <1> SUFFICES ASSUME DInv, [AppNext]_appVars PROVE DInv'
    OBVIOUS
  <1>0. /\ AppTInv /\ AppTypeOK
        /\ OInv' /\ BInv'
    BY OInvStep, BInvStep DEF DInv, OInv, AppTInv
  <1>1. Past' /\ (clean' => TabTrue')
    <2>1. CASE LogOut
      <3>1. /\ session' = session + 1 /\ by' = by /\ reader' = reader /\ runId' = None
            /\ dialog' = None /\ session \in Nat /\ \A q \in Request : by[q] \in Nat
        BY <1>0, <2>1 DEF LogOut, ForgetRunId, readers, AppTypeOK, Session
      <3>2. \A q \in Request : by[q] <= session
        BY DEF DInv, Past
      <3>3. \A q \in Request : by'[q] # session' /\ by'[q] <= session'
        BY <3>1, <3>2
      <3>4. clean' => \A q \in Request : reader'[q] # "open"
        BY <2>1, <3>1, Zenon DEF LogOut
      <3> QED
        BY <3>1, <3>3, <3>4, Zenon DEF Past, TabTrue, DialogTrue, StreamTrue, OwnRuns, ReadOn, NothingLost
    <2>2. CASE SendMessage \/ AnswerDialog
      <3>1. Past'
        <4>1. session' = session /\ \/ by' = by
                                    \/ NewRequest \in Request /\ Read(NewRequest)
          BY <2>2, NewOnes DEF SendMessage, AnswerDialog, Refused, readers
        <4> QED
          BY <1>0, <4>1 DEF DInv, Past, Read, AppTypeOK, Session
      <3> QED
        BY <2>2, <3>1, SendKeepsTab
    <2>3. ASSUME NEW q \in Request, Deliver(q)
          PROVE  Past' /\ (clean' => TabTrue')
      <3>1. UNCHANGED <<session, by, clean>>
        BY <2>3, Zenon DEF Deliver
      <3>2. Past'
        BY <3>1 DEF DInv, Past
      <3>3. clean => TabTrue
        BY Zenon DEF DInv
      <3> QED
        BY <2>3, <3>1, <3>2, <3>3, DeliverKeepsTab, Zenon
    <2>4. ASSUME NEW q \in Request, BrokenOff(q) \/ ConnectionLost(q)
          PROVE  Past' /\ (clean' => TabTrue')
      <3>1. /\ UNCHANGED <<pausedRuns, request, sent, streams, session, runId, dialog, passed, by>>
            /\ reader' = [reader EXCEPT ![q] = "closed"] /\ ~running' /\ warned' = warned \cup {runId}
            /\ clean' => clean
        BY <2>4, Zenon DEF BrokenOff, ConnectionLost, Reject, Release, vars, dicts, harness
      <3>2. \A p \in Request : reader'[p] = "open" => reader[p] = "open"
        BY <1>0, <3>1 DEF AppTypeOK
      <3>3. Past'
        BY <3>1 DEF DInv, Past
      <3>4. ASSUME clean' PROVE TabTrue'
        <4>1. TabTrue
          BY <3>1, <3>4, Zenon DEF DInv
        <4>2. DialogTrue'
          BY <3>1, <4>1 DEF TabTrue, DialogTrue, Answerable, LastCall, Works
        <4>3. StreamTrue' /\ OwnRuns'
          BY <3>1, <3>2, <4>1 DEF TabTrue, StreamTrue, Answerable, Over, LastCall, Works, OwnRuns
        <4>4. \A p \in Request :
                (reader[p] = "open" => reader'[p] = "open" \/ request[p].run \in warned')
          <5>1. reader[q] = "open" => request[q].run = runId
            BY <4>1 DEF TabTrue, StreamTrue
          <5> QED
            BY <1>0, <3>1, <5>1 DEF AppTypeOK
        <4>5. ReadOn' /\ NothingLost'
          BY <3>1, <4>1, <4>4 DEF TabTrue, ReadOn, NothingLost, TellsOf
        <4> QED
          BY <4>2, <4>3, <4>5, Zenon DEF TabTrue
      <3> QED
        BY <3>3, <3>4
    <2>5. CASE Backend
      <3>1. UNCHANGED <<session, by, clean>>
        BY <2>5, Zenon DEF Backend, Behind, tab, readers
      <3>2. Past'
        BY <3>1 DEF DInv, Past
      <3>3. clean => TabTrue
        BY Zenon DEF DInv
      <3> QED
        BY <2>5, <3>1, <3>2, <3>3, BackendKeepsTab, Zenon
    <2>6. CASE \/ LogIn \/ CacheAges \/ Rotate \/ UNCHANGED appVars
               \/ \E q \in Request : Show(q)
      <3>1. UNCHANGED <<pausedRuns, request, sent, streams, session, runId, running, dialog, warned,
                        passed, by, reader, clean>>
        BY <2>6, Zenon DEF LogIn, CacheAges, Rotate, Show, appVars, vars, dicts, harness, tab, readers
      <3>2. Past'
        BY <3>1 DEF DInv, Past
      <3>3. TabTrue => TabTrue'
        BY <3>1 DEF TabTrue, DialogTrue, StreamTrue, Answerable, Over, LastCall, Works, OwnRuns,
                    ReadOn, NothingLost, TellsOf
      <3>4. clean => TabTrue
        BY Zenon DEF DInv
      <3> QED
        BY <3>1, <3>2, <3>3, <3>4, Zenon
    <2> QED
      BY <2>1, <2>2, <2>3, <2>4, <2>5, <2>6, Zenon DEF AppNext
  <1> QED
    BY <1>0, <1>1, Zenon DEF DInv

LEMMA DInvInit == AppInit => DInv
  <1> SUFFICES ASSUME AppInit PROVE DInv
    OBVIOUS
  <1>1. OInv
    BY AppTInvInit DEF AppInit, Init, OInv, SentWhenOver, SentRightly, Idle, UnknownIsOver, Current,
                       OwnAnswer
  <1>2. BInv
    BY Zenon DEF AppInit, BInv, ReadsOne
  <1>3. session = 1 /\ dialog = None /\ runId = None /\ \A q \in Request : by[q] = 0 /\ reader[q] = "none"
    BY DEF AppInit
  <1> QED
    BY <1>1, <1>2, <1>3 DEF DInv, Past, TabTrue, DialogTrue, StreamTrue, OwnRuns, ReadOn, NothingLost

LEMMA DInvHolds == AppSpec => []DInv
  BY DInvInit, DInvStep, PTL DEF AppSpec

\* DialogStillAsks of Frontend: whatever repeats, breaks off or restarts, what a
\* dialog asks is open, of the tab's run unless a message was sent over the dialog;
\* in a tab whose last sign-out left no stream open (App.jsx:77, 162-169;
\* main.py:243-268).
THEOREM DialogStillAsksHolds == AppSpec => []DialogStillAsks
  <1>1. DInv /\ Later => DialogStillAsks
    <2> SUFFICES ASSUME DInv, Later, clean, dialog # None
                 PROVE  /\ pausedRuns[dialog.run] \in {dialog, None}
                        /\ \A a \in answers : a.call # dialog
                        /\ \A q \in Request :
                             request[q].pc \in {"answer", "drain"} => request[q].run # dialog.run
                        /\ runId = dialog.run \/ dialog.run \in passed
      BY DEF DialogStillAsks
    <2>1. Answerable(dialog) /\ (runId = dialog.run \/ dialog.run \in passed)
      BY Zenon DEF DInv, TabTrue, DialogTrue
    <2>2. answers \subseteq [call : ToolUse, stream : 1..MaxStreams] /\ streams \in [Run -> 0..MaxStreams]
      BY DEF DInv, OInv, AppTInv, TInv, TypeOK
    <2>3. ASSUME NEW a \in answers, a.call = dialog
          PROVE  FALSE
      BY <2>1, <2>2, <2>3 DEF Later, Answerable, LastCall, ToolUse
    <2> QED
      BY <2>1, <2>3 DEF Answerable, Works
  <1> QED
    BY <1>1, DInvHolds, LaterHolds, AppImplementsRuns, PTL

\* AnswersWhatItShows of Frontend: the answer names a run, and what that run
\* waits for is what the broker saw, unless a message was sent over it; in a tab
\* whose last sign-out left no stream open (App.jsx:142-149, 167-169;
\* main.py:284-306).
THEOREM AnswersWhatItShowsHolds == AppSpec => AnswersWhatItShows
  <1>1. DInv /\ [AppNext]_appVars =>
          [\A q \in Request :
             clean /\ request[q] = Idle /\ request'[q] # Idle /\ request'[q].pc = "answer"
             => request'[q].call = dialog \/ dialog.run \in passed]_appVars
    <2> SUFFICES ASSUME DInv, [AppNext]_appVars, NEW q \in Request, clean,
                        request[q] = Idle, request'[q] # Idle, request'[q].pc = "answer",
                        dialog.run \notin passed
                 PROVE  request'[q].call = dialog
      BY Zenon
    <2>0. AppTInv /\ TypeOK /\ TabTrue
      BY Zenon DEF DInv, OInv, AppTInv, AppTypeOK
    <2>1. PICK p \in Request, r \in Run :
             /\ request[p] = Idle
             /\ \/ SendMessage /\ Turn(p, r) /\ runId' = r
                \/ AnswerDialog /\ Resume(p, r) /\ UNCHANGED runId /\ r \in {runId, NewRun}
             /\ (r = runId /\ runId # None) \/ \A o \in Request : request[o] # Idle => request[o].run # r
      BY <2>0, RequestsKeep DEF Goes
    <2>2. p = q
      BY <2>0, <2>1, SentRequest
    <2>3. AnswerDialog /\ Resume(q, r)
      BY <2>0, <2>1, <2>2 DEF Turn, Begin, TypeOK
    <2>4. request'[q].call = pausedRuns[r] /\ pausedRuns[r] # None
      BY <2>0, <2>3 DEF Resume, Begin, TypeOK
    <2>5. Answerable(dialog) /\ dialog.run \in Run /\ dialog.run = runId
      BY <2>0, <2>3 DEF AnswerDialog, TabTrue, DialogTrue, Answerable, LastCall, ToolUse
    <2>6. Resume(NewRequest, runId) /\ NewRequest \in Request /\ request[NewRequest] = Idle
      <3>1. ~Refused(runId)
        BY <2>0, <2>2, <2>3 DEF Refused, vars
      <3> QED
        BY <2>3, <2>5, <3>1, RunAssumption, NewOnes DEF AnswerDialog
    <2>7. NewRequest = q
      <3>1. PICK o \in Request : o = NewRequest
        BY <2>6
      <3> QED
        BY <2>0, <2>5, <2>6, <3>1, SentRequest
    <2>8. request'[q].run = runId /\ request'[q].run = r
      BY <2>0, <2>3, <2>5, <2>6, <2>7, SentRequest
    <2> QED
      BY <2>4, <2>5, <2>8 DEF Answerable
  <1> QED
    BY <1>1, DInvHolds, PTL DEF AppSpec, AnswersWhatItShows

\* NoSilentLoss of Frontend: a run that waits for a broker has its question on
\* screen or on its way, or an error came while it was the tab's, or a message was
\* sent over its dialog; in a tab whose last sign-out left no stream open
\* (App.jsx:99-107, 148-176).
THEOREM NoSilentLossHolds == AppSpec => []NoSilentLoss
  <1>1. DInv => NoSilentLoss
    BY Zenon DEF DInv, TabTrue, NothingLost, TellsOf, NoSilentLoss
  <1> QED
    BY <1>1, DInvHolds, PTL

===============================================================================
