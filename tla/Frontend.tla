------------------------------ MODULE Frontend -------------------------------
(***************************************************************************)
(* The browser tab (frontend/src/App.jsx, api.js) on top of the chat runs  *)
(* of AguiRuns, and the token check that every request passes              *)
(* (backend/auth.py).  One tab, several sign-ins.  The tab keeps one run   *)
(* id, one dialog and one busy state; the readers of its requests all call *)
(* the same handleEvent and outlive a sign-out.                            *)
(*                                                                         *)
(* The answer to a dialog is sent with the tab's run id: the backend does  *)
(* not look at the interrupt's own id.                                     *)
(***************************************************************************)
EXTENDS AguiRuns

CONSTANTS
  MaxLogins,  \* bound: sign-ins, each a new thread
  MaxKeys     \* bound: keys that the user pool signs with, one after another

ASSUME LoginsAssumption == MaxLogins \in Nat \ {0}
ASSUME KeysAssumption == MaxKeys \in Nat \ {0}
ASSUME RunAssumption == None \notin Run  \* a run id is never null

VARIABLES
  session,    \* threadIdRef: drawn anew at each sign-out
  token,      \* session.accessToken, None on the login screen
  runId,      \* runIdRef
  running,    \* running: the input and the dialog's buttons are disabled
  dialog,     \* pendingInterrupt: the call it asks about
  screen,     \* the runs whose text is on screen
  warned,     \* the runs that were the tab's when an error came on the screen
  by,         \* the session that sent each request, 0 if none has
  reader,     \* streamAgui, for each request
  published,  \* the key of the user pool that signs new tokens
  jwks,       \* _jwks_cache, 0 when there is none or it is an hour old
  passed,     \* history: the runs over whose dialog a message was sent
  clean       \* history: no stream was open at the last sign-out, and no stream
              \* that had told its outcome failed under a busy tab since

tab == <<session, token, runId, running, dialog, screen, warned, passed>>
readers == <<by, reader>>
keys == <<published, jwks>>
appVars == <<vars, tab, readers, keys, clean>>

Session == 1..MaxLogins
Token == 1..MaxKeys  \* known by their keys

AppTypeOK ==
  /\ TypeOK
  /\ session \in Session /\ token \in Token \cup {None}
  /\ runId \in Run \cup {None} /\ dialog \in ToolUse \cup {None}
  /\ running \in BOOLEAN /\ clean \in BOOLEAN
  /\ screen \subseteq Run /\ warned \subseteq Run \cup {None} /\ passed \subseteq Run
  /\ by \in [Request -> {0} \cup Session]
  /\ reader \in [Request -> {"none", "open", "told", "closed"}]
  /\ published \in 1..MaxKeys /\ jwks \in 0..MaxKeys

AppInit ==
  /\ Init
  /\ session = 1 /\ token = None /\ runId = None /\ dialog = None
  /\ running = FALSE /\ screen = {} /\ warned = {} /\ passed = {}
  /\ by = [q \in Request |-> 0] /\ reader = [q \in Request |-> "none"]
  /\ published = 1 /\ jwks = 0
  /\ clean = TRUE

-----------------------------------------------------------------------------
\* _get_jwks
KeyInUse == IF jwks = 0 THEN published ELSE jwks

\* The fetch may fail, which leaves the cache as it was.
Fetch == jwks' = KeyInUse
FetchFails == Faults /\ jwks = 0 /\ UNCHANGED jwks

\* verify_token and group_for_claims, in _require_actor: a token of another key
\* fails.  One of this key may have expired since, or its user may be in neither
\* group, which is left open at each request.
Accepted == token = KeyInUse /\ Fetch

\* /auth/login: the new token is verified outside the try, so one whose key is
\* not in the cache yet ends the login with a 500.  A user in neither group is
\* let in here and refused later.
LogIn ==
  /\ token = None
  /\ Fetch /\ KeyInUse = published
  /\ token' = published
  /\ UNCHANGED <<vars, session, runId, running, dialog, screen, warned, passed,
                 readers, published, clean>>

\* Mutants: the run id survives the sign-out; the new thread's id becomes the run's.
KeepRunId == UNCHANGED runId
ThreadAsRunId == runId' = session
ForgetRunId == runId' = None

\* Mutant: the messages survive it.
KeepScreen == UNCHANGED screen
ClearScreen == screen' = {}

\* handleLogout: the readers go on.
LogOut ==
  /\ token # None /\ session < MaxLogins
  /\ session' = session + 1
  /\ token' = None
  /\ ForgetRunId /\ ClearScreen
  /\ dialog' = None /\ running' = FALSE /\ warned' = {} /\ passed' = {}
  /\ clean' = \A q \in Request : reader[q] # "open"
  /\ UNCHANGED <<vars, readers, keys>>

-----------------------------------------------------------------------------
Unsent == {q \in Request : request[q] = Idle}
NewRequest == CHOOSE q \in Unsent : TRUE

Unused == {r \in Run : /\ streams[r] = 0
                       /\ \A q \in Request : request[q] # Idle => request[q].run # r}
NewRun == CHOOSE r \in Unused : TRUE

Read(q) ==
  /\ by' = [by EXCEPT ![q] = session]
  /\ reader' = [reader EXCEPT ![q] = "open"]

\* A 401, 403 or 500 instead of a stream.
Refused(r) ==
  /\ FetchFails \/ Fetch
  /\ running' = FALSE /\ warned' = warned \cup {r}
  /\ UNCHANGED <<vars, readers>>

\* Mutant: not looked at.
MayAlwaysSend == TRUE
MaySend == ~running

\* handleSend.  Nothing but running disables the input, so it works over a dialog.
SendMessage ==
  /\ token # None /\ MaySend
  /\ Unsent # {} /\ Unused # {}
  /\ runId' = NewRun
  /\ passed' = IF dialog = None THEN passed ELSE passed \cup {dialog.run}
  /\ \/ /\ Accepted
        /\ Turn(NewRequest, runId') /\ Read(NewRequest)
        /\ running' = TRUE /\ UNCHANGED warned
     \/ Refused(runId')
  /\ UNCHANGED <<session, token, dialog, screen, published, clean>>

\* Mutant: the dialog stays.
KeepDialog == UNCHANGED dialog
CloseDialog == dialog' = None

\* handleInterruptAnswer: without a run id the backend draws one nobody knows.
\* The dialog is gone even if the answer is refused.
AnswerDialog ==
  /\ token # None /\ dialog # None /\ ~running
  /\ Unsent # {} /\ (runId = None => Unused # {})
  /\ CloseDialog
  /\ \/ /\ Accepted
        /\ Resume(NewRequest, IF runId = None THEN NewRun ELSE runId) /\ Read(NewRequest)
        /\ running' = TRUE /\ UNCHANGED warned
     \/ Refused(runId)
  /\ UNCHANGED <<session, token, runId, screen, passed, published, clean>>

-----------------------------------------------------------------------------
\* handleEvent, of whichever session the reader is.
Show(q) ==
  /\ reader[q] = "open" /\ streams[request[q].run] > 0
  /\ request[q].run \notin screen
  /\ screen' = screen \cup {request[q].run}
  /\ UNCHANGED <<vars, session, token, runId, running, dialog, warned, passed, readers, keys, clean>>

\* Mutant: an interrupt is taken for the end of the run.
AlwaysEnds(q) == CloseDialog
Outcome(q) == IF sent[q] = <<"interrupt">> THEN dialog' = request[q].call ELSE CloseDialog

\* RUN_FINISHED and RUN_ERROR.
Deliver(q) ==
  /\ reader[q] = "open" /\ sent[q] # <<>>
  /\ reader' = [reader EXCEPT ![q] = "told"]
  /\ running' = FALSE
  /\ IF sent[q] = <<"error">> THEN warned' = warned \cup {runId} /\ UNCHANGED dialog
                              ELSE Outcome(q) /\ UNCHANGED warned
  /\ UNCHANGED <<vars, session, token, runId, screen, passed, by, keys, clean>>

\* Mutant: no catch.
StayBusy == UNCHANGED running
Release == running' = FALSE

\* reader.read() rejects.
Reject(q) ==
  /\ reader' = [reader EXCEPT ![q] = "closed"]
  /\ Release /\ warned' = warned \cup {runId}
  /\ clean' = (clean /\ ~(running /\ reader[q] = "told"))
  /\ UNCHANGED <<vars, session, token, runId, dialog, screen, passed, by, keys>>

\* The backend broke off, or could not encode the outcome of an unknown run.
BrokenOff(q) ==
  /\ \/ reader[q] \in {"open", "told"} /\ request[q].pc = "cut"
     \/ reader[q] = "open" /\ sent[q] = <<"unknown">>
  /\ Reject(q)

\* The network did.
ConnectionLost(q) == Faults /\ reader[q] = "open" /\ Reject(q)

-----------------------------------------------------------------------------
\* The backend, whatever the tab does.  Bound: no stream runs the code
\* interpreter, which concerns the gate of AguiRuns alone.
Behind == ranCode' = {} /\ UNCHANGED <<tab, readers, keys, clean>>

Work(q) == Step(q) /\ Behind
Backend == ((\E q \in Request : Step(q) \/ Cut(q)) \/ Restart) /\ Behind

\* Mutant: the cache is never fetched again.
NeverOld == FALSE
OldEnough == jwks # 0

\* _JWKS_TTL_SECONDS pass.
CacheAges ==
  /\ OldEnough /\ jwks' = 0
  /\ UNCHANGED <<vars, tab, readers, published, clean>>

Rotate ==
  /\ published < MaxKeys /\ published' = published + 1
  /\ UNCHANGED <<vars, tab, readers, jwks, clean>>

AppNext ==
  \/ LogIn \/ LogOut \/ SendMessage \/ AnswerDialog
  \/ \E q \in Request : Show(q) \/ Deliver(q) \/ BrokenOff(q) \/ ConnectionLost(q)
  \/ Backend \/ CacheAges \/ Rotate

AppSpec == AppInit /\ [][AppNext]_appVars

\* Streams of the harness end or time out, the browser reads on, hours pass.
AppFairSpec ==
  /\ AppSpec
  /\ \A q \in Request : WF_appVars(Work(q)) /\ WF_appVars(Deliver(q) \/ BrokenOff(q))
  /\ WF_appVars(CacheAges)

-----------------------------------------------------------------------------
\* Nobody answers for another session: even when a sign-out leaves streams open
\* and their dialogs appear to the next user, all requests that a run took came
\* from one session (App.jsx:125, main.py:284).
OwnAnswer ==
  \A p, q \in Request :
    /\ request[p] # Idle /\ sent[p] # <<"unknown">>
    /\ request[q] # Idle /\ sent[q] # <<"unknown">>
    /\ request[p].run = request[q].run
    => by[p] = by[q]

\* In a clean tab the call that the backend answers is the one the dialog showed,
\* although the answer names a run and not the question (App.jsx:169): unless a
\* message was sent over that dialog (App.jsx:142-149).  Then it is whatever the new
\* run waits for, if it waits.
AnswersWhatItShows ==
  [][\A q \in Request :
       clean /\ request[q] = Idle /\ request'[q] # Idle /\ request'[q].pc = "answer"
       => request'[q].call = dialog \/ dialog.run \in passed]_appVars

\* In a clean tab a dialog on screen asks what is still open: its run waits for that
\* very call, unless a restart made it forget, and nobody has begun to answer it.
\* The run is the tab's, unless a message was sent over the dialog.
DialogStillAsks ==
  clean /\ dialog # None =>
    /\ pausedRuns[dialog.run] \in {dialog, None}
    /\ \A a \in answers : a.call # dialog
    /\ \A q \in Request : request[q].pc \in {"answer", "drain"} => request[q].run # dialog.run
    /\ runId = dialog.run \/ dialog.run \in passed

\* The input is disabled only while a request of this session is under way, and in
\* a clean tab as long as it is (App.jsx:148, 99-107, 158, 174).  In one that is not,
\* the end of another stream enables it early.
BusyIsTrue ==
  /\ running => \E q \in Request : by[q] = session /\ reader[q] = "open"
  /\ clean /\ ~running => \A q \in Request : by[q] = session => reader[q] # "open"

\* In a clean tab a run that waits for a broker is not lost in silence: its question
\* is on screen or on its way there, or an error came while it was the tab's run.
\* The exception is a run over whose dialog a message was sent: the end of the new
\* run takes the dialog away (App.jsx:101-104) and says nothing of the old one.
NoSilentLoss ==
  \A q \in Request :
    clean /\ by[q] = session =>
      \/ pausedRuns[request[q].run] \in {None, dialog}
      \/ \E p \in Request : reader[p] = "open" /\ request[p].run = request[q].run
      \/ request[q].run \in warned \cup passed

\* In a clean tab what is on screen is of this session (App.jsx:116).
OwnScreen ==
  clean => \A r \in screen : \E q \in Request : by[q] = session /\ request[q].run = r

\* Whatever breaks, the input is enabled again.
InputReturns == running ~> ~running

\* After a rotation sign-ins fail, but not for good (auth.py:33, main.py:105).
LoginReturns == (KeyInUse # published) ~> (KeyInUse = published)
==============================================================================
